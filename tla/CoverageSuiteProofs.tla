------------------------- MODULE CoverageSuiteProofs ------------------------
(***************************************************************************)
(* The files of the evaluation, for every corpus, every contract, every    *)
(* set of answers and every number of stops and crashes.  None of the      *)
(* properties is inductive as it stands: what they say of the files holds  *)
(* because of what the commands under way still have to ask, and of what   *)
(* a torn line will become.                                                *)
(***************************************************************************)
EXTENDS CoverageSuiteProperties, SetFacts, TLAPS

(***************************************************************************)
(* The inductive invariant.                                                *)
(***************************************************************************)

RunRow   == UNION {[q : {x}, n : Nat, answer : Answers[x]] : x \in Questions}
JudgeRow == [q : Questions, n : Nat, status : Judge]
Lines(s) == {Junk} \cup (IF s = "run" THEN RunRow ELSE JudgeRow)
Work(s)  == IF s = "run" THEN Questions ELSE RunRow
Left(s)  == todo[s] \cup asking[s]

Shape ==
  /\ file   \in [Stages -> Seq({Junk} \cup RunRow \cup JudgeRow)]
  /\ torn   \in [Stages -> BOOLEAN]
  /\ open   \in [Stages -> BOOLEAN]
  /\ pass   \in [Stages -> {"none", "torn", "clean"}]
  /\ tears  \in [Stages -> Nat]
  /\ todo   \in [Stages -> SUBSET (Questions \cup RunRow)]
  /\ asking \in [Stages -> SUBSET (Questions \cup RunRow)]
  /\ asks   \in [Questions -> Nat]
  /\ faults \in Nat
  /\ \A s \in Stages : /\ file[s] \in Seq(Lines(s))
                       /\ Left(s) \subseteq Work(s)
                       /\ IsFiniteSet(asking[s])

\* No question has two rows.
Single ==
  \A s \in Stages : \A i, k \in DOMAIN file[s] :
    file[s][i] # Junk /\ file[s][k] # Junk /\ file[s][i].q = file[s][k].q => i = k

\* What is left to do has no row yet, and no two rows are judged for one
\* question.
Fresh ==
  /\ \A s \in Stages : \A x \in Left(s) : Of(s, x) \notin Done(s)
  /\ \A x, y \in Left("judge") : x.q = y.q => x = y

\* As long as every line of the results can be read none has been lost: what
\* is judged, or was, is there.
Graded ==
  Readable("run") =>
    /\ \A v \in Rows("judge") : \E r \in Rows("run") : v.q = r.q /\ v.n = r.n
    /\ Left("judge") \subseteq Rows("run")

\* A pass that is not cut short has a row of each question, or has it left to
\* do; once it has written onto a torn line, of all but two.
Gone == Questions \ (Done("run") \cup Left("run"))

Covered ==
  /\ pass["run"] = "clean" => ~torn["run"] /\ Gone = {}
  /\ pass["run"] = "torn" =>
       /\ torn["run"] => Gone = {}
       /\ \E x, y \in Questions \cup {Junk} : Gone \subseteq {x, y}

\* A torn line counts as spoilt already: the next write makes it so.
Spoilt(s) == {i \in DOMAIN file[s] : \/ file[s][i] = Junk
                                     \/ torn[s] /\ i = Len(file[s])}

Counted == \A s \in Stages : Cardinality(Spoilt(s)) <= tears[s]

IInv == TypeOK /\ Shape /\ Single /\ Fresh /\ Graded /\ Covered /\ Counted

-----------------------------------------------------------------------------
(***************************************************************************)
(* The lines of a file, and what a write does to them.                     *)
(***************************************************************************)

\* A row is not taken for the remains of one.
LEMMA RowsAreNotJunk == \A r \in RunRow \cup JudgeRow : r # Junk
<1>1. ASSUME NEW r \in RunRow PROVE r # Junk
  <2>1. PICK x \in Questions : r \in [q : {x}, n : Nat, answer : Answers[x]]
    BY DEF RunRow
  <2>. QED  BY <2>1 DEF Junk
<1>2. ASSUME NEW r \in JudgeRow PROVE r # Junk
  BY DEF JudgeRow, Junk
<1>. QED  BY <1>1, <1>2

\* A row of results is for a question, one of a corpus.
LEMMA RunRowIs ==
  ASSUME NEW r \in RunRow
  PROVE  r.q \in Questions /\ r.n \in Nat /\ r.answer \in Answers[r.q]
<1>1. PICK x \in Questions : r \in [q : {x}, n : Nat, answer : Answers[x]]
  BY DEF RunRow
<1>. QED  BY <1>1

\* A write adds a line, or spoils the last one.
LEMMA WriteIs ==
  ASSUME NEW S, Junk \in S, NEW lines \in Seq(S), NEW row \in S,
         NEW cut \in BOOLEAN, cut => lines # <<>>,
         NEW w, w = Write(lines, cut, row), NEW n, n = Len(lines)
  PROVE  /\ w \in Seq(S) /\ w # <<>> /\ Len(w) \in Nat
         /\ n \in Nat /\ DOMAIN lines = 1 .. n
         /\ cut => /\ n \in DOMAIN lines /\ Len(w) = n /\ DOMAIN w = 1 .. n
                   /\ w[n] = Junk
                   /\ \A i \in 1 .. n : i # n => w[i] = lines[i]
         /\ ~cut => /\ Len(w) = n + 1 /\ DOMAIN w = 1 .. n + 1
                    /\ w[n + 1] = row
                    /\ \A i \in 1 .. n : w[i] = lines[i]
<1>1. n \in Nat /\ DOMAIN lines = 1 .. n
  OBVIOUS
<1>2. CASE cut
  <2>1. n >= 1
    BY <1>2
  <2>2. /\ Front(lines) \in Seq(S) /\ Len(Front(lines)) = n - 1
        /\ \A i \in 1 .. n - 1 : Front(lines)[i] = lines[i]
    BY <1>1, <2>1 DEF Front
  <2>3. w = Append(Front(lines), Junk)
    BY <1>2 DEF Write
  <2>4. PICK f : f = Front(lines)
    OBVIOUS
  <2>5. f \in Seq(S) /\ Len(f) = n - 1 /\ \A i \in 1 .. n - 1 : f[i] = lines[i]
    BY <2>2, <2>4
  <2>6. w = Append(f, Junk)
    BY <2>3, <2>4
  <2>7. w \in Seq(S) /\ Len(w) = n /\ DOMAIN w = 1 .. n /\ w[n] = Junk /\ w # <<>>
    <3>1. w \in Seq(S) /\ Len(w) = Len(f) + 1 /\ w[Len(f) + 1] = Junk
      BY <2>5, <2>6
    <3>2. Len(w) = n /\ w[n] = Junk
      BY <1>1, <2>5, <3>1
    <3>. QED  BY <2>1, <3>1, <3>2
  <2>8. \A i \in 1 .. n : i # n => w[i] = lines[i]
    <3>1. \A i \in 1 .. n : i # n => i \in 1 .. n - 1
      BY <1>1
    <3>2. \A i \in 1 .. n - 1 : w[i] = f[i]
      BY <1>1, <2>5, <2>6
    <3>. QED  BY <2>5, <3>1, <3>2
  <2>9. n \in DOMAIN lines
    BY <1>1, <2>1
  <2>. QED  BY <1>1, <1>2, <2>7, <2>8, <2>9
<1>3. CASE ~cut
  <2>1. w = Append(lines, row)
    BY <1>3 DEF Write
  <2>3. w \in Seq(S) /\ Len(w) = n + 1 /\ DOMAIN w = 1 .. n + 1 /\ w[n + 1] = row
    BY <1>1, <2>1
  <2>4. \A i \in 1 .. n : w[i] = lines[i]
    BY <1>1, <2>1
  <2>5. w # <<>>
    BY <1>1, <2>3
  <2>. QED  BY <1>1, <1>3, <2>3, <2>4, <2>5
<1>. QED  BY <1>2, <1>3

\* What a write makes of the file of a command, line by line.
Wrote(s, row) == file' = [file EXCEPT ![s] = Write(@, torn[s], row)]

\* The file then has lines of its command, the last one the row or junk, and
\* the other command's file is as it was.
LEMMA Written ==
  ASSUME Shape, TypeOK, NEW s \in Stages, NEW row \in Lines(s), Wrote(s, row)
  PROVE  /\ file' \in [Stages -> Seq({Junk} \cup RunRow \cup JudgeRow)]
         /\ file'[s] \in Seq(Lines(s)) /\ file'[s] # <<>>
         /\ \A t \in Stages : t # s => file'[t] = file[t]
         /\ Len(file[s]) \in Nat /\ DOMAIN file[s] = 1 .. Len(file[s])
         /\ torn[s] => LET n == Len(file[s]) IN
              /\ n \in DOMAIN file[s] /\ Len(file'[s]) = n /\ DOMAIN file'[s] = 1 .. n
              /\ file'[s][n] = Junk
              /\ \A i \in 1 .. n : i # n => file'[s][i] = file[s][i]
         /\ ~torn[s] => LET n == Len(file[s]) IN
              /\ Len(file'[s]) = n + 1 /\ DOMAIN file'[s] = 1 .. n + 1
              /\ file'[s][n + 1] = row
              /\ \A i \in 1 .. n : file'[s][i] = file[s][i]
<1>1. /\ file[s] \in Seq(Lines(s)) /\ Junk \in Lines(s) /\ torn[s] \in BOOLEAN
      /\ torn[s] => file[s] # <<>>
  BY DEF Shape, TypeOK, Lines
<1>2. DOMAIN file = Stages
  BY DEF Shape
<1>3. file'[s] = Write(file[s], torn[s], row)
  BY <1>2 DEF Wrote
<1>4. \A t \in Stages : t # s => file'[t] = file[t]
  BY <1>2 DEF Wrote
<1>5. file'[s] \in Seq(Lines(s)) /\ file'[s] # <<>>
  <2>1. PICK S, l, c, n : S = Lines(s) /\ l = file[s] /\ c = torn[s] /\ n = Len(l)
    OBVIOUS
  <2>2. /\ Junk \in S /\ l \in Seq(S) /\ row \in S /\ c \in BOOLEAN
        /\ c => l # <<>>
        /\ file'[s] = Write(l, c, row)
    BY <1>1, <1>3, <2>1
  <2>3. file'[s] \in Seq(S) /\ file'[s] # <<>>
    BY <2>1, <2>2, WriteIs
  <2>. QED  BY <2>1, <2>3
<1>6. file' \in [Stages -> Seq({Junk} \cup RunRow \cup JudgeRow)]
  <2>1. Lines(s) \subseteq {Junk} \cup RunRow \cup JudgeRow
    BY DEF Lines
  <2>2. file'[s] \in Seq({Junk} \cup RunRow \cup JudgeRow)
    BY <1>5, <2>1
  <2>. QED  BY <2>2 DEF Wrote, Shape
<1>7. PICK w, n : w = Write(file[s], torn[s], row) /\ n = Len(file[s])
  OBVIOUS
<1>8. /\ n \in Nat /\ DOMAIN file[s] = 1 .. n
      /\ torn[s] => /\ n \in DOMAIN file[s] /\ Len(w) = n /\ DOMAIN w = 1 .. n
                     /\ w[n] = Junk
                     /\ \A i \in 1 .. n : i # n => w[i] = file[s][i]
      /\ ~torn[s] => /\ Len(w) = n + 1 /\ DOMAIN w = 1 .. n + 1
                      /\ w[n + 1] = row
                      /\ \A i \in 1 .. n : w[i] = file[s][i]
  <2>1. PICK S, l, c : S = Lines(s) /\ l = file[s] /\ c = torn[s]
    OBVIOUS
  <2>2. /\ Junk \in S /\ l \in Seq(S) /\ row \in S /\ c \in BOOLEAN
        /\ c => l # <<>>
    BY <1>1, <2>1
  <2>3. w = Write(l, c, row) /\ n = Len(l)
    BY <1>7, <2>1
  <2>4. /\ n \in Nat /\ DOMAIN l = 1 .. n
        /\ c => /\ n \in DOMAIN l /\ Len(w) = n /\ DOMAIN w = 1 .. n
                /\ w[n] = Junk
                /\ \A i \in 1 .. n : i # n => w[i] = l[i]
        /\ ~c => /\ Len(w) = n + 1 /\ DOMAIN w = 1 .. n + 1
                 /\ w[n + 1] = row
                 /\ \A i \in 1 .. n : w[i] = l[i]
    BY <2>2, <2>3, WriteIs, SMTT(60)
  <2>. QED  BY <2>1, <2>4
<1>. QED  BY <1>3, <1>4, <1>5, <1>6, <1>7, <1>8

\* On a torn line no row is gained and at most the last is lost, and the file
\* cannot be read; otherwise the row is added.
LEMMA WrittenRows ==
  ASSUME Shape, TypeOK, NEW s \in Stages, NEW row \in Lines(s), Wrote(s, row)
  PROVE  /\ torn[s] => /\ Rows(s)' \subseteq Rows(s) /\ ~Readable(s)'
                       /\ Rows(s) \ Rows(s)' \subseteq {file[s][Len(file[s])]}
         /\ ~torn[s] => /\ Rows(s)' = Rows(s) \cup ({row} \ {Junk})
                        /\ Readable(s)' => Readable(s)
<1>. DEFINE n == Len(file[s])
<1>0. /\ Rows(s)' = {file'[s][i] : i \in DOMAIN file'[s]} \ {Junk}
      /\ Rows(s) = {file[s][i] : i \in DOMAIN file[s]} \ {Junk}
      /\ Readable(s)' <=> \A i \in DOMAIN file'[s] : file'[s][i] # Junk
      /\ Readable(s) <=> \A i \in DOMAIN file[s] : file[s][i] # Junk
  BY DEF Rows, Readable, ToSet
<1>1. CASE torn[s]
  <2>1. /\ n \in Nat /\ DOMAIN file[s] = 1 .. n /\ n \in DOMAIN file[s]
        /\ DOMAIN file'[s] = 1 .. n /\ file'[s][n] = Junk
        /\ \A i \in 1 .. n : i # n => file'[s][i] = file[s][i]
    BY <1>1, Written
  <2>. QED  BY <1>0, <1>1, <2>1
<1>2. CASE ~torn[s]
  <2>1. /\ n \in Nat /\ DOMAIN file[s] = 1 .. n
        /\ DOMAIN file'[s] = 1 .. n + 1 /\ file'[s][n + 1] = row
        /\ \A i \in 1 .. n : file'[s][i] = file[s][i]
    BY <1>2, Written
  <2>2. DOMAIN file'[s] = DOMAIN file[s] \cup {n + 1} /\ n + 1 \notin DOMAIN file[s]
    BY <2>1
  <2>3. \A i \in DOMAIN file[s] : file'[s][i] = file[s][i]
    BY <2>1
  <2>4. {file'[s][i] : i \in DOMAIN file'[s]} = {file[s][i] : i \in DOMAIN file[s]} \cup {row}
    BY <2>1, <2>2, <2>3
  <2>. QED  BY <1>0, <1>2, <2>2, <2>3, <2>4
<1>. QED  BY <1>1, <1>2

\* The rows of a file that is not written stay.
LEMMA Unwritten ==
  ASSUME NEW s \in Stages, file'[s] = file[s]
  PROVE  Rows(s)' = Rows(s) /\ Done(s)' = Done(s) /\ Readable(s)' = Readable(s)
BY DEF Rows, Done, Readable

\* Rows of results are typed, and so are verdicts.
LEMMA RowsTyped ==
  ASSUME Shape
  PROVE  /\ Rows("run") \subseteq RunRow /\ Rows("judge") \subseteq JudgeRow
         /\ \A s \in Stages : Done(s) \subseteq Questions
<1>1. \A s \in Stages : \A i \in DOMAIN file[s] : file[s][i] \in Lines(s)
  BY DEF Shape
<1>2. Rows("run") \subseteq RunRow
  BY <1>1 DEF Rows, Lines, Stages
<1>3. Rows("judge") \subseteq JudgeRow
  BY <1>1 DEF Rows, Lines, Stages
<1>4. \A r \in RunRow \cup JudgeRow : r.q \in Questions
  BY RunRowIs DEF JudgeRow
<1>. QED  BY <1>2, <1>3, <1>4 DEF Done, Stages

\* A question has one row of a file.
LEMMA SameRow ==
  ASSUME Single, NEW s \in Stages, NEW r \in Rows(s), NEW v \in Rows(s), r.q = v.q
  PROVE  r = v
<1>1. PICK i \in DOMAIN file[s] : r = file[s][i]
  BY DEF Rows
<1>2. PICK k \in DOMAIN file[s] : v = file[s][k]
  BY DEF Rows
<1>3. r # Junk /\ v # Junk
  BY DEF Rows
<1>. QED  BY <1>1, <1>2, <1>3 DEF Single

\* What comes of a question, or of a row that is judged, is a row for it.
LEMMA OutcomeIs ==
  ASSUME Shape, NEW s \in Stages, NEW x \in Work(s), NEW row \in Outcomes(s, x)
  PROVE  /\ row \in Lines(s) /\ row # Junk /\ row.q = Of(s, x)
         /\ s = "judge" => row.n = x.n
<1>1. CASE s = "run"
  <2>1. x \in Questions /\ asks[x] \in Nat
    BY <1>1 DEF Work, Shape
  <2>2. PICK a \in Answers[x] : row = [q |-> x, n |-> asks[x], answer |-> a]
    BY <1>1 DEF Outcomes, AnswerRows
  <2>3. row \in [q : {x}, n : Nat, answer : Answers[x]]
    BY <2>1, <2>2
  <2>4. row \in RunRow
    BY <2>1, <2>3 DEF RunRow
  <2>. QED  BY <1>1, <2>2, <2>4, RowsAreNotJunk DEF Lines, Of
<1>2. CASE s = "judge"
  <2>1. x.q \in Questions /\ x.n \in Nat
    BY <1>2, RunRowIs DEF Work
  <2>2. PICK v \in Judge : row = [q |-> x.q, n |-> x.n, status |-> v]
    BY <1>2 DEF Outcomes, VerdictRows
  <2>3. row \in JudgeRow
    BY <2>1, <2>2 DEF JudgeRow
  <2>. QED  BY <1>2, <2>2, <2>3, RowsAreNotJunk DEF Lines, Of
<1>. QED  BY <1>1, <1>2 DEF Stages

\* A row written for a question that had none leaves one for each.
LEMMA SingleWritten ==
  ASSUME Shape, TypeOK, Single, NEW s \in Stages, NEW row \in Lines(s), Wrote(s, row),
         row = Junk \/ row.q \notin Done(s)
  PROVE  Single'
<1>. SUFFICES ASSUME NEW t \in Stages, NEW i \in DOMAIN file'[t], NEW k \in DOMAIN file'[t],
                     file'[t][i] # Junk, file'[t][k] # Junk,
                     file'[t][i].q = file'[t][k].q
              PROVE  i = k
  BY DEF Single
<1>1. CASE t # s
  <2>1. file'[t] = file[t]
    BY <1>1, Written
  <2>. QED  BY <2>1 DEF Single
<1>2. CASE t = s /\ torn[s]
  <2>1. PICK n : n = Len(file[s])
    OBVIOUS
  <2>2. /\ DOMAIN file'[s] = 1 .. n /\ DOMAIN file[s] = 1 .. n /\ file'[s][n] = Junk
        /\ \A m \in 1 .. n : m # n => file'[s][m] = file[s][m]
    BY <1>2, <2>1, Written
  <2>3. file'[s][i] = file[s][i] /\ file'[s][k] = file[s][k]
    <3>1. i \in 1 .. n /\ k \in 1 .. n /\ i # n /\ k # n
      BY <1>2, <2>2
    <3>. QED  BY <2>2, <3>1
  <2>4. i \in DOMAIN file[s] /\ k \in DOMAIN file[s]
    BY <1>2, <2>2
  <2>5. file[s][i] # Junk /\ file[s][k] # Junk /\ file[s][i].q = file[s][k].q
    BY <1>2, <2>3
  <2>. QED  BY <2>4, <2>5 DEF Single
<1>3. CASE t = s /\ ~torn[s]
  <2>1. PICK n : n = Len(file[s])
    OBVIOUS
  <2>2. /\ n \in Nat /\ DOMAIN file'[s] = 1 .. n + 1 /\ DOMAIN file[s] = 1 .. n
        /\ file'[s][n + 1] = row
        /\ \A m \in 1 .. n : file'[s][m] = file[s][m]
    BY <1>3, <2>1, Written
  <2>3. \A m \in 1 .. n : file[s][m] # Junk => file[s][m].q \in Done(s)
    BY <2>2 DEF Done, Rows
  <2>4. i \in 1 .. n + 1 /\ k \in 1 .. n + 1
    BY <1>3, <2>2
  <2>5. CASE i \in 1 .. n /\ k \in 1 .. n
    BY <1>3, <2>2, <2>5 DEF Single
  <2>6. CASE i = n + 1 /\ k \in 1 .. n
    BY <1>3, <2>2, <2>3, <2>6
  <2>7. CASE k = n + 1 /\ i \in 1 .. n
    BY <1>3, <2>2, <2>3, <2>7
  <2>8. i = n + 1 \/ i \in 1 .. n
    BY <2>2, <2>4
  <2>9. k = n + 1 \/ k \in 1 .. n
    BY <2>2, <2>4
  <2>. QED  BY <2>5, <2>6, <2>7, <2>8, <2>9
<1>. QED  BY <1>1, <1>2, <1>3

\* The lines of a file are finitely many, and so are the spoilt ones.
LEMMA SpoiltFinite ==
  ASSUME Shape, NEW s \in Stages
  PROVE  IsFiniteSet(Spoilt(s)) /\ Cardinality(Spoilt(s)) \in Nat
<1>1. Spoilt(s) \subseteq 1 .. Len(file[s]) /\ Len(file[s]) \in Nat
  BY DEF Spoilt, Shape
<1>. QED  BY <1>1, PartOfInterval

\* A row written whole spoils no line but the one it is written onto, which
\* counts already; one written in part spoils one more.
LEMMA SpoiltWritten ==
  ASSUME Shape, TypeOK, NEW s \in Stages, NEW row \in Lines(s), Wrote(s, row)
  PROVE  /\ torn'[s] = FALSE /\ row # Junk => Spoilt(s)' \subseteq Spoilt(s)
         /\ Spoilt(s)' \subseteq Spoilt(s) \cup {Len(file[s]) + 1}
<1>0. PICK n : n = Len(file[s])
  OBVIOUS
<1>. DEFINE Sp == {i \in DOMAIN file'[s] :
                     file'[s][i] = Junk \/ (torn'[s] /\ i = Len(file'[s]))}
<1>1. Spoilt(s)' = Sp
  BY DEF Spoilt
<1>2. CASE torn[s]
  <2>1. /\ DOMAIN file'[s] = 1 .. n /\ DOMAIN file[s] = 1 .. n /\ Len(file'[s]) = n
        /\ \A m \in 1 .. n : m # n => file'[s][m] = file[s][m]
    BY <1>0, <1>2, Written
  <2>2. ASSUME NEW i \in Sp PROVE i \in Spoilt(s)
    BY <1>0, <1>2, <2>1 DEF Spoilt
  <2>. QED  BY <1>1, <2>2
<1>3. CASE ~torn[s]
  <2>1. /\ n \in Nat /\ DOMAIN file'[s] = 1 .. n + 1 /\ DOMAIN file[s] = 1 .. n
        /\ Len(file'[s]) = n + 1 /\ file'[s][n + 1] = row
        /\ \A m \in 1 .. n : file'[s][m] = file[s][m]
    BY <1>0, <1>3, Written
  <2>2. ASSUME NEW i \in Sp, i # n + 1 PROVE i \in Spoilt(s)
    <3>1. i \in 1 .. n /\ i # Len(file'[s])
      BY <2>1, <2>2
    <3>. QED  BY <2>1, <2>2, <3>1 DEF Spoilt
  <2>3. torn'[s] = FALSE /\ row # Junk => n + 1 \notin Sp
    BY <2>1
  <2>. HIDE DEF Sp
  <2>. QED  BY <1>0, <1>1, <2>2, <2>3
<1>. QED  BY <1>2, <1>3

-----------------------------------------------------------------------------
(***************************************************************************)
(* Each kind of step keeps the invariant.                                  *)
(***************************************************************************)

USE SuiteAssumption DEF Stages

\* What changes nothing keeps it.
LEMMA Stutter ==
  ASSUME IInv, UNCHANGED vars
  PROVE  IInv'
<1>1. \A t \in Stages : /\ Rows(t)' = Rows(t) /\ Done(t)' = Done(t) /\ Left(t)' = Left(t)
                        /\ Readable(t)' = Readable(t) /\ Spoilt(t)' = Spoilt(t)
  BY DEF vars, Rows, Done, Left, Readable, Spoilt
<1>2. Gone' = Gone
  BY <1>1 DEF Gone
<1>3. /\ UNCHANGED <<file, torn, garbled, todo, asking, open>>
      /\ UNCHANGED <<asks, faults, tears, pass>>
  BY DEF vars
<1>4. TypeOK' /\ Shape'
  BY <1>1, <1>3 DEF IInv, TypeOK, Shape
<1>5. Single' /\ Fresh' /\ Graded'
  BY <1>1, <1>3 DEF IInv, Single, Fresh, Graded
<1>6. Covered' /\ Counted'
  BY <1>1, <1>2, <1>3 DEF IInv, Covered, Counted
<1>. QED  BY <1>4, <1>5, <1>6 DEF IInv

\* It holds before anything is asked.
LEMMA InitKeeps == Init => IInv
<1>. SUFFICES ASSUME Init PROVE IInv
  OBVIOUS
<1>0. IsFiniteSet({}) /\ Cardinality({}) = 0
  BY FS_EmptySet
<1>1. \A s \in Stages : /\ file[s] = <<>> /\ torn[s] = FALSE /\ open[s] = FALSE
                        /\ todo[s] = {} /\ asking[s] = {} /\ tears[s] = 0
                        /\ pass[s] = "none"
  BY DEF Init
<1>2. \A s \in Stages : Rows(s) = {} /\ Done(s) = {} /\ Left(s) = {} /\ Spoilt(s) = {}
  BY <1>1 DEF Rows, Done, Left, Spoilt
<1>3. Shape
  <2>1. \A S : <<>> \in Seq(S)
    OBVIOUS
  <2>2. /\ file   \in [Stages -> Seq({Junk} \cup RunRow \cup JudgeRow)]
        /\ torn   \in [Stages -> BOOLEAN]
        /\ open   \in [Stages -> BOOLEAN]
        /\ pass   \in [Stages -> {"none", "torn", "clean"}]
        /\ tears  \in [Stages -> Nat]
        /\ todo   \in [Stages -> SUBSET (Questions \cup RunRow)]
        /\ asking \in [Stages -> SUBSET (Questions \cup RunRow)]
        /\ asks   \in [Questions -> Nat]
        /\ faults \in Nat
    BY <2>1 DEF Init
  <2>3. \A s \in Stages : /\ file[s] \in Seq(Lines(s)) /\ Left(s) \subseteq Work(s)
                          /\ IsFiniteSet(asking[s])
    BY <1>1, <1>2, <2>1, <1>0
  <2>. QED  BY <2>2, <2>3 DEF Shape
<1>4. TypeOK
  <2>1. faults \in 0 .. MaxFaults /\ asks \in [Questions -> Nat]
    BY DEF Init
  <2>2. \A s \in Stages : tears[s] <= faults /\ Cardinality(asking[s]) <= Concurrency
    BY <1>0, <1>1 DEF Init
  <2>3. garbled \in [Stages -> BOOLEAN]
    BY DEF Init
  <2>. QED  BY <1>1, <1>2, <2>1, <2>2, <2>3 DEF TypeOK
<1>5. Single /\ Fresh /\ Graded
  BY <1>1, <1>2 DEF Single, Fresh, Graded
<1>6. Covered /\ Counted
  <2>1. pass["run"] = "none"
    BY <1>1
  <2>2. \A s \in Stages : Cardinality(Spoilt(s)) = 0 /\ tears[s] = 0
    BY <1>0, <1>1, <1>2
  <2>. QED  BY <2>1, <2>2 DEF Covered, Counted
<1>. QED  BY <1>3, <1>4, <1>5, <1>6 DEF IInv

\* A command that starts takes on what has no row.
LEMMA StartKeeps ==
  ASSUME IInv, NEW s \in Stages, NEW P, P # {}, Begin(s, P),
         s = "run" => P = Unanswered,
         s = "judge" => Readable("run") /\ P = Unjudged
  PROVE  IInv'
<1>1. Shape /\ TypeOK /\ Single /\ Fresh /\ Graded /\ Covered /\ Counted
  BY DEF IInv
<1>2. /\ ~open[s]
      /\ todo' = [todo EXCEPT ![s] = P]
      /\ open' = [open EXCEPT ![s] = TRUE]
      /\ pass' = [pass EXCEPT ![s] = IF torn[s] THEN "torn" ELSE "clean"]
      /\ UNCHANGED <<file, torn, garbled, asking, asks, faults, tears>>
  BY DEF Begin
<1>3. \A t \in Stages : /\ Rows(t)' = Rows(t) /\ Done(t)' = Done(t)
                        /\ Readable(t)' = Readable(t) /\ Spoilt(t)' = Spoilt(t)
  BY <1>2 DEF Rows, Done, Readable, Spoilt
<1>4. asking[s] = {} /\ todo[s] = {}
  BY <1>1, <1>2 DEF TypeOK
<1>5. /\ Left(s)' = P
      /\ \A t \in Stages : t # s => Left(t)' = Left(t)
      /\ todo'[s] = P /\ open'[s] = TRUE
      /\ \A t \in Stages : t # s => /\ todo'[t] = todo[t] /\ open'[t] = open[t]
                                     /\ pass'[t] = pass[t]
      /\ pass'[s] = IF torn[s] THEN "torn" ELSE "clean"
  BY <1>1, <1>2, <1>4 DEF Left, Shape
<1>6. P \subseteq Work(s) /\ P \subseteq Questions \cup RunRow
  BY <1>1, RowsTyped DEF Work, Unanswered, Unjudged
<1>7. Shape'
  <2>1. todo' \in [Stages -> SUBSET (Questions \cup RunRow)]
    BY <1>1, <1>2, <1>6 DEF Shape
  <2>2. open' \in [Stages -> BOOLEAN] /\ pass' \in [Stages -> {"none", "torn", "clean"}]
    BY <1>1, <1>2 DEF Shape
  <2>3. \A t \in Stages : Left(t)' \subseteq Work(t)
    BY <1>1, <1>5, <1>6 DEF Shape
  <2>. QED  BY <1>1, <1>2, <2>1, <2>2, <2>3 DEF Shape
<1>8. TypeOK'
  <2>1. asking' = asking /\ file' = file /\ torn' = torn /\ tears' = tears
        /\ faults' = faults /\ asks' = asks /\ garbled' = garbled
    BY <1>2
  <2>2. ASSUME NEW t \in Stages
        PROVE  /\ open'[t] = (todo'[t] \cup asking'[t] # {})
               /\ todo'[t] \cap asking'[t] = {}
    <3>1. CASE t = s
      BY <1>4, <1>5, <2>1, <3>1
    <3>2. CASE t # s
      <4>1. open[t] = (todo[t] \cup asking[t] # {}) /\ todo[t] \cap asking[t] = {}
        BY <1>1 DEF TypeOK
      <4>. QED  BY <1>5, <2>1, <3>2, <4>1
    <3>. QED  BY <3>1, <3>2
  <2>3. \A t \in Stages : Done(t)' \subseteq Questions
    BY <1>1, <1>3 DEF TypeOK
  <2>. QED  BY <1>1, <2>1, <2>2, <2>3 DEF TypeOK
<1>9. Single'
  BY <1>1, <1>2 DEF Single
<1>10. Fresh'
  <2>1. \A x \in P : Of(s, x) \notin Done(s)
    BY DEF Unanswered, Unjudged, Of
  <2>2. ASSUME s = "judge", NEW x \in P, NEW y \in P, x.q = y.q PROVE x = y
    BY <1>1, <2>2, SameRow DEF Unjudged
  <2>. QED  BY <1>1, <1>3, <1>5, <2>1, <2>2 DEF Fresh
<1>11. Graded'
  <2>1. s = "judge" => P \subseteq Rows("run")
    BY DEF Unjudged
  <2>. QED  BY <1>1, <1>3, <1>5, <2>1 DEF Graded
<1>12. Covered'
  <2>1. CASE s = "run"
    <3>1. Gone' = {}
      BY <1>3, <1>5, <2>1 DEF Gone, Unanswered
    <3>2. pass'["run"] = "clean" => ~torn'["run"]
      BY <1>2, <1>5, <2>1
    <3>. QED  BY <3>1, <3>2 DEF Covered
  <2>2. CASE s = "judge"
    <3>1. Gone' = Gone /\ pass'["run"] = pass["run"] /\ torn' = torn
      BY <1>2, <1>3, <1>5, <2>2 DEF Gone
    <3>. QED  BY <1>1, <3>1 DEF Covered
  <2>. QED  BY <2>1, <2>2
<1>13. Counted'
  BY <1>1, <1>2, <1>3 DEF Counted
<1>. QED  BY <1>7, <1>8, <1>9, <1>10, <1>11, <1>12, <1>13 DEF IInv

\* A request that is sent is still to be answered.
LEMMA SendKeeps ==
  ASSUME IInv, NEW s \in Stages, NEW x \in todo[s], Send(s, x)
  PROVE  IInv'
<1>1. Shape /\ TypeOK /\ Single /\ Fresh /\ Graded /\ Covered /\ Counted
  BY DEF IInv
<1>2. /\ Cardinality(asking[s]) < Concurrency
      /\ todo'   = [todo   EXCEPT ![s] = @ \ {x}]
      /\ asking' = [asking EXCEPT ![s] = @ \cup {x}]
      /\ asks' = IF s = "run" THEN [asks EXCEPT ![x] = @ + 1] ELSE asks
      /\ UNCHANGED <<file, torn, garbled, open, faults, tears, pass>>
  BY DEF Send
<1>3. \A t \in Stages : /\ Rows(t)' = Rows(t) /\ Done(t)' = Done(t)
                        /\ Readable(t)' = Readable(t) /\ Spoilt(t)' = Spoilt(t)
  BY <1>2 DEF Rows, Done, Readable, Spoilt
<1>4. /\ todo'[s] = todo[s] \ {x} /\ asking'[s] = asking[s] \cup {x}
      /\ \A t \in Stages : t # s => todo'[t] = todo[t] /\ asking'[t] = asking[t]
  BY <1>1, <1>2 DEF Shape
<1>5. \A t \in Stages : Left(t)' = Left(t)
  BY <1>4 DEF Left
<1>6. /\ IsFiniteSet(asking'[s]) /\ Cardinality(asking'[s]) <= Concurrency
  <2>1. IsFiniteSet(asking[s]) /\ Cardinality(asking[s]) \in Nat
    BY <1>1, FS_CardinalityType DEF Shape
  <2>2. PICK A, k, m : A = asking[s] \cup {x} /\ k = Cardinality(asking[s]) /\ m = Cardinality(A)
    OBVIOUS
  <2>3. x \notin asking[s]
    BY <1>1 DEF TypeOK
  <2>4. IsFiniteSet(A) /\ m = k + 1
    BY <2>1, <2>2, <2>3, FS_AddElement
  <2>5. m <= Concurrency
    BY <1>2, <2>1, <2>2, <2>4
  <2>. QED  BY <1>4, <2>2, <2>4, <2>5
<1>7. Shape'
  <2>1. x \in Work(s) /\ x \in Questions \cup RunRow
    BY <1>1 DEF Shape, Left
  <2>2. /\ todo'   \in [Stages -> SUBSET (Questions \cup RunRow)]
        /\ asking' \in [Stages -> SUBSET (Questions \cup RunRow)]
    BY <1>1, <1>2, <2>1 DEF Shape
  <2>3. asks' \in [Questions -> Nat]
    BY <1>1, <1>2, <2>1 DEF Shape, Work
  <2>4. \A t \in Stages : Left(t)' \subseteq Work(t) /\ IsFiniteSet(asking'[t])
    BY <1>1, <1>4, <1>5, <1>6 DEF Shape
  <2>. QED  BY <1>1, <1>2, <2>2, <2>3, <2>4 DEF Shape
<1>8. TypeOK'
  <2>1. asks' \in [Questions -> Nat]
    BY <1>7 DEF Shape
  <2>2. \A t \in Stages : /\ open'[t] = (todo'[t] \cup asking'[t] # {})
                          /\ todo'[t] \cap asking'[t] = {}
                          /\ Cardinality(asking'[t]) <= Concurrency
    BY <1>1, <1>2, <1>4, <1>6 DEF TypeOK
  <2>. QED  BY <1>1, <1>2, <1>3, <2>1, <2>2 DEF TypeOK
<1>9. Single' /\ Counted'
  BY <1>1, <1>2, <1>3 DEF Single, Counted
<1>10. Fresh' /\ Graded'
  BY <1>1, <1>3, <1>5 DEF Fresh, Graded
<1>11. Covered'
  <2>1. Gone' = Gone
    BY <1>3, <1>5 DEF Gone
  <2>. QED  BY <1>1, <1>2, <2>1 DEF Covered
<1>. QED  BY <1>7, <1>8, <1>9, <1>10, <1>11 DEF IInv

\* An answer that is recorded is no longer to be asked, and has its row, or
\* else the line it was written onto was torn.
LEMMA RecordKeeps ==
  ASSUME IInv, NEW s \in Stages, NEW x \in asking[s], Record(s, x)
  PROVE  IInv'
<1>1. Shape /\ TypeOK /\ Single /\ Fresh /\ Graded /\ Covered /\ Counted
  BY DEF IInv
<1>2. PICK row \in Outcomes(s, x) : Wrote(s, row)
  BY DEF Record, Wrote
<1>3. /\ torn'   = [torn   EXCEPT ![s] = FALSE]
      /\ asking' = [asking EXCEPT ![s] = @ \ {x}]
      /\ open'   = [open   EXCEPT ![s] = asking[s] # {x} \/ todo[s] # {}]
      /\ UNCHANGED <<garbled, todo, asks, faults, tears, pass>>
  BY DEF Record
<1>4. x \in Left(s) /\ x \in Work(s) /\ Of(s, x) \notin Done(s)
  BY <1>1 DEF Left, Shape, Fresh
<1>5. /\ row \in Lines(s) /\ row # Junk /\ row.q = Of(s, x)
      /\ s = "judge" => row.n = x.n
  BY <1>1, <1>2, <1>4, OutcomeIs
<1>6. /\ file' \in [Stages -> Seq({Junk} \cup RunRow \cup JudgeRow)]
      /\ file'[s] \in Seq(Lines(s)) /\ file'[s] # <<>>
      /\ \A t \in Stages : t # s => file'[t] = file[t]
  BY <1>1, <1>2, <1>5, Written
<1>7. /\ torn[s] => /\ Rows(s)' \subseteq Rows(s) /\ ~Readable(s)'
                    /\ Rows(s) \ Rows(s)' \subseteq {file[s][Len(file[s])]}
      /\ ~torn[s] => /\ Rows(s)' = Rows(s) \cup {row}
                     /\ Readable(s)' => Readable(s)
  BY <1>1, <1>2, <1>5, WrittenRows
<1>8. \A t \in Stages : t # s =>
        Rows(t)' = Rows(t) /\ Done(t)' = Done(t) /\ Readable(t)' = Readable(t)
  BY <1>6, Unwritten
<1>9. /\ torn'[s] = FALSE /\ asking'[s] = asking[s] \ {x}
      /\ \A t \in Stages : t # s => torn'[t] = torn[t] /\ asking'[t] = asking[t]
                                   /\ open'[t] = open[t]
      /\ open'[s] = (asking[s] # {x} \/ todo[s] # {})
  BY <1>1, <1>3 DEF Shape
<1>10. x \notin todo[s]
  BY <1>1 DEF TypeOK
<1>11. Left(s)' = Left(s) \ {x} /\ \A t \in Stages : t # s => Left(t)' = Left(t)
  BY <1>3, <1>9, <1>10 DEF Left
<1>12. Done(s)' \subseteq Done(s) \cup {Of(s, x)}
  BY <1>5, <1>7 DEF Done
<1>13. Shape'
  <2>1. torn' \in [Stages -> BOOLEAN] /\ open' \in [Stages -> BOOLEAN]
    BY <1>1, <1>3 DEF Shape
  <2>2. asking' \in [Stages -> SUBSET (Questions \cup RunRow)]
    BY <1>1, <1>3 DEF Shape
  <2>3. IsFiniteSet(asking'[s])
    BY <1>1, <1>9, FS_RemoveElement DEF Shape
  <2>4. \A t \in Stages : /\ file'[t] \in Seq(Lines(t))
                          /\ Left(t)' \subseteq Work(t)
                          /\ IsFiniteSet(asking'[t])
    BY <1>1, <1>6, <1>9, <1>11, <2>3 DEF Shape
  <2>. QED  BY <1>1, <1>3, <1>6, <2>1, <2>2, <2>4 DEF Shape
<1>14. TypeOK'
  <2>1. \A t \in Stages : Done(t)' \subseteq Questions
    <3>1. Of(s, x) \in Questions
      BY <1>4, RunRowIs DEF Of, Work
    <3>. QED  BY <1>1, <1>8, <1>12, <3>1 DEF TypeOK
  <2>2. Cardinality(asking'[s]) <= Concurrency
    <3>1. IsFiniteSet(asking[s]) /\ Cardinality(asking[s]) <= Concurrency
      BY <1>1 DEF Shape, TypeOK
    <3>2. Cardinality(asking[s]) \in Nat /\ Cardinality(asking[s] \ {x}) \in Nat
      BY <3>1, FS_CardinalityType, FS_RemoveElement
    <3>3. Cardinality(asking[s] \ {x}) <= Cardinality(asking[s])
      BY <3>1, FS_Subset
    <3>. QED  BY <1>9, <3>1, <3>2, <3>3
  <2>3. open'[s] = (todo'[s] \cup asking'[s] # {})
    BY <1>3, <1>9, <1>10
  <2>4. \A t \in Stages : /\ open'[t] = (todo'[t] \cup asking'[t] # {})
                          /\ todo'[t] \cap asking'[t] = {}
                          /\ Cardinality(asking'[t]) <= Concurrency
    <3>1. ASSUME NEW t \in Stages, t # s
          PROVE  /\ open[t] = (todo[t] \cup asking[t] # {}) /\ todo[t] \cap asking[t] = {}
                 /\ Cardinality(asking[t]) <= Concurrency
                 /\ open'[t] = open[t] /\ asking'[t] = asking[t] /\ todo'[t] = todo[t]
      BY <1>1, <1>3, <1>9, <3>1 DEF TypeOK
    <3>2. todo'[s] \cap asking'[s] = {}
      <4>1. todo[s] \cap asking[s] = {}
        BY <1>1 DEF TypeOK
      <4>. QED  BY <1>3, <1>9, <4>1
    <3>3. ASSUME NEW t \in Stages
          PROVE  /\ open'[t] = (todo'[t] \cup asking'[t] # {})
                 /\ todo'[t] \cap asking'[t] = {}
                 /\ Cardinality(asking'[t]) <= Concurrency
      <4>1. CASE t = s
        BY <2>2, <2>3, <3>2, <4>1
      <4>2. CASE t # s
        BY <3>1, <4>2
      <4>. QED  BY <4>1, <4>2
    <3>. QED  BY <3>3
  <2>5. \A t \in Stages : (torn'[t] => file'[t] # <<>>) /\ tears'[t] <= faults'
    <3>1. ASSUME NEW t \in Stages, torn'[t] PROVE file'[t] # <<>>
      <4>1. t # s /\ torn[t]
        BY <1>9, <3>1
      <4>2. file[t] # <<>>
        BY <1>1, <4>1 DEF TypeOK
      <4>. QED  BY <1>6, <4>1, <4>2
    <3>2. ASSUME NEW t \in Stages PROVE tears'[t] <= faults'
      BY <1>1, <1>3 DEF TypeOK
    <3>. QED  BY <3>1, <3>2
  <2>. QED  BY <1>1, <1>3, <2>1, <2>4, <2>5 DEF TypeOK
<1>15. Single'
  BY <1>1, <1>2, <1>4, <1>5, SingleWritten
<1>16. Fresh'
  <2>1. \A y \in Left(s) : y # x => Of(s, y) # Of(s, x)
    BY <1>1, <1>4 DEF Fresh, Of
  <2>2. \A y \in Left(s)' : Of(s, y) \notin Done(s)'
    BY <1>1, <1>11, <1>12, <2>1 DEF Fresh
  <2>3. \A t \in Stages : \A y \in Left(t)' : Of(t, y) \notin Done(t)'
    BY <1>1, <1>8, <1>11, <2>2 DEF Fresh
  <2>. QED  BY <1>1, <1>11, <2>3 DEF Fresh
<1>17. Graded'
  <2>1. CASE s = "run"
    <3>1. Rows("judge")' = Rows("judge") /\ Left("judge")' = Left("judge")
      BY <1>8, <1>11, <2>1
    <3>2. Readable("run")' => Readable("run") /\ Rows("run") \subseteq Rows("run")'
      BY <1>1, <1>7, <2>1 DEF Shape
    <3>. QED  BY <1>1, <3>1, <3>2 DEF Graded
  <2>2. CASE s = "judge"
    <3>1. Rows("run")' = Rows("run") /\ Readable("run")' = Readable("run")
      BY <1>8, <2>2
    <3>2. Rows("judge")' \subseteq Rows("judge") \cup {row}
      BY <1>7, <2>2
    <3>3. row.q = x.q /\ row.n = x.n /\ x \in Left("judge")
      BY <1>4, <1>5, <2>2 DEF Of
    <3>. QED  BY <1>1, <1>11, <2>2, <3>1, <3>2, <3>3 DEF Graded
  <2>. QED  BY <2>1, <2>2
<1>18. Covered'
  <2>1. CASE s = "judge"
    <3>1. Gone' = Gone /\ torn'["run"] = torn["run"] /\ pass' = pass
      BY <1>3, <1>8, <1>9, <1>11, <2>1 DEF Gone
    <3>. QED  BY <1>1, <3>1 DEF Covered
  <2>2. CASE s = "run" /\ ~torn["run"]
    <3>1. Done("run")' = Done("run") \cup {x}
      BY <1>5, <1>7, <2>2 DEF Done, Of
    <3>2. Gone' = Gone
      BY <1>4, <1>11, <2>2, <3>1 DEF Gone
    <3>. QED  BY <1>1, <1>3, <1>9, <2>2, <3>2 DEF Covered
  <2>3. CASE s = "run" /\ torn["run"]
    <3>1. PICK last : last = file["run"][Len(file["run"])]
      OBVIOUS
    <3>2. PICK l : l = IF last \in Rows("run") THEN last.q ELSE Junk
      OBVIOUS
    <3>3. Done("run") \ Done("run")' \subseteq {l}
      BY <1>7, <2>3, <3>1, <3>2 DEF Done
    <3>4. pass["run"] = "torn" => Gone' \subseteq {x, l}
      BY <1>1, <1>11, <2>3, <3>3 DEF Covered, Gone
    <3>5. l \in Questions \cup {Junk} /\ x \in Questions \cup {Junk}
      BY <1>1, <1>4, <2>3, <3>2, RowsTyped, RunRowIs DEF Work
    <3>6. pass["run"] # "clean" /\ pass' = pass /\ torn'["run"] = FALSE
      BY <1>1, <1>3, <1>9, <2>3 DEF Covered
    <3>. QED  BY <3>4, <3>5, <3>6 DEF Covered
  <2>. QED  BY <2>1, <2>2, <2>3
<1>19. Counted'
  <2>1. Spoilt(s)' \subseteq Spoilt(s)
    BY <1>1, <1>2, <1>5, <1>9, SpoiltWritten
  <2>2. \A t \in Stages : t # s => Spoilt(t)' = Spoilt(t)
    BY <1>6, <1>9 DEF Spoilt
  <2>3. IsFiniteSet(Spoilt(s)) /\ Cardinality(Spoilt(s)) \in Nat
    BY <1>1, SpoiltFinite
  <2>4. Cardinality(Spoilt(s)') <= Cardinality(Spoilt(s)) /\ Cardinality(Spoilt(s)') \in Nat
    BY <2>1, <2>3, FS_Subset, FS_CardinalityType
  <2>5. Cardinality(Spoilt(s)) <= tears[s] /\ tears[s] \in Nat
    BY <1>1 DEF Counted, Shape
  <2>6. Cardinality(Spoilt(s)') <= tears[s]
    BY <2>3, <2>4, <2>5
  <2>. QED  BY <1>1, <1>3, <2>2, <2>6 DEF Counted
<1>. QED  BY <1>13, <1>14, <1>15, <1>16, <1>17, <1>18, <1>19 DEF IInv

\* A command that ends before its work does leaves nothing to do; what it has
\* made of its file is as it should be.
LEMMA QuitKeeps ==
  ASSUME IInv, NEW s \in Stages, Quit(s),
         file' \in [Stages -> Seq({Junk} \cup RunRow \cup JudgeRow)],
         file'[s] \in Seq(Lines(s)),
         torn' \in [Stages -> BOOLEAN], torn'[s] => file'[s] # <<>>,
         garbled' \in [Stages -> BOOLEAN],
         \A t \in Stages : t # s => file'[t] = file[t] /\ torn'[t] = torn[t],
         tears' \in [Stages -> Nat], \A t \in Stages : tears'[t] <= faults',
         Single', Counted', Done(s)' \subseteq Questions,
         s = "run" => /\ Readable("run")' => Readable("run")
                      /\ Readable("run")' => Rows("run") \subseteq Rows("run")',
         s = "judge" => \A v \in Rows("judge")' :
           v \in Rows("judge") \/ \E x \in Left("judge") : v.q = x.q /\ v.n = x.n
  PROVE  IInv'
<1>1. Shape /\ TypeOK /\ Single /\ Fresh /\ Graded /\ Covered /\ Counted
  BY DEF IInv
<1>2. /\ faults < MaxFaults
      /\ open'   = [open   EXCEPT ![s] = FALSE]
      /\ todo'   = [todo   EXCEPT ![s] = {}]
      /\ asking' = [asking EXCEPT ![s] = {}]
      /\ faults' = faults + 1
      /\ pass'   = [pass   EXCEPT ![s] = "none"]
      /\ UNCHANGED asks
  BY DEF Quit
<1>3. \A t \in Stages : t # s =>
        Rows(t)' = Rows(t) /\ Done(t)' = Done(t) /\ Readable(t)' = Readable(t)
  BY Unwritten
<1>4. /\ open'[s] = FALSE /\ todo'[s] = {} /\ asking'[s] = {} /\ pass'[s] = "none"
      /\ \A t \in Stages : t # s => /\ open'[t] = open[t] /\ todo'[t] = todo[t]
                                   /\ asking'[t] = asking[t] /\ pass'[t] = pass[t]
  BY <1>1, <1>2 DEF Shape
<1>5. Left(s)' = {} /\ \A t \in Stages : t # s => Left(t)' = Left(t)
  BY <1>4 DEF Left
<1>6. IsFiniteSet({}) /\ Cardinality({}) = 0
  BY FS_EmptySet
<1>7. Shape'
  <2>1. open' \in [Stages -> BOOLEAN] /\ pass' \in [Stages -> {"none", "torn", "clean"}]
    BY <1>1, <1>2 DEF Shape
  <2>2. /\ todo'   \in [Stages -> SUBSET (Questions \cup RunRow)]
        /\ asking' \in [Stages -> SUBSET (Questions \cup RunRow)]
    BY <1>1, <1>2 DEF Shape
  <2>3. \A t \in Stages : /\ file'[t] \in Seq(Lines(t))
                          /\ Left(t)' \subseteq Work(t)
                          /\ IsFiniteSet(asking'[t])
    BY <1>1, <1>4, <1>5, <1>6 DEF Shape
  <2>4. faults' \in Nat /\ asks' \in [Questions -> Nat]
    BY <1>1, <1>2 DEF Shape
  <2>. QED  BY <2>1, <2>2, <2>3, <2>4 DEF Shape
<1>8. TypeOK'
  <2>1. faults' \in 0 .. MaxFaults /\ asks' \in [Questions -> Nat]
    BY <1>1, <1>2 DEF TypeOK
  <2>2. \A t \in Stages : Done(t)' \subseteq Questions
    BY <1>1, <1>3 DEF TypeOK
  <2>3. \A t \in Stages : /\ open'[t] = (todo'[t] \cup asking'[t] # {})
                          /\ todo'[t] \cap asking'[t] = {}
                          /\ Cardinality(asking'[t]) <= Concurrency
    <3>1. \A t \in Stages : t # s =>
            /\ open'[t] = (todo'[t] \cup asking'[t] # {})
            /\ todo'[t] \cap asking'[t] = {}
            /\ Cardinality(asking'[t]) <= Concurrency
      BY <1>1, <1>4 DEF TypeOK
    <3>2. /\ open'[s] = (todo'[s] \cup asking'[s] # {})
          /\ todo'[s] \cap asking'[s] = {}
          /\ Cardinality(asking'[s]) <= Concurrency
      <4>1. Cardinality({}) <= Concurrency
        BY <1>6
      <4>. QED  BY <1>4, <4>1
    <3>. QED  BY <3>1, <3>2
  <2>4. \A t \in Stages : torn'[t] => file'[t] # <<>>
    BY <1>1 DEF TypeOK
  <2>. QED  BY <2>1, <2>2, <2>3, <2>4 DEF TypeOK
<1>9. Fresh'
  BY <1>1, <1>3, <1>5 DEF Fresh
<1>10. Graded'
  <2>1. CASE s = "run"
    <3>1. Rows("judge")' = Rows("judge") /\ Left("judge")' = Left("judge")
      BY <1>3, <1>5, <2>1
    <3>. QED  BY <1>1, <2>1, <3>1 DEF Graded
  <2>2. CASE s = "judge"
    <3>1. Rows("run")' = Rows("run") /\ Readable("run")' = Readable("run")
      BY <1>3, <2>2
    <3>2. Left("judge")' = {}
      BY <1>5, <2>2
    <3>. QED  BY <1>1, <2>2, <3>1, <3>2 DEF Graded
  <2>. QED  BY <2>1, <2>2
<1>11. Covered'
  <2>1. CASE s = "run"
    BY <1>4, <2>1 DEF Covered
  <2>2. CASE s = "judge"
    <3>1. Gone' = Gone /\ torn'["run"] = torn["run"] /\ pass'["run"] = pass["run"]
      BY <1>3, <1>4, <1>5, <2>2 DEF Gone
    <3>. QED  BY <1>1, <3>1 DEF Covered
  <2>. QED  BY <2>1, <2>2
<1>. QED  BY <1>7, <1>8, <1>9, <1>10, <1>11 DEF IInv

\* Stopped between two writes, it leaves its file as it is.
LEMMA StopKeeps ==
  ASSUME IInv, NEW s \in Stages, Quit(s), UNCHANGED <<file, torn, garbled, tears>>
  PROVE  IInv'
<1>1. Shape /\ TypeOK /\ Single /\ Counted
  BY DEF IInv
<1>2. \A t \in Stages : /\ Rows(t)' = Rows(t) /\ Done(t)' = Done(t)
                        /\ Readable(t)' = Readable(t) /\ Spoilt(t)' = Spoilt(t)
  BY DEF Rows, Done, Readable, Spoilt
<1>3. Single' /\ Counted'
  BY <1>1, <1>2 DEF Single, Counted
<1>4. /\ file' \in [Stages -> Seq({Junk} \cup RunRow \cup JudgeRow)]
      /\ file'[s] \in Seq(Lines(s)) /\ torn' \in [Stages -> BOOLEAN]
      /\ tears' \in [Stages -> Nat]
  BY <1>1 DEF Shape
<1>5. /\ torn'[s] => file'[s] # <<>>
      /\ Done(s)' \subseteq Questions
      /\ garbled' \in [Stages -> BOOLEAN]
  BY <1>1, <1>2 DEF TypeOK
<1>6. \A t \in Stages : tears'[t] <= faults'
  <2>1. faults' = faults + 1 /\ faults \in Nat
    BY <1>1 DEF Quit, Shape
  <2>2. \A t \in Stages : tears[t] \in Nat /\ tears[t] <= faults
    BY <1>1 DEF Shape, TypeOK
  <2>3. \A t \in Stages : tears[t] <= faults + 1
    BY <2>1, <2>2
  <2>. QED  BY <2>1, <2>3
<1>. QED  BY <1>2, <1>3, <1>4, <1>5, <1>6, QuitKeeps

\* Dying in the middle of a write, it leaves a torn line, and no row that was
\* not to be written.
LEMMA CrashKeeps ==
  ASSUME IInv, NEW s \in Stages, Crash(s)
  PROVE  IInv'
<1>1. Shape /\ TypeOK /\ Single /\ Fresh /\ Counted
  BY DEF IInv
<1>a. PICK x \in asking[s] : \E row \in Outcomes(s, x) \cup {Junk} : Wrote(s, row)
  BY Zenon DEF Crash, Wrote
<1>2. PICK row \in Outcomes(s, x) \cup {Junk} : Wrote(s, row)
  BY <1>a
<1>3. /\ torn'  = [torn  EXCEPT ![s] = TRUE]
      /\ tears' = [tears EXCEPT ![s] = @ + 1]
      /\ Quit(s)
  BY DEF Crash
<1>b. garbled' \in [Stages -> BOOLEAN]
  <2>1. UNCHANGED garbled \/ garbled' = [garbled EXCEPT ![s] = TRUE]
    BY Zenon DEF Crash
  <2>2. garbled \in [Stages -> BOOLEAN]
    BY <1>1 DEF TypeOK
  <2>. QED  BY <2>1, <2>2
<1>4. x \in Left(s) /\ x \in Work(s) /\ Of(s, x) \notin Done(s)
  BY <1>1 DEF Left, Shape, Fresh
<1>5. /\ row \in Lines(s)
      /\ row # Junk => row.q = Of(s, x) /\ (s = "judge" => row.n = x.n)
  BY <1>1, <1>4, OutcomeIs DEF Lines
<1>6. /\ file' \in [Stages -> Seq({Junk} \cup RunRow \cup JudgeRow)]
      /\ file'[s] \in Seq(Lines(s)) /\ file'[s] # <<>>
      /\ \A t \in Stages : t # s => file'[t] = file[t]
  BY <1>1, <1>2, <1>5, Written
<1>7. /\ torn[s] => Rows(s)' \subseteq Rows(s) /\ ~Readable(s)'
      /\ ~torn[s] => /\ Rows(s)' = Rows(s) \cup ({row} \ {Junk})
                     /\ Readable(s)' => Readable(s)
      /\ torn[s] \in BOOLEAN
  BY <1>1, <1>2, <1>5, WrittenRows DEF Shape
<1>8. /\ torn' \in [Stages -> BOOLEAN] /\ tears' \in [Stages -> Nat]
      /\ tears'[s] = tears[s] + 1
      /\ \A t \in Stages : t # s => torn'[t] = torn[t] /\ tears'[t] = tears[t]
  <2>1. torn' \in [Stages -> BOOLEAN] /\ \A t \in Stages : t # s => torn'[t] = torn[t]
    BY <1>1, <1>3 DEF Shape
  <2>2. tears \in [Stages -> Nat]
    BY <1>1 DEF Shape
  <2>3. /\ tears' \in [Stages -> Nat] /\ tears'[s] = tears[s] + 1
        /\ \A t \in Stages : t # s => tears'[t] = tears[t]
    BY <1>3, <2>2
  <2>. QED  BY <2>1, <2>3
<1>9. \A t \in Stages : tears'[t] <= faults'
  <2>1. faults' = faults + 1 /\ faults \in Nat
    BY <1>1, <1>3 DEF Quit, Shape
  <2>2. \A t \in Stages : tears[t] \in Nat /\ tears[t] <= faults
    BY <1>1 DEF Shape, TypeOK
  <2>3. \A t \in Stages : tears[t] <= faults + 1 /\ tears[t] + 1 <= faults + 1
    BY <2>1, <2>2
  <2>. QED  BY <1>8, <2>1, <2>3
<1>10. Single'
  BY <1>1, <1>2, <1>4, <1>5, SingleWritten
<1>11. Counted'
  <2>1. Spoilt(s)' \subseteq Spoilt(s) \cup {Len(file[s]) + 1}
    BY <1>1, <1>2, <1>5, SpoiltWritten
  <2>2. \A t \in Stages : t # s => Spoilt(t)' = Spoilt(t)
    BY <1>6, <1>8 DEF Spoilt
  <2>3. PICK A, B, n : A = Spoilt(s) /\ B = Spoilt(s)' /\ n = Len(file[s]) + 1
    OBVIOUS
  <2>4. IsFiniteSet(A) /\ Cardinality(A) \in Nat
    BY <1>1, <2>3, SpoiltFinite
  <2>5. /\ IsFiniteSet(A \cup {n})
        /\ \/ Cardinality(A \cup {n}) = Cardinality(A)
           \/ Cardinality(A \cup {n}) = Cardinality(A) + 1
    BY <2>4, FS_AddElement
  <2>6. IsFiniteSet(B) /\ Cardinality(B) <= Cardinality(A \cup {n}) /\ Cardinality(B) \in Nat
    BY <2>1, <2>3, <2>5, FS_Subset, FS_CardinalityType
  <2>7. Cardinality(A) <= tears[s] /\ tears[s] \in Nat
    BY <1>1, <2>3 DEF Counted, Shape
  <2>8. Cardinality(B) <= tears[s] + 1
    BY <2>4, <2>5, <2>6, <2>7
  <2>. QED  BY <1>1, <1>8, <2>2, <2>3, <2>8 DEF Counted
<1>12. Rows(s)' \subseteq Rows(s) \cup ({row} \ {Junk})
  BY <1>7
<1>13. Done(s)' \subseteq Questions
  <2>1. Of(s, x) \in Questions /\ Done(s) \subseteq Questions
    BY <1>1, <1>4, RunRowIs DEF Of, Work, TypeOK
  <2>. QED  BY <1>5, <1>12, <2>1 DEF Done
<1>14. s = "run" => /\ Readable("run")' => Readable("run")
                    /\ Readable("run")' => Rows("run") \subseteq Rows("run")'
  BY <1>7
<1>15. s = "judge" => \A v \in Rows("judge")' :
         v \in Rows("judge") \/ \E y \in Left("judge") : v.q = y.q /\ v.n = y.n
  BY <1>4, <1>5, <1>12 DEF Of
<1>. QED  BY <1>3, <1>b, <1>6, <1>8, <1>9, <1>10, <1>11, <1>13, <1>14, <1>15, QuitKeeps

\* Every step keeps the invariant.
LEMMA StepKeeps == IInv /\ [Next]_vars => IInv'
<1>. SUFFICES ASSUME IInv, [Next]_vars PROVE IInv'
  OBVIOUS
<1>1. CASE StartRun
  <2>1. CASE Unanswered = {}
    <3>1. UNCHANGED vars
      BY <1>1, <2>1 DEF StartRun, Begin, vars
    <3>. QED  BY <3>1, Stutter
  <2>2. CASE Unanswered # {}
    BY <1>1, <2>2, StartKeeps DEF StartRun
  <2>. QED  BY <2>1, <2>2
<1>2. CASE StartJudge
  <2>1. CASE Unjudged = {}
    <3>1. UNCHANGED vars
      BY <1>2, <2>1 DEF StartJudge, Begin, vars
    <3>. QED  BY <3>1, Stutter
  <2>2. CASE Unjudged # {}
    BY <1>2, <2>2, StartKeeps DEF StartJudge
  <2>. QED  BY <2>1, <2>2
<1>3. CASE Abort
  BY <1>3, StopKeeps DEF Abort
<1>4. ASSUME NEW s \in Stages, NEW x \in todo[s], Send(s, x) PROVE IInv'
  BY <1>4, SendKeeps
<1>5. ASSUME NEW s \in Stages, NEW x \in asking[s], Record(s, x) PROVE IInv'
  BY <1>5, RecordKeeps
<1>6. ASSUME NEW s \in Stages, Stop(s) PROVE IInv'
  BY <1>6, StopKeeps DEF Stop
<1>7. ASSUME NEW s \in Stages, Crash(s) PROVE IInv'
  BY <1>7, CrashKeeps
<1>8. CASE UNCHANGED vars
  BY <1>8, Stutter
<1>. QED  BY <1>1, <1>2, <1>3, <1>4, <1>5, <1>6, <1>7, <1>8, Zenon DEF Next

-----------------------------------------------------------------------------
(***************************************************************************)
(* What the invariant says of the files.                                   *)
(***************************************************************************)

\* The rows of a file are as many as the questions that have one, and as the
\* lines that can be read.
LEMMA RowsAreOfQuestions ==
  ASSUME IInv, NEW s \in Stages
  PROVE  /\ Cardinality(Rows(s)) = Cardinality(Done(s))
         /\ Cardinality({i \in DOMAIN file[s] : file[s][i] # Junk}) = Cardinality(Rows(s))
<1>1. Shape /\ Single
  BY DEF IInv
<1>. DEFINE I == {i \in DOMAIN file[s] : file[s][i] # Junk}
<1>2. IsFiniteSet(I)
  <2>1. I \subseteq 1 .. Len(file[s]) /\ Len(file[s]) \in Nat
    BY <1>1 DEF Shape
  <2>. QED  BY <2>1, PartOfInterval
<1>3. IsFiniteSet(Rows(s)) /\ Cardinality(Rows(s)) = Cardinality(I)
  <2>. DEFINE f == [i \in I |-> file[s][i]]
  <2>1. f \in [I -> Rows(s)]
    BY DEF Rows
  <2>2. \A i, k \in I : f[i] = f[k] => i = k
    BY <1>1 DEF Single
  <2>3. \A r \in Rows(s) : \E i \in I : f[i] = r
    BY DEF Rows
  <2>. HIDE DEF f, I
  <2>. QED  BY <1>2, <2>1, <2>2, <2>3, OneToOne
<1>4. Cardinality(Done(s)) = Cardinality(Rows(s))
  <2>. DEFINE g == [r \in Rows(s) |-> r.q]
  <2>1. g \in [Rows(s) -> Done(s)]
    BY DEF Done
  <2>2. \A r, v \in Rows(s) : g[r] = g[v] => r = v
    BY <1>1, SameRow
  <2>3. \A q \in Done(s) : \E r \in Rows(s) : g[r] = q
    BY DEF Done
  <2>. HIDE DEF g
  <2>. QED  BY <1>3, <2>1, <2>2, <2>3, OneToOne
<1>. QED  BY <1>3, <1>4

\* No question is answered or judged twice.
LEMMA OneAnswer == IInv => OneAnswerEach
<1>. SUFFICES ASSUME IInv PROVE OneAnswerEach
  OBVIOUS
<1>1. Fresh /\ Graded
  BY DEF IInv
<1>. QED  BY <1>1, RowsAreOfQuestions DEF OneAnswerEach, Fresh, Graded, Left

\* What a complete pass left out was lost to a torn line.
LEMMA Holes == IInv => HolesOnlyByTearing
<1>. SUFFICES ASSUME IInv PROVE HolesOnlyByTearing
  OBVIOUS
<1>1. Shape /\ TypeOK /\ Covered /\ Counted
  BY DEF IInv
<1>2. ~open["run"] => Left("run") = {}
  BY <1>1 DEF TypeOK, Left
<1>3. ~open["run"] => Missing = Gone
  BY <1>2 DEF Missing, Gone
<1>4. ~open["run"] /\ pass["run"] = "clean" => Missing = {}
  BY <1>1, <1>3 DEF Covered
<1>5. ASSUME ~open["run"], pass["run"] = "torn" PROVE Cardinality(Missing) <= 2
  <2>1. PICK x, y : Missing \subseteq {x, y}
    BY <1>1, <1>3, <1>5 DEF Covered
  <2>2. IsFiniteSet({x}) /\ Cardinality({x}) = 1
    BY FS_Singleton
  <2>3. PICK S : S = {x} \cup {y}
    OBVIOUS
  <2>4. IsFiniteSet(S) /\ (Cardinality(S) = 1 \/ Cardinality(S) = 2)
    BY <2>2, <2>3, FS_AddElement
  <2>5. Missing \in SUBSET S
    BY <2>1, <2>3
  <2>6. Cardinality(Missing) <= Cardinality(S) /\ Cardinality(Missing) \in Nat
    BY <2>4, <2>5, FS_Subset, FS_CardinalityType
  <2>. QED  BY <2>4, <2>6
<1>6. ASSUME NEW s \in Stages
      PROVE  Cardinality({i \in DOMAIN file[s] : file[s][i] = Junk}) <= tears[s]
  <2>1. PICK J : J = {i \in DOMAIN file[s] : file[s][i] = Junk}
    OBVIOUS
  <2>2. J \in SUBSET Spoilt(s)
    BY <2>1 DEF Spoilt
  <2>3. IsFiniteSet(Spoilt(s)) /\ Cardinality(Spoilt(s)) \in Nat
    BY <1>1, SpoiltFinite
  <2>4. Cardinality(J) <= Cardinality(Spoilt(s)) /\ Cardinality(J) \in Nat
    BY <2>2, <2>3, FS_Subset, FS_CardinalityType
  <2>5. Cardinality(Spoilt(s)) <= tears[s] /\ tears[s] \in Nat
    BY <1>1 DEF Counted, Shape
  <2>. QED  BY <2>1, <2>3, <2>4, <2>5
<1>. QED  BY <1>4, <1>5, <1>6 DEF HolesOnlyByTearing

\* What evaluate blames an answer for is so, and an answer as expected is
\* complete, for every answer there may be.
LEMMA Blamed == IInv => BlameIsFair
<1>. SUFFICES ASSUME IInv, NEW r \in Rows("run")
              PROVE  Fair(r.q, r.answer, Verdict(r.q, r.answer))
  BY DEF BlameIsFair
<1>1. PICK q, a, k, b : q = r.q /\ a = r.answer /\ k = Contract[q] /\ b = Verdict(q, a)
  OBVIOUS
<1>2. /\ a.status \in {"ok", "http_error", "timeout", "network_error"}
      /\ k.kind \in {"poi", "any", "open", "unknown"}
      /\ k.kind = "poi" => k.category # NoCategory
  <2>1. Shape
    BY DEF IInv
  <2>2. r.q \in Questions /\ r.answer \in Answers[r.q]
    BY <2>1, RowsTyped, RunRowIs
  <2>. QED  BY <1>1, <2>2 DEF SuiteAssumption
<1>3. CASE a.status # "ok"
  <2>1. b = a.status
    BY <1>1, <1>3, Zenon DEF Verdict
  <2>2. b \notin {"no_tool", "wrong_tool", "partial_chain"}
    BY <1>2, <2>1
  <2>3. Fair(q, a, b)
    BY <1>3, <2>2 DEF Fair
  <2>. QED  BY <1>1, <2>3
<1>4. CASE a.status = "ok" /\ a.reply \in {"empty", "collision"}
  <2>1. b = "empty_reply" \/ b = "geocoder_collision"
    BY <1>1, <1>4, Zenon DEF Verdict
  <2>2. Fair(q, a, b)
    BY <1>4, <2>1 DEF Fair
  <2>. QED  BY <1>1, <2>2
<1>5. CASE /\ a.status = "ok" /\ a.reply # "empty" /\ a.reply # "collision"
           /\ k.kind = "poi"
  <2>1. b = PoiChain(a, k.category)
    BY <1>1, <1>5, Zenon DEF Verdict
  <2>2. Expected(q) = {POI_TOOL}
    BY <1>1, <1>5, Zenon DEF Expected
  <2>3. /\ \A c : AsExpected(q, c) <=> c.tool = POI_TOOL /\ c.category = k.category
        /\ \A c : c.tool \in Expected(q) \cup {Lookup} <=> c.tool \in {POI_TOOL, Lookup}
    BY <1>1, <1>5, <2>2 DEF AsExpected
  <2>4. (\E c \in a.trace : AsExpected(q, c)) => k.category \in Categories(a.trace)
    BY <1>2, <1>5, <2>3 DEF Categories
  <2>5. (\E c \in a.trace : c.ok /\ AsExpected(q, c)) => POI_TOOL \in FiredOk(a.trace)
    BY <2>3 DEF FiredOk
  <2>6. Fair(q, a, b) <=>
          /\ a.reply = "data" /\ (\E c \in a.trace : c.ok /\ AsExpected(q, c))
               => b = "complete"
          /\ b = "no_tool"    => a.trace = {}
          /\ b = "wrong_tool" => a.trace # {} /\ ~\E c \in a.trace : AsExpected(q, c)
          /\ b = "partial_chain" => {POI_TOOL, Lookup} \cap Fired(a.trace) # {}
    <3>1. {POI_TOOL, Lookup} \cap Fired(a.trace) # {} <=>
            \E c \in a.trace : c.tool \in {POI_TOOL, Lookup}
      BY DEF Fired
    <3>. QED  BY <1>5, <2>3, <3>1 DEF Fair
  <2>7. CASE POI_TOOL \in FiredOk(a.trace) /\ k.category \in Categories(a.trace)
    <3>1. b = IF a.reply = "data" THEN "complete" ELSE "partial_chain"
      BY <2>1, <2>7, Zenon DEF PoiChain
    <3>2. POI_TOOL \in Fired(a.trace)
      BY <2>7 DEF Fired, FiredOk
    <3>3. b = "complete" \/ (b = "partial_chain" /\ a.reply # "data")
      BY <3>1
    <3>. QED  BY <1>1, <2>6, <3>2, <3>3
  <2>8. CASE /\ POI_TOOL \in FiredOk(a.trace)
             /\ k.category \notin Categories(a.trace) /\ Categories(a.trace) # {}
    <3>1. b = "wrong_tool"
      BY <2>1, <2>8, Zenon DEF PoiChain
    <3>2. a.trace # {}
      BY <2>8, Zenon DEF FiredOk
    <3>. QED  BY <1>1, <2>4, <2>6, <2>8, <3>1, <3>2
  <2>9. CASE POI_TOOL \notin FiredOk(a.trace) \/ Categories(a.trace) = {}
    <3>1. b = IF {POI_TOOL, Lookup} \cap Fired(a.trace) # {} THEN "partial_chain"
              ELSE IF a.trace = {} THEN "no_tool" ELSE "wrong_tool"
      BY <2>1, <2>9, Zenon DEF PoiChain
    <3>2. ~\E c \in a.trace : c.ok /\ AsExpected(q, c)
      BY <2>4, <2>5, <2>9
    <3>3. (\E c \in a.trace : AsExpected(q, c)) => POI_TOOL \in Fired(a.trace)
      BY <2>3 DEF Fired
    <3>4. CASE {POI_TOOL, Lookup} \cap Fired(a.trace) # {}
      <4>1. b = "partial_chain"
        BY <3>1, <3>4
      <4>. QED  BY <1>1, <2>6, <3>2, <3>4, <4>1
    <3>5. CASE {POI_TOOL, Lookup} \cap Fired(a.trace) = {} /\ a.trace = {}
      <4>1. b = "no_tool"
        BY <3>1, <3>5
      <4>. QED  BY <1>1, <2>6, <3>2, <3>5, <4>1
    <3>6. CASE {POI_TOOL, Lookup} \cap Fired(a.trace) = {} /\ a.trace # {}
      <4>1. b = "wrong_tool"
        BY <3>1, <3>6
      <4>2. ~\E c \in a.trace : AsExpected(q, c)
        BY <3>3, <3>6
      <4>. QED  BY <1>1, <2>6, <3>2, <3>6, <4>1, <4>2
    <3>. QED  BY <3>4, <3>5, <3>6
  <2>. QED  BY <2>7, <2>8, <2>9
<1>6. CASE /\ a.status = "ok" /\ a.reply # "empty" /\ a.reply # "collision"
           /\ k.kind = "any"
  <2>1. b = AnyOf(a, k.accept)
    BY <1>1, <1>6, Zenon DEF Verdict
  <2>2. Expected(q) = k.accept
    BY <1>1, <1>6, Zenon DEF Expected
  <2>3. \A c : AsExpected(q, c) <=> c.tool \in k.accept
    BY <1>1, <1>6, <2>2 DEF AsExpected
  <2>4. b = IF k.accept \cap FiredOk(a.trace) # {}
            THEN IF a.reply = "data" THEN "complete" ELSE "partial_chain"
            ELSE IF k.accept \cap Fired(a.trace) # {} THEN "partial_chain"
            ELSE IF a.trace = {} THEN "no_tool" ELSE "wrong_tool"
    BY <2>1, Zenon DEF AnyOf
  <2>5. /\ k.accept \cap FiredOk(a.trace) # {} <=> \E c \in a.trace : c.tool \in k.accept /\ c.ok
        /\ k.accept \cap Fired(a.trace) # {} <=> \E c \in a.trace : c.tool \in k.accept
    BY DEF FiredOk, Fired
  <2>6. /\ a.reply = "data" /\ k.accept \cap FiredOk(a.trace) # {} => b = "complete"
        /\ b = "no_tool" => a.trace = {}
        /\ b = "wrong_tool" => a.trace # {} /\ k.accept \cap Fired(a.trace) = {}
        /\ b = "partial_chain" => \/ k.accept \cap FiredOk(a.trace) # {}
                                  \/ k.accept \cap Fired(a.trace) # {}
    BY <2>4
  <2>7. Fair(q, a, b)
    BY <2>2, <2>3, <2>5, <2>6 DEF Fair
  <2>. QED  BY <1>1, <2>7
<1>7. CASE /\ a.status = "ok" /\ a.reply # "empty" /\ a.reply # "collision"
           /\ k.kind \in {"open", "unknown"}
  <2>1. Expected(q) = {}
    BY <1>1, <1>7, Zenon DEF Expected
  <2>2. b = "complete" \/ b = "unknown_dataset"
    BY <1>1, <1>7, Zenon DEF Verdict
  <2>3. ~\E c \in a.trace : AsExpected(q, c)
    BY <2>1 DEF AsExpected
  <2>4. Fair(q, a, b)
    BY <2>2, <2>3 DEF Fair
  <2>. QED  BY <1>1, <2>4
<1>. QED  BY <1>2, <1>3, <1>4, <1>5, <1>6, <1>7

-----------------------------------------------------------------------------
(***************************************************************************)
(* How often a question is asked: once, if it has a row or is being asked, *)
(* and once for each fault, and each row a torn line took.  A line that is *)
(* torn has taken none yet.                                                *)
(***************************************************************************)
Settled(q) == q \in Done("run") \cup asking["run"]
Owed       == faults + tears["run"] - (IF torn["run"] THEN 1 ELSE 0)

Charged == \A q \in Questions : asks[q] <= Owed + (IF Settled(q) THEN 1 ELSE 0)

\* The steps of a pass that is not cut short: a question that is asked and had
\* no row has one to come; a row that is lost was on a torn line.
LEMMA OwedKeeps ==
  ASSUME Shape, Charged, Owed' \in Int, Owed' >= Owed,
         \A q \in Questions : \/ asks'[q] = asks[q] /\ (Settled(q) => Settled(q)')
                              \/ asks'[q] = asks[q] + 1 /\ ~Settled(q) /\ Settled(q)'
                              \/ asks'[q] = asks[q] /\ Owed' > Owed
  PROVE  Charged'
<1>1. Owed \in Int /\ asks \in [Questions -> Nat]
  BY DEF Shape, Owed
<1>. SUFFICES ASSUME NEW q \in Questions
              PROVE  asks'[q] <= Owed' + (IF Settled(q)' THEN 1 ELSE 0)
  BY Zenon DEF Charged
<1>2. asks[q] <= Owed + (IF Settled(q) THEN 1 ELSE 0) /\ asks[q] \in Nat
  BY <1>1 DEF Charged
<1>3. PICK o, p, n, m : o = Owed /\ p = Owed' /\ n = asks[q] /\ m = asks'[q]
  OBVIOUS
<1>4. PICK i, j : /\ i = (IF Settled(q) THEN 1 ELSE 0)
                  /\ j = (IF Settled(q)' THEN 1 ELSE 0)
  OBVIOUS
<1>5. i \in {0, 1} /\ j \in {0, 1}
  BY <1>4
<1>6. \/ m = n /\ i <= j
      \/ m = n + 1 /\ i = 0 /\ j = 1
      \/ m = n /\ p > o
  BY <1>3, <1>4
<1>7. o \in Int /\ p \in Int /\ n \in Nat /\ p >= o /\ n <= o + i
  BY <1>1, <1>2, <1>3, <1>4
<1>8. m <= p + j
  BY <1>5, <1>6, <1>7
<1>. QED  BY <1>3, <1>4, <1>8

\* A pass that is cut short is a fault.
LEMMA QuitCharges ==
  ASSUME Shape, Charged, NEW s \in Stages, Quit(s),
         \/ torn'["run"] = torn["run"] /\ tears'["run"] = tears["run"]
         \/ torn'["run"] = TRUE /\ tears'["run"] = tears["run"] + 1
  PROVE  Charged'
<1>1. /\ faults \in Nat /\ tears["run"] \in Nat /\ torn["run"] \in BOOLEAN
      /\ faults' = faults + 1 /\ asks' = asks
  BY DEF Shape, Quit
<1>2. Owed' \in Int /\ Owed' > Owed /\ Owed' >= Owed
  BY <1>1 DEF Owed
<1>. QED  BY <1>1, <1>2, OwedKeeps

\* Every step charges each question it asks to a cause.
LEMMA StepCharges == IInv /\ Charged /\ [Next]_vars => Charged'
<1>. SUFFICES ASSUME IInv, Charged, [Next]_vars PROVE Charged'
  OBVIOUS
<1>1. Shape /\ TypeOK /\ Fresh
  BY DEF IInv
<1>2. Owed \in Int
  BY <1>1 DEF Shape, Owed
<1>3. ASSUME UNCHANGED <<file, torn, asking, asks, faults, tears>> PROVE Charged'
  <2>1. Owed' = Owed /\ \A q : Settled(q)' = Settled(q)
    BY <1>3 DEF Owed, Settled, Done, Rows
  <2>. QED  BY <1>3, <2>1 DEF Charged
<1>4. ASSUME NEW s \in Stages, NEW x \in todo[s], Send(s, x) PROVE Charged'
  <2>1. /\ asking' = [asking EXCEPT ![s] = @ \cup {x}]
        /\ asks' = IF s = "run" THEN [asks EXCEPT ![x] = @ + 1] ELSE asks
        /\ UNCHANGED <<file, torn, faults, tears>>
    BY <1>4 DEF Send
  <2>2. Owed' = Owed /\ Done("run")' = Done("run")
    BY <2>1 DEF Owed, Done, Rows
  <2>3. CASE s = "judge"
    <3>1. asking'["run"] = asking["run"]
      BY <1>1, <2>1, <2>3 DEF Shape
    <3>2. \A q : Settled(q)' = Settled(q)
      BY <2>2, <3>1 DEF Settled
    <3>. QED  BY <1>2, <2>1, <2>2, <2>3, <3>2 DEF Charged
  <2>4. CASE s = "run"
    <3>1. /\ x \in Questions /\ x \notin Done("run") /\ x \notin asking["run"]
          /\ asking'["run"] = asking["run"] \cup {x}
      BY <1>1, <1>4, <2>1, <2>4 DEF Shape, TypeOK, Fresh, Left, Work, Of
    <3>2. /\ ~Settled(x) /\ Settled(x)'
          /\ \A q : Settled(q) => Settled(q)'
      BY <2>2, <3>1 DEF Settled
    <3>3. /\ asks'[x] = asks[x] + 1
          /\ \A q \in Questions : q # x => asks'[q] = asks[q]
      BY <1>1, <2>1, <2>4, <3>1 DEF Shape
    <3>. QED  BY <1>1, <1>2, <2>2, <3>2, <3>3, OwedKeeps
  <2>. QED  BY <2>3, <2>4
<1>5. ASSUME NEW s \in Stages, NEW x \in asking[s], Record(s, x) PROVE Charged'
  <2>1. PICK row \in Outcomes(s, x) : Wrote(s, row)
    BY <1>5 DEF Record, Wrote
  <2>2. /\ torn'   = [torn   EXCEPT ![s] = FALSE]
        /\ asking' = [asking EXCEPT ![s] = @ \ {x}]
        /\ UNCHANGED <<asks, faults, tears>>
    BY <1>5 DEF Record
  <2>3. row \in Lines(s) /\ row # Junk /\ row.q = Of(s, x)
    BY <1>1, <1>5, <2>1, OutcomeIs DEF Shape, Left
  <2>4. CASE s = "judge"
    <3>1. file'["run"] = file["run"]
      BY <1>1, <2>1, <2>3, <2>4, Written
    <3>2. Done("run")' = Done("run")
      BY <3>1, Unwritten
    <3>3. asking'["run"] = asking["run"] /\ torn'["run"] = torn["run"]
      BY <1>1, <2>2, <2>4 DEF Shape
    <3>4. Owed' = Owed /\ \A q : Settled(q)' = Settled(q)
      BY <2>2, <3>2, <3>3 DEF Owed, Settled
    <3>. QED  BY <2>2, <3>4 DEF Charged
  <2>5. CASE s = "run" /\ ~torn["run"]
    <3>1. Rows("run")' = Rows("run") \cup {row}
      BY <1>1, <2>1, <2>3, <2>5, WrittenRows
    <3>2. Done("run")' = Done("run") \cup {x}
      BY <2>3, <2>5, <3>1 DEF Done, Of
    <3>3. asking'["run"] = asking["run"] \ {x} /\ torn'["run"] = FALSE
      BY <1>1, <2>2, <2>5 DEF Shape
    <3>4. Owed' = Owed /\ \A q : Settled(q) => Settled(q)'
      BY <2>2, <2>5, <3>2, <3>3 DEF Owed, Settled
    <3>. QED  BY <1>1, <1>2, <2>2, <3>4, OwedKeeps
  <2>6. CASE s = "run" /\ torn["run"]
    <3>1. torn'["run"] = FALSE
      BY <1>1, <2>2, <2>6 DEF Shape
    <3>2. faults \in Nat /\ tears["run"] \in Nat
      BY <1>1 DEF Shape
    <3>3. Owed' \in Int /\ Owed' > Owed /\ Owed' >= Owed
      BY <2>2, <2>6, <3>1, <3>2 DEF Owed
    <3>. QED  BY <1>1, <2>2, <3>3, OwedKeeps
  <2>. QED  BY <2>4, <2>5, <2>6
<1>6. ASSUME NEW s \in Stages, Quit(s), UNCHANGED <<torn, tears>> PROVE Charged'
  BY <1>1, <1>6, QuitCharges
<1>7. ASSUME NEW s \in Stages, Crash(s) PROVE Charged'
  <2>1. /\ torn'  = [torn  EXCEPT ![s] = TRUE]
        /\ tears' = [tears EXCEPT ![s] = @ + 1]
        /\ Quit(s)
    BY <1>7 DEF Crash
  <2>2. CASE s = "run"
    BY <1>1, <2>1, <2>2, QuitCharges DEF Shape
  <2>3. CASE s = "judge"
    <3>1. torn'["run"] = torn["run"] /\ tears'["run"] = tears["run"]
      BY <1>1, <2>1, <2>3 DEF Shape
    <3>. QED  BY <1>1, <2>1, <3>1, QuitCharges
  <2>. QED  BY <2>2, <2>3
<1>8. CASE StartRun \/ StartJudge
  BY <1>3, <1>8 DEF StartRun, StartJudge, Begin
<1>9. CASE Abort
  BY <1>6, <1>9 DEF Abort
<1>10. ASSUME NEW s \in Stages, Stop(s) PROVE Charged'
  BY <1>6, <1>10 DEF Stop
<1>11. CASE UNCHANGED vars
  BY <1>3, <1>11 DEF vars
<1>. QED  BY <1>4, <1>5, <1>7, <1>8, <1>9, <1>10, <1>11, Zenon DEF Next

\* Nothing is owed before anything is asked.
LEMMA InitCharges == Init => Charged
<1>. SUFFICES ASSUME Init, NEW q \in Questions
              PROVE  asks[q] <= Owed + (IF Settled(q) THEN 1 ELSE 0)
  BY Zenon DEF Charged
<1>1. asks[q] = 0 /\ Owed = 0
  BY DEF Init, Owed
<1>. QED  BY <1>1

\* What is charged is bounded by the causes.
LEMMA Caused == IInv /\ Charged => AskedAgainForCause
<1>. SUFFICES ASSUME IInv, Charged, NEW q \in Questions
              PROVE  asks[q] <= 1 + faults + tears["run"]
  BY DEF AskedAgainForCause
<1>1. Shape
  BY DEF IInv
<1>2. faults \in Nat /\ tears["run"] \in Nat /\ asks[q] \in Nat
  BY <1>1 DEF Shape
<1>3. Owed \in Int /\ Owed <= faults + tears["run"]
  BY <1>2 DEF Owed
<1>4. asks[q] <= Owed + (IF Settled(q) THEN 1 ELSE 0)
  BY DEF Charged
<1>5. asks[q] <= Owed + 1
  BY <1>2, <1>3, <1>4
<1>. QED  BY <1>2, <1>3, <1>5

\* The inductive invariant holds throughout.
THEOREM Invariance == Spec => []IInv
BY InitKeeps, StepKeeps, PTL DEF Spec

\* The states are the ones the two commands can be in.
THEOREM TypeCorrectness == Spec => []TypeOK
<1>1. IInv => TypeOK
  BY DEF IInv
<1>. QED  BY <1>1, Invariance, PTL

\* A question has one answer and one grade of it, and is not asked again while
\* it has one; as long as the results can be read, each grade is of the answer
\* that is there (_read_done_ids against the append).
THEOREM OneAnswerEachHolds == Spec => []OneAnswerEach
BY OneAnswer, Invariance, PTL

\* A pass that comes to its end leaves a row of each question, or of all but
\* two where it found the file torn, and a crash spoils one line.
THEOREM HolesOnlyByTearingHolds == Spec => []HolesOnlyByTearing
BY Holes, Invariance, PTL

\* A question is put to the agent again only after a fault that hit it or a torn
\* line that took its row (_read_done_ids, over every number of passes).
THEOREM AskedAgainForCauseHolds == Spec => []AskedAgainForCause
BY InitKeeps, InitCharges, StepKeeps, StepCharges, Caused, PTL DEF Spec

\* The report blames an answer only for what it did, and calls complete what is
\* as expected (evaluate, for every answer and every contract).
THEOREM BlameIsFairHolds == Spec => []BlameIsFair
BY Blamed, Invariance, PTL

=============================================================================
