---------------------------- MODULE CoverageSuite ---------------------------
(***************************************************************************)
(* The evaluation of the agent by a corpus of questions: coverage_run asks *)
(* each question and appends what came of it to a file, coverage_judge has *)
(* a model grade each of those rows and appends the verdicts to another,   *)
(* and contracts.evaluate puts a row in a bucket for the report.  Either   *)
(* command may be stopped at any time and started again; what it finds in  *)
(* its file it does not do again.                                          *)
(*                                                                         *)
(* A line of a file is a row or what a crash left of one.  A file whose    *)
(* last line has no newline is torn: the next row is written onto it.  One *)
(* that was cut inside a character is garbled: Chinese is written as it is *)
(* (ensure_ascii=False), and a file that is not UTF-8 is not read at all.  *)
(* Each command has one process at a time.                                 *)
(***************************************************************************)
EXTENDS Integers, Sequences, FiniteSets, SequencesExt

CONSTANTS
  Questions,    \* the corpus
  Contract,     \* of each question's data set, what is expected (CONTRACTS)
  Answers,      \* what may come of asking each question
  Concurrency,  \* requests a command makes at a time
  MaxFaults     \* bound: stops, crashes and answers that are not JSON

Stages     == {"run", "judge"}
NoCategory == "none"   \* what a search has that gives none

ASSUME SuiteAssumption ==
  /\ Concurrency \in Nat \ {0}
  /\ MaxFaults \in Nat
  /\ DOMAIN Contract = Questions /\ DOMAIN Answers = Questions
  /\ \A q \in Questions :
       /\ Contract[q].kind \in {"poi", "any", "open", "unknown"}
       /\ Contract[q].kind = "poi" => Contract[q].category # NoCategory
       /\ \A a \in Answers[q] : a.status \in {"ok", "http_error", "timeout",
                                             "network_error"}

VARIABLES
  file,    \* the lines of each command's output
  torn,    \* whether its last line lacks its newline
  garbled, \* whether one of them ends in part of a character
  todo,    \* what waits for the semaphore, while the command runs
  asking,  \* what is asked of the agent or of the judge
  open,    \* whether the command runs
  asks,    \* how often each question was put to the agent
  faults,  \* stops and crashes so far
  tears,   \* of those, the ones in the middle of a write, by file
  pass     \* how the pass under way, or the last, found the file; "none" if it
           \* was cut short

vars == <<file, torn, garbled, todo, asking, open, asks, faults, tears, pass>>

Junk == [q |-> "none"]

Init ==
  /\ file   = [s \in Stages |-> <<>>]
  /\ torn   = [s \in Stages |-> FALSE]
  /\ garbled = [s \in Stages |-> FALSE]
  /\ todo   = [s \in Stages |-> {}]
  /\ asking = [s \in Stages |-> {}]
  /\ open   = [s \in Stages |-> FALSE]
  /\ asks   = [q \in Questions |-> 0]
  /\ faults = 0
  /\ tears  = [s \in Stages |-> 0]
  /\ pass   = [s \in Stages |-> "none"]

-----------------------------------------------------------------------------
(***************************************************************************)
(* The files.                                                              *)
(***************************************************************************)

\* What json.loads reads; _read_results and _read_done_ids pass over the rest.
Rows(s)     == {file[s][i] : i \in DOMAIN file[s]} \ {Junk}
Readable(s) == Junk \notin ToSet(file[s])

\* Mutant: only what went well is done.
DoneWell(s) == {r.q : r \in {x \in Rows(s) : s = "judge" \/ x.answer.status = "ok"}}
\* _read_done_ids: a row is done whatever became of it.
Done(s) == {r.q : r \in Rows(s)}

\* Mutant: rows are written without their newline.
WriteOn(lines, cut, row) == IF lines # <<>> THEN Append(Front(lines), Junk)
                            ELSE <<row>>
\* What an append makes of the lines: onto a torn line it makes one that
\* nobody can read.
Write(lines, cut, row) == IF cut THEN Append(Front(lines), Junk)
                          ELSE Append(lines, row)

-----------------------------------------------------------------------------
(***************************************************************************)
(* The two commands.                                                       *)
(***************************************************************************)

\* What a row is made for: a question, or a row of results.
Of(s, x) == IF s = "run" THEN x ELSE x.q

Unanswered == {q \in Questions : q \notin Done("run")}
Unjudged   == {r \in Rows("run") : r.q \notin Done("judge")}

\* With nothing pending a command returns at once.  On a garbled file of its
\* own it raises: nothing catches the UnicodeDecodeError.
Begin(s, pending) ==
  /\ ~open[s] /\ ~garbled[s]
  /\ IF pending = {} THEN UNCHANGED <<todo, open, pass>>
     ELSE /\ todo'  = [todo  EXCEPT ![s] = pending]
          /\ open'  = [open  EXCEPT ![s] = TRUE]
          /\ pass'  = [pass  EXCEPT ![s] = IF torn[s] THEN "torn" ELSE "clean"]
  /\ UNCHANGED <<file, torn, garbled, asking, asks, faults, tears>>

StartRun == Begin("run", Unanswered)
\* The judge reads the results strictly, and raises on a line it cannot read,
\* garbled or not.
StartJudge == Readable("run") /\ Begin("judge", Unjudged)

\* A worker gets the semaphore and posts.
Send(s, x) ==
  /\ x \in todo[s] /\ Cardinality(asking[s]) < Concurrency
  /\ todo'   = [todo   EXCEPT ![s] = @ \ {x}]
  /\ asking' = [asking EXCEPT ![s] = @ \cup {x}]
  /\ asks' = IF s = "run" THEN [asks EXCEPT ![x] = @ + 1] ELSE asks
  /\ UNCHANGED <<file, torn, garbled, open, faults, tears, pass>>

\* The rows that may come of it: every failure of the transport makes one.
AnswerRows(q) == {[q |-> q, n |-> asks[q], answer |-> a] : a \in Answers[q]}

\* judge: a grade, or an error if the request fails, its answer does not parse,
\* or the schema refuses it.
Judge == {"ok", "judge_error"}
VerdictRows(r) == {[q |-> r.q, n |-> r.n, status |-> v] : v \in Judge}

Outcomes(s, x) == IF s = "run" THEN AnswerRows(x) ELSE VerdictRows(x)

\* The row of an answer is written, whole, and flushed; after the last of them
\* the command closes its file and returns.
Record(s, x) ==
  /\ x \in asking[s]
  /\ \E row \in Outcomes(s, x) :
       file' = [file EXCEPT ![s] = Write(@, torn[s], row)]
  /\ torn'   = [torn   EXCEPT ![s] = FALSE]
  /\ asking' = [asking EXCEPT ![s] = @ \ {x}]
  /\ open'   = [open   EXCEPT ![s] = asking[s] # {x} \/ todo[s] # {}]
  /\ UNCHANGED <<garbled, todo, asks, faults, tears, pass>>

\* Mutant: a next pass takes the answers of this one for its own.
QuitAsking(s) ==
  /\ open[s] /\ faults < MaxFaults
  /\ open'   = [open EXCEPT ![s] = FALSE]
  /\ todo'   = [todo EXCEPT ![s] = {}]
  /\ faults' = faults + 1
  /\ pass'   = [pass EXCEPT ![s] = "none"]
  /\ UNCHANGED <<asks, asking>>

\* The process ends before its work does; what it asked comes to nothing.
Quit(s) ==
  /\ open[s] /\ faults < MaxFaults
  /\ open'   = [open   EXCEPT ![s] = FALSE]
  /\ todo'   = [todo   EXCEPT ![s] = {}]
  /\ asking' = [asking EXCEPT ![s] = {}]
  /\ faults' = faults + 1
  /\ pass'   = [pass   EXCEPT ![s] = "none"]
  /\ UNCHANGED asks

\* It is stopped between two writes.
Stop(s) == Quit(s) /\ UNCHANGED <<file, torn, garbled, tears>>

\* An answer with status 200 is not JSON: that error is caught nowhere, and
\* gather gives up the other answers.
Abort == /\ asking["run"] # {} /\ Quit("run")
         /\ UNCHANGED <<file, torn, garbled, tears>>

\* It dies in the middle of a write: a part of the row is in the file, which
\* may end inside a character, or all of it but the newline.
Crash(s) ==
  /\ \E x \in asking[s] : \E row \in Outcomes(s, x) \cup {Junk} :
       /\ file' = [file EXCEPT ![s] = Write(@, torn[s], row)]
       /\ \/ UNCHANGED garbled
          \/ row = Junk /\ garbled' = [garbled EXCEPT ![s] = TRUE]
  /\ torn'  = [torn  EXCEPT ![s] = TRUE]
  /\ tears' = [tears EXCEPT ![s] = @ + 1]
  /\ Quit(s)

Next == \/ StartRun \/ StartJudge \/ Abort
        \/ \E s \in Stages : \/ \E x \in todo[s]   : Send(s, x)
                            \/ \E x \in asking[s] : Record(s, x)
                            \/ Stop(s) \/ Crash(s)

Spec == Init /\ [][Next]_vars

-----------------------------------------------------------------------------
(***************************************************************************)
(* contracts.evaluate.  A call of a trace has a tool, whether it ended     *)
(* well, and for geo.find_poi the category it was asked for.  The reply    *)
(* is empty, the notice that two places are nearly the same, one that      *)
(* shows "data" of the kind expected, or another one, denials included.    *)
(***************************************************************************)

POI_TOOL == "geo.find_poi"
Lookup   == "geo.address_lookup"

Fired(trace)   == {c.tool : c \in trace}
FiredOk(trace) == {c.tool : c \in {x \in trace : x.ok}}
Categories(trace) ==
  {c.category : c \in {x \in trace : x.tool = POI_TOOL}} \ {NoCategory}

\* Mutant: a search for anything else spoils the answer.
PoiChainAlone(a, category) ==
  IF POI_TOOL \in FiredOk(a.trace) /\ Categories(a.trace) = {category}
  THEN IF a.reply = "data" THEN "complete" ELSE "partial_chain"
  ELSE IF POI_TOOL \in FiredOk(a.trace) THEN "wrong_tool"
  ELSE IF {POI_TOOL, Lookup} \cap Fired(a.trace) # {} THEN "partial_chain"
  ELSE IF a.trace = {} THEN "no_tool" ELSE "wrong_tool"
\* _poi_chain_contract: one search ended well, and one, perhaps another, was
\* for the category expected.
PoiChain(a, category) ==
  CASE POI_TOOL \in FiredOk(a.trace) /\ category \in Categories(a.trace) ->
         IF a.reply = "data" THEN "complete" ELSE "partial_chain"
    [] /\ POI_TOOL \in FiredOk(a.trace)
       /\ category \notin Categories(a.trace) /\ Categories(a.trace) # {} ->
         "wrong_tool"
    [] POI_TOOL \notin FiredOk(a.trace) \/ Categories(a.trace) = {} ->
         IF {POI_TOOL, Lookup} \cap Fired(a.trace) # {} THEN "partial_chain"
         ELSE IF a.trace = {} THEN "no_tool" ELSE "wrong_tool"

\* _any_of_contract, _single_tool_contract.
AnyOf(a, accept) ==
  IF accept \cap FiredOk(a.trace) # {}
  THEN IF a.reply = "data" THEN "complete" ELSE "partial_chain"
  ELSE IF accept \cap Fired(a.trace) # {} THEN "partial_chain"
  ELSE IF a.trace = {} THEN "no_tool" ELSE "wrong_tool"

Verdict(q, a) ==
  CASE a.status # "ok"        -> a.status
    [] a.status = "ok" /\ a.reply = "empty"     -> "empty_reply"
    [] a.status = "ok" /\ a.reply = "collision" -> "geocoder_collision"
    [] OTHER ->
       LET k == Contract[q] IN
       CASE k.kind = "poi"     -> PoiChain(a, k.category)
         [] k.kind = "any"     -> AnyOf(a, k.accept)
         [] k.kind = "open"    -> "complete"
         [] k.kind = "unknown" -> "unknown_dataset"

\* analyse: the questions of each bucket.
Bucket(b) == {r.q : r \in {x \in Rows("run") : Verdict(x.q, x.answer) = b}}

=============================================================================
