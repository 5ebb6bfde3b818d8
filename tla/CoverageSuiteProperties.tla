----------------------- MODULE CoverageSuiteProperties ----------------------
(***************************************************************************)
(* What the evaluation owes its reader, over stops, crashes and repeats.   *)
(***************************************************************************)
EXTENDS CoverageSuite

\* Types: a command that does not run asks nothing, what is asked no longer
\* waits, and only a file with lines can be torn.
TypeOK ==
  /\ faults \in 0 .. MaxFaults
  /\ asks \in [Questions -> Nat]
  /\ garbled \in [Stages -> BOOLEAN]
  /\ \A s \in Stages :
       /\ Done(s) \subseteq Questions
       /\ open[s] = (todo[s] \cup asking[s] # {})
       /\ todo[s] \cap asking[s] = {}
       /\ Cardinality(asking[s]) <= Concurrency
       /\ torn[s] => file[s] # <<>>
       /\ tears[s] <= faults

(***************************************************************************)
(* A question has one answer, and one grade of it: at most one row of a    *)
(* file that can be read, none while it is asked again, and, as long as    *)
(* the results can be read to the end, a verdict is of the answer that is  *)
(* there.  A question whose row a crash has spoilt is asked again, and its *)
(* old row never comes back (_read_done_ids against the append).           *)
(***************************************************************************)
OneAnswerEach ==
  /\ \A s \in Stages :
       /\ Cardinality(Rows(s)) = Cardinality(Done(s))
       /\ Cardinality({i \in DOMAIN file[s] : file[s][i] # Junk}) = Cardinality(Rows(s))
       /\ \A x \in todo[s] \cup asking[s] : Of(s, x) \notin Done(s)
  /\ Readable("run") =>
       \A v \in Rows("judge") : \E r \in Rows("run") : v.q = r.q /\ v.n = r.n

(***************************************************************************)
(* A question is missing only by a crash: a pass that comes to its end     *)
(* leaves a row of each question, whatever became of earlier passes; one   *)
(* that found the file torn writes its first row onto the line a crash     *)
(* left, and so leaves all but two.  A crash spoils one line.              *)
(***************************************************************************)
Missing == Questions \ Done("run")

HolesOnlyByTearing ==
  /\ ~open["run"] /\ pass["run"] = "clean" => Missing = {}
  /\ ~open["run"] /\ pass["run"] = "torn"  => Cardinality(Missing) <= 2
  /\ \A s \in Stages :
       Cardinality({i \in DOMAIN file[s] : file[s][i] = Junk}) <= tears[s]

(***************************************************************************)
(* A question is put to the agent again only for a cause: a pass that was  *)
(* cut short while it was asked, or a torn line that took its row.  What   *)
(* went wrong otherwise, a timeout or an answer of another status, is not  *)
(* asked again however often the suite is started.                         *)
(***************************************************************************)
AskedAgainForCause ==
  \A q \in Questions : asks[q] <= 1 + faults + tears["run"]

(***************************************************************************)
(* The report is fair to the agent: an answer that shows data and has a    *)
(* call that is as expected and ended well is complete, that no tool was   *)
(* used is said only where none was, that a wrong one was only where no    *)
(* call is as expected, and that a chain is partial only where a part of   *)
(* it ran (evaluate, over the rows that analyse reads).  It may be more    *)
(* than fair: for places one call may be as expected and another end well. *)
(***************************************************************************)
Expected(q) == CASE Contract[q].kind = "poi" -> {POI_TOOL}
                 [] Contract[q].kind = "any" -> Contract[q].accept
                 [] OTHER -> {}

AsExpected(q, c) == /\ c.tool \in Expected(q)
                    /\ Contract[q].kind = "poi" => c.category = Contract[q].category

Fair(q, a, b) ==
  /\ a.status = "ok" /\ a.reply = "data" /\ (\E c \in a.trace : c.ok /\ AsExpected(q, c))
       => b = "complete"
  /\ b = "no_tool"       => a.trace = {}
  /\ b = "wrong_tool"    => a.trace # {} /\ ~\E c \in a.trace : AsExpected(q, c)
  /\ b = "partial_chain" => \E c \in a.trace : c.tool \in Expected(q) \cup {Lookup}

BlameIsFair == \A r \in Rows("run") : Fair(r.q, r.answer, Verdict(r.q, r.answer))

=============================================================================
