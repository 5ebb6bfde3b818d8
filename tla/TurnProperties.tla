--------------------------- MODULE TurnProperties ---------------------------
(***************************************************************************)
(* What the turn of module Turn guarantees, and what its documents claim.  *)
(***************************************************************************)
EXTENDS Turn

(***************************************************************************)
(* Refinement: however the model and the tools behave, a turn writes its   *)
(* history pair exactly once before it delivers exactly one turn.final, or *)
(* dies having done neither, and it always ends (handle_turn has four      *)
(* copies of append_turn / save / turn.final, one per path).               *)
(***************************************************************************)
Phase ==
  CASE pc = "received" -> "received"
    [] pc = "emit"     -> "stored"
    [] pc = "done"     -> "answered"
    [] pc = "aborted"  -> "aborted"
    [] OTHER           -> "working"

Contract == INSTANCE TurnContract WITH phase <- Phase

ImplementsContract == Contract!Spec

(***************************************************************************)
(* A turn costs at most eight requests to the model, five when the         *)
(* classifier named its tools: decide, gate retry, hint, two syntheses and *)
(* three repairs are all the loops and retries of handle_turn, also when a *)
(* fast path defers half way.                                              *)
(***************************************************************************)
LlmBudget == llm <= IF hit = "named" THEN 5 ELSE 8

(***************************************************************************)
(* A first batch that violates a gate is dispatched in two cases only: the *)
(* retry failed and the rejected batch was kept, or the retry was accepted *)
(* although it violates -- and then not with the violation that            *)
(* rectification repairs, unless the first violation was the other one.    *)
(***************************************************************************)
GateLeaks ==
  round = "first" /\ ApplyGates(calls) # "none" =>
    \/ how = "kept"
    \/ how = "retried" /\ gate = "ask_user_only"
    \/ how = "retried" /\ gate = "missing_spatial_scope" /\ AskUserOnly(calls)

(***************************************************************************)
(* Once a turn writes its reply, every tool call it dispatched, in every   *)
(* round, is in tool_trace; the one exception is the lookup of a fast path *)
(* that deferred, and there is at most one.                                *)
(***************************************************************************)
TraceComplete ==
  pc \notin {"dispatch", "aborted"} =>
    /\ traced + dropped = started
    /\ dropped <= IF hit = "poi_phrase" THEN 1 ELSE 0

(***************************************************************************)
(* A delivered reply denies having data although a tool of the turn, the   *)
(* chain's follow-ups included, returned records, only when all repairs    *)
(* were spent or one failed.                                               *)
(***************************************************************************)
DenialOnlyUnrepaired ==
  pc = "done" /\ returned /\ reply.denies =>
    unfixed \/ attempts = RepairLimit

(***************************************************************************)
(* A text written after tools ran is delivered in the wrong script only    *)
(* when a repair failed or all were spent; an English user then still gets *)
(* an English apology, unless a denial hides the script from the guard.    *)
(***************************************************************************)
WrongScriptOnlyUnrepaired ==
  /\ pc = "done"
  /\ traced > 0
  /\ reply.by \in {"llm", "cannot_compose"}
  /\ reply.script # Expected(lang)
  => \/ unfixed
     \/ attempts = RepairLimit /\ (lang = "eng" => reply.denies /\ records)

-----------------------------------------------------------------------------
(***************************************************************************)
(* The inductive invariant behind the theorems of TurnProofs, in named     *)
(* parts: it ties each bookkeeping variable to the place handle_turn has   *)
(* reached.                                                                *)
(***************************************************************************)
\* The history pair is written on the way to the reply, and nowhere else.
EndsInv ==
  /\ saves  = IF pc \in {"emit", "done"} THEN 1 ELSE 0
  /\ finals = IF pc = "done" THEN 1 ELSE 0

\* A batch is in flight exactly while the turn waits for it.
RoundInv ==
  /\ pc = "dispatch" => round # "none"
  /\ pc \notin {"dispatch", "aborted"} => round = "none"
  /\ pc \in {"decide", "gate_retry", "hint"} => hit # "named"
  /\ round \in {"lookup", "find", "first", "auto", "hint"} => hit # "named"
  /\ round = "lookup" => hit = "poi_phrase"

\* A rejected proposal is held with its violation until the retry is in.
GateInv ==
  /\ pc = "gate_retry" => /\ calls \in Proposals
                          /\ gate = ApplyGates(calls)
                          /\ gate # "none"
  /\ round = "first" =>
       \/ how \in {"clean", "rectified"} /\ ApplyGates(calls) = "none"
       \/ how = "kept"
       \/ /\ how = "retried" /\ gate # "none"
          /\ ~(ApplyGates(calls) = gate /\ gate = "missing_spatial_scope")

\* Requests to the model that the turn may still make.
LlmLeft ==
  CASE pc = "received"   -> IF hit = "named" THEN 5 ELSE 8
    [] pc = "decide"     -> 8
    [] pc = "gate_retry" -> 7
    [] pc = "dispatch" /\ round = "lookup" -> 8
    [] pc = "dispatch" /\ round = "first"  -> 6
    [] pc = "dispatch" /\ round \notin {"lookup", "first"} -> 5
    [] pc = "hint"       -> 6
    [] pc = "synthesis"  -> 5
    [] pc = "synthesis_retry" -> 4
    [] pc = "check"      -> RepairLimit - attempts
    [] pc = "repair"     -> RepairLimit + 1 - attempts
    [] OTHER             -> 0

LlmInv ==
  /\ llm + LlmLeft <= IF hit = "named" THEN 5 ELSE 8
  /\ pc \notin {"check", "repair", "compose", "save", "emit", "done", "aborted"} => attempts = 0
  /\ pc = "repair" => attempts > 0

\* Calls dispatched and not yet in the trace: the running batch, and the
\* lookup whose find_poi is running.
Untraced ==
  IF pc # "dispatch" THEN 0
  ELSE Cardinality(Calls(calls)) + (IF round = "find" /\ hit = "poi_phrase" THEN 1 ELSE 0)

TraceInv ==
  /\ pc # "aborted" => traced + dropped + Untraced = started
  /\ dropped <= IF hit = "poi_phrase" THEN 1 ELSE 0
  /\ pc = "received" \/ (pc = "dispatch" /\ round \in {"named", "lookup", "find"}) => dropped = 0
  /\ pc = "dispatch" /\ round \in {"lookup", "find", "auto"} => Calls(calls) = {1}

\* What the turn has seen come back is what the invariants are given.
EvidenceInv ==
  /\ pc \in {"received", "decide", "gate_retry"} => ~returned
  /\ pc = "dispatch" /\ round \in {"named", "lookup", "find", "first"} /\ returned =>
       Found \/ (round = "find" /\ hit = "poi_phrase")
  /\ pc = "dispatch" /\ round \in {"auto", "hint"} /\ returned => Found \/ records
  /\ pc \in {"hint", "synthesis", "synthesis_retry", "check", "repair"} => (returned => records)

\* A reply on its way out has passed the invariants, or repairs are over.
ReplyInv ==
  /\ pc \in {"compose", "save", "emit", "done"} /\ returned /\ reply.denies =>
       unfixed \/ attempts = RepairLimit
  /\ /\ pc \in {"compose", "save", "emit", "done"} /\ traced > 0
     /\ reply.by \in {"llm", "cannot_compose"}
     /\ reply.script # Expected(lang)
     => unfixed \/ (attempts = RepairLimit /\ (lang = "eng" => reply.denies /\ records))
  /\ pc \in {"received", "decide", "gate_retry"} => traced = 0
  /\ pc = "dispatch" /\ round \in {"lookup", "first"} => traced = 0

IInv ==
  /\ TypeOK /\ EndsInv /\ RoundInv /\ GateInv /\ LlmInv /\ TraceInv /\ EvidenceInv /\ ReplyInv

-----------------------------------------------------------------------------
(***************************************************************************)
(* docs/PROTOCOL.md: an error in the tool dispatcher appears as a          *)
(* tool_call.result with a status, and the orchestrator still produces a   *)
(* turn.final -- so that running tools never ends a turn.                  *)
(***************************************************************************)
DispatchNeverEndsTurn == [][pc = "dispatch" => pc' # "aborted"]_vars

(***************************************************************************)
(* The guard at the end of _maybe_retry_for_invariants: no knowingly wrong *)
(* English answer is shipped after all repair attempts, when none of them  *)
(* failed and the guard is reached.                                        *)
(***************************************************************************)
NoWrongEnglishAfterRepairs ==
  pc = "done" /\ lang = "eng" /\ attempts = RepairLimit /\ ~unfixed /\ ~clarification =>
    reply.script = "latin"
=============================================================================
