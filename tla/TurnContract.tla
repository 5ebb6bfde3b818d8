---------------------------- MODULE TurnContract ----------------------------
(***************************************************************************)
(* What the orchestrator promises its caller about one turn, whatever      *)
(* happens inside: the turn is worked on, its (user, assistant) pair is    *)
(* written to the session store exactly once, and only then is the reply   *)
(* delivered, exactly once.  A turn that dies does so before it has        *)
(* written anything, and delivers nothing.                                 *)
(***************************************************************************)
EXTENDS Naturals

VARIABLES
  phase,   \* how far the turn has come
  saves,   \* store.save calls the turn has completed
  finals   \* turn.final events the caller has received

vars == <<phase, saves, finals>>

Phases == {"received", "working", "stored", "answered", "aborted"}

Init ==
  /\ phase  = "received"
  /\ saves  = 0
  /\ finals = 0

Accept ==
  /\ phase  = "received"
  /\ phase' = "working"
  /\ UNCHANGED <<saves, finals>>

Store ==
  /\ phase  = "working"
  /\ phase' = "stored"
  /\ saves' = saves + 1
  /\ UNCHANGED finals

Answer ==
  /\ phase   = "stored"
  /\ phase'  = "answered"
  /\ finals' = finals + 1
  /\ UNCHANGED saves

Abort ==
  /\ phase \in {"received", "working"}
  /\ phase' = "aborted"
  /\ UNCHANGED <<saves, finals>>

Next == Accept \/ Store \/ Answer \/ Abort

\* Every turn ends, one way or the other.
Ends == <>(phase \in {"answered", "aborted"})

Spec == Init /\ [][Next]_vars /\ Ends
=============================================================================
