------------------------- MODULE SessionsProperties -------------------------
(***************************************************************************)
(* What the session row keeps, and what its documents claim.               *)
(***************************************************************************)
EXTENDS Sessions

Saved(a)     == \E i \in DOMAIN log : log[i] = a
Position(a)  == CHOOSE i \in DOMAIN log : log[i] = a
InRow(r)     == \E i \in DOMAIN row.pairs : row.pairs[i] = r

\* The save at position i overwrote one it had not seen.
Overlapped(i) == base[log[i]] # i - 1

(***************************************************************************)
(* Turns that do not overlap leave the row that running them one after     *)
(* another gives: the last MaxPairs of them in order, and the last         *)
(* location told; whatever replicas, retries and restarts were between.    *)
(***************************************************************************)
LastPairs ==
  LET n == Len(log)
      k == IF n < MaxPairs THEN n ELSE MaxPairs
  IN  [i \in 1 .. k |-> log[n - k + i][1]]

LastLocation ==
  LET told == {i \in DOMAIN log : log[i][1] \in Locating}
  IN  IF told = {} THEN NoRequest ELSE log[Max(told)][1]

SequentialRow ==
  wipes = {} /\ (\A i \in DOMAIN log : ~Overlapped(i)) =>
    row = [pairs |-> LastPairs, loc |-> LastLocation]

(***************************************************************************)
(* An answered message is missing from the history only when newer turns   *)
(* pushed it out, a forget_me came after it, or a turn that had loaded the *)
(* row before it was saved saved later.                                    *)
(***************************************************************************)
LostOnlyByOverlap ==
  \A a \in Attempts : phase[a] = "answered" /\ ~InRow(a[1]) =>
    \/ Len(log) - Position(a) >= MaxPairs
    \/ \E w \in wipes : w[2] >= Position(a)
    \/ \E i \in DOMAIN log : i > Position(a) /\ base[log[i]] < Position(a)

(***************************************************************************)
(* Turns overlap only if the client sent a message before it had the last  *)
(* answer, nginx gave up on a turn that went on, or the page was closed on *)
(* one: a crash or a restart, and the retry after it, never make two.      *)
(***************************************************************************)
OverlapHasACause ==
  (\E i \in DOMAIN log : Overlapped(i)) => hurried \/ orphans # {}

(***************************************************************************)
(* A message is run and recorded twice only when its first run was cut off *)
(* by nginx's timeout or by the death of its replica, after it had saved   *)
(* or before: nginx repeats a POST on no other ground.                     *)
(***************************************************************************)
TwiceHasACause ==
  \A r \in Requests : Saved(<<r, 1>>) /\ Saved(<<r, 2>>) =>
    <<r, 1>> \in orphans \/ phase[<<r, 1>>] = "killed"

(***************************************************************************)
(* Each attempt keeps the contract of a turn in every step that does not   *)
(* kill its replica.                                                       *)
(***************************************************************************)
TurnPhase(a) ==
  CASE phase[a] \in {"idle", "received", "refused"} -> "received"
    [] phase[a] \in {"answered", "dropped"}         -> "answered"
    [] phase[a] \in {"limited", "raised", "killed"} -> "aborted"
    [] OTHER                                        -> phase[a]
Turn(a) == INSTANCE TurnContract WITH
             phase  <- TurnPhase(a),
             saves  <- Cardinality({i \in DOMAIN log : log[i] = a}),
             finals <- IF phase[a] \in {"answered", "dropped"} THEN 1 ELSE 0

EachTurnKeepsContract ==
  [][\A a \in Attempts : phase'[a] # "killed" =>
       Turn(a)!Next \/ UNCHANGED Turn(a)!vars]_vars

(***************************************************************************)
(* Every message a client sent is answered or fails, whatever crashes.     *)
(***************************************************************************)
EveryMessageEnds == \A r \in Requests : Waiting(r) ~> ~Waiting(r)

-----------------------------------------------------------------------------
(***************************************************************************)
(* smcity/tools/meta.py: forget_me wipes the session record and clears     *)
(* conversation history -- so that once its turn is over, no message from  *)
(* before it is in the row.                                                *)
(***************************************************************************)
ForgottenStaysForgotten ==
  \A w \in wipes : phase[w[1]] = "answered" =>
    \A i \in 1 .. w[2] : ~InRow(log[i][1])

(***************************************************************************)
(* deploy/nginx.conf: the agent handlers are idempotent, so that nginx may *)
(* repeat a POST -- a message is in the history at most once.              *)
(***************************************************************************)
RetryIsIdempotent ==
  \A i, j \in DOMAIN row.pairs : row.pairs[i] = row.pairs[j] => i = j
=============================================================================
