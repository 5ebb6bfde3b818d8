------------------------------ MODULE Sessions ------------------------------
(***************************************************************************)
(* The turns of one session: requests that reach two replicas through      *)
(* nginx (POST /turn) or over a WebSocket (smcity/app.py), each turn       *)
(* loading the session's row when it starts and writing the whole row back *)
(* when it ends (smcity/session.py, Orchestrator.handle_turn), with        *)
(* nothing between the two that holds other turns off.                     *)
(*                                                                         *)
(* A turn's inside is module Turn's; here it is the few steps that touch   *)
(* what turns share.  The database file outlives a replica; nothing else   *)
(* does.                                                                   *)
(***************************************************************************)
EXTENDS Integers, Sequences, FiniteSets, SequencesExt

CONSTANTS
  Requests,    \* user messages of the session
  WsRequests,  \* those sent over the WebSocket; the others are POSTed
  Locating,    \* those that carry a user_location (POST only)
  Forgetting,  \* those on which the model may call meta.forget_me
  Replicas,
  MaxPairs,    \* _MAX_HISTORY / 2
  MaxFaults    \* crashes, proxy timeouts and closed sockets, all told

ASSUME SessionsAssumption ==
  /\ WsRequests \subseteq Requests
  /\ Locating \subseteq Requests \ WsRequests
  /\ Forgetting \subseteq Requests
  /\ MaxPairs \in Nat \ {0}
  /\ MaxFaults \in Nat

\* nginx tries a POST on one replica, then on another; a message on a
\* socket is handled once.
Attempts == {<<r, n>> : r \in Requests, n \in {1, 2}}
Closed   == "closed"
Nowhere  == "nowhere"

\* The parts of SessionSlots that a turn reads or writes: the history, and
\* the request that last told where the user is.
NoRequest == "no request"
Fresh     == [pairs |-> <<>>, loc |-> NoRequest]   \* also what no row loads as

Running == {"received", "working", "stored"}
Phases  == Running \cup {"idle", "refused", "limited", "answered", "dropped", "raised", "killed"}

VARIABLES
  up,       \* replicas that serve
  row,      \* the session's row in sessions.sqlite3
  sock,     \* the replica the client's WebSocket ends at
  client,   \* what the client knows of each request
  tries,    \* attempts nginx has made for a request
  phase,    \* how far each attempt has come
  at,       \* the replica it runs on
  slots,    \* the SessionSlots it holds from load to save
  faults,   \* crashes, timeouts and closed sockets so far
  \* History, which no action reads but to bound it:
  log,      \* attempts in the order their saves committed
  base,     \* how long the log was when an attempt loaded
  wipes,    \* <<attempt, length of the log>> of each forget_me
  orphans,  \* attempts whose requester stopped listening while they ran
  hurried   \* the client sent a message while one was unanswered

outside == <<up, sock, faults>>
caller  == <<client, tries>>
ghosts  == <<base, wipes, orphans, hurried>>
vars    == <<outside, caller, row, phase, at, slots, log, ghosts>>

\* The history is never longer than MaxPairs, in the row or in a turn's hands.
Rows == {h \in [pairs : Seq(Requests), loc : Locating \cup {NoRequest}] :
           Len(h.pairs) <= MaxPairs}

TypeOK ==
  /\ up \subseteq Replicas
  /\ row \in Rows
  /\ sock \in Replicas \cup {Closed}
  /\ client \in [Requests -> {"unsent", "waiting", "answered", "failed"}]
  /\ tries \in [Requests -> 0 .. 2]
  /\ phase \in [Attempts -> Phases]
  /\ at \in [Attempts -> Replicas \cup {Nowhere}]
  /\ slots \in [Attempts -> Rows]
  /\ faults \in 0 .. MaxFaults
  /\ log \in Seq(Attempts)
  /\ base \in [Attempts -> Nat]
  /\ wipes \subseteq Attempts \X Nat
  /\ orphans \subseteq Attempts
  /\ hurried \in BOOLEAN

Init ==
  /\ up = Replicas /\ sock = Closed /\ faults = 0
  /\ row = Fresh
  /\ client = [r \in Requests |-> "unsent"]
  /\ tries  = [r \in Requests |-> 0]
  /\ phase  = [a \in Attempts |-> "idle"]
  /\ at     = [a \in Attempts |-> Nowhere]
  /\ slots  = [a \in Attempts |-> Fresh]
  /\ log = <<>>
  /\ base = [a \in Attempts |-> 0]
  /\ wipes = {} /\ orphans = {} /\ hurried = FALSE

-----------------------------------------------------------------------------
Waiting(r)   == client[r] = "waiting"
Current(r)   == <<r, tries[r]>>
Listening(a) == Waiting(a[1]) /\ a = Current(a[1]) /\ a \notin orphans

\* Mutant: nginx takes a replica that is at work for one that failed.
BrokenIfBusy(r) ==
  tries[r] > 0 /\ phase[Current(r)] \in {"refused", "killed", "received", "working"}

\* nginx is done with its current try: the replica refused the connection,
\* died, or was silent for proxy_read_timeout.
Broken(r) ==
  tries[r] > 0 /\ (phase[Current(r)] \in {"refused", "killed"} \/ Current(r) \in orphans)

\* The socket is gone, and with it every message that waits on it.
SocketLost ==
  /\ sock' = Closed
  /\ client' = [r \in Requests |->
                  IF r \in WsRequests /\ Waiting(r) THEN "failed" ELSE client[r]]

-----------------------------------------------------------------------------
Send(r) ==
  /\ client[r] = "unsent"
  /\ r \in WsRequests => sock # Closed
  /\ client' = [client EXCEPT ![r] = "waiting"]
  /\ hurried' = (hurried \/ \E q \in Requests : Waiting(q))
  /\ UNCHANGED <<outside, tries, row, phase, at, slots, log, base, wipes, orphans>>

Begin(r, R) ==
  LET a == <<r, tries[r] + 1>>
  IN  /\ tries' = [tries EXCEPT ![r] = @ + 1]
      /\ at'    = [at EXCEPT ![a] = R]
      /\ phase' = [phase EXCEPT ![a] = IF R \in up THEN "received" ELSE "refused"]
      /\ UNCHANGED <<outside, client, row, slots, log, ghosts>>

\* Mutant: a POST goes to a third server.
ForwardThrice(r, R) ==
  /\ r \notin WsRequests
  /\ Waiting(r)
  /\ tries[r] = 0 \/ Broken(r)
  /\ Begin(r, R)

\* proxy_next_upstream with tries 2: the second try goes to another server.
Forward(r, R) ==
  /\ r \notin WsRequests
  /\ Waiting(r)
  /\ \/ tries[r] = 0
     \/ tries[r] = 1 /\ Broken(r) /\ R # at[<<r, 1>>]
  /\ Begin(r, R)

\* The socket's handler takes one message at a time.
Receive(r) ==
  /\ r \in WsRequests
  /\ Waiting(r) /\ tries[r] = 0
  /\ sock # Closed
  /\ \A q \in WsRequests : Waiting(q) /\ tries[q] = 1 => phase[<<q, 1>>] \notin Running
  /\ Begin(r, sock)

\* Mutant: the last try is waited for without end.
BadGatewayWithoutTimeout(r) ==
  /\ r \notin WsRequests
  /\ Waiting(r)
  /\ tries[r] > 0 /\ phase[Current(r)] \in {"refused", "killed"}
  /\ client' = [client EXCEPT ![r] = "failed"]
  /\ UNCHANGED <<outside, tries, row, phase, at, slots, log, ghosts>>

\* A second try is not made when max_fails has the other server set aside.
BadGateway(r) ==
  /\ r \notin WsRequests
  /\ Waiting(r)
  /\ Broken(r)
  /\ client' = [client EXCEPT ![r] = "failed"]
  /\ UNCHANGED <<outside, tries, row, phase, at, slots, log, ghosts>>

-----------------------------------------------------------------------------
\* The session is out of tokens: 429, which nginx passes on, or an error
\* message on a socket that stays open.
RateLimited(a) ==
  /\ phase[a] = "received"
  /\ phase'  = [phase EXCEPT ![a] = "limited"]
  /\ client' = IF Listening(a) THEN [client EXCEPT ![a[1]] = "failed"] ELSE client
  /\ UNCHANGED <<outside, tries, row, at, slots, log, ghosts>>

\* Mutant: a request that tells where the user is starts a new record.
LoadAnew(a) ==
  /\ phase[a] = "received"
  /\ phase' = [phase EXCEPT ![a] = "working"]
  /\ slots' = [slots EXCEPT ![a] = IF a[1] \in Locating THEN [Fresh EXCEPT !.loc = a[1]] ELSE row]
  /\ base'  = [base EXCEPT ![a] = Len(log)]
  /\ UNCHANGED <<outside, caller, row, at, log, wipes, orphans, hurried>>

\* store.load, and what the turn does to the slots before its next await.
Load(a) ==
  /\ phase[a] = "received"
  /\ phase' = [phase EXCEPT ![a] = "working"]
  /\ slots' = [slots EXCEPT ![a] = IF a[1] \in Locating THEN [row EXCEPT !.loc = a[1]] ELSE row]
  /\ base'  = [base EXCEPT ![a] = Len(log)]
  /\ UNCHANGED <<outside, caller, row, at, log, wipes, orphans, hurried>>

\* meta.forget_me deletes the row; the slots in hand are not told.
ForgetMe(a) ==
  /\ phase[a] = "working"
  /\ a[1] \in Forgetting
  /\ ~\E w \in wipes : w[1] = a
  /\ row' = Fresh
  /\ wipes' = wipes \cup {<<a, Len(log)>>}
  /\ UNCHANGED <<outside, caller, phase, at, slots, log, base, orphans, hurried>>

\* Mutant: the history is cut one pair short.
AppendTurnShort(s, r) ==
  LET all == Append(s.pairs, r)
  IN  [s EXCEPT !.pairs = IF Len(all) > MaxPairs THEN SubSeq(all, 3, Len(all)) ELSE all]

\* slots.append_turn: the oldest pairs go first.
AppendTurn(s, r) ==
  LET all == Append(s.pairs, r)
  IN  [s EXCEPT !.pairs =
         IF Len(all) > MaxPairs THEN SubSeq(all, Len(all) - MaxPairs + 1, Len(all)) ELSE all]

\* store.save: the whole row is replaced by what this turn holds.
Store(a) ==
  /\ phase[a] = "working"
  /\ phase' = [phase EXCEPT ![a] = "stored"]
  /\ row'   = AppendTurn(slots[a], a[1])
  /\ slots' = [slots EXCEPT ![a] = Fresh]
  /\ log'   = Append(log, a)
  /\ UNCHANGED <<outside, caller, at, ghosts>>

Finish(a) ==
  /\ phase[a] = "stored"
  /\ IF Listening(a)
     THEN /\ phase'  = [phase EXCEPT ![a] = "answered"]
          /\ client' = [client EXCEPT ![a[1]] = "answered"]
     ELSE /\ phase'  = [phase EXCEPT ![a] = "dropped"]
          /\ UNCHANGED client
  /\ UNCHANGED <<outside, tries, row, at, slots, log, ghosts>>

\* Mutant: building the response may raise, after the save.
RaiseLate(a) ==
  /\ phase[a] \in Running
  /\ phase' = [phase EXCEPT ![a] = "raised"]
  /\ IF ~Listening(a) THEN UNCHANGED <<sock, client>>
     ELSE IF a[1] \in WsRequests THEN SocketLost
     ELSE client' = [client EXCEPT ![a[1]] = "failed"] /\ UNCHANGED sock
  /\ slots' = [slots EXCEPT ![a] = Fresh]
  /\ UNCHANGED <<up, faults, tries, row, at, log, ghosts>>

\* The turn dies of an exception: a 500, which nginx passes on, or the end of
\* the socket's handler.
Raise(a) ==
  /\ phase[a] \in {"received", "working"}
  /\ phase' = [phase EXCEPT ![a] = "raised"]
  /\ IF ~Listening(a) THEN UNCHANGED <<sock, client>>
     ELSE IF a[1] \in WsRequests THEN SocketLost
     ELSE client' = [client EXCEPT ![a[1]] = "failed"] /\ UNCHANGED sock
  /\ slots' = [slots EXCEPT ![a] = Fresh]
  /\ UNCHANGED <<up, faults, tries, row, at, log, ghosts>>

-----------------------------------------------------------------------------
Fault == faults < MaxFaults /\ faults' = faults + 1

\* A replica is killed or replaced by a deployment.
Crash(R) ==
  /\ Fault
  /\ R \in up
  /\ up' = up \ {R}
  /\ phase' = [a \in Attempts |->
                 IF at[a] = R /\ phase[a] \in Running THEN "killed" ELSE phase[a]]
  /\ slots' = [a \in Attempts |-> IF at[a] = R THEN Fresh ELSE slots[a]]
  /\ IF sock = R THEN SocketLost ELSE UNCHANGED <<sock, client>>
  /\ UNCHANGED <<tries, row, at, log, ghosts>>

Restart(R) ==
  /\ R \notin up
  /\ up' = up \cup {R}
  /\ UNCHANGED <<sock, faults, caller, row, phase, at, slots, log, ghosts>>

\* proxy_read_timeout: the replica is not told, and goes on.
TimeOut(r) ==
  /\ Fault
  /\ r \notin WsRequests
  /\ Waiting(r) /\ tries[r] > 0
  /\ phase[Current(r)] \in Running
  /\ Current(r) \notin orphans
  /\ orphans' = orphans \cup {Current(r)}
  /\ UNCHANGED <<up, sock, caller, row, phase, at, slots, log, base, wipes, hurried>>

OpenSocket(R) ==
  /\ sock = Closed /\ R \in up
  /\ \E r \in WsRequests : client[r] = "unsent"
  /\ sock' = R
  /\ UNCHANGED <<up, faults, caller, row, phase, at, slots, log, ghosts>>

\* The page is closed or reloaded; a turn that runs for it goes on.
CloseSocket ==
  /\ Fault
  /\ sock # Closed
  /\ SocketLost
  /\ orphans' = orphans \cup {a \in Attempts : /\ a[1] \in WsRequests
                                               /\ Listening(a) /\ phase[a] \in Running}
  /\ UNCHANGED <<up, tries, row, phase, at, slots, log, base, wipes, hurried>>

-----------------------------------------------------------------------------
Turns == \E a \in Attempts :
           RateLimited(a) \/ Load(a) \/ ForgetMe(a) \/ Store(a) \/ Finish(a) \/ Raise(a)

Proxy == \E r \in Requests :
           \/ BadGateway(r) \/ Receive(r)
           \/ \E R \in Replicas : Forward(r, R)

Faulty == CloseSocket \/ (\E R \in Replicas : Crash(R)) \/ (\E r \in Requests : TimeOut(r))

Next ==
  \/ Turns \/ Proxy \/ Faulty
  \/ \E r \in Requests : Send(r)
  \/ \E R \in Replicas : Restart(R) \/ OpenSocket(R)

Spec == Init /\ [][Next]_vars

(***************************************************************************)
(* nginx and the handlers act when they can: every await of a turn ends    *)
(* (see Turn), and a forwarded request is accepted or refused.  Clients    *)
(* need not send, nor replicas fail or come back.                          *)
(***************************************************************************)
FairSpec ==
  /\ Spec
  /\ \A r \in Requests : /\ WF_vars(BadGateway(r)) /\ WF_vars(Receive(r))
                         /\ WF_vars(\E R \in Replicas : Forward(r, R))
  /\ \A a \in Attempts : /\ WF_vars(RateLimited(a) \/ Load(a))
                         /\ WF_vars(Store(a) \/ Raise(a))
                         /\ WF_vars(Finish(a))
=============================================================================
