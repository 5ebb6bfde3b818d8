--------------------------- MODULE SessionsProofs ---------------------------
(***************************************************************************)
(* Proofs about the turns of one session, for any number of requests,      *)
(* replicas and faults and any length of history.  TypeOK is inductive.    *)
(* The other properties follow from TypeOK and the invariants below:       *)
(* Attempted alone gives TwiceHasACause, Undisturbed gives                 *)
(* OverlapHasACause, InSequence gives SequentialRow, and Kept gives        *)
(* LostOnlyByOverlap.                                                      *)
(***************************************************************************)
EXTENDS SessionsProperties, SetFacts

(***************************************************************************)
(* How far the attempts have come, told from what nginx counts and from    *)
(* the order of the saves.                                                 *)
(***************************************************************************)
\* An attempt that was not made yet is idle.
Tried == \A a \in Attempts : phase[a] # "idle" => a[2] <= tries[a[1]]

\* A message that was not sent was not tried; a message on a socket is
\* tried once, while that socket stands, by the replica it ends at.
Unsent == \A r \in Requests : client[r] = "unsent" => tries[r] = 0
OnSocket ==
  \A r \in WsRequests :
    /\ tries[r] <= 1
    /\ Waiting(r) => sock # Closed
    /\ Waiting(r) /\ tries[r] = 1 => at[<<r, 1>>] = sock

\* nginx tries again only what broke.
SecondHasACause ==
  \A r \in Requests : tries[r] = 2 =>
    <<r, 1>> \in orphans \/ phase[<<r, 1>>] \in {"refused", "killed"}

\* What is in the log was saved, in an attempt that had loaded before; and
\* every attempt that got past its save is in the log.
Logged ==
  /\ \A i \in DOMAIN log : /\ phase[log[i]] \in {"stored", "answered", "dropped", "killed"}
                           /\ base[log[i]] < i
  /\ \A a \in Attempts : phase[a] \in {"stored", "answered", "dropped"} => Saved(a)
  /\ \A a \in Attempts : phase[a] = "working" => base[a] <= Len(log)

Attempted == Tried /\ Unsent /\ OnSocket /\ SecondHasACause /\ Logged

(***************************************************************************)
(* While the client waits its turn and nobody stopped listening to a turn  *)
(* that runs, one message waits at most, what runs is its current attempt, *)
(* and no save comes between a turn's load and its own save.               *)
(***************************************************************************)
Undisturbed ==
  ~hurried /\ orphans = {} =>
    /\ \A q, r \in Requests : Waiting(q) /\ Waiting(r) => q = r
    /\ \A a \in Attempts : phase[a] \in Running => Waiting(a[1]) /\ a = Current(a[1])
    /\ \A a \in Attempts : phase[a] = "working" => base[a] = Len(log)
    /\ \A i \in DOMAIN log : ~Overlapped(i)

(***************************************************************************)
(* As long as no save overwrote another, a turn that loaded the latest row *)
(* holds that row, and where its own user is.                              *)
(***************************************************************************)
InSequence ==
  wipes = {} /\ (\A i \in DOMAIN log : ~Overlapped(i)) =>
    /\ row.pairs = LastPairs /\ row.loc = LastLocation
    /\ \A a \in Attempts : phase[a] = "working" /\ base[a] = Len(log) =>
         /\ slots[a].pairs = LastPairs
         /\ slots[a].loc = IF a[1] \in Locating THEN a[1] ELSE LastLocation

(***************************************************************************)
(* A save that nothing wiped and no later save overwrote unseen is in the  *)
(* row, not further from its end than from the end of the log; and in the  *)
(* hands of every turn that loaded the row after it.                       *)
(***************************************************************************)
Standing(p) ==
  /\ \A w \in wipes : w[2] < p
  /\ \A i \in DOMAIN log : i > p => base[log[i]] >= p

Holds(pairs, p, n) ==
  \E j \in DOMAIN pairs : pairs[j] = log[p][1] /\ Len(pairs) - j <= n - p

Kept ==
  \A p \in DOMAIN log : Standing(p) =>
    /\ Len(log) - p < MaxPairs => Holds(row.pairs, p, Len(log))
    /\ \A a \in Attempts :
         phase[a] = "working" /\ base[a] >= p /\ base[a] - p < MaxPairs =>
           Holds(slots[a].pairs, p, base[a])

IInv == TypeOK /\ Attempted /\ Undisturbed /\ InSequence /\ Kept

-----------------------------------------------------------------------------
\* Facts about the history.

\* append_turn adds the message at the end, keeps where the user is, and cuts
\* at the front what is more than MaxPairs.
LEMMA AppendTurnResult ==
  ASSUME NEW s \in Rows, NEW r \in Requests
  PROVE  LET t == AppendTurn(s, r)
             n == Len(s.pairs) + 1
         IN  /\ t \in Rows
             /\ t.loc = s.loc
             /\ Len(t.pairs) = IF n > MaxPairs THEN MaxPairs ELSE n
             /\ t.pairs[Len(t.pairs)] = r
             /\ \A j \in DOMAIN s.pairs :
                  n - j < MaxPairs => /\ Len(t.pairs) - (n - j) \in DOMAIN t.pairs
                                      /\ t.pairs[Len(t.pairs) - (n - j)] = s.pairs[j]
<1>. DEFINE p   == s.pairs
            n   == Len(p) + 1
            all == Append(p, r)
            cut == IF Len(all) > MaxPairs THEN SubSeq(all, Len(all) - MaxPairs + 1, Len(all)) ELSE all
            t   == AppendTurn(s, r)
<1>1. p \in Seq(Requests) /\ s = [pairs |-> p, loc |-> s.loc] /\ s.loc \in Locating \cup {NoRequest}
  BY DEF Rows
<1>2. /\ all \in Seq(Requests) /\ Len(all) = n /\ n \in Nat \ {0} /\ all[n] = r
      /\ \A j \in 1 .. Len(p) : all[j] = p[j]
  BY <1>1
<1>3. ASSUME NEW q \in Seq(Requests), Len(q) <= MaxPairs
      PROVE  LET u == [s EXCEPT !.pairs = q] IN u \in Rows /\ u.pairs = q /\ u.loc = s.loc
  <2>1. PICK u : u = [s EXCEPT !.pairs = q]
    OBVIOUS
  <2>2. /\ u \in [pairs : Seq(Requests), loc : Locating \cup {NoRequest}]
        /\ u.pairs = q /\ u.loc = s.loc
    BY <1>1, <2>1
  <2>3. u \in Rows
    BY <1>3, <2>2 DEF Rows
  <2>. QED  BY <2>1, <2>2, <2>3
<1>4. /\ cut \in Seq(Requests)
      /\ Len(cut) = IF n > MaxPairs THEN MaxPairs ELSE n
      /\ \A j \in 1 .. Len(cut) : cut[j] = all[n - Len(cut) + j]
  <2>1. CASE n > MaxPairs
    <3>1. cut = SubSeq(all, n - MaxPairs + 1, n)
      BY <1>2, <2>1
    <3>. HIDE DEF all, cut, n
    <3>. QED  BY <1>2, <2>1, <3>1, SessionsAssumption
  <2>2. CASE ~(n > MaxPairs)
    BY <1>2, <2>2
  <2>. QED  BY <2>1, <2>2
<1>5. t.pairs = cut /\ t.loc = s.loc /\ t \in Rows
  <2>1. t = [s EXCEPT !.pairs = cut]
    BY DEF AppendTurn
  <2>2. Len(cut) <= MaxPairs
    BY <1>2, <1>4, SessionsAssumption
  <2>. HIDE DEF t, cut
  <2>. QED  BY <1>3, <1>4, <2>1, <2>2
<1>. HIDE DEF all, cut, t
<1>6. Len(cut) \in Nat \ {0} /\ Len(cut) <= n /\ DOMAIN cut = 1 .. Len(cut)
  BY <1>1, <1>2, <1>4, SessionsAssumption
<1>7. cut[Len(cut)] = r
  BY <1>2, <1>4, <1>6
<1>8. ASSUME NEW j \in DOMAIN p, n - j < MaxPairs
      PROVE  Len(cut) - (n - j) \in DOMAIN cut /\ cut[Len(cut) - (n - j)] = p[j]
  <2>1. j \in 1 .. Len(p) /\ n = Len(p) + 1
    BY <1>1
  <2>2. Len(cut) - (n - j) \in 1 .. Len(cut)
    BY <1>2, <1>4, <1>8, <2>1, SessionsAssumption
  <2>3. n - Len(cut) + (Len(cut) - (n - j)) = j
    BY <1>2, <1>6, <2>1
  <2>. QED  BY <1>2, <1>4, <1>6, <2>1, <2>2, <2>3
<1>. QED  BY <1>4, <1>5, <1>7, <1>8 DEF t

-----------------------------------------------------------------------------
\* Every step keeps every variable in its type.
LEMMA TypeStep ==
  ASSUME TypeOK, [Next]_vars
  PROVE  TypeOK'
<1>. USE DEF TypeOK, Phases, Running
<1>0. Fresh \in Rows
  BY SessionsAssumption DEF Fresh, Rows
<1>1. ASSUME NEW a \in Attempts, RateLimited(a) PROVE TypeOK'
  BY <1>1 DEF RateLimited, outside, ghosts, Attempts
<1>2. ASSUME NEW a \in Attempts, Load(a) PROVE TypeOK'
  <2>1. (IF a[1] \in Locating THEN [row EXCEPT !.loc = a[1]] ELSE row) \in Rows
    BY DEF Rows
  <2>2. slots' \in [Attempts -> Rows]
    BY <1>2, <2>1 DEF Load
  <2>3. base' \in [Attempts -> Nat]
    BY <1>2 DEF Load
  <2>. QED  BY <1>2, <2>2, <2>3 DEF Load, outside, caller
<1>3. ASSUME NEW a \in Attempts, ForgetMe(a) PROVE TypeOK'
  BY <1>0, <1>3 DEF ForgetMe, outside, caller
<1>4. ASSUME NEW a \in Attempts, Store(a) PROVE TypeOK'
  <2>1. AppendTurn(slots[a], a[1]) \in Rows
    <3>1. slots[a] \in Rows /\ a[1] \in Requests
      BY DEF Attempts
    <3>. QED  BY <3>1, AppendTurnResult
  <2>2. slots' \in [Attempts -> Rows]
    BY <1>0, <1>4 DEF Store
  <2>3. log' \in Seq(Attempts)
    BY <1>4 DEF Store
  <2>4. phase' \in [Attempts -> Phases]
    BY <1>4 DEF Store
  <2>. QED  BY <1>4, <2>1, <2>2, <2>3, <2>4 DEF Store, outside, caller, ghosts
<1>5. ASSUME NEW a \in Attempts, Finish(a) PROVE TypeOK'
  <2>1. phase' \in [Attempts -> Phases]
    BY <1>5 DEF Finish
  <2>2. client' \in [Requests -> {"unsent", "waiting", "answered", "failed"}]
    BY <1>5 DEF Finish, Attempts
  <2>. QED  BY <1>5, <2>1, <2>2 DEF Finish, outside, ghosts
<1>6. ASSUME NEW a \in Attempts, Raise(a) PROVE TypeOK'
  <2>1. sock' \in Replicas \cup {Closed} /\ client' \in [Requests -> {"unsent", "waiting", "answered", "failed"}]
    <3>1. CASE UNCHANGED <<sock, client>>
      BY <3>1
    <3>2. CASE SocketLost
      BY <3>2 DEF SocketLost
    <3>3. CASE client' = [client EXCEPT ![a[1]] = "failed"] /\ UNCHANGED sock
      BY <3>3 DEF Attempts
    <3>. QED  BY <1>6, <3>1, <3>2, <3>3 DEF Raise
  <2>2. slots' \in [Attempts -> Rows]
    BY <1>0, <1>6 DEF Raise
  <2>3. phase' \in [Attempts -> Phases]
    BY <1>6 DEF Raise
  <2>. QED  BY <1>6, <2>1, <2>2, <2>3 DEF Raise, ghosts
<1>7. ASSUME NEW r \in Requests, BadGateway(r) PROVE TypeOK'
  BY <1>7 DEF BadGateway, outside, ghosts
<1>8. ASSUME NEW r \in Requests, NEW R \in Replicas, tries[r] < 2, Begin(r, R)
      PROVE  TypeOK'
  <2>1. phase' \in [Attempts -> Phases] /\ at' \in [Attempts -> Replicas \cup {Nowhere}]
    BY <1>8 DEF Begin
  <2>2. tries' \in [Requests -> 0 .. 2]
    <3>1. tries[r] + 1 \in 0 .. 2
      <4>1. tries[r] \in 0 .. 2
        BY <1>8
      <4>. QED  BY <1>8, <4>1
    <3>. QED  BY <1>8, <3>1 DEF Begin
  <2>. QED  BY <1>8, <2>1, <2>2 DEF Begin, outside, ghosts
<1>9. ASSUME NEW r \in Requests, Receive(r) PROVE TypeOK'
  BY <1>8, <1>9 DEF Receive
<1>10. ASSUME NEW r \in Requests, NEW R \in Replicas, Forward(r, R) PROVE TypeOK'
  BY <1>8, <1>10 DEF Forward
<1>11. ASSUME CloseSocket PROVE TypeOK'
  BY <1>11, SessionsAssumption DEF CloseSocket, Fault, SocketLost
<1>12. ASSUME NEW R \in Replicas, Crash(R) PROVE TypeOK'
  <2>1. sock' \in Replicas \cup {Closed} /\ client' \in [Requests -> {"unsent", "waiting", "answered", "failed"}]
    BY <1>12 DEF Crash, SocketLost
  <2>2. slots' \in [Attempts -> Rows]
    BY <1>0, <1>12 DEF Crash
  <2>3. phase' \in [Attempts -> Phases]
    BY <1>12 DEF Crash
  <2>. QED  BY <1>12, <2>1, <2>2, <2>3, SessionsAssumption DEF Crash, Fault, ghosts
<1>13. ASSUME NEW r \in Requests, TimeOut(r) PROVE TypeOK'
  BY <1>13, SessionsAssumption DEF TimeOut, Fault, caller, Current, Attempts
<1>14. ASSUME NEW r \in Requests, Send(r) PROVE TypeOK'
  BY <1>14 DEF Send, outside
<1>15. ASSUME NEW R \in Replicas, Restart(R) \/ OpenSocket(R) PROVE TypeOK'
  BY <1>15 DEF Restart, OpenSocket, caller, ghosts
<1>16. ASSUME UNCHANGED vars PROVE TypeOK'
  BY <1>16 DEF vars, outside, caller, ghosts
<1>. QED  BY <1>1, <1>2, <1>3, <1>4, <1>5, <1>6, <1>7, <1>9, <1>10, <1>11, <1>12, <1>13, <1>14,
             <1>15, <1>16 DEF Next, Turns, Proxy, Faulty

-----------------------------------------------------------------------------
\* What a step may do to an attempt.

\* An attempt begins when nginx forwards its message, or the socket's handler
\* takes it.
Begins(r, R) ==
  /\ Waiting(r)
  /\ IF r \in WsRequests
     THEN tries[r] = 0 /\ R = sock
     ELSE tries[r] = 0 \/ (tries[r] = 1 /\ Broken(r))
  /\ Begin(r, R)

Beginning == \E r \in Requests : \E R \in Replicas : Begins(r, R)

Move(x, y) ==
  \/ x = y
  \/ x = "received" /\ y \in {"limited", "working", "raised", "killed"}
  \/ x = "working" /\ y \in {"stored", "raised", "killed"}
  \/ x = "stored" /\ y \in {"answered", "dropped", "killed"}

\* Forward and Receive are the ways to begin.
LEMMA WaysToBegin ==
  ASSUME TypeOK, NEW r \in Requests
  PROVE  /\ Receive(r) => Beginning
         /\ \A R \in Replicas : Forward(r, R) => Beginning
<1>1. ASSUME Receive(r) PROVE Beginning
  <2>1. sock \in Replicas
    BY <1>1 DEF Receive, TypeOK
  <2>2. Begins(r, sock)
    BY <1>1 DEF Receive, Begins
  <2>. QED  BY <2>1, <2>2 DEF Beginning
<1>2. ASSUME NEW R \in Replicas, Forward(r, R) PROVE Beginning
  <2>1. Begins(r, R)
    BY <1>2 DEF Forward, Begins
  <2>. QED  BY <2>1 DEF Beginning
<1>. QED  BY <1>1, <1>2

\* An attempt that begins is the next of its message, and was idle; nothing
\* else changes.
LEMMA BeginningAttempt ==
  ASSUME TypeOK, Tried, NEW r \in Requests, NEW R \in Replicas, Begins(r, R)
  PROVE  /\ <<r, tries[r] + 1>> \in Attempts
         /\ phase[<<r, tries[r] + 1>>] = "idle"
         /\ tries' = [tries EXCEPT ![r] = tries[r] + 1]
         /\ at' = [at EXCEPT ![<<r, tries[r] + 1>>] = R]
         /\ phase'[<<r, tries[r] + 1>>] \in {"received", "refused"}
         /\ \A b \in Attempts : b # <<r, tries[r] + 1>> => phase'[b] = phase[b]
         /\ UNCHANGED <<outside, client, row, slots, log, ghosts>>
<1>1. tries[r] \in {0, 1}
  BY DEF Begins
<1>2. <<r, tries[r] + 1>> \in Attempts
  BY <1>1 DEF Attempts
<1>3. phase[<<r, tries[r] + 1>>] = "idle"
  BY <1>1, <1>2 DEF Tried
<1>. QED  BY <1>2, <1>3 DEF Begins, Begin, TypeOK

\* Any other step moves every attempt forward, if at all.
LEMMA Moves ==
  ASSUME TypeOK, [Next]_vars, ~Beginning
  PROVE  UNCHANGED <<tries, at>> /\ \A b \in Attempts : Move(phase[b], phase'[b])
<1>. USE DEF TypeOK, Move
<1>1. ASSUME NEW a \in Attempts, RateLimited(a) \/ Load(a) \/ ForgetMe(a)
      PROVE  UNCHANGED <<tries, at>> /\ \A b \in Attempts : Move(phase[b], phase'[b])
  BY <1>1 DEF RateLimited, Load, ForgetMe, caller
<1>2. ASSUME NEW a \in Attempts, Store(a) \/ Finish(a) \/ Raise(a)
      PROVE  UNCHANGED <<tries, at>> /\ \A b \in Attempts : Move(phase[b], phase'[b])
  BY <1>2 DEF Store, Finish, Raise, caller
<1>3. ASSUME NEW R \in Replicas, Crash(R)
      PROVE  UNCHANGED <<tries, at>> /\ \A b \in Attempts : Move(phase[b], phase'[b])
  BY <1>3 DEF Crash, Running
<1>4. ASSUME NEW r \in Requests, BadGateway(r) \/ TimeOut(r) \/ Send(r)
      PROVE  UNCHANGED <<tries, at>> /\ \A b \in Attempts : Move(phase[b], phase'[b])
  BY <1>4 DEF BadGateway, TimeOut, Send, caller
<1>5. ASSUME NEW R \in Replicas, Restart(R) \/ OpenSocket(R)
      PROVE  UNCHANGED <<tries, at>> /\ \A b \in Attempts : Move(phase[b], phase'[b])
  BY <1>5 DEF Restart, OpenSocket, caller
<1>6. ASSUME CloseSocket \/ UNCHANGED vars
      PROVE  UNCHANGED <<tries, at>> /\ \A b \in Attempts : Move(phase[b], phase'[b])
  BY <1>6 DEF CloseSocket, vars, caller
<1>. QED  BY <1>1, <1>2, <1>3, <1>4, <1>5, <1>6, WaysToBegin DEF Next, Turns, Proxy, Faulty

\* Only a save adds to the log, or makes an attempt one that saved.
LEMMA OnlyStoreLogs ==
  ASSUME TypeOK, Tried, [Next]_vars, ~\E a \in Attempts : Store(a)
  PROVE  /\ UNCHANGED log
         /\ \A b \in Attempts : phase'[b] \in {"stored", "answered", "dropped"} =>
                                  phase[b] \in {"stored", "answered", "dropped"}
<1>. DEFINE Same == /\ UNCHANGED log
                    /\ \A b \in Attempts : phase'[b] \in {"stored", "answered", "dropped"} =>
                                             phase[b] \in {"stored", "answered", "dropped"}
<1>0. ASSUME Beginning PROVE Same
  BY <1>0, BeginningAttempt DEF Beginning
<1>. USE DEF TypeOK
<1>1. ASSUME NEW a \in Attempts, RateLimited(a) \/ Load(a) \/ ForgetMe(a) PROVE Same
  BY <1>1 DEF RateLimited, Load, ForgetMe
<1>2. ASSUME NEW a \in Attempts, Finish(a) \/ Raise(a) PROVE Same
  BY <1>2 DEF Finish, Raise
<1>3. ASSUME NEW R \in Replicas, Crash(R) PROVE Same
  BY <1>3 DEF Crash, Running
<1>4. ASSUME NEW r \in Requests, BadGateway(r) \/ TimeOut(r) \/ Send(r) PROVE Same
  BY <1>4 DEF BadGateway, TimeOut, Send
<1>5. ASSUME NEW R \in Replicas, Restart(R) \/ OpenSocket(R) PROVE Same
  BY <1>5 DEF Restart, OpenSocket
<1>6. ASSUME CloseSocket \/ UNCHANGED vars PROVE Same
  BY <1>6 DEF CloseSocket, vars
<1>. HIDE DEF Same
<1>7. Same
  BY <1>0, <1>1, <1>2, <1>3, <1>4, <1>5, <1>6, WaysToBegin DEF Next, Turns, Proxy, Faulty
<1>. QED  BY <1>7 DEF Same

\* Only a load makes an attempt work, and what a working turn holds stays
\* what it loaded.
LEMMA OnlyLoadLoads ==
  ASSUME TypeOK, Tried, [Next]_vars, ~\E a \in Attempts : Load(a)
  PROVE  /\ UNCHANGED base
         /\ \A b \in Attempts : phase'[b] = "working" =>
                                  phase[b] = "working" /\ slots'[b] = slots[b]
<1>. DEFINE Same == /\ UNCHANGED base
                    /\ \A b \in Attempts : phase'[b] = "working" =>
                                             phase[b] = "working" /\ slots'[b] = slots[b]
<1>0. ASSUME Beginning PROVE Same
  BY <1>0, BeginningAttempt DEF Beginning, ghosts
<1>. USE DEF TypeOK
<1>1. ASSUME NEW a \in Attempts, RateLimited(a) \/ ForgetMe(a) PROVE Same
  BY <1>1 DEF RateLimited, ForgetMe, ghosts
<1>2. ASSUME NEW a \in Attempts, Store(a) \/ Finish(a) \/ Raise(a) PROVE Same
  BY <1>2 DEF Store, Finish, Raise, ghosts
<1>3. ASSUME NEW R \in Replicas, Crash(R) PROVE Same
  BY <1>3 DEF Crash, Running, ghosts
<1>4. ASSUME NEW r \in Requests, BadGateway(r) \/ TimeOut(r) \/ Send(r) PROVE Same
  BY <1>4 DEF BadGateway, TimeOut, Send, ghosts
<1>5. ASSUME NEW R \in Replicas, Restart(R) \/ OpenSocket(R) PROVE Same
  BY <1>5 DEF Restart, OpenSocket, ghosts
<1>6. ASSUME CloseSocket \/ UNCHANGED vars PROVE Same
  BY <1>6 DEF CloseSocket, vars, ghosts
<1>. HIDE DEF Same
<1>7. Same
  BY <1>0, <1>1, <1>2, <1>3, <1>4, <1>5, <1>6, WaysToBegin DEF Next, Turns, Proxy, Faulty
<1>. QED  BY <1>7 DEF Same

\* The client's view of a message changes when it is sent, and when the wait
\* for it ends; and the socket goes only with every message that waits on it.
LEMMA ClientMoves ==
  ASSUME TypeOK, Tried, [Next]_vars
  PROVE  /\ \A r \in Requests : \/ client'[r] = client[r]
                                \/ Waiting(r) /\ client'[r] \in {"answered", "failed"}
                                \/ Send(r)
         /\ \/ sock' = sock
            \/ sock = Closed /\ UNCHANGED client
            \/ \A r \in WsRequests : ~Waiting(r)'
<1>. DEFINE Call(r) == \/ client'[r] = client[r]
                       \/ Waiting(r) /\ client'[r] \in {"answered", "failed"}
                       \/ Send(r)
            Calls == \A r \in Requests : Call(r)
            Socket == \/ sock' = sock
                      \/ sock = Closed /\ UNCHANGED client
                      \/ \A r \in WsRequests : ~Waiting(r)'
<1>. USE DEF TypeOK, Waiting, outside
<1>1. ASSUME SocketLost PROVE Calls /\ Socket
  BY <1>1, SessionsAssumption DEF SocketLost
<1>2. ASSUME NEW a \in Attempts, Listening(a), NEW x \in {"answered", "failed"},
             client' = [client EXCEPT ![a[1]] = x]
      PROVE  Calls
  BY <1>2 DEF Listening
<1>3. ASSUME UNCHANGED client PROVE Calls
  BY <1>3
<1>4. ASSUME Beginning PROVE Calls /\ Socket
  BY <1>3, <1>4, BeginningAttempt DEF Beginning
<1>5. ASSUME NEW a \in Attempts, RateLimited(a) PROVE Calls /\ Socket
  BY <1>2, <1>3, <1>5 DEF RateLimited
<1>6. ASSUME NEW a \in Attempts, Load(a) \/ ForgetMe(a) \/ Store(a) PROVE Calls /\ Socket
  BY <1>3, <1>6 DEF Load, ForgetMe, Store, caller
<1>7. ASSUME NEW a \in Attempts, Finish(a) PROVE Calls /\ Socket
  BY <1>2, <1>3, <1>7 DEF Finish
<1>8. ASSUME NEW a \in Attempts, Raise(a) PROVE Calls /\ Socket
  <2>1. CASE ~Listening(a)
    BY <1>3, <1>8, <2>1 DEF Raise
  <2>2. CASE Listening(a) /\ a[1] \in WsRequests
    BY <1>1, <1>8, <2>2 DEF Raise
  <2>3. CASE Listening(a) /\ a[1] \notin WsRequests
    BY <1>2, <1>8, <2>3 DEF Raise
  <2>. QED  BY <2>1, <2>2, <2>3
<1>9. ASSUME NEW R \in Replicas, Crash(R) PROVE Calls /\ Socket
  BY <1>1, <1>3, <1>9 DEF Crash
<1>10. ASSUME NEW r \in Requests, BadGateway(r) PROVE Calls /\ Socket
  BY <1>10 DEF BadGateway
<1>11. ASSUME NEW r \in Requests, TimeOut(r) PROVE Calls /\ Socket
  BY <1>3, <1>11 DEF TimeOut, caller
<1>12. ASSUME NEW r \in Requests, Send(r) PROVE Calls /\ Socket
  <2>1. \A q \in Requests : q # r => client'[q] = client[q]
    BY <1>12 DEF Send
  <2>2. Call(r) /\ Socket
    BY <1>12 DEF Send
  <2>. QED  BY <2>1, <2>2
<1>13. ASSUME NEW R \in Replicas, Restart(R) \/ OpenSocket(R) PROVE Calls /\ Socket
  BY <1>3, <1>13 DEF Restart, OpenSocket, caller
<1>14. ASSUME CloseSocket \/ UNCHANGED vars PROVE Calls /\ Socket
  BY <1>1, <1>3, <1>14 DEF CloseSocket, vars, caller
<1>. HIDE DEF Calls, Socket
<1>15. Calls /\ Socket
  BY <1>4, <1>5, <1>6, <1>7, <1>8, <1>9, <1>10, <1>11, <1>12, <1>13, <1>14, WaysToBegin
     DEF Next, Turns, Proxy, Faulty
<1>. QED  BY <1>15 DEF Calls, Socket

\* History is only added to.
LEMMA HistoryGrows ==
  ASSUME TypeOK, Tried, [Next]_vars
  PROVE  orphans \subseteq orphans' /\ wipes \subseteq wipes' /\ (hurried => hurried')
<1>. DEFINE Grows == orphans \subseteq orphans' /\ wipes \subseteq wipes' /\ (hurried => hurried')
<1>1. ASSUME NEW a \in Attempts,
             RateLimited(a) \/ Load(a) \/ ForgetMe(a) \/ Store(a) \/ Finish(a) \/ Raise(a)
      PROVE  Grows
  BY <1>1 DEF RateLimited, Load, ForgetMe, Store, Finish, Raise, ghosts
<1>2. ASSUME NEW r \in Requests, BadGateway(r) \/ TimeOut(r) \/ Send(r) PROVE Grows
  <2>1. CASE BadGateway(r) \/ TimeOut(r)
    BY <2>1 DEF BadGateway, TimeOut, ghosts
  <2>2. CASE Send(r)
    <3>1. UNCHANGED <<orphans, wipes>>
      BY <2>2 DEF Send
    <3>2. hurried => hurried'
      BY <2>2, Zenon DEF Send
    <3>. QED  BY <3>1, <3>2
  <2>. QED  BY <1>2, <2>1, <2>2
<1>3. ASSUME NEW R \in Replicas, Crash(R) \/ Restart(R) \/ OpenSocket(R) PROVE Grows
  BY <1>3 DEF Crash, Restart, OpenSocket, ghosts
<1>4. ASSUME CloseSocket \/ UNCHANGED vars PROVE Grows
  BY <1>4 DEF CloseSocket, vars, ghosts
<1>5. ASSUME Beginning PROVE Grows
  BY <1>5, BeginningAttempt DEF Beginning, ghosts
<1>. HIDE DEF Grows
<1>6. Grows
  BY <1>1, <1>2, <1>3, <1>4, <1>5, WaysToBegin DEF Next, Turns, Proxy, Faulty
<1>. QED  BY <1>6 DEF Grows

\* What a save does.
LEMMA StoreResult ==
  ASSUME TypeOK, NEW a \in Attempts, Store(a)
  PROVE  /\ Len(log') = Len(log) + 1 /\ DOMAIN log' = 1 .. Len(log) + 1
         /\ DOMAIN log = 1 .. Len(log) /\ Len(log) \in Nat
         /\ log'[Len(log) + 1] = a
         /\ \A i \in DOMAIN log : log'[i] = log[i] /\ log[i] \in Attempts
         /\ phase[a] = "working" /\ phase'[a] = "stored"
         /\ \A b \in Attempts : b # a => phase'[b] = phase[b] /\ slots'[b] = slots[b]
         /\ UNCHANGED <<base, wipes>>
<1>1. log \in Seq(Attempts) /\ log' = Append(log, a)
  BY DEF Store, TypeOK
<1>. QED  BY <1>1 DEF Store, TypeOK, ghosts

-----------------------------------------------------------------------------
\* Every step keeps what is known of the attempts.

\* An attempt is made only when nginx has counted it.
LEMMA TriedStep ==
  ASSUME TypeOK, Tried, [Next]_vars
  PROVE  Tried'
<1>1. ASSUME NEW b \in Attempts PROVE b = <<b[1], b[2]>> /\ b[1] \in Requests /\ b[2] \in {1, 2}
  BY DEF Attempts
<1>2. CASE Beginning
  <2>1. PICK r \in Requests, R \in Replicas : Begins(r, R)
    BY <1>2 DEF Beginning
  <2>2. ASSUME NEW b \in Attempts, phase'[b] # "idle" PROVE b[2] <= tries'[b[1]]
    <3>1. /\ tries[b[1]] \in 0 .. 2 /\ tries[r] \in 0 .. 2
          /\ tries'[b[1]] = IF b[1] = r THEN tries[r] + 1 ELSE tries[b[1]]
      <4>1. tries \in [Requests -> 0 .. 2] /\ b[1] \in Requests
        BY <1>1 DEF TypeOK
      <4>2. tries' = [tries EXCEPT ![r] = tries[r] + 1]
        BY <2>1, BeginningAttempt
      <4>. QED  BY <4>1, <4>2
    <3>2. CASE b = <<r, tries[r] + 1>>
      BY <2>1, <3>1, <3>2, BeginningAttempt DEF TypeOK
    <3>3. CASE b # <<r, tries[r] + 1>>
      <4>1. phase[b] # "idle"
        BY <2>1, <2>2, <3>3, BeginningAttempt
      <4>2. b[2] \in {1, 2} /\ b[2] <= tries[b[1]]
        BY <1>1, <4>1 DEF Tried
      <4>. QED  BY <3>1, <4>2
    <3>. QED  BY <3>2, <3>3
  <2>. QED  BY <2>2 DEF Tried
<1>3. CASE ~Beginning
  BY <1>3, Moves DEF Move, Tried
<1>. QED  BY <1>2, <1>3

\* Nothing is tried before the client sends it.
LEMMA UnsentStep ==
  ASSUME TypeOK, Tried, Unsent, [Next]_vars
  PROVE  Unsent'
<1>. SUFFICES ASSUME NEW r \in Requests, client'[r] = "unsent" PROVE tries'[r] = 0
  BY DEF Unsent
<1>1. client[r] = "unsent"
  BY ClientMoves DEF Send
<1>2. CASE Beginning
  <2>1. PICK q \in Requests, R \in Replicas : Begins(q, R)
    BY <1>2 DEF Beginning
  <2>2. q # r
    BY <1>1, <2>1 DEF Begins, Waiting
  <2>. QED  BY <1>1, <2>1, <2>2, BeginningAttempt DEF Unsent, TypeOK
<1>3. CASE ~Beginning
  BY <1>1, <1>3, Moves DEF Unsent
<1>. QED  BY <1>2, <1>3

\* A message on a socket is tried at the socket's end, and once.
LEMMA OnSocketStep ==
  ASSUME TypeOK, Tried, Unsent, OnSocket, [Next]_vars
  PROVE  OnSocket'
<1>. SUFFICES ASSUME NEW r \in WsRequests
              PROVE  /\ tries'[r] <= 1
                     /\ Waiting(r)' => sock' # Closed
                     /\ Waiting(r)' /\ tries'[r] = 1 => at'[<<r, 1>>] = sock'
  BY DEF OnSocket, Waiting
<1>1. r \in Requests /\ tries[r] <= 1 /\ tries[r] \in 0 .. 2
  BY SessionsAssumption DEF OnSocket, TypeOK
<1>2. ASSUME Waiting(r)' PROVE sock' = sock /\ sock # Closed /\ (Waiting(r) \/ tries[r] = 0)
  <2>1. CASE Send(r)
    BY <1>1, <2>1 DEF Send, outside, Unsent
  <2>2. CASE ~Send(r)
    <3>1. Waiting(r)
      BY <1>1, <1>2, <2>2, ClientMoves DEF Waiting
    <3>2. sock # Closed
      BY <3>1 DEF OnSocket
    <3>. QED  BY <1>2, <3>1, <3>2, ClientMoves
  <2>. QED  BY <2>1, <2>2
<1>3. CASE Beginning
  <2>1. PICK q \in Requests, R \in Replicas : Begins(q, R)
    BY <1>3 DEF Beginning
  <2>2. UNCHANGED <<sock, client>>
    BY <2>1, BeginningAttempt DEF outside
  <2>3. CASE q = r
    <3>1. tries[r] = 0 /\ R = sock
      BY <2>1, <2>3 DEF Begins
    <3>2. tries'[r] = 1 /\ at'[<<r, 1>>] = R
      <4>1. tries[r] + 1 = 1 /\ <<r, 1>> \in Attempts
        BY <1>1, <3>1 DEF Attempts
      <4>. QED  BY <1>1, <2>1, <2>3, <3>1, <4>1, BeginningAttempt DEF TypeOK
    <3>. QED  BY <1>2, <2>2, <3>1, <3>2
  <2>4. CASE q # r
    <3>1. tries'[r] = tries[r] /\ at'[<<r, 1>>] = at[<<r, 1>>]
      <4>1. <<r, 1>> \in Attempts /\ <<r, 1>> # <<q, tries[q] + 1>>
        BY <1>1, <2>4 DEF Attempts
      <4>. QED  BY <1>1, <2>1, <2>4, <4>1, BeginningAttempt DEF TypeOK
    <3>. QED  BY <1>1, <1>2, <2>2, <3>1 DEF OnSocket
  <2>. QED  BY <2>3, <2>4
<1>4. CASE ~Beginning
  BY <1>1, <1>2, <1>4, Moves DEF OnSocket
<1>. QED  BY <1>3, <1>4

\* A second attempt follows one that broke or was left alone.
LEMMA SecondStep ==
  ASSUME TypeOK, Attempted, [Next]_vars
  PROVE  SecondHasACause'
<1>. SUFFICES ASSUME NEW r \in Requests, tries'[r] = 2
              PROVE  <<r, 1>> \in orphans' \/ phase'[<<r, 1>>] \in {"refused", "killed"}
  BY DEF SecondHasACause
<1>1. <<r, 1>> \in Attempts /\ tries[r] \in 0 .. 2
  BY DEF Attempts, TypeOK
<1>2. orphans \subseteq orphans'
  BY HistoryGrows DEF Attempted
<1>3. CASE Beginning
  <2>1. PICK q \in Requests, R \in Replicas : Begins(q, R)
    BY <1>3 DEF Beginning
  <2>2. Tried
    BY DEF Attempted
  <2>3. CASE q = r
    <3>1. tries[r] = 1
      <4>1. tries'[r] = tries[r] + 1
        BY <2>1, <2>2, <2>3, BeginningAttempt DEF TypeOK
      <4>. QED  BY <1>1, <4>1
    <3>2. Broken(r) /\ Current(r) = <<r, 1>>
      BY <2>1, <2>3, <3>1 DEF Begins, Current
    <3>3. phase'[<<r, 1>>] = phase[<<r, 1>>]
      <4>1. <<r, 1>> # <<q, tries[q] + 1>>
        BY <2>3, <3>1
      <4>. QED  BY <1>1, <2>1, <2>2, <4>1, BeginningAttempt
    <3>. QED  BY <1>2, <3>2, <3>3 DEF Broken
  <2>4. CASE q # r
    <3>1. tries[r] = 2 /\ phase'[<<r, 1>>] = phase[<<r, 1>>]
      BY <1>1, <2>1, <2>2, <2>4, BeginningAttempt DEF TypeOK
    <3>. QED  BY <1>2, <3>1 DEF Attempted, SecondHasACause
  <2>. QED  BY <2>3, <2>4
<1>4. CASE ~Beginning
  <2>1. tries[r] = 2 /\ Move(phase[<<r, 1>>], phase'[<<r, 1>>])
    BY <1>1, <1>4, Moves DEF Attempted
  <2>. QED  BY <1>2, <2>1 DEF Move, Attempted, SecondHasACause
<1>. QED  BY <1>3, <1>4

\* The log holds what was saved, each after what it had loaded.
LEMMA LoggedStep ==
  ASSUME TypeOK, Tried, Logged, [Next]_vars
  PROVE  Logged'
<1>0. DOMAIN log = 1 .. Len(log) /\ Len(log) \in Nat /\ \A i \in DOMAIN log : log[i] \in Attempts
  BY DEF TypeOK
<1>. DEFINE Past == {"stored", "answered", "dropped", "killed"}
<1>1. ASSUME NEW b \in Attempts, phase[b] \in Past PROVE phase'[b] \in Past
  <2>1. CASE Beginning
    BY <1>1, <2>1, BeginningAttempt DEF Beginning
  <2>2. CASE ~Beginning
    BY <1>1, <2>2, Moves DEF Move
  <2>. QED  BY <2>1, <2>2
<1>2. CASE \E a \in Attempts : Store(a)
  <2>1. PICK a \in Attempts : Store(a)
    BY <1>2
  <2>2. ASSUME NEW i \in DOMAIN log' PROVE phase'[log'[i]] \in Past /\ base'[log'[i]] < i
    <3>1. CASE i = Len(log) + 1
      <4>1. log'[i] = a /\ base'[a] = base[a] /\ phase'[a] = "stored" /\ phase[a] = "working"
        BY <2>1, <3>1, StoreResult
      <4>2. base[a] <= Len(log) /\ base[a] \in Nat
        BY <4>1 DEF Logged, TypeOK
      <4>. QED  BY <1>0, <3>1, <4>1, <4>2
    <3>2. CASE i # Len(log) + 1
      <4>1. i \in DOMAIN log /\ log'[i] = log[i] /\ base' = base
        BY <1>0, <2>1, <3>2, StoreResult
      <4>. QED  BY <1>0, <1>1, <4>1 DEF Logged
    <3>. QED  BY <3>1, <3>2
  <2>3. ASSUME NEW b \in Attempts, phase'[b] \in {"stored", "answered", "dropped"}
        PROVE  \E i \in DOMAIN log' : log'[i] = b
    <3>1. CASE b = a
      <4>1. Len(log) + 1 \in DOMAIN log' /\ log'[Len(log) + 1] = a
        BY <1>0, <2>1, StoreResult
      <4>. QED  BY <3>1, <4>1
    <3>2. CASE b # a
      <4>1. Saved(b)
        BY <2>1, <2>3, <3>2, StoreResult DEF Logged
      <4>2. PICK i \in DOMAIN log : log[i] = b
        BY <4>1 DEF Saved
      <4>3. i \in DOMAIN log' /\ log'[i] = b
        BY <1>0, <2>1, <4>2, StoreResult
      <4>. QED  BY <4>3
    <3>. QED  BY <3>1, <3>2
  <2>4. ASSUME NEW b \in Attempts, phase'[b] = "working" PROVE base'[b] <= Len(log')
    <3>1. phase[b] = "working" /\ base' = base /\ Len(log') = Len(log) + 1 /\ base[b] \in Nat
      BY <2>1, <2>4, StoreResult DEF TypeOK
    <3>. QED  BY <1>0, <3>1 DEF Logged
  <2>. QED  BY <2>2, <2>3, <2>4 DEF Logged, Saved
<1>3. CASE ~\E a \in Attempts : Store(a)
  <2>1. log' = log
    BY <1>3, OnlyStoreLogs
  <2>2. ASSUME NEW b \in Attempts, phase'[b] \in {"stored", "answered", "dropped"} PROVE Saved(b)'
    BY <1>3, <2>1, <2>2, OnlyStoreLogs DEF Logged, Saved
  <2>3. CASE \E a \in Attempts : Load(a)
    <3>1. PICK a \in Attempts : Load(a)
      BY <2>3
    <3>2. /\ phase[a] = "received" /\ base' = [base EXCEPT ![a] = Len(log)]
          /\ \A b \in Attempts : b # a => phase'[b] = phase[b]
      BY <3>1 DEF Load, TypeOK
    <3>3. ASSUME NEW i \in DOMAIN log PROVE phase'[log[i]] \in Past /\ base'[log[i]] < i
      <4>1. log[i] # a
        BY <3>2 DEF Logged
      <4>. QED  BY <1>0, <3>2, <4>1 DEF Logged, TypeOK
    <3>4. ASSUME NEW b \in Attempts, phase'[b] = "working" PROVE base'[b] <= Len(log')
      BY <1>0, <2>1, <3>2, <3>4 DEF Logged, TypeOK
    <3>. QED  BY <2>1, <2>2, <3>3, <3>4 DEF Logged
  <2>4. CASE ~\E a \in Attempts : Load(a)
    <3>1. base' = base /\ \A b \in Attempts : phase'[b] = "working" => phase[b] = "working"
      BY <2>4, OnlyLoadLoads
    <3>2. ASSUME NEW i \in DOMAIN log PROVE phase'[log[i]] \in Past /\ base'[log[i]] < i
      BY <1>0, <1>1, <3>1 DEF Logged
    <3>. QED  BY <2>1, <2>2, <3>1, <3>2 DEF Logged
  <2>. QED  BY <2>3, <2>4
<1>. QED  BY <1>2, <1>3

\* All of it together.
LEMMA AttemptedStep ==
  ASSUME TypeOK, Attempted, [Next]_vars
  PROVE  Attempted'
BY TriedStep, UnsentStep, OnSocketStep, SecondStep, LoggedStep DEF Attempted

-----------------------------------------------------------------------------
\* Nothing overlaps while the client waits its turn and every turn that runs
\* is listened to.

\* The wait for a turn ends no sooner than the turn.
LEMMA ListenedToEnd ==
  ASSUME TypeOK, Attempted, Undisturbed, [Next]_vars, ~Beginning,
         ~hurried, orphans = {}, orphans' = {},
         NEW a \in Attempts, phase[a] \in Running, phase'[a] \in Running
  PROVE  Waiting(a[1])'
<1>. USE DEF TypeOK
<1>0. /\ a = <<a[1], a[2]>> /\ a[1] \in Requests /\ a[2] \in {1, 2}
      /\ Waiting(a[1]) /\ a = Current(a[1]) /\ Listening(a)
  BY DEF Attempts, Undisturbed, Listening
<1>1. ASSUME NEW b \in Attempts, phase[b] \in Running, b[1] = a[1] PROVE a = b
  BY <1>0, <1>1 DEF Undisturbed
<1>2. ASSUME UNCHANGED client PROVE Waiting(a[1])'
  BY <1>0, <1>2 DEF Waiting
<1>3. ASSUME NEW r \in Requests, r # a[1], NEW x, client' = [client EXCEPT ![r] = x]
      PROVE  Waiting(a[1])'
  BY <1>0, <1>3 DEF Waiting
<1>4. ASSUME NEW b \in Attempts, phase[b] \in Running, phase'[b] \notin Running,
             NEW x, client' = [client EXCEPT ![b[1]] = x]
      PROVE  Waiting(a[1])'
  <2>1. b # a /\ b[1] \in Requests
    BY <1>4 DEF Attempts
  <2>2. b[1] # a[1]
    BY <1>1, <1>4, <2>1
  <2>. QED  BY <1>3, <1>4, <2>1, <2>2
<1>5. ASSUME NEW b \in Attempts, RateLimited(b) PROVE Waiting(a[1])'
  <2>1. phase[b] \in Running /\ phase'[b] \notin Running
    BY <1>5 DEF RateLimited, Running
  <2>. QED  BY <1>2, <1>4, <1>5, <2>1 DEF RateLimited
<1>6. ASSUME NEW b \in Attempts, Finish(b) PROVE Waiting(a[1])'
  <2>1. phase[b] \in Running /\ phase'[b] \notin Running
    BY <1>6 DEF Finish, Running
  <2>. QED  BY <1>2, <1>4, <1>6, <2>1 DEF Finish
<1>7. ASSUME NEW b \in Attempts, Raise(b) PROVE Waiting(a[1])'
  <2>1. phase[b] \in Running /\ phase'[b] \notin Running
    BY <1>7 DEF Raise, Running
  <2>2. CASE ~Listening(b)
    BY <1>2, <1>7, <2>2 DEF Raise
  <2>3. CASE Listening(b) /\ b[1] \in WsRequests
    <3>1. Waiting(b[1]) /\ b[1] \in Requests /\ b # a
      BY <2>1, <2>3 DEF Listening, Attempts
    <3>2. FALSE
      BY <1>0, <1>1, <2>1, <3>1 DEF Undisturbed
    <3>. QED  BY <3>2
  <2>4. CASE Listening(b) /\ b[1] \notin WsRequests
    BY <1>4, <1>7, <2>1, <2>4 DEF Raise
  <2>. QED  BY <2>2, <2>3, <2>4
<1>8. ASSUME NEW R \in Replicas, Crash(R) PROVE Waiting(a[1])'
  <2>1. at[a] # R
    BY <1>8 DEF Crash, Running
  <2>2. CASE sock # R
    BY <1>2, <1>8, <2>2 DEF Crash
  <2>3. CASE sock = R /\ a[1] \notin WsRequests
    BY <1>0, <1>8, <2>3 DEF Crash, SocketLost, Waiting
  <2>4. CASE sock = R /\ a[1] \in WsRequests
    <3>1. tries[a[1]] = 1
      <4>1. a[2] = tries[a[1]]
        BY <1>0 DEF Current
      <4>2. tries[a[1]] <= 1
        BY <2>4 DEF Attempted, OnSocket
      <4>. QED  BY <1>0, <4>1, <4>2
    <3>2. at[<<a[1], 1>>] = sock /\ a = <<a[1], 1>>
      BY <1>0, <2>4, <3>1 DEF Current, Attempted, OnSocket
    <3>. QED  BY <2>1, <2>4, <3>2
  <2>. QED  BY <2>2, <2>3, <2>4
<1>9. ASSUME NEW r \in Requests, BadGateway(r) PROVE Waiting(a[1])'
  <2>1. phase[Current(r)] \in {"refused", "killed"}
    BY <1>9 DEF BadGateway, Broken
  <2>2. r # a[1]
    BY <1>0, <2>1 DEF Running
  <2>. QED  BY <1>3, <1>9, <2>2 DEF BadGateway
<1>10. ASSUME NEW r \in Requests, Send(r) PROVE Waiting(a[1])'
  BY <1>0, <1>10 DEF Send, Waiting
<1>11. ASSUME CloseSocket PROVE Waiting(a[1])'
  <2>1. a[1] \notin WsRequests
    BY <1>0, <1>11 DEF CloseSocket
  <2>. QED  BY <1>0, <1>11, <2>1 DEF CloseSocket, SocketLost, Waiting
<1>12. ASSUME NEW b \in Attempts, Load(b) \/ ForgetMe(b) \/ Store(b) PROVE Waiting(a[1])'
  BY <1>2, <1>12 DEF Load, ForgetMe, Store, caller
<1>13. ASSUME NEW r \in Requests, TimeOut(r) PROVE Waiting(a[1])'
  BY <1>2, <1>13 DEF TimeOut, caller
<1>14. ASSUME NEW R \in Replicas, Restart(R) \/ OpenSocket(R) PROVE Waiting(a[1])'
  BY <1>2, <1>14 DEF Restart, OpenSocket, caller
<1>15. ASSUME UNCHANGED vars PROVE Waiting(a[1])'
  BY <1>2, <1>15 DEF vars, caller
<1>. QED  BY <1>5, <1>6, <1>7, <1>8, <1>9, <1>10, <1>11, <1>12, <1>13, <1>14, <1>15, WaysToBegin
          DEF Next, Turns, Proxy, Faulty

\* Nobody hurries and nothing is left alone: turns stay one at a time.
LEMMA UndisturbedStep ==
  ASSUME TypeOK, Attempted, Undisturbed, [Next]_vars
  PROVE  Undisturbed'
<1>. SUFFICES ASSUME ~hurried', orphans' = {}
              PROVE  /\ \A q, r \in Requests : Waiting(q)' /\ Waiting(r)' => q = r
                     /\ \A a \in Attempts : phase'[a] \in Running => Waiting(a[1])' /\ a = Current(a[1])'
                     /\ \A a \in Attempts : phase'[a] = "working" => base'[a] = Len(log')
                     /\ \A i \in DOMAIN log' : ~Overlapped(i)'
  BY DEF Undisturbed
<1>. USE DEF TypeOK
<1>0. Tried /\ ~hurried /\ orphans = {}
  BY HistoryGrows DEF Attempted
<1>1. /\ \A q, r \in Requests : Waiting(q) /\ Waiting(r) => q = r
      /\ \A a \in Attempts : phase[a] \in Running => Waiting(a[1]) /\ a = Current(a[1])
      /\ \A a \in Attempts : phase[a] = "working" => base[a] = Len(log)
      /\ \A i \in DOMAIN log : ~Overlapped(i)
  BY <1>0 DEF Undisturbed
<1>2. ASSUME NEW a \in Attempts PROVE a[1] \in Requests /\ a = <<a[1], a[2]>> /\ a[2] \in {1, 2}
  BY DEF Attempts
<1>3. ASSUME NEW q \in Requests, NEW r \in Requests, Waiting(q)', Waiting(r)' PROVE q = r
  <2>1. CASE \E m \in Requests : Send(m)
    <3>1. PICK m \in Requests : Send(m)
      BY <2>1
    <3>2. \A n \in Requests : ~Waiting(n)
      BY <3>1, Zenon DEF Send
    <3>3. \A n \in Requests : Waiting(n)' => n = m
      BY <3>1, <3>2 DEF Send, Waiting
    <3>. QED  BY <1>3, <3>3
  <2>2. CASE ~\E m \in Requests : Send(m)
    <3>1. \A n \in Requests : Waiting(n)' => Waiting(n)
      BY <1>0, <2>2, ClientMoves DEF Waiting
    <3>. QED  BY <1>1, <1>3, <3>1
  <2>. QED  BY <2>1, <2>2
<1>4. ASSUME NEW a \in Attempts, phase'[a] \in Running PROVE Waiting(a[1])' /\ a = Current(a[1])'
  <2>1. CASE Beginning
    <3>1. PICK r \in Requests, R \in Replicas : Begins(r, R)
      BY <2>1 DEF Beginning
    <3>2. client' = client /\ tries' = [tries EXCEPT ![r] = tries[r] + 1] /\ Waiting(r)
      BY <1>0, <3>1, BeginningAttempt DEF Begins
    <3>3. CASE a = <<r, tries[r] + 1>>
      BY <3>2, <3>3 DEF Waiting, Current
    <3>4. CASE a # <<r, tries[r] + 1>>
      <4>1. phase[a] \in Running
        BY <1>0, <1>4, <3>1, <3>4, BeginningAttempt
      <4>2. Waiting(a[1]) /\ a = Current(a[1])
        BY <1>1, <4>1
      <4>3. a[1] # r
        <5>1. SUFFICES ASSUME a[1] = r PROVE FALSE
          OBVIOUS
        <5>2. tries[r] # 0
          <6>1. a[2] = tries[r]
            BY <4>2, <5>1 DEF Current
          <6>2. a[2] # 0
            BY DEF Attempts
          <6>. QED  BY <6>1, <6>2
        <5>3. phase[Current(r)] \in {"refused", "killed"}
          BY <1>0, <3>1, <5>2 DEF Begins, Broken
        <5>. QED  BY <4>1, <4>2, <5>1, <5>3 DEF Running
      <4>. QED  BY <1>2, <3>2, <4>2, <4>3 DEF Waiting, Current
    <3>. QED  BY <3>3, <3>4
  <2>2. CASE ~Beginning
    <3>1. phase[a] \in Running /\ tries' = tries
      BY <1>4, <2>2, Moves DEF Move, Running
    <3>2. a = Current(a[1])'
      BY <1>1, <3>1 DEF Current
    <3>. QED  BY <1>0, <1>4, <2>2, <3>1, <3>2, ListenedToEnd
  <2>. QED  BY <2>1, <2>2
<1>5. ASSUME NEW a \in Attempts, Store(a)
      PROVE  /\ \A b \in Attempts : phase'[b] # "working"
             /\ \A i \in DOMAIN log' : ~Overlapped(i)'
  <2>1. phase[a] = "working" /\ base[a] = Len(log)
    BY <1>1, <1>5 DEF Store
  <2>2. ASSUME NEW b \in Attempts, phase'[b] = "working" PROVE FALSE
    <3>1. b # a /\ phase[b] = "working"
      BY <1>5, <2>2, StoreResult
    <3>2. b = Current(b[1]) /\ a = Current(a[1]) /\ Waiting(a[1]) /\ Waiting(b[1])
      BY <1>1, <2>1, <3>1 DEF Running
    <3>. QED  BY <1>1, <1>2, <3>1, <3>2
  <2>3. ASSUME NEW i \in DOMAIN log' PROVE base'[log'[i]] = i - 1
    <3>1. CASE i = Len(log) + 1
      BY <1>5, <2>1, <3>1, StoreResult
    <3>2. CASE i # Len(log) + 1
      <4>1. i \in DOMAIN log /\ log'[i] = log[i] /\ base' = base
        BY <1>5, <3>2, StoreResult
      <4>. QED  BY <1>1, <4>1 DEF Overlapped
    <3>. QED  BY <3>1, <3>2
  <2>. QED  BY <2>2, <2>3 DEF Overlapped
<1>6. ASSUME ~\E a \in Attempts : Store(a)
      PROVE  /\ \A b \in Attempts : phase'[b] = "working" => base'[b] = Len(log')
             /\ \A i \in DOMAIN log' : ~Overlapped(i)'
  <2>1. log' = log
    BY <1>0, <1>6, OnlyStoreLogs
  <2>2. CASE \E a \in Attempts : Load(a)
    <3>1. PICK a \in Attempts : Load(a)
      BY <2>2
    <3>2. /\ phase[a] = "received" /\ base' = [base EXCEPT ![a] = Len(log)]
          /\ \A b \in Attempts : b # a => phase'[b] = phase[b]
      BY <3>1 DEF Load
    <3>3. ASSUME NEW i \in DOMAIN log PROVE log[i] # a /\ log[i] \in Attempts
      <4>1. phase[log[i]] # "received"
        BY DEF Attempted, Logged
      <4>. QED  BY <3>2, <4>1
    <3>4. \A i \in DOMAIN log : base'[log[i]] = base[log[i]]
      BY <3>2, <3>3
    <3>5. \A b \in Attempts : phase'[b] = "working" => base'[b] = Len(log)
      BY <1>1, <3>2
    <3>. QED  BY <1>1, <2>1, <3>4, <3>5 DEF Overlapped
  <2>3. CASE ~\E a \in Attempts : Load(a)
    BY <1>0, <1>1, <2>1, <2>3, OnlyLoadLoads DEF Overlapped
  <2>. QED  BY <2>2, <2>3
<1>7. CASE \E a \in Attempts : Store(a)
  BY <1>3, <1>4, <1>5, <1>7
<1>8. CASE ~\E a \in Attempts : Store(a)
  BY <1>3, <1>4, <1>6, <1>8
<1>. QED  BY <1>7, <1>8

-----------------------------------------------------------------------------
\* The row of a session whose turns came one after another.

\* What a save does to LastPairs: append_turn makes the pairs of the log from
\* the pairs of the log before.
LEMMA PairsOfSave ==
  ASSUME TypeOK, NEW a \in Attempts, Store(a), slots[a].pairs = LastPairs
  PROVE  row'.pairs = LastPairs'
<1>. USE SessionsAssumption
<1>. DEFINE n == Len(log)
            k == IF n < MaxPairs THEN n ELSE MaxPairs
            K == IF n + 1 < MaxPairs THEN n + 1 ELSE MaxPairs
            p == slots[a].pairs
            t == row'.pairs
<1>1. /\ Len(log') = n + 1 /\ n \in Nat /\ log'[n + 1] = a
      /\ \A i \in 1 .. n : log'[i] = log[i]
  BY StoreResult
<1>2. p = [i \in 1 .. k |-> log[n - k + i][1]] /\ k \in Nat /\ K \in Nat \ {0}
  BY <1>1 DEF LastPairs
<1>3. LastPairs' = [i \in 1 .. K |-> log'[n + 1 - K + i][1]]
  BY <1>1 DEF LastPairs
<1>4. slots[a] \in Rows /\ a[1] \in Requests /\ p \in Seq(Requests)
  BY DEF TypeOK, Rows, Attempts
<1>5. Len(p) = k
  BY <1>2, <1>4
<1>6. row' = AppendTurn(slots[a], a[1])
  BY DEF Store
<1>. HIDE DEF n, k, K, p, t
<1>7. /\ t \in Seq(Requests)
      /\ Len(t) = IF k + 1 > MaxPairs THEN MaxPairs ELSE k + 1
      /\ t[Len(t)] = a[1]
      /\ \A j \in 1 .. k : k + 1 - j < MaxPairs => t[Len(t) - (k + 1 - j)] = p[j]
  <2>1. /\ row' \in Rows
        /\ Len(t) = IF Len(p) + 1 > MaxPairs THEN MaxPairs ELSE Len(p) + 1
        /\ t[Len(t)] = a[1]
        /\ \A j \in DOMAIN p : Len(p) + 1 - j < MaxPairs => t[Len(t) - (Len(p) + 1 - j)] = p[j]
    <3>1. PICK s \in Rows : s = slots[a]
      BY <1>4
    <3>2. PICK r \in Requests : r = a[1]
      BY <1>4
    <3>3. row' = AppendTurn(s, r) /\ s.pairs = p
      BY <1>6, <3>1, <3>2 DEF p
    <3>4. LET u == AppendTurn(s, r)
              m == Len(s.pairs) + 1
          IN  /\ u \in Rows
              /\ u.loc = s.loc
              /\ Len(u.pairs) = IF m > MaxPairs THEN MaxPairs ELSE m
              /\ u.pairs[Len(u.pairs)] = r
              /\ \A j \in DOMAIN s.pairs :
                   m - j < MaxPairs => /\ Len(u.pairs) - (m - j) \in DOMAIN u.pairs
                                       /\ u.pairs[Len(u.pairs) - (m - j)] = s.pairs[j]
      BY AppendTurnResult, Zenon
    <3>. QED  BY <3>2, <3>3, <3>4 DEF t
  <2>2. DOMAIN p = 1 .. k /\ t \in Seq(Requests)
    BY <1>2, <2>1 DEF Rows, t
  <2>. QED  BY <1>5, <2>1, <2>2
<1>8. Len(t) = K
  BY <1>1, <1>7 DEF k, K
<1>9. ASSUME NEW i \in 1 .. K PROVE t[i] = log'[n + 1 - K + i][1]
  <2>1. CASE i = K
    <3>1. n + 1 - K + i = n + 1
      BY <1>1, <1>2, <2>1
    <3>. QED  BY <1>1, <1>7, <1>8, <2>1, <3>1
  <2>2. CASE i # K
    <3>. DEFINE j == i - K + k + 1
    <3>1. /\ j \in 1 .. k /\ k + 1 - j < MaxPairs /\ K - (k + 1 - j) = i
          /\ n - k + j = n + 1 - K + i /\ n + 1 - K + i \in 1 .. n
      BY <1>1, <1>2, <2>2 DEF k, K
    <3>. HIDE DEF j
    <3>2. t[i] = p[j]
      BY <1>7, <1>8, <3>1
    <3>3. p[j] = log[n - k + j][1]
      BY <1>2, <3>1
    <3>. QED  BY <1>1, <3>1, <3>2, <3>3
  <2>. QED  BY <2>1, <2>2
<1>10. t = [i \in 1 .. K |-> t[i]]
  BY <1>7, <1>8
<1>. QED  BY <1>3, <1>9, <1>10 DEF t

\* What a save does to LastLocation.
LEMMA LocationOfSave ==
  ASSUME TypeOK, NEW a \in Attempts, Store(a)
  PROVE  LastLocation' = IF a[1] \in Locating THEN a[1] ELSE LastLocation
<1>. DEFINE n    == Len(log)
            told == {i \in DOMAIN log : log[i][1] \in Locating}
            new  == {i \in DOMAIN log' : log'[i][1] \in Locating}
<1>1. /\ n \in Nat /\ DOMAIN log = 1 .. n /\ DOMAIN log' = 1 .. n + 1 /\ log'[n + 1] = a
      /\ \A i \in 1 .. n : log'[i] = log[i]
  BY StoreResult
<1>2. /\ LastLocation  = IF told = {} THEN NoRequest ELSE log[Max(told)][1]
      /\ LastLocation' = IF new = {} THEN NoRequest ELSE log'[Max(new)][1]
  BY DEF LastLocation
<1>3. new = told \cup (IF a[1] \in Locating THEN {n + 1} ELSE {})
  BY <1>1
<1>4. told \in SUBSET (0 .. n) /\ new \in SUBSET (0 .. n + 1) /\ told \subseteq 1 .. n
  BY <1>1
<1>. HIDE DEF n, told, new
<1>5. CASE a[1] \in Locating
  <2>1. n + 1 \in new /\ n + 1 \in Nat
    BY <1>1, <1>3, <1>5
  <2>2. Max(new) \in new /\ n + 1 <= Max(new)
    BY <1>4, <2>1, LargestOf
  <2>3. Max(new) = n + 1
    <3>1. Max(new) \in 0 .. n + 1
      BY <1>4, <2>2
    <3>. QED  BY <1>1, <2>2, <3>1
  <2>. QED  BY <1>1, <1>2, <1>5, <2>1, <2>3
<1>6. CASE a[1] \notin Locating
  <2>1. new = told
    BY <1>3, <1>6
  <2>2. told # {} => Max(told) \in 1 .. n
    BY <1>1, <1>4, LargestOf
  <2>. QED  BY <1>1, <1>2, <1>6, <2>1, <2>2
<1>. QED  BY <1>5, <1>6

\* What is in the log had loaded before: no step changes when.
LEMMA LogRemembers ==
  ASSUME TypeOK, Tried, Logged, [Next]_vars, NEW i \in DOMAIN log
  PROVE  i \in DOMAIN log' /\ log'[i] = log[i] /\ base'[log[i]] = base[log[i]]
<1>1. log[i] \in Attempts /\ i \in 1 .. Len(log) /\ phase[log[i]] # "received"
  <2>1. log[i] \in Attempts /\ i \in 1 .. Len(log)
    BY DEF TypeOK
  <2>2. phase[log[i]] # "received"
    BY DEF Logged
  <2>. QED  BY <2>1, <2>2
<1>2. i \in DOMAIN log' /\ log'[i] = log[i]
  <2>1. CASE \E a \in Attempts : Store(a)
    BY <2>1, StoreResult
  <2>2. CASE ~\E a \in Attempts : Store(a)
    BY <2>2, OnlyStoreLogs
  <2>. QED  BY <2>1, <2>2
<1>3. base'[log[i]] = base[log[i]]
  <2>1. CASE \E a \in Attempts : Load(a)
    <3>1. PICK a \in Attempts : Load(a)
      BY <2>1
    <3>2. log[i] # a /\ base' = [base EXCEPT ![a] = Len(log)]
      BY <1>1, <3>1 DEF Load
    <3>. QED  BY <1>1, <3>2 DEF TypeOK
  <2>2. CASE ~\E a \in Attempts : Load(a)
    BY <2>2, OnlyLoadLoads
  <2>. QED  BY <2>1, <2>2
<1>. QED  BY <1>2, <1>3

\* Only a save or a forget_me writes the row, and only a forget_me is a wipe.
LEMMA OnlyTheseWrite ==
  ASSUME TypeOK, Tried, [Next]_vars, ~\E a \in Attempts : ForgetMe(a)
  PROVE  /\ UNCHANGED wipes
         /\ (~\E a \in Attempts : Store(a)) => UNCHANGED row
<1>. DEFINE Same == /\ UNCHANGED wipes
                    /\ (~\E a \in Attempts : Store(a)) => UNCHANGED row
<1>1. ASSUME NEW a \in Attempts, RateLimited(a) \/ Load(a) \/ Finish(a) \/ Raise(a) PROVE Same
  BY <1>1 DEF RateLimited, Load, Finish, Raise, ghosts
<1>2. ASSUME NEW a \in Attempts, Store(a) PROVE Same
  BY <1>2 DEF Store, ghosts
<1>3. ASSUME NEW r \in Requests, BadGateway(r) \/ TimeOut(r) \/ Send(r) PROVE Same
  BY <1>3 DEF BadGateway, TimeOut, Send, ghosts
<1>4. ASSUME NEW R \in Replicas, Crash(R) \/ Restart(R) \/ OpenSocket(R) PROVE Same
  BY <1>4 DEF Crash, Restart, OpenSocket, ghosts
<1>5. ASSUME CloseSocket \/ UNCHANGED vars PROVE Same
  BY <1>5 DEF CloseSocket, vars, ghosts
<1>6. ASSUME Beginning PROVE Same
  BY <1>6, BeginningAttempt DEF Beginning, ghosts
<1>. HIDE DEF Same
<1>7. Same
  BY <1>1, <1>2, <1>3, <1>4, <1>5, <1>6, WaysToBegin DEF Next, Turns, Proxy, Faulty
<1>. QED  BY <1>7 DEF Same

\* No save overwrote another: the row stays the latest turn's.
LEMMA InSequenceStep ==
  ASSUME TypeOK, Tried, Logged, InSequence, [Next]_vars
  PROVE  InSequence'
<1>. SUFFICES ASSUME wipes' = {}, \A i \in DOMAIN log' : ~Overlapped(i)'
              PROVE  /\ row'.pairs = LastPairs' /\ row'.loc = LastLocation'
                     /\ \A b \in Attempts : phase'[b] = "working" /\ base'[b] = Len(log') =>
                          /\ slots'[b].pairs = LastPairs'
                          /\ slots'[b].loc = IF b[1] \in Locating THEN b[1] ELSE LastLocation'
  BY DEF InSequence
<1>1. wipes = {}
  BY HistoryGrows
<1>2. \A i \in DOMAIN log : ~Overlapped(i)
  BY LogRemembers DEF Overlapped
<1>3. /\ row.pairs = LastPairs /\ row.loc = LastLocation
      /\ \A b \in Attempts : phase[b] = "working" /\ base[b] = Len(log) =>
           /\ slots[b].pairs = LastPairs
           /\ slots[b].loc = IF b[1] \in Locating THEN b[1] ELSE LastLocation
  BY <1>1, <1>2 DEF InSequence
<1>4. ASSUME NEW a \in Attempts, ForgetMe(a) PROVE FALSE
  BY <1>4 DEF ForgetMe
<1>5. ASSUME NEW a \in Attempts, Store(a)
      PROVE  /\ row'.pairs = LastPairs' /\ row'.loc = LastLocation'
             /\ \A b \in Attempts : ~(phase'[b] = "working" /\ base'[b] = Len(log'))
  <2>1. /\ Len(log) \in Nat /\ Len(log') = Len(log) + 1 /\ Len(log) + 1 \in DOMAIN log'
        /\ log'[Len(log) + 1] = a /\ base' = base /\ phase[a] = "working"
    BY <1>5, StoreResult
  <2>2. base[a] = Len(log)
    BY <2>1 DEF Overlapped
  <2>3. slots[a].pairs = LastPairs /\ slots[a].loc = IF a[1] \in Locating THEN a[1] ELSE LastLocation
    BY <1>3, <2>1, <2>2
  <2>4. row'.pairs = LastPairs'
    BY <1>5, <2>3, PairsOfSave
  <2>5. row'.loc = slots[a].loc
    <3>1. slots[a] \in Rows /\ a[1] \in Requests
      BY DEF TypeOK, Attempts
    <3>. QED  BY <1>5, <3>1, AppendTurnResult DEF Store
  <2>6. row'.loc = LastLocation'
    BY <1>5, <2>3, <2>5, LocationOfSave
  <2>7. ASSUME NEW b \in Attempts, phase'[b] = "working" PROVE base'[b] # Len(log')
    <3>1. phase[b] = "working"
      BY <1>5, <2>7, StoreResult
    <3>2. base[b] <= Len(log) /\ base[b] \in Nat
      BY <3>1 DEF Logged, TypeOK
    <3>. QED  BY <2>1, <3>2
  <2>. QED  BY <2>4, <2>6, <2>7
<1>6. ASSUME ~\E a \in Attempts : Store(a)
      PROVE  /\ row'.pairs = LastPairs' /\ row'.loc = LastLocation'
             /\ \A b \in Attempts : phase'[b] = "working" /\ base'[b] = Len(log') =>
                  /\ slots'[b].pairs = LastPairs'
                  /\ slots'[b].loc = IF b[1] \in Locating THEN b[1] ELSE LastLocation'
  <2>1. log' = log /\ row' = row
    BY <1>4, <1>6, OnlyStoreLogs, OnlyTheseWrite
  <2>2. LastPairs' = LastPairs /\ LastLocation' = LastLocation
    BY <2>1 DEF LastPairs, LastLocation
  <2>3. ASSUME NEW b \in Attempts, phase'[b] = "working", base'[b] = Len(log')
        PROVE  /\ slots'[b].pairs = LastPairs
               /\ slots'[b].loc = IF b[1] \in Locating THEN b[1] ELSE LastLocation
    <3>1. CASE Load(b)
      <4>1. slots'[b] = IF b[1] \in Locating THEN [row EXCEPT !.loc = b[1]] ELSE row
        BY <3>1 DEF Load, TypeOK
      <4>2. row = [pairs |-> row.pairs, loc |-> row.loc]
        BY DEF TypeOK, Rows
      <4>. QED  BY <1>3, <4>1, <4>2
    <3>2. CASE ~Load(b) /\ \E a \in Attempts : Load(a)
      <4>1. PICK a \in Attempts : Load(a) /\ a # b
        BY <3>2
      <4>2. phase'[b] = phase[b] /\ base'[b] = base[b] /\ slots'[b] = slots[b]
        BY <4>1 DEF Load, TypeOK
      <4>. QED  BY <1>3, <2>1, <2>3, <4>2
    <3>3. CASE ~\E a \in Attempts : Load(a)
      BY <1>3, <2>1, <2>3, <3>3, OnlyLoadLoads
    <3>. QED  BY <3>1, <3>2, <3>3
  <2>. QED  BY <1>3, <2>1, <2>2, <2>3
<1>7. CASE \E a \in Attempts : Store(a)
  BY <1>5, <1>7
<1>8. CASE ~\E a \in Attempts : Store(a)
  BY <1>6, <1>8
<1>. QED  BY <1>7, <1>8

-----------------------------------------------------------------------------
\* A save that stands is kept.

\* A save of one that holds p keeps p, one place further from the end; and its
\* own message is the last.
LEMMA SaveHolds ==
  ASSUME NEW s \in Rows, NEW r \in Requests
  PROVE  LET t == AppendTurn(s, r).pairs
         IN  /\ Len(t) \in DOMAIN t /\ t[Len(t)] = r /\ Len(t) \in Nat
             /\ \A j \in DOMAIN s.pairs : \A d \in Nat :
                  Len(s.pairs) - j <= d /\ d + 1 < MaxPairs =>
                    \E k \in DOMAIN t : t[k] = s.pairs[j] /\ Len(t) - k <= d + 1
<1>. DEFINE n == Len(s.pairs) + 1
            u == AppendTurn(s, r)
            t == u.pairs
<1>1. /\ u \in Rows
      /\ Len(t) = IF n > MaxPairs THEN MaxPairs ELSE n
      /\ t[Len(t)] = r
      /\ \A j \in DOMAIN s.pairs :
           n - j < MaxPairs => /\ Len(t) - (n - j) \in DOMAIN t
                               /\ t[Len(t) - (n - j)] = s.pairs[j]
  BY AppendTurnResult, Zenon
<1>2. s.pairs \in Seq(Requests) /\ t \in Seq(Requests)
  BY <1>1 DEF Rows
<1>. HIDE DEF u, t
<1>3. n \in Nat \ {0} /\ DOMAIN s.pairs = 1 .. n - 1 /\ DOMAIN t = 1 .. Len(t) /\ Len(t) \in Nat \ {0}
  BY <1>1, <1>2, SessionsAssumption
<1>4. ASSUME NEW j \in DOMAIN s.pairs, NEW d \in Nat, Len(s.pairs) - j <= d, d + 1 < MaxPairs
      PROVE  \E k \in DOMAIN t : t[k] = s.pairs[j] /\ Len(t) - k <= d + 1
  <2>1. n - j < MaxPairs /\ n - j <= d + 1 /\ n - j \in Int
    BY <1>3, <1>4, SessionsAssumption
  <2>2. Len(t) - (n - j) \in DOMAIN t /\ t[Len(t) - (n - j)] = s.pairs[j]
    BY <1>1, <2>1
  <2>3. Len(t) - (Len(t) - (n - j)) <= d + 1
    BY <1>3, <2>1
  <2>. QED  BY <2>2, <2>3
<1>5. Len(t) \in DOMAIN t /\ t[Len(t)] = r /\ Len(t) \in Nat
  BY <1>1, <1>3
<1>. QED  BY <1>4, <1>5 DEF t, u

\* A save that stands stays in the row and in whoever loaded it.
LEMMA KeptStep ==
  ASSUME TypeOK, Tried, Logged, Kept, [Next]_vars
  PROVE  Kept'
<1>. USE SessionsAssumption
<1>. SUFFICES ASSUME NEW p \in DOMAIN log', Standing(p)'
              PROVE  /\ Len(log') - p < MaxPairs => Holds(row.pairs, p, Len(log))'
                     /\ \A b \in Attempts :
                          phase'[b] = "working" /\ base'[b] >= p /\ base'[b] - p < MaxPairs =>
                            Holds(slots[b].pairs, p, base[b])'
  BY DEF Kept, Holds
<1>0. /\ DOMAIN log = 1 .. Len(log) /\ Len(log) \in Nat
      /\ \A b \in Attempts : base[b] \in Nat /\ slots[b] \in Rows /\ b[1] \in Requests
  BY DEF TypeOK, Attempts
<1>1. p \in DOMAIN log => Standing(p)
  <2>1. \A w \in wipes : w[2] < p
    BY HistoryGrows DEF Standing
  <2>2. ASSUME NEW i \in DOMAIN log, i > p PROVE base[log[i]] >= p
    BY <2>2, LogRemembers DEF Standing
  <2>. QED  BY <2>1, <2>2 DEF Standing
<1>2. ASSUME NEW a \in Attempts, Store(a)
      PROVE  /\ Len(log') - p < MaxPairs => Holds(row.pairs, p, Len(log))'
             /\ \A b \in Attempts :
                  phase'[b] = "working" /\ base'[b] >= p /\ base'[b] - p < MaxPairs =>
                    Holds(slots[b].pairs, p, base[b])'
  <2>1. /\ Len(log') = Len(log) + 1 /\ DOMAIN log' = 1 .. Len(log) + 1
        /\ log'[Len(log) + 1] = a /\ base' = base /\ phase[a] = "working" /\ phase'[a] = "stored"
        /\ \A i \in DOMAIN log : log'[i] = log[i]
        /\ \A b \in Attempts : b # a => phase'[b] = phase[b] /\ slots'[b] = slots[b]
    BY <1>2, StoreResult
  <2>2. row' = AppendTurn(slots[a], a[1])
    BY <1>2 DEF Store
  <2>3. /\ Len(row'.pairs) \in DOMAIN row'.pairs /\ row'.pairs[Len(row'.pairs)] = a[1]
        /\ Len(row'.pairs) \in Nat
        /\ \A j \in DOMAIN slots[a].pairs : \A d \in Nat :
             Len(slots[a].pairs) - j <= d /\ d + 1 < MaxPairs =>
               \E k \in DOMAIN row'.pairs : /\ row'.pairs[k] = slots[a].pairs[j]
                                            /\ Len(row'.pairs) - k <= d + 1
    <3>1. PICK s \in Rows : s = slots[a]
      BY <1>0
    <3>2. PICK r \in Requests : r = a[1]
      BY <1>0
    <3>3. LET t == AppendTurn(s, r).pairs
          IN  /\ Len(t) \in DOMAIN t /\ t[Len(t)] = r /\ Len(t) \in Nat
              /\ \A j \in DOMAIN s.pairs : \A d \in Nat :
                   Len(s.pairs) - j <= d /\ d + 1 < MaxPairs =>
                     \E k \in DOMAIN t : t[k] = s.pairs[j] /\ Len(t) - k <= d + 1
      BY SaveHolds, Zenon
    <3>4. row' = AppendTurn(s, r)
      BY <2>2, <3>1, <3>2
    <3>. QED  BY <3>1, <3>2, <3>3, <3>4
  <2>4. ASSUME NEW b \in Attempts, phase'[b] = "working"
        PROVE  b # a /\ phase[b] = "working" /\ base[b] <= Len(log)
    BY <2>1, <2>4 DEF Logged
  <2>5. CASE p = Len(log) + 1
    <3>1. Holds(row.pairs, p, Len(log))'
      <4>1. Len(row'.pairs) - Len(row'.pairs) <= Len(log') - p
        BY <1>0, <2>1, <2>3, <2>5
      <4>. QED  BY <2>1, <2>3, <2>5, <4>1 DEF Holds
    <3>2. ASSUME NEW b \in Attempts, phase'[b] = "working" PROVE ~(base'[b] >= p)
      BY <1>0, <2>1, <2>4, <2>5, <3>2
    <3>. QED  BY <3>1, <3>2
  <2>6. CASE p \in DOMAIN log
    <3>1. base[a] >= p /\ base[a] <= Len(log)
      <4>1. Len(log) + 1 \in DOMAIN log' /\ Len(log) + 1 > p
        BY <1>0, <2>1, <2>6
      <4>. QED  BY <2>1, <4>1 DEF Standing, Logged
    <3>2. ASSUME Len(log') - p < MaxPairs PROVE Holds(row.pairs, p, Len(log))'
      <4>1. base[a] - p < MaxPairs
        BY <1>0, <2>1, <2>6, <3>1, <3>2
      <4>2. Holds(slots[a].pairs, p, base[a])
        BY <1>1, <2>1, <2>6, <3>1, <4>1 DEF Kept
      <4>3. PICK j \in DOMAIN slots[a].pairs :
              slots[a].pairs[j] = log[p][1] /\ Len(slots[a].pairs) - j <= base[a] - p
        BY <4>2 DEF Holds
      <4>4. slots[a].pairs \in Seq(Requests)
        BY <1>0 DEF Rows
      <4>5. /\ Len(log) - p \in Nat /\ Len(slots[a].pairs) - j <= Len(log) - p
            /\ (Len(log) - p) + 1 < MaxPairs
        <5>1. j \in Nat /\ Len(slots[a].pairs) \in Nat
          BY <4>4
        <5>2. base[a] \in Nat /\ p \in Nat /\ p <= Len(log)
          BY <1>0, <2>6
        <5>3. Len(log') = Len(log) + 1 /\ Len(log) \in Nat
          BY <1>0, <2>1
        <5>4. Len(slots[a].pairs) - j <= base[a] - p
          BY <4>3
        <5>5. (Len(log) - p) + 1 < MaxPairs
          BY <3>2, <5>2, <5>3
        <5>6. PICK z \in Nat : z = Len(slots[a].pairs)
          BY <5>1
        <5>7. PICK m \in Nat, e \in Nat : m = Len(log) /\ e = base[a]
          BY <5>2, <5>3
        <5>8. z - j <= e - p /\ e <= m /\ p <= m
          BY <3>1, <5>2, <5>4, <5>6, <5>7
        <5>9. m - p \in Nat /\ z - j <= m - p
          BY <5>1, <5>2, <5>8
        <5>. QED  BY <5>5, <5>6, <5>7, <5>9
      <4>6. PICK k \in DOMAIN row'.pairs : /\ row'.pairs[k] = slots[a].pairs[j]
                                           /\ Len(row'.pairs) - k <= (Len(log) - p) + 1
        BY <2>3, <4>5
      <4>7. (Len(log) - p) + 1 = Len(log') - p
        BY <1>0, <2>1, <2>6
      <4>. QED  BY <2>1, <2>6, <4>3, <4>6, <4>7 DEF Holds
    <3>3. ASSUME NEW b \in Attempts, phase'[b] = "working", base'[b] >= p, base'[b] - p < MaxPairs
          PROVE  Holds(slots[b].pairs, p, base[b])'
      <4>1. Holds(slots[b].pairs, p, base[b])
        BY <1>1, <2>1, <2>4, <2>6, <3>3 DEF Kept
      <4>. QED  BY <2>1, <2>4, <2>6, <3>3, <4>1 DEF Holds
    <3>. QED  BY <3>2, <3>3
  <2>. QED  BY <1>0, <2>1, <2>5, <2>6
<1>3. ASSUME NEW a \in Attempts, ForgetMe(a) PROVE FALSE
  <2>1. log' = log /\ <<a, Len(log)>> \in wipes'
    BY <1>3 DEF ForgetMe
  <2>2. Len(log) < p
    BY <2>1 DEF Standing
  <2>. QED  BY <1>0, <2>1, <2>2
<1>4. ASSUME ~\E a \in Attempts : Store(a)
      PROVE  /\ Len(log') - p < MaxPairs => Holds(row.pairs, p, Len(log))'
             /\ \A b \in Attempts :
                  phase'[b] = "working" /\ base'[b] >= p /\ base'[b] - p < MaxPairs =>
                    Holds(slots[b].pairs, p, base[b])'
  <2>1. log' = log /\ row' = row
    BY <1>3, <1>4, OnlyStoreLogs, OnlyTheseWrite
  <2>2. /\ Len(log) - p < MaxPairs => Holds(row.pairs, p, Len(log))
        /\ \A b \in Attempts :
             phase[b] = "working" /\ base[b] >= p /\ base[b] - p < MaxPairs =>
               Holds(slots[b].pairs, p, base[b])
    BY <1>1, <2>1 DEF Kept
  <2>3. ASSUME NEW b \in Attempts, phase'[b] = "working", base'[b] >= p, base'[b] - p < MaxPairs
        PROVE  Holds(slots'[b].pairs, p, base'[b])
    <3>1. CASE Load(b)
      <4>1. slots'[b] = IF b[1] \in Locating THEN [row EXCEPT !.loc = b[1]] ELSE row
        BY <3>1 DEF Load, TypeOK
      <4>2. slots'[b].pairs = row.pairs
        BY <4>1 DEF TypeOK, Rows
      <4>3. base'[b] = Len(log)
        BY <3>1 DEF Load, TypeOK
      <4>. QED  BY <2>2, <2>3, <4>2, <4>3
    <3>2. CASE ~Load(b) /\ \E a \in Attempts : Load(a)
      <4>1. PICK a \in Attempts : Load(a) /\ a # b
        BY <3>2
      <4>2. phase'[b] = phase[b] /\ base'[b] = base[b] /\ slots'[b] = slots[b]
        BY <4>1 DEF Load, TypeOK
      <4>. QED  BY <2>2, <2>3, <4>2
    <3>3. CASE ~\E a \in Attempts : Load(a)
      BY <2>2, <2>3, <3>3, OnlyLoadLoads
    <3>. QED  BY <3>1, <3>2, <3>3
  <2>. QED  BY <2>1, <2>2, <2>3 DEF Holds
<1>5. CASE \E a \in Attempts : Store(a)
  BY <1>2, <1>5
<1>6. CASE ~\E a \in Attempts : Store(a)
  BY <1>4, <1>6
<1>. QED  BY <1>5, <1>6

-----------------------------------------------------------------------------
\* A session starts with nothing sent and nothing saved.
LEMMA InitEstablishes == Init => IInv
<1>. SUFFICES ASSUME Init PROVE IInv
  OBVIOUS
<1>. USE SessionsAssumption DEF Init
<1>0. log = <<>> /\ DOMAIN log = {} /\ Len(log) = 0
  OBVIOUS
<1>1. TypeOK
  <2>1. Fresh \in Rows
    BY SessionsAssumption DEF Fresh, Rows
  <2>2. slots \in [Attempts -> Rows] /\ row \in Rows
    BY <2>1
  <2>3. faults \in 0 .. MaxFaults /\ log \in Seq(Attempts)
    BY <1>0
  <2>4. phase \in [Attempts -> Phases] /\ at \in [Attempts -> Replicas \cup {Nowhere}]
    BY DEF Phases
  <2>5. base \in [Attempts -> Nat] /\ tries \in [Requests -> 0 .. 2]
    OBVIOUS
  <2>. QED  BY <2>2, <2>3, <2>4, <2>5 DEF TypeOK
<1>2. \A a \in Attempts : phase[a] = "idle"
  OBVIOUS
<1>3. Attempted
  BY <1>0, <1>2 DEF Attempted, Tried, Unsent, OnSocket, SecondHasACause, Logged, Waiting
<1>4. Undisturbed
  BY <1>0, <1>2 DEF Undisturbed, Waiting, Running
<1>5. InSequence
  <2>1. LastPairs = <<>>
    BY <1>0 DEF LastPairs
  <2>2. LastLocation = NoRequest
    BY <1>0 DEF LastLocation
  <2>. QED  BY <1>2, <2>1, <2>2 DEF InSequence, Fresh
<1>6. Kept
  BY <1>0 DEF Kept
<1>. QED  BY <1>1, <1>3, <1>4, <1>5, <1>6 DEF IInv

\* The conjunction is inductive: the rest is preserved given the types and
\* what is known of the attempts.
LEMMA StepKeeps == IInv /\ [Next]_vars => IInv'
BY TypeStep, AttemptedStep, UndisturbedStep, InSequenceStep, KeptStep DEF IInv, Attempted

\* The inductive invariant, in every reachable state.
THEOREM Invariance == Spec => []IInv
BY InitEstablishes, StepKeeps, PTL DEF Spec

\* Every variable of a session keeps its type; no history is longer than MaxPairs.
THEOREM TypeCorrectness == Spec => []TypeOK
<1>1. IInv => TypeOK
  BY DEF IInv
<1>. QED  BY <1>1, Invariance, PTL

\* Turns that do not overlap leave the row that running them one after another
\* gives, whatever replicas, repeats and restarts were between.
THEOREM SequentialTurnsKeepTheRow == Spec => []SequentialRow
<1>1. IInv => SequentialRow
  BY DEF IInv, TypeOK, Rows, InSequence, SequentialRow
<1>. QED  BY <1>1, Invariance, PTL

\* An answered message leaves the history only when it is pushed out, wiped,
\* or overwritten by a turn that had loaded the row before it was saved.
THEOREM LossNeedsOverlap == Spec => []LostOnlyByOverlap
<1>1. IInv => LostOnlyByOverlap
  <2>. SUFFICES ASSUME IInv, NEW a \in Attempts, phase[a] = "answered",
                       ~(Len(log) - Position(a) >= MaxPairs),
                       ~(\E w \in wipes : w[2] >= Position(a)),
                       ~(\E i \in DOMAIN log : i > Position(a) /\ base[log[i]] < Position(a))
                PROVE  InRow(a[1])
    BY DEF LostOnlyByOverlap
  <2>. DEFINE p == Position(a)
  <2>1. p \in DOMAIN log /\ log[p] = a
    BY DEF IInv, Attempted, Logged, Saved, Position
  <2>2. DOMAIN log = 1 .. Len(log) /\ Len(log) \in Nat /\ \A i \in DOMAIN log : base[log[i]] \in Nat
    BY DEF IInv, TypeOK
  <2>3. \A w \in wipes : w[2] \in Nat
    BY DEF IInv, TypeOK
  <2>4. ~(Len(log) - p >= MaxPairs) /\ ~(\E w \in wipes : w[2] >= p)
        /\ ~(\E i \in DOMAIN log : i > p /\ base[log[i]] < p)
    OBVIOUS
  <2>. HIDE DEF p
  <2>5. Standing(p) /\ Len(log) - p < MaxPairs
    BY <2>1, <2>2, <2>3, <2>4, SessionsAssumption DEF Standing
  <2>6. Holds(row.pairs, p, Len(log))
    BY <2>1, <2>5 DEF IInv, Kept
  <2>. QED  BY <2>1, <2>6 DEF Holds, InRow
<1>. QED  BY <1>1, Invariance, PTL

\* Turns overlap only where a client did not wait or was not waited for: no
\* crash, restart or repeat alone makes two run at once.
THEOREM OverlapNeedsACause == Spec => []OverlapHasACause
<1>1. IInv => OverlapHasACause
  BY DEF IInv, Undisturbed, OverlapHasACause
<1>. QED  BY <1>1, Invariance, PTL

\* A message is saved twice only when its first run was cut off.
THEOREM TwiceNeedsACause == Spec => []TwiceHasACause
<1>1. IInv => TwiceHasACause
  <2>. SUFFICES ASSUME IInv, NEW r \in Requests, Saved(<<r, 1>>), Saved(<<r, 2>>)
                PROVE  <<r, 1>> \in orphans \/ phase[<<r, 1>>] = "killed"
    BY DEF TwiceHasACause
  <2>1. <<r, 1>> \in Attempts /\ <<r, 2>> \in Attempts /\ tries[r] \in 0 .. 2
    BY DEF IInv, TypeOK, Attempts
  <2>2. \A i \in DOMAIN log : phase[log[i]] \in {"stored", "answered", "dropped", "killed"}
    BY DEF IInv, Attempted, Logged
  <2>3. phase[<<r, 1>>] # "refused" /\ phase[<<r, 2>>] # "idle"
    BY <2>2 DEF Saved
  <2>4. tries[r] = 2
    <3>1. 2 <= tries[r]
      BY <2>1, <2>3 DEF IInv, Attempted, Tried
    <3>. QED  BY <2>1, <3>1
  <2>. QED  BY <2>3, <2>4 DEF IInv, Attempted, SecondHasACause
<1>. QED  BY <1>1, Invariance, PTL

-----------------------------------------------------------------------------
\* How often an attempt was saved.
SavesOf(b) == {i \in DOMAIN log : log[i] = b}

\* A save counts for its own attempt, once, and for no other.
LEMMA StoreCounts ==
  ASSUME TypeOK, NEW a \in Attempts, Store(a), NEW b \in Attempts
  PROVE  Cardinality(SavesOf(b))' = Cardinality(SavesOf(b)) + (IF b = a THEN 1 ELSE 0)
<1>1. /\ DOMAIN log' = 1 .. Len(log) + 1 /\ DOMAIN log = 1 .. Len(log) /\ Len(log) \in Nat
      /\ log'[Len(log) + 1] = a /\ \A i \in DOMAIN log : log'[i] = log[i]
  BY StoreResult
<1>2. IsFiniteSet(SavesOf(b)) /\ Cardinality(SavesOf(b)) \in Nat
  <2>1. SavesOf(b) \in SUBSET (1 .. Len(log))
    BY <1>1 DEF SavesOf
  <2>. QED  BY <1>1, <2>1, PartOfInterval
<1>3. CASE b = a
  <2>1. SavesOf(b)' = SavesOf(b) \cup {Len(log) + 1} /\ Len(log) + 1 \notin SavesOf(b)
    BY <1>1, <1>3 DEF SavesOf
  <2>. QED  BY <1>2, <1>3, <2>1, FS_AddElement
<1>4. CASE b # a
  <2>1. SavesOf(b)' = SavesOf(b)
    BY <1>1, <1>4 DEF SavesOf
  <2>. QED  BY <1>2, <1>4, <2>1
<1>. QED  BY <1>3, <1>4

\* Each attempt keeps the contract of a turn in every step that does not kill
\* its replica.
LEMMA ContractStep ==
  ASSUME TypeOK, Tried, [Next]_vars, NEW b \in Attempts, phase'[b] # "killed"
  PROVE  Turn(b)!Next \/ UNCHANGED Turn(b)!vars
<1>. DEFINE saves  == Cardinality(SavesOf(b))
            finals == IF phase[b] \in {"answered", "dropped"} THEN 1 ELSE 0
            Same  == UNCHANGED <<TurnPhase(b), saves, finals>>
            Moved  == \/ /\ TurnPhase(b) = "received" /\ TurnPhase(b)' = "working"
                         /\ UNCHANGED <<saves, finals>>
                      \/ /\ TurnPhase(b) = "working" /\ TurnPhase(b)' = "stored"
                         /\ saves' = saves + 1 /\ UNCHANGED finals
                      \/ /\ TurnPhase(b) = "stored" /\ TurnPhase(b)' = "answered"
                         /\ finals' = finals + 1 /\ UNCHANGED saves
                      \/ /\ TurnPhase(b) \in {"received", "working"} /\ TurnPhase(b)' = "aborted"
                         /\ UNCHANGED <<saves, finals>>
<1>1. /\ phase[b] \in {"idle", "received", "refused"} => TurnPhase(b) = "received"
      /\ phase[b] = "working" => TurnPhase(b) = "working"
      /\ phase[b] = "stored" => TurnPhase(b) = "stored"
  BY Zenon DEF TurnPhase
<1>2. /\ phase'[b] \in {"idle", "received", "refused"} => TurnPhase(b)' = "received"
      /\ phase'[b] = "working" => TurnPhase(b)' = "working"
      /\ phase'[b] = "stored" => TurnPhase(b)' = "stored"
      /\ phase'[b] \in {"answered", "dropped"} => TurnPhase(b)' = "answered"
      /\ phase'[b] \in {"limited", "raised"} => TurnPhase(b)' = "aborted"
  BY Zenon DEF TurnPhase
<1>3. ASSUME phase'[b] = phase[b] PROVE TurnPhase(b)' = TurnPhase(b) /\ finals' = finals
  BY <1>3, Zenon DEF TurnPhase
<1>4. ASSUME log' = log PROVE saves' = saves
  BY <1>4 DEF SavesOf
<1>5. ASSUME NEW a \in Attempts, Store(a) PROVE Moved \/ Same
  <2>1. CASE b = a
    <3>1. phase[b] = "working" /\ phase'[b] = "stored" /\ saves' = saves + 1
      BY <1>5, <2>1, StoreResult, StoreCounts
    <3>2. finals' = finals
      BY <3>1
    <3>. QED  BY <1>1, <1>2, <3>1, <3>2
  <2>2. CASE b # a
    <3>1. phase'[b] = phase[b] /\ saves' = saves + 0
      BY <1>5, <2>2, StoreResult, StoreCounts
    <3>2. saves' = saves
      <4>1. SavesOf(b) \in SUBSET (1 .. Len(log)) /\ Len(log) \in Nat
        BY DEF SavesOf, TypeOK
      <4>2. saves \in Nat
        BY <4>1, PartOfInterval
      <4>. QED  BY <3>1, <4>2
    <3>. QED  BY <1>3, <3>1, <3>2
  <2>. QED  BY <2>1, <2>2
<1>. HIDE DEF saves
<1>6. ASSUME log' = log, Move(phase[b], phase'[b]), phase'[b] # "stored" PROVE Moved \/ Same
  <2>1. saves' = saves
    BY <1>4, <1>6
  <2>2. CASE phase'[b] = phase[b]
    BY <1>3, <2>1, <2>2
  <2>3. CASE phase[b] = "received" /\ phase'[b] \in {"limited", "working", "raised"}
    BY <1>1, <1>2, <2>1, <2>3
  <2>4. CASE phase[b] = "working" /\ phase'[b] = "raised"
    BY <1>1, <1>2, <2>1, <2>4
  <2>5. CASE phase[b] = "stored" /\ phase'[b] \in {"answered", "dropped"}
    BY <1>1, <1>2, <2>1, <2>5
  <2>. QED  BY <1>6, <2>2, <2>3, <2>4, <2>5 DEF Move
<1>7. ASSUME log' = log, phase'[b] = phase[b] PROVE Same
  BY <1>3, <1>4, <1>7
<1>8. ASSUME log' = log, phase[b] = "idle", phase'[b] \in {"received", "refused"} PROVE Same
  BY <1>1, <1>2, <1>4, <1>8
<1>. HIDE DEF Moved, Same
<1>9. ASSUME Beginning PROVE Same
  <2>1. PICK r \in Requests, R \in Replicas : Begins(r, R)
    BY <1>9 DEF Beginning
  <2>2. log' = log
    BY <2>1, BeginningAttempt
  <2>3. CASE b = <<r, tries[r] + 1>>
    <3>1. phase[b] = "idle" /\ phase'[b] \in {"received", "refused"}
      BY <2>1, <2>3, BeginningAttempt
    <3>. QED  BY <1>8, <2>2, <3>1
  <2>4. CASE b # <<r, tries[r] + 1>>
    BY <1>7, <2>1, <2>2, <2>4, BeginningAttempt
  <2>. QED  BY <2>3, <2>4
<1>10. ASSUME ~Beginning, ~\E a \in Attempts : Store(a) PROVE Moved \/ Same
  <2>1. log' = log /\ Move(phase[b], phase'[b])
    BY <1>10, OnlyStoreLogs, Moves
  <2>2. phase'[b] = "stored" => phase[b] = "stored"
    BY <1>10, <2>1, OnlyStoreLogs DEF Move
  <2>3. CASE phase'[b] # "stored"
    BY <1>6, <2>1, <2>3
  <2>4. CASE phase'[b] = "stored"
    BY <1>7, <2>1, <2>2, <2>4
  <2>. QED  BY <2>3, <2>4
<1>11. Moved \/ Same
  BY <1>5, <1>9, <1>10
<1>12. Moved => Turn(b)!Next
  BY DEF Moved, saves, SavesOf, Turn!Next, Turn!Accept, Turn!Store, Turn!Answer, Turn!Abort
<1>13. Same => UNCHANGED Turn(b)!vars
  BY DEF Same, saves, SavesOf, Turn!vars
<1>. QED  BY <1>11, <1>12, <1>13

\* The safety half of a turn's contract, for every attempt at once.
THEOREM EveryTurnKeepsContract == Spec => EachTurnKeepsContract
<1>1. IInv /\ [Next]_vars =>
        [\A a \in Attempts : phase'[a] # "killed" => Turn(a)!Next \/ UNCHANGED Turn(a)!vars]_vars
  BY ContractStep DEF IInv, Attempted
<1>. QED  BY <1>1, Invariance, PTL DEF Spec, EachTurnKeepsContract
=============================================================================
