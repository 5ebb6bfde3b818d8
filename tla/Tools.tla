------------------------------- MODULE Tools -------------------------------
(***************************************************************************)
(* Tool calls in one process: the registry that dispatches them and keeps  *)
(* their results for a while (smcity/tools/registry.py), the catalogues    *)
(* that handlers share behind asyncio locks (transport_kmb, facility,      *)
(* housing), and the handlers themselves, step by step (module Handlers).  *)
(*                                                                         *)
(* Between two awaits a handler runs alone.  Calls of one turn are         *)
(* gathered and turns run side by side, so that several calls of the same  *)
(* tools wait for a lock or an upstream at the same time.  A result cache  *)
(* entry and a catalogue are each kept for a time of their own, and a      *)
(* result made from a catalogue is kept on top of the catalogue's age.     *)
(***************************************************************************)
EXTENDS Handlers, Sequences

CONSTANTS
  Callers,     \* tool calls under way at a time
  Langs,       \* languages of queries
  Families,    \* sets of calls <<<<tool, arguments>>, language>> made side by side
  Malformed,   \* <<tool, arguments>> that the tool's schema refuses
  Ttl,         \* of each tool, how long a result is kept (ToolSpec.ttl_seconds)
  CatalogTtl,  \* how long a catalogue is fresh (_CATALOG_TTL_S)
  MaxTime,     \* bound: the clock
  MaxCalls     \* bound: tool calls

ASSUME ToolsAssumption ==
  /\ Ttl \in [Tools -> Nat \ {0}]
  /\ CatalogTtl \in Nat \ {0}
  /\ MaxTime \in Nat /\ MaxCalls \in Nat
  /\ \A F \in Families : \A q \in F : q[1][1] \in Tools /\ q[2] \in Langs

VARIABLES
  family,  \* the calls this behaviour makes
  call,    \* what each caller is doing
  cache,   \* ToolRegistry._cache: by key, when an entry expires and its result
  cat,     \* the catalogues of this process
  queue,   \* who is in or waits for the lock of each, in turn; its head is in
  now,     \* time.monotonic()
  calls,   \* tool calls so far
  answer   \* what the last step answered, if it did

vars == <<family, call, cache, cat, queue, now, calls, answer>>

\* Mutant: the arguments alone.
ArgumentsOnly(w) == w[2]
\* _stable_args_key: the tool and its validated arguments, and not the
\* language the call is made in.
Key(w) == w

\* A call under way waits for an upstream ("asking") or a lock ("queued");
\* "heard" keeps the faults it met.
Silent == [status |-> "none"]
Idle   == [pc |-> "idle", want |-> <<>>, lang |-> "any", req |-> "start",
           mem |-> NoMem, heard |-> {}, own |-> FALSE, from |-> 0]

Init ==
  /\ family \in Families
  /\ call   = [d \in Callers |-> Idle]
  /\ cache  = [k \in {} |-> 0]
  /\ cat    = [c \in Lookups |-> [state |-> "unloaded", at |-> 0, heard |-> {}]]
  /\ queue  = [c \in Lookups |-> <<>>]
  /\ now = 0 /\ calls = 0
  /\ answer = Silent

\* Mutant: an empty list is as fresh as a full one.
FreshIfLoaded(c) == IF c = "stops" THEN cat[c].state # "unloaded"
                    ELSE cat[c].state # "unloaded" /\ now - cat[c].at < CatalogTtl
\* _Catalog.fresh, _EstatesCatalog.fresh, and the stops' "is not None": an
\* empty catalogue of stops stays, another one is never fresh.
Fresh(c) == IF c = "stops" THEN cat[c].state # "unloaded"
            ELSE cat[c].state = "full" /\ now - cat[c].at < CatalogTtl

-----------------------------------------------------------------------------
(***************************************************************************)
(* Where a call goes from a step of its handler.                           *)
(***************************************************************************)

Blame(req, r) == IF r \in Faults THEN {<<req, r>>} ELSE {}

\* A result: what was asked, what was found, and what the properties need to
\* know of how it was made: when, from a catalogue of when and in what state,
\* whether this call loaded it, and over which faults.
Payload(c, req, r, about) ==
  [want  |-> c.want,
   lang  |-> IF req \in Spoken THEN c.lang ELSE "any",
   about |-> about,
   heard |-> c.heard,
   made  |-> now,
   from  |-> c.from,
   rows  |-> IF req \in Lookups THEN r ELSE "full",
   own   |-> c.own]

Put(k, entry) == [x \in DOMAIN cache \cup {k} |-> IF x = k THEN entry ELSE cache[x]]

\* The ToolResult that a call gets.
Gets(c, cached, p) == [status |-> "ok", want |-> c.want, lang |-> c.lang,
                       cached |-> cached, result |-> p]
Errs == [status |-> "error"]

End(d, a) == call' = [call EXCEPT ![d] = Idle] /\ answer' = a

Asking(c, req, mem) == [c EXCEPT !.pc = "asking", !.req = req, !.mem = mem]

\* What a handler does next, having heard r for req: _dispatch_inner keeps what
\* it returns, and _fail makes one status of whatever it raises.
Settle(d, c, req, r) ==
  LET s == Handler(c.want[1], c.want[2], req, c.mem, r) IN
  \/ /\ s.to = "ask"
     /\ call' = [call EXCEPT ![d] = Asking(c, s.req, s.mem)]
     /\ answer' = Silent
     /\ UNCHANGED cache
  \/ /\ s.to = "ok"
     /\ LET p == Payload(c, req, r, s.about) IN
        /\ cache' = Put(Key(c.want), [expires |-> now + Ttl[c.want[1]], result |-> p])
        /\ End(d, Gets(c, FALSE, p))
  \/ /\ s.to = "fail"
     /\ End(d, Errs)
     /\ UNCHANGED cache

\* The handler reads the catalogue k.
Read(d, c, name, k) ==
  Settle(d, [c EXCEPT !.heard = @ \cup k.heard, !.from = k.at], name, k.state)

-----------------------------------------------------------------------------
(***************************************************************************)
(* dispatch.                                                               *)
(***************************************************************************)

CacheGet(w) == Key(w) \in DOMAIN cache /\ cache[Key(w)].expires >= now

Call(w, l)       == [Idle EXCEPT !.want = w, !.lang = l]
MayCall(d, w, l) == call[d].pc = "idle" /\ calls < MaxCalls /\ <<w, l>> \in family

\* Arguments that do not validate are refused before the cache is asked.
Refuse(d, w, l) ==
  /\ MayCall(d, w, l) /\ w \in Malformed
  /\ answer' = Errs
  /\ calls' = calls + 1
  /\ UNCHANGED <<family, call, cache, cat, queue, now>>

\* Mutant: a hit keeps the entry for its time again.
HitAndKeep(d, w, l) ==
  /\ MayCall(d, w, l) /\ w \notin Malformed /\ CacheGet(w)
  /\ answer' = Gets(Call(w, l), TRUE, cache[Key(w)].result)
  /\ cache' = [cache EXCEPT ![Key(w)].expires = now + Ttl[w[1]]]
  /\ calls' = calls + 1
  /\ UNCHANGED <<family, call, cat, queue, now>>

Hit(d, w, l) ==
  /\ MayCall(d, w, l) /\ w \notin Malformed /\ CacheGet(w)
  /\ answer' = Gets(Call(w, l), TRUE, cache[Key(w)].result)
  /\ calls' = calls + 1
  /\ UNCHANGED <<family, call, cache, cat, queue, now>>

\* The handler starts.  Its first await is an upstream, or the lock of a
\* catalogue that is not fresh: free, if nobody is in it or waits for it.
\* (The expired entry that a lookup removes is left in place here: nothing
\* reads it before it is replaced.)
Miss(d, w, l) ==
  /\ MayCall(d, w, l) /\ w \notin Malformed /\ ~CacheGet(w)
  /\ LET c == Call(w, l)
         s == Handler(w[1], w[2], "start", NoMem, "none")
     IN  IF s.to = "ask" /\ s.req \in Lookups
         THEN IF Fresh(s.req)
              THEN Read(d, c, s.req, cat[s.req]) /\ UNCHANGED queue
              ELSE /\ queue' = [queue EXCEPT ![s.req] = Append(@, d)]
                   /\ call'  = [call EXCEPT ![d] =
                        [c EXCEPT !.req = s.req,
                                  !.pc = IF queue[s.req] = <<>> THEN "asking"
                                                               ELSE "queued"]]
                   /\ answer' = Silent
                   /\ UNCHANGED cache
         ELSE Settle(d, c, "start", "none") /\ UNCHANGED queue
  /\ calls' = calls + 1
  /\ UNCHANGED <<family, cat, now>>

-----------------------------------------------------------------------------
(***************************************************************************)
(* The locks of the catalogues, and the upstreams.                         *)
(***************************************************************************)

\* Mutant: everyone is let in.
LeaveAll(name) == queue' = [queue EXCEPT ![name] = <<>>]
Leave(name) == queue' = [queue EXCEPT ![name] = Tail(@)]

\* Mutant: whoever gets the lock loads, without looking again.
LoadAnyway(d) ==
  /\ call[d].pc = "queued" /\ Head(queue[call[d].req]) = d
  /\ call' = [call EXCEPT ![d].pc = "asking"]
  /\ answer' = Silent
  /\ UNCHANGED <<family, cache, cat, queue, now, calls>>

\* A waiter gets the lock and looks again: the one before it has loaded the
\* catalogue, or has failed to.
Granted(d) ==
  LET c == call[d] IN
  /\ c.pc = "queued" /\ Head(queue[c.req]) = d
  /\ IF Fresh(c.req)
     THEN Read(d, c, c.req, cat[c.req]) /\ Leave(c.req)
     ELSE /\ call' = [call EXCEPT ![d].pc = "asking"]
          /\ answer' = Silent
          /\ UNCHANGED <<queue, cache>>
  /\ UNCHANGED <<family, cat, now, calls>>

\* Mutant: a load that fails keeps the lock.
FailHolding(d, r) ==
  LET c == call[d] IN
  /\ Loaded(c.req, c.mem, r) = "failed"
  /\ End(d, Errs)
  /\ UNCHANGED <<cache, cat, queue>>

\* A load ends, well or not, or asks for another page.
LoadFails(d, r) ==
  LET c == call[d] IN
  /\ Loaded(c.req, c.mem, r) = "failed"
  /\ End(d, Errs)
  /\ Leave(c.req)
  /\ UNCHANGED <<cache, cat>>

NextPage(d, r) ==
  LET c == call[d] IN
  /\ Loaded(c.req, c.mem, r) = "more"
  /\ call' = [call EXCEPT ![d].mem.n = @ + InPage(r)]
  /\ answer' = Silent
  /\ UNCHANGED <<cache, cat, queue>>

LoadEnds(d, r) ==
  LET c    == call[d]
      what == Loaded(c.req, c.mem, r)
      k    == [state |-> what, at |-> now, heard |-> Blame(c.req, r)]
  IN  /\ what \in {"full", "empty"}
      /\ cat' = [cat EXCEPT ![c.req] = k]
      /\ Read(d, [c EXCEPT !.own = TRUE, !.mem = NoMem], c.req, k)
      /\ Leave(c.req)

Load(d, r)  == LoadFails(d, r) \/ NextPage(d, r) \/ LoadEnds(d, r)

Heard(d, r) ==
  LET c == call[d] IN
  /\ Settle(d, [c EXCEPT !.heard = @ \cup Blame(c.req, r)], c.req, r)
  /\ UNCHANGED <<cat, queue>>

Reply(d, r) ==
  /\ call[d].pc = "asking"
  /\ IF call[d].req \in Lookups THEN Load(d, r) ELSE Heard(d, r)
  /\ UNCHANGED <<family, now, calls>>

Tick == now < MaxTime /\ now' = now + 1 /\ answer' = Silent
        /\ UNCHANGED <<family, call, cache, cat, queue, calls>>

Dispatch(d) == \E q \in family : \/ Refuse(d, q[1], q[2])
                                 \/ Hit(d, q[1], q[2])
                                 \/ Miss(d, q[1], q[2])
Answered(d) == \E r \in Responses(call[d].req) : Reply(d, r)

Next == Tick \/ \E d \in Callers : Dispatch(d) \/ Granted(d) \/ Answered(d)

Spec == Init /\ [][Next]_vars

\* Every request has a timeout of its own, and a lock goes to the first that
\* waits for it.
Fairness == \A d \in Callers : WF_vars(Granted(d)) /\ WF_vars(Answered(d))
FairSpec == Spec /\ Fairness

=============================================================================
