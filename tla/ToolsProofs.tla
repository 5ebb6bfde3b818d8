---------------------------- MODULE ToolsProofs -----------------------------
(***************************************************************************)
(* Proofs about tool calls, for any number of callers, calls, places, ages *)
(* and pages.  The inductive invariant says of every result how it was     *)
(* made and how old it may be (Sound), of every call under way what it may *)
(* be waiting for (Underway), and of every catalogue that whoever loads it *)
(* is alone in its lock and it is not fresh (LoaderAlone).  The types are  *)
(* proved on top of it: the queues stay in order.                          *)
(***************************************************************************)
EXTENDS ToolsProperties, TLAPS

-----------------------------------------------------------------------------
(***************************************************************************)
(* The invariant.                                                          *)
(***************************************************************************)

\* What the handler of a tool waits for.
Asks(t) ==
  CASE t = "mtr"                         -> {"next trains"}
    [] t = "gmb"                         -> {"gmb route", "gmb eta"}
    [] t = "kmb eta"                     -> {"stops", "stop eta"}
    [] t = "kmb route eta"               -> {"stops", "route eta"}
    [] t \in {"near point", "by name"}   -> {"stops"}
    [] t = "courts"                      -> {"courts"}
    [] t = "pools"                       -> {"pools"}
    [] t \in {"estate", "estates"}       -> {"estates"}
    [] t = "csdi"                        -> {"features"}
    [] t \in {"walk", "journey"}         -> {"nominatim, from", "als, from",
                                             "nominatim, to", "als, to"}
    [] OTHER                             -> {Single(t)}

CallFields == {"pc", "want", "lang", "req", "mem", "heard", "own", "from"}
MemFields  == {"n", "o"}

IsMem(m)  == m = [x \in MemFields |-> m[x]] /\ m.n \in Nat
IsCall(c) == c = [x \in CallFields |-> c[x]] /\ IsMem(c.mem) /\ c.from \in Nat

AllExcused(faults) == \A f \in faults : Excused(f[1], f[2])

\* A result, at the time n, is as its properties want it.
Sound(p, n) ==
  /\ p.want[1] \in Tools
  /\ p.made \in Nat /\ p.made <= n /\ p.from \in Nat
  /\ Reads(p.want[1]) # "none" => /\ p.made - p.from < CatalogTtl
                                  /\ p.rows = "empty" => p.own
  /\ AllExcused(p.heard)

\* A trip without an origin, which is not told before its destination is asked.
Stranded(t, req, m) == /\ t \in {"walk", "journey"}
                       /\ req \in {"nominatim, to", "als, to"}
                       /\ m.o = "lost"

\* A call under way.
Waits(c) == /\ c.pc \in {"queued", "asking"}
            /\ c.want[1] \in Tools
            /\ c.req \in Asks(c.want[1])
            /\ AllExcused(c.heard) \/ Stranded(c.want[1], c.req, c.mem)

Underway ==
  /\ call = [d \in Callers |-> call[d]]
  /\ \A d \in Callers : IsCall(call[d]) /\ (call[d].pc # "idle" => Waits(call[d]))

Catalogues ==
  /\ cat = [c \in Lookups |-> cat[c]]
  /\ \A c \in Lookups : /\ cat[c].at \in Nat /\ cat[c].at <= now
                        /\ AllExcused(cat[c].heard)

Kept ==
  \A k \in DOMAIN cache :
    /\ cache[k].result.want = k
    /\ Sound(cache[k].result, now)
    /\ cache[k].expires = cache[k].result.made + Ttl[k[1]]

Told ==
  Ok => /\ answer.result.want = answer.want
        /\ Sound(answer.result, now)
        /\ now <= answer.result.made + Ttl[answer.want[1]]
        /\ answer.result.lang \in {"any", answer.lang} \/ answer.cached

Loading(d, c) == call[d].pc = "asking" /\ call[d].req = c

InLine(d) == /\ call[d].req \in Lookups
             /\ \E i \in 1 .. Len(queue[call[d].req]) : queue[call[d].req][i] = d

LoaderAlone ==
  /\ queue = [c \in Lookups |-> queue[c]]
  /\ \A c \in Lookups : queue[c] \in Seq(Callers)
  /\ \A d \in Callers : call[d].pc = "queued" => InLine(d)
  /\ \A c \in Lookups : \A d \in Callers : Loading(d, c) =>
       queue[c] # <<>> /\ Head(queue[c]) = d /\ ~Fresh(c)

ToolsInv == /\ now \in Nat /\ family \in Families
            /\ Underway /\ Catalogues /\ Kept /\ Told /\ LoaderAlone

-----------------------------------------------------------------------------
(***************************************************************************)
(* Lemmas about the handlers: what one may ask next, what a fault does to  *)
(* it, and what a catalogue is made of.                                    *)
(***************************************************************************)

\* What a handler that asks leaves behind.
LEMMA AskFields ==
  \A x, y : /\ Ask(x, y).to = "ask" /\ Ask(x, y).req = x
            /\ Ask(x, y).mem.o = y.o
            /\ IsMem(y) => IsMem(Ask(x, y).mem)
BY DEF Ask

\* The same of a step that is known to be one.
LEMMA AskIs ==
  ASSUME NEW s, NEW x, NEW y, s = Ask(x, y)
  PROVE  s.to = "ask" /\ s.req = x /\ s.mem = y
BY DEF Ask

\* A handler asks only for what its tool asks, for a catalogue at most at its
\* start, and remembers a count.
LEMMA AsksItsOwn ==
  ASSUME NEW t \in Tools, NEW a, NEW req, NEW m, NEW r, NEW s, IsMem(m),
         req = "start" \/ req \in Asks(t),
         s = Handler(t, a, req, m, r), s.to = "ask"
  PROVE  /\ s.req \in Asks(t)
         /\ IsMem(s.mem)
         /\ req # "start" => s.req \notin Lookups
<1>1. IsMem(NoMem)
  BY DEF IsMem, MemFields, NoMem
<1>3. \A o : IsMem([NoMem EXCEPT !.o = o])
  BY DEF IsMem, MemFields, NoMem
<1>2. \A x, y : Ask(x, y).req = x /\ (IsMem(y) => IsMem(Ask(x, y).mem))
  BY AskFields
<1>a. CASE t \in {"weather", "warnings", "forecast", "aqhi", "address",
                  "citybus eta", "citybus stops", "multimodal"}
  <2>1. req # "start" => s.to # "ask"
    BY <1>a DEF Handler, CurrentWeather, ActiveWarnings, NineDayForecast,
       AirQuality, AddressLookup, CitybusEta, CitybusRouteStops,
       MultimodalJourney, Fetched, Found, Answer, Fail, Tools
  <2>2. req = "start" => s = Ask(Single(t), NoMem)
    BY <1>a DEF Handler, Tools
  <2>3. s = Ask(Single(t), NoMem) /\ req = "start"
    BY <2>1, <2>2
  <2>4. Asks(t) = {Single(t)}
    BY <1>a DEF Asks
  <2> QED BY <1>1, <2>3, <2>4 DEF Ask
<1>b. CASE t \in {"near point", "by name", "courts", "pools", "estate", "estates"}
  BY <1>1, <1>b DEF Handler, Asks, StopsNearPoint, StopsByName, NearbyCourts,
     NearbyPools, EstateInfo, EstatesInDistrict, Found, Answer, Ask
<1>c. CASE t \in {"mtr", "gmb", "kmb eta", "kmb route eta"}
  <2>1. CASE t = "mtr"
    <3>1. s = Ask("next trains", NoMem) /\ req = "start"
      BY <2>1 DEF Handler, MtrNextTrains, Fetched, Found, Answer, Fail
    <3>2. Asks(t) = {"next trains"}
      BY <2>1 DEF Asks
    <3> QED BY <1>1, <1>2, <3>1, <3>2
  <2>2. CASE t = "gmb"
    BY <1>1, <2>2 DEF Handler, Asks, GmbEta, Fetched, Found, Answer, Fail, Ask, Lookups
  <2>3. CASE t = "kmb eta"
    BY <1>1, <2>3 DEF Handler, Asks, KmbEta, Fetched, Found, Answer, Fail, Ask, Lookups
  <2>4. CASE t = "kmb route eta"
    BY <1>1, <2>4 DEF Handler, Asks, KmbRouteEta, Fetched, Found, Answer, Fail, Ask, Lookups
  <2> QED BY <1>c, <2>1, <2>2, <2>3, <2>4
<1>d. CASE t = "csdi"
  <2>1. s = CsdiQuery(a, req, m, r)
    BY <1>d DEF Handler
  <2>2. Asks(t) = {"features"}
    BY <1>d DEF Asks
  <2>3. CASE req = "start"
    <3>1. s = Ask("features", NoMem)
      BY <2>1, <2>3 DEF CsdiQuery, Fail
    <3> QED BY <1>1, <1>2, <2>2, <2>3, <3>1
  <2>4. CASE req = "features"
    <3>1. s = QueryFeatureServer(LimitOf(a), req, m, r)
      BY <2>1, <2>4 DEF CsdiQuery
    <3>2. s = Ask(req, [m EXCEPT !.n = m.n + InPage(r)])
      BY <3>1 DEF QueryFeatureServer, Fail, Found, Answer
    <3>3. m.n + InPage(r) \in Nat
      BY HandlersAssumption DEF IsMem, InPage
    <3>4. IsMem([m EXCEPT !.n = m.n + InPage(r)])
      BY <3>3 DEF IsMem
    <3> QED BY <2>2, <2>4, <3>2, <3>4 DEF Ask, Lookups
  <2> QED BY <2>2, <2>3, <2>4
<1>e. CASE t \in {"walk", "journey"}
  <2>1. s = ResolvePair(a, req, m, r)
    BY <1>e DEF Handler, WalkingRoute, PlanJourney
  <2>2. Asks(t) = {"nominatim, from", "als, from", "nominatim, to", "als, to"}
    BY <1>e DEF Asks
  <2>3. \A o : Depart(a, o).to = "ask" =>
                Depart(a, o) = Ask("nominatim, to", [NoMem EXCEPT !.o = o])
    BY DEF Depart, Arrive, Fail, Answer
  <2>4. \A o, d : Arrive(a, o, d).to # "ask"
    BY DEF Arrive, Fail, Answer
  <2>5. \A o : LET w == Ask("nominatim, to", [NoMem EXCEPT !.o = o]) IN
                /\ w.req = "nominatim, to" /\ IsMem(w.mem)
    BY <1>3 DEF Ask
  <2>6. CASE req = "start"
    <3>1. CASE a.o.form = "name"
      <4>1. s = Ask("nominatim, from", NoMem)
        BY <2>1, <2>6, <3>1 DEF ResolvePair
      <4> QED BY <1>1, <1>2, <2>2, <2>6, <4>1
    <3>2. CASE a.o.form # "name"
      <4>1. s = Depart(a, Given(a.o))
        BY <2>1, <2>6, <3>2 DEF ResolvePair
      <4> QED BY <2>2, <2>3, <2>5, <2>6, <4>1
    <3> QED BY <3>1, <3>2
  <2>7. CASE req = "nominatim, from"
    <3>1. CASE r \in Places
      <4>1. s = Depart(a, r)
        BY <2>1, <2>7, <3>1 DEF ResolvePair
      <4> QED BY <2>2, <2>3, <2>5, <4>1 DEF Lookups
    <3>2. CASE r \notin Places
      <4>1. s = Ask("als, from", NoMem)
        BY <2>1, <2>7, <3>2 DEF ResolvePair
      <4>2. s.req = "als, from" /\ IsMem(s.mem)
        BY <1>1, <1>2, <4>1
      <4> QED BY <2>2, <4>2 DEF Lookups
    <3> QED BY <3>1, <3>2
  <2>8. CASE req = "als, from"
    <3>1. s = Fail \/ s = Depart(a, Lost(r))
      BY <2>1, <2>8 DEF ResolvePair
    <3>2. s # Fail
      BY DEF Fail
    <3> QED BY <2>2, <2>3, <2>5, <3>1, <3>2 DEF Lookups
  <2>9. CASE req = "nominatim, to"
    <3>1. s = Arrive(a, m.o, r) \/ s = Ask("als, to", m)
      BY <2>1, <2>9 DEF ResolvePair
    <3>2. s = Ask("als, to", m)
      BY <2>4, <3>1
    <3>3. s.req = "als, to" /\ IsMem(s.mem)
      BY <1>2, <3>2
    <3> QED BY <2>2, <3>3 DEF Lookups
  <2>10. CASE req = "als, to"
    <3>1. s = Fail \/ s = Arrive(a, m.o, Lost(r))
      BY <2>1, <2>10 DEF ResolvePair
    <3> QED BY <2>4, <3>1 DEF Fail
  <2> QED BY <2>2, <2>6, <2>7, <2>8, <2>9, <2>10
<1> QED BY <1>a, <1>b, <1>c, <1>d, <1>e DEF Tools

\* A fault that no property excuses fails the handler that waited, at once or,
\* if the origin of a trip is lost by it, when the destination is known.
LEMMA FaultFails ==
  ASSUME NEW t \in Tools, NEW a, NEW req \in Asks(t) \ Lookups, NEW m,
         NEW r \in Faults, NEW s, IsMem(m),
         s = Handler(t, a, req, m, r), ~Excused(req, r)
  PROVE  s.to = "fail" \/ (s.to = "ask" /\ Stranded(t, s.req, s.mem))
<1>1. Fail.to = "fail"
  BY DEF Fail
<1>2. r \in {"down", "notjson"} => Fetched(r) = Fail
  BY DEF Fetched, Raises
<1>a. CASE t \in {"weather", "warnings", "forecast", "address",
                  "citybus eta", "citybus stops"}
  <2>1. req = Single(t)
    BY <1>a DEF Asks
  <2>2. r \in {"down", "notjson"} /\ req # "start"
    BY <1>a, <2>1 DEF Single, Excused, Faults
  <2>3. s \in {Fetched(r), ActiveWarnings(r)}
    BY <1>a, <2>2 DEF Handler, CurrentWeather, NineDayForecast, AddressLookup,
       CitybusEta, CitybusRouteStops
  <2> QED BY <1>1, <1>2, <2>2, <2>3 DEF ActiveWarnings
<1>b. CASE t \in {"multimodal", "aqhi"}
  <2>1. CASE t = "aqhi"
    <3>1. req = "feed"
      BY <2>1 DEF Asks, Single
    <3>2. r = "down"
      BY <3>1 DEF Excused, Faults
    <3> QED BY <1>1, <2>1, <3>1, <3>2 DEF Handler, AirQuality
  <2>2. CASE t = "multimodal"
    <3>1. req = "plan"
      BY <2>2 DEF Asks, Single
    <3> QED BY <1>1, <2>2, <3>1 DEF Handler, MultimodalJourney
  <2> QED BY <1>b, <2>1, <2>2
<1>c. CASE t \in {"near point", "by name", "courts", "pools", "estate", "estates"}
  BY <1>c DEF Asks, Lookups
<1>d. CASE t \in {"mtr", "gmb", "kmb eta", "kmb route eta"}
  <2>1. req \in {"next trains", "gmb route", "gmb eta", "stop eta", "route eta"}
    BY <1>d DEF Asks, Lookups
  <2>2. r \in {"down", "notjson"}
    BY <2>1 DEF Excused, Faults
  <2>3. s \in {Fail, Fetched(r)}
    BY <1>d, <2>1, <2>2 DEF Handler, Asks, Lookups, MtrNextTrains, GmbEta, KmbEta,
       KmbRouteEta
  <2> QED BY <1>1, <1>2, <2>2, <2>3
<1>e. CASE t = "csdi"
  <2>1. req = "features"
    BY <1>e DEF Asks
  <2>2. s = QueryFeatureServer(LimitOf(a), req, m, r)
    BY <1>e, <2>1 DEF Handler, CsdiQuery
  <2> QED BY <1>1, <2>2 DEF QueryFeatureServer, Faults
<1>f. CASE t \in {"walk", "journey"}
  <2>1. s = ResolvePair(a, req, m, r)
    BY <1>f DEF Handler, WalkingRoute, PlanJourney
  <2>2. req \in {"als, from", "als, to"} /\ r \in {"down", "notjson"}
    BY <1>f DEF Asks, Excused, Faults
  <2>3. \A d : Arrive(a, "lost", d) = Fail /\ \A o : Arrive(a, o, "lost") = Fail
    BY DEF Arrive
  <2>4. Lost("down") = "lost"
    BY HandlersAssumption DEF Lost
  <2>5. CASE r = "notjson"
    BY <1>1, <2>1, <2>2, <2>5 DEF ResolvePair
  <2>6. CASE r = "down" /\ req = "als, to"
    <3>1. s = Arrive(a, m.o, "lost")
      BY <2>1, <2>4, <2>6 DEF ResolvePair
    <3> QED BY <1>1, <2>3, <3>1
  <2>7. CASE r = "down" /\ req = "als, from"
    <3>1. s = Depart(a, "lost")
      BY <2>1, <2>4, <2>7 DEF ResolvePair
    <3>2. s = Fail \/ s = Ask("nominatim, to", [NoMem EXCEPT !.o = "lost"])
      BY <2>3, <3>1 DEF Depart
    <3>3. [NoMem EXCEPT !.o = "lost"].o = "lost"
      BY DEF NoMem
    <3>4. CASE s = Ask("nominatim, to", [NoMem EXCEPT !.o = "lost"])
      <4>1. s.to = "ask" /\ s.req = "nominatim, to"
        BY <3>4, AskIs
      <4>2. s.mem = [NoMem EXCEPT !.o = "lost"]
        BY <3>4, AskIs
      <4>3. s.mem.o = "lost"
        BY <3>3, <4>2
      <4> QED BY <1>f, <4>1, <4>3 DEF Stranded
    <3> QED BY <1>1, <3>2, <3>4
  <2> QED BY <2>2, <2>5, <2>6, <2>7
<1> QED BY <1>a, <1>b, <1>c, <1>d, <1>e, <1>f DEF Tools

\* A trip whose origin is lost finds no route, whatever comes.
LEMMA StrandedFails ==
  ASSUME NEW t \in Tools, NEW a, NEW req, NEW m, NEW r, NEW s, IsMem(m),
         s = Handler(t, a, req, m, r), Stranded(t, req, m)
  PROVE  s.to = "fail" \/ (s.to = "ask" /\ Stranded(t, s.req, s.mem))
<1>1. s = ResolvePair(a, req, m, r)
  BY DEF Stranded, Handler, WalkingRoute, PlanJourney
<1>2. \A d : Arrive(a, "lost", d) = Fail
  BY DEF Arrive
<1>3. s = Fail \/ (s = Ask("als, to", m) /\ m.o = "lost")
  BY <1>1, <1>2 DEF Stranded, ResolvePair
<1>4. CASE s = Ask("als, to", m) /\ m.o = "lost"
  <2>1. s.to = "ask" /\ s.req = "als, to"
    BY <1>4, AskIs
  <2>2. Ask("als, to", m).mem = m
    BY DEF Ask
  <2>3. s.mem.o = "lost"
    BY <1>4, <2>2
  <2> QED BY <2>1, <2>3 DEF Stranded
<1>5. CASE s = Fail
  BY <1>5 DEF Fail
<1> QED BY <1>3, <1>4, <1>5

\* What a catalogue is made of was no fault, except a body that says error.
LEMMA LoadedOfNoFault ==
  ASSUME NEW c \in Lookups, NEW m, NEW r, Loaded(c, m, r) \in {"empty", "full"},
         r \in Faults
  PROVE  Excused(c, r)
<1>1. c \in {"courts", "pools"} => Loaded(c, m, r) = "failed"
  BY DEF Loaded, CourtsLoaded, PoolsLoaded, QueryFeatureServer, Fail, Faults
<1>2. c = "stops" /\ r # "error" => Loaded(c, m, r) = "failed"
  BY DEF Loaded, StopsLoaded, Raises, Faults
<1>3. c = "estates" /\ r # "error" => Loaded(c, m, r) = "failed"
  BY DEF Loaded, EstatesLoaded, Faults
<1> QED BY <1>1, <1>2, <1>3 DEF Lookups, Excused, Faults

\* A tool that reads a catalogue asks for nothing else.
LEMMA ReadsItsCatalogue ==
  ASSUME NEW t \in Tools, Reads(t) # "none"
  PROVE  /\ Asks(t) = {Reads(t)}
         /\ Reads(t) \in {"courts", "pools", "estates"}
         /\ t # "csdi"
BY DEF Reads, Asks, Tools

\* A handler of a catalogue answers only what it has heard.
LEMMA AnswersWhatItHeard ==
  ASSUME NEW t \in Tools, NEW a, NEW req, NEW m, NEW r, NEW s,
         s = Handler(t, a, req, m, r), s.to = "ok",
         Reads(t) # "none"
  PROVE  req # "start"
<1>1. t \in {"courts", "pools", "estate", "estates"}
  BY DEF Reads, Tools
<1>2. req = "start" => \E x : s = Ask(x, NoMem)
  BY <1>1 DEF Handler, NearbyCourts, NearbyPools, EstateInfo, EstatesInDistrict
<1>3. \A x : Ask(x, NoMem).to = "ask"
  BY DEF Ask
<1> QED BY <1>2, <1>3

-----------------------------------------------------------------------------
(***************************************************************************)
(* Lemmas about the steps.                                                 *)
(***************************************************************************)

\* The record of a call that asks.
LEMMA AskingCall ==
  ASSUME NEW c, IsCall(c), NEW q, NEW m, IsMem(m)
  PROVE  LET e == Asking(c, q, m) IN
         /\ IsCall(e)
         /\ e.pc = "asking" /\ e.req = q /\ e.mem = m
         /\ e.want = c.want /\ e.heard = c.heard /\ e.lang = c.lang
<1>1. PICK e : e = Asking(c, q, m)
  OBVIOUS
<1>2. e = [x \in CallFields |-> e[x]]
  BY <1>1 DEF Asking, IsCall, CallFields
<1>3. /\ e.pc = "asking" /\ e.req = q /\ e.mem = m
      /\ e.want = c.want /\ e.heard = c.heard /\ e.from = c.from /\ e.lang = c.lang
  BY <1>1 DEF Asking, IsCall, CallFields
<1>4. IsCall(e)
  BY <1>2, <1>3 DEF IsCall
<1> QED BY <1>1, <1>3, <1>4, Zenon

\* A call as Settle takes it: what it has heard of req is known to be no fault,
\* or its handler will not answer.
Ready(c, req, r) ==
  LET t == c.want[1]
      s == Handler(t, c.want[2], req, c.mem, r) IN
  /\ IsCall(c) /\ t \in Tools
  /\ req = "start" \/ req \in Asks(t)
  /\ AllExcused(c.heard) \/ s.to = "fail" \/ (s.to = "ask" /\ Stranded(t, s.req, s.mem))
  /\ Reads(t) # "none" /\ req # "start" =>
       now - c.from < CatalogTtl /\ (r = "empty" => c.own)

\* The result of a call that is ready is sound.
LEMMA ResultIsSound ==
  ASSUME NEW c, NEW req, NEW r, NEW s, now \in Nat, Ready(c, req, r),
         s = Handler(c.want[1], c.want[2], req, c.mem, r), s.to = "ok"
  PROVE  Sound(Payload(c, req, r, s.about), now)
<1>. DEFINE p == Payload(c, req, r, s.about)
            t == c.want[1]
<1>1. /\ p.want = c.want /\ p.made = now /\ p.from = c.from /\ p.heard = c.heard
      /\ p.about = s.about
  BY DEF Payload
<1>2. p.rows = IF req \in Lookups THEN r ELSE "full"
  BY DEF Payload
<1>3. p.own = c.own
  BY DEF Payload
<1>4. t \in Tools /\ c.from \in Nat /\ IsMem(c.mem) /\ AllExcused(c.heard)
  BY DEF Ready, IsCall
<1>5. req = "start" \/ req \in Asks(t)
  BY DEF Ready
<1>6. Reads(t) # "none" => now - c.from < CatalogTtl /\ (p.rows = "empty" => c.own)
  <2>1. SUFFICES ASSUME Reads(t) # "none"
                 PROVE  now - c.from < CatalogTtl /\ (p.rows = "empty" => c.own)
    OBVIOUS
  <2>2. req # "start"
    BY <1>4, <1>5, <2>1, AnswersWhatItHeard
  <2>3. req \in Lookups
    BY <1>4, <1>5, <2>1, <2>2, ReadsItsCatalogue DEF Lookups
  <2> QED BY <1>2, <2>1, <2>2, <2>3 DEF Ready
<1> QED BY <1>1, <1>3, <1>4, <1>6 DEF Sound

\* What Settle does keeps the calls, the cache and the answer as they should be.
LEMMA SettleKeeps ==
  ASSUME ToolsInv, now' = now, NEW d \in Callers, NEW c, NEW req, NEW r, NEW s,
         Ready(c, req, r), Settle(d, c, req, r),
         s = Handler(c.want[1], c.want[2], req, c.mem, r)
  PROVE  /\ Underway' /\ Kept' /\ Told'
         /\ \E e : /\ call' = [call EXCEPT ![d] = e]
                   /\ e.pc # "idle" => s.to = "ask" /\ e.req = s.req /\ e.pc = "asking"
<1>1. /\ IsCall(c) /\ IsMem(c.mem) /\ c.want[1] \in Tools
      /\ req = "start" \/ req \in Asks(c.want[1])
  BY DEF Ready, IsCall
<1>2. Idle.pc = "idle" /\ IsCall(Idle)
  BY DEF Idle, IsCall, CallFields, IsMem, MemFields, NoMem
<1>3. ASSUME NEW e, call' = [call EXCEPT ![d] = e], IsCall(e),
             e.pc # "idle" => Waits(e)
      PROVE  Underway'
  BY <1>3 DEF ToolsInv, Underway
<1>4. cache' = cache => Kept'
  BY DEF ToolsInv, Kept, Sound
<1>5. (answer' = Silent \/ answer' = Errs) => Told'
  BY DEF Told, Ok, Silent, Errs
<1>a. CASE s.to = "ask"
  <2>0. PICK e : e = Asking(c, s.req, s.mem)
    OBVIOUS
  <2>1. call' = [call EXCEPT ![d] = e] /\ answer' = Silent /\ cache' = cache
    BY <1>a, <2>0 DEF Settle
  <2>2. s.req \in Asks(c.want[1]) /\ IsMem(s.mem)
    BY <1>1, <1>a, AsksItsOwn
  <2>3. /\ e.pc = "asking" /\ e.req = s.req /\ e.mem = s.mem
        /\ e.want = c.want /\ e.heard = c.heard /\ IsCall(e)
    <3>1. PICK q, m : q = s.req /\ m = s.mem
      OBVIOUS
    <3>2. e = Asking(c, q, m) /\ q \in Asks(c.want[1]) /\ IsMem(m)
      BY <2>0, <2>2, <3>1
    <3>3. /\ e.pc = "asking" /\ e.req = q /\ e.mem = m
          /\ e.want = c.want /\ e.heard = c.heard /\ IsCall(e)
      BY <1>1, <3>2, AskingCall
    <3>. QED  BY <3>1, <3>3
  <2>5. AllExcused(c.heard) \/ Stranded(c.want[1], s.req, s.mem)
    BY <1>a DEF Ready
  <2>6. Waits(e)
    BY <1>1, <2>2, <2>3, <2>5 DEF Waits
  <2>7. Underway' /\ Kept' /\ Told'
    BY <1>3, <1>4, <1>5, <2>1, <2>3, <2>6
  <2> QED BY <1>a, <2>1, <2>3, <2>7
<1>b. CASE s.to = "fail"
  <2>1. call' = [call EXCEPT ![d] = Idle] /\ answer' = Errs /\ cache' = cache
    BY <1>b DEF Settle, End
  <2>2. Underway' /\ Kept' /\ Told'
    BY <1>2, <1>3, <1>4, <1>5, <2>1
  <2> QED BY <1>2, <2>1, <2>2
<1>c. CASE s.to = "ok"
  <2>. DEFINE p == Payload(c, req, r, s.about)
              w == c.want
  <2>1. /\ cache' = Put(Key(w), [expires |-> now + Ttl[w[1]], result |-> p])
        /\ call' = [call EXCEPT ![d] = Idle]
        /\ answer' = Gets(c, FALSE, p)
    BY <1>c DEF Settle, End
  <2>2. Sound(p, now)
    BY <1>c, ResultIsSound DEF ToolsInv
  <2>3. p.want = w /\ p.made = now
    BY DEF Payload
  <2>4. p.lang = "any" \/ p.lang = c.lang
    BY DEF Payload
  <2>5. PICK q : q = p
    OBVIOUS
  <2>6. Kept'
    <3>1. SUFFICES ASSUME NEW k \in DOMAIN cache'
                   PROVE  /\ cache'[k].result.want = k
                          /\ Sound(cache'[k].result, now)
                          /\ cache'[k].expires = cache'[k].result.made + Ttl[k[1]]
      BY DEF Kept
    <3>2. CASE k = w
      <4>1. cache'[k] = [expires |-> now + Ttl[w[1]], result |-> q]
        BY <2>1, <2>5, <3>1, <3>2 DEF Put, Key
      <4>2. cache'[k].expires = now + Ttl[w[1]] /\ cache'[k].result = q
        BY <4>1
      <4> QED BY <2>2, <2>3, <2>5, <3>2, <4>2
    <3>3. CASE k # w
      <4>1. k \in DOMAIN cache /\ cache'[k] = cache[k]
        BY <2>1, <3>1, <3>3 DEF Put, Key
      <4> QED BY <4>1 DEF ToolsInv, Kept
    <3> QED BY <3>2, <3>3
  <2>7. Told'
    <3>1. answer' = Gets(c, FALSE, q)
      BY <2>1, <2>5
    <3>2. /\ answer'.want = w /\ answer'.lang = c.lang /\ answer'.result = q
      BY <3>1 DEF Gets
    <3>3. Ttl[w[1]] \in Nat /\ now \in Nat
      BY <1>1, ToolsAssumption DEF ToolsInv
    <3>4. /\ q.want = w /\ q.made = now /\ Sound(q, now)
          /\ q.lang \in {"any", c.lang}
      BY <2>2, <2>3, <2>4, <2>5
    <3> QED BY <3>2, <3>3, <3>4 DEF Told
  <2>8. Underway'
    BY <1>2, <1>3, <2>1
  <2> QED BY <1>2, <2>1, <2>6, <2>7, <2>8
<1> QED BY <1>a, <1>b, <1>c DEF Settle

\* At the start nobody calls and nothing is kept.
LEMMA InitEstablishes == Init => ToolsInv
<1>. SUFFICES ASSUME Init PROVE ToolsInv
  OBVIOUS
<1>1. Idle.pc = "idle" /\ IsCall(Idle)
  BY DEF Idle, IsCall, CallFields, IsMem, MemFields, NoMem
<1>2. Underway
  BY <1>1 DEF Init, Underway
<1>3. Catalogues
  BY DEF Init, Catalogues, AllExcused
<1>4. Kept
  BY DEF Init, Kept
<1>5. Told
  BY DEF Init, Told, Ok, Silent
<1>6. LoaderAlone
  BY <1>1 DEF Init, LoaderAlone, Loading
<1> QED BY <1>2, <1>3, <1>4, <1>5, <1>6 DEF Init, ToolsInv

\* Nobody's place in a lock changes by a call that neither enters nor leaves one.
LEMMA LoaderStays ==
  ASSUME ToolsInv, NEW d \in Callers, NEW e, call' = [call EXCEPT ![d] = e],
         queue' = queue, cat' = cat, now' = now,
         e.pc # "queued", e.pc = "asking" => e.req \notin Lookups
  PROVE  LoaderAlone'
<1>1. \A f \in Callers : call'[f] = IF f = d THEN e ELSE call[f]
  BY DEF ToolsInv, Underway
<1>2. \A c : Fresh(c)' = Fresh(c)
  BY DEF Fresh
<1>3. /\ queue' = [c \in Lookups |-> queue'[c]]
      /\ \A c \in Lookups : queue'[c] \in Seq(Callers)
  BY DEF ToolsInv, LoaderAlone
<1>4. ASSUME NEW f \in Callers, call'[f].pc = "queued" PROVE InLine(f)'
  BY <1>1, <1>4 DEF ToolsInv, LoaderAlone, InLine
<1>5. ASSUME NEW c \in Lookups, NEW f \in Callers, Loading(f, c)'
      PROVE  queue'[c] # <<>> /\ Head(queue'[c]) = f /\ ~Fresh(c)'
  BY <1>1, <1>2, <1>5 DEF ToolsInv, LoaderAlone, Loading
<1> QED BY <1>3, <1>4, <1>5 DEF LoaderAlone

\* Whoever is in a lock leaves it to the next in line.
LEMMA LoaderLeaves ==
  ASSUME ToolsInv, NEW d \in Callers, NEW e, call' = [call EXCEPT ![d] = e],
         NEW name \in Lookups, queue[name] # <<>>, Head(queue[name]) = d,
         queue' = [queue EXCEPT ![name] = Tail(@)], now' = now,
         \A c \in Lookups : c # name => cat'[c] = cat[c],
         e.pc # "queued", e.pc = "asking" => e.req \notin Lookups
  PROVE  LoaderAlone'
<1>1. \A f \in Callers : call'[f] = IF f = d THEN e ELSE call[f]
  BY DEF ToolsInv, Underway
<1>2. /\ queue = [c \in Lookups |-> queue[c]]
      /\ \A c \in Lookups : queue[c] \in Seq(Callers)
  BY DEF ToolsInv, LoaderAlone
<1>3. \A c \in Lookups : queue'[c] = IF c = name THEN Tail(queue[name]) ELSE queue[c]
  BY <1>2
<1>4. /\ queue' = [c \in Lookups |-> queue'[c]]
      /\ \A c \in Lookups : queue'[c] \in Seq(Callers)
  <2>1. queue' = [c \in Lookups |-> queue'[c]]
    BY <1>2
  <2>2. queue[name] \in Seq(Callers) /\ Tail(queue[name]) \in Seq(Callers)
    BY <1>2
  <2>3. \A c \in Lookups : queue'[c] \in Seq(Callers)
    BY <1>2, <1>3, <2>2
  <2> QED BY <2>1, <2>3
<1>5. ASSUME NEW f \in Callers, call'[f].pc = "queued" PROVE InLine(f)'
  <2>1. f # d /\ call'[f] = call[f] /\ InLine(f)
    BY <1>1, <1>5 DEF ToolsInv, LoaderAlone
  <2>2. CASE call[f].req # name
    BY <1>3, <2>1, <2>2 DEF InLine
  <2>3. CASE call[f].req = name
    <3>1. PICK i \in 1 .. Len(queue[name]) : queue[name][i] = f
      BY <2>1, <2>3 DEF InLine
    <3>2. i # 1
      BY <2>1, <3>1
    <3>3. queue[name] \in Seq(Callers)
      BY <1>2
    <3>4. i - 1 \in 1 .. Len(Tail(queue[name])) /\ Tail(queue[name])[i - 1] = f
      BY <3>1, <3>2, <3>3
    <3>5. call'[f].req = name /\ queue'[name] = Tail(queue[name])
      BY <1>3, <2>1, <2>3
    <3> QED BY <3>4, <3>5 DEF InLine
  <2> QED BY <2>2, <2>3
<1>6. ASSUME NEW c \in Lookups, NEW f \in Callers, Loading(f, c)'
      PROVE  queue'[c] # <<>> /\ Head(queue'[c]) = f /\ ~Fresh(c)'
  <2>1. f # d /\ Loading(f, c)
    BY <1>1, <1>6 DEF Loading
  <2>2. queue[c] # <<>> /\ Head(queue[c]) = f /\ ~Fresh(c)
    BY <2>1 DEF ToolsInv, LoaderAlone
  <2>3. c # name
    BY <2>1, <2>2
  <2>4. Fresh(c)' = Fresh(c)
    BY <2>3 DEF Fresh
  <2> QED BY <1>3, <2>2, <2>3, <2>4
<1> QED BY <1>4, <1>5, <1>6 DEF LoaderAlone

-----------------------------------------------------------------------------
(***************************************************************************)
(* The steps.                                                              *)
(***************************************************************************)

\* A call that starts has heard nothing and remembers nothing.
LEMMA CallIsFresh ==
  ASSUME ToolsInv, NEW d, NEW w, NEW l, MayCall(d, w, l)
  PROVE  LET c == Call(w, l) IN
         /\ c.want = w /\ c.lang = l /\ c.mem = NoMem /\ c.heard = {}
         /\ IsCall(c) /\ w[1] \in Tools
<1>1. PICK c : c = Call(w, l)
  OBVIOUS
<1>2. c.want = w /\ c.lang = l /\ c.mem = NoMem /\ c.heard = {} /\ c.from = 0
  BY <1>1 DEF Call, Idle
<1>3. c = [x \in CallFields |-> c[x]]
  BY <1>1 DEF Call, Idle, CallFields
<1>4. IsMem(NoMem)
  BY DEF IsMem, MemFields, NoMem
<1>5. w[1] \in Tools
  BY ToolsAssumption DEF ToolsInv, MayCall
<1>6. IsCall(c)
  <2>1. c.from \in Nat
    BY <1>2
  <2> QED BY <1>2, <1>3, <1>4, <2>1 DEF IsCall
<1> QED BY <1>1, <1>2, <1>5, <1>6, Zenon

\* Arguments refused.
LEMMA RefuseKeeps ==
  ASSUME ToolsInv, NEW d \in Callers, NEW w, NEW l, Refuse(d, w, l)
  PROVE  ToolsInv'
BY DEF Refuse, Errs, ToolsInv, Underway, Catalogues, Kept, Told, Ok, LoaderAlone,
   InLine, Loading, Fresh

\* An answer out of the cache.
LEMMA HitKeeps ==
  ASSUME ToolsInv, NEW d \in Callers, NEW w, NEW l, Hit(d, w, l)
  PROVE  ToolsInv'
<1>1. UNCHANGED <<family, call, cache, cat, queue, now>>
  BY DEF Hit
<1>2. Underway' /\ Catalogues' /\ Kept' /\ LoaderAlone'
  BY <1>1 DEF ToolsInv, Underway, Catalogues, Kept, LoaderAlone, InLine, Loading, Fresh
<1>3. Told'
  <2>1. /\ w \in DOMAIN cache /\ cache[w].expires >= now
        /\ answer' = Gets(Call(w, l), TRUE, cache[w].result)
    BY DEF Hit, CacheGet, Key
  <2>2. /\ cache[w].result.want = w /\ Sound(cache[w].result, now)
        /\ cache[w].expires = cache[w].result.made + Ttl[w[1]]
    BY <2>1 DEF ToolsInv, Kept
  <2>3. Call(w, l).want = w
    BY CallIsFresh DEF Hit
  <2>4. PICK q : q = cache[w].result
    OBVIOUS
  <2>5. /\ answer'.want = w /\ answer'.result = q /\ answer'.cached
    BY <2>1, <2>3, <2>4 DEF Gets
  <2>6. q.made \in Nat /\ Ttl[w[1]] \in Nat
    BY <2>2, <2>4, ToolsAssumption DEF Sound
  <2>7. now <= q.made + Ttl[w[1]]
    BY <2>1, <2>2, <2>4, <2>6 DEF ToolsInv
  <2> QED BY <1>1, <2>2, <2>4, <2>5, <2>7 DEF Told
<1> QED BY <1>1, <1>2, <1>3 DEF ToolsInv

\* A handler that is handed a catalogue.
LEMMA ReadKeeps ==
  ASSUME ToolsInv, now' = now, NEW d \in Callers, NEW c, IsCall(c),
         c.want[1] \in Tools, AllExcused(c.heard),
         NEW name \in Lookups, name \in Asks(c.want[1]), NEW k, k.at \in Nat,
         AllExcused(k.heard),
         name # "stops" => now - k.at < CatalogTtl /\ (k.state = "empty" => c.own),
         Read(d, c, name, k)
  PROVE  /\ Underway' /\ Kept' /\ Told'
         /\ \E e : /\ call' = [call EXCEPT ![d] = e]
                   /\ e.pc # "queued" /\ (e.pc = "asking" => e.req \notin Lookups)
<1>1. PICK b : b = [c EXCEPT !.heard = @ \cup k.heard, !.from = k.at]
  OBVIOUS
<1>2. /\ b.want = c.want /\ b.heard = c.heard \cup k.heard /\ b.from = k.at
      /\ b.own = c.own /\ b.mem = c.mem
  BY <1>1 DEF IsCall, CallFields
<1>3. b = [x \in CallFields |-> b[x]]
  BY <1>1 DEF IsCall, CallFields
<1>4. IsCall(b)
  BY <1>2, <1>3 DEF IsCall
<1>5. AllExcused(b.heard)
  BY <1>2 DEF AllExcused
<1>6. Settle(d, b, name, k.state)
  BY <1>1 DEF Read
<1>7. Reads(b.want[1]) # "none" => name # "stops"
  BY <1>2, ReadsItsCatalogue
<1>8. Ready(b, name, k.state)
  BY <1>2, <1>4, <1>5, <1>7 DEF Ready
<1>9. PICK s : s = Handler(b.want[1], b.want[2], name, b.mem, k.state)
  OBVIOUS
<1>10. /\ Underway' /\ Kept' /\ Told'
       /\ \E e : /\ call' = [call EXCEPT ![d] = e]
                 /\ e.pc # "idle" => s.to = "ask" /\ e.req = s.req /\ e.pc = "asking"
  BY <1>6, <1>8, <1>9, SettleKeeps
<1>11. s.to = "ask" => s.req \notin Lookups
  <2>1. name # "start"
    BY DEF Lookups
  <2> QED BY <1>2, <1>4, <1>9, <2>1, AsksItsOwn DEF IsCall
<1>12. PICK e : /\ call' = [call EXCEPT ![d] = e]
                /\ e.pc # "idle" => s.to = "ask" /\ e.req = s.req /\ e.pc = "asking"
  BY <1>10, Zenon
<1>13. e.pc # "queued" /\ (e.pc = "asking" => e.req \notin Lookups)
  BY <1>11, <1>12
<1> QED BY <1>10, <1>12, <1>13

\* Who was in line stays there when another joins it.
LEMMA Appended ==
  ASSUME NEW q \in Seq(Callers), NEW d \in Callers
  PROVE  /\ Append(q, d) \in Seq(Callers)
         /\ \A i \in 1 .. Len(q) : /\ i \in 1 .. Len(Append(q, d))
                                  /\ Append(q, d)[i] = q[i]
OBVIOUS

\* A handler starts: it finds its catalogue fresh, waits for its lock or is the
\* first in it, or asks an upstream.
LEMMA MissKeeps ==
  ASSUME ToolsInv, NEW d \in Callers, NEW w, NEW l, Miss(d, w, l)
  PROVE  ToolsInv'
<1>1. PICK c : c = Call(w, l)
  OBVIOUS
<1>2. /\ c.want = w /\ c.mem = NoMem /\ c.heard = {} /\ IsCall(c) /\ w[1] \in Tools
  BY <1>1, CallIsFresh DEF Miss
<1>3. PICK s : s = Handler(w[1], w[2], "start", NoMem, "none")
  OBVIOUS
<1>4. cat' = cat /\ now' = now /\ family' = family
  BY DEF Miss
<1>5. now' \in Nat /\ family' \in Families /\ Catalogues'
  BY <1>4 DEF ToolsInv, Catalogues
<1>6. AllExcused(c.heard)
  BY <1>2 DEF AllExcused
<1>7. IsMem(NoMem)
  BY DEF IsMem, MemFields, NoMem
<1>8. s.to = "ask" => s.req \in Asks(w[1])
  BY <1>2, <1>3, <1>7, AsksItsOwn
<1>a. CASE s.to = "ask" /\ s.req \in Lookups /\ Fresh(s.req)
  <2>1. Read(d, c, s.req, cat[s.req]) /\ queue' = queue
    BY <1>1, <1>3, <1>a DEF Miss
  <2>2. cat[s.req].at \in Nat /\ AllExcused(cat[s.req].heard)
    BY <1>a DEF ToolsInv, Catalogues
  <2>3. s.req # "stops" => now - cat[s.req].at < CatalogTtl /\ cat[s.req].state # "empty"
    BY <1>a DEF Fresh
  <2>4. /\ Underway' /\ Kept' /\ Told'
        /\ \E e : /\ call' = [call EXCEPT ![d] = e]
                  /\ e.pc # "queued" /\ (e.pc = "asking" => e.req \notin Lookups)
    BY <1>2, <1>4, <1>6, <1>8, <1>a, <2>1, <2>2, <2>3, ReadKeeps
  <2>5. LoaderAlone'
    BY <1>4, <2>1, <2>4, LoaderStays
  <2> QED BY <1>5, <2>4, <2>5 DEF ToolsInv
<1>b. CASE s.to = "ask" /\ s.req \in Lookups /\ ~Fresh(s.req)
  <2>1. PICK e : e = [c EXCEPT !.req = s.req,
                               !.pc = IF queue[s.req] = <<>> THEN "asking" ELSE "queued"]
    OBVIOUS
  <2>2. /\ queue' = [queue EXCEPT ![s.req] = Append(@, d)]
        /\ call' = [call EXCEPT ![d] = e]
        /\ answer' = Silent /\ cache' = cache
    BY <1>1, <1>3, <1>b, <2>1 DEF Miss
  <2>3. /\ e.want = w /\ e.mem = NoMem /\ e.heard = {} /\ e.from = c.from
        /\ e.req = s.req
        /\ e.pc = IF queue[s.req] = <<>> THEN "asking" ELSE "queued"
    BY <1>2, <2>1 DEF IsCall, CallFields
  <2>4. e = [x \in CallFields |-> e[x]]
    BY <1>2, <2>1 DEF IsCall, CallFields
  <2>5. IsCall(e)
    BY <1>2, <1>7, <2>3, <2>4 DEF IsCall
  <2>6. Waits(e)
    BY <1>2, <1>6, <1>8, <1>b, <2>3 DEF Waits
  <2>7. \A f \in Callers : call'[f] = IF f = d THEN e ELSE call[f]
    BY <2>2 DEF ToolsInv, Underway
  <2>8. Underway'
    BY <2>2, <2>5, <2>6 DEF ToolsInv, Underway
  <2>9. Kept' /\ Told'
    BY <1>4, <2>2 DEF ToolsInv, Kept, Told, Ok, Silent
  <2>10. LoaderAlone'
    <3>1. /\ queue = [x \in Lookups |-> queue[x]]
          /\ \A x \in Lookups : queue[x] \in Seq(Callers)
      BY DEF ToolsInv, LoaderAlone
    <3>2. \A x \in Lookups : queue'[x] = IF x = s.req THEN Append(queue[x], d) ELSE queue[x]
      BY <1>b, <2>2, <3>1
    <3>3. /\ queue' = [x \in Lookups |-> queue'[x]]
          /\ \A x \in Lookups : queue'[x] \in Seq(Callers)
      <4>1. queue' = [x \in Lookups |-> queue'[x]]
        BY <2>2, <3>1
      <4>2. ASSUME NEW x \in Lookups PROVE queue'[x] \in Seq(Callers)
        <5>1. queue[x] \in Seq(Callers) /\ queue'[x] \in {queue[x], Append(queue[x], d)}
          BY <3>1, <3>2
        <5> QED BY <5>1, Appended, Zenon
      <4> QED BY <4>1, <4>2
    <3>4. ASSUME NEW f \in Callers, call'[f].pc = "queued" PROVE InLine(f)'
      <4>1. CASE f = d
        <5>1. call'[f].req = s.req /\ queue'[s.req] = Append(queue[s.req], d)
          BY <1>b, <2>3, <2>7, <3>2, <4>1
        <5>2. queue[s.req] \in Seq(Callers)
          BY <1>b, <3>1
        <5>3. /\ Len(Append(queue[s.req], d)) \in 1 .. Len(Append(queue[s.req], d))
              /\ Append(queue[s.req], d)[Len(Append(queue[s.req], d))] = d
          BY <5>2
        <5> QED BY <1>b, <4>1, <5>1, <5>3 DEF InLine
      <4>2. CASE f # d
        <5>1. call'[f] = call[f] /\ InLine(f)
          BY <2>7, <3>4, <4>2 DEF ToolsInv, LoaderAlone
        <5>2. PICK i \in 1 .. Len(queue[call[f].req]) : queue[call[f].req][i] = f
          BY <5>1 DEF InLine
        <5>3. queue[call[f].req] \in Seq(Callers)
          BY <3>1, <5>1 DEF InLine
        <5>4. i \in 1 .. Len(queue'[call[f].req]) /\ queue'[call[f].req][i] = f
          <6>1. queue'[call[f].req] \in {queue[call[f].req], Append(queue[call[f].req], d)}
            BY <3>2, <5>1 DEF InLine
          <6>2. PICK q : q = queue[call[f].req]
            OBVIOUS
          <6>3. q \in Seq(Callers) /\ i \in 1 .. Len(q) /\ q[i] = f
            BY <5>2, <5>3, <6>2
          <6>4. queue'[call[f].req] \in {q, Append(q, d)}
            BY <6>1, <6>2
          <6> QED BY <6>3, <6>4, Appended
        <5> QED BY <5>1, <5>4 DEF InLine
      <4> QED BY <4>1, <4>2
    <3>5. ASSUME NEW x \in Lookups, NEW f \in Callers, Loading(f, x)'
          PROVE  queue'[x] # <<>> /\ Head(queue'[x]) = f /\ ~Fresh(x)'
      <4>1. Fresh(x)' = Fresh(x)
        BY <1>4 DEF Fresh
      <4>2. CASE f = d
        <5>1. x = s.req /\ queue[x] = <<>>
          BY <2>3, <2>7, <3>5, <4>2 DEF Loading
        <5>2. queue'[x] = Append(<<>>, d)
          BY <3>2, <5>1
        <5>3. queue'[x] # <<>> /\ Head(queue'[x]) = d
          BY <5>2
        <5> QED BY <1>b, <4>1, <4>2, <5>1, <5>3
      <4>3. CASE f # d
        <5>1. queue[x] # <<>> /\ Head(queue[x]) = f /\ ~Fresh(x)
          BY <2>7, <3>5, <4>3 DEF ToolsInv, LoaderAlone, Loading
        <5>2. queue[x] \in Seq(Callers)
          BY <3>1
        <5>3. Append(queue[x], d) # <<>> /\ Head(Append(queue[x], d)) = f
          BY <5>1, <5>2
        <5> QED BY <3>2, <4>1, <5>1, <5>3
      <4> QED BY <4>2, <4>3
    <3> QED BY <3>3, <3>4, <3>5 DEF LoaderAlone
  <2> QED BY <1>5, <2>8, <2>9, <2>10 DEF ToolsInv
<1>c. CASE ~(s.to = "ask" /\ s.req \in Lookups)
  <2>1. Settle(d, c, "start", "none") /\ queue' = queue
    BY <1>1, <1>3, <1>c DEF Miss
  <2>2. Ready(c, "start", "none")
    BY <1>2, <1>6 DEF Ready
  <2>3. s = Handler(c.want[1], c.want[2], "start", c.mem, "none")
    BY <1>2, <1>3
  <2>4. /\ Underway' /\ Kept' /\ Told'
        /\ \E e : /\ call' = [call EXCEPT ![d] = e]
                  /\ e.pc # "idle" => s.to = "ask" /\ e.req = s.req /\ e.pc = "asking"
    BY <1>4, <2>1, <2>2, <2>3, SettleKeeps
  <2>5. PICK e : /\ call' = [call EXCEPT ![d] = e]
                 /\ e.pc # "idle" => s.to = "ask" /\ e.req = s.req /\ e.pc = "asking"
    BY <2>4, Zenon
  <2>6. LoaderAlone'
    BY <1>4, <1>c, <2>1, <2>5, LoaderStays
  <2> QED BY <1>5, <2>4, <2>6 DEF ToolsInv
<1> QED BY <1>a, <1>b, <1>c

\* A waiter gets the lock and looks again.
LEMMA GrantedKeeps ==
  ASSUME ToolsInv, NEW d \in Callers, Granted(d)
  PROVE  ToolsInv'
<1>. DEFINE name == call[d].req
<1>1. call[d].pc = "queued" /\ Head(queue[name]) = d
  BY DEF Granted
<1>2. /\ IsCall(call[d]) /\ call[d].want[1] \in Tools /\ name \in Asks(call[d].want[1])
      /\ AllExcused(call[d].heard) \/ Stranded(call[d].want[1], name, call[d].mem)
  BY <1>1 DEF ToolsInv, Underway, Waits
<1>3. name \in Lookups /\ queue[name] # <<>>
  <2>1. InLine(d)
    BY <1>1 DEF ToolsInv, LoaderAlone
  <2>2. queue[name] \in Seq(Callers)
    BY <2>1 DEF ToolsInv, LoaderAlone, InLine
  <2> QED BY <2>1, <2>2 DEF InLine
<1>4. AllExcused(call[d].heard)
  BY <1>2, <1>3 DEF Stranded, Lookups
<1>5. cat' = cat /\ now' = now /\ family' = family
  BY DEF Granted
<1>6. now' \in Nat /\ family' \in Families /\ Catalogues'
  BY <1>5 DEF ToolsInv, Catalogues
<1>a. CASE Fresh(name)
  <2>1. Read(d, call[d], name, cat[name]) /\ queue' = [queue EXCEPT ![name] = Tail(@)]
    BY <1>a DEF Granted, Leave
  <2>2. cat[name].at \in Nat /\ AllExcused(cat[name].heard)
    BY <1>3 DEF ToolsInv, Catalogues
  <2>3. name # "stops" => now - cat[name].at < CatalogTtl /\ cat[name].state # "empty"
    BY <1>a DEF Fresh
  <2>4. PICK c : c = call[d]
    OBVIOUS
  <2>5. PICK x : x = name
    OBVIOUS
  <2>6. /\ Underway' /\ Kept' /\ Told'
        /\ \E e : /\ call' = [call EXCEPT ![d] = e]
                  /\ e.pc # "queued" /\ (e.pc = "asking" => e.req \notin Lookups)
    <3>1. /\ IsCall(c) /\ c.want[1] \in Tools /\ AllExcused(c.heard)
          /\ x \in Lookups /\ x \in Asks(c.want[1])
          /\ cat[x].at \in Nat /\ AllExcused(cat[x].heard)
          /\ Read(d, c, x, cat[x])
      BY <1>2, <1>3, <1>4, <2>1, <2>2, <2>4, <2>5, Zenon
    <3>2. x # "stops" => now - cat[x].at < CatalogTtl /\ (cat[x].state = "empty" => c.own)
      BY <2>3, <2>5
    <3> QED BY <1>5, <3>1, <3>2, ReadKeeps
  <2>7. LoaderAlone'
    BY <1>1, <1>3, <1>5, <2>1, <2>6, LoaderLeaves
  <2> QED BY <1>6, <2>6, <2>7 DEF ToolsInv
<1>b. CASE ~Fresh(name)
  <2>1. /\ call' = [call EXCEPT ![d].pc = "asking"]
        /\ answer' = Silent /\ queue' = queue /\ cache' = cache
    BY <1>b DEF Granted
  <2>2. PICK e : e = [call[d] EXCEPT !.pc = "asking"]
    OBVIOUS
  <2>3. /\ e.pc = "asking" /\ e.req = name /\ e.want = call[d].want
        /\ e.mem = call[d].mem /\ e.heard = call[d].heard /\ e.from = call[d].from
    BY <1>2, <2>2 DEF IsCall, CallFields
  <2>4. e = [x \in CallFields |-> e[x]]
    BY <1>2, <2>2 DEF IsCall, CallFields
  <2>5. IsCall(e)
    BY <1>2, <2>3, <2>4 DEF IsCall
  <2>6. Waits(e)
    BY <1>2, <2>3 DEF Waits
  <2>7. call' = [call EXCEPT ![d] = e]
    BY <2>1, <2>2
  <2>8. \A f \in Callers : call'[f] = IF f = d THEN e ELSE call[f]
    BY <2>7 DEF ToolsInv, Underway
  <2>9. Underway'
    BY <2>5, <2>6, <2>7 DEF ToolsInv, Underway
  <2>10. Kept' /\ Told'
    BY <1>5, <2>1 DEF ToolsInv, Kept, Told, Ok, Silent
  <2>11. LoaderAlone'
    <3>1. \A x : Fresh(x)' = Fresh(x)
      BY <1>5 DEF Fresh
    <3>2. ASSUME NEW f \in Callers, call'[f].pc = "queued" PROVE InLine(f)'
      BY <2>1, <2>3, <2>8, <3>2 DEF ToolsInv, LoaderAlone, InLine
    <3>3. ASSUME NEW x \in Lookups, NEW f \in Callers, Loading(f, x)'
          PROVE  queue'[x] # <<>> /\ Head(queue'[x]) = f /\ ~Fresh(x)'
      <4>1. CASE f = d
        BY <1>1, <1>3, <1>b, <2>1, <2>3, <2>8, <3>1, <3>3, <4>1 DEF Loading
      <4>2. CASE f # d
        BY <2>1, <2>8, <3>1, <3>3, <4>2 DEF ToolsInv, LoaderAlone, Loading
      <4> QED BY <4>1, <4>2
    <3> QED BY <2>1, <3>2, <3>3 DEF ToolsInv, LoaderAlone
  <2> QED BY <1>6, <2>9, <2>10, <2>11 DEF ToolsInv
<1> QED BY <1>a, <1>b

\* Whoever waits for an upstream is under way, and in its lock if it loads.
LEMMA InTheLock ==
  ASSUME ToolsInv, NEW d \in Callers, call[d].pc = "asking"
  PROVE  /\ IsCall(call[d]) /\ Waits(call[d])
         /\ call[d].req \in Lookups =>
              /\ queue[call[d].req] # <<>> /\ Head(queue[call[d].req]) = d
              /\ ~Fresh(call[d].req)
              /\ AllExcused(call[d].heard)
<1>1. IsCall(call[d]) /\ Waits(call[d])
  BY DEF ToolsInv, Underway
<1>2. call[d].req \in Lookups => /\ queue[call[d].req] # <<>>
                                 /\ Head(queue[call[d].req]) = d
                                 /\ ~Fresh(call[d].req)
  BY DEF ToolsInv, LoaderAlone, Loading
<1>3. call[d].req \in Lookups => AllExcused(call[d].heard)
  BY <1>1 DEF Waits, Stranded, Lookups
<1> QED BY <1>1, <1>2, <1>3

\* A load fails, and the next in line is let in.
LEMMA LoadFailsKeeps ==
  ASSUME ToolsInv, NEW d \in Callers, NEW r, call[d].pc = "asking",
         call[d].req \in Lookups, LoadFails(d, r),
         UNCHANGED <<family, now, calls>>
  PROVE  ToolsInv'
<1>1. /\ call' = [call EXCEPT ![d] = Idle] /\ answer' = Errs
      /\ cache' = cache /\ cat' = cat
      /\ queue' = [queue EXCEPT ![call[d].req] = Tail(@)]
  BY DEF LoadFails, End, Leave
<1>2. Idle.pc = "idle" /\ IsCall(Idle)
  BY DEF Idle, IsCall, CallFields, IsMem, MemFields, NoMem
<1>3. queue[call[d].req] # <<>> /\ Head(queue[call[d].req]) = d
  BY InTheLock
<1>4. LoaderAlone'
  BY <1>1, <1>2, <1>3, LoaderLeaves
<1>5. Underway'
  BY <1>1, <1>2 DEF ToolsInv, Underway
<1>6. Kept' /\ Told' /\ Catalogues'
  BY <1>1 DEF ToolsInv, Kept, Told, Ok, Errs, Catalogues
<1> QED BY <1>4, <1>5, <1>6 DEF ToolsInv

\* A load asks for another page.
LEMMA NextPageKeeps ==
  ASSUME ToolsInv, NEW d \in Callers, NEW r, call[d].pc = "asking",
         call[d].req \in Lookups, NextPage(d, r),
         UNCHANGED <<family, now, calls>>
  PROVE  ToolsInv'
<1>1. /\ call' = [call EXCEPT ![d].mem.n = @ + InPage(r)] /\ answer' = Silent
      /\ cache' = cache /\ cat' = cat /\ queue' = queue
  BY DEF NextPage
<1>2. IsCall(call[d]) /\ Waits(call[d]) /\ AllExcused(call[d].heard)
  BY InTheLock
<1>3. PICK m : m = [call[d].mem EXCEPT !.n = @ + InPage(r)]
  OBVIOUS
<1>4. call[d].mem.n + InPage(r) \in Nat
  BY <1>2, HandlersAssumption DEF IsCall, IsMem, InPage
<1>5. m = [x \in MemFields |-> m[x]] /\ m.n = call[d].mem.n + InPage(r)
  BY <1>2, <1>3 DEF IsCall, IsMem, MemFields
<1>6. IsMem(m)
  BY <1>4, <1>5 DEF IsMem
<1>7. PICK e : e = [call[d] EXCEPT !.mem = m]
  OBVIOUS
<1>8. /\ e.pc = "asking" /\ e.req = call[d].req /\ e.want = call[d].want
      /\ e.mem = m /\ e.heard = call[d].heard /\ e.from = call[d].from
  BY <1>2, <1>7 DEF IsCall, CallFields
<1>9. e = [x \in CallFields |-> e[x]]
  BY <1>2, <1>7 DEF IsCall, CallFields
<1>10. IsCall(e)
  BY <1>2, <1>6, <1>8, <1>9 DEF IsCall
<1>11. Waits(e)
  BY <1>2, <1>8 DEF Waits
<1>12. call' = [call EXCEPT ![d] = e]
  BY <1>1, <1>3, <1>7
<1>13. \A f \in Callers : call'[f] = IF f = d THEN e ELSE call[f]
  BY <1>12 DEF ToolsInv, Underway
<1>14. Underway'
  BY <1>10, <1>11, <1>12 DEF ToolsInv, Underway
<1>15. Kept' /\ Told' /\ Catalogues'
  BY <1>1 DEF ToolsInv, Kept, Told, Ok, Silent, Catalogues
<1>16. LoaderAlone'
  <2>1. \A x : Fresh(x)' = Fresh(x)
    BY <1>1 DEF Fresh
  <2>2. \A f \in Callers : call'[f].pc = call[f].pc /\ call'[f].req = call[f].req
    BY <1>8, <1>13
  <2> QED BY <1>1, <2>1, <2>2 DEF ToolsInv, LoaderAlone, InLine, Loading
<1> QED BY <1>14, <1>15, <1>16 DEF ToolsInv

\* A load ends, and its handler reads what it loaded.
LEMMA LoadEndsKeeps ==
  ASSUME ToolsInv, NEW d \in Callers, NEW r, call[d].pc = "asking",
         call[d].req \in Lookups, LoadEnds(d, r),
         UNCHANGED <<family, now, calls>>
  PROVE  ToolsInv'
<1>1. PICK name \in Lookups : name = call[d].req
  OBVIOUS
<1>2. PICK c : c = call[d]
  OBVIOUS
<1>3. /\ IsCall(c) /\ c.want[1] \in Tools /\ name \in Asks(c.want[1])
      /\ AllExcused(c.heard) /\ queue[name] # <<>> /\ Head(queue[name]) = d
  BY <1>1, <1>2, InTheLock DEF Waits
<1>4. PICK k : k = [state |-> Loaded(name, c.mem, r), at |-> now, heard |-> Blame(name, r)]
  OBVIOUS
<1>5. PICK b : b = [c EXCEPT !.own = TRUE, !.mem = NoMem]
  OBVIOUS
<1>6. /\ Loaded(name, c.mem, r) \in {"full", "empty"}
      /\ cat' = [cat EXCEPT ![name] = k]
      /\ Read(d, b, name, k)
      /\ queue' = [queue EXCEPT ![name] = Tail(@)]
  BY <1>1, <1>2, <1>4, <1>5, Zenon DEF LoadEnds, Leave
<1>7. k.at = now /\ k.heard = Blame(name, r)
  BY <1>4
<1>8. AllExcused(k.heard)
  BY <1>6, <1>7, LoadedOfNoFault DEF AllExcused, Blame
<1>9. IsMem(NoMem)
  BY DEF IsMem, MemFields, NoMem
<1>10. /\ b.own = TRUE /\ b.mem = NoMem /\ b.want = c.want
       /\ b.heard = c.heard /\ b.from = c.from
  BY <1>3, <1>5 DEF IsCall, CallFields
<1>11. b = [x \in CallFields |-> b[x]]
  BY <1>3, <1>5 DEF IsCall, CallFields
<1>12. IsCall(b)
  BY <1>3, <1>9, <1>10, <1>11 DEF IsCall
<1>13. b.own
  BY <1>10, Zenon
<1>14. now - k.at < CatalogTtl /\ k.at \in Nat
  BY <1>7, ToolsAssumption DEF ToolsInv
<1>15. /\ Underway' /\ Kept' /\ Told'
       /\ \E e : /\ call' = [call EXCEPT ![d] = e]
                 /\ e.pc # "queued" /\ (e.pc = "asking" => e.req \notin Lookups)
  BY <1>3, <1>6, <1>8, <1>10, <1>12, <1>13, <1>14, ReadKeeps
<1>16. Catalogues'
  <2>1. \A x \in Lookups : cat'[x] = IF x = name THEN k ELSE cat[x]
    BY <1>6 DEF ToolsInv, Catalogues
  <2>2. cat' = [x \in Lookups |-> cat'[x]]
    BY <1>6 DEF ToolsInv, Catalogues
  <2>3. k.at <= now
    BY <1>7 DEF ToolsInv
  <2>4. \A x \in Lookups : /\ cat'[x].at \in Nat /\ cat'[x].at <= now
                           /\ AllExcused(cat'[x].heard)
    BY <1>8, <1>14, <2>1, <2>3 DEF ToolsInv, Catalogues
  <2> QED BY <2>2, <2>4 DEF Catalogues
<1>17. LoaderAlone'
  <2>1. \A x \in Lookups : x # name => cat'[x] = cat[x]
    BY <1>6 DEF ToolsInv, Catalogues
  <2>2. PICK e : /\ call' = [call EXCEPT ![d] = e]
                 /\ e.pc # "queued" /\ (e.pc = "asking" => e.req \notin Lookups)
    BY <1>15, Zenon
  <2> QED BY <1>3, <1>6, <2>1, <2>2, LoaderLeaves
<1> QED BY <1>15, <1>16, <1>17 DEF ToolsInv

\* An upstream answers a handler, well or not.
LEMMA HeardKeeps ==
  ASSUME ToolsInv, NEW d \in Callers, NEW r, call[d].pc = "asking",
         call[d].req \notin Lookups, Heard(d, r),
         UNCHANGED <<family, now, calls>>
  PROVE  ToolsInv'
<1>1. PICK c : c = call[d]
  OBVIOUS
<1>2. PICK req : req = c.req
  OBVIOUS
<1>3. /\ IsCall(c) /\ IsMem(c.mem) /\ c.want[1] \in Tools /\ req \in Asks(c.want[1])
      /\ AllExcused(c.heard) \/ Stranded(c.want[1], req, c.mem)
      /\ req \notin Lookups
  BY <1>1, <1>2, InTheLock DEF Waits, IsCall
<1>4. PICK b : b = [c EXCEPT !.heard = @ \cup Blame(req, r)]
  OBVIOUS
<1>5. /\ Settle(d, b, req, r) /\ cat' = cat /\ queue' = queue
  BY <1>1, <1>2, <1>4, Zenon DEF Heard
<1>6. /\ b.want = c.want /\ b.heard = c.heard \cup Blame(req, r)
      /\ b.mem = c.mem /\ b.from = c.from
  BY <1>3, <1>4 DEF IsCall, CallFields
<1>7. b = [x \in CallFields |-> b[x]]
  BY <1>3, <1>4 DEF IsCall, CallFields
<1>8. IsCall(b)
  BY <1>3, <1>6, <1>7 DEF IsCall
<1>9. PICK s : s = Handler(b.want[1], b.want[2], req, b.mem, r)
  OBVIOUS
<1>10. \/ AllExcused(b.heard)
       \/ s.to = "fail"
       \/ s.to = "ask" /\ Stranded(b.want[1], s.req, s.mem)
  <2>1. CASE Stranded(c.want[1], req, c.mem)
    BY <1>3, <1>6, <1>9, <2>1, StrandedFails
  <2>2. CASE r \in Faults /\ ~Excused(req, r)
    BY <1>3, <1>6, <1>9, <2>2, FaultFails
  <2>3. CASE AllExcused(c.heard) /\ (r \in Faults => Excused(req, r))
    BY <1>6, <2>3 DEF AllExcused, Blame
  <2> QED BY <1>3, <2>1, <2>2, <2>3
<1>11. req # "start"
  BY <1>3 DEF Asks, Single, Tools
<1>12. Reads(b.want[1]) = "none"
  BY <1>3, <1>6, ReadsItsCatalogue DEF Lookups
<1>13. Ready(b, req, r)
  BY <1>3, <1>6, <1>8, <1>9, <1>10, <1>12 DEF Ready
<1>14. /\ Underway' /\ Kept' /\ Told'
       /\ \E e : /\ call' = [call EXCEPT ![d] = e]
                 /\ e.pc # "idle" => s.to = "ask" /\ e.req = s.req /\ e.pc = "asking"
  BY <1>5, <1>9, <1>13, SettleKeeps
<1>15. PICK e : /\ call' = [call EXCEPT ![d] = e]
                /\ e.pc # "idle" => s.to = "ask" /\ e.req = s.req /\ e.pc = "asking"
  BY <1>14, Zenon
<1>16. s.to = "ask" => s.req \notin Lookups
  BY <1>3, <1>6, <1>9, <1>11, AsksItsOwn
<1>17. LoaderAlone'
  BY <1>5, <1>15, <1>16, LoaderStays
<1>18. Catalogues'
  BY <1>5 DEF ToolsInv, Catalogues
<1> QED BY <1>14, <1>17, <1>18 DEF ToolsInv

\* Time passes.
LEMMA TickKeeps ==
  ASSUME ToolsInv, Tick
  PROVE  ToolsInv'
<1>1. /\ now' = now + 1 /\ answer' = Silent
      /\ UNCHANGED <<family, call, cache, cat, queue>>
  BY DEF Tick
<1>2. now' \in Nat /\ family' \in Families
  BY <1>1 DEF ToolsInv
<1>3. Underway' /\ Told'
  BY <1>1 DEF ToolsInv, Underway, Told, Ok, Silent
<1>4. Catalogues'
  BY <1>1 DEF ToolsInv, Catalogues
<1>5. Kept'
  <2>1. \A p : Sound(p, now) => Sound(p, now')
    BY <1>1 DEF ToolsInv, Sound
  <2> QED BY <1>1, <2>1 DEF ToolsInv, Kept
<1>6. LoaderAlone'
  <2>1. ASSUME NEW x \in Lookups, ~Fresh(x) PROVE ~Fresh(x)'
    <3>1. cat[x].at \in Nat /\ CatalogTtl \in Nat /\ now \in Nat
      BY <2>1, ToolsAssumption DEF ToolsInv, Catalogues
    <3> QED BY <1>1, <2>1, <3>1 DEF Fresh
  <2> QED BY <1>1, <2>1 DEF ToolsInv, LoaderAlone, InLine, Loading
<1> QED BY <1>2, <1>3, <1>4, <1>5, <1>6 DEF ToolsInv

\* Every step keeps the invariant.
LEMMA StepKeeps == ToolsInv /\ [Next]_vars => ToolsInv'
<1>. SUFFICES ASSUME ToolsInv, [Next]_vars PROVE ToolsInv'
  OBVIOUS
<1>1. CASE Tick
  BY <1>1, TickKeeps
<1>2. ASSUME NEW d \in Callers, Dispatch(d) PROVE ToolsInv'
  BY <1>2, RefuseKeeps, HitKeeps, MissKeeps DEF Dispatch
<1>3. ASSUME NEW d \in Callers, Granted(d) PROVE ToolsInv'
  BY <1>3, GrantedKeeps
<1>4. ASSUME NEW d \in Callers, Answered(d) PROVE ToolsInv'
  <2>1. PICK r : Reply(d, r)
    BY <1>4 DEF Answered
  <2>2. call[d].pc = "asking" /\ UNCHANGED <<family, now, calls>>
    BY <2>1 DEF Reply
  <2>3. CASE call[d].req \in Lookups
    <3>1. Load(d, r)
      BY <2>1, <2>3 DEF Reply
    <3> QED BY <2>2, <2>3, <3>1, LoadFailsKeeps, NextPageKeeps, LoadEndsKeeps DEF Load
  <2>4. CASE call[d].req \notin Lookups
    <3>1. Heard(d, r)
      BY <2>1, <2>4 DEF Reply
    <3> QED BY <2>2, <2>4, <3>1, HeardKeeps
  <2> QED BY <2>3, <2>4
<1>5. CASE UNCHANGED vars
  BY <1>5 DEF vars, ToolsInv, Underway, Catalogues, Kept, Told, Ok, LoaderAlone,
     InLine, Loading, Fresh
<1> QED BY <1>1, <1>2, <1>3, <1>4, <1>5 DEF Next

-----------------------------------------------------------------------------
(***************************************************************************)
(* The theorems.                                                           *)
(***************************************************************************)

\* Results, calls under way and catalogues are always as they should be.
THEOREM Invariance == Spec => []ToolsInv
<1>1. Init => ToolsInv
  BY InitEstablishes
<1>2. ToolsInv /\ [Next]_vars => ToolsInv'
  BY StepKeeps
<1> QED BY <1>1, <1>2, PTL DEF Spec

\* However calls meet, no answer is older than its tool's results are kept, and
\* no row in it older than that and the catalogue's time together.
THEOREM AnswersAreYoung == Spec => []YoungEnough
<1>1. ToolsInv => YoungEnough
  <2>. SUFFICES ASSUME ToolsInv, Ok PROVE YoungEnough
    BY DEF YoungEnough
  <2>1. PICK p : p = answer.result
    OBVIOUS
  <2>2. PICK t : t = p.want[1]
    OBVIOUS
  <2>3. /\ p.want = answer.want /\ Sound(p, now) /\ now \in Nat
        /\ now <= p.made + Ttl[answer.want[1]]
    BY <2>1, Zenon DEF ToolsInv, Told
  <2>4. now <= p.made + Ttl[t]
    BY <2>2, <2>3
  <2>5. /\ t \in Tools /\ p.made \in Nat /\ p.from \in Nat
        /\ Reads(t) # "none" => p.made - p.from < CatalogTtl
    BY <2>2, <2>3 DEF Sound
  <2>6. Ttl[t] \in Nat /\ CatalogTtl \in Nat
    BY <2>5, ToolsAssumption
  <2>7. now - p.made <= Ttl[t]
    BY <2>3, <2>4, <2>5, <2>6
  <2>8. Reads(t) # "none" => now - p.from < Ttl[t] + CatalogTtl
    BY <2>3, <2>4, <2>5, <2>6
  <2> QED BY <2>1, <2>2, <2>7, <2>8 DEF YoungEnough
<1> QED BY <1>1, Invariance, PTL

\* Whoever waits for, shares or finds in the cache what others have asked for is
\* answered what was asked.
THEOREM AnswersTheQuestion == Spec => []AnswersItsQuestion
<1>1. ToolsInv => AnswersItsQuestion
  BY DEF ToolsInv, Told, AnswersItsQuestion
<1> QED BY <1>1, Invariance, PTL

\* No answer is made of a failure, except of those that the handlers take for
\* nothing found.
THEOREM NoAnswerOfAFailure == Spec => []FailureIsNoAnswer
<1>1. ToolsInv => FailureIsNoAnswer
  BY DEF ToolsInv, Told, Sound, AllExcused, FailureIsNoAnswer
<1> QED BY <1>1, Invariance, PTL

\* An empty catalogue of courts, pools or estates never serves those who waited
\* for it.
THEOREM EmptySeenFirstHand == Spec => []EmptyIsSeenFirstHand
<1>1. ToolsInv => EmptyIsSeenFirstHand
  BY DEF ToolsInv, Told, Sound, EmptyIsSeenFirstHand
<1> QED BY <1>1, Invariance, PTL

\* However many wait for a catalogue, it is loaded once while it is fresh.
THEOREM LoadedOnce == Spec => ReplacedOnlyWhenStale
<1>1. ToolsInv /\ [Next]_vars =>
        [\A c \in Lookups : cat'[c] # cat[c] => ~Fresh(c)]_vars
  <2>. SUFFICES ASSUME ToolsInv, Next, NEW c \in Lookups, cat'[c] # cat[c]
                PROVE  ~Fresh(c)
    OBVIOUS
  <2>1. PICK d \in Callers : Answered(d)
    BY DEF Next, Tick, Dispatch, Refuse, Hit, Miss, Granted
  <2>2. PICK r : Reply(d, r)
    BY <2>1 DEF Answered
  <2>3. call[d].pc = "asking" /\ call[d].req \in Lookups /\ LoadEnds(d, r)
    BY <2>2 DEF Reply, Load, LoadFails, NextPage, Heard
  <2>4. cat' = [cat EXCEPT ![call[d].req] =
                  [state |-> Loaded(call[d].req, call[d].mem, r), at |-> now,
                   heard |-> Blame(call[d].req, r)]]
    BY <2>3, Zenon DEF LoadEnds
  <2>5. c = call[d].req
    BY <2>3, <2>4 DEF ToolsInv, Catalogues
  <2> QED BY <2>3, <2>5, InTheLock
<1> QED BY <1>1, Invariance, PTL DEF Spec, ReplacedOnlyWhenStale

-----------------------------------------------------------------------------
(***************************************************************************)
(* The types.  On top of the invariant: who is in a queue is under way for *)
(* that catalogue, once, and only its head may be loading (InOrder), and   *)
(* every call under way is one of the family (Asked).                      *)
(***************************************************************************)

InOrder ==
  \A c \in Lookups : \A i \in 1 .. Len(queue[c]) :
    /\ call[queue[c][i]].req = c /\ call[queue[c][i]].pc # "idle"
    /\ i > 1 => call[queue[c][i]].pc = "queued"
    /\ \A j \in 1 .. Len(queue[c]) : queue[c][i] = queue[c][j] => i = j

Asked == \A d \in Callers : call[d].pc # "idle" => <<call[d].want, call[d].lang>> \in family

Said == answer.status \in {"none", "ok", "error"}

Stated == \A c \in Lookups : cat[c].state \in {"unloaded", "empty", "full"}

Counted == now \in 0 .. MaxTime /\ calls \in 0 .. MaxCalls

TypeInv == Counted /\ Said /\ Stated /\ Asked /\ InOrder

\* A call is out of every queue; a call is one of the family.
Off(e)      == e.pc = "idle" \/ (e.pc = "asking" /\ e.req \notin Lookups)
OfFamily(e) == e.pc # "idle" => <<e.want, e.lang>> \in family

\* What may happen to the caller d: it is out of every queue and stays out of
\* them, it joins one, the head of one leaves it, or goes on in it.
Aside(d, e) == /\ call[d].pc = "idle" \/ call[d].req \notin Lookups
               /\ queue' = queue
               /\ Off(e)

Joins(d, e) == /\ call[d].pc = "idle"
               /\ \E name \in Lookups :
                    /\ queue' = [queue EXCEPT ![name] = Append(@, d)]
                    /\ e.req = name
                    /\ e.pc = IF queue[name] = <<>> THEN "asking" ELSE "queued"

Leaves(d, e) == /\ \E name \in Lookups :
                     /\ queue[name] # <<>> /\ Head(queue[name]) = d
                     /\ queue' = [queue EXCEPT ![name] = Tail(@)]
                /\ Off(e)

GoesOn(d, e) == /\ \E name \in Lookups :
                     /\ queue[name] # <<>> /\ Head(queue[name]) = d
                     /\ e.req = name
                /\ queue' = queue
                /\ e.pc = "asking"

Moves(d, e) == /\ call' = [call EXCEPT ![d] = e]
               /\ OfFamily(e)
               /\ Aside(d, e) \/ Joins(d, e) \/ Leaves(d, e) \/ GoesOn(d, e)

\* Whatever it is, the queues stay in order.
LEMMA OrderStays ==
  ASSUME ToolsInv, InOrder, NEW d \in Callers, NEW e, Moves(d, e)
  PROVE  InOrder'
<1>1. \A f \in Callers : call'[f] = IF f = d THEN e ELSE call[f]
  BY DEF ToolsInv, Underway, Moves
<1>2. /\ queue = [c \in Lookups |-> queue[c]]
      /\ \A c \in Lookups : queue[c] \in Seq(Callers)
  BY DEF ToolsInv, LoaderAlone
<1>3. \A c \in Lookups : \A i \in 1 .. Len(queue[c]) :
        /\ queue[c][i] \in Callers
        /\ call[queue[c][i]].req = c /\ call[queue[c][i]].pc # "idle"
        /\ i > 1 => call[queue[c][i]].pc = "queued"
        /\ \A j \in 1 .. Len(queue[c]) : queue[c][i] = queue[c][j] => i = j
  BY <1>2 DEF InOrder
<1>4. CASE Aside(d, e)
  <2>1. \A c \in Lookups : \A i \in 1 .. Len(queue[c]) : queue[c][i] # d
    BY <1>3, <1>4 DEF Aside
  <2>2. \A c \in Lookups : \A i \in 1 .. Len(queue[c]) :
          call'[queue[c][i]] = call[queue[c][i]]
    BY <1>1, <1>3, <2>1
  <2>3. queue' = queue
    BY <1>4 DEF Aside
  <2>. QED  BY <1>3, <2>2, <2>3 DEF InOrder
<1>5. CASE Joins(d, e)
  <2>1. PICK name \in Lookups :
          /\ queue' = [queue EXCEPT ![name] = Append(@, d)]
          /\ e.req = name
          /\ e.pc = IF queue[name] = <<>> THEN "asking" ELSE "queued"
    BY <1>5 DEF Joins
  <2>2. \A c \in Lookups : queue'[c] = IF c = name THEN Append(queue[c], d) ELSE queue[c]
    BY <1>2, <2>1
  <2>3. \A c \in Lookups : \A i \in 1 .. Len(queue[c]) : queue[c][i] # d
    BY <1>3, <1>5 DEF Joins
  <2>4. \A c \in Lookups : \A i \in 1 .. Len(queue[c]) :
          call'[queue[c][i]] = call[queue[c][i]]
    BY <1>1, <1>3, <2>3
  <2>5. ASSUME NEW c \in Lookups, NEW i \in 1 .. Len(queue'[c])
        PROVE  /\ call'[queue'[c][i]].req = c /\ call'[queue'[c][i]].pc # "idle"
               /\ i > 1 => call'[queue'[c][i]].pc = "queued"
               /\ \A j \in 1 .. Len(queue'[c]) : queue'[c][i] = queue'[c][j] => i = j
    <3>1. CASE c # name
      BY <1>3, <2>2, <2>4, <2>5, <3>1
    <3>2. CASE c = name
      <4>1. PICK q \in Seq(Callers), n \in Nat : q = queue[name] /\ n = Len(q)
        BY <1>2
      <4>0. /\ Len(Append(q, d)) = n + 1
            /\ \A j \in 1 .. n : Append(q, d)[j] = q[j]
            /\ Append(q, d)[n + 1] = d
        BY <4>1
      <4>2. /\ queue'[c] = Append(q, d) /\ Len(Append(q, d)) = n + 1
            /\ \A j \in 1 .. n : Append(q, d)[j] = q[j]
            /\ Append(q, d)[n + 1] = d
        BY <2>2, <3>2, <4>0, <4>1, Zenon
      <4>3. PICK p : p = Append(q, d)
        OBVIOUS
      <4>4. /\ queue'[c] = p /\ Len(p) = n + 1 /\ p[n + 1] = d
            /\ \A j \in 1 .. n : p[j] = q[j] /\ q[j] # d
            /\ \A j, k \in 1 .. n : q[j] = q[k] => j = k
        BY <1>3, <2>3, <4>1, <4>2, <4>3
      <4>5. \A j \in 1 .. n : /\ call'[q[j]].req = name /\ call'[q[j]].pc # "idle"
                              /\ j > 1 => call'[q[j]].pc = "queued"
        BY <1>3, <2>4, <4>1
      <4>6. CASE i = n + 1
        <5>1. call'[d] = e
          BY <1>1
        <5>2. i > 1 => e.pc = "queued"
          <6>1. i > 1 => queue[name] # <<>>
            BY <4>1, <4>6
          <6>. QED  BY <2>1, <6>1
        <5>3. e.req = name /\ e.pc # "idle"
          BY <2>1
        <5>4. \A j \in 1 .. n + 1 : p[j] = d => j = n + 1
          BY <4>4
        <5>. QED  BY <3>2, <4>4, <4>6, <5>1, <5>2, <5>3, <5>4
      <4>7. CASE i # n + 1
        <5>1. i \in 1 .. n
          BY <2>5, <4>4, <4>7
        <5>2. \A j \in 1 .. n + 1 : p[i] = p[j] => i = j
          <6>1. TAKE j \in 1 .. n + 1
          <6>2. CASE j = n + 1
            BY <4>4, <5>1, <6>2
          <6>3. CASE j # n + 1
            BY <4>4, <5>1, <6>3
          <6>. QED  BY <6>2, <6>3
        <5>. QED  BY <3>2, <4>4, <4>5, <5>1, <5>2
      <4>. QED  BY <4>6, <4>7
    <3>. QED  BY <3>1, <3>2
  <2>. QED  BY <2>5 DEF InOrder
<1>6. CASE Leaves(d, e)
  <2>1. PICK name \in Lookups : /\ queue[name] # <<>> /\ Head(queue[name]) = d
                                /\ queue' = [queue EXCEPT ![name] = Tail(@)]
    BY <1>6 DEF Leaves
  <2>2. \A c \in Lookups : queue'[c] = IF c = name THEN Tail(queue[c]) ELSE queue[c]
    BY <1>2, <2>1
  <2>3. PICK q \in Seq(Callers) : q = queue[name]
    BY <1>2
  <2>4. PICK n \in Nat : n + 1 = Len(q)
    <3>1. Len(q) \in Nat /\ Len(q) # 0
      BY <2>1, <2>3
    <3>2. Len(q) - 1 \in Nat /\ (Len(q) - 1) + 1 = Len(q)
      BY <3>1
    <3>. QED  BY <3>2
  <2>5. q[1] = d
    BY <2>1, <2>3
  <2>6. PICK p \in Seq(Callers) : p = Tail(q)
    <3>1. q # <<>>
      BY <2>1, <2>3
    <3>2. Tail(q) \in Seq(Callers)
      BY <3>1
    <3>. QED  BY <3>2
  <2>7. Len(p) = n /\ \A i \in 1 .. n : p[i] = q[i + 1]
    BY <2>1, <2>3, <2>4, <2>6
  <2>8. \A i \in 1 .. n + 1 : /\ q[i] \in Callers
                              /\ call[q[i]].req = name /\ call[q[i]].pc # "idle"
                              /\ i > 1 => call[q[i]].pc = "queued"
                              /\ \A j \in 1 .. n + 1 : q[i] = q[j] => i = j
    BY <1>3, <2>3, <2>4
  <2>9. \A i \in 1 .. n : /\ i + 1 \in 1 .. n + 1 /\ i + 1 > 1 /\ 1 \in 1 .. n + 1
                          /\ i + 1 # 1
    OBVIOUS
  <2>10. \A i \in 1 .. n : q[i + 1] # d
    BY <2>5, <2>8, <2>9
  <2>11. \A i \in 1 .. n : /\ call'[p[i]].req = name /\ call'[p[i]].pc # "idle"
                           /\ call'[p[i]].pc = "queued"
                           /\ \A j \in 1 .. n : p[i] = p[j] => i = j
    <3>1. TAKE i \in 1 .. n
    <3>2. p[i] = q[i + 1] /\ q[i + 1] # d /\ q[i + 1] \in Callers /\ i + 1 \in 1 .. n + 1
      BY <2>7, <2>8, <2>9, <2>10
    <3>3. call'[p[i]] = call[q[i + 1]]
      BY <1>1, <3>2
    <3>4. /\ call[q[i + 1]].req = name /\ call[q[i + 1]].pc # "idle"
          /\ call[q[i + 1]].pc = "queued"
      BY <2>8, <2>9, <3>2
    <3>5. ASSUME NEW j \in 1 .. n, p[i] = p[j] PROVE i = j
      <4>1. q[i + 1] = q[j + 1] /\ j + 1 \in 1 .. n + 1
        BY <2>7, <3>2, <3>5
      <4>2. i + 1 = j + 1
        BY <2>8, <3>2, <4>1
      <4>. QED  BY <4>2
    <3>. QED  BY <3>3, <3>4, <3>5
  <2>12. ASSUME NEW c \in Lookups, NEW i \in 1 .. Len(queue'[c])
         PROVE  /\ call'[queue'[c][i]].req = c /\ call'[queue'[c][i]].pc # "idle"
                /\ i > 1 => call'[queue'[c][i]].pc = "queued"
                /\ \A j \in 1 .. Len(queue'[c]) : queue'[c][i] = queue'[c][j] => i = j
    <3>1. CASE c = name
      <4>1. queue'[c] = p
        BY <2>2, <2>3, <2>6, <3>1
      <4>. QED  BY <2>7, <2>11, <2>12, <3>1, <4>1
    <3>2. CASE c # name
      <4>1. call[d].req = name
        BY <2>5, <2>8
      <4>2. \A j \in 1 .. Len(queue[c]) : queue[c][j] # d
        BY <1>3, <3>2, <4>1
      <4>3. \A j \in 1 .. Len(queue[c]) : call'[queue[c][j]] = call[queue[c][j]]
        BY <1>1, <1>3, <4>2
      <4>. QED  BY <1>3, <2>2, <2>12, <3>2, <4>3
    <3>. QED  BY <3>1, <3>2
  <2>. QED  BY <2>12 DEF InOrder
<1>7. CASE GoesOn(d, e)
  <2>1. PICK name \in Lookups : /\ queue[name] # <<>> /\ Head(queue[name]) = d
                                /\ e.req = name
    BY <1>7 DEF GoesOn
  <2>2. PICK q \in Seq(Callers) : q = queue[name] /\ q # <<>> /\ q[1] = d
    BY <1>2, <2>1
  <2>3. 1 \in 1 .. Len(queue[name]) /\ queue[name][1] = d /\ call[d].req = name
    BY <1>3, <2>2
  <2>4. queue' = queue /\ e.pc = "asking"
    BY <1>7 DEF GoesOn
  <2>5. ASSUME NEW c \in Lookups, NEW i \in 1 .. Len(queue[c])
        PROVE  /\ call'[queue[c][i]].req = c /\ call'[queue[c][i]].pc # "idle"
               /\ i > 1 => call'[queue[c][i]].pc = "queued"
    <3>1. CASE queue[c][i] = d
      <4>1. c = name
        BY <1>3, <2>3, <3>1
      <4>2. i = 1
        BY <1>3, <2>3, <3>1, <4>1
      <4>. QED  BY <1>1, <2>1, <2>4, <3>1, <4>1, <4>2
    <3>2. CASE queue[c][i] # d
      BY <1>1, <1>3, <3>2
    <3>. QED  BY <3>1, <3>2
  <2>. QED  BY <1>3, <2>4, <2>5 DEF InOrder
<1>. QED  BY <1>4, <1>5, <1>6, <1>7 DEF Moves

\* Nobody but those of the family calls.
LEMMA MovesKeep ==
  ASSUME ToolsInv, Asked, InOrder, NEW d \in Callers, NEW e, Moves(d, e),
         family' = family
  PROVE  Asked' /\ InOrder'
<1>1. InOrder'
  BY OrderStays
<1>2. \A f \in Callers : call'[f] = IF f = d THEN e ELSE call[f]
  BY DEF ToolsInv, Underway, Moves
<1>3. Asked'
  BY <1>2 DEF Asked, Moves, OfFamily
<1>. QED  BY <1>1, <1>3

\* Settle leaves its caller out of every queue, and says what came of it.
LEMMA SettleMoves ==
  ASSUME NEW d \in Callers, NEW c, IsCall(c), <<c.want, c.lang>> \in family,
         NEW req, NEW r, NEW s,
         s = Handler(c.want[1], c.want[2], req, c.mem, r), Settle(d, c, req, r),
         s.to = "ask" => IsMem(s.mem) /\ s.req \notin Lookups
  PROVE  /\ \E e : call' = [call EXCEPT ![d] = e] /\ Off(e) /\ OfFamily(e)
         /\ Said'
<1>1. Off(Idle) /\ OfFamily(Idle)
  BY DEF Off, OfFamily, Idle
<1>2. answer' = Silent \/ answer' = Errs => Said'
  BY DEF Said, Silent, Errs
<1>a. CASE s.to = "ask"
  <2>1. PICK e : e = Asking(c, s.req, s.mem)
    OBVIOUS
  <2>2. call' = [call EXCEPT ![d] = e] /\ answer' = Silent
    BY <1>a, <2>1 DEF Settle
  <2>3. /\ e.pc = "asking" /\ e.req = s.req /\ e.want = c.want /\ e.lang = c.lang
    <3>1. IsMem(s.mem)
      BY <1>a
    <3>. QED  BY <2>1, <3>1, AskingCall
  <2>4. Off(e) /\ OfFamily(e)
    BY <1>a, <2>3 DEF Off, OfFamily
  <2>. QED  BY <1>2, <2>2, <2>4
<1>b. CASE s.to = "fail"
  <2>1. call' = [call EXCEPT ![d] = Idle] /\ answer' = Errs
    BY <1>b DEF Settle, End
  <2>. QED  BY <1>1, <1>2, <2>1
<1>c. CASE s.to = "ok"
  <2>1. PICK p : p = Payload(c, req, r, s.about)
    OBVIOUS
  <2>2. call' = [call EXCEPT ![d] = Idle] /\ answer' = Gets(c, FALSE, p)
    BY <1>c, <2>1 DEF Settle, End
  <2>3. Said'
    BY <2>2 DEF Said, Gets
  <2>. QED  BY <1>1, <2>2, <2>3
<1>. QED  BY <1>a, <1>b, <1>c DEF Settle

\* So does whoever reads a catalogue.
LEMMA ReadMoves ==
  ASSUME NEW d \in Callers, NEW c, IsCall(c), <<c.want, c.lang>> \in family,
         c.want[1] \in Tools, NEW name \in Lookups, name \in Asks(c.want[1]),
         NEW k, k.at \in Nat, Read(d, c, name, k)
  PROVE  /\ \E e : call' = [call EXCEPT ![d] = e] /\ Off(e) /\ OfFamily(e)
         /\ Said'
<1>1. PICK b : b = [c EXCEPT !.heard = @ \cup k.heard, !.from = k.at]
  OBVIOUS
<1>2. b.want = c.want /\ b.lang = c.lang /\ b.mem = c.mem /\ b.from = k.at
  BY <1>1 DEF IsCall, CallFields
<1>3. b = [x \in CallFields |-> b[x]]
  BY <1>1 DEF IsCall, CallFields
<1>4. IsCall(b) /\ IsMem(b.mem)
  BY <1>2, <1>3 DEF IsCall
<1>5. PICK s : s = Handler(b.want[1], b.want[2], name, b.mem, k.state)
  OBVIOUS
<1>6. s.to = "ask" => IsMem(s.mem) /\ s.req \notin Lookups
  <2>1. name # "start"
    BY DEF Lookups
  <2>. QED  BY <1>2, <1>4, <1>5, <2>1, AsksItsOwn
<1>7. Settle(d, b, name, k.state)
  BY <1>1 DEF Read
<1>8. <<b.want, b.lang>> \in family
  BY <1>2
<1>. QED  BY <1>4, <1>5, <1>6, <1>7, <1>8, SettleMoves

\* A call answered at once.
LEMMA AtOnceIsTyped ==
  ASSUME ToolsInv, TypeInv, NEW d \in Callers, NEW w, NEW l,
         Refuse(d, w, l) \/ Hit(d, w, l)
  PROVE  TypeInv'
<1>1. /\ UNCHANGED <<family, call, cat, queue, now>> /\ calls' = calls + 1
      /\ MayCall(d, w, l)
  BY DEF Refuse, Hit
<1>2. Stated' /\ Asked' /\ InOrder'
  BY <1>1 DEF TypeInv, Stated, Asked, InOrder
<1>3. Counted'
  BY <1>1, ToolsAssumption DEF TypeInv, Counted, MayCall
<1>4. Said'
  <2>1. CASE Refuse(d, w, l)
    BY <2>1 DEF Refuse, Said, Errs
  <2>2. CASE Hit(d, w, l)
    <3>1. PICK q : q = cache[Key(w)].result
      OBVIOUS
    <3>2. PICK c : c = Call(w, l)
      OBVIOUS
    <3>3. answer' = Gets(c, TRUE, q)
      BY <2>2, <3>1, <3>2 DEF Hit
    <3>. QED  BY <3>3 DEF Said, Gets
  <2>. QED  BY <2>1, <2>2
<1>. QED  BY <1>2, <1>3, <1>4 DEF TypeInv

\* A call that starts its handler.
LEMMA MissIsTyped ==
  ASSUME ToolsInv, TypeInv, NEW d \in Callers, NEW w, NEW l, Miss(d, w, l)
  PROVE  TypeInv'
<1>1. PICK c : c = Call(w, l)
  OBVIOUS
<1>2. /\ c.want = w /\ c.lang = l /\ c.mem = NoMem /\ IsCall(c) /\ w[1] \in Tools
  BY <1>1, CallIsFresh DEF Miss
<1>3. PICK s : s = Handler(w[1], w[2], "start", NoMem, "none")
  OBVIOUS
<1>4. /\ cat' = cat /\ now' = now /\ family' = family /\ calls' = calls + 1
      /\ MayCall(d, w, l)
  BY DEF Miss
<1>5. call[d].pc = "idle" /\ <<w, l>> \in family
  BY <1>4 DEF MayCall
<1>6. Stated' /\ Counted'
  BY <1>4, ToolsAssumption DEF TypeInv, Stated, Counted, MayCall
<1>7. IsMem(NoMem)
  BY DEF IsMem, MemFields, NoMem
<1>8. s.to = "ask" => s.req \in Asks(w[1]) /\ IsMem(s.mem)
  BY <1>2, <1>3, <1>7, AsksItsOwn
<1>9. ASSUME queue' = queue, Said',
             \E e : call' = [call EXCEPT ![d] = e] /\ Off(e) /\ OfFamily(e)
      PROVE  TypeInv'
  <2>1. PICK e : call' = [call EXCEPT ![d] = e] /\ Off(e) /\ OfFamily(e)
    BY <1>9, Zenon
  <2>2. Moves(d, e)
    BY <1>5, <1>9, <2>1 DEF Moves, Aside
  <2>3. Asked' /\ InOrder'
    BY <1>4, <2>2, MovesKeep DEF TypeInv
  <2>. QED  BY <1>6, <1>9, <2>3 DEF TypeInv
<1>a. CASE s.to = "ask" /\ s.req \in Lookups /\ Fresh(s.req)
  <2>1. Read(d, c, s.req, cat[s.req]) /\ queue' = queue
    BY <1>1, <1>3, <1>a DEF Miss
  <2>2. cat[s.req].at \in Nat
    BY <1>a DEF ToolsInv, Catalogues
  <2>3. /\ \E e : call' = [call EXCEPT ![d] = e] /\ Off(e) /\ OfFamily(e)
        /\ Said'
    BY <1>2, <1>5, <1>8, <1>a, <2>1, <2>2, ReadMoves
  <2>. QED  BY <1>9, <2>1, <2>3
<1>b. CASE s.to = "ask" /\ s.req \in Lookups /\ ~Fresh(s.req)
  <2>1. PICK e : e = [c EXCEPT !.req = s.req,
                               !.pc = IF queue[s.req] = <<>> THEN "asking" ELSE "queued"]
    OBVIOUS
  <2>2. /\ queue' = [queue EXCEPT ![s.req] = Append(@, d)]
        /\ call' = [call EXCEPT ![d] = e]
        /\ answer' = Silent
    BY <1>1, <1>3, <1>b, <2>1 DEF Miss
  <2>3. /\ e.want = w /\ e.lang = l /\ e.req = s.req
        /\ e.pc = IF queue[s.req] = <<>> THEN "asking" ELSE "queued"
    BY <1>2, <2>1 DEF IsCall, CallFields
  <2>4. OfFamily(e)
    BY <1>5, <2>3 DEF OfFamily
  <2>5. Joins(d, e)
    BY <1>5, <1>b, <2>2, <2>3 DEF Joins
  <2>6. Asked' /\ InOrder'
    BY <1>4, <2>2, <2>4, <2>5, MovesKeep DEF TypeInv, Moves
  <2>7. Said'
    BY <2>2 DEF Said, Silent
  <2>. QED  BY <1>6, <2>6, <2>7 DEF TypeInv
<1>c. CASE ~(s.to = "ask" /\ s.req \in Lookups)
  <2>1. Settle(d, c, "start", "none") /\ queue' = queue
    BY <1>1, <1>3, <1>c DEF Miss
  <2>2. s = Handler(c.want[1], c.want[2], "start", c.mem, "none")
    BY <1>2, <1>3
  <2>3. /\ \E e : call' = [call EXCEPT ![d] = e] /\ Off(e) /\ OfFamily(e)
        /\ Said'
    BY <1>2, <1>5, <1>8, <1>c, <2>1, <2>2, SettleMoves
  <2>. QED  BY <1>9, <2>1, <2>3
<1>. QED  BY <1>a, <1>b, <1>c

\* Who is in its lock is the head of its queue, and one of the family.
LEMMA InItsQueue ==
  ASSUME ToolsInv, TypeInv, NEW d \in Callers, call[d].pc \in {"queued", "asking"}
  PROVE  /\ IsCall(call[d]) /\ call[d].want[1] \in Tools
         /\ call[d].req \in Asks(call[d].want[1])
         /\ <<call[d].want, call[d].lang>> \in family
         /\ call[d].pc = "queued" =>
              call[d].req \in Lookups /\ queue[call[d].req] # <<>>
<1>1. IsCall(call[d]) /\ Waits(call[d])
  BY DEF ToolsInv, Underway
<1>2. <<call[d].want, call[d].lang>> \in family
  BY DEF TypeInv, Asked
<1>3. ASSUME call[d].pc = "queued"
      PROVE  call[d].req \in Lookups /\ queue[call[d].req] # <<>>
  <2>1. InLine(d)
    BY <1>3 DEF ToolsInv, LoaderAlone
  <2>2. queue[call[d].req] \in Seq(Callers)
    BY <2>1 DEF ToolsInv, LoaderAlone, InLine
  <2>. QED  BY <2>1, <2>2 DEF InLine
<1>. QED  BY <1>1, <1>2, <1>3 DEF Waits

\* A waiter gets the lock.
LEMMA GrantedIsTyped ==
  ASSUME ToolsInv, TypeInv, NEW d \in Callers, Granted(d)
  PROVE  TypeInv'
<1>1. PICK c : c = call[d]
  OBVIOUS
<1>2. PICK name : name = c.req
  OBVIOUS
<1>3. /\ c.pc = "queued" /\ Head(queue[name]) = d
      /\ cat' = cat /\ now' = now /\ family' = family /\ calls' = calls
  BY <1>1, <1>2 DEF Granted
<1>4. /\ IsCall(c) /\ c.want[1] \in Tools /\ name \in Asks(c.want[1])
      /\ <<c.want, c.lang>> \in family
      /\ name \in Lookups /\ queue[name] # <<>>
  BY <1>1, <1>2, <1>3, InItsQueue
<1>5. Stated' /\ Counted'
  BY <1>3 DEF TypeInv, Stated, Counted
<1>a. CASE Fresh(name)
  <2>1. Read(d, c, name, cat[name]) /\ queue' = [queue EXCEPT ![name] = Tail(@)]
    BY <1>1, <1>2, <1>a DEF Granted, Leave
  <2>2. cat[name].at \in Nat
    BY <1>4 DEF ToolsInv, Catalogues
  <2>3. /\ \E e : call' = [call EXCEPT ![d] = e] /\ Off(e) /\ OfFamily(e)
        /\ Said'
    BY <1>4, <2>1, <2>2, ReadMoves
  <2>4. PICK e : call' = [call EXCEPT ![d] = e] /\ Off(e) /\ OfFamily(e)
    BY <2>3, Zenon
  <2>5. Leaves(d, e)
    BY <1>3, <1>4, <2>1, <2>4 DEF Leaves
  <2>6. Asked' /\ InOrder'
    BY <1>3, <2>4, <2>5, MovesKeep DEF TypeInv, Moves
  <2>. QED  BY <1>5, <2>3, <2>6 DEF TypeInv
<1>b. CASE ~Fresh(name)
  <2>1. /\ call' = [call EXCEPT ![d].pc = "asking"]
        /\ answer' = Silent /\ queue' = queue
    BY <1>1, <1>2, <1>b DEF Granted
  <2>2. PICK e : e = [c EXCEPT !.pc = "asking"]
    OBVIOUS
  <2>3. e.pc = "asking" /\ e.req = name /\ e.want = c.want /\ e.lang = c.lang
    BY <1>2, <1>4, <2>2 DEF IsCall, CallFields
  <2>4. call' = [call EXCEPT ![d] = e]
    BY <1>1, <2>1, <2>2
  <2>5. OfFamily(e)
    BY <1>4, <2>3 DEF OfFamily
  <2>6. GoesOn(d, e)
    BY <1>3, <1>4, <2>1, <2>3 DEF GoesOn
  <2>7. Asked' /\ InOrder'
    BY <1>3, <2>4, <2>5, <2>6, MovesKeep DEF TypeInv, Moves
  <2>8. Said'
    BY <2>1 DEF Said, Silent
  <2>. QED  BY <1>5, <2>7, <2>8 DEF TypeInv
<1>. QED  BY <1>a, <1>b

\* A load fails.
LEMMA LoadFailsIsTyped ==
  ASSUME ToolsInv, TypeInv, NEW d \in Callers, NEW r, call[d].pc = "asking",
         call[d].req \in Lookups, LoadFails(d, r),
         UNCHANGED <<family, now, calls>>
  PROVE  TypeInv'
<1>1. /\ call' = [call EXCEPT ![d] = Idle] /\ answer' = Errs /\ cat' = cat
      /\ queue' = [queue EXCEPT ![call[d].req] = Tail(@)]
  BY DEF LoadFails, End, Leave
<1>2. Off(Idle) /\ OfFamily(Idle)
  BY DEF Off, OfFamily, Idle
<1>3. queue[call[d].req] # <<>> /\ Head(queue[call[d].req]) = d
  BY InTheLock
<1>4. Leaves(d, Idle)
  BY <1>1, <1>2, <1>3 DEF Leaves
<1>5. Asked' /\ InOrder'
  BY <1>1, <1>2, <1>4, MovesKeep DEF TypeInv, Moves
<1>6. Stated' /\ Counted' /\ Said'
  BY <1>1 DEF TypeInv, Stated, Counted, Said, Errs
<1>. QED  BY <1>5, <1>6 DEF TypeInv

\* A load asks for another page.
LEMMA NextPageIsTyped ==
  ASSUME ToolsInv, TypeInv, NEW d \in Callers, NEW r, call[d].pc = "asking",
         call[d].req \in Lookups, NextPage(d, r),
         UNCHANGED <<family, now, calls>>
  PROVE  TypeInv'
<1>1. /\ call' = [call EXCEPT ![d].mem.n = @ + InPage(r)] /\ answer' = Silent
      /\ cat' = cat /\ queue' = queue
  BY DEF NextPage
<1>2. IsCall(call[d]) /\ <<call[d].want, call[d].lang>> \in family
  BY InItsQueue
<1>3. queue[call[d].req] # <<>> /\ Head(queue[call[d].req]) = d
  BY InTheLock
<1>4. PICK m : m = [call[d].mem EXCEPT !.n = @ + InPage(r)]
  OBVIOUS
<1>5. PICK e : e = [call[d] EXCEPT !.mem = m]
  OBVIOUS
<1>6. /\ e.pc = "asking" /\ e.req = call[d].req /\ e.want = call[d].want
      /\ e.lang = call[d].lang
  BY <1>2, <1>5 DEF IsCall, CallFields
<1>7. call' = [call EXCEPT ![d] = e]
  BY <1>1, <1>4, <1>5
<1>8. OfFamily(e)
  BY <1>2, <1>6 DEF OfFamily
<1>9. GoesOn(d, e)
  BY <1>1, <1>3, <1>6 DEF GoesOn
<1>10. Asked' /\ InOrder'
  BY <1>7, <1>8, <1>9, MovesKeep DEF TypeInv, Moves
<1>11. Stated' /\ Counted' /\ Said'
  BY <1>1 DEF TypeInv, Stated, Counted, Said, Silent
<1>. QED  BY <1>10, <1>11 DEF TypeInv

\* A load ends.
LEMMA LoadEndsIsTyped ==
  ASSUME ToolsInv, TypeInv, NEW d \in Callers, NEW r, call[d].pc = "asking",
         call[d].req \in Lookups, LoadEnds(d, r),
         UNCHANGED <<family, now, calls>>
  PROVE  TypeInv'
<1>1. PICK name \in Lookups : name = call[d].req
  OBVIOUS
<1>2. PICK c : c = call[d]
  OBVIOUS
<1>3. /\ IsCall(c) /\ c.want[1] \in Tools /\ name \in Asks(c.want[1])
      /\ <<c.want, c.lang>> \in family
      /\ queue[name] # <<>> /\ Head(queue[name]) = d
  BY <1>1, <1>2, InItsQueue, InTheLock
<1>4. PICK k : k = [state |-> Loaded(name, c.mem, r), at |-> now, heard |-> Blame(name, r)]
  OBVIOUS
<1>5. PICK b : b = [c EXCEPT !.own = TRUE, !.mem = NoMem]
  OBVIOUS
<1>6. /\ Loaded(name, c.mem, r) \in {"full", "empty"}
      /\ cat' = [cat EXCEPT ![name] = k]
      /\ Read(d, b, name, k)
      /\ queue' = [queue EXCEPT ![name] = Tail(@)]
  BY <1>1, <1>2, <1>4, <1>5, Zenon DEF LoadEnds, Leave
<1>7. k.at = now /\ k.state = Loaded(name, c.mem, r)
  BY <1>4
<1>8. IsMem(NoMem)
  BY DEF IsMem, MemFields, NoMem
<1>9. b.mem = NoMem /\ b.want = c.want /\ b.lang = c.lang /\ b.from = c.from
  BY <1>3, <1>5 DEF IsCall, CallFields
<1>10. b = [x \in CallFields |-> b[x]]
  BY <1>3, <1>5 DEF IsCall, CallFields
<1>11. IsCall(b)
  BY <1>3, <1>8, <1>9, <1>10 DEF IsCall
<1>12. k.at \in Nat
  BY <1>7 DEF ToolsInv
<1>13. /\ \E e : call' = [call EXCEPT ![d] = e] /\ Off(e) /\ OfFamily(e)
       /\ Said'
  BY <1>3, <1>6, <1>9, <1>11, <1>12, ReadMoves
<1>14. PICK e : call' = [call EXCEPT ![d] = e] /\ Off(e) /\ OfFamily(e)
  BY <1>13, Zenon
<1>15. Leaves(d, e)
  BY <1>3, <1>6, <1>14 DEF Leaves
<1>16. Asked' /\ InOrder'
  BY <1>14, <1>15, MovesKeep DEF TypeInv, Moves
<1>17. Stated'
  <2>1. \A x \in Lookups : cat'[x] = IF x = name THEN k ELSE cat[x]
    BY <1>6 DEF ToolsInv, Catalogues
  <2>. QED  BY <1>6, <1>7, <2>1 DEF TypeInv, Stated
<1>18. Counted'
  BY DEF TypeInv, Counted
<1>. QED  BY <1>13, <1>16, <1>17, <1>18 DEF TypeInv

\* An upstream answers a handler.
LEMMA HeardIsTyped ==
  ASSUME ToolsInv, TypeInv, NEW d \in Callers, NEW r, call[d].pc = "asking",
         call[d].req \notin Lookups, Heard(d, r),
         UNCHANGED <<family, now, calls>>
  PROVE  TypeInv'
<1>1. PICK c : c = call[d]
  OBVIOUS
<1>2. PICK req : req = c.req
  OBVIOUS
<1>3. /\ IsCall(c) /\ c.want[1] \in Tools /\ req \in Asks(c.want[1])
      /\ <<c.want, c.lang>> \in family /\ req \notin Lookups
  BY <1>1, <1>2, InItsQueue
<1>4. PICK b : b = [c EXCEPT !.heard = @ \cup Blame(req, r)]
  OBVIOUS
<1>5. /\ Settle(d, b, req, r) /\ cat' = cat /\ queue' = queue
  BY <1>1, <1>2, <1>4, Zenon DEF Heard
<1>6. b.want = c.want /\ b.lang = c.lang /\ b.mem = c.mem /\ b.from = c.from
  BY <1>3, <1>4 DEF IsCall, CallFields
<1>7. b = [x \in CallFields |-> b[x]]
  BY <1>3, <1>4 DEF IsCall, CallFields
<1>8. IsCall(b) /\ IsMem(b.mem)
  BY <1>3, <1>6, <1>7 DEF IsCall
<1>9. PICK s : s = Handler(b.want[1], b.want[2], req, b.mem, r)
  OBVIOUS
<1>10. req # "start"
  BY <1>3 DEF Asks, Single, Tools
<1>11. s.to = "ask" => IsMem(s.mem) /\ s.req \notin Lookups
  BY <1>3, <1>6, <1>8, <1>9, <1>10, AsksItsOwn
<1>12. <<b.want, b.lang>> \in family
  BY <1>3, <1>6
<1>13. /\ \E e : call' = [call EXCEPT ![d] = e] /\ Off(e) /\ OfFamily(e)
       /\ Said'
  BY <1>5, <1>8, <1>9, <1>11, <1>12, SettleMoves
<1>14. PICK e : call' = [call EXCEPT ![d] = e] /\ Off(e) /\ OfFamily(e)
  BY <1>13, Zenon
<1>15. Aside(d, e)
  BY <1>1, <1>2, <1>3, <1>5, <1>14 DEF Aside
<1>16. Asked' /\ InOrder'
  BY <1>14, <1>15, MovesKeep DEF TypeInv, Moves
<1>17. Stated' /\ Counted'
  BY <1>5 DEF TypeInv, Stated, Counted
<1>. QED  BY <1>13, <1>16, <1>17 DEF TypeInv

\* Every step keeps the types.
LEMMA StepIsTyped == ToolsInv /\ TypeInv /\ [Next]_vars => TypeInv'
<1>. SUFFICES ASSUME ToolsInv, TypeInv, [Next]_vars PROVE TypeInv'
  OBVIOUS
<1>1. CASE Tick
  BY <1>1, ToolsAssumption DEF Tick, TypeInv, Counted, Said, Silent, Stated, Asked, InOrder
<1>2. ASSUME NEW d \in Callers, Dispatch(d) PROVE TypeInv'
  BY <1>2, AtOnceIsTyped, MissIsTyped DEF Dispatch
<1>3. ASSUME NEW d \in Callers, Granted(d) PROVE TypeInv'
  BY <1>3, GrantedIsTyped
<1>4. ASSUME NEW d \in Callers, Answered(d) PROVE TypeInv'
  <2>1. PICK r : Reply(d, r)
    BY <1>4 DEF Answered
  <2>2. call[d].pc = "asking" /\ UNCHANGED <<family, now, calls>>
    BY <2>1 DEF Reply
  <2>3. CASE call[d].req \in Lookups
    <3>1. Load(d, r)
      BY <2>1, <2>3 DEF Reply
    <3>. QED  BY <2>2, <2>3, <3>1, LoadFailsIsTyped, NextPageIsTyped, LoadEndsIsTyped
              DEF Load
  <2>4. CASE call[d].req \notin Lookups
    <3>1. Heard(d, r)
      BY <2>1, <2>4 DEF Reply
    <3>. QED  BY <2>2, <2>4, <3>1, HeardIsTyped
  <2>. QED  BY <2>3, <2>4
<1>5. CASE UNCHANGED vars
  BY <1>5 DEF vars, TypeInv, Counted, Said, Stated, Asked, InOrder
<1>. QED  BY <1>1, <1>2, <1>3, <1>4, <1>5 DEF Next

\* The types and the queues hold as declared: whoever waits for a catalogue is
\* in its queue, once, and nobody behind its head is loading.
THEOREM TypeCorrectness == Spec => []TypeOK
<1>1. Init => TypeInv
  BY ToolsAssumption DEF Init, TypeInv, Counted, Said, Silent, Stated, Asked,
     InOrder, Idle
<1>2. ToolsInv /\ TypeInv /\ [Next]_vars => TypeInv'
  BY StepIsTyped
<1>3. ToolsInv /\ TypeInv => TypeOK
  <2>. SUFFICES ASSUME ToolsInv, TypeInv PROVE TypeOK
    OBVIOUS
  <2>1. \A d \in Callers :
          /\ call[d].pc \in {"idle", "queued", "asking"}
          /\ call[d].pc = "queued" => \E i \in DOMAIN queue[call[d].req] :
                                        queue[call[d].req][i] = d
          /\ call[d].pc # "idle" => <<call[d].want, call[d].lang>> \in family
    <3>1. TAKE d \in Callers
    <3>2. call[d].pc \in {"idle", "queued", "asking"}
      BY DEF ToolsInv, Underway, Waits
    <3>3. call[d].pc # "idle" => <<call[d].want, call[d].lang>> \in family
      BY DEF TypeInv, Asked
    <3>4. ASSUME call[d].pc = "queued"
          PROVE  \E i \in DOMAIN queue[call[d].req] : queue[call[d].req][i] = d
      <4>1. InLine(d)
        BY <3>4 DEF ToolsInv, LoaderAlone
      <4>2. queue[call[d].req] \in Seq(Callers)
        BY <4>1 DEF ToolsInv, LoaderAlone, InLine
      <4>. QED  BY <4>1, <4>2 DEF InLine
    <3>. QED  BY <3>2, <3>3, <3>4
  <2>2. \A k \in DOMAIN cache : cache[k].expires \in Nat
    <3>1. TAKE k \in DOMAIN cache
    <3>2. /\ cache[k].result.want = k /\ Sound(cache[k].result, now)
          /\ cache[k].expires = cache[k].result.made + Ttl[k[1]]
      BY DEF ToolsInv, Kept
    <3>3. cache[k].result.made \in Nat /\ k[1] \in Tools
      BY <3>2 DEF Sound
    <3>4. Ttl[k[1]] \in Nat
      BY <3>3, ToolsAssumption
    <3>. QED  BY <3>2, <3>3, <3>4
  <2>3. \A c \in Lookups :
          /\ cat[c].state \in {"unloaded", "empty", "full"} /\ cat[c].at <= now
          /\ queue[c] \in Seq(Callers)
    BY DEF ToolsInv, TypeInv, Stated, Catalogues, LoaderAlone
  <2>4. \A c \in Lookups : DOMAIN queue[c] = 1 .. Len(queue[c])
    BY <2>3
  <2>5. \A c \in Lookups : \A i \in DOMAIN queue[c] :
          /\ call[queue[c][i]].req = c /\ call[queue[c][i]].pc # "idle"
          /\ i > 1 => call[queue[c][i]].pc = "queued"
          /\ \A j \in DOMAIN queue[c] : queue[c][i] = queue[c][j] => i = j
    BY <2>4 DEF TypeInv, InOrder
  <2>6. family \in Families /\ now \in 0 .. MaxTime /\ calls \in 0 .. MaxCalls
    BY DEF ToolsInv, TypeInv, Counted
  <2>. QED  BY <2>1, <2>2, <2>3, <2>5, <2>6 DEF TypeOK, TypeInv, Said
<1>. QED  BY <1>1, <1>2, <1>3, Invariance, PTL DEF Spec

=============================================================================
