------------------------------ MODULE Handlers ------------------------------
(***************************************************************************)
(* What the handlers of smcity/tools do with the answers of their          *)
(* upstreams.  A handler is a program over answers: between two awaits it  *)
(* is a function of what it waited for and what came, and it asks again,   *)
(* answers, or raises.  An answer is kept as far as the properties tell    *)
(* answers apart: how much was found, whether the rest was cut off, and    *)
(* between which places a route goes.                                      *)
(*                                                                         *)
(* Classes of answers an upstream gives:                                   *)
(*   down     no answer in time, or a status raise_for_status refuses      *)
(*   notjson  an answer that does not parse                                *)
(*   error    JSON that says error and holds no data                       *)
(*   absent   404, where the handler looks for it                          *)
(*   none     an answer that holds nothing                                 *)
(*   some     an answer that holds something; its last page                *)
(*   more     a full page, with exceededTransferLimit                      *)
(*   a place  a geocoder's candidate                                       *)
(***************************************************************************)
EXTENDS Naturals

CONSTANTS
  Places,   \* where a trip may start or end, at least 100 m from each other
  Page      \* features an ArcGIS server sends at a time

ASSUME HandlersAssumption ==
  /\ Places \cap {"down", "notjson", "error", "absent", "none", "some",
                  "more", "empty", "full", "lost"} = {}
  /\ Page \in Nat \ {0}

NoMem         == [n |-> 0, o |-> "lost"]
Ask(req, mem) == [to |-> "ask", req |-> req, mem |-> mem]
Answer(about) == [to |-> "ok", about |-> about]
Found(n)      == Answer([n |-> n, cut |-> FALSE, lost |-> FALSE, ends |-> <<>>])
Fail          == [to |-> "fail"]

Faults == {"down", "notjson", "error"}

\* Most handlers catch httpx.HTTPError and let the ValueError of a body that
\* does not parse through to the registry: the call fails either way.
Raises(r)  == r \in {"down", "notjson"}
HowMany(r) == IF r = "some" THEN 1 ELSE 0
Fetched(r) == IF Raises(r) THEN Fail ELSE Found(HowMany(r))

-----------------------------------------------------------------------------
(***************************************************************************)
(* One request each.                                                       *)
(***************************************************************************)

\* An error object has no temperature, humidity or rainfall: every field of
\* the answer is left out.
CurrentWeather(r) == Fetched(r)

\* Every member of the reply that is an object counts as a warning in force,
\* an error object included.
ActiveWarnings(r) == IF r = "error" THEN Found(1) ELSE Fetched(r)

NineDayForecast(r) == Fetched(r)

\* The feed is XML; one that does not parse is a feed without stations.
AirQuality(r) == IF r = "down" THEN Fail ELSE Found(HowMany(r))

AddressLookup(r) == Fetched(r)

MtrNextTrains(a, req, r) ==
  CASE req = "start" /\ a = "unknown" -> Fail
    [] req = "start" /\ a # "unknown" -> Ask("next trains", NoMem)
    [] OTHER         -> Fetched(r)

CitybusEta(r) == Fetched(r)

CitybusRouteStops(r) == Fetched(r)

\* The sidecar says error in a body of its own, and no itinerary is an answer
\* with a note.
MultimodalJourney(r) == IF r \in Faults THEN Fail ELSE Fetched(r)

\* The route's id, then the arrivals at the stop; a 404 there is no arrivals.
GmbEta(req, r) ==
  CASE req = "start"     -> Ask("gmb route", NoMem)
    [] req = "gmb route" -> IF r = "some" THEN Ask("gmb eta", NoMem) ELSE Fail
    [] OTHER             -> Fetched(r)

-----------------------------------------------------------------------------
(***************************************************************************)
(* Catalogues, and the handlers that look things up in them.  A handler    *)
(* asks for a catalogue and hears whether it is full or empty.             *)
(***************************************************************************)

\* _StopCatalog.ensure_loaded: what a load makes of what came.
StopsLoaded(r) == CASE Raises(r)  -> "failed"
                    [] r = "some" -> "full"
                    [] OTHER      -> "empty"

\* A name always matches some stop of a catalogue that has one.
KmbEta(req, r) ==
  CASE req = "start" -> Ask("stops", NoMem)
    [] req = "stops" -> IF r = "empty" THEN Fail ELSE Ask("stop eta", NoMem)
    [] OTHER         -> Fetched(r)

KmbRouteEta(req, r) ==
  CASE req = "start" -> Ask("stops", NoMem)
    [] req = "stops" -> IF r = "empty" THEN Fail ELSE Ask("route eta", NoMem)
    [] OTHER         -> Fetched(r)

\* The operators asked for: stations are a local table, and "mtr" looks in it
\* alone, "kmb" in the catalogue of stops alone, "both" in both.
Stations(a) == IF a = "kmb" THEN 0 ELSE 1
Stops(r)    == IF r = "full" THEN 1 ELSE 0

StopsNearPoint(a, req, r) ==
  IF req = "start"
  THEN IF a = "mtr" THEN Found(Stations(a)) ELSE Ask("stops", NoMem)
  ELSE Found(Stations(a) + Stops(r))

StopsByName(a, req, r) ==
  IF req = "start"
  THEN IF a = "mtr" THEN Found(Stations(a)) ELSE Ask("stops", NoMem)
  ELSE Found(Stations(a) + Stops(r))

\* Rows of a catalogue by district, by name or near a point: "here" has some,
\* "elsewhere" none.
Rows(a, r) == IF r = "full" /\ a = "here" THEN 1 ELSE 0

NearbyCourts(a, req, r) ==
  IF req = "start" THEN Ask("courts", NoMem) ELSE Found(Rows(a, r))

NearbyPools(a, req, r) ==
  IF req = "start" THEN Ask("pools", NoMem) ELSE Found(Rows(a, r))

\* Mutant: what cannot be fetched is no estates.
EstatesAnyway(r) == IF r = "some" THEN "full" ELSE "empty"

\* _load_estates, which catches the ValueError too.
EstatesLoaded(r) == CASE r \in {"down", "notjson"} -> "failed"
                      [] r = "some"                -> "full"
                      [] OTHER                     -> "empty"

EstateInfo(a, req, r) ==
  IF req = "start" THEN Ask("estates", NoMem) ELSE Found(Rows(a, r))

EstatesInDistrict(a, req, r) ==
  IF req = "start" THEN Ask("estates", NoMem) ELSE Found(Rows(a, r))

-----------------------------------------------------------------------------
(***************************************************************************)
(* Pages of an ArcGIS server.  Offsets follow what was sent.  The answer   *)
(* is cut at the limit, and says so ("cut") only when the server had       *)
(* another page: what it leaves out of the page that crosses the limit is  *)
(* not counted.  "lost" is whether anything was left out.                  *)
(***************************************************************************)

InPage(r) == IF r \in {"some", "more"} THEN Page ELSE 0

\* An empty page that still says exceededTransferLimit ends the query as an
\* empty last page does.
QueryFeatureServer(limit, req, mem, r) ==
  LET got == mem.n + InPage(r) IN
  CASE r \in Faults -> Fail
    [] r \notin Faults /\ got >= limit ->
         Answer([n |-> limit, cut |-> r = "more",
                 lost |-> r = "more" \/ got > limit, ends |-> <<>>])
    [] r = "more" /\ got < limit -> Ask(req, [mem EXCEPT !.n = got])
    [] OTHER -> Found(got)

\* The datasets registered are "one", "two" and "three", named for the limit
\* asked.
LimitOf(a) == CASE a = "one" -> 1 [] a = "two" -> 2 [] OTHER -> 3

CsdiQuery(a, req, mem, r) ==
  CASE req = "start" /\ a = "unknown" -> Fail
    [] req = "start" /\ a # "unknown" -> Ask("features", NoMem)
    [] OTHER         -> QueryFeatureServer(LimitOf(a), req, mem, r)

\* _load_courts and _load_pools go through it, and keep what it returns cut or
\* not; a load asks for at most LoadLimit features.
LoadLimit == 3
CourtsLoaded(req, mem, r) ==
  LET q == QueryFeatureServer(LoadLimit, req, mem, r) IN
  CASE q.to = "fail" -> "failed"
    [] q.to = "ask"  -> "more"
    [] OTHER         -> IF q.about.n = 0 THEN "empty" ELSE "full"
PoolsLoaded(req, mem, r) == CourtsLoaded(req, mem, r)

-----------------------------------------------------------------------------
(***************************************************************************)
(* Trips.  An end is a point, a point that is also named (pinned), the     *)
(* exact name of a station, another name, or missing.  A name is asked of  *)
(* Nominatim, then of ALS; a tier that fails has declined, except that ALS *)
(* lets a body that does not parse through.                                *)
(***************************************************************************)

Forms    == {"point", "pinned", "station", "name", "missing"}
Named(e) == e.form \in {"pinned", "station", "name"}
Given(e) == IF e.form \in {"point", "pinned", "station"} THEN e.at ELSE "lost"

Lost(r) == IF r \in Places THEN r ELSE "lost"

\* Both ends resolved, and not to one place under two names.
Arrive(a, o, d) ==
  IF "lost" \in {o, d} \/ (Named(a.o) /\ Named(a.d) /\ o = d) THEN Fail
  ELSE Answer([Found(1).about EXCEPT !.ends = <<o, d>>])

\* The destination is asked for even when the origin is lost already.
Depart(a, o) ==
  IF a.d.form = "name" THEN Ask("nominatim, to", [NoMem EXCEPT !.o = o])
                       ELSE Arrive(a, o, Given(a.d))

ResolvePair(a, req, mem, r) ==
  CASE req = "start" -> IF a.o.form = "name" THEN Ask("nominatim, from", NoMem)
                                             ELSE Depart(a, Given(a.o))
    [] req = "nominatim, from" -> IF r \in Places THEN Depart(a, r)
                                                  ELSE Ask("als, from", NoMem)
    [] req = "als, from" -> IF r = "notjson" THEN Fail ELSE Depart(a, Lost(r))
    [] req = "nominatim, to" -> IF r \in Places THEN Arrive(a, mem.o, r)
                                                ELSE Ask("als, to", mem)
    [] OTHER -> IF r = "notjson" THEN Fail ELSE Arrive(a, mem.o, Lost(r))

WalkingRoute(a, req, mem, r) == ResolvePair(a, req, mem, r)

\* The legs are added by the planner, which asks nobody.
PlanJourney(a, req, mem, r) == ResolvePair(a, req, mem, r)

-----------------------------------------------------------------------------
(***************************************************************************)
(* The registered tools, and what their specs say of them.                 *)
(***************************************************************************)

Tools == {"weather", "warnings", "forecast", "aqhi", "address", "mtr",
          "citybus eta", "citybus stops", "multimodal", "gmb", "kmb eta",
          "kmb route eta", "near point", "by name", "courts", "pools",
          "estate", "estates", "csdi", "walk", "journey"}

Lookups == {"stops", "courts", "pools", "estates"}

Loaded(c, mem, r) ==
  CASE c = "stops"   -> StopsLoaded(r)
    [] c = "courts"  -> CourtsLoaded(c, mem, r)
    [] c = "pools"   -> PoolsLoaded(c, mem, r)
    [] c = "estates" -> EstatesLoaded(r)

Single(t) == CASE t = "weather"       -> "rhrread"
               [] t = "warnings"      -> "warnsum"
               [] t = "forecast"      -> "fnd"
               [] t = "aqhi"          -> "feed"
               [] t = "address"       -> "address"
               [] t = "citybus eta"   -> "citybus eta"
               [] t = "citybus stops" -> "citybus stops"
               [] t = "multimodal"    -> "plan"

Handler(t, a, req, mem, r) ==
  CASE t = "mtr"           -> MtrNextTrains(a, req, r)
    [] t = "gmb"           -> GmbEta(req, r)
    [] t = "kmb eta"       -> KmbEta(req, r)
    [] t = "kmb route eta" -> KmbRouteEta(req, r)
    [] t = "near point"    -> StopsNearPoint(a, req, r)
    [] t = "by name"       -> StopsByName(a, req, r)
    [] t = "courts"        -> NearbyCourts(a, req, r)
    [] t = "pools"         -> NearbyPools(a, req, r)
    [] t = "estate"        -> EstateInfo(a, req, r)
    [] t = "estates"       -> EstatesInDistrict(a, req, r)
    [] t = "csdi"          -> CsdiQuery(a, req, mem, r)
    [] t = "walk"          -> WalkingRoute(a, req, mem, r)
    [] t = "journey"       -> PlanJourney(a, req, mem, r)
    [] OTHER -> IF req = "start" THEN Ask(Single(t), NoMem) ELSE
         CASE t = "weather"       -> CurrentWeather(r)
           [] t = "warnings"      -> ActiveWarnings(r)
           [] t = "forecast"      -> NineDayForecast(r)
           [] t = "aqhi"          -> AirQuality(r)
           [] t = "address"       -> AddressLookup(r)
           [] t = "citybus eta"   -> CitybusEta(r)
           [] t = "citybus stops" -> CitybusRouteStops(r)
           [] t = "multimodal"    -> MultimodalJourney(r)

\* What may come back.
Geocoded(req) == req \in {"nominatim, from", "nominatim, to",
                          "als, from", "als, to"}
Responses(req) ==
  Faults \cup
  (IF Geocoded(req) THEN {"none"} \cup Places ELSE {"none", "some"}) \cup
  (IF req \in {"courts", "pools", "features"} THEN {"more"} ELSE {}) \cup
  (IF req = "gmb eta" THEN {"absent"} ELSE {})

\* Requests that carry the language of the query.
Spoken == {"rhrread", "warnsum", "fnd", "next trains", "address"}

=============================================================================
