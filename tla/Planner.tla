------------------------------- MODULE Planner ------------------------------
(***************************************************************************)
(* transport.plan_simple_route (smcity/tools/transport_planner.py) and the *)
(* comparison of walking and the MTR in transport.plan_journey             *)
(* (transport_simple_modes.py): the stations of the two ends, the search   *)
(* for the cheapest way between them, one entry of the heap a step, and    *)
(* the directions made of what it finds.                                   *)
(*                                                                         *)
(* Distances are given as numbers of metres, of no two stations the same.  *)
(***************************************************************************)
EXTENDS Integers, Sequences, FiniteSets, FiniteSetsExt, SequencesExt

CONSTANTS
  Networks,   \* what mtr_lines.json may say: the runs of stations of each line
  Spots,      \* points a trip may start or end at
  Metres,     \* from a spot to each station that has coordinates
  Apart,      \* from one spot to another
  Fuzzy       \* what a name resembles: a station, or none

NoStation == "no station"
NoName    == "no name"
NoSpot    == "no spot"
NoLine    == "no line"

Stations == UNION {DOMAIN Metres[p] : p \in Spots}

ASSUME PlannerAssumption ==
  /\ NoSpot \notin Spots
  /\ Metres \in [Spots -> [Stations -> Nat]]
  /\ Apart \in [Spots -> [Spots -> Nat]]
  /\ \A n \in Networks : NoLine \notin DOMAIN n
  /\ NoName \notin DOMAIN Fuzzy \cup Stations
  /\ \A name \in DOMAIN Fuzzy : Fuzzy[name] \in Stations \cup {NoStation}

-----------------------------------------------------------------------------
(***************************************************************************)
(* The graph: neighbours on a run of a line, branches included, are a hop  *)
(* apart in both directions.                                               *)
(***************************************************************************)

Hop(a, b, l) == [from |-> a, to |-> b, line |-> l]

Hops(net) ==
  UNION {UNION {{Hop(r[i], r[i + 1], l) : i \in 1 .. Len(r) - 1} \cup
                {Hop(r[i + 1], r[i], l) : i \in 1 .. Len(r) - 1} : r \in net[l]} :
         l \in DOMAIN net}

Adjacency(net, s) == {h \in Hops(net) : h.from = s}

InterstationMin       == 2
InterchangePenaltyMin == 5
MaxWalkToMtr          == 1500

\* The network of the code is a table in a file.
ASSUME NetworkAssumption ==
  \A n \in Networks : IsFiniteSet(Hops(n))

-----------------------------------------------------------------------------
(***************************************************************************)
(* The two ends.                                                           *)
(***************************************************************************)

ResolveStation(name) ==
  CASE name = NoName      -> NoStation
    [] name \in Stations  -> name
    [] name \notin Stations \cup {NoName} -> Fuzzy[name]

NearestMtrStation(p) ==
  LET near == {s \in Stations : Metres[p][s] < MaxWalkToMtr} IN
  IF near = {} THEN NoStation
  ELSE CHOOSE s \in near : \A o \in near : Metres[p][s] <= Metres[p][o]

\* An end is a name, a point, both or neither; a name comes first, and a point
\* given besides is where the walk starts.
Ends == [name : DOMAIN Fuzzy \cup Stations \cup {NoName}, spot : Spots \cup {NoSpot}]

StationAt(end) ==
  LET named == ResolveStation(end.name) IN
  IF named # NoStation \/ end.spot = NoSpot THEN named
  ELSE NearestMtrStation(end.spot)

WalkTo(end) == IF end.spot = NoSpot THEN 0 ELSE Metres[end.spot][StationAt(end)]

-----------------------------------------------------------------------------
(***************************************************************************)
(* Directions, from the stations of a path and the line each was reached   *)
(* on.                                                                     *)
(***************************************************************************)

Leg(kind, from, to, line, min, stations) ==
  [kind |-> kind, from |-> from, to |-> to, line |-> line, min |-> min,
   stations |-> stations]

\* round(), which takes the even one of two that are as near.
RoundHalfEven(a, b) ==
  LET q == a \div b
      r == 2 * (a % b) IN
  IF r < b \/ (r = b /\ q % 2 = 0) THEN q ELSE q + 1

\* Minutes on foot, at so many metres a minute.
Minutes(m, pace) == LET w == RoundHalfEven(m, pace) IN IF w < 1 THEN 1 ELSE w

\* To and from a station, 1.3 metres a second.
WalkMin(m) == Minutes(m, 78)

WalkLeg(m, from, to) ==
  IF m > 30 THEN <<Leg("walk", from, to, NoLine, WalkMin(m), <<>>)>> ELSE <<>>

\* _emit_ride: the run from the a-th station of a path to the b-th.
RideLeg(path, a, b) ==
  Leg("ride", path[a].at, path[b].at, path[b].line, (b - a) * InterstationMin,
      [k \in 1 .. b - a + 1 |-> path[a + k - 1].at])

BoardLeg(path, a) == Leg("board", path[a].at, NoStation, path[a + 1].line, 0, <<>>)

\* The run in hand, if there is one, ends at the b-th station.
EndRun(path, told, b) ==
  IF told.run = 0 THEN told.legs ELSE Append(told.legs, RideLeg(path, told.run, b))

\* A step of the loop over a path: where the line changes, the first boarding
\* included, one run ends and the next starts at the station before.
Tell(path, told, i) ==
  IF path[i].line = path[i - 1].line THEN told
  ELSE [legs |-> Append(EndRun(path, told, i - 1), BoardLeg(path, i - 1)), run |-> i - 1]

Told(job, path) ==
  LET loop[i \in 1 .. Len(path)] ==
        IF i = 1
        THEN [legs |-> WalkLeg(job.walk_from, "(origin)", job.from), run |-> 0]
        ELSE Tell(path, loop[i - 1], i)
  IN  loop[Len(path)]

Legs(job, path) ==
  EndRun(path, Told(job, path), Len(path))
    \o <<Leg("alight", NoStation, job.to, NoLine, 0, <<>>)>>
    \o WalkLeg(job.walk_to, job.to, "(destination)")

IsRide(leg) == leg.kind = "ride"

\* The legs that are rides, in their order.
Rides(legs) ==
  LET upto[i \in 0 .. Len(legs)] ==
        IF i = 0 THEN <<>>
        ELSE IF IsRide(legs[i]) THEN Append(upto[i - 1], legs[i]) ELSE upto[i - 1]
  IN  upto[Len(legs)]

\* The line of the last leg before the i-th that has one.
LastLine(legs, i) ==
  LET lined == {k \in 1 .. i - 1 : legs[k].line # NoLine} IN
  IF lined = {} THEN NoLine ELSE legs[Max(lined)].line

\* The accounting counts a change at each boarding of another line than that.
Changeovers(legs) ==
  {i \in DOMAIN legs : /\ legs[i].kind = "board"
                       /\ LastLine(legs, i) \notin {NoLine, legs[i].line}}

TotalMin(legs) ==
  SumFunction([i \in DOMAIN legs |-> legs[i].min])
  + InterchangePenaltyMin * Cardinality(Changeovers(legs))

NoPlan         == [ok |-> FALSE, reason |-> "none", legs |-> <<>>, total |-> 0]
Refused(why)   == [NoPlan EXCEPT !.reason = why]
Route(job, path) ==
  LET legs == Legs(job, path) IN
  [ok |-> TRUE, reason |-> "none", legs |-> legs, total |-> TotalMin(legs)]

-----------------------------------------------------------------------------
(***************************************************************************)
(* The search.                                                             *)
(***************************************************************************)

VARIABLES
  net,        \* the network in service
  job,        \* the stations to join, and how far the two walks are
  frontier,   \* the heap
  seen,       \* station and line in -> the least cost they were pushed with
  plan,       \* what the handler returns
  search      \* "idle", "running" or "done"

plannerVars == <<net, job, frontier, seen, plan, search>>

NoJob == [from |-> NoStation, to |-> NoStation, walk_from |-> 0, walk_to |-> 0]

PlannerInit ==
  /\ net \in Networks
  /\ job = NoJob
  /\ frontier = {}
  /\ seen = <<>>
  /\ plan = NoPlan
  /\ search = "idle"

At(s, l)           == [at |-> s, line |-> l]
Entry(cost, path)  == [cost |-> cost, path |-> path]
Reached(e)         == Last(e.path)

\* What the handler says before it searches: which end is missing or too far,
\* the origin first, that the stations are one, or that a line serves neither.
Begin(from, to) ==
  LET src == StationAt(from)
      dst == StationAt(to)
      why == CASE src = NoStation -> from.spot
               [] OTHER           -> to.spot
  IN
  /\ search = "idle"
  /\ UNCHANGED net
  /\ IF NoStation \in {src, dst}
     THEN /\ plan' = Refused(IF why = NoSpot THEN "needed" ELSE "too far")
          /\ search' = "done"
          /\ UNCHANGED <<job, frontier, seen>>
     ELSE /\ job' = [from |-> src, to |-> dst, walk_from |-> WalkTo(from),
                     walk_to |-> WalkTo(to)]
          /\ CASE src = dst ->
                    /\ plan' = Route(job', <<At(src, NoLine)>>)
                    /\ search' = "done"
                    /\ UNCHANGED <<frontier, seen>>
               [] src # dst /\ {} \in {Adjacency(net, src), Adjacency(net, dst)} ->
                    /\ plan' = Refused("no path")
                    /\ search' = "done"
                    /\ UNCHANGED <<frontier, seen>>
               [] OTHER ->
                    /\ frontier' = {Entry(0, <<At(src, NoLine)>>)}
                    /\ seen' = [x \in {At(src, NoLine)} |-> 0]
                    /\ search' = "running"
                    /\ UNCHANGED plan

Step(line_in, line_out) ==
  InterstationMin +
    (IF line_in \notin {NoLine, line_out} THEN InterchangePenaltyMin ELSE 0)

Successors(e) ==
  {Entry(e.cost + Step(Reached(e).line, h.line), Append(e.path, At(h.to, h.line))) :
     h \in Adjacency(net, Reached(e).at)}

\* Mutant: a station is reached once, whatever line it is reached on.
FreshAtStation(e) ==
  {n \in Successors(e) : \A x \in DOMAIN seen : x.at # Reached(n).at}

Fresh(e) ==
  {n \in Successors(e) :
     Reached(n) \in DOMAIN seen => seen[Reached(n)] > n.cost}

Cheapest(e) == \A o \in frontier : e.cost <= o.cost

\* An entry of the least cost is popped; of several the heap takes the one
\* whose station code sorts first, here any.
Pop(e) ==
  /\ search = "running"
  /\ Cheapest(e)
  /\ IF Reached(e).at = job.to
     THEN /\ plan' = Route(job, e.path)
          /\ search' = "done"
          /\ UNCHANGED <<frontier, seen>>
     ELSE /\ frontier' = (frontier \ {e}) \cup Fresh(e)
          /\ seen' = [x \in DOMAIN seen \cup {Reached(n) : n \in Fresh(e)} |->
                        IF \E n \in Fresh(e) : Reached(n) = x
                        THEN (CHOOSE n \in Fresh(e) : Reached(n) = x).cost
                        ELSE seen[x]]
          /\ UNCHANGED <<plan, search>>
  /\ UNCHANGED <<net, job>>

\* The heap is empty.
Exhausted ==
  /\ search = "running"
  /\ frontier = {}
  /\ plan' = Refused("no path")
  /\ search' = "done"
  /\ UNCHANGED <<net, job, frontier, seen>>

Searching == Exhausted \/ \E e \in frontier : Pop(e)

\* What was local to the call is gone when it has returned.
Returned ==
  /\ job' = NoJob
  /\ frontier' = {}
  /\ seen' = <<>>
  /\ plan' = NoPlan
  /\ search' = "idle"
  /\ UNCHANGED net

-----------------------------------------------------------------------------
(***************************************************************************)
(* What plan_journey makes of it.                                          *)
(***************************************************************************)

\* Mutant: walks are not left out.
AllNamed(legs, side) == {i \in DOMAIN legs : legs[i][side] # NoStation}

\* The legs that name a station of the network at that side: a walk names
\* "(origin)" or "(destination)" too, and is left out.
StationsNamed(legs, side) ==
  {i \in DOMAIN legs : legs[i].kind # "walk" /\ legs[i][side] # NoStation}

FirstNamedStation(legs) ==
  LET named == StationsNamed(legs, "from") IN
  IF named = {} THEN NoStation ELSE legs[Min(named)].from

LastNamedStation(legs) ==
  LET named == StationsNamed(legs, "to") IN
  IF named = {} THEN NoStation ELSE legs[Max(named)].to

NoOption == [min |-> 0, from |-> NoStation, to |-> NoStation, lines |-> {},
             note |-> "none"]

\* _inline_mtr_leg, once the plan is there.
MtrOption(p) ==
  IF ~p.ok THEN [NoOption EXCEPT !.note = p.reason]
  ELSE [min |-> p.total, from |-> FirstNamedStation(p.legs),
        to |-> LastNamedStation(p.legs), lines |-> {l.line : l \in Range(Rides(p.legs))},
        note |-> "summary"]

\* Two named ends so near each other are taken for a geocoder's mistake.
Collide(o, d)  == Apart[o][d] < 100

\* Under 600 m the MTR is a remark, and nothing is planned.
TooClose(o, d) == Apart[o][d] < 600
CloseOption    == [NoOption EXCEPT !.note = "walk"]

\* All the way, 1.2 metres a second.
WalkOption(o, d)  == [NoOption EXCEPT !.min = Minutes(Apart[o][d], 72)]
Recommends(o, d)  == IF Apart[o][d] < 800 THEN "walk" ELSE "mtr"

=============================================================================
