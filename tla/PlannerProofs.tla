---------------------------- MODULE PlannerProofs ---------------------------
(***************************************************************************)
(* Proof that the search for a route (_shortest_path) finds the cheapest   *)
(* one, for every network: against every way through it, those that come   *)
(* to a station twice included; and that the directions made of it         *)
(* (_handler) lead from one end to the other and state what it costs.      *)
(***************************************************************************)
EXTENDS QuestionProperties, SetFacts, SequenceTheorems, TLAPS

-----------------------------------------------------------------------------
(***************************************************************************)
(* Ways through a network, from a station, and what they cost.             *)
(***************************************************************************)

Nodes(g, s) == {At(h.to, h.line) : h \in Hops(g)} \cup {At(s, NoLine)}

Follows(g, x, y) == \E h \in Adjacency(g, x.at) : y = At(h.to, h.line)

Way(g, s, p) ==
  /\ p \in Seq(Nodes(g, s)) /\ Len(p) > 0
  /\ p[1] = At(s, NoLine)
  /\ \A i \in 1 .. Len(p) - 1 : Follows(g, p[i], p[i + 1])

\* The changes of line, and the price, of the first i stations of a way.
Changes(p, i) == {k \in 3 .. i : p[k].line # p[k - 1].line}
Toll(p, i)    == 2 * (i - 1) + 5 * Cardinality(Changes(p, i))

\* A hop is of a line of the network, and can be taken back.
LEMMA HopIs ==
  ASSUME NEW g, NEW h \in Hops(g)
  PROVE  /\ h.line \in DOMAIN g /\ h = Hop(h.from, h.to, h.line)
         /\ \E k \in Hops(g) : k.from = h.to /\ k.to = h.from /\ k.line = h.line
<1>. DEFINE Both(r, l) == {Hop(r[i], r[i + 1], l) : i \in 1 .. Len(r) - 1} \cup
                          {Hop(r[i + 1], r[i], l) : i \in 1 .. Len(r) - 1}
            Lines      == {UNION {Both(r, l) : r \in g[l]} : l \in DOMAIN g}
<1>1. Hops(g) = UNION Lines
  BY Zenon DEF Hops
<1>2. PICK l \in DOMAIN g : h \in UNION {Both(r, l) : r \in g[l]}
  BY <1>1
<1>3. PICK r \in g[l] : h \in Both(r, l)
  BY <1>2
<1>4. Both(r, l) \subseteq Hops(g)
  <2>1. Both(r, l) \subseteq UNION {Both(x, l) : x \in g[l]}
    OBVIOUS
  <2>2. UNION {Both(x, l) : x \in g[l]} \in Lines
    OBVIOUS
  <2>. HIDE DEF Lines, Both
  <2>. QED  BY <1>1, <2>1, <2>2
<1>5. PICK i \in 1 .. Len(r) - 1 : h = Hop(r[i], r[i + 1], l) \/ h = Hop(r[i + 1], r[i], l)
  BY <1>3
<1>6. Hop(r[i], r[i + 1], l) \in Hops(g) /\ Hop(r[i + 1], r[i], l) \in Hops(g)
  BY <1>4
<1>7. \A a, b : Hop(a, b, l).from = a /\ Hop(a, b, l).to = b /\ Hop(a, b, l).line = l
  BY DEF Hop
<1>8. h = Hop(h.from, h.to, h.line)
  BY <1>5, <1>7
<1>. QED  BY <1>5, <1>6, <1>7, <1>8

\* The fields of a node.
LEMMA AtIs == \A a, l : At(a, l).at = a /\ At(a, l).line = l
BY DEF At

\* A price is a number, and the first station is free.
LEMMA TollIs ==
  ASSUME NEW p, NEW i \in Nat \ {0}
  PROVE  /\ IsFiniteSet(Changes(p, i)) /\ Cardinality(Changes(p, i)) \in Nat
         /\ Toll(p, i) \in Nat
         /\ i < 3 => Changes(p, i) = {} /\ Toll(p, i) = 2 * (i - 1)
<1>1. Changes(p, i) \in SUBSET (1 .. i)
  BY DEF Changes
<1>2. IsFiniteSet(Changes(p, i)) /\ Cardinality(Changes(p, i)) \in 0 .. i
  BY <1>1, PartOfInterval
<1>3. i < 3 => Changes(p, i) = {}
  BY DEF Changes
<1>. QED  BY <1>2, <1>3, FS_EmptySet DEF Toll

\* Going on costs more.
LEMMA TollGrows ==
  ASSUME NEW p, NEW i \in Nat \ {0}, NEW j \in Nat \ {0}, i <= j
  PROVE  Toll(p, i) <= Toll(p, j)
<1>1. Changes(p, i) \in SUBSET Changes(p, j)
  BY DEF Changes
<1>2. PICK a \in Nat, b \in Nat : /\ a = Cardinality(Changes(p, i))
                                  /\ b = Cardinality(Changes(p, j))
  BY TollIs
<1>3. a <= b
  BY <1>1, <1>2, TollIs, FS_Subset
<1>. QED  BY <1>2, <1>3 DEF Toll

\* A step along a way costs what the search says of it.
LEMMA TollStep ==
  ASSUME NEW g \in Networks, NEW s, NEW p, Way(g, s, p), NEW i \in 1 .. Len(p) - 1
  PROVE  Toll(p, i + 1) = Toll(p, i) + Step(p[i].line, p[i + 1].line)
<1>1. CASE i = 1
  <2>1. p[1].line = NoLine
    BY AtIs DEF Way
  <2>2. Step(p[1].line, p[2].line) = 2
    BY <2>1 DEF Step, InterstationMin
  <2>3. Toll(p, 1) = 0 /\ Toll(p, 2) = 2
    BY TollIs
  <2>. QED  BY <1>1, <2>2, <2>3
<1>2. CASE i # 1
  <2>1. i \in Nat \ {0} /\ i - 1 \in 1 .. Len(p) - 1 /\ i >= 2
    BY <1>2
  <2>2. Follows(g, p[i - 1], p[(i - 1) + 1]) /\ (i - 1) + 1 = i
    BY <2>1 DEF Way
  <2>3. PICK h \in Hops(g) : p[i] = At(h.to, h.line)
    BY <2>2 DEF Follows, Adjacency
  <2>4. p[i].line # NoLine
    BY <2>3, AtIs, HopIs, PlannerAssumption
  <2>5. PICK c \in Nat : c = Cardinality(Changes(p, i)) /\ IsFiniteSet(Changes(p, i))
    BY <2>1, TollIs
  <2>6. CASE p[i + 1].line = p[i].line
    <3>1. Changes(p, i + 1) = Changes(p, i)
      <4>1. \A k \in 3 .. i + 1 : p[k].line # p[k - 1].line => k \in 3 .. i
        <5>1. (i + 1) - 1 = i
          BY <2>1
        <5>. QED  BY <2>1, <2>6, <5>1
      <4>. QED  BY <2>1, <4>1 DEF Changes
    <3>2. Step(p[i].line, p[i + 1].line) = 2
      BY <2>6 DEF Step, InterstationMin
    <3>. QED  BY <2>1, <2>5, <3>1, <3>2 DEF Toll
  <2>7. CASE p[i + 1].line # p[i].line
    <3>1. Changes(p, i + 1) = Changes(p, i) \cup {i + 1} /\ i + 1 \notin Changes(p, i)
      <4>1. (i + 1) - 1 = i /\ i + 1 \in 3 .. i + 1
        BY <2>1
      <4>. QED  BY <2>1, <2>7, <4>1 DEF Changes
    <3>2. Cardinality(Changes(p, i + 1)) = c + 1
      BY <2>5, <3>1, FS_AddElement
    <3>3. Step(p[i].line, p[i + 1].line) = 7
      BY <2>4, <2>7 DEF Step, InterstationMin, InterchangePenaltyMin
    <3>. QED  BY <2>1, <2>5, <3>2, <3>3 DEF Toll
  <2>. QED  BY <2>6, <2>7
<1>. QED  BY <1>1, <1>2

\* A step costs something.
LEMMA StepIs == \A a, b : Step(a, b) \in Nat /\ Step(a, b) >= 2
BY DEF Step, InterstationMin, InterchangePenaltyMin

Onward(p, y) == Append(p, y)

\* A way and a hop from where it ends are a way, for the price of one more step.
LEMMA OneMore ==
  ASSUME NEW g \in Networks, NEW s, NEW p, NEW h, NEW y, NEW q,
         Way(g, s, p), h \in Adjacency(g, Last(p).at), y = At(h.to, h.line),
         q = Onward(p, y)
  PROVE  /\ Way(g, s, q) /\ Last(q) = y
         /\ Fare(p) \in Nat /\ Fare(q) = Fare(p) + Step(Last(p).line, h.line)
<1>1. y \in Nodes(g, s)
  BY DEF Nodes, Adjacency
<1>2. PICK n \in Nat \ {0} : n = Len(p)
  BY LenProperties DEF Way
<1>3. /\ q \in Seq(Nodes(g, s)) /\ Len(q) = n + 1
      /\ \A i \in 1 .. n : q[i] = p[i]
      /\ q[n + 1] = y
  BY <1>1, <1>2, AppendProperties DEF Way, Onward
<1>4. Last(q) = y /\ Last(p) = p[n]
  BY <1>2, <1>3 DEF Last
<1>5. Follows(g, p[n], y)
  BY <1>4 DEF Follows
<1>6. Way(g, s, q)
  <2>1. \A i \in 1 .. Len(q) - 1 : Follows(g, q[i], q[i + 1])
    <3>1. TAKE i \in 1 .. Len(q) - 1
    <3>2. CASE i = n
      BY <1>3, <1>5, <3>2
    <3>3. CASE i # n
      <4>1. i \in 1 .. n - 1 /\ i \in 1 .. n /\ i + 1 \in 1 .. n
        BY <1>3, <3>3
      <4>. QED  BY <1>2, <1>3, <4>1 DEF Way
    <3>. QED  BY <3>2, <3>3
  <2>2. q[1] = p[1]
    BY <1>3
  <2>. QED  BY <1>3, <2>1, <2>2 DEF Way
<1>7. Toll(q, n) = Toll(p, n)
  <2>1. \A k \in 3 .. n : q[k] = p[k] /\ q[k - 1] = p[k - 1]
    BY <1>3
  <2>2. Changes(q, n) = Changes(p, n)
    BY <2>1 DEF Changes
  <2>. QED  BY <2>2 DEF Toll
<1>8. Toll(q, n + 1) = Toll(q, n) + Step(q[n].line, q[n + 1].line)
  <2>1. n \in 1 .. Len(q) - 1
    BY <1>3
  <2>. QED  BY <1>6, <2>1, TollStep
<1>9. Fare(p) = Toll(p, n) /\ Fare(q) = Toll(q, n + 1)
  BY <1>2, <1>3 DEF Fare, Toll, Changes
<1>10. q[n] = p[n] /\ q[n + 1].line = h.line
  BY <1>3, AtIs
<1>. QED  BY <1>4, <1>6, <1>7, <1>8, <1>9, <1>10, TollIs

-----------------------------------------------------------------------------
(***************************************************************************)
(* The inductive invariant.  Every entry of the heap is a way, priced, to  *)
(* a node pushed before at no more (Stocked).  While the search runs,      *)
(* every node pushed either has an entry of its least cost waiting, or     *)
(* has been expanded and is not the destination: then each node that       *)
(* follows it was pushed at no more than the cost of coming from there     *)
(* (Ranked).                                                               *)
(***************************************************************************)

Pending(x) == \E e \in frontier : Reached(e) = x /\ e.cost = seen[x]

Closed(x) ==
  /\ x.at # job.to
  /\ \A y \in Nodes(net, job.from) : Follows(net, x, y) =>
       y \in DOMAIN seen /\ seen[y] <= seen[x] + Step(x.line, y.line)

Ready ==
  /\ net \in Networks
  /\ search \in {"idle", "running", "done"}
  /\ search = "idle" => frontier = {} /\ seen = <<>>

Stocked ==
  /\ seen \in [DOMAIN seen -> Nat] /\ DOMAIN seen \subseteq Nodes(net, job.from)
  /\ \A e \in frontier : /\ e = Entry(e.cost, e.path)
                         /\ Way(net, job.from, e.path) /\ e.cost = Fare(e.path)
                         /\ Reached(e) \in DOMAIN seen /\ seen[Reached(e)] <= e.cost

Ranked ==
  search = "running" =>
    /\ At(job.from, NoLine) \in DOMAIN seen /\ seen[At(job.from, NoLine)] = 0
    /\ \A x \in DOMAIN seen : Pending(x) \/ Closed(x)

\* The directions are those of a way to the destination that no other is
\* cheaper than, and no way is found only where there is none.
Joins(g, j, p) == Way(g, j.from, p) /\ Last(p).at = j.to

BestRoute ==
  search = "done" =>
    /\ plan.ok => \E p : /\ Joins(net, job, p) /\ plan = Route(job, p)
                         /\ \A q : Joins(net, job, q) => Fare(p) <= Fare(q)
    /\ plan.reason = "no path" => \A q : ~Joins(net, job, q)

IInv == Ready /\ Stocked /\ Ranked /\ BestRoute

\* The heart of it: nothing that waits is dearer than every way.  Along a way
\* each node has been pushed at no more than the way costs to it, as the one
\* before it was expanded; the last one cannot have been.
LEMMA Unavoidable ==
  ASSUME net \in Networks, Stocked, Ranked, search = "running",
         NEW q, Joins(net, job, q)
  PROVE  \E o \in frontier : o.cost <= Fare(q)
<1>. SUFFICES ASSUME \A o \in frontier : ~(o.cost <= Fare(q)) PROVE FALSE
  OBVIOUS
<1>1. PICK n \in Nat \ {0} : n = Len(q)
  BY LenProperties DEF Joins, Way
<1>2. /\ \A i \in 1 .. n : q[i] \in Nodes(net, job.from)
      /\ q[1] = At(job.from, NoLine) /\ q[n].at = job.to
      /\ \A i \in 1 .. n - 1 : Follows(net, q[i], q[i + 1])
  BY <1>1, ElementOfSeq DEF Joins, Way, Last
<1>3. Fare(q) = Toll(q, n)
  BY <1>1 DEF Fare, Toll, Changes
<1>. DEFINE Good(i) == q[i] \in DOMAIN seen /\ seen[q[i]] <= Toll(q, i)
            G       == {i \in 1 .. n : \A j \in 1 .. i : Good(j)}
<1>4. Good(1)
  BY <1>2, TollIs DEF Ranked
<1>5. \A i \in 1 .. n : Good(i) => Closed(q[i])
  <2>1. SUFFICES ASSUME NEW i \in 1 .. n, Good(i), Pending(q[i]) PROVE FALSE
    BY DEF Ranked
  <2>2. PICK o \in frontier : o.cost = seen[q[i]]
    BY <2>1 DEF Pending
  <2>3. Toll(q, i) <= Toll(q, n) /\ Toll(q, i) \in Nat /\ Toll(q, n) \in Nat
    BY <2>1, TollGrows, TollIs
  <2>4. seen[q[i]] \in Nat
    BY <2>1 DEF Stocked
  <2>. QED  BY <1>3, <2>1, <2>2, <2>3, <2>4
<1>6. \A i \in 1 .. n - 1 : Good(i) => Good(i + 1)
  <2>1. SUFFICES ASSUME NEW i \in 1 .. n - 1, Good(i) PROVE Good(i + 1)
    OBVIOUS
  <2>2. Closed(q[i]) /\ q[i + 1] \in Nodes(net, job.from) /\ Follows(net, q[i], q[i + 1])
    BY <1>2, <1>5, <2>1
  <2>3. /\ q[i + 1] \in DOMAIN seen
        /\ seen[q[i + 1]] <= seen[q[i]] + Step(q[i].line, q[i + 1].line)
    BY <2>2 DEF Closed
  <2>4. Toll(q, i + 1) = Toll(q, i) + Step(q[i].line, q[i + 1].line)
    BY <1>1, TollStep DEF Joins
  <2>5. /\ seen[q[i]] \in Nat /\ seen[q[i + 1]] \in Nat
        /\ Toll(q, i) \in Nat /\ Step(q[i].line, q[i + 1].line) \in Nat
    BY <2>1, <2>3, TollIs, StepIs DEF Stocked
  <2>. HIDE DEF G
  <2>. QED  BY <2>1, <2>3, <2>4, <2>5
<1>. HIDE DEF Good
<1>7. 1 \in G
  BY <1>4
<1>8. G \in SUBSET (0 .. n)
  OBVIOUS
<1>9. Max(G) \in G /\ \A i \in G : i <= Max(G)
  BY <1>7, <1>8, LargestOf
<1>10. PICK m \in G : \A i \in G : i <= m
  BY <1>9
<1>11. m = n
  <2>1. SUFFICES ASSUME m \in 1 .. n - 1 PROVE FALSE
    OBVIOUS
  <2>2. Good(m + 1)
    BY <1>6, <1>10, <2>1
  <2>3. m + 1 \in G
    BY <1>10, <2>1, <2>2
  <2>. QED  BY <1>10, <2>1, <2>3
<1>12. Closed(q[n])
  BY <1>5, <1>10, <1>11
<1>. QED  BY <1>2, <1>12 DEF Closed

-----------------------------------------------------------------------------
(***************************************************************************)
(* Every step keeps it.                                                    *)
(***************************************************************************)

\* What an entry gives rise to is a way of one more station, priced.
LEMMA SuccessorIs ==
  ASSUME net \in Networks, Stocked, NEW e \in frontier, NEW n \in Successors(e)
  PROVE  /\ n = Entry(n.cost, n.path) /\ Way(net, job.from, n.path)
         /\ n.cost = Fare(n.path) /\ n.cost \in Nat /\ n.cost >= 2
         /\ n.cost = e.cost + Step(Reached(e).line, Reached(n).line) /\ e.cost \in Nat
         /\ n.path = Append(e.path, Reached(n))
         /\ Reached(n) \in Nodes(net, job.from)
<1>1. PICK h \in Adjacency(net, Reached(e).at) :
        n = Entry(e.cost + Step(Reached(e).line, h.line),
                  Append(e.path, At(h.to, h.line)))
  BY DEF Successors
<1>2. PICK y : y = At(h.to, h.line)
  OBVIOUS
<1>3. PICK q : q = Append(e.path, y)
  OBVIOUS
<1>4. Reached(e) = Last(e.path) /\ Way(net, job.from, e.path) /\ e.cost = Fare(e.path)
  BY DEF Reached, Stocked
<1>5. /\ Way(net, job.from, q) /\ Last(q) = y
      /\ Fare(e.path) \in Nat
      /\ Fare(q) = Fare(e.path) + Step(Last(e.path).line, h.line)
  <2>1. PICK p : p = e.path
    OBVIOUS
  <2>2. /\ Way(net, job.from, p) /\ h \in Adjacency(net, Last(p).at)
        /\ q = Onward(p, y)
    BY <1>3, <1>4, <2>1 DEF Onward
  <2>3. /\ Way(net, job.from, q) /\ Last(q) = y /\ Fare(p) \in Nat
        /\ Fare(q) = Fare(p) + Step(Last(p).line, h.line)
    BY <1>2, <2>2, OneMore
  <2>. QED  BY <2>1, <2>3
<1>6. n = Entry(Fare(q), q)
  BY <1>1, <1>2, <1>3, <1>4, <1>5
<1>7. n.cost = Fare(q) /\ n.path = q
  BY <1>6 DEF Entry
<1>8. Reached(n) = y /\ y.line = h.line
  BY <1>2, <1>5, <1>7, AtIs DEF Reached
<1>9. y \in Nodes(net, job.from)
  BY <1>2 DEF Nodes, Adjacency
<1>10. /\ n.cost = Fare(n.path) /\ n = Entry(n.cost, n.path) /\ Way(net, job.from, n.path)
       /\ n.path = Append(e.path, Reached(n))
  BY <1>3, <1>5, <1>6, <1>7, <1>8
<1>11. n.cost = e.cost + Step(Reached(e).line, Reached(n).line) /\ e.cost \in Nat
  BY <1>4, <1>5, <1>7, <1>8
<1>12. n.cost \in Nat /\ n.cost >= 2
  BY <1>11, StepIs
<1>. QED  BY <1>8, <1>9, <1>10, <1>11, <1>12

\* What follows the node of an entry is among what it gives rise to.
LEMMA Succeeds ==
  ASSUME net \in Networks, Stocked, NEW e \in frontier,
         NEW y, Follows(net, Reached(e), y)
  PROVE  \E n \in Successors(e) : Reached(n) = y
<1>1. PICK h \in Adjacency(net, Reached(e).at) : y = At(h.to, h.line)
  BY DEF Follows
<1>2. PICK n \in Successors(e) :
        n = Entry(e.cost + Step(Reached(e).line, h.line), Append(e.path, y))
  BY <1>1 DEF Successors
<1>3. n.path = Append(e.path, y)
  BY <1>2 DEF Entry
<1>4. Last(Append(e.path, y)) = y
  <2>1. PICK p, q : p = e.path /\ q = Onward(p, y)
    OBVIOUS
  <2>2. Way(net, job.from, p) /\ h \in Adjacency(net, Last(p).at)
    BY <1>1, <2>1 DEF Stocked, Reached
  <2>3. Last(q) = y
    BY <1>1, <2>1, <2>2, OneMore
  <2>. QED  BY <2>1, <2>3 DEF Onward
<1>. QED  BY <1>3, <1>4 DEF Reached

\* An entry that has not arrived is expanded.
LEMMA Expands ==
  ASSUME Ready, Stocked, Ranked, NEW e \in frontier, Pop(e), Reached(e).at # job.to
  PROVE  Stocked' /\ Ranked'
<1>. DEFINE R == {Reached(n) : n \in Fresh(e)}
<1>1. /\ search = "running" /\ UNCHANGED <<net, job, plan, search>>
      /\ frontier' = (frontier \ {e}) \cup Fresh(e)
      /\ seen' = [x \in DOMAIN seen \cup R |->
                    IF \E n \in Fresh(e) : Reached(n) = x
                    THEN (CHOOSE n \in Fresh(e) : Reached(n) = x).cost
                    ELSE seen[x]]
  BY DEF Pop
<1>2. net \in Networks
  BY DEF Ready
<1>3. \A n \in Fresh(e) :
        /\ n \in Successors(e)
        /\ Reached(n) \in DOMAIN seen => seen[Reached(n)] > n.cost
  BY DEF Fresh
<1>4. \A n \in Successors(e) :
        /\ n = Entry(n.cost, n.path) /\ Way(net, job.from, n.path)
        /\ n.cost = Fare(n.path) /\ n.cost \in Nat /\ n.cost >= 2
        /\ n.cost = e.cost + Step(Reached(e).line, Reached(n).line) /\ e.cost \in Nat
        /\ n.path = Append(e.path, Reached(n))
        /\ Reached(n) \in Nodes(net, job.from)
  BY <1>2, SuccessorIs
<1>5. \A n, o \in Successors(e) : Reached(n) = Reached(o) => n = o
  <2>1. TAKE n, o \in Successors(e)
  <2>2. HAVE Reached(n) = Reached(o)
  <2>3. n.path = o.path /\ n.cost = o.cost
    BY <1>4, <2>2
  <2>4. n = Entry(n.cost, n.path) /\ o = Entry(o.cost, o.path)
    BY <1>4
  <2>. QED  BY <2>3, <2>4
<1>6. DOMAIN seen' = DOMAIN seen \cup R
  BY <1>1
<1>7. \A n \in Fresh(e) : Reached(n) \in R /\ seen'[Reached(n)] = n.cost
  <2>1. TAKE n \in Fresh(e)
  <2>2. PICK m : m = CHOOSE k \in Fresh(e) : Reached(k) = Reached(n)
    OBVIOUS
  <2>3. m \in Fresh(e) /\ Reached(m) = Reached(n)
    BY <2>2
  <2>4. m = n
    BY <1>3, <1>5, <2>3
  <2>5. Reached(n) \in R
    OBVIOUS
  <2>6. seen'[Reached(n)] = (CHOOSE k \in Fresh(e) : Reached(k) = Reached(n)).cost
    BY <1>1, <2>5
  <2>. QED  BY <2>2, <2>4, <2>5, <2>6
<1>8. \A x \in R : \E n \in Fresh(e) : Reached(n) = x
  OBVIOUS
<1>9. \A x \in DOMAIN seen : x \notin R => seen'[x] = seen[x]
  BY <1>1
<1>10. \A x \in DOMAIN seen : seen[x] \in Nat
  BY DEF Stocked
<1>. HIDE DEF R
<1>11. \A x \in DOMAIN seen' : seen'[x] \in Nat
  BY <1>3, <1>4, <1>6, <1>7, <1>8, <1>9, <1>10
<1>12. \A x \in DOMAIN seen : x \in DOMAIN seen' /\ seen'[x] <= seen[x]
  <2>1. TAKE x \in DOMAIN seen
  <2>2. CASE x \in R
    <3>1. PICK n \in Fresh(e) : Reached(n) = x
      BY <1>8, <2>2
    <3>2. seen'[x] = n.cost /\ seen[x] > n.cost /\ n.cost \in Nat /\ seen[x] \in Nat
      BY <1>3, <1>4, <1>7, <1>10, <3>1
    <3>. QED  BY <1>6, <3>2
  <2>3. CASE x \notin R
    BY <1>6, <1>9, <1>10, <2>3
  <2>. QED  BY <2>2, <2>3
<1>13. \A n \in Successors(e) : Reached(n) \in DOMAIN seen' /\ seen'[Reached(n)] <= n.cost
  <2>1. TAKE n \in Successors(e)
  <2>2. CASE n \in Fresh(e)
    BY <1>4, <1>6, <1>7, <2>2
  <2>3. CASE n \notin Fresh(e)
    <3>1. Reached(n) \in DOMAIN seen /\ ~(seen[Reached(n)] > n.cost)
      BY <2>3 DEF Fresh
    <3>2. /\ Reached(n) \in DOMAIN seen' /\ seen'[Reached(n)] <= seen[Reached(n)]
          /\ seen'[Reached(n)] \in Nat /\ seen[Reached(n)] \in Nat /\ n.cost \in Nat
      BY <1>4, <1>10, <1>11, <1>12, <3>1
    <3>. QED  BY <3>1, <3>2
  <2>. QED  BY <2>2, <2>3
<1>14. Stocked'
  <2>1. seen' \in [DOMAIN seen' -> Nat]
    BY <1>1, <1>6, <1>11
  <2>2. DOMAIN seen' \subseteq Nodes(net, job.from)
    BY <1>3, <1>4, <1>6, <1>8 DEF Stocked
  <2>3. ASSUME NEW o \in frontier'
        PROVE  /\ o = Entry(o.cost, o.path) /\ Way(net, job.from, o.path)
               /\ o.cost = Fare(o.path)
               /\ Reached(o) \in DOMAIN seen' /\ seen'[Reached(o)] <= o.cost
    <3>1. CASE o \in Fresh(e)
      BY <1>3, <1>4, <1>13, <3>1
    <3>2. CASE o \in frontier
      <4>1. /\ o = Entry(o.cost, o.path) /\ Way(net, job.from, o.path)
            /\ o.cost = Fare(o.path)
            /\ Reached(o) \in DOMAIN seen /\ seen[Reached(o)] <= o.cost
        BY <3>2 DEF Stocked
      <4>2. o.cost \in Nat
        <5>1. Len(o.path) \in Nat \ {0}
          BY <4>1, LenProperties DEF Way
        <5>2. Fare(o.path) = Toll(o.path, Len(o.path))
          BY DEF Fare, Toll, Changes
        <5>. QED  BY <4>1, <5>1, <5>2, TollIs
      <4>3. /\ Reached(o) \in DOMAIN seen' /\ seen'[Reached(o)] <= seen[Reached(o)]
            /\ seen'[Reached(o)] \in Nat /\ seen[Reached(o)] \in Nat
        BY <1>10, <1>11, <1>12, <4>1
      <4>. QED  BY <4>1, <4>2, <4>3
    <3>. QED  BY <1>1, <2>3, <3>1, <3>2
  <2>. QED  BY <1>1, <2>1, <2>2, <2>3 DEF Stocked, Reached
<1>15. Ranked'
  <2>. DEFINE s == At(job.from, NoLine)
  <2>1. s \in DOMAIN seen' /\ seen'[s] = 0
    <3>1. s \in DOMAIN seen /\ seen[s] = 0
      BY <1>1 DEF Ranked
    <3>2. seen'[s] <= 0 /\ seen'[s] \in Nat /\ s \in DOMAIN seen'
      BY <1>11, <1>12, <3>1
    <3>. QED  BY <3>2
  <2>2. ASSUME NEW x \in DOMAIN seen'
        PROVE  \/ \E o \in frontier' : Reached(o) = x /\ o.cost = seen'[x]
               \/ /\ x.at # job.to
                  /\ \A y \in Nodes(net, job.from) : Follows(net, x, y) =>
                       y \in DOMAIN seen' /\ seen'[y] <= seen'[x] + Step(x.line, y.line)
    <3>1. CASE x \in R
      BY <1>1, <1>7, <1>8, <3>1
    <3>2. CASE x \notin R
      <4>1. x \in DOMAIN seen /\ seen'[x] = seen[x] /\ seen[x] \in Nat
        BY <1>6, <1>9, <1>10, <2>2, <3>2
      <4>2. CASE Closed(x)
        <5>1. x.at # job.to
          BY <4>2 DEF Closed
        <5>2. ASSUME NEW y \in Nodes(net, job.from), Follows(net, x, y)
              PROVE  y \in DOMAIN seen' /\ seen'[y] <= seen'[x] + Step(x.line, y.line)
          <6>1. y \in DOMAIN seen /\ seen[y] <= seen[x] + Step(x.line, y.line)
            BY <4>2, <5>2 DEF Closed
          <6>2. /\ y \in DOMAIN seen' /\ seen'[y] <= seen[y]
                /\ seen'[y] \in Nat /\ seen[y] \in Nat /\ Step(x.line, y.line) \in Nat
            BY <1>10, <1>11, <1>12, <6>1, StepIs
          <6>. QED  BY <4>1, <6>1, <6>2
        <5>. QED  BY <5>1, <5>2
      <4>3. CASE \E o \in frontier \ {e} : Reached(o) = x /\ o.cost = seen[x]
        BY <1>1, <4>1, <4>3
      <4>4. CASE Reached(e) = x /\ e.cost = seen[x]
        <5>1. ASSUME NEW y \in Nodes(net, job.from), Follows(net, x, y)
              PROVE  y \in DOMAIN seen' /\ seen'[y] <= seen'[x] + Step(x.line, y.line)
          <6>1. PICK n \in Successors(e) : Reached(n) = y
            BY <1>2, <4>4, <5>1, Succeeds
          <6>2. n.cost = seen[x] + Step(x.line, y.line)
            BY <1>4, <4>4, <6>1
          <6>. QED  BY <1>13, <4>1, <6>1, <6>2
        <5>. QED  BY <4>4, <5>1
      <4>. QED  BY <1>1, <4>1, <4>2, <4>3, <4>4 DEF Ranked, Pending
    <3>. QED  BY <3>1, <3>2
  <2>. QED  BY <1>1, <2>1, <2>2 DEF Ranked, Pending, Closed, Reached
<1>. QED  BY <1>14, <1>15

\* A price is what its last station says.
LEMMA FareIs ==
  ASSUME NEW g, NEW s, NEW p, Way(g, s, p)
  PROVE  Fare(p) = Toll(p, Len(p)) /\ Fare(p) \in Nat
<1>1. Len(p) \in Nat \ {0}
  BY LenProperties DEF Way
<1>2. Fare(p) = Toll(p, Len(p))
  BY DEF Fare, Toll, Changes
<1>. QED  BY <1>1, <1>2, TollIs

\* An entry of least cost that has arrived is of the best route.
LEMMA Arrives ==
  ASSUME IInv, NEW e \in frontier, Pop(e), Reached(e).at = job.to
  PROVE  IInv'
<1>1. /\ search = "running" /\ search' = "done" /\ plan' = Route(job, e.path)
      /\ UNCHANGED <<net, job, frontier, seen>>
  BY DEF Pop
<1>2. Joins(net, job, e.path) /\ e.cost = Fare(e.path)
  BY DEF IInv, Stocked, Joins, Reached
<1>3. ASSUME NEW q, Joins(net, job, q)
      PROVE  Fare(e.path) <= Fare(q)
  <2>1. PICK o \in frontier : o.cost <= Fare(q)
    BY <1>1, <1>3, Unavoidable DEF IInv, Ready
  <2>2. e.cost <= o.cost
    BY DEF Pop, Cheapest
  <2>3. o.cost \in Nat /\ Fare(q) \in Nat /\ e.cost \in Nat
    BY <1>3, FareIs DEF IInv, Stocked, Joins
  <2>. QED  BY <1>2, <2>1, <2>2, <2>3
<1>4. plan'.ok /\ plan'.reason = "none"
  BY <1>1, Zenon DEF Route
<1>5. BestRoute'
  <2>1. \E p : /\ Joins(net, job, p) /\ plan' = Route(job, p)
               /\ \A q : Joins(net, job, q) => Fare(p) <= Fare(q)
    BY <1>1, <1>2, <1>3
  <2>2. plan'.reason # "no path"
    BY <1>4
  <2>. QED  BY <1>1, <2>1, <2>2 DEF BestRoute
<1>. QED  BY <1>1, <1>5 DEF IInv, Ready, Stocked, Ranked, Reached

\* A refusal is no plan, for the reason it says.
LEMMA RefusedIs == \A why : ~Refused(why).ok /\ Refused(why).reason = why
BY DEF Refused, NoPlan

\* Nothing waits any more: there is no way.
LEMMA Exhausts ==
  ASSUME IInv, Exhausted
  PROVE  IInv'
<1>1. /\ search = "running" /\ search' = "done" /\ plan' = Refused("no path")
      /\ frontier = {} /\ UNCHANGED <<net, job, frontier, seen>>
  BY DEF Exhausted
<1>2. \A q : ~Joins(net, job, q)
  BY <1>1, Unavoidable DEF IInv, Ready
<1>3. BestRoute'
  BY <1>1, <1>2, RefusedIs DEF BestRoute
<1>. QED  BY <1>1, <1>3 DEF IInv, Ready, Stocked, Ranked, Reached

\* A way between two stations leaves the one by a hop, and reaches the other by
\* one that can be taken back.
LEMMA EndsServed ==
  ASSUME NEW g, NEW j, NEW p, Joins(g, j, p), j.from # j.to
  PROVE  Adjacency(g, j.from) # {} /\ Adjacency(g, j.to) # {}
<1>1. PICK n \in Nat \ {0} : n = Len(p)
  BY LenProperties DEF Joins, Way
<1>2. p[1].at = j.from /\ p[n].at = j.to /\ n # 1
  BY <1>1, AtIs DEF Joins, Way, Last
<1>3. Follows(g, p[1], p[2])
  <2>1. 1 \in 1 .. Len(p) - 1
    BY <1>1, <1>2
  <2>2. Follows(g, p[1], p[1 + 1])
    BY <2>1 DEF Joins, Way
  <2>. QED  BY <2>2
<1>4. Follows(g, p[n - 1], p[n])
  <2>1. n - 1 \in 1 .. Len(p) - 1 /\ (n - 1) + 1 = n
    BY <1>1, <1>2
  <2>. QED  BY <2>1 DEF Joins, Way
<1>5. Adjacency(g, j.from) # {}
  BY <1>2, <1>3 DEF Follows
<1>6. PICK h \in Hops(g) : p[n] = At(h.to, h.line)
  BY <1>4 DEF Follows, Adjacency
<1>7. PICK k \in Hops(g) : k.from = h.to
  BY HopIs
<1>8. k \in Adjacency(g, j.to)
  BY <1>2, <1>6, <1>7, AtIs DEF Adjacency
<1>. QED  BY <1>5, <1>8

\* One station is a way.
LEMMA Alone ==
  ASSUME NEW g, NEW s, NEW p, p = <<At(s, NoLine)>>
  PROVE  Way(g, s, p) /\ Last(p) = At(s, NoLine) /\ Fare(p) = 0
<1>1. p \in Seq(Nodes(g, s)) /\ Len(p) = 1 /\ p[1] = At(s, NoLine)
  BY DEF Nodes
<1>2. Way(g, s, p) /\ Last(p) = At(s, NoLine)
  BY <1>1 DEF Way, Last
<1>3. Toll(p, 1) = 0
  BY TollIs
<1>. QED  BY <1>1, <1>2, <1>3, FareIs

\* To begin is to refuse, to be there already, or to wait at the origin.
LEMMA Begins ==
  ASSUME IInv, NEW from, NEW to, Begin(from, to)
  PROVE  IInv'
<1>1. /\ search = "idle" /\ net' = net /\ net \in Networks
      /\ frontier = {} /\ seen = <<>>
  BY DEF Begin, IInv, Ready
<1>2. ASSUME frontier' = {}, seen' = <<>>, search' = "done"
      PROVE  Ready' /\ Stocked' /\ Ranked'
  <2>1. seen' \in [DOMAIN seen' -> Nat] /\ DOMAIN seen' = {}
    BY <1>2
  <2>2. Stocked'
    BY <1>2, <2>1 DEF Stocked
  <2>. QED  BY <1>1, <1>2, <2>2 DEF Ready, Ranked
<1>. DEFINE src == StationAt(from)
            dst == StationAt(to)
            J   == [from |-> src, to |-> dst, walk_from |-> WalkTo(from),
                    walk_to |-> WalkTo(to)]
<1>3. J.from = src /\ J.to = dst
  OBVIOUS
<1>4. CASE NoStation \in {src, dst}
  <2>1. \E why \in {"needed", "too far"} : plan' = Refused(why)
    BY <1>4, Zenon DEF Begin
  <2>2. search' = "done" /\ frontier' = {} /\ seen' = <<>>
    BY <1>1, <1>4, Zenon DEF Begin
  <2>3. ~plan'.ok /\ plan'.reason # "no path"
    BY <2>1, RefusedIs
  <2>. QED  BY <1>2, <2>2, <2>3 DEF IInv, BestRoute
<1>5. CASE NoStation \notin {src, dst} /\ src = dst
  <2>1. /\ job' = J /\ plan' = Route(job', <<At(src, NoLine)>>) /\ search' = "done"
        /\ frontier' = frontier /\ seen' = seen
    BY <1>5, Zenon DEF Begin
  <2>2. PICK p : p = <<At(src, NoLine)>>
    OBVIOUS
  <2>3. Way(net', job'.from, p) /\ Last(p) = At(src, NoLine) /\ Fare(p) = 0
    BY <1>3, <2>1, <2>2, Alone
  <2>4. Joins(net', job', p)
    BY <1>3, <1>5, <2>1, <2>3, AtIs DEF Joins
  <2>5. \A q : Joins(net', job', q) => Fare(p) <= Fare(q)
    <3>1. ASSUME NEW q, Joins(net', job', q) PROVE Fare(q) \in Nat
      BY <3>1, FareIs DEF Joins
    <3>. QED  BY <2>3, <3>1
  <2>6. plan'.ok /\ plan'.reason = "none"
    BY <2>1, Zenon DEF Route
  <2>7. BestRoute'
    BY <2>1, <2>2, <2>4, <2>5, <2>6 DEF BestRoute
  <2>. QED  BY <1>1, <1>2, <2>1, <2>7 DEF IInv
<1>6. CASE /\ NoStation \notin {src, dst} /\ src # dst
           /\ {} \in {Adjacency(net, src), Adjacency(net, dst)}
  <2>1. /\ job' = J /\ plan' = Refused("no path") /\ search' = "done"
        /\ frontier' = frontier /\ seen' = seen
    BY <1>6, Zenon DEF Begin
  <2>2. \A q : ~Joins(net', job', q)
    BY <1>1, <1>3, <1>6, <2>1, EndsServed
  <2>3. BestRoute'
    BY <2>1, <2>2, RefusedIs DEF BestRoute
  <2>. QED  BY <1>1, <1>2, <2>1, <2>3 DEF IInv
<1>7. CASE /\ NoStation \notin {src, dst} /\ src # dst
           /\ {} \notin {Adjacency(net, src), Adjacency(net, dst)}
  <2>1. /\ job' = J /\ search' = "running"
        /\ frontier' = {Entry(0, <<At(src, NoLine)>>)}
        /\ seen' = [x \in {At(src, NoLine)} |-> 0]
    BY <1>7, Zenon DEF Begin
  <2>2. PICK p : p = <<At(src, NoLine)>>
    OBVIOUS
  <2>3. Way(net', job'.from, p) /\ Last(p) = At(src, NoLine) /\ Fare(p) = 0
    BY <1>3, <2>1, <2>2, Alone
  <2>4. PICK e : e = Entry(0, p)
    OBVIOUS
  <2>5. e.cost = 0 /\ e.path = p /\ Reached(e) = At(src, NoLine) /\ frontier' = {e}
    BY <2>1, <2>2, <2>3, <2>4 DEF Entry, Reached
  <2>6. PICK x : x = At(src, NoLine)
    OBVIOUS
  <2>7. /\ DOMAIN seen' = {x} /\ seen'[x] = 0 /\ seen' \in [{x} -> Nat]
        /\ x = At(job'.from, NoLine)
    BY <1>3, <2>1, <2>6
  <2>8. x \in Nodes(net', job'.from)
    BY <2>7 DEF Nodes
  <2>9. Stocked'
    BY <2>3, <2>4, <2>5, <2>6, <2>7, <2>8 DEF Stocked, Reached
  <2>10. Ranked'
    BY <2>5, <2>6, <2>7 DEF Ranked, Pending, Reached
  <2>. QED  BY <1>1, <2>1, <2>9, <2>10 DEF IInv, Ready, BestRoute
<1>. HIDE DEF src, dst, J
<1>. QED  BY <1>4, <1>5, <1>6, <1>7

\* What was local to the call is gone.
LEMMA Returns ==
  ASSUME IInv, Returned
  PROVE  IInv'
<1>1. /\ frontier' = {} /\ seen' = <<>> /\ search' = "idle" /\ net' = net
      /\ DOMAIN seen' = {} /\ seen' \in [{} -> Nat]
  BY DEF Returned
<1>2. Stocked'
  BY <1>1 DEF Stocked
<1>. QED  BY <1>1, <1>2 DEF IInv, Ready, Ranked, BestRoute

\* Nothing searched yet, it holds.
LEMMA InitSearch == Init => IInv
<1>. SUFFICES ASSUME Init PROVE IInv
  OBVIOUS
<1>1. /\ frontier = {} /\ seen = <<>> /\ search = "idle" /\ net \in Networks
      /\ DOMAIN seen = {} /\ seen \in [{} -> Nat]
  BY DEF Init, PlannerInit
<1>2. Stocked
  BY <1>1 DEF Stocked
<1>. QED  BY <1>1, <1>2 DEF IInv, Ready, Ranked, BestRoute

\* Every step of a question keeps it.
LEMMA StepSearch ==
  ASSUME IInv, [Next]_vars
  PROVE  IInv'
<1>1. CASE UNCHANGED plannerVars
  BY <1>1 DEF plannerVars, IInv, Ready, Stocked, Ranked, BestRoute, Pending, Closed, Reached
<1>2. ASSUME NEW trip, PlanSimpleRoute(trip)
      PROVE  IInv'
  BY <1>2, Begins DEF PlanSimpleRoute
<1>3. ASSUME NEW o, NEW d, NEW modes, Compare(o, d, modes)
      PROVE  IInv'
  <2>1. \/ UNCHANGED plannerVars
        \/ Begin([name |-> NoName, spot |-> o], [name |-> NoName, spot |-> d])
    BY <1>3, Zenon DEF Compare
  <2>. QED  BY <1>1, <2>1, Begins
<1>4. CASE Search
  <2>1. ASSUME NEW e \in frontier, Pop(e)
        PROVE  IInv'
    <3>1. CASE Reached(e).at = job.to
      BY <2>1, <3>1, Arrives
    <3>2. CASE Reached(e).at # job.to
      <4>1. Stocked' /\ Ranked'
        BY <2>1, <3>2, Expands DEF IInv
      <4>2. search = "running" /\ UNCHANGED <<net, plan, search>>
        BY <2>1, <3>2 DEF Pop
      <4>. QED  BY <4>1, <4>2 DEF IInv, Ready, BestRoute
    <3>. QED  BY <3>1, <3>2
  <2>. QED  BY <1>4, <2>1, Exhausts DEF Search, Searching
<1>5. CASE Return
  BY <1>5, Returns DEF Return
<1>6. CASE \/ \E t \in Messages : Ask(t)
           \/ \E code \in Overrides : AskForced(code)
           \/ PoiAnswers \/ PoiDefers \/ Offer \/ UNCHANGED vars
           \/ \E tool \in ModelTools \cup {SimpleRoute} : ModelCalls(tool)
           \/ \E o, d \in Spots \cup {NoSpot} : RefuseJourney(o, d)
  <2>1. UNCHANGED plannerVars
    BY <1>6 DEF Ask, AskForced, PoiAnswers, PoiDefers, Offer, ModelCalls, RefuseJourney, vars
  <2>. QED  BY <1>1, <2>1
<1>. QED  BY <1>2, <1>3, <1>4, <1>5, <1>6, Zenon DEF Next

\* The invariant of the search holds of every question.
THEOREM Invariance == Spec => []IInv
BY InitSearch, StepSearch, PTL DEF Spec

\* For every network, the route told is of a way between the two stations that
\* no other is cheaper than, however it goes, and the handler says that there
\* is no path only where there is none (_shortest_path and its callers).
THEOREM NoRouteIsCheaper == Spec => []BestRoute
<1>1. IInv => BestRoute
  BY DEF IInv
<1>. QED  BY <1>1, Invariance, PTL

-----------------------------------------------------------------------------
(***************************************************************************)
(* The itineraries are the ways that come to no station twice.             *)
(***************************************************************************)

\* The ways of one more station, with those there were.
Longer(S) ==
  S \cup UNION {{Append(p, At(h.to, h.line)) : h \in
                   {g \in Adjacency(net, Last(p).at) :
                      \A i \in DOMAIN p : p[i].at # g.to}} : p \in S}

Grown(f, s) ==
  /\ f \in [Nat -> SUBSET Seq(Nodes(net, s))] /\ f[0] = {<<At(s, NoLine)>>}
  /\ \A n \in Nat : f[n + 1] = Longer(f[n])

\* What is longer by a station of the network goes through nodes.
LEMMA LongerIs ==
  ASSUME NEW s, NEW S \in SUBSET Seq(Nodes(net, s))
  PROVE  Longer(S) \in SUBSET Seq(Nodes(net, s))
<1>1. ASSUME NEW p \in S, NEW h \in Adjacency(net, Last(p).at)
      PROVE  Append(p, At(h.to, h.line)) \in Seq(Nodes(net, s))
  <2>1. At(h.to, h.line) \in Nodes(net, s)
    BY DEF Nodes, Adjacency
  <2>. QED  BY <2>1, AppendProperties
<1>. QED  BY <1>1 DEF Longer

\* Itineraries is what its recursive function says it is.
LEMMA ItinerariesGrow ==
  ASSUME NEW s
  PROVE  \E f : Grown(f, s) /\ Itineraries(s) = f[Cardinality({h.from : h \in Hops(net)})]
<1>. DEFINE U    == SUBSET Seq(Nodes(net, s))
            a    == {<<At(s, NoLine)>>}
            F    == [n \in Nat |-> [S \in U |-> Longer(S)]]
            Is(g) == g = [n \in Nat |-> IF n = 0 THEN a ELSE Longer(g[n - 1])]
            grow  == CHOOSE g : Is(g)
<1>1. a \in U
  <2>1. <<At(s, NoLine)>> \in Seq(Nodes(net, s))
    BY DEF Nodes
  <2>. QED  BY <2>1
<1>2. F \in [Nat -> [U -> U]]
  <2>. HIDE DEF F
  <2>1. \A S \in U : Longer(S) \in U
    BY LongerIs
  <2>. HIDE DEF U
  <2>. QED  BY <2>1 DEF F
<1>3. PICK f : Computed(f, U, a, F)
  <2>. HIDE DEF U, a, F
  <2>. QED  BY <1>1, <1>2, Recursion
<1>4. /\ f \in [Nat -> U] /\ f[0] = a
      /\ \A n \in Nat : f[n + 1] = Longer(f[n])
  <2>. HIDE DEF U, a
  <2>. QED  BY <1>3 DEF Computed
<1>5. Is(f)
  <2>. HIDE DEF U, a
  <2>1. \A n \in Nat : f[n] = IF n = 0 THEN a ELSE Longer(f[n - 1])
    <3>1. ASSUME NEW n \in Nat, n # 0 PROVE f[n] = Longer(f[n - 1])
      <4>1. n - 1 \in Nat /\ (n - 1) + 1 = n
        BY <3>1
      <4>. QED  BY <1>4, <4>1
    <3>. QED  BY <1>4, <3>1
  <2>. QED  BY <1>4, <2>1
<1>6. Is(grow)
  <2>. HIDE DEF Is
  <2>. QED  BY <1>5
<1>7. Itineraries(s) = grow[Cardinality({h.from : h \in Hops(net)})]
  BY Zenon DEF Itineraries, Longer
<1>. HIDE DEF grow
<1>8. grow[0] = a /\ \A n \in Nat : grow[n + 1] = Longer(grow[n])
  <2>. HIDE DEF a
  <2>1. \A n \in Nat : grow[n] = IF n = 0 THEN a ELSE Longer(grow[n - 1])
    BY <1>6
  <2>2. ASSUME NEW n \in Nat PROVE grow[n + 1] = Longer(grow[n])
    <3>1. n + 1 \in Nat /\ n + 1 # 0 /\ (n + 1) - 1 = n
      OBVIOUS
    <3>. QED  BY <2>1, <3>1
  <2>. QED  BY <2>1, <2>2
<1>9. grow \in [Nat -> U]
  <2>. DEFINE S == {n \in Nat : grow[n] \in U}
  <2>1. 0 \in S
    BY <1>1, <1>8
  <2>2. ASSUME NEW n \in Nat, n \in S PROVE n + 1 \in S
    <3>1. grow[n] \in U
      BY <2>2
    <3>2. Longer(grow[n]) \in U
      BY <3>1, LongerIs
    <3>3. grow[n + 1] = Longer(grow[n])
      BY <2>2, <1>8
    <3>. HIDE DEF U
    <3>. QED  BY <2>2, <3>2, <3>3
  <2>. HIDE DEF S
  <2>3. Nat \subseteq S
    BY <2>1, <2>2, Induction
  <2>. HIDE DEF U, a
  <2>4. grow = [n \in Nat |-> IF n = 0 THEN a ELSE Longer(grow[n - 1])]
    BY <1>6
  <2>. QED  BY <2>3, <2>4 DEF S
<1>. QED  BY <1>7, <1>8, <1>9 DEF Grown

\* An itinerary is a way.
LEMMA ItinerariesAreWays ==
  ASSUME net \in Networks, NEW s, NEW f, Grown(f, s)
  PROVE  \A n \in Nat : \A p \in f[n] : Way(net, s, p)
<1>. DEFINE S == {n \in Nat : \A p \in f[n] : Way(net, s, p)}
<1>1. 0 \in S
  BY Alone DEF Grown
<1>2. ASSUME NEW n \in Nat, n \in S PROVE n + 1 \in S
  <2>1. SUFFICES ASSUME NEW q \in Longer(f[n]) PROVE Way(net, s, q)
    BY DEF Grown
  <2>2. CASE q \in f[n]
    BY <1>2, <2>2
  <2>3. CASE \E p \in f[n] : \E h \in Adjacency(net, Last(p).at) :
               q = Append(p, At(h.to, h.line))
    <3>1. PICK p \in f[n] : \E h \in Adjacency(net, Last(p).at) :
                 q = Append(p, At(h.to, h.line))
      BY <2>3
    <3>2. PICK h \in Adjacency(net, Last(p).at) : q = Append(p, At(h.to, h.line))
      BY <3>1
    <3>3. PICK y : y = At(h.to, h.line)
      OBVIOUS
    <3>4. Way(net, s, p) /\ q = Onward(p, y)
      BY <1>2, <3>2, <3>3 DEF Onward
    <3>. QED  BY <3>3, <3>4, OneMore
  <2>. QED  BY <2>1, <2>2, <2>3 DEF Longer
<1>. HIDE DEF S
<1>3. Nat \subseteq S
  BY <1>1, <1>2, Induction
<1>. QED  BY <1>3 DEF S

\* No station comes twice.
Simple(p) == \A i, j \in 1 .. Len(p) : p[i].at = p[j].at => i = j

\* The stations of a way, but the last, are where hops leave from.
LEMMA LeavesFrom ==
  ASSUME NEW g, NEW s, NEW p, Way(g, s, p), NEW i \in 1 .. Len(p) - 1
  PROVE  p[i].at \in {h.from : h \in Hops(g)}
<1>1. Follows(g, p[i], p[i + 1])
  BY DEF Way
<1>. QED  BY <1>1 DEF Follows, Adjacency

\* A network has so many stations.
LEMMA FromFinite ==
  ASSUME NEW g \in Networks
  PROVE  /\ IsFiniteSet({h.from : h \in Hops(g)})
         /\ Cardinality({h.from : h \in Hops(g)}) \in Nat
<1>. DEFINE T == {h.from : h \in Hops(g)}
<1>1. PICK S : S = Hops(g)
  OBVIOUS
<1>2. IsFiniteSet(S)
  BY <1>1, NetworkAssumption
<1>3. [h \in S |-> h.from] \in Surjection(S, T)
  BY <1>1 DEF Surjection
<1>. HIDE DEF T
<1>4. IsFiniteSet(T)
  BY <1>2, <1>3, FS_Surjection
<1>. QED  BY <1>4, FS_CardinalityType DEF T

\* A way that comes to no station twice has a station for each of its hops.
LEMMA SimpleIsShort ==
  ASSUME NEW g \in Networks, NEW s, NEW p, Way(g, s, p), Simple(p)
  PROVE  Len(p) - 1 <= Cardinality({h.from : h \in Hops(g)})
<1>. DEFINE T == {h.from : h \in Hops(g)}
<1>1. PICK n \in Nat : n = Len(p) - 1
  <2>1. Len(p) \in Nat \ {0}
    BY LenProperties DEF Way
  <2>. QED  BY <2>1
<1>2. [i \in 1 .. n |-> p[i].at] \in Injection(1 .. n, T)
  <2>1. \A i \in 1 .. n : p[i].at \in T
    BY <1>1, LeavesFrom
  <2>2. \A i, j \in 1 .. n : p[i].at = p[j].at => i = j
    BY <1>1 DEF Simple
  <2>. HIDE DEF T
  <2>. QED  BY <2>1, <2>2 DEF Injection, IsInjective
<1>3. Cardinality(1 .. n) = n
  BY FS_Interval
<1>4. Cardinality(1 .. n) <= Cardinality(T)
  <2>1. IsFiniteSet(T)
    BY FromFinite
  <2>. HIDE DEF T
  <2>. QED  BY <1>2, <2>1, FS_Injection
<1>. QED  BY <1>1, <1>3, <1>4

\* Where the itineraries of so many hops are known, every one of as many hops
\* or fewer is.
LEMMA GrownKeeps ==
  ASSUME NEW s, NEW f, Grown(f, s), NEW n \in Nat, NEW m \in Nat, n <= m
  PROVE  f[n] \subseteq f[m]
<1>. DEFINE S == {k \in Nat : f[n] \subseteq f[n + k]}
<1>1. 0 \in S
  OBVIOUS
<1>2. ASSUME NEW k \in Nat, k \in S PROVE k + 1 \in S
  <2>1. f[(n + k) + 1] = Longer(f[n + k])
    BY DEF Grown
  <2>2. f[n + k] \subseteq f[(n + k) + 1]
    BY <2>1 DEF Longer
  <2>3. (n + k) + 1 = n + (k + 1)
    OBVIOUS
  <2>. QED  BY <1>2, <2>2, <2>3
<1>. HIDE DEF S
<1>3. Nat \subseteq S
  BY <1>1, <1>2, Induction
<1>4. m - n \in S /\ n + (m - n) = m
  BY <1>3
<1>. QED  BY <1>4 DEF S

\* The beginnings of a way.
Upto(p, i) == SubSeq(p, 1, i)

LEMMA UptoIs ==
  ASSUME NEW g, NEW s, NEW p, Way(g, s, p), NEW i \in 1 .. Len(p)
  PROVE  /\ Upto(p, i) \in Seq(Nodes(g, s)) /\ Len(Upto(p, i)) = i
         /\ DOMAIN Upto(p, i) = 1 .. i
         /\ \A k \in 1 .. i : Upto(p, i)[k] = p[k]
         /\ Last(Upto(p, i)) = p[i]
         /\ i = 1 => Upto(p, i) = <<At(s, NoLine)>>
         /\ i = Len(p) => Upto(p, i) = p
         /\ i > 1 => Upto(p, i) = Append(Upto(p, i - 1), p[i])
<1>1. PICK n \in Nat : n = Len(p) /\ p \in [1 .. n -> Nodes(g, s)]
  BY LenProperties DEF Way
<1>2. /\ Upto(p, i) \in Seq(Nodes(g, s)) /\ Len(Upto(p, i)) = i
      /\ \A k \in 1 .. i : Upto(p, i)[k] = p[k]
  <2>1. \A k \in 1 .. i : p[k] \in Nodes(g, s)
    BY <1>1
  <2>. QED  BY <2>1, SubSeqProperties DEF Upto
<1>3. DOMAIN Upto(p, i) = 1 .. i
  BY <1>2, LenProperties
<1>4. Last(Upto(p, i)) = p[i]
  BY <1>2 DEF Last
<1>5. i = 1 => Upto(p, i) = <<At(s, NoLine)>>
  <2>1. SUFFICES ASSUME i = 1 PROVE Upto(p, 1) = <<At(s, NoLine)>>
    OBVIOUS
  <2>2. Len(<<At(s, NoLine)>>) = 1 /\ <<At(s, NoLine)>> \in Seq(Nodes(g, s))
    BY DEF Nodes
  <2>3. Upto(p, 1)[1] = <<At(s, NoLine)>>[1]
    BY <1>2, <2>1 DEF Way
  <2>. QED  BY <1>2, <2>1, <2>2, <2>3, SeqEqual
<1>6. i = Len(p) => Upto(p, i) = p
  BY SubSeqFull DEF Way, Upto
<1>7. i > 1 => Upto(p, i) = Append(Upto(p, i - 1), p[i])
  <2>1. SUFFICES ASSUME i > 1 PROVE Upto(p, i) = Append(Upto(p, i - 1), p[i])
    OBVIOUS
  <2>2. SubSeq(p, 1, i) = SubSeq(p, 1, i - 1) \o <<p[i]>>
    BY <2>1, SubSeqRecursiveSecond DEF Way
  <2>3. p[i] \in Nodes(g, s) /\ \A k \in 1 .. i - 1 : p[k] \in Nodes(g, s)
    BY <1>1
  <2>4. SubSeq(p, 1, i - 1) \in Seq(Nodes(g, s))
    BY <2>3, SubSeqProperties
  <2>. QED  BY <2>2, <2>3, <2>4, AppendIsConcat DEF Upto
<1>. QED  BY <1>2, <1>3, <1>4, <1>5, <1>6, <1>7

\* A way that comes to no station twice is an itinerary.
LEMMA SimpleWaysAreItineraries ==
  ASSUME net \in Networks, NEW s, NEW p, Way(net, s, p), Simple(p)
  PROVE  p \in Itineraries(s)
<1>1. PICK f : Grown(f, s) /\ Itineraries(s) = f[Cardinality({h.from : h \in Hops(net)})]
  BY ItinerariesGrow
<1>2. PICK n \in Nat : n + 1 = Len(p)
  <2>1. Len(p) \in Nat \ {0}
    BY LenProperties DEF Way
  <2>. QED  BY <2>1
<1>. DEFINE S == {i \in Nat : i <= n => Upto(p, i + 1) \in f[i]}
<1>3. 0 \in S
  <2>1. Upto(p, 1) = <<At(s, NoLine)>>
    BY <1>2, UptoIs
  <2>. QED  BY <1>1, <2>1 DEF Grown
<1>4. ASSUME NEW i \in Nat, i \in S PROVE i + 1 \in S
  <2>1. SUFFICES ASSUME i + 1 <= n PROVE Upto(p, (i + 1) + 1) \in f[i + 1]
    OBVIOUS
  <2>2. PICK j \in 2 .. n + 1 : j = (i + 1) + 1 /\ j - 1 = i + 1
    BY <2>1
  <2>3. PICK q : q = Upto(p, j - 1)
    OBVIOUS
  <2>4. /\ q \in f[i] /\ Last(q) = p[j - 1] /\ DOMAIN q = 1 .. j - 1
        /\ \A k \in 1 .. j - 1 : q[k] = p[k]
    BY <1>2, <1>4, <2>1, <2>2, <2>3, UptoIs
  <2>5. Upto(p, j) = Append(q, p[j])
    BY <1>2, <2>2, <2>3, UptoIs
  <2>6. PICK h \in Adjacency(net, p[j - 1].at) : p[j] = At(h.to, h.line)
    <3>1. j - 1 \in 1 .. Len(p) - 1 /\ (j - 1) + 1 = j
      BY <1>2, <2>2
    <3>2. Follows(net, p[j - 1], p[(j - 1) + 1])
      BY <3>1 DEF Way
    <3>. QED  BY <3>1, <3>2 DEF Follows
  <2>7. \A k \in DOMAIN q : q[k].at # h.to
    <3>1. p[j].at = h.to
      BY <2>6, AtIs
    <3>2. \A k \in 1 .. j - 1 : p[k].at # p[j].at
      BY <1>2, <2>2 DEF Simple
    <3>. QED  BY <2>4, <3>1, <3>2
  <2>8. Append(q, p[j]) \in Longer(f[i])
    <3>1. h \in {g \in Adjacency(net, Last(q).at) : \A k \in DOMAIN q : q[k].at # g.to}
      BY <2>4, <2>6, <2>7
    <3>. QED  BY <2>4, <2>6, <3>1 DEF Longer
  <2>9. f[i + 1] = Longer(f[i])
    BY <1>1 DEF Grown
  <2>. QED  BY <2>2, <2>5, <2>8, <2>9
<1>. HIDE DEF S
<1>5. Nat \subseteq S
  BY <1>3, <1>4, Induction
<1>6. p \in f[n]
  <2>1. Upto(p, n + 1) = p
    BY <1>2, UptoIs
  <2>2. Upto(p, n + 1) \in f[n]
    BY <1>5 DEF S
  <2>. QED  BY <2>1, <2>2
<1>7. PICK c : c = Cardinality({h.from : h \in Hops(net)})
  OBVIOUS
<1>8. c \in Nat
  BY <1>7, FromFinite
<1>9. n <= c
  <2>1. Len(p) - 1 <= c
    BY <1>7, SimpleIsShort
  <2>. QED  BY <1>2, <2>1
<1>. QED  BY <1>1, <1>6, <1>7, <1>8, <1>9, GrownKeeps

\* Where the line does not change it stays what it was.
LEMMA SameLine ==
  ASSUME NEW p, NEW a \in Nat, NEW b \in Nat, a <= b,
         \A k \in a + 1 .. b : p[k].line = p[k - 1].line
  PROVE  \A k \in a .. b : p[k].line = p[a].line
<1>. DEFINE S == {k \in Nat : a + k <= b => p[a + k].line = p[a].line}
<1>1. 0 \in S
  OBVIOUS
<1>2. ASSUME NEW k \in Nat, k \in S PROVE k + 1 \in S
  <2>1. SUFFICES ASSUME a + (k + 1) <= b PROVE p[a + (k + 1)].line = p[a].line
    OBVIOUS
  <2>2. PICK m \in a + 1 .. b : m = a + (k + 1) /\ m - 1 = a + k
    BY <2>1
  <2>3. p[m].line = p[m - 1].line
    BY <2>2
  <2>4. p[a + k].line = p[a].line
    BY <1>2, <2>1
  <2>. QED  BY <2>2, <2>3, <2>4
<1>. HIDE DEF S
<1>3. Nat \subseteq S
  BY <1>1, <1>2, Induction
<1>4. ASSUME NEW k \in a .. b PROVE p[k].line = p[a].line
  <2>1. k - a \in Nat /\ a + (k - a) = k
    OBVIOUS
  <2>. QED  BY <1>3, <2>1 DEF S
<1>. QED  BY <1>4

\* A way that leaves out what lies between two calls at a station.
Cut(p, i, j) ==
  [k \in 1 .. Len(p) - (j - i) |-> IF k <= i THEN p[k] ELSE p[k + (j - i)]]

\* It is a way to the same station.
LEMMA CutIsWay ==
  ASSUME NEW g, NEW s, NEW p, Way(g, s, p),
         NEW i \in 1 .. Len(p), NEW j \in i + 1 .. Len(p), p[i].at = p[j].at
  PROVE  /\ Way(g, s, Cut(p, i, j)) /\ Last(Cut(p, i, j)).at = Last(p).at
         /\ Len(Cut(p, i, j)) = Len(p) - (j - i)
<1>1. PICK n \in Nat : n = Len(p) /\ p \in [1 .. n -> Nodes(g, s)]
  BY LenProperties DEF Way
<1>2. PICK d \in Nat \ {0} : d = j - i
  BY <1>1
<1>3. PICK m \in Nat : m = n - d /\ m >= i
  BY <1>1, <1>2
<1>4. PICK q : q = Cut(p, i, j)
  OBVIOUS
<1>5. /\ q = [k \in 1 .. m |-> IF k <= i THEN p[k] ELSE p[k + d]]
      /\ q \in [1 .. m -> Nodes(g, s)]
  BY <1>1, <1>2, <1>3, <1>4 DEF Cut
<1>6. q \in Seq(Nodes(g, s)) /\ Len(q) = m
  BY <1>5
<1>7. \A k \in 1 .. m : q[k] = IF k <= i THEN p[k] ELSE p[k + d]
  BY <1>5
<1>8. ASSUME NEW k \in 1 .. m - 1 PROVE Follows(g, q[k], q[k + 1])
  <2>1. \A a \in 1 .. n - 1 : Follows(g, p[a], p[a + 1])
    BY <1>1 DEF Way
  <2>2. CASE k < i
    <3>1. q[k] = p[k] /\ q[k + 1] = p[k + 1] /\ k \in 1 .. n - 1
      BY <1>1, <1>3, <1>7, <2>2
    <3>. QED  BY <2>1, <3>1
  <2>3. CASE k = i
    <3>1. q[k] = p[i] /\ q[k + 1] = p[j + 1] /\ j \in 1 .. n - 1
      <4>1. /\ k \in 1 .. m /\ k + 1 \in 1 .. m /\ k <= i /\ ~(k + 1 <= i)
            /\ (k + 1) + d = j + 1 /\ j \in 1 .. n - 1
        BY <1>1, <1>2, <1>3, <2>3
      <4>2. q[k + 1] = p[(k + 1) + d]
        BY <1>7, <4>1
      <4>. QED  BY <1>7, <2>3, <4>1, <4>2
    <3>2. Follows(g, p[j], p[j + 1])
      BY <2>1, <3>1
    <3>. QED  BY <3>1, <3>2 DEF Follows
  <2>4. CASE k > i
    <3>1. q[k] = p[k + d] /\ q[k + 1] = p[(k + d) + 1] /\ k + d \in 1 .. n - 1
      BY <1>1, <1>2, <1>3, <1>7, <2>4
    <3>. QED  BY <2>1, <3>1
  <2>. QED  BY <1>3, <2>2, <2>3, <2>4
<1>9. q[1] = p[1] /\ m > 0
  BY <1>1, <1>3, <1>7
<1>10. Last(q).at = Last(p).at
  <2>1. Last(q) = q[m] /\ Last(p) = p[n]
    BY <1>1, <1>6 DEF Last
  <2>2. CASE m = i
    <3>1. n = j /\ m \in 1 .. m
      <4>1. i \in Nat /\ j \in Nat /\ n \in Nat /\ m = n - (j - i)
        BY <1>1, <1>2, <1>3
      <4>. QED  BY <1>9, <2>2, <4>1
    <3>2. q[m] = p[i]
      BY <1>7, <2>2, <3>1
    <3>. QED  BY <2>1, <3>1, <3>2
  <2>3. CASE m > i
    <3>1. q[m] = p[m + d] /\ m + d = n
      BY <1>1, <1>2, <1>3, <1>7, <1>9, <2>3
    <3>. QED  BY <2>1, <3>1
  <2>. QED  BY <1>3, <2>2, <2>3
<1>. QED  BY <1>1, <1>2, <1>3, <1>4, <1>6, <1>8, <1>9, <1>10 DEF Way

\* It costs less: it has fewer hops, and where it changes line because of what
\* is left out, what is left out changed line too.
LEMMA CutIsCheaper ==
  ASSUME NEW g, NEW s, NEW p, Way(g, s, p),
         NEW i \in 1 .. Len(p), NEW j \in i + 1 .. Len(p), p[i].at = p[j].at
  PROVE  Fare(Cut(p, i, j)) < Fare(p)
<1>1. PICK n \in Nat : n = Len(p)
  BY LenProperties DEF Way
<1>2. PICK d \in Nat \ {0} : d = j - i
  BY <1>1
<1>3. PICK m \in Nat \ {0} : m = n - d /\ m >= i
  BY <1>1, <1>2
<1>4. PICK q : q = Cut(p, i, j)
  OBVIOUS
<1>5. /\ \A k \in 1 .. m : q[k] = IF k <= i THEN p[k] ELSE p[k + d]
      /\ Len(q) = m
  BY <1>1, <1>2, <1>3, <1>4, CutIsWay DEF Cut
<1>. DEFINE C == Changes(q, m)
            B == Changes(p, n)
<1>6. IsFiniteSet(B) /\ Cardinality(B) \in Nat /\ Cardinality(C) \in Nat
  BY <1>1, <1>3, TollIs
<1>7. i + 1 \in C => \E w \in B : w \in i + 1 .. j + 1
  <2>1. SUFFICES ASSUME i + 1 \in C, \A w \in i + 1 .. j + 1 : w \notin B
                 PROVE  FALSE
    OBVIOUS
  <2>2. i + 1 \in 3 .. m /\ q[i + 1].line # q[i].line
    BY <2>1 DEF Changes
  <2>3. j + 1 \in 3 .. n /\ i >= 2 /\ q[i + 1] = p[j + 1] /\ q[i] = p[i]
    BY <1>1, <1>2, <1>3, <1>5, <2>2
  <2>4. \A k \in i + 1 .. j + 1 : p[k].line = p[k - 1].line
    <3>1. ASSUME NEW k \in i + 1 .. j + 1 PROVE p[k].line = p[k - 1].line
      <4>1. k \in 3 .. n
        BY <1>1, <2>3
      <4>. QED  BY <2>1, <4>1 DEF Changes
    <3>. QED  BY <3>1
  <2>5. p[j + 1].line = p[i].line
    <3>1. i \in Nat /\ j + 1 \in Nat /\ i <= j + 1
      OBVIOUS
    <3>2. \A k \in i .. j + 1 : p[k].line = p[i].line
      BY <2>4, <3>1, SameLine
    <3>. QED  BY <3>1, <3>2
  <2>. QED  BY <2>2, <2>3, <2>5
<1>8. PICK w : i + 1 \in C => w \in B /\ w \in i + 1 .. j + 1
  BY <1>7
<1>. DEFINE move == [k \in C |-> IF k <= i THEN k ELSE IF k = i + 1 THEN w ELSE k + d]
<1>9. ASSUME NEW k \in C
      PROVE  /\ move[k] \in B
             /\ k <= i => move[k] = k
             /\ k = i + 1 => move[k] \in i + 1 .. j + 1
             /\ k > i + 1 => move[k] = k + d /\ move[k] > j + 1
  <2>1. k \in 3 .. m /\ q[k].line # q[k - 1].line
    BY DEF Changes
  <2>2. CASE k <= i
    <3>1. q[k] = p[k] /\ q[k - 1] = p[k - 1] /\ k \in 3 .. n
      BY <1>1, <1>3, <1>5, <2>1, <2>2
    <3>2. k \in B
      BY <2>1, <3>1 DEF Changes
    <3>. QED  BY <2>1, <2>2, <3>2
  <2>3. CASE k = i + 1
    <3>1. ~(k <= i)
      BY <2>3
    <3>2. move[k] = w
      BY <2>3, <3>1
    <3>. QED  BY <1>8, <2>3, <3>1, <3>2
  <2>4. CASE k > i + 1
    <3>1. k + d \in 3 .. n /\ k + d > j + 1 /\ (k + d) - 1 = (k - 1) + d
      BY <1>1, <1>2, <1>3, <2>1, <2>4
    <3>2. k \in 1 .. m /\ k - 1 \in 1 .. m /\ ~(k <= i) /\ ~(k - 1 <= i)
      BY <2>1, <2>4
    <3>3. q[k] = p[k + d] /\ q[k - 1] = p[(k + d) - 1]
      BY <1>5, <3>1, <3>2
    <3>4. k + d \in B
      BY <2>1, <3>1, <3>3 DEF Changes
    <3>5. move[k] = k + d
      BY <2>4, <3>2
    <3>. HIDE DEF move, B
    <3>. QED  BY <2>4, <3>1, <3>2, <3>4, <3>5
  <2>5. k <= i \/ k = i + 1 \/ k > i + 1
    BY <2>1
  <2>. HIDE DEF move, B, C
  <2>. QED  BY <2>2, <2>3, <2>4, <2>5
<1>10. move \in Injection(C, B)
  <2>1. ASSUME NEW k \in C, NEW l \in C, move[k] = move[l] PROVE k = l
    <3>1. k \in Nat /\ l \in Nat
      BY DEF Changes
    <3>. HIDE DEF move, C, B
    <3>. QED  BY <1>2, <1>9, <2>1, <3>1
  <2>2. move \in [C -> B]
    <3>1. \A k \in C : move[k] \in B
      BY <1>9
    <3>. HIDE DEF C, B
    <3>. QED  BY <3>1
  <2>. HIDE DEF move, C, B
  <2>. QED  BY <2>1, <2>2 DEF Injection, IsInjective
<1>11. Cardinality(C) <= Cardinality(B)
  <2>. HIDE DEF move, C, B
  <2>. QED  BY <1>6, <1>10, FS_Injection
<1>12. Fare(q) = Toll(q, m) /\ Fare(p) = Toll(p, n)
  BY <1>1, <1>5 DEF Fare, Toll, Changes
<1>13. Toll(q, m) = 2 * (m - 1) + 5 * Cardinality(C) /\ Toll(p, n) = 2 * (n - 1) + 5 * Cardinality(B)
  BY DEF Toll
<1>. HIDE DEF C, B
<1>. QED  BY <1>2, <1>3, <1>4, <1>6, <1>11, <1>12, <1>13

\* The cheapest way there is comes to no station twice.
LEMMA CheapestIsSimple ==
  ASSUME NEW g, NEW j, NEW p, Joins(g, j, p),
         \A q : Joins(g, j, q) => Fare(p) <= Fare(q)
  PROVE  Simple(p)
<1>1. ASSUME NEW a \in 1 .. Len(p), NEW b \in a + 1 .. Len(p), p[a].at = p[b].at
      PROVE  FALSE
  <2>1. PICK q : q = Cut(p, a, b)
    OBVIOUS
  <2>2. Joins(g, j, q)
    BY <1>1, <2>1, CutIsWay DEF Joins
  <2>3. Fare(q) < Fare(p)
    BY <1>1, <2>1, CutIsCheaper DEF Joins
  <2>4. Fare(q) \in Nat /\ Fare(p) \in Nat
    BY <2>2, FareIs DEF Joins
  <2>. QED  BY <2>2, <2>3, <2>4
<1>2. Len(p) \in Nat
  BY LenProperties DEF Joins, Way
<1>3. ASSUME NEW a \in 1 .. Len(p), NEW b \in 1 .. Len(p), p[a].at = p[b].at, a # b
      PROVE  FALSE
  <2>1. b \in a + 1 .. Len(p) \/ a \in b + 1 .. Len(p)
    BY <1>2, <1>3
  <2>. QED  BY <1>1, <1>3, <2>1
<1>. QED  BY <1>3 DEF Simple

\* An itinerary to the destination joins the two stations.
LEMMA WaysJoin ==
  ASSUME net \in Networks
  PROVE  \A q \in Ways : Joins(net, job, q)
<1>1. PICK f : /\ Grown(f, job.from)
               /\ Itineraries(job.from) = f[Cardinality({h.from : h \in Hops(net)})]
  BY ItinerariesGrow
<1>2. Cardinality({h.from : h \in Hops(net)}) \in Nat
  BY FromFinite
<1>3. \A q \in Itineraries(job.from) : Way(net, job.from, q)
  BY <1>1, <1>2, ItinerariesAreWays
<1>. QED  BY <1>3 DEF Ways, Joins

\* The least fare of an itinerary is the fare of the cheapest way.
LEMMA LeastFare ==
  ASSUME net \in Networks, NEW p, Joins(net, job, p),
         \A q : Joins(net, job, q) => Fare(p) <= Fare(q)
  PROVE  Min({Fare(q) : q \in Ways}) = Fare(p)
<1>1. p \in Ways
  <2>1. p \in Itineraries(job.from)
    BY CheapestIsSimple, SimpleWaysAreItineraries DEF Joins
  <2>. QED  BY <2>1 DEF Ways, Joins
<1>2. \A q \in Ways : Joins(net, job, q)
  BY WaysJoin
<1>3. \A q \in Ways : Fare(q) \in Nat /\ Fare(p) <= Fare(q)
  BY <1>2, FareIs DEF Joins
<1>. DEFINE F == {Fare(q) : q \in Ways}
<1>4. Fare(p) \in F /\ \A x \in F : x \in Nat /\ Fare(p) <= x
  BY <1>1, <1>3
<1>. HIDE DEF F
<1>5. Min(F) \in F /\ \A x \in F : Min(F) <= x
  BY <1>4 DEF Min
<1>6. Min(F) = Fare(p)
  BY <1>4, <1>5
<1>. QED  BY <1>6 DEF F

-----------------------------------------------------------------------------
(***************************************************************************)
(* Directions: their minutes, their rides and their changes, one leg after *)
(* the other.                                                              *)
(***************************************************************************)

Mins(legs) == [i \in DOMAIN legs |-> legs[i].min]

\* A leg more takes its minutes more.
LEMMA MinsAppend ==
  ASSUME NEW S, \A x \in S : x.min \in Int, NEW s \in Seq(S), NEW x \in S
  PROVE  /\ SumFunction(Mins(s)) \in Int
         /\ SumFunction(Mins(Append(s, x))) = SumFunction(Mins(s)) + x.min
<1>1. PICK n \in Nat : n = Len(s) /\ s \in [1 .. n -> S]
  BY LenProperties
<1>2. PICK t : t = Append(s, x)
  OBVIOUS
<1>3. t \in [1 .. n + 1 -> S] /\ t[n + 1] = x /\ \A i \in 1 .. n : t[i] = s[i]
  <2>1. /\ t \in Seq(S) /\ Len(t) = n + 1 /\ t[n + 1] = x
        /\ \A i \in 1 .. n : t[i] = s[i]
    BY <1>1, <1>2, AppendProperties
  <2>2. t \in [1 .. n + 1 -> S]
    BY <2>1, LenProperties
  <2>. QED  BY <2>1, <2>2
<1>4. DOMAIN s = 1 .. n /\ DOMAIN t = 1 .. n + 1
  BY <1>1, <1>3
<1>5. PICK v, w : v = Mins(s) /\ w = Mins(t)
  OBVIOUS
<1>6. v \in [1 .. n -> Int] /\ w \in [1 .. n + 1 -> Int]
  BY <1>1, <1>3, <1>4, <1>5 DEF Mins
<1>7. w[n + 1] = x.min /\ \A i \in 1 .. n : w[i] = v[i]
  BY <1>1, <1>3, <1>4, <1>5 DEF Mins
<1>8. SumFunction(v) \in Int /\ SumFunction(w) = SumFunction(v) + w[n + 1]
  BY <1>6, <1>7, SumAppends
<1>. QED  BY <1>2, <1>5, <1>7, <1>8

\* Nothing told yet takes no time.
LEMMA MinsEmpty == SumFunction(Mins(<<>>)) = 0
<1>1. PICK D, v : D = {} /\ v = [x \in D |-> 0]
  OBVIOUS
<1>2. Mins(<<>>) = v
  BY <1>1 DEF Mins
<1>3. IsFiniteSet(D) /\ v \in [D -> Int]
  BY <1>1, FS_EmptySet
<1>4. PICK H : Sums(H, D, v) /\ H[D] = SumFunction(v)
  BY <1>3, SumIs
<1>. QED  BY <1>1, <1>2, <1>4 DEF Sums

\* The rides among the first legs.
RidesUpto(F, s, S) ==
  /\ F \in [0 .. Len(s) -> Seq(S)] /\ F[0] = <<>>
  /\ \A i \in 0 .. Len(s) - 1 :
       F[i + 1] = IF IsRide(s[i + 1]) THEN Append(F[i], s[i + 1]) ELSE F[i]

LEMMA RidesAre ==
  ASSUME NEW S, NEW s \in Seq(S)
  PROVE  \E F : RidesUpto(F, s, S) /\ Rides(s) = F[Len(s)]
<1>. DEFINE U     == Seq(S)
            On(u, i) == IF IsRide(s[i]) THEN Append(u, s[i]) ELSE u
            G     == [k \in Nat |-> [u \in U |-> IF k < Len(s) THEN On(u, k + 1) ELSE u]]
            Is(F) == F = [i \in 0 .. Len(s) |-> IF i = 0 THEN <<>> ELSE On(F[i - 1], i)]
            sel   == CHOOSE F : Is(F)
<1>1. PICK n \in Nat : n = Len(s) /\ \A i \in 1 .. n : s[i] \in S
  BY LenProperties, ElementOfSeq
<1>2. \A u \in U, i \in 1 .. n : On(u, i) \in U
  BY <1>1, AppendProperties
<1>3. <<>> \in U
  OBVIOUS
<1>4. G \in [Nat -> [U -> U]]
  <2>1. ASSUME NEW k \in Nat, NEW u \in U
        PROVE  (IF k < Len(s) THEN On(u, k + 1) ELSE u) \in U
    <3>. HIDE DEF On, U
    <3>. QED  BY <1>1, <1>2
  <2>. HIDE DEF On, U
  <2>. QED  BY <2>1
<1>5. PICK f : Computed(f, U, <<>>, G)
  <2>. HIDE DEF U, G
  <2>. QED  BY <1>3, <1>4, Recursion
<1>. DEFINE F == [i \in 0 .. n |-> f[i]]
<1>6. /\ F \in [0 .. n -> U] /\ F[0] = <<>>
      /\ \A i \in 0 .. n - 1 : F[i + 1] = On(F[i], i + 1)
  <2>1. ASSUME NEW i \in 0 .. n - 1 PROVE f[i + 1] = On(f[i], i + 1)
    <3>1. i \in Nat /\ i < n /\ G[i] = [u \in U |-> IF i < Len(s) THEN On(u, i + 1) ELSE u]
      OBVIOUS
    <3>. HIDE DEF U, On, G
    <3>2. f[i + 1] = G[i][f[i]] /\ f[i] \in U
      BY <1>5, <3>1 DEF Computed
    <3>. QED  BY <1>1, <3>1, <3>2
  <2>. HIDE DEF U, On
  <2>. QED  BY <1>5, <2>1 DEF Computed
<1>7. Is(F)
  <2>1. ASSUME NEW i \in 0 .. n, i # 0 PROVE F[i] = On(F[i - 1], i)
    <3>1. i - 1 \in 0 .. n - 1 /\ (i - 1) + 1 = i
      BY <2>1
    <3>. HIDE DEF F, On
    <3>. QED  BY <1>6, <3>1
  <2>2. F = [i \in 0 .. n |-> IF i = 0 THEN <<>> ELSE On(F[i - 1], i)]
    <3>. HIDE DEF On
    <3>. QED  BY <1>6, <2>1
  <2>. HIDE DEF On, F
  <2>. QED  BY <1>1, <2>2
<1>8. Is(sel)
  <2>. HIDE DEF Is
  <2>. QED  BY <1>7
<1>9. Rides(s) = sel[Len(s)]
  BY Zenon DEF Rides
<1>. HIDE DEF sel
<1>10. \A i \in 0 .. n : sel[i] = IF i = 0 THEN <<>> ELSE On(sel[i - 1], i)
  <2>. HIDE DEF On
  <2>. QED  BY <1>1, <1>8
<1>11. sel[0] = <<>> /\ \A i \in 0 .. n - 1 : sel[i + 1] = On(sel[i], i + 1)
  <2>1. ASSUME NEW i \in 0 .. n - 1 PROVE sel[i + 1] = On(sel[i], i + 1)
    <3>1. i + 1 \in 0 .. n /\ i + 1 # 0 /\ (i + 1) - 1 = i
      OBVIOUS
    <3>. HIDE DEF On
    <3>. QED  BY <1>10, <3>1
  <2>. HIDE DEF On
  <2>. QED  BY <1>10, <2>1
<1>12. sel \in [0 .. n -> U]
  <2>. DEFINE T == {i \in Nat : i <= n => sel[i] \in U}
  <2>1. 0 \in T
    BY <1>3, <1>11
  <2>2. ASSUME NEW i \in Nat, i \in T PROVE i + 1 \in T
    <3>1. SUFFICES ASSUME i + 1 <= n PROVE sel[i + 1] \in U
      OBVIOUS
    <3>2. i \in 0 .. n - 1 /\ i + 1 \in 1 .. n /\ sel[i] \in U
      BY <2>2, <3>1
    <3>. HIDE DEF U, On
    <3>. QED  BY <1>2, <1>11, <3>2
  <2>. HIDE DEF T
  <2>3. Nat \subseteq T
    BY <2>1, <2>2, Induction
  <2>. HIDE DEF U, On
  <2>4. sel = [i \in 0 .. n |-> IF i = 0 THEN <<>> ELSE On(sel[i - 1], i)]
    BY <1>1, <1>8
  <2>. QED  BY <2>3, <2>4 DEF T
<1>. QED  BY <1>1, <1>9, <1>11, <1>12 DEF RidesUpto

\* A leg more is a ride more where it is one.
LEMMA RidesAppend ==
  ASSUME NEW S, NEW s \in Seq(S), NEW x \in S
  PROVE  /\ Rides(s) \in Seq(S)
         /\ Rides(Append(s, x)) = IF IsRide(x) THEN Append(Rides(s), x) ELSE Rides(s)
<1>1. PICK n \in Nat : n = Len(s)
  BY LenProperties
<1>2. PICK t : t = Append(s, x)
  OBVIOUS
<1>3. t \in Seq(S) /\ Len(t) = n + 1 /\ t[n + 1] = x /\ \A i \in 1 .. n : t[i] = s[i]
  BY <1>1, <1>2, AppendProperties
<1>4. PICK F : RidesUpto(F, s, S) /\ Rides(s) = F[n]
  BY <1>1, RidesAre
<1>5. PICK G : RidesUpto(G, t, S) /\ Rides(t) = G[n + 1]
  BY <1>3, RidesAre
<1>. DEFINE T == {i \in Nat : i <= n => G[i] = F[i]}
<1>6. 0 \in T
  BY <1>4, <1>5 DEF RidesUpto
<1>7. ASSUME NEW i \in Nat, i \in T PROVE i + 1 \in T
  <2>1. SUFFICES ASSUME i + 1 <= n PROVE G[i + 1] = F[i + 1]
    OBVIOUS
  <2>2. i \in 0 .. n - 1 /\ i \in 0 .. (n + 1) - 1 /\ t[i + 1] = s[i + 1] /\ G[i] = F[i]
    BY <1>3, <1>7, <2>1
  <2>3. F[i + 1] = IF IsRide(s[i + 1]) THEN Append(F[i], s[i + 1]) ELSE F[i]
    BY <1>1, <1>4, <2>2 DEF RidesUpto
  <2>4. G[i + 1] = IF IsRide(t[i + 1]) THEN Append(G[i], t[i + 1]) ELSE G[i]
    BY <1>3, <1>5, <2>2 DEF RidesUpto
  <2>. QED  BY <2>2, <2>3, <2>4
<1>. HIDE DEF T
<1>8. Nat \subseteq T
  BY <1>6, <1>7, Induction
<1>9. G[n] = F[n]
  BY <1>8 DEF T
<1>10. G[n + 1] = IF IsRide(x) THEN Append(G[n], x) ELSE G[n]
  <2>1. n \in 0 .. Len(t) - 1
    BY <1>3
  <2>. QED  BY <1>3, <1>5, <2>1 DEF RidesUpto
<1>11. F[n] \in Seq(S)
  BY <1>1, <1>4 DEF RidesUpto
<1>. QED  BY <1>2, <1>4, <1>5, <1>9, <1>10, <1>11

\* There is no ride where nothing is told.
LEMMA RidesEmpty == Rides(<<>>) = <<>>
<1>1. PICK S : S = {0}
  OBVIOUS
<1>2. PICK F : RidesUpto(F, <<>>, S) /\ Rides(<<>>) = F[Len(<<>>)]
  BY RidesAre, EmptySeq
<1>. QED  BY <1>2, EmptySeq DEF RidesUpto

\* The line in hand where legs end, from their first n.
LEMMA LastLineIs ==
  ASSUME NEW s, NEW n \in Nat
  PROVE  /\ s[n + 1].line # NoLine => LastLine(s, n + 2) = s[n + 1].line
         /\ s[n + 1].line = NoLine => LastLine(s, n + 2) = LastLine(s, n + 1)
<1>. DEFINE L(i) == {k \in 1 .. i - 1 : s[k].line # NoLine}
<1>1. L(n + 2) = {k \in 1 .. n + 1 : s[k].line # NoLine} /\ L(n + 1) = {k \in 1 .. n : s[k].line # NoLine}
  OBVIOUS
<1>2. LastLine(s, n + 2) = IF L(n + 2) = {} THEN NoLine ELSE s[Max(L(n + 2))].line
  BY DEF LastLine
<1>3. LastLine(s, n + 1) = IF L(n + 1) = {} THEN NoLine ELSE s[Max(L(n + 1))].line
  BY DEF LastLine
<1>4. CASE s[n + 1].line # NoLine
  <2>1. n + 1 \in L(n + 2) /\ L(n + 2) \in SUBSET (0 .. n + 1) /\ n + 1 \in Nat
    BY <1>1, <1>4
  <2>. HIDE DEF L
  <2>2. Max(L(n + 2)) \in L(n + 2) /\ \A x \in L(n + 2) : x <= Max(L(n + 2))
    BY <2>1, LargestOf
  <2>3. Max(L(n + 2)) = n + 1
    BY <2>1, <2>2
  <2>. QED  BY <1>2, <1>4, <2>1, <2>3
<1>5. CASE s[n + 1].line = NoLine
  <2>1. L(n + 2) = L(n + 1)
    BY <1>1, <1>5
  <2>. HIDE DEF L
  <2>. QED  BY <1>2, <1>3, <1>5, <2>1
<1>. QED  BY <1>4, <1>5

\* It is told by the legs before.
LEMMA LastLineOfFirst ==
  ASSUME NEW s, NEW t, NEW n \in Nat, \A k \in 1 .. n : t[k] = s[k], NEW i \in 1 .. n + 1
  PROVE  LastLine(t, i) = LastLine(s, i)
<1>. DEFINE L(u) == {k \in 1 .. i - 1 : u[k].line # NoLine}
<1>1. L(t) = L(s) /\ L(s) \in SUBSET (0 .. n)
  OBVIOUS
<1>2. /\ LastLine(s, i) = IF L(s) = {} THEN NoLine ELSE s[Max(L(s))].line
      /\ LastLine(t, i) = IF L(t) = {} THEN NoLine ELSE t[Max(L(t))].line
  BY DEF LastLine
<1>3. L(s) # {} => Max(L(s)) \in L(s)
  <2>. HIDE DEF L
  <2>. QED  BY <1>1, LargestOf
<1>4. L(s) # {} => t[Max(L(s))] = s[Max(L(s))]
  <2>1. \A k \in L(s) : t[k] = s[k]
    OBVIOUS
  <2>. HIDE DEF L
  <2>. QED  BY <1>3, <2>1
<1>. HIDE DEF L
<1>. QED  BY <1>1, <1>2, <1>4

LineIn(legs) == LastLine(legs, Len(legs) + 1)

\* A leg more is a change more where it boards another line.
LEMMA ChangeoversAppend ==
  ASSUME NEW S, NEW s \in Seq(S), NEW x \in S, NEW t, t = Onward(s, x)
  PROVE  /\ Cardinality(Changeovers(s)) \in Nat
         /\ Cardinality(Changeovers(t)) = Cardinality(Changeovers(s)) +
              IF x.kind = "board" /\ LineIn(s) \notin {NoLine, x.line} THEN 1 ELSE 0
         /\ LineIn(t) = IF x.line # NoLine THEN x.line ELSE LineIn(s)
<1>1. PICK n \in Nat : n = Len(s) /\ DOMAIN s = 1 .. n
  BY LenProperties
<1>2. /\ t \in Seq(S) /\ Len(t) = n + 1 /\ t[n + 1] = x
      /\ \A i \in 1 .. n : t[i] = s[i]
  BY <1>1, AppendProperties DEF Onward
<1>3. DOMAIN t = 1 .. n + 1
  BY <1>2, LenProperties
<1>4. \A i \in 1 .. n + 1 : LastLine(t, i) = LastLine(s, i)
  BY <1>2, LastLineOfFirst
<1>5. PICK l : l = LineIn(s) /\ l = LastLine(t, n + 1)
  BY <1>1, <1>4 DEF LineIn
<1>6. LineIn(t) = IF x.line # NoLine THEN x.line ELSE l
  <2>1. LineIn(t) = LastLine(t, n + 2)
    BY <1>2 DEF LineIn
  <2>. QED  BY <1>2, <1>5, <2>1, LastLineIs
<1>7. PICK A : A = Changeovers(s) /\ A \in SUBSET (1 .. n)
  BY <1>1 DEF Changeovers
<1>8. PICK B : B = Changeovers(t) /\ B \in SUBSET (1 .. n + 1)
  BY <1>3 DEF Changeovers
<1>9. \A i \in 1 .. n : i \in B <=> i \in A
  <2>1. ASSUME NEW i \in 1 .. n PROVE i \in B <=> i \in A
    <3>1. t[i] = s[i] /\ LastLine(t, i) = LastLine(s, i) /\ i \in DOMAIN s /\ i \in DOMAIN t
      BY <1>1, <1>2, <1>3, <1>4
    <3>. QED  BY <1>7, <1>8, <3>1 DEF Changeovers
  <2>. QED  BY <2>1
<1>10. n + 1 \in B <=> x.kind = "board" /\ l \notin {NoLine, x.line}
  <2>1. n + 1 \in DOMAIN t
    BY <1>3
  <2>. QED  BY <1>2, <1>5, <1>8, <2>1 DEF Changeovers
<1>11. IsFiniteSet(A) /\ Cardinality(A) \in Nat /\ n + 1 \notin A
  BY <1>7, PartOfInterval
<1>12. CASE n + 1 \in B
  <2>1. B = A \cup {n + 1}
    BY <1>7, <1>8, <1>9, <1>12
  <2>2. Cardinality(B) = Cardinality(A) + 1
    BY <1>11, <2>1, FS_AddElement
  <2>. QED  BY <1>5, <1>6, <1>7, <1>8, <1>10, <1>11, <1>12, <2>2
<1>13. CASE n + 1 \notin B
  <2>1. \A i \in B : i \in 1 .. n
    BY <1>8, <1>13
  <2>2. B = A
    BY <1>7, <1>9, <2>1
  <2>3. ~(x.kind = "board" /\ l \notin {NoLine, x.line})
    BY <1>10, <1>13
  <2>4. Cardinality(B) = Cardinality(A) + 0
    BY <1>11, <2>2
  <2>. QED  BY <1>5, <1>6, <1>7, <1>8, <1>11, <2>3, <2>4
<1>. QED  BY <1>12, <1>13


-----------------------------------------------------------------------------
(***************************************************************************)
(* Directions along a way, told up to a station of it: the minutes of the  *)
(* walk and of the hops so far, rides that join up to that station and     *)
(* change line as often as the way does, and a first station named that is *)
(* the first of the way.                                                   *)
(***************************************************************************)

Origin(j)      == WalkLeg(j.walk_from, "(origin)", j.from)
Destination(j) == WalkLeg(j.walk_to, j.to, "(destination)")
AlightLeg(j)   == Leg("alight", NoStation, j.to, NoLine, 0, <<>>)

WalkLegs(j) ==
  {Leg("walk", "(origin)", j.from, NoLine, WalkMin(j.walk_from), <<>>),
   Leg("walk", j.to, "(destination)", NoLine, WalkMin(j.walk_to), <<>>)}

LegsOf(j, p) ==
  {RideLeg(p, a, b) : a \in 1 .. Len(p), b \in 1 .. Len(p)}
    \cup {BoardLeg(p, a) : a \in 1 .. Len(p)} \cup {AlightLeg(j)} \cup WalkLegs(j)

\* The line does not change after the first hop from a, up to b.
OneRun(p, a, b) == \A k \in a + 2 .. b : p[k].line = p[k - 1].line

RideOf(p, leg) ==
  \E a \in 1 .. Len(p) : \E b \in a + 1 .. Len(p) : leg = RideLeg(p, a, b) /\ OneRun(p, a, b)

Joined(p, rides, k) ==
  /\ \A i \in 1 .. Len(rides) : RideOf(p, rides[i])
  /\ \A i \in 1 .. Len(rides) - 1 : rides[i].to = rides[i + 1].from
  /\ k = 1 => rides = <<>>
  /\ k > 1 => /\ rides # <<>> /\ rides[1].from = p[1].at
              /\ Last(rides).to = p[k].at

\* The legs change line as often as the way does up to its m-th station, which
\* the line in hand reaches.
Counted(p, legs, m) ==
  /\ Cardinality(Changeovers(legs)) = Cardinality(Changes(p, m))
  /\ LineIn(legs) = p[m].line

\* The first station of a way is on no line, and the others are on one.
Lined(p) == p[1].line = NoLine /\ \A k \in 2 .. Len(p) : p[k].line # NoLine

Opens(j, p, legs) ==
  /\ \A i \in 1 .. Len(Origin(j)) : legs[i].kind = "walk"
  /\ Len(legs) > Len(Origin(j)) =>
       legs[Len(Origin(j)) + 1].kind # "walk" /\ legs[Len(Origin(j)) + 1].from = p[1].at

Whole(j, p, legs, k) ==
  /\ legs \in Seq(LegsOf(j, p)) /\ Len(legs) >= Len(Origin(j))
  /\ k > 1 => Len(legs) > Len(Origin(j))
  /\ SumFunction(Mins(legs)) = WalkedMin(j.walk_from) + 2 * (k - 1)
  /\ Joined(p, Rides(legs), k)
  /\ Opens(j, p, legs)

Walked(j) == j.walk_from \in Nat /\ j.walk_to \in Nat

\* A walk takes a number of minutes.
LEMMA WalkMinIs == \A m \in Nat : WalkMin(m) \in Int
<1>1. \A m \in Nat : RoundHalfEven(m, 78) \in Int
  BY DEF RoundHalfEven
<1>. QED  BY <1>1 DEF WalkMin, Minutes

\* Every leg takes a number of minutes.
LEMMA LegsTakeMinutes ==
  ASSUME NEW j, Walked(j), NEW p, Len(p) \in Nat
  PROVE  \A x \in LegsOf(j, p) : x.min \in Int
<1>1. \A m : \A k, f, t, l, z : Leg(k, f, t, l, m, z).min = m
  BY DEF Leg
<1>2. \A x \in WalkLegs(j) : x.min \in Int
  BY <1>1, WalkMinIs DEF WalkLegs, Walked
<1>3. AlightLeg(j).min \in Int /\ \A a : BoardLeg(p, a).min \in Int
  BY <1>1 DEF AlightLeg, BoardLeg
<1>4. ASSUME NEW a \in 1 .. Len(p), NEW b \in 1 .. Len(p) PROVE RideLeg(p, a, b).min \in Int
  <2>1. RideLeg(p, a, b).min = (b - a) * InterstationMin
    BY <1>1 DEF RideLeg
  <2>. QED  BY <2>1 DEF InterstationMin
<1>. QED  BY <1>2, <1>3, <1>4 DEF LegsOf

More(j, p, s, x, t) ==
  /\ t \in Seq(LegsOf(j, p)) /\ Len(t) = Len(s) + 1 /\ Len(s) \in Nat
  /\ t[Len(s) + 1] = x /\ \A i \in 1 .. Len(s) : t[i] = s[i]
  /\ SumFunction(Mins(s)) \in Int
  /\ SumFunction(Mins(t)) = SumFunction(Mins(s)) + x.min
  /\ Cardinality(Changeovers(s)) \in Nat
  /\ Cardinality(Changeovers(t)) = Cardinality(Changeovers(s)) +
       IF x.kind = "board" /\ LineIn(s) \notin {NoLine, x.line} THEN 1 ELSE 0
  /\ LineIn(t) = IF x.line # NoLine THEN x.line ELSE LineIn(s)
  /\ Rides(s) \in Seq(LegsOf(j, p))
  /\ Rides(t) = IF IsRide(x) THEN Append(Rides(s), x) ELSE Rides(s)

\* A leg more: what it adds to the minutes and the rides.
LEMMA LegMore ==
  ASSUME NEW j, Walked(j), NEW p, Len(p) \in Nat,
         NEW s \in Seq(LegsOf(j, p)), NEW x \in LegsOf(j, p), NEW t, t = Onward(s, x)
  PROVE  More(j, p, s, x, t)
<1>1. PICK S : S = LegsOf(j, p)
  OBVIOUS
<1>2. \A y \in S : y.min \in Int
  BY <1>1, LegsTakeMinutes
<1>3. s \in Seq(S) /\ x \in S /\ t = Append(s, x)
  BY <1>1 DEF Onward
<1>4. /\ t \in Seq(S) /\ Len(t) = Len(s) + 1 /\ Len(s) \in Nat
      /\ t[Len(s) + 1] = x /\ \A i \in 1 .. Len(s) : t[i] = s[i]
  BY <1>3, AppendProperties, LenProperties
<1>5. SumFunction(Mins(s)) \in Int /\ SumFunction(Mins(t)) = SumFunction(Mins(s)) + x.min
  BY <1>2, <1>3, MinsAppend
<1>6. /\ Rides(s) \in Seq(S)
      /\ Rides(t) = IF IsRide(x) THEN Append(Rides(s), x) ELSE Rides(s)
  BY <1>3, RidesAppend
<1>7. /\ Cardinality(Changeovers(s)) \in Nat
      /\ Cardinality(Changeovers(t)) = Cardinality(Changeovers(s)) +
           IF x.kind = "board" /\ LineIn(s) \notin {NoLine, x.line} THEN 1 ELSE 0
      /\ LineIn(t) = IF x.line # NoLine THEN x.line ELSE LineIn(s)
  BY <1>3, ChangeoversAppend
<1>. QED  BY <1>1, <1>4, <1>5, <1>6, <1>7 DEF More

\* A walk is one leg, or none where it is short.
LEMMA WalkLegIs ==
  ASSUME NEW m \in Nat, NEW a, NEW b, NEW x, x = Leg("walk", a, b, NoLine, WalkMin(m), <<>>)
  PROVE  /\ m > 30  => WalkLeg(m, a, b) = Append(<<>>, x) /\ WalkedMin(m) = x.min
         /\ m <= 30 => WalkLeg(m, a, b) = <<>> /\ WalkedMin(m) = 0
         /\ ~IsRide(x) /\ x.kind = "walk"
<1>1. x.min = WalkMin(m) /\ x.kind = "walk"
  BY DEF Leg
<1>2. Append(<<>>, x) = <<x>>
  OBVIOUS
<1>. QED  BY <1>1, <1>2 DEF WalkLeg, WalkedMin, IsRide

\* Before the first hop only the walk is told.
LEMMA WholeStarts ==
  ASSUME NEW j, Walked(j), NEW p, Len(p) \in Nat
  PROVE  Whole(j, p, Origin(j), 1)
<1>1. PICK x : x = Leg("walk", "(origin)", j.from, NoLine, WalkMin(j.walk_from), <<>>)
  OBVIOUS
<1>2. x \in LegsOf(j, p)
  BY <1>1 DEF LegsOf, WalkLegs
<1>3. j.walk_from \in Nat
  BY DEF Walked
<1>4. /\ j.walk_from > 30  => Origin(j) = Append(<<>>, x) /\ WalkedMin(j.walk_from) = x.min
      /\ j.walk_from <= 30 => Origin(j) = <<>> /\ WalkedMin(j.walk_from) = 0
      /\ ~IsRide(x) /\ x.kind = "walk"
  BY <1>1, <1>3, WalkLegIs DEF Origin
<1>5. PICK o : o = Origin(j)
  OBVIOUS
<1>6. /\ o \in Seq(LegsOf(j, p)) /\ Rides(o) = <<>> /\ Len(o) \in Nat
      /\ SumFunction(Mins(o)) = WalkedMin(j.walk_from)
      /\ \A i \in 1 .. Len(o) : o[i].kind = "walk"
  <2>1. CASE j.walk_from <= 30
    <3>1. o = <<>> /\ Len(o) = 0 /\ WalkedMin(j.walk_from) = 0
      BY <1>4, <1>5, <2>1
    <3>. QED  BY <3>1, MinsEmpty, RidesEmpty, EmptySeq
  <2>2. CASE j.walk_from > 30
    <3>1. PICK e : e = <<>> /\ e \in Seq(LegsOf(j, p)) /\ Len(e) = 0
      <4>1. <<>> \in Seq(LegsOf(j, p)) /\ Len(<<>>) = 0
        BY EmptySeq
      <4>. QED  BY <4>1
    <3>2. o = Onward(e, x) /\ WalkedMin(j.walk_from) = x.min
      BY <1>4, <1>5, <2>2, <3>1 DEF Onward
    <3>3. SumFunction(Mins(e)) = 0 /\ Rides(e) = <<>>
      BY <3>1, MinsEmpty, RidesEmpty
    <3>4. /\ o \in Seq(LegsOf(j, p)) /\ Len(o) = 1 /\ o[1] = x
          /\ SumFunction(Mins(o)) = 0 + x.min /\ Rides(o) = <<>>
      <4>1. /\ o \in Seq(LegsOf(j, p)) /\ Len(o) = Len(e) + 1 /\ o[Len(e) + 1] = x
            /\ SumFunction(Mins(o)) = SumFunction(Mins(e)) + x.min
            /\ Rides(o) = IF IsRide(x) THEN Append(Rides(e), x) ELSE Rides(e)
        <5>1. e \in Seq(LegsOf(j, p))
          BY <3>1
        <5>2. More(j, p, e, x, o)
          BY <1>2, <3>2, <5>1, LegMore
        <5>. QED  BY <5>2 DEF More
      <4>. QED  BY <1>4, <3>1, <3>3, <4>1
    <3>5. x.min \in Int
      BY <1>2, LegsTakeMinutes
    <3>. QED  BY <1>4, <3>2, <3>4, <3>5
  <2>. QED  BY <1>3, <2>1, <2>2
<1>7. Joined(p, <<>>, 1)
  <2>1. PICK r : r = <<>> /\ Len(r) = 0
    BY EmptySeq
  <2>2. Joined(p, r, 1)
    <3>1. Len(r) - 1 = -1 /\ 1 .. Len(r) = {} /\ 1 .. Len(r) - 1 = {}
      BY <2>1
    <3>. QED  BY <2>1, <3>1 DEF Joined
  <2>. QED  BY <2>1, <2>2
<1>8. WalkedMin(j.walk_from) \in Int
  BY <1>3, WalkMinIs DEF WalkedMin
<1>. QED  BY <1>5, <1>6, <1>7, <1>8 DEF Whole, Opens

Rode(p, a, b, x) ==
  /\ x.kind = "ride" /\ IsRide(x) /\ x.from = p[a].at /\ x.to = p[b].at
  /\ x.line = p[b].line /\ x.min = 2 * (b - a)

\* The fields of a ride, of a boarding and of the alighting.
LEMMA RideLegIs ==
  ASSUME NEW p, NEW a \in Nat, NEW b \in Nat, NEW x, x = RideLeg(p, a, b)
  PROVE  Rode(p, a, b, x)
<1>1. \A f, t, l, m, z : /\ Leg("ride", f, t, l, m, z).kind = "ride"
                         /\ Leg("ride", f, t, l, m, z).from = f
                         /\ Leg("ride", f, t, l, m, z).to = t
                         /\ Leg("ride", f, t, l, m, z).line = l
                         /\ Leg("ride", f, t, l, m, z).min = m
  BY DEF Leg
<1>2. x.kind = "ride" /\ x.from = p[a].at /\ x.to = p[b].at /\ x.line = p[b].line
  BY <1>1 DEF RideLeg
<1>3. x.min = (b - a) * InterstationMin
  BY <1>1 DEF RideLeg
<1>. QED  BY <1>2, <1>3 DEF Rode, IsRide, InterstationMin

LEMMA BoardLegIs ==
  ASSUME NEW p, NEW a \in Nat, NEW x, x = BoardLeg(p, a)
  PROVE  /\ ~IsRide(x) /\ x.kind = "board" /\ x.kind # "walk" /\ x.from = p[a].at
         /\ x.to = NoStation /\ x.min = 0 /\ x.line = p[a + 1].line
BY DEF BoardLeg, Leg, IsRide

LEMMA AlightLegIs ==
  ASSUME NEW j, NEW x, x = AlightLeg(j)
  PROVE  /\ ~IsRide(x) /\ x.kind = "alight" /\ x.from = NoStation /\ x.to = j.to
         /\ x.min = 0 /\ x.line = NoLine
BY DEF AlightLeg, Leg, IsRide

\* A boarding tells nothing new of the way; the first one is of its first
\* station.
LEMMA WholeBoards ==
  ASSUME NEW j, Walked(j), NEW p, Len(p) \in Nat, NEW k \in Nat,
         NEW s, Whole(j, p, s, k), NEW a \in 1 .. Len(p),
         Len(s) > Len(Origin(j)) \/ a = 1,
         NEW t, t = Onward(s, BoardLeg(p, a))
  PROVE  Whole(j, p, t, k) /\ Len(t) > Len(Origin(j))
<1>1. PICK x : x = BoardLeg(p, a)
  OBVIOUS
<1>2. x \in LegsOf(j, p)
  BY <1>1 DEF LegsOf
<1>3. ~IsRide(x) /\ x.kind # "walk" /\ x.from = p[a].at /\ x.min = 0
  BY <1>1, BoardLegIs
<1>4. s \in Seq(LegsOf(j, p)) /\ t = Onward(s, x)
  BY <1>1 DEF Whole
<1>5. More(j, p, s, x, t)
  BY <1>2, <1>4, LegMore
<1>6. Rides(t) = Rides(s) /\ SumFunction(Mins(t)) = SumFunction(Mins(s))
  BY <1>3, <1>5 DEF More
<1>7. PICK w : w = Len(Origin(j))
  OBVIOUS
<1>8. w \in Nat
  BY <1>7, WalkLegIs, EmptySeq DEF Origin, Walked, WalkLeg
<1>9. Len(s) >= w /\ Len(s) \in Nat /\ Len(t) = Len(s) + 1
  BY <1>5, <1>7 DEF Whole, More
<1>10. Opens(j, p, t)
  <2>1. /\ \A i \in 1 .. w : s[i].kind = "walk"
        /\ Len(s) > w => s[w + 1].kind # "walk" /\ s[w + 1].from = p[1].at
    BY <1>7 DEF Whole, Opens
  <2>2. \A i \in 1 .. Len(s) : t[i] = s[i]
    BY <1>5 DEF More
  <2>3. \A i \in 1 .. w : t[i].kind = "walk"
    BY <1>8, <1>9, <2>1, <2>2
  <2>4. t[w + 1].kind # "walk" /\ t[w + 1].from = p[1].at
    <3>1. CASE Len(s) > w
      BY <1>8, <1>9, <2>1, <2>2, <3>1
    <3>2. CASE Len(s) = w
      <4>1. t[w + 1] = x /\ a = 1
        BY <1>5, <1>7, <1>8, <3>2 DEF More
      <4>. QED  BY <1>3, <4>1
    <3>. QED  BY <1>8, <1>9, <3>1, <3>2
  <2>. QED  BY <1>7, <2>3, <2>4 DEF Opens
<1>11. /\ t \in Seq(LegsOf(j, p)) /\ Len(t) > w /\ Len(t) >= w
  BY <1>5, <1>8, <1>9 DEF More
<1>. QED  BY <1>6, <1>7, <1>10, <1>11 DEF Whole

\* A run without a change adds one to the changes of a way where its line is
\* not that of the hop before.
LEMMA ChangesAlongRun ==
  ASSUME NEW p, NEW a \in Nat \ {0}, NEW b \in Nat, a < b, OneRun(p, a, b)
  PROVE  /\ Cardinality(Changes(p, a)) \in Nat
         /\ Cardinality(Changes(p, b)) =
              Cardinality(Changes(p, a)) + IF a > 1 /\ p[a].line # p[b].line THEN 1 ELSE 0
<1>1. p[b].line = p[a + 1].line
  <2>1. PICK c \in Nat : c = a + 1 /\ c <= b
    OBVIOUS
  <2>2. \A k \in c + 1 .. b : p[k].line = p[k - 1].line
    BY <2>1 DEF OneRun
  <2>3. \A k \in c .. b : p[k].line = p[c].line
    BY <2>1, <2>2, SameLine
  <2>. QED  BY <2>1, <2>3
<1>2. IsFiniteSet(Changes(p, a)) /\ Cardinality(Changes(p, a)) \in Nat
  BY TollIs
<1>3. \A k \in 3 .. b : p[k].line # p[k - 1].line => k <= a + 1
  BY DEF OneRun
<1>4. (a + 1) - 1 = a
  OBVIOUS
<1>5. CASE a > 1 /\ p[a].line # p[b].line
  <2>1. a + 1 \in 3 .. b /\ p[a + 1].line # p[(a + 1) - 1].line
    BY <1>1, <1>4, <1>5
  <2>2. Changes(p, b) = Changes(p, a) \cup {a + 1} /\ a + 1 \notin Changes(p, a)
    <3>1. ASSUME NEW k \in Changes(p, b) PROVE k \in Changes(p, a) \/ k = a + 1
      BY <1>3, <3>1 DEF Changes
    <3>2. Changes(p, a) \subseteq Changes(p, b) /\ a + 1 \notin Changes(p, a)
      BY DEF Changes
    <3>3. a + 1 \in Changes(p, b)
      BY <2>1 DEF Changes
    <3>. QED  BY <3>1, <3>2, <3>3
  <2>. QED  BY <1>2, <1>5, <2>2, FS_AddElement
<1>6. CASE ~(a > 1 /\ p[a].line # p[b].line)
  <2>1. a + 1 \in 3 .. b => p[a + 1].line = p[(a + 1) - 1].line
    BY <1>1, <1>4, <1>6
  <2>2. ASSUME NEW k \in Changes(p, b) PROVE k \in Changes(p, a)
    BY <1>3, <2>1, <2>2 DEF Changes
  <2>3. Changes(p, a) \subseteq Changes(p, b)
    BY DEF Changes
  <2>4. Changes(p, b) = Changes(p, a)
    BY <2>2, <2>3
  <2>. QED  BY <1>2, <1>6, <2>4
<1>. QED  BY <1>5, <1>6

\* Rides that join up to a station, and a run from there, join up to its end.
LEMMA RunJoins ==
  ASSUME NEW S, NEW p, Len(p) \in Nat, NEW a \in 1 .. Len(p), NEW b \in a + 1 .. Len(p),
         OneRun(p, a, b), NEW r \in Seq(S), Joined(p, r, a), NEW x \in S, x = RideLeg(p, a, b),
         NEW q, q = Onward(r, x)
  PROVE  Joined(p, q, b)
<1>1. PICK n \in Nat : n = Len(r) /\ (r = <<>>) = (n = 0)
  BY LenProperties, EmptySeq
<1>2. q \in Seq(S) /\ Len(q) = n + 1 /\ q[n + 1] = x /\ \A i \in 1 .. n : q[i] = r[i]
  BY <1>1, AppendProperties DEF Onward
<1>3. x.from = p[a].at /\ x.to = p[b].at /\ x.line = p[b].line
  <2>1. a \in Nat /\ b \in Nat
    OBVIOUS
  <2>2. Rode(p, a, b, x)
    BY <2>1, RideLegIs
  <2>. QED  BY <2>2 DEF Rode
<1>4. n = 0 <=> a = 1
  BY <1>1 DEF Joined
<1>5. n > 0 => r[n].to = p[a].at /\ r[1].from = p[1].at
  BY <1>1, <1>4 DEF Joined, Last
<1>6. \A i \in 1 .. n + 1 : RideOf(p, q[i])
  <2>1. RideOf(p, x)
    BY DEF RideOf
  <2>2. \A i \in 1 .. n : RideOf(p, q[i])
    BY <1>1, <1>2 DEF Joined
  <2>. QED  BY <1>2, <2>1, <2>2
<1>7. ASSUME NEW i \in 1 .. n PROVE q[i].to = q[i + 1].from
  <2>1. CASE i = n
    BY <1>2, <1>3, <1>5, <2>1
  <2>2. CASE i < n
    <3>1. i \in 1 .. n - 1 /\ i + 1 \in 1 .. n
      BY <2>2
    <3>2. r[i].to = r[i + 1].from
      BY <1>1, <3>1 DEF Joined
    <3>. QED  BY <1>2, <3>1, <3>2
  <2>. QED  BY <2>1, <2>2
<1>8. q # <<>> /\ Last(q) = x
  BY <1>2, EmptySeq DEF Last
<1>9. q[1].from = p[1].at
  BY <1>2, <1>3, <1>4, <1>5
<1>10. b > 1 /\ (n + 1) - 1 = n
  OBVIOUS
<1>. QED  BY <1>2, <1>3, <1>6, <1>7, <1>8, <1>9, <1>10 DEF Joined

\* A ride tells the way up to its end.
LEMMA WholeRides ==
  ASSUME NEW j, Walked(j), NEW p, Len(p) \in Nat,
         NEW a \in 1 .. Len(p), NEW b \in a + 1 .. Len(p), OneRun(p, a, b),
         NEW s, Whole(j, p, s, a), Len(s) > Len(Origin(j)),
         NEW t, t = Onward(s, RideLeg(p, a, b))
  PROVE  Whole(j, p, t, b)
<1>1. PICK x : x = RideLeg(p, a, b)
  OBVIOUS
<1>2. x \in LegsOf(j, p)
  BY <1>1 DEF LegsOf
<1>3. IsRide(x) /\ x.min = 2 * (b - a)
  <2>1. a \in Nat /\ b \in Nat
    OBVIOUS
  <2>2. Rode(p, a, b, x)
    BY <1>1, <2>1, RideLegIs
  <2>. QED  BY <2>2 DEF Rode
<1>4. s \in Seq(LegsOf(j, p)) /\ t = Onward(s, x)
  BY <1>1 DEF Whole
<1>5. More(j, p, s, x, t)
  BY <1>2, <1>4, LegMore
<1>6. PICK r, q : r = Rides(s) /\ q = Rides(t) /\ r \in Seq(LegsOf(j, p)) /\ q = Onward(r, x)
  BY <1>3, <1>5 DEF More, Onward
<1>7. Joined(p, r, a)
  BY <1>6 DEF Whole
<1>8. Joined(p, q, b)
  BY <1>1, <1>2, <1>6, <1>7, RunJoins
<1>9. SumFunction(Mins(t)) = WalkedMin(j.walk_from) + 2 * (b - 1)
  <2>1. PICK m \in Int : m = SumFunction(Mins(s)) /\ SumFunction(Mins(t)) = m + 2 * (b - a)
    BY <1>3, <1>5 DEF More
  <2>2. m = WalkedMin(j.walk_from) + 2 * (a - 1)
    BY <2>1 DEF Whole
  <2>3. WalkedMin(j.walk_from) \in Int
    BY WalkMinIs DEF WalkedMin, Walked
  <2>. QED  BY <2>1, <2>2, <2>3
<1>10. PICK w \in Nat : w = Len(Origin(j))
  BY WalkLegIs, EmptySeq DEF Origin, Walked, WalkLeg
<1>11. /\ Len(s) > w /\ Len(s) \in Nat /\ Len(t) = Len(s) + 1 /\ t \in Seq(LegsOf(j, p))
       /\ \A i \in 1 .. Len(s) : t[i] = s[i]
  BY <1>5, <1>10 DEF More
<1>12. Opens(j, p, t)
  <2>1. /\ \A i \in 1 .. w : s[i].kind = "walk"
        /\ s[w + 1].kind # "walk" /\ s[w + 1].from = p[1].at
    BY <1>10, <1>11 DEF Whole, Opens
  <2>2. \A i \in 1 .. w + 1 : t[i] = s[i]
    BY <1>11
  <2>. QED  BY <1>10, <2>1, <2>2 DEF Opens
<1>. QED  BY <1>6, <1>8, <1>9, <1>10, <1>11, <1>12 DEF Whole

\* The walk to the first station changes no line.
LEMMA StartCounts ==
  ASSUME NEW j, Walked(j), NEW p, Len(p) \in Nat, Lined(p)
  PROVE  Counted(p, Origin(j), 1)
<1>1. PICK e : e = <<>> /\ e \in Seq(LegsOf(j, p)) /\ Len(e) = 0
  <2>1. <<>> \in Seq(LegsOf(j, p)) /\ Len(<<>>) = 0
    BY EmptySeq
  <2>. QED  BY <2>1
<1>2. Changeovers(e) = {} /\ LineIn(e) = NoLine
  <2>1. DOMAIN e = {}
    BY <1>1
  <2>2. {k \in 1 .. (Len(e) + 1) - 1 : e[k].line # NoLine} = {}
    BY <1>1
  <2>. QED  BY <2>1, <2>2 DEF Changeovers, LineIn, LastLine
<1>3. Changes(p, 1) = {} /\ p[1].line = NoLine
  BY DEF Changes, Lined
<1>4. CASE j.walk_from <= 30
  <2>1. Origin(j) = e
    BY <1>1, <1>4 DEF Origin, WalkLeg, Walked
  <2>. QED  BY <1>2, <1>3, <2>1 DEF Counted
<1>5. CASE j.walk_from > 30
  <2>1. PICK x : x = Leg("walk", "(origin)", j.from, NoLine, WalkMin(j.walk_from), <<>>)
    OBVIOUS
  <2>2. x \in LegsOf(j, p) /\ x.kind = "walk" /\ x.line = NoLine
    BY <2>1 DEF LegsOf, WalkLegs, Leg
  <2>3. Origin(j) = Onward(e, x)
    BY <1>1, <1>5, <2>1 DEF Origin, WalkLeg, Onward
  <2>4. More(j, p, e, x, Origin(j))
    <3>1. e \in Seq(LegsOf(j, p))
      BY <1>1
    <3>. QED  BY <2>2, <2>3, <3>1, LegMore
  <2>5. Cardinality(Changeovers(Origin(j))) = Cardinality(Changeovers(e)) /\ LineIn(Origin(j)) = LineIn(e)
    BY <2>2, <2>4 DEF More
  <2>. QED  BY <1>2, <1>3, <2>5 DEF Counted
<1>6. j.walk_from \in Nat
  BY DEF Walked
<1>. QED  BY <1>4, <1>5, <1>6

\* A boarding where the way changes line is a change more, unless it is the
\* first.
LEMMA BoardCounts ==
  ASSUME NEW j, Walked(j), NEW p, Len(p) \in Nat, Lined(p), NEW a \in 1 .. Len(p) - 1,
         NEW s \in Seq(LegsOf(j, p)), Counted(p, s, a),
         NEW t, t = Onward(s, BoardLeg(p, a))
  PROVE  Counted(p, t, a + 1)
<1>1. PICK x : x = BoardLeg(p, a)
  OBVIOUS
<1>2. x \in LegsOf(j, p) /\ x.kind = "board" /\ x.line = p[a + 1].line
  <2>1. a \in Nat /\ a \in 1 .. Len(p)
    OBVIOUS
  <2>2. x \in LegsOf(j, p)
    BY <1>1, <2>1 DEF LegsOf
  <2>. QED  BY <1>1, <2>1, <2>2, BoardLegIs
<1>3. More(j, p, s, x, t)
  BY <1>1, <1>2, LegMore
<1>4. x.line # NoLine /\ (a > 1 <=> p[a].line # NoLine)
  BY <1>2 DEF Lined
<1>5. LineIn(s) = p[a].line /\ Cardinality(Changeovers(s)) = Cardinality(Changes(p, a))
  BY DEF Counted
<1>6. LineIn(t) = p[a + 1].line
  BY <1>2, <1>3, <1>4 DEF More
<1>7. Cardinality(Changes(p, a + 1)) =
        Cardinality(Changes(p, a)) + IF a > 1 /\ p[a].line # p[a + 1].line THEN 1 ELSE 0
  <2>1. PICK b \in Nat : b = a + 1
    OBVIOUS
  <2>2. a \in Nat \ {0} /\ a < b /\ OneRun(p, a, b)
    BY <2>1 DEF OneRun
  <2>3. Cardinality(Changes(p, b)) =
          Cardinality(Changes(p, a)) + IF a > 1 /\ p[a].line # p[b].line THEN 1 ELSE 0
    BY <2>2, ChangesAlongRun
  <2>. QED  BY <2>1, <2>3
<1>8. Cardinality(Changeovers(t)) = Cardinality(Changeovers(s)) +
        IF a > 1 /\ p[a].line # p[a + 1].line THEN 1 ELSE 0
  BY <1>2, <1>3, <1>4, <1>5 DEF More
<1>. QED  BY <1>5, <1>6, <1>7, <1>8 DEF Counted

\* A ride changes no line.
LEMMA RideCounts ==
  ASSUME NEW j, Walked(j), NEW p, Len(p) \in Nat, Lined(p),
         NEW a \in 1 .. Len(p), NEW b \in a + 1 .. Len(p), OneRun(p, a, b),
         NEW s \in Seq(LegsOf(j, p)), Counted(p, s, a + 1),
         NEW t, t = Onward(s, RideLeg(p, a, b))
  PROVE  Counted(p, t, b)
<1>1. PICK x : x = RideLeg(p, a, b)
  OBVIOUS
<1>2. x \in LegsOf(j, p) /\ x.kind # "board" /\ x.line = p[b].line
  <2>1. a \in Nat /\ b \in Nat
    OBVIOUS
  <2>2. Rode(p, a, b, x)
    BY <1>1, <2>1, RideLegIs
  <2>. QED  BY <1>1, <2>2 DEF LegsOf, Rode
<1>3. More(j, p, s, x, t)
  BY <1>1, <1>2, LegMore
<1>4. x.line # NoLine
  BY <1>2 DEF Lined
<1>5. Cardinality(Changeovers(t)) = Cardinality(Changeovers(s)) /\ LineIn(t) = p[b].line
  BY <1>2, <1>3, <1>4 DEF More
<1>6. Cardinality(Changes(p, b)) = Cardinality(Changes(p, a + 1))
  <2>1. PICK c \in Nat \ {0} : c = a + 1 /\ c <= b
    OBVIOUS
  <2>2. CASE c = b
    BY <2>1, <2>2
  <2>3. CASE c < b
    <3>1. OneRun(p, c, b) /\ b \in Nat
      BY <2>1 DEF OneRun
    <3>2. \A k \in c + 1 .. b : p[k].line = p[k - 1].line
      BY <2>1 DEF OneRun
    <3>3. \A k \in c .. b : p[k].line = p[c].line
      BY <2>1, <3>1, <3>2, SameLine
    <3>4. p[b].line = p[c].line
      BY <2>1, <3>1, <3>3
    <3>5. /\ Cardinality(Changes(p, c)) \in Nat
          /\ Cardinality(Changes(p, b)) =
               Cardinality(Changes(p, c)) + IF c > 1 /\ p[c].line # p[b].line THEN 1 ELSE 0
      BY <2>3, <3>1, ChangesAlongRun
    <3>. QED  BY <2>1, <3>4, <3>5
  <2>. QED  BY <2>1, <2>2, <2>3
<1>. QED  BY <1>5, <1>6 DEF Counted

-----------------------------------------------------------------------------
(***************************************************************************)
(* The loop over the path tells the whole of it.                           *)
(***************************************************************************)

\* Before the loop's next step: nothing is in hand at the first station; after
\* it a run is, from the station that all is told up to, without a change.
Tells(j, p, t, i) ==
  /\ i = 1 => t.run = 0 /\ Whole(j, p, t.legs, 1) /\ Counted(p, t.legs, 1)
  /\ i > 1 => /\ t.run \in 1 .. i - 1 /\ OneRun(p, t.run, i)
              /\ Whole(j, p, t.legs, t.run) /\ Len(t.legs) > Len(Origin(j))
              /\ Counted(p, t.legs, t.run + 1)

Start(j) == [legs |-> Origin(j), run |-> 0]

ToldUpto(f, j, p) ==
  /\ f[1] = Start(j)
  /\ \A i \in 2 .. Len(p) : f[i] = Tell(p, f[i - 1], i)

Tellings(j, p) == [legs : Seq(LegsOf(j, p)), run : 0 .. Len(p)]

\* A step of the loop adds legs of the way.
LEMMA TellIn ==
  ASSUME NEW j, NEW p, Len(p) \in Nat, NEW u \in Tellings(j, p), NEW i \in 2 .. Len(p)
  PROVE  Tell(p, u, i) \in Tellings(j, p)
<1>1. u.legs \in Seq(LegsOf(j, p)) /\ u.run \in 0 .. Len(p)
  BY DEF Tellings
<1>2. PICK c : c = i - 1 /\ c \in 1 .. Len(p) /\ c \in 0 .. Len(p)
  OBVIOUS
<1>3. EndRun(p, u, c) \in Seq(LegsOf(j, p))
  <2>1. CASE u.run = 0
    BY <1>1, <2>1 DEF EndRun
  <2>2. CASE u.run # 0
    <3>1. u.run \in 1 .. Len(p)
      BY <1>1, <2>2
    <3>2. RideLeg(p, u.run, c) \in LegsOf(j, p)
      BY <1>2, <3>1 DEF LegsOf
    <3>3. Append(u.legs, RideLeg(p, u.run, c)) \in Seq(LegsOf(j, p))
      BY <1>1, <3>2, AppendProperties
    <3>. QED  BY <2>2, <3>3 DEF EndRun
  <2>. QED  BY <2>1, <2>2
<1>4. BoardLeg(p, c) \in LegsOf(j, p)
  BY <1>2 DEF LegsOf
<1>5. PICK l : l = Append(EndRun(p, u, c), BoardLeg(p, c)) /\ l \in Seq(LegsOf(j, p))
  BY <1>3, <1>4, AppendProperties
<1>6. Tell(p, u, i) = u \/ Tell(p, u, i) = [legs |-> l, run |-> c]
  BY <1>2, <1>5 DEF Tell
<1>7. [legs |-> l, run |-> c] \in Tellings(j, p)
  BY <1>2, <1>5 DEF Tellings
<1>. QED  BY <1>6, <1>7

\* Told is what its recursive function says it is.
LEMMA ToldIs ==
  ASSUME NEW j, Walked(j), NEW p, Len(p) \in Nat \ {0}
  PROVE  \E f : ToldUpto(f, j, p) /\ Told(j, p) = f[Len(p)]
<1>. DEFINE U     == Tellings(j, p)
            On(u, i) == Tell(p, u, i)
            G     == [k \in Nat |-> [u \in U |-> IF k + 2 <= Len(p) THEN On(u, k + 2) ELSE u]]
            Is(F) == F = [i \in 1 .. Len(p) |->
                            IF i = 1
                            THEN [legs |-> WalkLeg(j.walk_from, "(origin)", j.from), run |-> 0]
                            ELSE Tell(p, F[i - 1], i)]
            sel   == CHOOSE F : Is(F)
<1>1. PICK n \in Nat \ {0} : n = Len(p)
  OBVIOUS
<1>2. \A u \in U, i \in 2 .. n : On(u, i) \in U
  BY <1>1, TellIn
<1>3. Start(j) \in U
  <2>1. Origin(j) \in Seq(LegsOf(j, p))
    BY WholeStarts DEF Whole
  <2>. QED  BY <1>1, <2>1 DEF Start, Tellings
<1>4. G \in [Nat -> [U -> U]]
  <2>1. ASSUME NEW k \in Nat, NEW u \in U
        PROVE  (IF k + 2 <= Len(p) THEN On(u, k + 2) ELSE u) \in U
    <3>. HIDE DEF On, U
    <3>. QED  BY <1>1, <1>2
  <2>. HIDE DEF On, U
  <2>. QED  BY <2>1
<1>5. PICK f : Computed(f, U, Start(j), G)
  <2>. HIDE DEF U, G
  <2>. QED  BY <1>3, <1>4, Recursion
<1>. DEFINE F == [i \in 1 .. n |-> f[i - 1]]
<1>6. F[1] = Start(j) /\ \A i \in 2 .. n : F[i] = On(F[i - 1], i)
  <2>1. ASSUME NEW i \in 2 .. n PROVE f[i - 1] = On(f[(i - 1) - 1], i)
    <3>1. PICK k \in Nat : /\ k = i - 2 /\ k + 1 = i - 1 /\ k = (i - 1) - 1 /\ k + 2 = i
                           /\ k + 2 <= Len(p)
      BY <1>1
    <3>2. G[k] = [u \in U |-> IF k + 2 <= Len(p) THEN On(u, k + 2) ELSE u]
      OBVIOUS
    <3>. HIDE DEF U, On, G
    <3>3. f[k + 1] = G[k][f[k]] /\ f[k] \in U
      BY <1>5, <3>1 DEF Computed
    <3>. QED  BY <3>1, <3>2, <3>3
  <2>2. \A i \in 2 .. n : F[i] = f[i - 1] /\ F[i - 1] = f[(i - 1) - 1]
    OBVIOUS
  <2>3. F[1] = f[0]
    OBVIOUS
  <2>. HIDE DEF U, On, F
  <2>. QED  BY <1>5, <2>1, <2>2, <2>3 DEF Computed
<1>7. Is(F)
  <2>1. Start(j) = [legs |-> WalkLeg(j.walk_from, "(origin)", j.from), run |-> 0]
    BY DEF Start, Origin
  <2>2. \A i \in 1 .. n : F[i] = IF i = 1 THEN Start(j) ELSE Tell(p, F[i - 1], i)
    <3>. HIDE DEF F
    <3>. QED  BY <1>6
  <2>3. F = [i \in 1 .. n |-> F[i]]
    OBVIOUS
  <2>. HIDE DEF F
  <2>4. F = [i \in 1 .. n |-> IF i = 1 THEN Start(j) ELSE Tell(p, F[i - 1], i)]
    BY <2>2, <2>3
  <2>. QED  BY <1>1, <2>1, <2>4
<1>8. Is(sel)
  <2>. HIDE DEF Is
  <2>. QED  BY <1>7
<1>9. Told(j, p) = sel[Len(p)]
  BY Zenon DEF Told
<1>. HIDE DEF sel
<1>10. \A i \in 1 .. n : sel[i] = IF i = 1 THEN Start(j) ELSE Tell(p, sel[i - 1], i)
  <2>1. Start(j) = [legs |-> WalkLeg(j.walk_from, "(origin)", j.from), run |-> 0]
    BY DEF Start, Origin
  <2>2. sel = [i \in 1 .. n |-> IF i = 1 THEN Start(j) ELSE Tell(p, sel[i - 1], i)]
    BY <1>1, <1>8, <2>1
  <2>. QED  BY <2>2
<1>11. ToldUpto(sel, j, p)
  <2>1. sel[1] = Start(j)
    BY <1>10
  <2>2. \A i \in 2 .. n : sel[i] = Tell(p, sel[i - 1], i)
    BY <1>10
  <2>. QED  BY <1>1, <2>1, <2>2 DEF ToldUpto
<1>. QED  BY <1>9, <1>11

\* The run in hand, ended at a station, tells the way up to it.
LEMMA RunEnds ==
  ASSUME NEW j, Walked(j), NEW p, Len(p) \in Nat, Lined(p), NEW i \in 1 .. Len(p),
         NEW u, Tells(j, p, u, i), NEW l, l = EndRun(p, u, i)
  PROVE  Whole(j, p, l, i) /\ Counted(p, l, i)
<1>1. CASE i = 1
  BY <1>1 DEF Tells, EndRun
<1>2. CASE i > 1
  <2>1. /\ u.run \in 1 .. i - 1 /\ OneRun(p, u.run, i) /\ Whole(j, p, u.legs, u.run)
        /\ Len(u.legs) > Len(Origin(j)) /\ Counted(p, u.legs, u.run + 1)
    BY <1>2 DEF Tells
  <2>2. PICK a, s : a = u.run /\ s = u.legs
    OBVIOUS
  <2>3. a \in 1 .. Len(p) /\ i \in a + 1 .. Len(p) /\ a # 0
    BY <2>1, <2>2
  <2>4. l = Onward(s, RideLeg(p, a, i))
    BY <2>2, <2>3 DEF EndRun, Onward
  <2>5. s \in Seq(LegsOf(j, p))
    BY <2>1, <2>2 DEF Whole
  <2>6. Whole(j, p, l, i)
    BY <2>1, <2>2, <2>3, <2>4, WholeRides
  <2>7. Counted(p, l, i)
    BY <2>1, <2>2, <2>3, <2>4, <2>5, RideCounts
  <2>. QED  BY <2>6, <2>7
<1>. QED  BY <1>1, <1>2

\* A step of the loop tells one station more.
LEMMA TellsOn ==
  ASSUME NEW j, Walked(j), NEW p, Len(p) \in Nat, Lined(p),
         NEW i \in 2 .. Len(p), NEW u, Tells(j, p, u, i - 1), NEW v, v = Tell(p, u, i)
  PROVE  Tells(j, p, v, i)
<1>1. PICK c : c = i - 1 /\ c \in 1 .. Len(p) /\ c \in Nat
  OBVIOUS
<1>2. CASE p[i].line = p[c].line
  <2>1. v = u
    BY <1>1, <1>2 DEF Tell
  <2>2. c > 1
    BY <1>1, <1>2 DEF Lined
  <2>3. /\ u.run \in 1 .. c - 1 /\ OneRun(p, u.run, c) /\ Whole(j, p, u.legs, u.run)
        /\ Len(u.legs) > Len(Origin(j)) /\ Counted(p, u.legs, u.run + 1)
    BY <1>1, <2>2 DEF Tells
  <2>4. OneRun(p, u.run, i)
    <3>1. \A k \in u.run + 2 .. i : k = i \/ k \in u.run + 2 .. c
      BY <1>1, <2>3
    <3>. QED  BY <1>1, <1>2, <2>3, <3>1 DEF OneRun
  <2>5. u.run \in 1 .. i - 1
    BY <1>1, <2>3
  <2>. QED  BY <2>1, <2>3, <2>4, <2>5 DEF Tells
<1>3. CASE p[i].line # p[c].line
  <2>1. PICK s : s = EndRun(p, u, c)
    OBVIOUS
  <2>2. Whole(j, p, s, c) /\ Counted(p, s, c)
    BY <1>1, <2>1, RunEnds
  <2>3. PICK t : t = Onward(s, BoardLeg(p, c))
    OBVIOUS
  <2>4. v = [legs |-> t, run |-> c]
    BY <1>1, <1>3, <2>1, <2>3 DEF Tell, Onward
  <2>5. Len(s) > Len(Origin(j)) \/ c = 1
    BY <1>1, <2>2 DEF Whole
  <2>6. Whole(j, p, t, c) /\ Len(t) > Len(Origin(j))
    BY <1>1, <2>2, <2>3, <2>5, WholeBoards
  <2>7. Counted(p, t, c + 1)
    <3>1. s \in Seq(LegsOf(j, p)) /\ c \in 1 .. Len(p) - 1
      BY <1>1, <2>2 DEF Whole
    <3>. QED  BY <2>2, <2>3, <3>1, BoardCounts
  <2>8. OneRun(p, c, i) /\ c \in 1 .. i - 1 /\ i # 1
    BY <1>1 DEF OneRun
  <2>. QED  BY <2>4, <2>6, <2>7, <2>8 DEF Tells
<1>. QED  BY <1>2, <1>3

\* What the loop leaves tells the way but for the run in hand.
LEMMA ToldTells ==
  ASSUME NEW j, Walked(j), NEW p, Len(p) \in Nat \ {0}, Lined(p)
  PROVE  Tells(j, p, Told(j, p), Len(p))
<1>1. PICK f : ToldUpto(f, j, p) /\ Told(j, p) = f[Len(p)]
  BY ToldIs
<1>2. PICK n \in Nat : n + 1 = Len(p)
  OBVIOUS
<1>. DEFINE S == {k \in Nat : k <= n => Tells(j, p, f[k + 1], k + 1)}
<1>3. 0 \in S
  <2>1. f[1].legs = Origin(j) /\ f[1].run = 0
    BY <1>1 DEF ToldUpto, Start
  <2>2. Tells(j, p, f[1], 1)
    BY <2>1, WholeStarts, StartCounts DEF Tells
  <2>. QED  BY <2>2
<1>4. ASSUME NEW k \in Nat, k \in S PROVE k + 1 \in S
  <2>1. SUFFICES ASSUME k + 1 <= n PROVE Tells(j, p, f[(k + 1) + 1], (k + 1) + 1)
    OBVIOUS
  <2>2. PICK i \in 2 .. Len(p) : i = (k + 1) + 1 /\ i - 1 = k + 1
    BY <1>2, <2>1
  <2>3. f[i] = Tell(p, f[i - 1], i)
    BY <1>1, <2>2 DEF ToldUpto
  <2>4. Tells(j, p, f[i - 1], i - 1)
    BY <1>4, <2>1, <2>2
  <2>5. Tells(j, p, f[i], i)
    BY <2>3, <2>4, TellsOn
  <2>. QED  BY <2>2, <2>5
<1>. HIDE DEF S
<1>5. Nat \subseteq S
  BY <1>3, <1>4, Induction
<1>6. Tells(j, p, f[n + 1], n + 1)
  BY <1>5 DEF S
<1>. QED  BY <1>1, <1>2, <1>6

-----------------------------------------------------------------------------
(***************************************************************************)
(* The directions made of a way: their minutes and where they lead.        *)
(***************************************************************************)

\* What directions come to: the legs told up to the last station, the
\* alighting, and the second walk.
LegsEnd(j, p, l, d) ==
  /\ Whole(j, p, l, Len(p)) /\ Counted(p, l, Len(p)) /\ More(j, p, l, AlightLeg(j), d)
  /\ Len(p) = 1 => l = Origin(j)
  /\ \/ Legs(j, p) = d /\ WalkedMin(j.walk_to) = 0
     \/ \E x \in WalkLegs(j) : /\ x.kind = "walk" /\ ~IsRide(x) /\ x.min = WalkedMin(j.walk_to)
                               /\ x.line = NoLine
                               /\ More(j, p, d, x, Legs(j, p))

LEMMA LegsAre ==
  ASSUME NEW j, Walked(j), NEW p, Len(p) \in Nat \ {0}, Lined(p)
  PROVE  \E l, d : LegsEnd(j, p, l, d)
<1>1. PICK n : n = Len(p) /\ n \in 1 .. Len(p)
  OBVIOUS
<1>2. PICK u, l : u = Told(j, p) /\ l = EndRun(p, u, n)
  OBVIOUS
<1>3. Whole(j, p, l, n) /\ Counted(p, l, n)
  <2>1. Tells(j, p, u, n)
    BY <1>1, <1>2, ToldTells
  <2>. QED  BY <1>1, <1>2, <2>1, RunEnds
<1>4. Len(p) = 1 => l = Origin(j)
  <2>1. SUFFICES ASSUME Len(p) = 1 PROVE l = Origin(j)
    OBVIOUS
  <2>2. PICK f : ToldUpto(f, j, p) /\ Told(j, p) = f[Len(p)]
    BY ToldIs
  <2>3. u = Start(j)
    BY <1>2, <2>1, <2>2 DEF ToldUpto
  <2>. QED  BY <1>2, <2>3 DEF Start, EndRun
<1>5. PICK a : a = AlightLeg(j)
  OBVIOUS
<1>6. a \in LegsOf(j, p)
  BY <1>5 DEF LegsOf
<1>7. PICK d : d = Onward(l, a)
  OBVIOUS
<1>8. l \in Seq(LegsOf(j, p)) /\ More(j, p, l, a, d)
  <2>1. l \in Seq(LegsOf(j, p))
    BY <1>3 DEF Whole
  <2>. QED  BY <1>6, <1>7, <2>1, LegMore
<1>9. d \in Seq(LegsOf(j, p))
  BY <1>8 DEF More
<1>10. PICK w : w = Destination(j)
  OBVIOUS
<1>11. Legs(j, p) = d \o w
  <2>1. Legs(j, p) = l \o <<a>> \o w
    BY <1>1, <1>2, <1>5, <1>10 DEF Legs, AlightLeg, Destination
  <2>2. l \o <<a>> = d
    BY <1>6, <1>7, <1>8, AppendIsConcat DEF Onward
  <2>. QED  BY <2>1, <2>2
<1>12. PICK x : x = Leg("walk", j.to, "(destination)", NoLine, WalkMin(j.walk_to), <<>>)
  OBVIOUS
<1>13. x \in WalkLegs(j) /\ x \in LegsOf(j, p) /\ x.line = NoLine
  BY <1>12 DEF WalkLegs, LegsOf, Leg
<1>14. /\ j.walk_to > 30  => w = Append(<<>>, x) /\ WalkedMin(j.walk_to) = x.min
       /\ j.walk_to <= 30 => w = <<>> /\ WalkedMin(j.walk_to) = 0
       /\ ~IsRide(x) /\ x.kind = "walk" /\ j.walk_to \in Nat
  BY <1>10, <1>12, WalkLegIs DEF Destination, Walked
<1>15. CASE j.walk_to <= 30
  <2>1. d \o <<>> = d
    BY <1>9, ConcatEmptySeq
  <2>2. Legs(j, p) = d /\ WalkedMin(j.walk_to) = 0
    BY <1>11, <1>14, <1>15, <2>1
  <2>. QED  BY <1>1, <1>3, <1>5, <1>8, <1>4, <2>2 DEF LegsEnd
<1>16. CASE j.walk_to > 30
  <2>1. w = <<x>>
    BY <1>14, <1>16
  <2>2. d \o <<x>> = Append(d, x)
    BY <1>9, <1>13, AppendIsConcat
  <2>3. Legs(j, p) = Onward(d, x)
    BY <1>11, <2>1, <2>2 DEF Onward
  <2>4. More(j, p, d, x, Legs(j, p))
    BY <1>9, <1>13, <2>3, LegMore
  <2>. QED  BY <1>1, <1>3, <1>5, <1>8, <1>13, <1>14, <1>16, <1>4, <2>4 DEF LegsEnd
<1>. QED  BY <1>14, <1>15, <1>16

\* The total of directions is the fare of the way and the two walks, and their
\* rides are those told up to the last station.
LEMMA TotalIs ==
  ASSUME NEW j, Walked(j), NEW p, Len(p) \in Nat \ {0}, Lined(p)
  PROVE  /\ TotalMin(Legs(j, p)) = Fare(p) + WalkedMin(j.walk_from) + WalkedMin(j.walk_to)
         /\ Joined(p, Rides(Legs(j, p)), Len(p)) /\ Rides(Legs(j, p)) \in Seq(LegsOf(j, p))
<1>1. PICK n \in Nat \ {0} : n = Len(p)
  OBVIOUS
<1>2. PICK l, d : LegsEnd(j, p, l, d)
  BY LegsAre
<1>3. PICK t : t = Legs(j, p)
  OBVIOUS
<1>4. PICK a : /\ a = AlightLeg(j) /\ ~IsRide(a) /\ a.min = 0
               /\ a.kind # "board" /\ a.line = NoLine
  BY AlightLegIs
<1>5. PICK m, e : m = WalkedMin(j.walk_from) /\ e = WalkedMin(j.walk_to) /\ m \in Int /\ e \in Int
  BY WalkMinIs DEF WalkedMin, Walked
<1>6. /\ SumFunction(Mins(l)) = m + 2 * (n - 1) /\ Joined(p, Rides(l), n)
      /\ Cardinality(Changeovers(l)) = Cardinality(Changes(p, n))
  BY <1>1, <1>2, <1>5 DEF LegsEnd, Whole, Counted
<1>7. /\ Rides(d) = Rides(l) /\ SumFunction(Mins(d)) = SumFunction(Mins(l))
      /\ Rides(l) \in Seq(LegsOf(j, p))
      /\ Cardinality(Changeovers(d)) = Cardinality(Changeovers(l))
  <2>1. More(j, p, l, a, d)
    BY <1>2, <1>4 DEF LegsEnd
  <2>. QED  BY <1>4, <2>1 DEF More
<1>8. /\ Rides(t) = Rides(d) /\ SumFunction(Mins(t)) = SumFunction(Mins(d)) + e
      /\ Cardinality(Changeovers(t)) = Cardinality(Changeovers(d))
  <2>1. CASE t = d /\ e = 0
    BY <1>1, <1>5, <1>6, <1>7, <2>1
  <2>2. CASE \E x \in WalkLegs(j) : /\ x.kind = "walk" /\ ~IsRide(x) /\ x.min = e
                                     /\ More(j, p, d, x, t)
    <3>1. PICK x : x.kind = "walk" /\ ~IsRide(x) /\ x.min = e /\ More(j, p, d, x, t)
      BY <2>2
    <3>. QED  BY <3>1 DEF More
  <2>. QED  BY <1>2, <1>3, <1>5, <2>1, <2>2 DEF LegsEnd
<1>9. SumFunction(Mins(t)) = m + 2 * (n - 1) + e
  BY <1>1, <1>5, <1>6, <1>7, <1>8
<1>10. PICK c \in Nat : c = Cardinality(Changes(p, n)) /\ c = Cardinality(Changeovers(t))
  BY <1>6, <1>7, <1>8, TollIs
<1>11. TotalMin(t) = SumFunction(Mins(t)) + 5 * Cardinality(Changeovers(t))
  BY DEF TotalMin, Mins, InterchangePenaltyMin
<1>12. Fare(p) = 2 * (n - 1) + 5 * c
  BY <1>1, <1>10 DEF Fare, Changes
<1>13. TotalMin(t) = Fare(p) + m + e
  BY <1>1, <1>5, <1>9, <1>10, <1>11, <1>12
<1>. QED  BY <1>1, <1>3, <1>5, <1>6, <1>7, <1>8, <1>13

\* The first station they name to leave from is that of the origin, where
\* there is a ride, and the last one to go to is that of the destination.
LEMMA EndsNamed ==
  ASSUME NEW j, Walked(j), NEW p, Len(p) \in Nat \ {0},
         Lined(p), p[1].at # NoStation, j.to # NoStation
  PROVE  /\ LastNamedStation(Legs(j, p)) = j.to
         /\ FirstNamedStation(Legs(j, p)) = IF Len(p) = 1 THEN NoStation ELSE p[1].at
<1>1. PICK n \in Nat \ {0} : n = Len(p)
  OBVIOUS
<1>2. PICK l, d : LegsEnd(j, p, l, d)
  BY LegsAre
<1>3. PICK t : t = Legs(j, p)
  OBVIOUS
<1>4. PICK a : /\ a = AlightLeg(j)
               /\ a.kind # "walk" /\ a.from = NoStation /\ a.to = j.to
  BY AlightLegIs
<1>5. PICK y \in Nat : y = Len(l)
  BY <1>2 DEF LegsEnd, More
<1>6. PICK w \in Nat : w = Len(Origin(j)) /\ y >= w
  <2>1. Len(Origin(j)) \in Nat
    BY WalkLegIs, EmptySeq DEF Origin, Walked, WalkLeg
  <2>. QED  BY <1>2, <1>5, <2>1 DEF LegsEnd, Whole
<1>7. Len(d) = y + 1 /\ d[y + 1] = a /\ (\A i \in 1 .. y : d[i] = l[i]) /\ d \in Seq(LegsOf(j, p))
  <2>1. More(j, p, l, a, d)
    BY <1>2, <1>4 DEF LegsEnd
  <2>. QED  BY <1>5, <2>1 DEF More
<1>8. PICK z : /\ z = Len(t) /\ DOMAIN t = 1 .. z /\ z \in {y + 1, y + 2}
               /\ t[y + 1] = a /\ \A i \in 1 .. y : t[i] = l[i]
               /\ z = y + 2 => t[y + 2].kind = "walk"
  <2>1. CASE t = d
    <3>1. DOMAIN d = 1 .. Len(d)
      BY <1>7, LenProperties
    <3>. QED  BY <1>7, <2>1, <3>1
  <2>2. CASE \E x \in WalkLegs(j) : x.kind = "walk" /\ More(j, p, d, x, t)
    <3>1. PICK x \in WalkLegs(j) : x.kind = "walk" /\ More(j, p, d, x, t)
      BY <2>2
    <3>2. /\ t \in Seq(LegsOf(j, p)) /\ Len(t) = (y + 1) + 1 /\ t[(y + 1) + 1] = x
          /\ \A i \in 1 .. y + 1 : t[i] = d[i]
      BY <1>7, <3>1 DEF More
    <3>3. DOMAIN t = 1 .. Len(t)
      BY <3>2, LenProperties
    <3>. QED  BY <1>7, <3>1, <3>2, <3>3
  <2>. QED  BY <1>2, <1>3, <2>1, <2>2 DEF LegsEnd
<1>9. LastNamedStation(t) = j.to
  <2>. DEFINE S == StationsNamed(t, "to")
  <2>1. S = {i \in 1 .. z : t[i].kind # "walk" /\ t[i].to # NoStation}
    BY <1>8 DEF StationsNamed
  <2>2. y + 1 \in S
    BY <1>4, <1>8, <2>1
  <2>3. \A i \in S : i <= y + 1 /\ i \in Int
    BY <1>8, <2>1
  <2>4. LastNamedStation(t) = IF S = {} THEN NoStation ELSE t[Max(S)].to
    BY DEF LastNamedStation
  <2>. HIDE DEF S
  <2>5. Max(S) \in S /\ \A i \in S : i <= Max(S)
    BY <2>2, <2>3 DEF Max
  <2>6. Max(S) = y + 1
    BY <2>2, <2>3, <2>5
  <2>. QED  BY <1>4, <1>8, <2>2, <2>4, <2>6
<1>10. \A i \in 1 .. w : t[i].kind = "walk"
  BY <1>2, <1>5, <1>6, <1>8 DEF LegsEnd, Whole, Opens
<1>11. FirstNamedStation(t) = IF n = 1 THEN NoStation ELSE p[1].at
  <2>. DEFINE S == StationsNamed(t, "from")
  <2>1. S = {i \in 1 .. z : t[i].kind # "walk" /\ t[i].from # NoStation}
    BY <1>8 DEF StationsNamed
  <2>2. FirstNamedStation(t) = IF S = {} THEN NoStation ELSE t[Min(S)].from
    BY DEF FirstNamedStation
  <2>3. CASE n = 1
    <3>1. y = w
      BY <1>1, <1>2, <1>5, <1>6, <2>3 DEF LegsEnd
    <3>2. S = {}
      BY <1>4, <1>8, <1>10, <2>1, <3>1
    <3>. QED  BY <2>2, <2>3, <3>2
  <2>4. CASE n > 1
    <3>1. y > w /\ l[w + 1].kind # "walk" /\ l[w + 1].from = p[1].at
      BY <1>1, <1>2, <1>5, <1>6, <2>4 DEF LegsEnd, Whole, Opens
    <3>2. w + 1 \in S /\ t[w + 1].from = p[1].at
      BY <1>8, <2>1, <3>1
    <3>3. \A i \in S : w + 1 <= i /\ i \in Int
      BY <1>8, <1>10, <2>1
    <3>. HIDE DEF S
    <3>4. Min(S) \in S /\ \A i \in S : Min(S) <= i
      BY <3>2, <3>3 DEF Min
    <3>5. Min(S) = w + 1
      BY <3>2, <3>3, <3>4
    <3>. QED  BY <2>2, <2>4, <3>2, <3>5
  <2>. QED  BY <2>3, <2>4
<1>. QED  BY <1>1, <1>3, <1>9, <1>11

\* A ride told goes along tracks of its line, from and to the stations it says.
LEMMA RidesAlong ==
  ASSUME net \in Networks, NEW s, NEW p, Way(net, s, p), NEW leg, RideOf(p, leg)
  PROVE  /\ Along(leg)
         /\ Head(leg.stations) = leg.from /\ Last(leg.stations) = leg.to
<1>1. PICK a \in 1 .. Len(p) : \E b \in a + 1 .. Len(p) : leg = RideLeg(p, a, b) /\ OneRun(p, a, b)
  BY DEF RideOf
<1>2. PICK b \in a + 1 .. Len(p) : leg = RideLeg(p, a, b) /\ OneRun(p, a, b)
  BY <1>1
<1>3. a \in Nat /\ b \in Nat /\ Len(p) \in Nat
  BY LenProperties DEF Way
<1>4. leg.from = p[a].at /\ leg.to = p[b].at /\ leg.line = p[b].line
  <2>1. Rode(p, a, b, leg)
    BY <1>2, <1>3, RideLegIs
  <2>. QED  BY <2>1 DEF Rode
<1>5. PICK z : z = leg.stations
  OBVIOUS
<1>6. PICK n \in Nat : n = b - a
  BY <1>3
<1>7. z = [k \in 1 .. n + 1 |-> p[a + k - 1].at]
  BY <1>2, <1>5, <1>6 DEF RideLeg, Leg
<1>8. Len(z) = n + 1 /\ \A k \in 1 .. n + 1 : z[k] = p[a + k - 1].at
  <2>1. PICK m \in Nat : m = n + 1
    OBVIOUS
  <2>2. PICK R : R = {p[a + k - 1].at : k \in 1 .. m}
    OBVIOUS
  <2>3. z = [k \in 1 .. m |-> p[a + k - 1].at]
    BY <1>7, <2>1
  <2>4. z \in [1 .. m -> R]
    BY <2>2, <2>3, Zenon
  <2>5. z \in Seq(R)
    BY <2>4
  <2>6. DOMAIN z = 1 .. m
    BY <2>3
  <2>7. Len(z) = m
    BY <2>1, <2>5, <2>6, LenProperties
  <2>. QED  BY <2>1, <2>3, <2>7
<1>9. Head(z) = p[a].at /\ Last(z) = p[b].at
  <2>1. Head(z) = z[1] /\ Last(z) = z[n + 1]
    BY <1>7, <1>8 DEF Last
  <2>2. a + 1 - 1 = a /\ a + (n + 1) - 1 = b /\ 1 \in 1 .. n + 1 /\ n + 1 \in 1 .. n + 1
    BY <1>3, <1>6
  <2>. QED  BY <1>8, <2>1, <2>2
<1>10. \A k \in a + 1 .. b : p[k].line = p[b].line
  <2>1. PICK c \in Nat : c = a + 1 /\ c <= b
    BY <1>3
  <2>2. \A k \in c + 1 .. b : p[k].line = p[k - 1].line
    BY <1>2, <2>1 DEF OneRun
  <2>3. \A k \in c .. b : p[k].line = p[c].line
    BY <1>3, <2>1, <2>2, SameLine
  <2>. QED  BY <1>3, <2>1, <2>3
<1>11. ASSUME NEW i \in 1 .. n PROVE Hop(z[i], z[i + 1], leg.line) \in Hops(net)
  <2>1. PICK k \in 1 .. Len(p) - 1 : k = a + i - 1 /\ k + 1 = a + (i + 1) - 1 /\ k + 1 \in a + 1 .. b
    BY <1>3, <1>6
  <2>2. z[i] = p[k].at /\ z[i + 1] = p[k + 1].at /\ leg.line = p[k + 1].line
    BY <1>4, <1>8, <1>10, <2>1
  <2>3. Follows(net, p[k], p[k + 1])
    BY <2>1 DEF Way
  <2>4. PICK h \in Hops(net) : h.from = p[k].at /\ p[k + 1] = At(h.to, h.line)
    BY <2>3 DEF Follows, Adjacency
  <2>5. h = Hop(h.from, h.to, h.line)
    BY HopIs
  <2>. QED  BY <2>2, <2>4, <2>5, AtIs
<1>. QED  BY <1>4, <1>5, <1>8, <1>9, <1>11 DEF Along

\* Every hop of a way is on a line: the first station has none.
LEMMA WayIsLined ==
  ASSUME NEW g \in Networks, NEW s, NEW p, Way(g, s, p)
  PROVE  Lined(p)
<1>1. p[1].line = NoLine
  BY AtIs DEF Way
<1>2. ASSUME NEW k \in 2 .. Len(p) PROVE p[k].line # NoLine
  <2>1. PICK i \in 1 .. Len(p) - 1 : i + 1 = k
    <3>1. k - 1 \in 1 .. Len(p) - 1 /\ (k - 1) + 1 = k
      BY LenProperties DEF Way
    <3>. QED  BY <3>1
  <2>2. Follows(g, p[i], p[k])
    BY <2>1 DEF Way
  <2>3. PICK h \in Hops(g) : p[k] = At(h.to, h.line)
    BY <2>2 DEF Follows, Adjacency
  <2>. QED  BY <2>3, AtIs, HopIs, PlannerAssumption
<1>. QED  BY <1>1, <1>2 DEF Lined

-----------------------------------------------------------------------------
(***************************************************************************)
(* What is planned is between two stations, and an option is of the plan   *)
(* in hand.                                                                *)
(***************************************************************************)

Aimed ==
  /\ job.walk_from \in Nat /\ job.walk_to \in Nat
  /\ search = "running" \/ plan.ok => NoStation \notin {job.from, job.to}

Offered ==
  /\ pc # "planning" => task.tool # Journey
  /\ task.tool = Journey =>
       /\ search # "idle" /\ "mtr" \in DOMAIN options
       /\ options.mtr # NoOption => search = "done" /\ options.mtr = MtrOption(plan)

\* A name or a point is resolved to a station, or to none.
LEMMA StationAtIs ==
  ASSUME NEW end \in Ends
  PROVE  StationAt(end) \in Stations \cup {NoStation}
<1>1. ResolveStation(end.name) \in Stations \cup {NoStation}
  <2>1. end.name \in DOMAIN Fuzzy \cup Stations \cup {NoName}
    BY DEF Ends
  <2>2. NoName \notin Stations
    BY PlannerAssumption
  <2>. QED  BY <2>1, <2>2, PlannerAssumption DEF ResolveStation
<1>2. ASSUME NEW q \in Spots PROVE NearestMtrStation(q) \in Stations \cup {NoStation}
  <2>. DEFINE near == {s \in Stations : Metres[q][s] < MaxWalkToMtr}
              far  == {Metres[q][s] : s \in near}
  <2>1. CASE near = {}
    BY <2>1 DEF NearestMtrStation
  <2>2. CASE near # {}
    <3>1. far \in SUBSET Nat /\ far # {}
      <4>1. \A s \in Stations : Metres[q][s] \in Nat
        BY PlannerAssumption
      <4>. QED  BY <2>2, <4>1
    <3>2. PICK m \in far : \A x \in far : m <= x
      <4>. HIDE DEF far
      <4>. QED  BY <3>1, SmallestOf
    <3>3. \E s \in near : \A o \in near : Metres[q][s] <= Metres[q][o]
      BY <3>2
    <3>4. NearestMtrStation(q) = CHOOSE s \in near : \A o \in near : Metres[q][s] <= Metres[q][o]
      BY <2>2 DEF NearestMtrStation
    <3>5. NearestMtrStation(q) \in near
      <4>. HIDE DEF near
      <4>. QED  BY <3>3, <3>4
    <3>. QED  BY <3>5
  <2>. QED  BY <2>1, <2>2
<1>3. end.spot # NoSpot => end.spot \in Spots
  BY DEF Ends
<1>. QED  BY <1>1, <1>2, <1>3 DEF StationAt

\* The walk to a station is so many metres.
LEMMA WalkToIs ==
  ASSUME NEW end \in Ends, StationAt(end) # NoStation
  PROVE  WalkTo(end) \in Nat
<1>1. StationAt(end) \in Stations
  BY StationAtIs
<1>2. end.spot # NoSpot => end.spot \in Spots
  BY DEF Ends
<1>3. \A q \in Spots, s \in Stations : Metres[q][s] \in Nat
  BY PlannerAssumption
<1>. QED  BY <1>1, <1>2, <1>3 DEF WalkTo

\* What the handler does before it searches leaves two stations to join, or
\* no plan.
LEMMA BeginAims ==
  ASSUME Aimed, NEW from \in Ends, NEW to \in Ends, Begin(from, to)
  PROVE  Aimed' /\ search' # "idle"
<1>. DEFINE src == StationAt(from)
            dst == StationAt(to)
            J   == [from |-> src, to |-> dst, walk_from |-> WalkTo(from), walk_to |-> WalkTo(to)]
<1>1. CASE NoStation \in {src, dst}
  <2>1. /\ search' = "done" /\ job' = job
        /\ \E why : plan' = Refused(why)
    BY <1>1, Zenon DEF Begin
  <2>2. ~plan'.ok
    BY <2>1 DEF Refused, NoPlan
  <2>. QED  BY <2>1, <2>2 DEF Aimed
<1>2. CASE NoStation \notin {src, dst}
  <2>1. job' = J /\ search' \in {"running", "done"}
    BY <1>2 DEF Begin
  <2>2. WalkTo(from) \in Nat /\ WalkTo(to) \in Nat
    BY <1>2, WalkToIs
  <2>. QED  BY <1>2, <2>1, <2>2 DEF Aimed
<1>. QED  BY <1>1, <1>2

\* A point alone is an end.
LEMMA PointIsEnd == \A q \in Spots : [name |-> NoName, spot |-> q] \in Ends
BY DEF Ends

\* Every step keeps both.
LEMMA StepDirections ==
  ASSUME Aimed, Offered, [Next]_vars
  PROVE  Aimed' /\ Offered'
<1>1. ASSUME NEW trip \in Trips, PlanSimpleRoute(trip) PROVE Aimed' /\ Offered'
  <2>1. trip.from \in Ends /\ trip.to \in Ends
    BY QuestionAssumption
  <2>2. Aimed' /\ search' # "idle"
    BY <1>1, <2>1, BeginAims DEF PlanSimpleRoute
  <2>3. task'.tool = SimpleRoute /\ pc' = "planning"
    BY <1>1 DEF PlanSimpleRoute, NoTask
  <2>. QED  BY <2>2, <2>3 DEF Offered, SimpleRoute, Journey
<1>2. ASSUME NEW o \in Spots, NEW d \in Spots, NEW modes, Compare(o, d, modes)
      PROVE  Aimed' /\ Offered'
  <2>1. CASE "mtr" \in modes /\ ~TooClose(o, d)
    <3>1. /\ Begin([name |-> NoName, spot |-> o], [name |-> NoName, spot |-> d])
          /\ task'.tool = Journey /\ pc' = "planning"
          /\ "mtr" \in DOMAIN options' /\ options'.mtr = NoOption
      BY <1>2, <2>1 DEF Compare
    <3>2. Aimed' /\ search' # "idle"
      BY <3>1, PointIsEnd, BeginAims
    <3>. QED  BY <3>1, <3>2 DEF Offered
  <2>2. CASE ~("mtr" \in modes /\ ~TooClose(o, d))
    <3>1. UNCHANGED <<task, job, search, plan>> /\ pc = "model" /\ pc' = "idle"
      BY <1>2, <2>2 DEF Compare, plannerVars
    <3>. QED  BY <3>1 DEF Aimed, Offered
  <2>. QED  BY <2>1, <2>2
<1>3. CASE Search
  <2>1. /\ UNCHANGED <<pc, task, options, job>>
        /\ search' # "idle" /\ search = "running"
    BY <1>3 DEF Search, Searching, Exhausted, Pop
  <2>2. Aimed'
    BY <2>1 DEF Aimed
  <2>3. Offered'
    BY <2>1 DEF Offered
  <2>. QED  BY <2>2, <2>3
<1>4. CASE Offer
  <2>1. UNCHANGED <<pc, task, search, plan, job>>
    BY <1>4 DEF Offer, plannerVars
  <2>2. /\ task.tool = Journey /\ search = "done" /\ pc = "planning"
        /\ options' = [options EXCEPT !.mtr = MtrOption(plan)]
    BY <1>4 DEF Offer
  <2>3. MtrOption(plan)' = MtrOption(plan)
    BY <2>1 DEF MtrOption
  <2>4. "mtr" \in DOMAIN options' /\ options'.mtr = MtrOption(plan)
    BY <2>2 DEF Offered
  <2>. QED  BY <2>1, <2>2, <2>3, <2>4 DEF Aimed, Offered
<1>5. CASE Return
  <2>1. task'.tool = "none" /\ job' = NoJob /\ plan' = NoPlan /\ search' = "idle"
    BY <1>5 DEF Return, Returned, NoTask
  <2>. QED  BY <2>1 DEF Aimed, Offered, Journey, NoJob, NoPlan
<1>6. CASE UNCHANGED vars
  BY <1>6 DEF vars, plannerVars, Aimed, Offered
<1>7. CASE \/ \E t \in Messages : Ask(t)
           \/ \E code \in Overrides : AskForced(code)
           \/ PoiAnswers \/ PoiDefers
           \/ \E tool \in ModelTools \cup {SimpleRoute} : ModelCalls(tool)
           \/ \E o, d \in Spots \cup {NoSpot} : RefuseJourney(o, d)
  <2>1. UNCHANGED <<task, job, search, plan>> /\ pc # "planning"
    BY <1>7 DEF Ask, AskForced, PoiAnswers, PoiDefers, ModelCalls, RefuseJourney, plannerVars
  <2>. QED  BY <2>1 DEF Aimed, Offered
<1>. QED  BY <1>1, <1>2, <1>3, <1>4, <1>5, <1>6, <1>7, Zenon DEF Next

\* Every question is aimed at two stations, and offers the plan in hand.
LEMMA Directed == Spec => [](Aimed /\ Offered)
<1>1. Init => Aimed /\ Offered
  BY DEF Init, PlannerInit, NoJob, NoPlan, NoTask, Aimed, Offered, Journey
<1>2. Aimed /\ Offered /\ [Next]_vars => (Aimed /\ Offered)'
  BY StepDirections
<1>. QED  BY <1>1, <1>2, PTL DEF Spec

-----------------------------------------------------------------------------
(***************************************************************************)
(* The two properties of the routes told.                                  *)
(***************************************************************************)

\* What the invariants say of a plan: it tells a cheapest way.
LEMMA PlanTells ==
  ASSUME IInv, Aimed, search = "done", plan.ok
  PROVE  \E p : /\ Joins(net, job, p) /\ plan = Route(job, p)
                /\ \A q : Joins(net, job, q) => Fare(p) <= Fare(q)
                /\ Len(p) \in Nat \ {0} /\ Lined(p)
<1>1. PICK p : /\ Joins(net, job, p) /\ plan = Route(job, p)
               /\ \A q : Joins(net, job, q) => Fare(p) <= Fare(q)
  BY DEF IInv, BestRoute
<1>2. net \in Networks /\ Way(net, job.from, p)
  BY <1>1 DEF IInv, Ready, Joins
<1>3. Len(p) \in Nat \ {0}
  BY <1>2, LenProperties DEF Way
<1>. QED  BY <1>1, <1>2, <1>3, WayIsLined

\* For every network, the total of the plan is the least fare of an itinerary
\* and the two walks, and no path is reported only where there is none
\* (_shortest_path, and the accounting of plan_simple_route).
THEOREM CheapestRouteHolds == Spec => []CheapestRoute
<1>1. ASSUME IInv, Aimed PROVE CheapestRoute
  <2>1. net \in Networks
    BY <1>1 DEF IInv, Ready
  <2>2. ASSUME search = "done", plan.ok
        PROVE  plan.total - Walks = Min({Fare(p) : p \in Ways})
    <3>1. PICK p : /\ Joins(net, job, p) /\ plan = Route(job, p)
                   /\ \A q : Joins(net, job, q) => Fare(p) <= Fare(q)
                   /\ Len(p) \in Nat \ {0} /\ Lined(p)
      BY <1>1, <2>2, PlanTells
    <3>2. Min({Fare(q) : q \in Ways}) = Fare(p)
      BY <2>1, <3>1, LeastFare
    <3>3. Walked(job)
      BY <1>1 DEF Aimed, Walked
    <3>4. plan.total = Fare(p) + WalkedMin(job.walk_from) + WalkedMin(job.walk_to)
      <4>1. plan.total = TotalMin(Legs(job, p))
        BY <3>1 DEF Route
      <4>. QED  BY <3>1, <3>3, <4>1, TotalIs
    <3>5. /\ WalkedMin(job.walk_from) \in Int /\ WalkedMin(job.walk_to) \in Int
          /\ Fare(p) \in Int
      BY <2>1, <3>1, <3>3, WalkMinIs, FareIs DEF WalkedMin, Walked, Joins
    <3>. QED  BY <3>2, <3>4, <3>5 DEF Walks
  <2>3. ASSUME search = "done", plan.reason = "no path" PROVE Ways = {}
    <3>1. \A q : ~Joins(net, job, q)
      BY <1>1, <2>3 DEF IInv, BestRoute
    <3>. QED  BY <2>1, <3>1, WaysJoin
  <2>. QED  BY <2>2, <2>3 DEF CheapestRoute
<1>. QED  BY <1>1, Invariance, Directed, PTL

\* For every network and every walk to it, the rides told join up from the
\* station of the origin to that of the destination along tracks of their
\* lines, and the option of a journey names those two stations
\* (_collapse_to_legs, _inline_mtr_leg).
THEOREM DirectionsLeadHolds == Spec => []DirectionsLead
<1>1. ASSUME IInv, Aimed, Offered PROVE DirectionsLead
  <2>1. SUFFICES ASSUME search = "done", plan.ok PROVE DirectionsLead
    BY DEF DirectionsLead
  <2>2. PICK p : /\ Joins(net, job, p) /\ plan = Route(job, p)
                 /\ Len(p) \in Nat \ {0} /\ Lined(p)
    BY <1>1, <2>1, PlanTells
  <2>3. net \in Networks /\ Way(net, job.from, p) /\ Walked(job)
    BY <1>1, <2>2 DEF IInv, Ready, Joins, Aimed, Walked
  <2>4. p[1].at = job.from /\ p[Len(p)].at = job.to
    BY <2>2, AtIs DEF Joins, Way, Last
  <2>5. PICK r : r = Rides(plan.legs)
    OBVIOUS
  <2>6. plan.legs = Legs(job, p)
    BY <2>2 DEF Route
  <2>7. Joined(p, r, Len(p))
    BY <2>2, <2>3, <2>5, <2>6, TotalIs
  <2>8. ASSUME NEW i \in DOMAIN r
        PROVE  /\ Along(r[i]) /\ Head(r[i].stations) = r[i].from
               /\ Last(r[i].stations) = r[i].to
    <3>1. DOMAIN r = 1 .. Len(r)
      BY <2>2, <2>3, <2>5, <2>6, TotalIs, LenProperties
    <3>2. RideOf(p, r[i])
      BY <2>7, <2>8, <3>1 DEF Joined
    <3>. QED  BY <2>3, <3>2, RidesAlong
  <2>9. \A i \in 1 .. Len(r) - 1 : r[i].to = r[i + 1].from
    BY <2>7 DEF Joined
  <2>10. PICK n \in Nat \ {0} : n = Len(p)
    BY <2>2
  <2>11. \/ n = 1 /\ r = <<>>
         \/ n > 1 /\ r # <<>> /\ r[1].from = p[1].at /\ Last(r).to = p[n].at
    <3>1. n = 1 \/ n > 1
      OBVIOUS
    <3>. QED  BY <2>7, <2>10, <3>1 DEF Joined
  <2>12. IF r = <<>> THEN job.from = job.to ELSE r[1].from = job.from /\ Last(r).to = job.to
    BY <2>4, <2>10, <2>11
  <2>13. ASSUME task.tool = Journey, options.mtr # NoOption
         PROVE  /\ options.mtr.to = job.to
                /\ options.mtr.from = IF r = <<>> THEN NoStation ELSE job.from
    <3>1. options.mtr = MtrOption(plan)
      BY <1>1, <2>13 DEF Offered
    <3>2. options.mtr.to = LastNamedStation(plan.legs) /\ options.mtr.from = FirstNamedStation(plan.legs)
      BY <2>1, <3>1 DEF MtrOption
    <3>3. job.from # NoStation /\ job.to # NoStation
      BY <1>1, <2>1 DEF Aimed
    <3>4. /\ LastNamedStation(plan.legs) = job.to
          /\ FirstNamedStation(plan.legs) = IF Len(p) = 1 THEN NoStation ELSE p[1].at
      BY <2>2, <2>3, <2>4, <2>6, <3>3, EndsNamed
    <3>5. r = <<>> <=> Len(p) = 1
      BY <2>10, <2>11
    <3>. QED  BY <2>4, <3>2, <3>4, <3>5
  <2>. QED  BY <2>5, <2>8, <2>9, <2>12, <2>13 DEF DirectionsLead
<1>. QED  BY <1>1, Invariance, Directed, PTL

=============================================================================
