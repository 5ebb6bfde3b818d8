-------------------------- MODULE PoiMirrorProofs --------------------------
(***************************************************************************)
(* Proofs about the mirror, for any number of replicas, commands,          *)
(* categories, fetches and faults.  IInv (module PoiMirrorProperties) is   *)
(* inductive; the safety properties and those about the order of refreshes *)
(* and of a sweep follow from it.  The types are proved on top of it, since*)
(* rowids are bounded only by a count of the writes that have ended.       *)
(***************************************************************************)
EXTENDS PoiMirrorProperties, SetFacts

-----------------------------------------------------------------------------
\* Facts about jobs and steps.

\* A job of a category is no idle thread: 0 is not a category.
LEMMA JobIsBusy ==
  ASSUME NEW j, JobShaped(j)
  PROVE  j # NoJob
BY PoiMirrorAssumption DEF JobShaped, NoJob, Category

\* Initially nothing is stored and nobody works.
LEMMA InitEstablishes == Init => IInv
<1>. SUFFICES ASSUME Init PROVE IInv
  OBVIOUS
<1>1. \A p \in Refreshers : ~Busy(p)
  BY DEF Init, Busy
<1>2. \A c \in Category : Ids(c) = {}
  BY DEF Init, Ids
<1>3. AllIds = {}
  BY <1>2 DEF AllIds
<1>4. 1 \in Category
  BY PoiMirrorAssumption DEF Category
<1>5. Shape
  BY <1>1, <1>4 DEF Shape, Init, States
<1>6. Writers /\ Apart /\ Selections
  BY <1>1 DEF Writers, Apart, Selections
<1>7. Exclusion /\ OverlapHasACause
  BY DEF Init, Exclusion, OverlapHasACause
<1>8. Disjoint /\ IndexInStep
  BY <1>2, <1>3 DEF Init, Disjoint, IndexInStep
<1>9. Newer
  BY <1>1 DEF Newer, Init
<1>10. Stamped
  <2>1. search = [step |-> "idle", cat |-> 1, fresh |-> FALSE]
    BY DEF Init, NoSearch
  <2>. QED  BY <1>1, <1>4, <2>1 DEF Stamped
<1>. QED  BY <1>5, <1>6, <1>7, <1>8, <1>9, <1>10 DEF IInv

\* What the end of a category does to the sweeps: p goes to its next category
\* or ends its sweep, nobody else moves, and p lets nobody else's lock go.
LEMMA SweepMovesOn ==
  ASSUME Shape, NEW p \in Refreshers, NextCategory(p)
  PROVE  /\ state' \in [Refreshers -> States] /\ at' \in [Refreshers -> Category]
         /\ \A q \in Refreshers \ {p} : state'[q] = state[q]
         /\ state'[p] \in {"fetching", "asleep", "down"}
         /\ state'[p] = "fetching" => UNCHANGED lock
         /\ lock # p => UNCHANGED lock
<1>. USE PoiMirrorAssumption DEF Shape, States
<1>1. CASE at[p] = NCat
  <2>1. EndSweep(p)
    BY <1>1 DEF NextCategory
  <2>. QED  BY <2>1 DEF EndSweep, Category
<1>2. CASE at[p] # NCat
  <2>1. at[p] + 1 \in Category
    BY <1>2 DEF Category
  <2>. QED  BY <1>2, <2>1 DEF NextCategory
<1>. QED  BY <1>1, <1>2

\* The end of a thread's work leaves every other thread alone.
LEMMA JobEnds ==
  ASSUME Shape, NEW p \in Refreshers, EndJob(p)
  PROVE  /\ state' \in [Refreshers -> States] /\ at' \in [Refreshers -> Category]
         /\ job' = [q \in Refreshers |-> IF q = p THEN NoJob ELSE job[q]]
         /\ \A q \in Refreshers \ {p} : state'[q] = state[q]
         /\ state'[p] \in {"fetching", "asleep", "down"}
         /\ state'[p] = "fetching" => UNCHANGED lock
         /\ lock # p => UNCHANGED lock
<1>1. job' = [q \in Refreshers |-> IF q = p THEN NoJob ELSE job[q]]
  BY DEF EndJob, Shape
<1>2. CASE state[p] = "stopping"
  BY <1>1, <1>2 DEF EndJob, Shape, States
<1>3. CASE state[p] # "stopping"
  BY <1>1, <1>3, SweepMovesOn DEF EndJob
<1>. QED  BY <1>2, <1>3

\* Updating a function at a point gives a function on the same domain.
LEMMA UpdateShape ==
  ASSUME NEW S, NEW f, f = [x \in S |-> f[x]], NEW y, NEW v
  PROVE  [f EXCEPT ![y] = v] = [x \in S |-> [f EXCEPT ![y] = v][x]]
OBVIOUS

\* What a commit stores: the job's rows under its new rowids, and nothing of
\* another category.
LEMMA CommitStores ==
  ASSUME Shape, NEW p \in Refreshers, Commit(p), NEW j, j = job[p]
  PROVE  /\ JobShaped(j) /\ ~Conflict(j)
         /\ Ids(j.cat)' = NewIds(j.cat, j.rows)
         /\ \A d \in Category \ {j.cat} : Ids(d)' = Ids(d)
         /\ rtree' = (rtree \ j.old) \cup NewIds(j.cat, j.rows)
         /\ meta' = [meta EXCEPT ![j.cat] = j.stamp]
         /\ pois' = [c \in Category |-> pois'[c]]
<1>. DEFINE N == NewIds(j.cat, j.rows)
<1>1. JobShaped(j) /\ j.cat \in Category
  BY DEF Commit, Shape, JobShaped
<1>2. /\ ~Conflict(j)
      /\ rtree' = (rtree \ j.old) \cup N
      /\ meta' = [meta EXCEPT ![j.cat] = j.stamp]
  BY DEF Commit
<1>3. PICK f \in Bijection(j.rows, N) :
        pois' = [pois EXCEPT ![j.cat] = {<<f[e], e>> : e \in j.rows}]
  BY DEF Commit
<1>. DEFINE R == {<<f[e], e>> : e \in j.rows}
<1>4. pois' = [pois EXCEPT ![j.cat] = R] /\ pois = [c \in Category |-> pois[c]]
  BY <1>3 DEF Shape
<1>5. Ids(j.cat)' = {f[e] : e \in j.rows}
  <2>1. pois'[j.cat] = R
    BY <1>1, <1>4
  <2>2. Ids(j.cat)' = {row[1] : row \in pois'[j.cat]}
    BY DEF Ids
  <2>3. \A row \in R : \E e \in j.rows : row = <<f[e], e>> /\ row[1] = f[e]
    OBVIOUS
  <2>4. \A e \in j.rows : <<f[e], e>> \in R /\ <<f[e], e>>[1] = f[e]
    OBVIOUS
  <2>. HIDE DEF R
  <2>5. ASSUME NEW row \in R PROVE row[1] \in {f[e] : e \in j.rows}
    BY <2>3
  <2>6. ASSUME NEW e \in j.rows PROVE f[e] \in {row[1] : row \in R}
    <3>1. PICK row \in R : row[1] = f[e]
      BY <2>4
    <3>. QED  BY <3>1
  <2>. QED  BY <2>1, <2>2, <2>5, <2>6
<1>6. Ids(j.cat)' = N
  <2>1. {f[e] : e \in j.rows} = N
    BY <1>3 DEF Bijection, Injection, Surjection
  <2>. QED  BY <1>5, <2>1
<1>7. ASSUME NEW d \in Category \ {j.cat} PROVE Ids(d)' = Ids(d)
  <2>. HIDE DEF R
  <2>1. pois'[d] = pois[d]
    BY <1>4
  <2>. QED  BY <2>1 DEF Ids
<1>8. pois' = [c \in Category |-> pois'[c]]
  <2>. HIDE DEF R
  <2>. QED  BY <1>4, UpdateShape
<1>. QED  BY <1>1, <1>2, <1>6, <1>7, <1>8, Zenon

\* The search reads only, and a step that changes nothing changes nothing.
LEMMA Reads ==
  ASSUME [Next]_vars
  PROVE  \/ \E p \in Refreshers : \/ Cycle(p) \/ CycleUnlocked(p) \/ Sweep(p) \/ Write(p)
                                 \/ Cancel(p) \/ Kill(p)
         \/ Searching
BY DEF Next, Searching, FindPoi, IsPopulated, Query, StoreFails, FindLive, vars

-----------------------------------------------------------------------------
\* The invariant is inductive, part by part.

\* The variables keep their shape, and who writes has a job.
LEMMA ShapeStep ==
  ASSUME Shape, Writers, [Next]_vars
  PROVE  Shape' /\ Writers'
<1>1. CASE Searching
  BY <1>1 DEF Searching, Shape, Writers, Busy, tables, sweep, bounds, history
<1>2. ASSUME NEW p \in Refreshers, Cycle(p) \/ CycleUnlocked(p) \/ Retry(p)
      PROVE  Shape' /\ Writers'
  <2>1. Shape'
    BY <1>2 DEF Shape, States, Busy, Cycle, CycleUnlocked, Retry, tables, bounds, history
  <2>2. Writers'
    BY <1>2 DEF Shape, Writers, Busy, Ready, Cycle, CycleUnlocked, Retry
  <2>. QED  BY <2>1, <2>2
<1>3. ASSUME NEW p \in Refreshers, FetchReturns(p)
      PROVE  Shape' /\ Writers'
  <2>1. PICK S \in Answers :
          job' = [job EXCEPT ![p] = [cat |-> at[p], rows |-> S, stamp |-> clock + 1,
                                     selected |-> FALSE, old |-> {}]]
    BY <1>3 DEF FetchReturns
  <2>. DEFINE j == [cat |-> at[p], rows |-> S, stamp |-> clock + 1,
                    selected |-> FALSE, old |-> {}]
  <2>2. JobShaped(job'[p]) /\ \A q \in Refreshers \ {p} : job'[q] = job[q]
    <3>1. JobShaped(j)
      BY DEF Shape, JobShaped
    <3>2. job' = [job EXCEPT ![p] = j]
      BY <2>1
    <3>. HIDE DEF j
    <3>3. job'[p] = j /\ \A q \in Refreshers \ {p} : job'[q] = job[q]
      BY <3>2 DEF Shape
    <3>. QED  BY <3>1, <3>3
  <2>3. job' = [q \in Refreshers |-> job'[q]]
    BY <2>1, UpdateShape DEF Shape
  <2>4. Shape'
    BY <1>3, <2>2, <2>3 DEF Shape, States, Busy, FetchReturns, tables
  <2>5. Writers'
    BY <1>3, <2>2 DEF Shape, Writers, Busy, FetchReturns
  <2>. QED  BY <2>4, <2>5
<1>4. ASSUME NEW p \in Refreshers, FetchFails(p)
      PROVE  Shape' /\ Writers'
  <2>1. Shape'
    BY <1>4, SweepMovesOn DEF Shape, Busy, FetchFails, tables, bounds, history
  <2>2. Writers'
    BY <1>4, SweepMovesOn DEF Writers, Busy, FetchFails
  <2>. QED  BY <2>1, <2>2
<1>5. ASSUME NEW p \in Refreshers, Select(p)
      PROVE  Shape' /\ Writers'
  <2>1. job' = [job EXCEPT ![p] = [job[p] EXCEPT !.selected = TRUE, !.old = Ids(job[p].cat)]]
    BY <1>5 DEF Select, Shape
  <2>2. JobShaped(job[p])
    BY <1>5 DEF Select, Shape
  <2>3. JobShaped(job'[p]) /\ \A q \in Refreshers \ {p} : job'[q] = job[q]
    BY <2>1, <2>2 DEF Shape, JobShaped
  <2>4. job' = [q \in Refreshers |-> job'[q]]
    BY <2>1, UpdateShape DEF Shape
  <2>5. Shape'
    BY <1>5, <2>3, <2>4 DEF Shape, Busy, Select, tables, sweep, bounds, history
  <2>6. Writers'
    BY <1>5, <2>3 DEF Shape, Writers, Busy, Select, sweep
  <2>. QED  BY <2>5, <2>6
<1>6. ASSUME NEW p \in Refreshers, Commit(p)
      PROVE  Shape' /\ Writers'
  <2>1. EndJob(p) /\ UNCHANGED <<bounds, search, history>>
    BY <1>6 DEF Commit
  <2>2. JobShaped(job[p]) /\ meta' = [meta EXCEPT ![job[p].cat] = job[p].stamp]
        /\ pois' = [c \in Category |-> pois'[c]]
    BY <1>6, CommitStores
  <2>3. meta' \in [Category -> Nat]
    BY <2>2 DEF Shape, JobShaped
  <2>4. Shape'
    BY <2>1, <2>2, <2>3, JobEnds DEF Shape, Busy, bounds, history
  <2>5. Writers'
    BY <2>1, JobEnds DEF Writers, Busy
  <2>. QED  BY <2>4, <2>5
<1>7. ASSUME NEW p \in Refreshers, WriteFails(p)
      PROVE  Shape' /\ Writers'
  <2>1. EndJob(p) /\ UNCHANGED <<tables, bounds, history>>
    BY <1>7 DEF WriteFails
  <2>2. Shape'
    BY <2>1, JobEnds DEF Shape, Busy, tables, bounds, history
  <2>3. Writers'
    BY <2>1, JobEnds DEF Writers, Busy
  <2>. QED  BY <2>2, <2>3
<1>8. ASSUME NEW p \in Refreshers, Cancel(p)
      PROVE  Shape' /\ Writers'
  <2>1. 1 \in Category
    BY PoiMirrorAssumption DEF Category
  <2>2. Shape'
    BY <1>8, <2>1 DEF Shape, States, Busy, Cancel, Fault, tables
  <2>3. Writers'
    BY <1>8 DEF Shape, Writers, Busy, Cancel
  <2>. QED  BY <2>2, <2>3
<1>9. ASSUME NEW p \in Refreshers, Kill(p)
      PROVE  Shape' /\ Writers'
  <2>1. 1 \in Category
    BY PoiMirrorAssumption DEF Category
  <2>2. job' = [q \in Refreshers |-> IF q = p THEN NoJob ELSE job[q]]
    BY <1>9 DEF Shape, Kill
  <2>3. Shape'
    BY <1>9, <2>1, <2>2 DEF Shape, States, Busy, Kill, Fault, tables, history
  <2>4. Writers'
    BY <1>9, <2>2 DEF Shape, Writers, Busy, Kill
  <2>. QED  BY <2>3, <2>4
<1>. QED  BY Reads, <1>1, <1>2, <1>3, <1>4, <1>5, <1>6, <1>7, <1>8, <1>9 DEF Sweep, Write

\* Mutual exclusion, and with it the absence of overlap.
LEMMA ExclusionStep ==
  ASSUME Shape, Writers, Exclusion, OverlapHasACause, [Next]_vars
  PROVE  Exclusion' /\ OverlapHasACause'
<1>. USE DEF Exclusion, OverlapHasACause
<1>1. CASE Searching
  BY <1>1 DEF Searching, sweep, history
<1>2. ASSUME NEW p \in Refreshers, Cycle(p) \/ CycleUnlocked(p) \/ Retry(p)
      PROVE  Exclusion' /\ OverlapHasACause'
  BY <1>2, PoiMirrorAssumption DEF Shape, Refreshers, Ready, Cycle, CycleUnlocked, Retry, history
<1>3. ASSUME NEW p \in Refreshers, FetchReturns(p)
      PROVE  Exclusion' /\ OverlapHasACause'
  BY <1>3 DEF Shape, Writers, FetchReturns
<1>4. ASSUME NEW p \in Refreshers, FetchFails(p)
      PROVE  Exclusion' /\ OverlapHasACause'
  <2>1. UNCHANGED <<loose, overlap>> /\ NextCategory(p) /\ state[p] = "fetching"
    BY <1>4 DEF FetchFails, history
  <2>. QED  BY <2>1, SweepMovesOn
<1>5. ASSUME NEW p \in Refreshers, Select(p)
      PROVE  Exclusion' /\ OverlapHasACause'
  BY <1>5 DEF Select, sweep, history
<1>6. ASSUME NEW p \in Refreshers, Commit(p) \/ WriteFails(p)
      PROVE  Exclusion' /\ OverlapHasACause'
  <2>1. UNCHANGED <<loose, overlap>> /\ EndJob(p) /\ state[p] \in {"writing", "stopping"}
    BY <1>6 DEF Commit, WriteFails, Writers, history
  <2>. QED  BY <2>1, JobEnds
<1>7. ASSUME NEW p \in Refreshers, Cancel(p) \/ Kill(p)
      PROVE  Exclusion' /\ OverlapHasACause'
  <2>1. CASE Cancel(p)
    BY <1>7, <2>1 DEF Shape, Writers, Cancel
  <2>2. CASE Kill(p)
    BY <1>7, <2>2 DEF Shape, Kill, history
  <2>. QED  BY <1>7, <2>1, <2>2
<1>. QED  BY Reads, <1>1, <1>2, <1>3, <1>4, <1>5, <1>6, <1>7 DEF Sweep, Write

-----------------------------------------------------------------------------
\* Jobs and tables, as long as no two writes of a category overlap.
JobsInv == Apart /\ Selections /\ Disjoint /\ IndexInStep

\* A step that changes neither jobs nor tables keeps them in order, and so
\* does one that only ends a job.
LEMMA JobsKept ==
  ASSUME Shape, JobsInv, UNCHANGED <<pois, rtree, overlap>>,
         \A p \in Refreshers : job'[p] \in {job[p], NoJob}
  PROVE  JobsInv'
<1>. USE DEF JobsInv, Busy
<1>1. AllIds' = AllIds /\ \A c \in Category : Ids(c)' = Ids(c)
  BY DEF AllIds, Ids
<1>2. Apart'
  BY DEF Apart
<1>3. Selections'
  BY <1>1 DEF Selections, Shape, JobShaped
<1>4. Disjoint' /\ IndexInStep'
  BY <1>1 DEF Disjoint, IndexInStep
<1>. QED  BY <1>2, <1>3, <1>4

\* A new job overlaps none of its category, or overlap says so.
LEMMA JobsFetched ==
  ASSUME Shape, JobsInv, NEW p \in Refreshers, FetchReturns(p)
  PROVE  JobsInv'
<1>. USE DEF JobsInv
<1>1. PICK S \in Answers :
        job' = [job EXCEPT ![p] = [cat |-> at[p], rows |-> S, stamp |-> clock + 1,
                                   selected |-> FALSE, old |-> {}]]
  BY DEF FetchReturns
<1>2. /\ job'[p].cat = at[p] /\ ~job'[p].selected
      /\ \A q \in Refreshers \ {p} : job'[q] = job[q]
  BY <1>1 DEF Shape
<1>3. UNCHANGED <<pois, rtree>>
      /\ overlap' = (overlap \/ \E q \in Refreshers \ {p} : Busy(q) /\ job[q].cat = at[p])
  BY DEF FetchReturns, tables
<1>4. AllIds' = AllIds /\ \A c \in Category : Ids(c)' = Ids(c)
  BY <1>3 DEF AllIds, Ids
<1>5. Apart'
  BY <1>2, <1>3 DEF Apart, Busy
<1>6. Selections'
  BY <1>2, <1>3, <1>4 DEF Selections, Busy, Shape, JobShaped
<1>7. Disjoint' /\ IndexInStep'
  BY <1>3, <1>4 DEF Disjoint, IndexInStep
<1>. QED  BY <1>5, <1>6, <1>7

\* What a job selects is what the tables hold of its category.
LEMMA JobsSelected ==
  ASSUME Shape, JobsInv, NEW p \in Refreshers, Select(p)
  PROVE  JobsInv'
<1>. USE DEF JobsInv
<1>1. Busy(p) /\ JobShaped(job[p])
  BY DEF Select, Shape
<1>2. job' = [job EXCEPT ![p] = [job[p] EXCEPT !.selected = TRUE, !.old = Ids(job[p].cat)]]
  BY DEF Select, Shape
<1>3. /\ job'[p].cat = job[p].cat /\ job'[p].old = Ids(job[p].cat)
      /\ \A q \in Refreshers \ {p} : job'[q] = job[q]
  BY <1>1, <1>2 DEF Shape, JobShaped
<1>4. UNCHANGED <<pois, rtree, overlap>>
  BY DEF Select, tables, history
<1>5. AllIds' = AllIds /\ \A c \in Category : Ids(c)' = Ids(c)
  BY <1>4 DEF AllIds, Ids
<1>6. Apart'
  BY <1>1, <1>3, <1>4 DEF Apart, Busy
<1>7. Selections'
  BY <1>1, <1>3, <1>4, <1>5 DEF Selections, Busy, Shape, JobShaped
<1>8. Disjoint' /\ IndexInStep'
  BY <1>4, <1>5 DEF Disjoint, IndexInStep
<1>. QED  BY <1>6, <1>7, <1>8

\* A commit deletes from the index what its category had, since nobody else
\* wrote that category meanwhile, and inserts rowids no other category has,
\* since the index would have refused them.
LEMMA JobsCommitted ==
  ASSUME Shape, JobsInv, NEW p \in Refreshers, Commit(p)
  PROVE  JobsInv'
<1>. USE DEF JobsInv
<1>0. PICK j : j = job[p]
  OBVIOUS
<1>. DEFINE N == NewIds(j.cat, j.rows)
<1>1. Busy(p) /\ j.selected /\ EndJob(p) /\ UNCHANGED overlap
  BY <1>0 DEF Commit, history
<1>2. /\ JobShaped(j) /\ ~Conflict(j)
      /\ Ids(j.cat)' = N
      /\ \A d \in Category \ {j.cat} : Ids(d)' = Ids(d)
      /\ rtree' = (rtree \ j.old) \cup N
  BY <1>0, CommitStores
<1>3. job' = [q \in Refreshers |-> IF q = p THEN NoJob ELSE job[q]]
  BY <1>1, JobEnds
<1>4. SUFFICES ASSUME ~overlap PROVE JobsInv'
  BY <1>1 DEF Apart, Selections, Disjoint, IndexInStep
<1>5. j.cat \in Category /\ j.old = Ids(j.cat)
  BY <1>0, <1>1, <1>2, <1>4 DEF Selections, JobShaped
<1>6. \A d \in Category \ {j.cat} : Ids(d) \cap j.old = {} /\ Ids(d) \subseteq rtree
  BY <1>4, <1>5 DEF Disjoint, IndexInStep, AllIds
<1>7. \A d \in Category \ {j.cat} : Ids(d) \cap N = {}
  BY <1>2, <1>6 DEF Conflict
<1>8. Apart'
  BY <1>3, <1>4 DEF Apart, Busy
<1>9. Selections'
  <2>1. ASSUME NEW q \in Refreshers, Busy(q)' PROVE q # p /\ job'[q] = job[q] /\ Busy(q)
    BY <1>3, <2>1 DEF Busy
  <2>2. \A q \in Refreshers : Busy(q)' => job[q].cat \in Category \ {j.cat}
    BY <1>0, <1>1, <1>4, <2>1 DEF Apart, Shape, JobShaped
  <2>. QED  BY <1>2, <1>4, <2>1, <2>2 DEF Selections
<1>10. Disjoint'
  <2>. HIDE DEF N
  <2>. QED  BY <1>2, <1>4, <1>7 DEF Disjoint
<1>11. IndexInStep'
  <2>1. AllIds' = (AllIds \ Ids(j.cat)) \cup N
    <3>. HIDE DEF N
    <3>. QED  BY <1>2, <1>5, <1>6 DEF AllIds
  <2>. QED  BY <1>2, <1>4, <1>5, <2>1 DEF IndexInStep
<1>. QED  BY <1>8, <1>9, <1>10, <1>11

\* No step takes a job's selection from under it.
LEMMA JobsStep ==
  ASSUME Shape, JobsInv, [Next]_vars
  PROVE  JobsInv'
<1>1. CASE Searching
  BY <1>1, JobsKept DEF Searching, tables, history
<1>2. ASSUME NEW p \in Refreshers,
             \/ Cycle(p) \/ CycleUnlocked(p) \/ Retry(p) \/ FetchFails(p) \/ Cancel(p)
      PROVE  JobsInv'
  <2>1. UNCHANGED <<pois, rtree, overlap, job>>
    BY <1>2 DEF Cycle, CycleUnlocked, Retry, FetchFails, Cancel, tables, history
  <2>. QED  BY <2>1, JobsKept
<1>3. ASSUME NEW p \in Refreshers, Kill(p) \/ WriteFails(p)
      PROVE  JobsInv'
  <2>1. UNCHANGED <<pois, rtree, overlap>>
        /\ job' = [q \in Refreshers |-> IF q = p THEN NoJob ELSE job[q]]
    BY <1>3, JobEnds DEF Kill, WriteFails, tables, history, Shape
  <2>. QED  BY <2>1, JobsKept
<1>. QED  BY Reads, <1>1, <1>2, <1>3, JobsFetched, JobsSelected, JobsCommitted DEF Sweep, Write

\* A step that writes no table and at most ends jobs keeps stamps in order.
LEMMA NewerKept ==
  ASSUME Shape, Newer, UNCHANGED <<meta, clock, overlap>>,
         \A p \in Refreshers : job'[p] \in {job[p], NoJob}
  PROVE  Newer'
BY DEF Newer, Busy

\* A write under way stays newer than what its category holds.
LEMMA NewerStep ==
  ASSUME Shape, Apart, Newer, [Next]_vars
  PROVE  Newer'
<1>1. CASE Searching
  BY <1>1, NewerKept DEF Searching, tables, bounds, history
<1>2. ASSUME NEW p \in Refreshers,
             \/ Cycle(p) \/ CycleUnlocked(p) \/ Retry(p) \/ FetchFails(p) \/ Cancel(p)
      PROVE  Newer'
  <2>1. UNCHANGED <<meta, clock, overlap, job>>
    BY <1>2 DEF Cycle, CycleUnlocked, Retry, FetchFails, Cancel, tables, bounds, history
  <2>. QED  BY <2>1, NewerKept
<1>3. ASSUME NEW p \in Refreshers, Kill(p) \/ WriteFails(p)
      PROVE  Newer'
  <2>1. UNCHANGED <<meta, clock, overlap>>
        /\ job' = [q \in Refreshers |-> IF q = p THEN NoJob ELSE job[q]]
    BY <1>3, JobEnds DEF Kill, WriteFails, tables, bounds, history, Shape
  <2>. QED  BY <2>1, NewerKept
<1>4. ASSUME NEW p \in Refreshers, FetchReturns(p)
      PROVE  Newer'
  <2>1. PICK S \in Answers :
          job' = [job EXCEPT ![p] = [cat |-> at[p], rows |-> S, stamp |-> clock + 1,
                                     selected |-> FALSE, old |-> {}]]
    BY <1>4 DEF FetchReturns
  <2>2. /\ job'[p].cat = at[p] /\ job'[p].stamp = clock + 1
        /\ \A q \in Refreshers \ {p} : job'[q] = job[q]
    BY <2>1 DEF Shape
  <2>3. UNCHANGED meta /\ clock' = clock + 1 /\ (overlap => overlap')
    BY <1>4 DEF FetchReturns, tables
  <2>4. \A q \in Refreshers : Busy(q) => job[q].stamp \in Nat /\ job[q].cat \in Category
    BY DEF Shape, JobShaped
  <2>5. clock \in Nat /\ \A c \in Category : meta[c] \in Nat
    BY DEF Shape
  <2>6. at[p] \in Category
    BY DEF Shape
  <2>. QED  BY <2>2, <2>3, <2>4, <2>5, <2>6 DEF Newer, Busy
<1>5. ASSUME NEW p \in Refreshers, Select(p)
      PROVE  Newer'
  <2>1. Busy(p) /\ JobShaped(job[p])
    BY <1>5 DEF Select, Shape
  <2>2. job' = [job EXCEPT ![p] = [job[p] EXCEPT !.selected = TRUE, !.old = Ids(job[p].cat)]]
    BY <1>5 DEF Select, Shape
  <2>3. /\ job'[p].cat = job[p].cat /\ job'[p].stamp = job[p].stamp
        /\ \A q \in Refreshers \ {p} : job'[q] = job[q]
    BY <2>1, <2>2 DEF Shape, JobShaped
  <2>4. UNCHANGED <<meta, clock, overlap>>
    BY <1>5 DEF Select, tables, bounds, history
  <2>. QED  BY <2>1, <2>3, <2>4 DEF Newer, Busy
<1>6. ASSUME NEW p \in Refreshers, Commit(p)
      PROVE  Newer'
  <2>0. PICK j : j = job[p]
    OBVIOUS
  <2>1. Busy(p) /\ EndJob(p) /\ UNCHANGED <<clock, overlap>>
    BY <1>6 DEF Commit, bounds, history
  <2>2. JobShaped(j) /\ meta' = [meta EXCEPT ![j.cat] = j.stamp]
    BY <1>6, <2>0, CommitStores
  <2>3. \A q \in Refreshers : job'[q] = IF q = p THEN NoJob ELSE job[q]
    BY <2>1, JobEnds
  <2>4. \A c \in Category : meta'[c] = IF c = j.cat THEN j.stamp ELSE meta[c]
    BY <2>2 DEF Shape
  <2>5. j.stamp <= clock
    BY <2>0, <2>1 DEF Newer
  <2>6. \A q \in Refreshers \ {p} : Busy(q) => job[q].cat \in Category
    BY DEF Shape, JobShaped
  <2>7. ~overlap => \A q \in Refreshers \ {p} : Busy(q) => job[q].cat # j.cat
    BY <2>0, <2>1 DEF Apart
  <2>. QED  BY <2>1, <2>3, <2>4, <2>5, <2>6, <2>7 DEF Newer, Busy
<1>. QED  BY Reads, <1>1, <1>2, <1>3, <1>4, <1>5, <1>6 DEF Sweep, Write

-----------------------------------------------------------------------------
\* Stamps, and the search that reads them.

\* A step of a refresher leaves searches alone, and a category that has been
\* refreshed stays so.
LEMMA StampsStay ==
  ASSUME Shape, Stamped, NEW p \in Refreshers,
         \/ Cycle(p) \/ CycleUnlocked(p) \/ Sweep(p) \/ Write(p)
         \/ Cancel(p) \/ Kill(p)
  PROVE  /\ UNCHANGED search
         /\ \A c \in Category : meta[c] # 0 => meta'[c] # 0
         /\ \A q \in Refreshers : Busy(q)' => job'[q].stamp # 0
<1>1. CASE Cycle(p) \/ CycleUnlocked(p) \/ Retry(p) \/ FetchFails(p) \/ Cancel(p)
  <2>1. UNCHANGED <<search, meta, job>>
    BY <1>1 DEF Cycle, CycleUnlocked, Retry, FetchFails, Cancel, tables
  <2>. QED  BY <2>1 DEF Stamped, Busy
<1>2. CASE Kill(p) \/ WriteFails(p)
  <2>1. /\ UNCHANGED <<search, meta>>
        /\ job' = [q \in Refreshers |-> IF q = p THEN NoJob ELSE job[q]]
    BY <1>2, JobEnds DEF Kill, WriteFails, tables, Shape
  <2>. QED  BY <2>1 DEF Stamped, Busy
<1>3. CASE FetchReturns(p)
  <2>1. PICK S \in Answers :
          job' = [job EXCEPT ![p] = [cat |-> at[p], rows |-> S, stamp |-> clock + 1,
                                     selected |-> FALSE, old |-> {}]]
    BY <1>3 DEF FetchReturns
  <2>2. job'[p].stamp = clock + 1 /\ \A q \in Refreshers \ {p} : job'[q] = job[q]
    BY <2>1 DEF Shape
  <2>3. UNCHANGED <<search, meta>> /\ clock + 1 # 0
    BY <1>3 DEF FetchReturns, tables, Shape
  <2>. QED  BY <2>2, <2>3 DEF Stamped, Busy
<1>4. CASE Select(p)
  <2>1. Busy(p) /\ JobShaped(job[p])
    BY <1>4 DEF Select, Shape
  <2>2. job' = [job EXCEPT ![p] = [job[p] EXCEPT !.selected = TRUE, !.old = Ids(job[p].cat)]]
    BY <1>4 DEF Select, Shape
  <2>3. job'[p].stamp = job[p].stamp /\ \A q \in Refreshers \ {p} : job'[q] = job[q]
    BY <2>1, <2>2 DEF Shape, JobShaped
  <2>4. UNCHANGED <<search, meta>>
    BY <1>4 DEF Select, tables
  <2>. QED  BY <2>1, <2>3, <2>4 DEF Stamped, Busy
<1>5. CASE Commit(p)
  <2>0. PICK j : j = job[p]
    OBVIOUS
  <2>1. Busy(p) /\ EndJob(p) /\ UNCHANGED search
    BY <1>5 DEF Commit
  <2>2. JobShaped(j) /\ meta' = [meta EXCEPT ![j.cat] = j.stamp]
    BY <1>5, <2>0, CommitStores
  <2>3. \A q \in Refreshers : job'[q] = IF q = p THEN NoJob ELSE job[q]
    BY <2>1, JobEnds
  <2>4. j.stamp # 0
    BY <2>0, <2>1 DEF Stamped
  <2>. QED  BY <2>1, <2>2, <2>3, <2>4 DEF Stamped, Busy, Shape
<1>. QED  BY <1>1, <1>2, <1>3, <1>4, <1>5 DEF Sweep, Write

\* The search: what it found refreshed is refreshed when it reads.
LEMMA StampedStep ==
  ASSUME Shape, Stamped, [Next]_vars
  PROVE  Stamped'
<1>1. ASSUME NEW p \in Refreshers,
             \/ Cycle(p) \/ CycleUnlocked(p) \/ Sweep(p) \/ Write(p)
             \/ Cancel(p) \/ Kill(p)
      PROVE  Stamped'
  <2>1. /\ UNCHANGED search
        /\ \A c \in Category : meta[c] # 0 => meta'[c] # 0
        /\ \A q \in Refreshers : Busy(q)' => job'[q].stamp # 0
    BY <1>1, StampsStay
  <2>. QED  BY <2>1 DEF Stamped
<1>2. ASSUME UNCHANGED <<meta, job>>,
             search' = [step |-> search'.step, cat |-> search'.cat, fresh |-> search'.fresh],
             search'.cat \in Category,
             search'.fresh => search'.step = "checking" /\ meta[search'.cat] # 0
      PROVE  Stamped'
  BY <1>2 DEF Stamped, Busy
<1>3. ASSUME NEW c \in Sought, FindPoi(c) PROVE Stamped'
  <2>1. search' = [step |-> "checking", cat |-> c, fresh |-> meta[c] # 0]
        /\ UNCHANGED <<meta, job>> /\ c \in Category
    BY <1>3, PoiMirrorAssumption DEF FindPoi, Searching, tables, Category
  <2>2. search'.fresh <=> meta[c] # 0
    BY <2>1, Zenon
  <2>. QED  BY <1>2, <2>1, <2>2
<1>4. ASSUME IsPopulated PROVE Stamped'
  <2>1. UNCHANGED <<meta, job>> /\ search.step = "checking"
    BY <1>4 DEF IsPopulated, Searching, tables
  <2>2. CASE meta[search.cat] # 0
    <3>1. search' = [search EXCEPT !.step = "querying", !.fresh = FALSE]
      BY <1>4, <2>2 DEF IsPopulated
    <3>2. search' = [step |-> "querying", cat |-> search.cat, fresh |-> FALSE]
      BY <3>1 DEF Stamped
    <3>. QED  BY <1>2, <2>1, <3>2 DEF Stamped
  <2>3. CASE meta[search.cat] = 0
    <3>1. search' = [search EXCEPT !.step = "live"]
      BY <1>4, <2>3 DEF IsPopulated
    <3>2. search' = [step |-> "live", cat |-> search.cat, fresh |-> search.fresh]
      BY <3>1 DEF Stamped
    <3>3. ~search.fresh
      BY <2>3 DEF Stamped
    <3>4. ~search'.fresh
      BY <3>2, <3>3, Zenon
    <3>5. search'.cat = search.cat /\ search'.step = "live"
      BY <3>2
    <3>. QED  BY <1>2, <2>1, <3>2, <3>4, <3>5 DEF Stamped
  <2>. QED  BY <2>2, <2>3
<1>5. ASSUME Query \/ FindLive PROVE Stamped'
  <2>1. search' = [step |-> "idle", cat |-> 1, fresh |-> FALSE] /\ UNCHANGED <<meta, job>>
    BY <1>5 DEF Query, FindLive, NoSearch, Searching, tables
  <2>2. 1 \in Category
    BY PoiMirrorAssumption DEF Category
  <2>. QED  BY <1>2, <2>1, <2>2
<1>6. ASSUME StoreFails PROVE Stamped'
  <2>1. search' = [search EXCEPT !.step = "live", !.fresh = FALSE] /\ UNCHANGED <<meta, job>>
    BY <1>6 DEF StoreFails, Searching, tables
  <2>2. search' = [step |-> "live", cat |-> search.cat, fresh |-> FALSE]
    BY <2>1 DEF Stamped
  <2>. QED  BY <1>2, <2>1, <2>2 DEF Stamped
<1>7. ASSUME UNCHANGED vars PROVE Stamped'
  BY <1>7 DEF vars, tables, Stamped, Busy
<1>. QED  BY <1>1, <1>3, <1>4, <1>5, <1>6, <1>7 DEF Next

-----------------------------------------------------------------------------
\* The inductive invariant of the mirror holds in every reachable state.
THEOREM Invariance == Spec => []IInv
<1>1. Init => IInv
  BY InitEstablishes
<1>2. IInv /\ [Next]_vars => IInv'
  BY ShapeStep, ExclusionStep, JobsStep, NewerStep, StampedStep DEF IInv, JobsInv
<1>. QED  BY <1>1, <1>2, PTL DEF Spec

\* Two writes of a category overlap only once a write ran without the lock.
THEOREM OverlapHasACauseHolds == Spec => []OverlapHasACause
<1>1. IInv => OverlapHasACause
  BY DEF IInv
<1>. QED  BY <1>1, Invariance, PTL

\* Index and table hold the same rowids as long as no writes overlapped.
THEOREM IndexInStepHolds == Spec => []IndexInStep
<1>1. IInv => IndexInStep
  BY DEF IInv
<1>. QED  BY <1>1, Invariance, PTL

\* A commit replaces rows by newer ones as long as no write ran without the
\* lock; no other step changes a stamp.
THEOREM FreshnessForwardHolds == Spec => FreshnessForward
<1>. DEFINE Forward == loose \/ \A c \in Category : meta'[c] >= meta[c]
<1>1. IInv /\ [Next]_vars => [Forward]_vars
  <2>. SUFFICES ASSUME IInv, [Next]_vars, ~loose PROVE \A c \in Category : meta'[c] >= meta[c]
    OBVIOUS
  <2>1. Shape /\ Newer /\ ~overlap /\ \A c \in Category : meta[c] \in Nat
    BY DEF IInv, OverlapHasACause, Shape
  <2>2. ASSUME NEW p \in Refreshers, Commit(p)
        PROVE  \A c \in Category : meta'[c] >= meta[c]
    <3>1. PICK j : j = job[p]
      OBVIOUS
    <3>2. JobShaped(j) /\ meta' = [meta EXCEPT ![j.cat] = j.stamp]
      BY <2>1, <2>2, <3>1, CommitStores
    <3>3. meta[j.cat] <= j.stamp
      BY <2>1, <2>2, <3>1 DEF Newer, Commit
    <3>. QED  BY <2>1, <3>2, <3>3 DEF Shape, JobShaped
  <2>3. CASE UNCHANGED meta
    BY <2>1, <2>3
  <2>4. UNCHANGED meta \/ \E p \in Refreshers : Commit(p)
    BY Reads DEF Cycle, CycleUnlocked, Sweep, FetchReturns, Retry, FetchFails, Write, Select,
                 WriteFails, Cancel, Kill, Searching, tables
  <2>. QED  BY <2>2, <2>3, <2>4
<1>. QED  BY <1>1, Invariance, PTL DEF Spec, FreshnessForward

\* A search that begins in a category once refreshed, even to no rows at all,
\* is answered from the mirror unless the store fails it.
THEOREM RefreshedStaysLocalHolds == Spec => []RefreshedStaysLocal
<1>1. IInv => RefreshedStaysLocal
  BY DEF IInv, Stamped, RefreshedStaysLocal
<1>. QED  BY <1>1, Invariance, PTL

\* A sweep ends on its own only at the last category: a fetch or a write that
\* fails there or before moves it on like one that succeeds.
THEOREM SweepsAreWholeHolds == Spec => SweepsAreWhole
<1>. DEFINE Whole == \A p \in Loops :
                       state[p] \in {"fetching", "writing"} /\ state'[p] = "asleep" => at[p] = NCat
<1>1. IInv /\ [Next]_vars => [Whole]_vars
  <2>. SUFFICES ASSUME IInv, [Next]_vars, NEW p \in Loops,
                       state[p] \in {"fetching", "writing"}, state'[p] = "asleep"
                PROVE  at[p] = NCat
    OBVIOUS
  <2>0. Shape /\ p \in Refreshers
    BY DEF IInv, Refreshers
  <2>1. ASSUME NEW q \in Refreshers, NextCategory(q) PROVE at[p] = NCat
    BY <2>0, <2>1 DEF NextCategory, EndSweep, Shape
  <2>2. ASSUME NEW q \in Refreshers, EndJob(q) PROVE at[p] = NCat
    BY <2>0, <2>1, <2>2 DEF EndJob, Shape
  <2>3. ASSUME NEW q \in Refreshers, Cycle(q) \/ CycleUnlocked(q) PROVE FALSE
    BY <2>0, <2>3 DEF Cycle, CycleUnlocked, Ready, Shape
  <2>4. ASSUME NEW q \in Refreshers, FetchReturns(q) \/ Retry(q) \/ Select(q) PROVE FALSE
    BY <2>0, <2>4 DEF FetchReturns, Retry, Select, sweep, Shape
  <2>5. ASSUME NEW q \in Refreshers, Cancel(q) \/ Kill(q) PROVE FALSE
    BY <2>0, <2>5 DEF Cancel, Kill, Shape
  <2>6. CASE Searching
    BY <2>6 DEF Searching, sweep
  <2>. QED  BY Reads, <2>1, <2>2, <2>3, <2>4, <2>5, <2>6
            DEF Sweep, Write, FetchFails, Commit, WriteFails
<1>. QED  BY <1>1, Invariance, PTL DEF Spec, SweepsAreWhole

-----------------------------------------------------------------------------
(***************************************************************************)
(* Type correctness.  Rowids are bounded although a category's rows are    *)
(* inserted above the largest rowid of the others: each write that ended   *)
(* raised the largest by Cap at most, and each needed a fetch of its own.  *)
(***************************************************************************)
\* The stamps of the fetches whose write has ended.
Pending == {job[p].stamp : p \in {q \in Refreshers : Busy(q)}}
Ended   == (1 .. clock) \ Pending
Top     == Cap * Cardinality(Ended)

\* The types that say nothing of rowids.
Plain ==
  /\ lock \in Refreshers \cup {"free"}
  /\ tries \in [Refreshers -> 0 .. MaxRetries]
  /\ clock <= MaxFetches /\ faults \in 0 .. MaxFaults
  /\ search.step \in {"idle", "checking", "querying", "live"} /\ search.fresh \in BOOLEAN

Stocked ==
  /\ \A c \in Category : pois[c] \subseteq (1 .. Top) \X Elements
  /\ rtree \subseteq 1 .. Top
  /\ \A p \in Refreshers : Busy(p) =>
       /\ job[p].rows \in Answers /\ job[p].old \subseteq 1 .. Top
       /\ job[p].selected \in BOOLEAN /\ job[p].stamp \in 1 .. clock
  /\ \A p, q \in Refreshers :
       Busy(p) /\ Busy(q) /\ job[p].stamp = job[q].stamp => p = q

\* The lock, the retries and the bounds stay what they should be.
LEMMA PlainStep ==
  ASSUME IInv, Plain, [Next]_vars
  PROVE  Plain'
<1>. USE PoiMirrorAssumption
<1>0. Shape /\ Stamped
  BY DEF IInv
<1>1. ASSUME NEW p \in Refreshers, NextCategory(p)
      PROVE  lock' \in Refreshers \cup {"free"} /\ tries' \in [Refreshers -> 0 .. MaxRetries]
  BY <1>1 DEF NextCategory, EndSweep, Plain
<1>2. ASSUME NEW p \in Refreshers, EndJob(p)
      PROVE  lock' \in Refreshers \cup {"free"} /\ tries' \in [Refreshers -> 0 .. MaxRetries]
  BY <1>1, <1>2 DEF EndJob, Plain
<1>3. ASSUME NEW p \in Refreshers, Cycle(p) \/ CycleUnlocked(p) \/ Select(p) PROVE Plain'
  BY <1>3 DEF Cycle, CycleUnlocked, Select, Plain, bounds, sweep
<1>4. ASSUME NEW p \in Refreshers, FetchReturns(p) PROVE Plain'
  BY <1>0, <1>4 DEF FetchReturns, Plain, Shape
<1>5. ASSUME NEW p \in Refreshers, Retry(p) PROVE Plain'
  <2>1. tries[p] + 1 \in 0 .. MaxRetries
    BY <1>5 DEF Retry, Plain
  <2>. QED  BY <1>5, <2>1 DEF Retry, Plain, bounds
<1>6. ASSUME NEW p \in Refreshers, FetchFails(p) PROVE Plain'
  BY <1>1, <1>6 DEF FetchFails, Plain, bounds
<1>7. ASSUME NEW p \in Refreshers, Commit(p) \/ WriteFails(p) PROVE Plain'
  <2>1. EndJob(p) /\ UNCHANGED <<bounds, search>>
    BY <1>7 DEF Commit, WriteFails
  <2>. QED  BY <1>2, <2>1 DEF Plain, bounds
<1>8. ASSUME NEW p \in Refreshers, Cancel(p) \/ Kill(p) PROVE Plain'
  BY <1>8 DEF Cancel, Kill, Fault, Plain
<1>9. ASSUME Searching, search'.step \in {"idle", "checking", "querying", "live"},
             search'.fresh \in BOOLEAN
      PROVE  Plain'
  BY <1>9 DEF Searching, Plain, sweep, bounds
<1>10. ASSUME NEW c \in Sought, FindPoi(c) PROVE Plain'
  BY <1>9, <1>10 DEF FindPoi
<1>11. ASSUME IsPopulated PROVE Plain'
  <2>1. search'.step \in {"querying", "live"} /\ search'.fresh \in BOOLEAN
    BY <1>0, <1>11 DEF IsPopulated, Stamped, Plain
  <2>. QED  BY <1>9, <1>11, <2>1 DEF IsPopulated
<1>12. ASSUME Query \/ FindLive PROVE Plain'
  <2>1. search'.step = "idle" /\ search'.fresh = FALSE
    BY <1>12 DEF Query, FindLive, NoSearch
  <2>. QED  BY <1>9, <1>12, <2>1 DEF Query, FindLive
<1>13. ASSUME StoreFails PROVE Plain'
  <2>1. search'.step = "live" /\ search'.fresh = FALSE
    BY <1>0, <1>13 DEF StoreFails, Stamped
  <2>. QED  BY <1>9, <1>13, <2>1 DEF StoreFails
<1>14. ASSUME UNCHANGED vars PROVE Plain'
  BY <1>14 DEF vars, Plain, sweep, bounds
<1>. QED  BY <1>3, <1>4, <1>5, <1>6, <1>7, <1>8, <1>10, <1>11, <1>12, <1>13, <1>14
          DEF Next, Sweep, Write

\* More fetches ended, more rowids may be out.
LEMMA TopGrows ==
  ASSUME clock \in Nat, clock' \in Nat, Ended \subseteq Ended'
  PROVE  Top \in Nat /\ Top' \in Nat /\ Top <= Top'
<1>1. Ended' \in SUBSET (1 .. clock') /\ Ended \in SUBSET (1 .. clock)
  BY DEF Ended
<1>2. IsFiniteSet(Ended') /\ Cardinality(Ended') \in Nat /\ Cardinality(Ended) \in Nat
  BY <1>1, PartOfInterval
<1>3. Cardinality(Ended) <= Cardinality(Ended')
  BY <1>2, FS_Subset
<1>4. \A m, n \in Nat : m <= n => Cap * m \in Nat /\ Cap * n \in Nat /\ Cap * m <= Cap * n
  BY PoiMirrorAssumption
<1>. QED  BY <1>2, <1>3, <1>4 DEF Top

\* One fetch more ended, Cap rowids more may be out.
LEMMA TopRises ==
  ASSUME clock \in Nat, UNCHANGED clock, NEW s \in Ended', s \notin Ended, Ended \subseteq Ended'
  PROVE  Top \in Nat /\ Top' \in Nat /\ Top + Cap <= Top'
<1>1. Ended' \in SUBSET (1 .. clock) /\ Ended \in SUBSET (1 .. clock)
  BY DEF Ended
<1>2. IsFiniteSet(Ended') /\ Cardinality(Ended') \in Nat
      /\ IsFiniteSet(Ended) /\ Cardinality(Ended) \in Nat
  BY <1>1, PartOfInterval
<1>3. Cardinality(Ended \cup {s}) = Cardinality(Ended) + 1
  BY <1>2, FS_AddElement
<1>4. Cardinality(Ended \cup {s}) <= Cardinality(Ended')
  <2>1. Ended \cup {s} \in SUBSET Ended'
    OBVIOUS
  <2>. QED  BY <1>2, <2>1, FS_Subset
<1>5. \A m, n \in Nat : m + 1 <= n => Cap * m \in Nat /\ Cap * n \in Nat /\ Cap * m + Cap <= Cap * n
  <2>1. ASSUME NEW m \in Nat, NEW n \in Nat, m + 1 <= n
        PROVE  Cap * m \in Nat /\ Cap * n \in Nat /\ Cap * m + Cap <= Cap * n
    <3>1. Cap * (m + 1) <= Cap * n /\ Cap * m \in Nat /\ Cap * n \in Nat
      BY <2>1, PoiMirrorAssumption
    <3>2. Cap * (m + 1) = Cap * m + Cap
      BY PoiMirrorAssumption
    <3>. QED  BY <3>1, <3>2
  <2>. QED  BY <2>1
<1>. QED  BY <1>2, <1>3, <1>4, <1>5 DEF Top

\* What was within the old bound is within a new one that is no lower.
LEMMA StockedKept ==
  ASSUME IInv, Stocked, UNCHANGED <<pois, rtree, clock>>,
         \A p \in Refreshers : job'[p] \in {job[p], NoJob}
  PROVE  Stocked'
<1>1. clock \in Nat
  BY DEF IInv, Shape
<1>2. Pending' \subseteq Pending
  BY DEF Pending, Busy
<1>3. Top \in Nat /\ Top' \in Nat /\ Top <= Top'
  BY <1>1, <1>2, TopGrows DEF Ended
<1>4. 1 .. Top \subseteq 1 .. Top'
  BY <1>3
<1>. QED  BY <1>4 DEF Stocked, Busy

\* A fetch brings rows that may come, and a stamp that no other job has.
LEMMA StockedFetched ==
  ASSUME IInv, Stocked, NEW p \in Refreshers, FetchReturns(p)
  PROVE  Stocked'
<1>0. Shape /\ clock \in Nat /\ ~Busy(p)
  BY DEF IInv, Shape, Writers, FetchReturns
<1>1. PICK S \in Answers :
        job' = [job EXCEPT ![p] = [cat |-> at[p], rows |-> S, stamp |-> clock + 1,
                                   selected |-> FALSE, old |-> {}]]
  BY DEF FetchReturns
<1>2. /\ job'[p].rows = S /\ job'[p].stamp = clock + 1 /\ job'[p].selected = FALSE /\ job'[p].old = {}
      /\ \A q \in Refreshers \ {p} : job'[q] = job[q]
  BY <1>0, <1>1 DEF Shape
<1>3. UNCHANGED <<pois, rtree>> /\ clock' = clock + 1
  BY DEF FetchReturns, tables
<1>4. Busy(p)'
  <2>1. JobShaped([cat |-> at[p], rows |-> S, stamp |-> clock + 1, selected |-> FALSE, old |-> {}])
    BY <1>0 DEF Shape, JobShaped
  <2>2. job'[p] = [cat |-> at[p], rows |-> S, stamp |-> clock + 1, selected |-> FALSE, old |-> {}]
    BY <1>0, <1>1 DEF Shape
  <2>. QED  BY <2>1, <2>2, JobIsBusy DEF Busy
<1>5. Pending \subseteq 1 .. clock
  BY DEF Pending, Stocked
<1>6. Pending' = Pending \cup {clock + 1}
  <2>1. \A q \in Refreshers : Busy(q)' <=> (q = p \/ Busy(q))
    BY <1>2, <1>4 DEF Busy
  <2>. QED  BY <1>0, <1>2, <2>1 DEF Pending
<1>7. Ended' = Ended
  BY <1>0, <1>3, <1>5, <1>6 DEF Ended
<1>8. Top' = Top
  BY <1>7 DEF Top
<1>9. \A c \in Category : pois'[c] \subseteq (1 .. Top') \X Elements
  BY <1>3, <1>8 DEF Stocked
<1>10. ASSUME NEW q \in Refreshers, Busy(q)'
       PROVE  /\ job'[q].rows \in Answers /\ job'[q].old \subseteq 1 .. Top'
              /\ job'[q].selected \in BOOLEAN /\ job'[q].stamp \in 1 .. clock'
  <2>1. CASE q = p
    <3>1. job'[q].stamp \in 1 .. clock'
      BY <1>0, <1>2, <1>3, <2>1
    <3>2. job'[q].rows = S /\ job'[q].selected = FALSE /\ job'[q].old = {}
      BY <1>2, <2>1
    <3>. QED  BY <3>1, <3>2
  <2>2. CASE q # p
    <3>1. job'[q] = job[q] /\ Busy(q)
      BY <1>2, <1>10, <2>2 DEF Busy
    <3>2. job[q].stamp \in 1 .. clock'
      BY <1>0, <1>3, <3>1 DEF Stocked
    <3>. QED  BY <1>8, <3>1, <3>2 DEF Stocked
  <2>. QED  BY <2>1, <2>2
<1>11. ASSUME NEW q \in Refreshers, NEW r \in Refreshers, Busy(q)', Busy(r)',
              job'[q].stamp = job'[r].stamp
       PROVE  q = r
  <2>1. \A x \in Refreshers \ {p} : Busy(x)' => Busy(x) /\ job'[x].stamp \in 1 .. clock
    BY <1>2 DEF Busy, Stocked
  <2>2. CASE q = p \/ r = p
    BY <1>0, <1>2, <1>11, <2>1, <2>2
  <2>3. CASE q # p /\ r # p
    BY <1>2, <1>11, <2>1, <2>3 DEF Stocked
  <2>. QED  BY <2>2, <2>3
<1>. QED  BY <1>3, <1>8, <1>9, <1>10, <1>11 DEF Stocked

\* What a job selects to delete are rowids that may be there.
LEMMA StockedSelected ==
  ASSUME IInv, Stocked, NEW p \in Refreshers, Select(p)
  PROVE  Stocked'
<1>0. Shape /\ clock \in Nat
  BY DEF IInv, Shape
<1>1. Busy(p) /\ JobShaped(job[p])
  BY <1>0 DEF Select, Shape
<1>2. job' = [job EXCEPT ![p] = [job[p] EXCEPT !.selected = TRUE, !.old = Ids(job[p].cat)]]
  BY <1>0 DEF Select, Shape
<1>3. /\ job'[p].stamp = job[p].stamp /\ job'[p].rows = job[p].rows
      /\ job'[p].selected = TRUE /\ job'[p].old = Ids(job[p].cat)
      /\ JobShaped(job'[p])
      /\ \A q \in Refreshers \ {p} : job'[q] = job[q]
  BY <1>0, <1>1, <1>2 DEF Shape, JobShaped
<1>4. UNCHANGED <<pois, rtree, clock>>
  BY DEF Select, tables, bounds
<1>5. \A q \in Refreshers : Busy(q)' <=> Busy(q)
  BY <1>1, <1>3, JobIsBusy DEF Busy
<1>6. \A q \in Refreshers : job'[q].stamp = job[q].stamp
  BY <1>3
<1>7. Top' = Top
  <2>1. Pending' = Pending
    BY <1>5, <1>6 DEF Pending
  <2>. QED  BY <1>4, <2>1 DEF Top, Ended
<1>8. Ids(job[p].cat) \subseteq 1 .. Top
  BY <1>1 DEF Ids, Stocked, JobShaped
<1>9. ASSUME NEW q \in Refreshers, Busy(q)'
      PROVE  /\ job'[q].rows \in Answers /\ job'[q].old \subseteq 1 .. Top'
             /\ job'[q].selected \in BOOLEAN /\ job'[q].stamp \in 1 .. clock'
  <2>1. CASE q = p
    BY <1>1, <1>3, <1>4, <1>7, <1>8, <2>1 DEF Stocked
  <2>2. CASE q # p
    BY <1>3, <1>4, <1>5, <1>7, <1>9, <2>2 DEF Stocked
  <2>. QED  BY <2>1, <2>2
<1>. QED  BY <1>4, <1>5, <1>6, <1>7, <1>9 DEF Stocked

\* A commit inserts within Cap of the largest rowid there is.
LEMMA NewIdsBounded ==
  ASSUME Stocked, Top \in Nat, NEW c, NEW S \in Answers
  PROVE  NewIds(c, S) \subseteq 1 .. Top + Cap
<1>. DEFINE B == {0} \cup UNION {Ids(d) : d \in Category \ {c}}
<1>1. \A d \in Category : Ids(d) \subseteq 1 .. Top
  BY DEF Ids, Stocked
<1>2. B \in SUBSET (0 .. Top) /\ B # {}
  BY <1>1
<1>. HIDE DEF B
<1>3. Max(B) \in 0 .. Top
  BY <1>2, LargestOf
<1>4. Base(c) \in 0 .. Top
  BY <1>3 DEF Base, B
<1>5. IsFiniteSet(S) /\ Cardinality(S) <= Cap
  BY FS_Subset, PoiMirrorAssumption DEF Answers
<1>6. Cardinality(S) \in Nat
  BY <1>5, FS_CardinalityType
<1>. QED  BY <1>4, <1>5, <1>6, PoiMirrorAssumption DEF NewIds

\* There are rowids left for what a commit writes.
LEMMA StockedCommitted ==
  ASSUME IInv, Stocked, NEW p \in Refreshers, Commit(p)
  PROVE  Stocked'
<1>. USE PoiMirrorAssumption
<1>0. PICK j : j = job[p]
  OBVIOUS
<1>. DEFINE N == NewIds(j.cat, j.rows)
<1>1. Shape /\ clock \in Nat /\ Busy(p) /\ EndJob(p) /\ UNCHANGED clock
  BY DEF IInv, Shape, Commit, bounds
<1>2. /\ j.cat \in Category /\ j.rows \in Answers /\ j.stamp \in 1 .. clock
      /\ rtree' = (rtree \ j.old) \cup N
  BY <1>0, <1>1, CommitStores DEF Stocked, JobShaped
<1>3. \A q \in Refreshers : job'[q] = IF q = p THEN NoJob ELSE job[q]
  BY <1>1, JobEnds
<1>4. Pending' = Pending \ {j.stamp} /\ j.stamp \in Pending
  <2>1. \A q \in Refreshers : Busy(q)' <=> (Busy(q) /\ q # p)
    BY <1>3 DEF Busy
  <2>2. Pending' = {job[q].stamp : q \in {x \in Refreshers : Busy(x) /\ x # p}}
    BY <1>3, <2>1 DEF Pending
  <2>3. \A q \in Refreshers : Busy(q) /\ q # p => job[q].stamp # j.stamp
    BY <1>0, <1>1 DEF Stocked
  <2>. QED  BY <1>0, <1>1, <2>2, <2>3 DEF Pending
<1>5. j.stamp \in Ended' /\ j.stamp \notin Ended /\ Ended \subseteq Ended'
  BY <1>1, <1>2, <1>4 DEF Ended
<1>6. Top \in Nat /\ Top' \in Nat /\ Top + Cap <= Top'
  BY <1>1, <1>5, TopRises
<1>7. N \subseteq 1 .. Top'
  <2>1. N \subseteq 1 .. Top + Cap
    BY <1>2, <1>6, NewIdsBounded
  <2>. HIDE DEF N
  <2>. QED  BY <1>6, <2>1
<1>8. 1 .. Top \subseteq 1 .. Top'
  BY <1>6
<1>9. PICK f \in Bijection(j.rows, N) :
        pois' = [pois EXCEPT ![j.cat] = {<<f[e], e>> : e \in j.rows}]
  BY <1>0 DEF Commit
<1>. HIDE DEF N
<1>10. ASSUME NEW c \in Category PROVE pois'[c] \subseteq (1 .. Top') \X Elements
  <2>1. CASE c = j.cat
    <3>1. pois'[c] = {<<f[e], e>> : e \in j.rows}
      BY <1>1, <1>9, <2>1 DEF Shape
    <3>2. ASSUME NEW e \in j.rows PROVE f[e] \in N /\ e \in Elements
      <4>1. f \in [j.rows -> N]
        BY <1>9 DEF Bijection, Injection
      <4>2. j.rows \subseteq Elements
        BY <1>2 DEF Answers
      <4>. QED  BY <4>1, <4>2
    <3>3. \A e \in j.rows : <<f[e], e>> \in (1 .. Top') \X Elements
      BY <1>7, <3>2
    <3>. QED  BY <3>1, <3>3
  <2>2. CASE c # j.cat
    <3>1. pois'[c] = pois[c]
      BY <1>1, <1>9, <2>2 DEF Shape
    <3>. QED  BY <1>8, <3>1 DEF Stocked
  <2>. QED  BY <2>1, <2>2
<1>11. rtree' \subseteq 1 .. Top'
  BY <1>2, <1>7, <1>8 DEF Stocked
<1>12. ASSUME NEW q \in Refreshers, Busy(q)'
       PROVE  job'[q] = job[q] /\ Busy(q)
  BY <1>3, <1>12 DEF Busy
<1>. QED  BY <1>1, <1>8, <1>10, <1>11, <1>12 DEF Stocked

\* The tables hold fetched rows under rowids within the bound.
LEMMA StockedStep ==
  ASSUME IInv, Stocked, [Next]_vars
  PROVE  Stocked'
<1>0. Shape
  BY DEF IInv
<1>1. CASE Searching
  BY <1>1, StockedKept DEF Searching, tables, bounds
<1>2. ASSUME NEW p \in Refreshers,
             \/ Cycle(p) \/ CycleUnlocked(p) \/ Retry(p) \/ FetchFails(p) \/ Cancel(p)
      PROVE  Stocked'
  <2>1. UNCHANGED <<pois, rtree, clock, job>>
    BY <1>2 DEF Cycle, CycleUnlocked, Retry, FetchFails, Cancel, tables, bounds
  <2>. QED  BY <2>1, StockedKept
<1>3. ASSUME NEW p \in Refreshers, Kill(p) \/ WriteFails(p)
      PROVE  Stocked'
  <2>1. /\ UNCHANGED <<pois, rtree, clock>>
        /\ job' = [q \in Refreshers |-> IF q = p THEN NoJob ELSE job[q]]
    BY <1>0, <1>3, JobEnds DEF Kill, WriteFails, tables, bounds, Shape
  <2>. QED  BY <2>1, StockedKept
<1>. QED  BY Reads, <1>1, <1>2, <1>3, StockedFetched, StockedSelected, StockedCommitted
          DEF Sweep, Write

\* Every variable of the mirror keeps its type; no rowid exceeds Cap times the
\* number of fetches.
THEOREM TypeCorrectness == Spec => []TypeOK
<1>. USE PoiMirrorAssumption
<1>1. Init => Plain /\ Stocked
  <2>. SUFFICES ASSUME Init PROVE Plain /\ Stocked
    OBVIOUS
  <2>1. Plain
    BY DEF Init, Plain, NoSearch
  <2>2. \A p \in Refreshers : ~Busy(p)
    BY DEF Init, Busy
  <2>. QED  BY <2>1, <2>2 DEF Init, Stocked
<1>2. IInv /\ Plain /\ Stocked /\ [Next]_vars => Plain' /\ Stocked'
  BY PlainStep, StockedStep
<1>3. IInv /\ Plain /\ Stocked => TypeOK
  <2>. SUFFICES ASSUME IInv, Plain, Stocked PROVE TypeOK
    OBVIOUS
  <2>0. Shape /\ Stamped /\ clock \in Stamp
    BY DEF IInv, Shape, Plain, Stamp
  <2>1. Top \in Nat /\ Top <= Cap * MaxFetches
    <3>1. Ended \in SUBSET (1 .. clock) /\ clock \in Nat /\ clock <= MaxFetches
      BY <2>0 DEF Ended, Shape, Plain
    <3>2. Cardinality(Ended) \in 0 .. clock
      BY <3>1, PartOfInterval
    <3>3. \A m, n \in Nat : m <= n => Cap * m \in Nat /\ Cap * m <= Cap * n
      OBVIOUS
    <3>4. Cardinality(Ended) \in Nat /\ Cardinality(Ended) <= MaxFetches
      BY <3>1, <3>2
    <3>. QED  BY <3>3, <3>4 DEF Top
  <2>2. 1 .. Top \subseteq RowId
    <3>1. Cap * MaxFetches \in Nat
      OBVIOUS
    <3>. QED  BY <2>1, <3>1 DEF RowId
  <2>3. pois \in [Category -> SUBSET (RowId \X Elements)]
    <3>1. \A c \in Category : pois[c] \subseteq RowId \X Elements
      BY <2>2 DEF Stocked
    <3>. QED  BY <2>0, <3>1 DEF Shape
  <2>4. rtree \subseteq RowId
    BY <2>2 DEF Stocked
  <2>5. meta \in [Category -> Stamp]
    <3>1. \A c \in Category : meta[c] \in Stamp
      BY <2>0 DEF IInv, Newer, Shape, Plain, Stamp
    <3>. QED  BY <2>0, <3>1 DEF Shape
  <2>6. job \in [Refreshers -> Job \cup {NoJob}]
    <3>1. ASSUME NEW p \in Refreshers, Busy(p) PROVE job[p] \in Job
      <4>1. PICK j : j = job[p]
        OBVIOUS
      <4>2. /\ j.rows \in Answers /\ j.old \subseteq 1 .. Top /\ j.selected \in BOOLEAN
            /\ j.stamp \in 1 .. clock /\ JobShaped(j)
        BY <2>0, <3>1, <4>1 DEF Stocked, Shape
      <4>3. j.stamp \in Stamp /\ j.old \in SUBSET RowId /\ j.cat \in Category
        BY <2>0, <2>2, <4>2 DEF Stamp, JobShaped
      <4>4. j \in Job
        BY <4>2, <4>3 DEF Job, JobShaped
      <4>. QED  BY <4>1, <4>4
    <3>. QED  BY <2>0, <3>1 DEF Shape, Busy
  <2>7. search \in [step  : {"idle", "checking", "querying", "live"},
                    cat   : Category,
                    fresh : BOOLEAN]
    BY <2>0 DEF Stamped, Plain
  <2>. QED  BY <2>0, <2>3, <2>4, <2>5, <2>6, <2>7 DEF TypeOK, Shape, Plain
<1>. QED  BY <1>1, <1>2, <1>3, Invariance, PTL DEF Spec
=============================================================================
