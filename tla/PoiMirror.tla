----------------------------- MODULE PoiMirror -----------------------------
(***************************************************************************)
(* The local mirror of points of interest: the refresh loop that every     *)
(* replica runs and the one-shot command (smcity/data/poi_refresh.py), the *)
(* SQLite tables they write (smcity/data/poi_store.py), and geo.find_poi,  *)
(* which reads them (smcity/tools/osm_pois.py).                            *)
(*                                                                         *)
(* A write runs in a worker thread.  Cancelling the loop that awaits it    *)
(* does not stop it, and it outlives the lock the loop held.  SQLite lets  *)
(* one transaction write at a time and hides it until it commits, so the   *)
(* statements from DELETE to COMMIT are one step; the SELECT before them   *)
(* is outside the transaction, and a step of its own.                      *)
(***************************************************************************)
EXTENDS Integers, FiniteSets, FiniteSetsExt, Functions

CONSTANTS
  Loops,       \* replicas, each with its refresh loop
  Commands,    \* runs of python -m smcity.data.poi_refresh
  NCat,        \* categories, swept in order
  Elements,    \* what OpenStreetMap has of a category in Hong Kong
  Near,        \* those inside the box a search looks in
  Sought,      \* the categories searched for
  Cap,         \* elements Overpass is asked for at most (out center 200)
  MaxRetries,  \* poi_refresh_max_retries
  MaxFetches,  \* bound: successful fetches
  MaxFaults    \* bound: shutdowns and kills of a refresher

ASSUME PoiMirrorAssumption ==
  /\ Loops \cap Commands = {}
  /\ "free" \notin Loops \cup Commands
  /\ NCat \in Nat \ {0} /\ Sought \subseteq 1 .. NCat
  /\ IsFiniteSet(Elements) /\ Near \subseteq Elements
  /\ Cap \in Nat \ {0} /\ MaxRetries \in Nat
  /\ MaxFetches \in Nat /\ MaxFaults \in Nat

Refreshers == Loops \cup Commands
Category   == 1 .. NCat
RowId      == 1 .. Cap * MaxFetches
Stamp      == 0 .. MaxFetches     \* 0: no row in poi_meta

\* What a query to Overpass may return; it also cuts short what it cannot
\* finish in time.
Answers == {S \in SUBSET Elements : Cardinality(S) <= Cap}

\* A write in a worker thread: the rows to store, when they were fetched, and
\* the rowids its SELECT found, once it has run.
Job   == [cat : Category, rows : Answers, stamp : Stamp,
          selected : BOOLEAN, old : SUBSET RowId]
NoJob == [cat |-> 0]

VARIABLES
  pois,    \* table pois: per category, its <<rowid, element>>
  rtree,   \* the rowids that table pois_rtree holds
  meta,    \* table poi_meta: when a category was last refreshed
  lock,    \* who holds the flock beside the database
  state,   \* what each refresher is doing
  at,      \* the category it is at
  tries,   \* retries spent on it
  job,     \* the write its worker thread is at
  clock,   \* successful fetches so far, which stamps them
  faults,
  search,  \* one find_poi call
  \* History, which no action reads:
  loose,   \* a write was left behind by its loop, or made without the lock
  overlap  \* two writes of one category were under way at once

tables  == <<pois, rtree, meta>>
sweep   == <<state, at, tries>>
bounds  == <<clock, faults>>
history == <<loose, overlap>>
vars    == <<tables, lock, sweep, job, bounds, search, history>>

Busy(p) == job[p] # NoJob
Ids(c)  == {row[1] : row \in pois[c]}
AllIds  == UNION {Ids(c) : c \in Category}

States == {"down", "fetching", "writing", "asleep", "stopping"}

TypeOK ==
  /\ pois \in [Category -> SUBSET (RowId \X Elements)]
  /\ rtree \subseteq RowId
  /\ meta \in [Category -> Stamp]
  /\ lock \in Refreshers \cup {"free"}
  /\ state \in [Refreshers -> States]
  /\ at \in [Refreshers -> Category]
  /\ tries \in [Refreshers -> 0 .. MaxRetries]
  /\ job \in [Refreshers -> Job \cup {NoJob}]
  /\ clock \in Stamp /\ faults \in 0 .. MaxFaults
  /\ search \in [step  : {"idle", "checking", "querying", "live"},
                 cat   : Category,
                 fresh : BOOLEAN]
  /\ loose \in BOOLEAN /\ overlap \in BOOLEAN

\* fresh: the category had been refreshed when the search began, and its
\* answer is not yet settled.
NoSearch == [step |-> "idle", cat |-> 1, fresh |-> FALSE]

Init ==
  /\ pois = [c \in Category |-> {}] /\ rtree = {}
  /\ meta = [c \in Category |-> 0]
  /\ lock = "free"
  /\ state = [p \in Refreshers |-> "down"]
  /\ at    = [p \in Refreshers |-> 1]
  /\ tries = [p \in Refreshers |-> 0]
  /\ job   = [p \in Refreshers |-> NoJob]
  /\ clock = 0 /\ faults = 0
  /\ search = NoSearch
  /\ loose = FALSE /\ overlap = FALSE

-----------------------------------------------------------------------------
(***************************************************************************)
(* A sweep: refresh_all under the lock, one category after another.        *)
(***************************************************************************)
\* Mutant: nothing releases the lock.
EndSweepLocked(p) ==
  /\ state' = [state EXCEPT ![p] = IF p \in Loops THEN "asleep" ELSE "down"]
  /\ at'    = [at EXCEPT ![p] = 1]
  /\ tries' = [tries EXCEPT ![p] = 0]
  /\ UNCHANGED lock

\* The sweep of p is over: the finally releases the lock.
EndSweep(p) ==
  /\ state' = [state EXCEPT ![p] = IF p \in Loops THEN "asleep" ELSE "down"]
  /\ lock'  = IF lock = p THEN "free" ELSE lock
  /\ at'    = [at EXCEPT ![p] = 1]
  /\ tries' = [tries EXCEPT ![p] = 0]

\* The category of p is dealt with, refreshed or not.
NextCategory(p) ==
  IF at[p] = NCat THEN EndSweep(p)
  ELSE /\ state' = [state EXCEPT ![p] = "fetching"]
       /\ at'    = [at EXCEPT ![p] = @ + 1]
       /\ tries' = [tries EXCEPT ![p] = 0]
       /\ UNCHANGED lock

\* A process that just started, or a loop whose interval is over.
Ready(p) == state[p] \in {"down", "asleep"}

\* Mutant: the flock is shared.
CycleShared(p) ==
  /\ Ready(p)
  /\ lock'  = p
  /\ state' = [state EXCEPT ![p] = "fetching"]
  /\ UNCHANGED <<tables, at, tries, job, bounds, search, history>>

\* A non-blocking flock: whoever finds it taken skips this cycle.
Cycle(p) ==
  /\ Ready(p)
  /\ IF lock = "free"
     THEN /\ lock'  = p
          /\ state' = [state EXCEPT ![p] = "fetching"]
     ELSE /\ state' = [state EXCEPT ![p] = IF p \in Loops THEN "asleep" ELSE "down"]
          /\ UNCHANGED lock
  /\ UNCHANGED <<tables, at, tries, job, bounds, search, history>>

\* The command's --no-lock.
CycleUnlocked(p) ==
  /\ p \in Commands
  /\ Ready(p)
  /\ state' = [state EXCEPT ![p] = "fetching"]
  /\ loose' = TRUE
  /\ UNCHANGED <<tables, lock, at, tries, job, bounds, search, overlap>>

FetchReturns(p) ==
  /\ state[p] = "fetching"
  /\ clock < MaxFetches
  /\ clock' = clock + 1
  /\ \E S \in Answers :
       job' = [job EXCEPT ![p] = [cat |-> at[p], rows |-> S, stamp |-> clock + 1,
                                  selected |-> FALSE, old |-> {}]]
  /\ state' = [state EXCEPT ![p] = "writing"]
  /\ overlap' = (overlap \/ \E q \in Refreshers \ {p} : Busy(q) /\ job[q].cat = at[p])
  /\ UNCHANGED <<tables, lock, at, tries, faults, search, loose>>

\* Mutant: one retry too many.
RetryAgain(p) ==
  /\ state[p] = "fetching"
  /\ tries[p] <= MaxRetries
  /\ tries' = [tries EXCEPT ![p] = @ + 1]
  /\ UNCHANGED <<tables, lock, state, at, job, bounds, search, history>>

\* 429, 5xx, a timeout or a transport error, while retries are left: a
\* back-off, and the same category again.
Retry(p) ==
  /\ state[p] = "fetching"
  /\ tries[p] < MaxRetries
  /\ tries' = [tries EXCEPT ![p] = @ + 1]
  /\ UNCHANGED <<tables, lock, state, at, job, bounds, search, history>>

\* Mutant: the failure of one category ends the sweep.
FetchFailsSweep(p) ==
  /\ state[p] = "fetching"
  /\ EndSweep(p)
  /\ UNCHANGED <<tables, job, bounds, search, history>>

\* Any other failure, or the last retry: logged, and on to the next category.
FetchFails(p) ==
  /\ state[p] = "fetching"
  /\ NextCategory(p)
  /\ UNCHANGED <<tables, job, bounds, search, history>>

-----------------------------------------------------------------------------
(***************************************************************************)
(* replace_category, in the worker thread of p.                            *)
(***************************************************************************)
Select(p) ==
  /\ Busy(p) /\ ~job[p].selected
  /\ job' = [job EXCEPT ![p].selected = TRUE, ![p].old = Ids(job[p].cat)]
  /\ UNCHANGED <<tables, lock, sweep, bounds, search, history>>

\* The thread is done, and its result reaches whoever still waits for it.
EndJob(p) ==
  /\ job' = [job EXCEPT ![p] = NoJob]
  /\ IF state[p] = "stopping"
     THEN state' = [state EXCEPT ![p] = "down"] /\ UNCHANGED <<lock, at, tries>>
     ELSE NextCategory(p)

\* Rows are inserted at the largest rowid of the table plus one.
Base(c)      == Max({0} \cup UNION {Ids(d) : d \in Category \ {c}})
NewIds(c, S) == Base(c) + 1 .. Base(c) + Cardinality(S)

\* A rowid that the index still holds refuses the insert: all is rolled back.
Conflict(j) == NewIds(j.cat, j.rows) \cap (rtree \ j.old) # {}

\* Mutant: the rows go from table pois only.
CommitKeepsIndex(p) ==
  /\ Busy(p) /\ job[p].selected
  /\ LET j == job[p] IN
       /\ ~Conflict(j)
       /\ \E f \in Bijection(j.rows, NewIds(j.cat, j.rows)) :
            pois' = [pois EXCEPT ![j.cat] = {<<f[e], e>> : e \in j.rows}]
       /\ rtree' = rtree \cup NewIds(j.cat, j.rows)
       /\ meta'  = [meta EXCEPT ![j.cat] = j.stamp]
  /\ EndJob(p)
  /\ UNCHANGED <<bounds, search, history>>

\* Mutant: a category without rows gets no freshness stamp.
CommitUnstamped(p) ==
  /\ Busy(p) /\ job[p].selected
  /\ LET j == job[p] IN
       /\ ~Conflict(j)
       /\ \E f \in Bijection(j.rows, NewIds(j.cat, j.rows)) :
            pois' = [pois EXCEPT ![j.cat] = {<<f[e], e>> : e \in j.rows}]
       /\ rtree' = (rtree \ j.old) \cup NewIds(j.cat, j.rows)
       /\ meta'  = [meta EXCEPT ![j.cat] = IF j.rows = {} THEN 0 ELSE j.stamp]
  /\ EndJob(p)
  /\ UNCHANGED <<bounds, search, history>>

Commit(p) ==
  /\ Busy(p) /\ job[p].selected
  /\ LET j == job[p] IN
       /\ ~Conflict(j)
       /\ \E f \in Bijection(j.rows, NewIds(j.cat, j.rows)) :
            pois' = [pois EXCEPT ![j.cat] = {<<f[e], e>> : e \in j.rows}]
       /\ rtree' = (rtree \ j.old) \cup NewIds(j.cat, j.rows)
       /\ meta'  = [meta EXCEPT ![j.cat] = j.stamp]
  /\ EndJob(p)
  /\ UNCHANGED <<bounds, search, history>>

\* The insert conflicts, the database stays locked for 30 s, the disk is full.
WriteFails(p) ==
  /\ Busy(p)
  /\ EndJob(p)
  /\ UNCHANGED <<tables, bounds, search, history>>

-----------------------------------------------------------------------------
Fault == faults < MaxFaults /\ faults' = faults + 1

\* Shutdown cancels the loop, as Ctrl-C does the command, wherever it waits:
\* the finally releases the lock, and a worker thread at work goes on.
Cancel(p) ==
  /\ Fault
  /\ state[p] \notin {"down", "stopping"}
  /\ state' = [state EXCEPT ![p] = IF Busy(p) THEN "stopping" ELSE "down"]
  /\ lock'  = IF lock = p THEN "free" ELSE lock
  /\ at'    = [at EXCEPT ![p] = 1]
  /\ tries' = [tries EXCEPT ![p] = 0]
  /\ loose' = (loose \/ Busy(p))
  /\ UNCHANGED <<tables, job, clock, search, overlap>>

\* SIGKILL: the kernel drops the flock, SQLite what was not committed.
Kill(p) ==
  /\ Fault
  /\ state[p] # "down"
  /\ state' = [state EXCEPT ![p] = "down"]
  /\ lock'  = IF lock = p THEN "free" ELSE lock
  /\ at'    = [at EXCEPT ![p] = 1]
  /\ tries' = [tries EXCEPT ![p] = 0]
  /\ job'   = [job EXCEPT ![p] = NoJob]
  /\ UNCHANGED <<tables, clock, search, history>>

-----------------------------------------------------------------------------
(***************************************************************************)
(* geo.find_poi: is_populated and query are two reads.                     *)
(***************************************************************************)
Searching == UNCHANGED <<tables, lock, sweep, job, bounds, history>>

FindPoi(c) ==
  /\ search.step = "idle"
  /\ search' = [step |-> "checking", cat |-> c, fresh |-> meta[c] # 0]
  /\ Searching

IsPopulated ==
  /\ search.step = "checking"
  /\ search' = IF meta[search.cat] # 0
               THEN [search EXCEPT !.step = "querying", !.fresh = FALSE]
               ELSE [search EXCEPT !.step = "live"]
  /\ Searching

\* What a query of the mirror finds near: the index joined with the table.
QueryResult(c) == {e \in Near : \E i \in rtree : <<i, e>> \in pois[c]}

Query ==
  /\ search.step = "querying"
  /\ search' = NoSearch
  /\ Searching

StoreFails ==
  /\ search.step \in {"checking", "querying"}
  /\ search' = [search EXCEPT !.step = "live", !.fresh = FALSE]
  /\ Searching

\* Overpass answers the search, or it fails.
FindLive ==
  /\ search.step = "live"
  /\ search' = NoSearch
  /\ Searching

-----------------------------------------------------------------------------
Sweep(p) == FetchReturns(p) \/ Retry(p) \/ FetchFails(p)

Write(p) == Select(p) \/ Commit(p) \/ WriteFails(p)

Next ==
  \/ \E p \in Refreshers :
       \/ Cycle(p) \/ CycleUnlocked(p) \/ Sweep(p) \/ Write(p)
       \/ Cancel(p) \/ Kill(p)
  \/ \E c \in Sought : FindPoi(c)
  \/ IsPopulated \/ Query \/ StoreFails \/ FindLive

Spec == Init /\ [][Next]_vars

(***************************************************************************)
(* Requests to Overpass carry a timeout, back-offs and throttles are timed *)
(* sleeps, and a write waits at most for SQLite's busy timeout.            *)
(***************************************************************************)
FairSpec ==
  /\ Spec
  /\ \A p \in Refreshers : WF_vars(Sweep(p) \/ Write(p))
=============================================================================
