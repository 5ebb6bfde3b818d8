------------------------ MODULE PoiMirrorProperties ------------------------
(***************************************************************************)
(* What the mirror guarantees, and what its documents claim.               *)
(***************************************************************************)
EXTENDS PoiMirror

(***************************************************************************)
(* Two writes of one category are under way at once only after a loop was  *)
(* cancelled over a write, which then runs on without the lock, or a       *)
(* command ran with --no-lock: the lock, skips, kills and restarts alone   *)
(* never let it happen.                                                    *)
(***************************************************************************)
OverlapHasACause == overlap => loose

(***************************************************************************)
(* The spatial index and the table hold the same rows, so that no POI is   *)
(* invisible to a search and no dead entry is left to refuse a later       *)
(* insert -- as long as no two writes of a category overlapped:            *)
(* replace_category reads the rowids it will delete before its             *)
(* transaction begins.                                                     *)
(***************************************************************************)
IndexInStep == ~overlap => rtree = AllIds

(***************************************************************************)
(* The inductive invariant behind the properties of this module: one part  *)
(* per idea.                                                               *)
(***************************************************************************)
\* The shape of a job; what rows and rowids it holds does not matter.
JobShaped(j) ==
  /\ j = [cat |-> j.cat, rows |-> j.rows, stamp |-> j.stamp,
          selected |-> j.selected, old |-> j.old]
  /\ j.cat \in Category /\ j.stamp \in Nat

Shape ==
  /\ pois = [c \in Category |-> pois[c]]
  /\ meta \in [Category -> Nat]
  /\ state \in [Refreshers -> States]
  /\ at \in [Refreshers -> Category]
  /\ job = [p \in Refreshers |-> job[p]]
  /\ \A p \in Refreshers : Busy(p) => JobShaped(job[p])
  /\ clock \in Nat
  /\ loose \in BOOLEAN /\ overlap \in BOOLEAN

\* A thread is at work for a sweep that waits for it, or one that was cancelled.
Writers == \A p \in Refreshers : Busy(p) => state[p] \in {"writing", "stopping"}

\* Who sweeps holds the lock, as long as nothing ran without it.
Exclusion ==
  ~loose => \A p \in Refreshers :
              /\ state[p] \in {"fetching", "writing"} => lock = p
              /\ state[p] # "stopping"

\* Without overlap, the writes under way are of different categories, so that
\* what each selected is still what it will delete.
Apart ==
  ~overlap => \A p, q \in Refreshers :
                Busy(p) /\ Busy(q) /\ job[p].cat = job[q].cat => p = q

Selections ==
  ~overlap => \A p \in Refreshers :
                Busy(p) /\ job[p].selected => job[p].old = Ids(job[p].cat)

\* No rowid is in two categories.
Disjoint ==
  ~overlap => \A c, d \in Category : Ids(c) \cap Ids(d) # {} => c = d

\* What is about to be written is newer than what is there.
Newer ==
  /\ \A c \in Category : meta[c] <= clock
  /\ ~overlap => \A p \in Refreshers : Busy(p) => meta[job[p].cat] <= job[p].stamp
  /\ \A p \in Refreshers : Busy(p) => job[p].stamp <= clock

\* A fetch has a stamp that is not "never", and a search that found its
\* category refreshed has not read anything yet.
Stamped ==
  /\ \A p \in Refreshers : Busy(p) => job[p].stamp # 0
  /\ search = [step |-> search.step, cat |-> search.cat, fresh |-> search.fresh]
  /\ search.cat \in Category
  /\ search.fresh => search.step = "checking" /\ meta[search.cat] # 0

IInv ==
  /\ Shape /\ Writers /\ Exclusion /\ OverlapHasACause
  /\ Apart /\ Selections /\ Disjoint /\ IndexInStep /\ Newer /\ Stamped

(***************************************************************************)
(* A refresh never replaces a category's rows by older ones, whatever      *)
(* fails, is retried or is killed, unless a write ran without the lock.    *)
(***************************************************************************)
FreshnessForward == [][loose \/ \A c \in Category : meta'[c] >= meta[c]]_vars

(***************************************************************************)
(* Once a category has been refreshed, even to no rows at all, a search    *)
(* that begins answers from the mirror unless the store fails it.          *)
(***************************************************************************)
RefreshedStaysLocal == search.step = "live" => ~search.fresh

(***************************************************************************)
(* A sweep that ends on its own has been through every category: one that  *)
(* fails, or whose write is refused, ends nothing.                         *)
(***************************************************************************)
SweepsAreWhole ==
  [][\A p \in Loops :
       state[p] \in {"fetching", "writing"} /\ state'[p] = "asleep" => at[p] = NCat]_vars

(***************************************************************************)
(* Nobody keeps the lock for ever, so a sibling's later cycle may refresh. *)
(***************************************************************************)
LockIsReleased == lock # "free" ~> lock = "free"

-----------------------------------------------------------------------------
(***************************************************************************)
(* smcity/data/poi_refresh.py: the mirror is what a live find_poi would    *)
(* have returned -- so that a search in a category whose refresh was not   *)
(* cut short to nothing finds something of what is near.                   *)
(***************************************************************************)
MirrorAnswersLikeLive ==
  \A c \in Category : Near # {} /\ ~overlap /\ pois[c] # {} => QueryResult(c) # {}
=============================================================================
