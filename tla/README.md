# TLA+ models of the smart-city agent

Models, model checking and proofs for the agent in `src/smcity`: a FastAPI
service that answers questions about Hong Kong with a language model and tools,
run as two replicas (blue, green) behind nginx, with session state and a mirror
of points of interest in SQLite files the replicas share.

## The system

| Part | Source | State it keeps | Operations | Interacts by |
|---|---|---|---|---|
| Orchestrator | `smcity/orchestrator.py` | a turn's messages, results, trace, reply | `handle_turn`: fast paths, decision, gate retry, parallel dispatch, continuation, synthesis, repairs, save | calls the model, the registry, the session store; emits events |
| Tool-call gates | `tool_call_gates.py` | none | `apply_gates`, `rectify` | called on a first batch |
| Chain rules | `chain_rules.py` | none | `apply_chain_rules` | called on a first round's results |
| Synthesis invariants | `synthesis_invariants.py` | none | `apply_invariants` | called on each candidate reply |
| Classifier, language router | `classifier.py`, `langrouter/`, `coverage.py` | the language saved with a session | `classify`, `extract_location`, `detect`, `choose_query_lang` | called before a turn and before each tool call |
| Tool registry | `tools/registry.py` | the result cache of a process | `dispatch` | called by the orchestrator |
| Session store | `session.py`, `slots.py` | one row per session in `sessions.sqlite3` | `load`, `save`, `delete`, `append_turn` | shared by all replicas |
| Application | `app.py` | open sockets | `POST /turn`, `/ws`, `lifespan` | behind nginx |
| Rate limiter | `ratelimit.py` | token buckets of a process | `acquire` | before each turn |
| Proxy | `deploy/nginx.conf` | failed upstreams | forward, time out, try the next | between clients and replicas |
| POI mirror | `data/poi_store.py`, `data/poi_refresh.py` | tables `pois`, `pois_rtree`, `poi_meta`; a lock file | the refresh loop, the one-shot command, `replace_category`, `query` | shared by all replicas |
| `geo.find_poi` | `tools/osm_pois.py` | none | mirror first, live Overpass otherwise | reads the mirror while it is refreshed |
| Transport, facility, housing, context tools | `tools/*.py` | catalogues of stops, courts, pools and estates, each behind an `asyncio.Lock`, per process | a handler per tool: one or more requests, an answer or an error | behind the registry; handlers share catalogues |
| Journey planner | `tools/transport_planner.py`, `tools/otp2.py` | none | the search over the MTR, the comparison of modes, the sidecar | behind the registry |
| Deployment | `deploy/deploy.sh`, `docker-compose.yml` | the tag each replica runs | roll, health gates, rollback | replaces replicas |
| Coverage evaluation | `smcity_fuzz/coverage_*.py`, `contracts.py`, `judge.py` | a results file and a verdicts file | ask, judge, resume, report | a client of the service; the judge reads what the runner writes |
| Fuzzer | the rest of `smcity_fuzz/` | result files | generate, export | a client of the service |
| Web page | `web/` | one session id, one socket | send a message | a client |

What is hard here:

- **Overlap without a lock.** A turn loads its session's row, works for seconds
  and writes the whole row back. Nothing holds off another turn of the session.
- **A proxy that repeats POSTs.** nginx tries the other replica after a timeout
  or a lost connection, whatever the first one already did.
- **Retries inside a turn.** Gate retry, hint, synthesis retry and three repairs
  compose, over batches of parallel calls that fail or raise one by one.
- **Work that outlives its task.** `asyncio.to_thread` cannot be cancelled: a
  write of the mirror goes on after its loop, and the lock, are gone.
- **Reads outside the transaction.** Python's `sqlite3` opens a transaction at
  the first statement that writes, not at the SELECT before it.

- **Two ages on top of each other.** A result is cached for a time, made from a
  catalogue that is kept for a time of its own, and waited for by callers who
  queue for the catalogue's lock while someone else loads it.
- **Decisions by order.** The classifier and the language detector are chains of
  early returns over a dozen flags; which comes first is the behaviour.
- **Files that crashes leave.** An evaluation is resumed from files whose last
  line may be half written.

What must be right, component by component:

- *a turn* saves one pair and then sends one `turn.final`, or neither; it ends;
  it costs a bounded number of model requests; a gated batch is dispatched only
  in known cases; its trace is complete; a reply known to be wrong goes out
  only when repairs failed;
- *a session* keeps what a sequence of its turns would give, unless turns
  overlap, and turns overlap only for reasons one can name;
- *the mirror* keeps table and index in step, moves forward in time, answers
  locally once refreshed, sweeps whole, and lets its lock go;
- *a tool call* ends, is answered what it asked, never out of a failure, never
  older than the times kept, and says when rows were left out; a catalogue is
  loaded once while it is fresh, and an empty one of courts, pools or estates is
  never handed to those who waited (the catalogues of stops keep an empty one);
- *a question* is taken in the language of the user, takes the fast path only
  where that is plain, and a trip is planned the cheapest way, with directions
  that lead there;
- *an evaluation* asks a question again only for a fault that lost it, leaves
  one out only after a crash, and blames an answer only for what it did.

## Modules

Each component's state machine is in a module named after it, its properties in
`...Properties`, its proofs in `...Proofs`, its model-checking constants in
`MC...`. Definitions marked *Mutant* are wrong on purpose and used by no
specification: each replaces one definition to show that a property notices.

### TurnContract, Turn

`TurnContract` is what a caller may rely on: a turn is worked on, its pair is
stored once, and only then it is answered once; or it dies before that.

`Turn` is `Orchestrator.handle_turn` from the moment the session is loaded.
`pc` is the place in `_handle_turn_inner`; `hit` is the fast path the classifier
took; `calls`, `outcome` and `round` are a batch in flight (`_run_parallel` and
`_run_parallel_named`, results in any order); `records` is what the invariants
are given, `returned` what tools really brought. A call is one of a few kinds,
those the gates and chain rules tell apart. A text is who wrote it, its script
and whether it denies having data. The model may answer anything at any request
and every request may fail. `Begin` is the code before the first await;
`Decide...`, `GateRetry...`, `Hint...`, `Stream...`, `Repair...` are requests to
the model; `ToolReturns` and `ToolRaises` are calls ending one by one;
`Collect...` is what follows the gather in each round; `Check...`, `GiveUp` are
the repair loop; `Compose`, `Save`, `EmitFinal` the end of a turn. `ModelRaises`
is what the client makes no `LLMError` of, a stream that breaks off or an answer
without choices: it leaves the turn uncaught.

### Sessions

The turns of one session, on two replicas, by POST and on a socket. A turn's
inside shrinks to the steps that touch what turns share: `Load`, `ForgetMe`,
`Store`, `Finish`. `Forward`, `TimeOut`, `BadGateway` are nginx; `Crash` and
`Restart` replicas; `OpenSocket` and `CloseSocket` the page. `row` is the row in
the database, `slots` what each attempt holds. `log`, `base`, `wipes`, `orphans`
and `hurried` are history that properties read and actions do not.
`EachTurnKeepsContract` ties it to `TurnContract`: every attempt of every
message steps as its contract does, except when its replica is killed.

### PoiMirror

The refresh loop of each replica, the command, the lock, the tables and one
search. `Cycle` takes the lock or skips; `FetchReturns`, `Retry`, `FetchFails`
are a category's fetch; `Select`, `Commit`, `WriteFails` are
`replace_category` in its worker thread: the SELECT of the old rowids is a step
of its own, since it runs before the transaction, and the statements from DELETE
to COMMIT are one. `Cancel` is shutdown: it ends the loop and releases the lock,
and leaves the thread. `Kill` ends the process, and the kernel drops its lock.
`IsPopulated` and `Query` are the two reads of `find_poi`. `loose` and
`overlap` are history.

### Handlers, Tools

`Handlers` says what each of the 21 tools' handlers does between two awaits: a
function of what it waited for (`req`) and the class of answer that came
(`down`, `notjson`, `error`, `absent`, `none`, `some`, `more`, or a place), to a
request, an answer or an exception. Rows are counts; a trip's ends are kept.

`Tools` runs handlers side by side. `Refuse`, `Hit` and `Miss` are
`ToolRegistry.dispatch`; `cache` is its cache, keyed as the code keys it, by tool
and arguments and not by language. `queue` is who holds or waits for each
catalogue's lock: `Granted` is a waiter that gets it and looks again,
`LoadFails`, `NextPage` and `LoadEnds` are the load, `Heard` any other reply.
`Settle` is what `_dispatch_inner` makes of a handler's step. A result carries
how it was made (when, from a catalogue of when, over which faults); actions do
not read that, properties do.

### Router, Planner, Question

`Router` holds `detect`, `_detection_from_override`, `choose_query_lang`,
`classify` and `extract_location` over a message taken as the fields that its
patterns and word lists tell apart. `Planner` is the MTR search of
`transport_planner.py` with its heap as a set (`Pop` takes any cheapest entry),
and the directions made of the path: `Told` is the handler's loop over it, with
the run in hand (`Tell` ends one where the line changes and boards the next),
`Legs` what is around it, `TotalMin` the accounting (`Changeovers` are the
boardings that it charges as a change). `Question` composes them over the
questions of one session: `Ask` and `AskForced` route a message and save the
language, `PoiAnswers`, `PoiDefers` and `ModelCalls` are the calls that follow,
`PlanSimpleRoute`, `Compare`, `Offer` and `Return` a trip; `RefuseJourney` is one
with an end that does not resolve or two named ends that `Collide`. A journey on
foot is timed at 72 metres a minute, a walk to a station at 78, as the code does.

### CoverageSuite

The runner and the judge of the coverage evaluation as two stages over two
files. A file is its lines, the last of which may be torn. `StartRun` and
`StartJudge` read what is done; `Send` and `Record` are the workers under the
semaphore and the write lock; `Quit`, `Abort`, `Stop` and `Crash` are how a pass
ends early. A crash inside a Chinese character leaves a `garbled` file, on which
no later pass of its command begins. `Verdict` is `contracts.evaluate`, `Bucket` the report's.

## Runs

| Run | Question | Result | Distinct states |
|---|---|---|---|
| `turn` | bounds, gates, trace, repairs and contract of a turn | holds | 385,087 |
| `turn_final` | "the orchestrator still produces a `turn.final`" | violated | |
| `turn_english` | no wrong-language answer after all repairs | violated | |
| `sessions` | what a session keeps under overlap, retries and crashes | holds | 212,469 |
| `sessions_forget` | `forget_me` clears the history | violated | |
| `sessions_retry` | handlers are idempotent for the proxy's retry | violated | |
| `poi_mirror` | index, freshness, search, sweep and lock of the mirror | holds | 399,798 |
| `tools` | age, question and faults of answers; catalogues loaded once; calls end | holds | 139,314 |
| `tools_complete` | an answer that the limit cut says so | violated | |
| `question` | language, fast path, cheapest route, directions | holds | 19,440 |
| `evaluation` | one answer each, holes only by crashes, asked again for cause, fair verdicts | holds | 1,774,670 |
| `poi_mirror_live` | the mirror answers as a live search would | violated | |

### What the violations show

- *turn_final*: `docs/PROTOCOL.md:194` promises a `turn.final` after tool errors.
  A tool name the registry does not hold raises outside the dispatcher's `try`,
  and arguments that are JSON but no object make a trace entry that cannot be
  built; both end the turn with nothing saved and nothing sent.
- *turn_english*: the guard of `orchestrator.py:855-868` looks at the first
  violation only. A Chinese reply that also denies the data counts as a denial
  and is delivered to an English user. The property leaves out turns of which a
  repair request failed (that path returns the text before the guard, on
  purpose), so the counterexample goes through all three repairs and `GiveUp`.
- *sessions_forget*: `meta.forget_me` deletes the row, and its own turn then
  saves the history it had loaded before.
- *sessions_retry*: a POST repeated by nginx is in the history twice.
- *tools_complete*: `query_feature_server` drops the rows over its limit and sets
  `truncated` only if the server has more pages (`csdi.py:202-205`). With a limit
  of 1 and a last page of two rows it returns one and says nothing.
- *poi_mirror_live*: the refresh asks for at most 200 elements (`out center 200`)
  of all Hong Kong, the live search for 200 of a neighbourhood.

### Observations

Where code and comment disagree and no run is spent on it, or the code is
stricter or laxer than a reader would guess:

- *Mirror.* `poi_store.py:25-27` says that only one replica ever writes. A
  shutdown releases the lock over a write that still runs in its thread, and the
  sibling may write beside it: `OverlapHasACause` names this as one of the two
  causes of an overlap.
- *Tools.* The catalogues of stops keep an empty one (`transport_kmb.py:50`), so
  that `EmptyIsSeenFirstHand` speaks of the others; the result cache keeps the
  result of an empty catalogue, so that it speaks of those who waited and not of
  later hits; it
  answers a call in another language for as long as an entry lives; a body that
  says error and holds no data passes for an empty one in most handlers
  (`Excused` lists where).
- *Router.* Override codes are taken as they come: `schemas.py:10` names a list
  nothing checks. A carried language does not break ties between Latin-script
  words, although the docstring of `detect` says so. `classifier.py:451` and
  `:465` speak of routing and of other days, but the merged answer of two kinds
  of data comes before the test for another day. `ShortcutIsPlain` says nothing of
  those two, nor of a place named beside "Hong Kong".
- *Language.* A message without letters keeps the session's language and loses
  its script: the next Simplified-Chinese question is asked in Traditional.
- *Evaluation.* After a crash in the middle of a line the next pass appends to
  that line and spoils its own first row too, which is then asked again
  (`coverage_run.py:6` says that what was processed is skipped);
  `coverage_judge` reads that file strictly and raises on it from then on. After
  one inside a Chinese character no pass of either command reads the file: only
  `JSONDecodeError` is caught. The contract for places wants one search that
  succeeded and one of the expected category, not one that is both
  (`contracts.py:169`), although its docstring says
  `geo.find_poi(category=expected) ok` (`:143`): an answer whose search for the
  category failed beside another that succeeded is called complete. `BlameIsFair`
  states only the other direction, which the code keeps.
- *Trips.* `otp2.py:117` takes the date in UTC and `:122` the time in Hong Kong.

### Bounds

- `turn`: `MaxBatch = 2`. Enough for a bare `find_poi` beside a lookup, an
  `ask_user` beside a search, two lookups of which one fails, a call that raises
  beside one that still runs. The other loops are bounded by the code.
- `sessions`: one POST that tells a location and one socket message that may be
  forgotten; `MaxPairs = 2` for the code's ten (`_MAX_HISTORY` of 20
  messages), so that three saves trim; `MaxFaults = 2`: one to have the POST
  repeated, one more for the repeat or the socket.
- `poi_mirror`: two categories (rowids of one follow those of the other, a sweep
  goes on after a failure); one element, asked for or missing; `MaxFetches = 3`:
  each category once and one of them again; one retry; one shutdown or kill. The
  command with the lock behaves as a second replica's loop does; without the
  lock it is the second writer. `poi_mirror_live` needs two elements for
  `Cap = 1` to drop one.

- `tools`: two callers, three calls, a clock to 4; each behaviour makes the calls
  of one family of tools that share a catalogue or a key, since other tools do
  not meet. Two callers make a waiter behind a load; the third call meets what
  they left. Times to live of 1 and 2 and a catalogue's of 2 make every order of
  expiry. `Page = 2` with limits 1 and 3 cuts in the middle of a page, of the last
  one included, at its end and after it.
- `question`: messages (each one that `IsMessage` says the patterns can find) over the scripts, patterns and places that the code tells
  apart, one at a time without end; two networks of six stations, one where the
  first way to reach a station is on the wrong line, one with a loop, a branch
  and a line that joins nothing; ends by name, by a name half right, by a name
  that is nothing and by points near to and far from stations.
- `evaluation`: three questions, one of each kind of contract, two workers, two
  faults: one to tear a file and one to stop the pass that comes after.

Deadlock is checked in the mirror and the questions, which never stop. A turn, a
session and the tool calls of an instance end, so their configurations say
`CHECK_DEADLOCK FALSE`; that they end well is `ImplementsContract`,
`EveryMessageEnds` and `EveryCallEnds`. The evaluation says so too: with both of
its files garbled no command can begin.

### Fairness

- A turn: weak fairness of `Next`. Requests to the model and to upstreams carry
  timeouts, SQLite a busy timeout; a timeout is one of the failures modelled.
- A session: weak fairness of nginx (forward, 502, receive) and of each attempt's
  `RateLimited`/`Load`, `Store`/`Raise` and `Finish`. Clients need not send;
  replicas need not fail or restart; nobody need close a page.
- The mirror: weak fairness of each refresher's sweep and write together: fetches
  carry a timeout, back-offs and throttles are timed sleeps (a `Retry-After` is
  taken as finite), a write waits for SQLite at most 30 s. That a loop starts a
  new cycle is not assumed.

- Tool calls: weak fairness of each caller's `Granted` and `Answered`. Every
  request carries a timeout, and an `asyncio.Lock` goes to the first in line.
- Questions and the evaluation state no liveness.

## Proofs

TLC checks the instances above; TLAPS proves the following for every value of
the constants.

**TurnProofs** (for every `MaxBatch`). `IInv` of `TurnProperties` is inductive.
Besides the types it says: what round a batch can be in given the fast path
taken (`RoundInv`); why a gated batch is in flight (`GateInv`); how many requests
the rest of the turn can still make at each place, so that the sum with those
made never passes the budget (`LlmInv`); that calls in flight are what dispatched
and traced calls differ by (`TraceInv`); that what tools returned reaches what the
invariants are given (`EvidenceInv`); that a text past the checks was judged by
them (`ReplyInv`); and which counters belong to which end (`EndsInv`).
None of the safety properties is inductive without these. From it follow
`TypeCorrect`, `LlmBudgetHolds`, `GateLeaksHolds`, `TraceCompleteHolds`,
`DenialHolds`, `WrongScriptHolds`, and `ContractSafety`, the safety half of the
refinement of `TurnContract`.

**SessionsProofs** (for any number of requests, faults and turns, and any length
of history). `TypeOK`, which caps the history of the row and of every turn, is
inductive; no other property is. `Attempted` says how
far each attempt has come, told from what nginx counted and what the log holds:
it gives `TwiceNeedsACause`. `Undisturbed` says that while the client waits its
turn and nobody stops listening, one message waits at most and no save comes
between a turn's load and its own: it gives `OverlapNeedsACause`. `InSequence`
says what a turn that loaded the latest row holds in its hands, not only what
the row holds, without which the next save could be anything: it gives
`SequentialTurnsKeepTheRow`. `Kept` follows a saved pair that nothing wiped and
no later save overwrote unseen, in the row and in the slots of every turn that
loaded it, at a distance from the end that trimming cannot pass: it gives
`LossNeedsOverlap`. `EveryTurnKeepsContract` is the step-by-step refinement of
`TurnContract` by each attempt.

**PoiMirrorProofs** (for any number of replicas, commands, categories, elements,
fetches and faults). `IInv` of `PoiMirrorProperties` is inductive. The lock
excludes as long as nothing ran without it (`Exclusion`), so no two writes
overlap (`OverlapHasACause`). Without overlap, writes under way are of different
categories (`Apart`), so what a write selected before its transaction is still
what it deletes (`Selections`); rowids of different categories never collide,
since the index would have refused the insert (`Disjoint`); hence index and table
agree (`IndexInStep`). What is about to be written is newer than what is there
(`Newer`). A fetch's stamp is never the one that means "never refreshed", and a
search has read nothing before it checks (`Stamped`). From it follow
`OverlapHasACauseHolds`, `IndexInStepHolds`, `FreshnessForwardHolds`,
`RefreshedStaysLocalHolds` and `SweepsAreWholeHolds`. `TypeCorrectness` needs
more: rowids of a category follow the largest of the others, so that a bound on
them is a count of the writes that ended, each by at most `Cap` (`Stocked`), and
each of those had a fetch of its own.

**ToolsProofs** (for any number of callers, calls, times to live, pages and
places). `ToolsInv` is inductive. Of each result, kept or told, it says how it
was made (`Sound`); of each call under way what its handler may wait for and
that it has heard no failure, unless it is a trip without an origin, which fails
when its destination is known (`Waits`, `Stranded`); of each catalogue that
whoever loads it is first in its lock and it is not fresh (`LoaderAlone`),
without which a waiter could replace a catalogue just loaded. The lemmas on
`Handlers` carry the weight: a handler asks only for what its tool asks
(`AsksItsOwn`), a fault fails it (`FaultFails`), a catalogue is not made of one
(`LoadedOfNoFault`). From it follow `AnswersAreYoung`, `AnswersTheQuestion`,
`NoAnswerOfAFailure`, `EmptySeenFirstHand` and `LoadedOnce`.
`TypeCorrectness` rests on `TypeInv` besides: whoever is in a queue is under way
for that catalogue, once, and only its head may be loading (`InOrder`). Each
action leaves its caller out of every queue, puts it at the end of one, takes it
off the head, or leaves it there (`Moves`), and each of these keeps the order.

**PlannerProofs** (for every network). The search keeps `BestRoute`: the plan is
the route of a way between the two stations whose fare no other way's is below,
ways that come to a station twice included, and "no path" is said only where
there is none. It needs two facts about the heap: every entry is a way with its
fare (`Stocked`), and every node pushed either waits at its least cost or has
been expanded, so that what follows it was pushed at no more than coming from
there costs (`Ranked`). The heart is `Unavoidable`: as long as the search runs,
every way to the destination has an entry in the heap that costs no more than
the way does; its argument looks at the last station of one given way up to
which nodes were pushed at no more than the way costs to them.

`CheapestRouteHolds` carries this over to what the handler states and what the
property compares it with, the itineraries that come to no station twice. A way
with a loop can be cut (`Cut`) and gets cheaper, since a change of line made by
the cut was made inside it too (`CutIsCheaper`); so the cheapest way is an
itinerary, and the itineraries that a recursive function grows hop by hop are
all of them, as there are no more hops in one than stations to leave from
(`SimpleWaysAreItineraries`). On the other side, the directions are followed
through the loop that makes them. `Tells` is its invariant: the legs so far tell
the way up to the station where the run in hand began (`Whole`), and the line has
not changed since. `Whole` says that the minutes of the legs are those of the
walk and the hops so far and that the rides join up to that station; `Counted`
that the legs board another line as often as the way changes, and that the last
of them with a line has the way's. `Counted` is what makes the total, in which
the handler counts changes between legs, the fare, which counts them between
stations. `DirectionsLeadHolds` reads the rides off the same invariant;
for the option of a journey it needs besides that both ends are stations by the
time there is a plan (`Aimed`) and that the option is of the plan in hand
(`Offered`).

**QuestionProofs** (for every message, override, tool and network).
`SpeaksTheUsersLanguageHolds` rests on `Tongue`: besides the property itself, that
what was spoken last has a script, and that every call is one that the language
of the session can make. `ShortcutIsPlainHolds` rests on `Heard`: what was asked is a message
and its hit is what `Classify` makes of it, or none. `TypeCorrectness` adds
`Paced`, which ties the place in a turn to the search it waits for, and the
planner's invariant.

**CoverageSuiteProofs** (for every corpus, contract and set of answers, and any
number of workers, stops and crashes). What the properties say of the files
holds because of what the commands have still to do: no question left to do has
a row (`Fresh`), what is judged is in the results as long as every line can be
read (`Graded`), what a pass has neither done nor left was lost to a torn line
(`Covered`), and every spoilt line was torn once (`Counted`). From it follow
`OneAnswerEachHolds` and `HolesOnlyByTearingHolds`. `AskedAgainForCauseHolds`
needs `Charged`: a question that has no row and is not being asked has been asked
no more often than faults and torn lines account for, where a line still torn has
taken no row yet. `BlameIsFairHolds` goes through the cases of `Verdict`.

**SetFacts** holds what several of these need of `Max`, `Min` and `Cardinality`,
and what the planner needs of recursion. The prover cannot take an induction
principle or a recursion theorem that speaks of operators; `Induction` speaks of
a set that holds 0 and every successor, and `Recursion` of the function computed
by a table of steps, so that both are used by naming a set or a table. With them
`ItinerariesGrow`, `ToldIs`, `RidesAre` and `SumIs` show that the recursive
functions of the planner, its properties and the community's sum of a function
are what their equations say.

TLC has checked each of these inductive invariants on the instances of the runs.

The assumptions are those of the modules' `ASSUME`s, which TLC evaluates. Of the
planner: networks have finitely many hops (the table in a file), distances are
numbers of metres, what a name resembles is a station or nothing, and the ends of
a trip are a name or none and a point or none (the tool's arguments).

**Model-checked only.** Liveness (`ImplementsContract`'s ending,
`EveryMessageEnds`, `LockIsReleased`, `EveryCallEnds`), which is out of the
prover's reach under fairness. Every safety invariant and action property of the
runs that hold is a theorem.

## Not modelled

- The wording of prompts, replies and rectifications, and the regular expressions
  that class texts: a model may say anything, and a text is its class.
- The predicates of the chain rules over the user's words: a choice of the
  environment.
- The tokens streamed before a reply is repaired, and the events other than
  `turn.final`.
- The rows of an upstream's answer, their parsing and ranking: an answer is how
  much it holds. More than one process over one catalogue or one results file:
  catalogues are per process, and one command writes a file at a time.
- The buckets of the rate limiter (a refill in real time); a message may be
  refused.
- The roll of a deployment: a script over containers and health checks.
- The fuzzer's generator and export, the coverage generator, the web page: tools
  and clients whose state the service does not read.
- Tracing, static files, scripts, declarations and tables: nothing in them
  changes what a turn, a session or the mirror does. `PROJECT.json` lists every
  part with its reason.

## Plan

In order, with the abstract specification or theorem each is for:

1. `TurnContract`, `Turn`, `TurnProofs`: done.
2. `Sessions` over `TurnContract`, `SessionsProofs`: done.
3. `PoiMirror`, `PoiMirrorProofs`: done.
4. `Handlers`, `Tools`, `ToolsProofs`: done.
5. `Router`, `Planner`, `Question`, `PlannerProofs`, `QuestionProofs`: done.
6. `CoverageSuite`, `CoverageSuiteProofs`: done.
7. The limiter's buckets, on a clock of ticks: no bucket holds more than its
   burst.
