-------------------------------- MODULE Turn --------------------------------
(***************************************************************************)
(* One conversational turn, as Orchestrator.handle_turn runs it            *)
(* (smcity/orchestrator.py), with the three guard engines it consults:     *)
(* tool_call_gates before tools run, chain_rules after they ran, and       *)
(* synthesis_invariants on the text the model wrote.                       *)
(*                                                                         *)
(* The language model is the environment: at every request it may fail,    *)
(* answer with no tool calls, or answer with any batch of them and any     *)
(* text.  So are the tools: a call returns records, returns none, or       *)
(* fails, and the calls of one batch finish in any order.                  *)
(***************************************************************************)
EXTENDS Integers, FiniteSets

CONSTANT MaxBatch   \* tool calls the model puts in one answer, at most

ASSUME MaxBatchAssumption == MaxBatch \in Nat \ {0}

(***************************************************************************)
(* Tool calls.  A call is told apart by what the guards and the dispatcher *)
(* make of it:                                                             *)
(*   bare_find_poi  geo.find_poi whose arguments show the gate neither a   *)
(*                  point nor a bounding box                               *)
(*   find_poi       geo.find_poi with one of the two                       *)
(*   unregistered   a name the registry does not hold                      *)
(* A batch gives each position a call or NoCall; the model fills positions *)
(* 1..n, and the last position is kept for the call a rectification adds.  *)
(***************************************************************************)
CallKinds == {"ask_user", "address_lookup", "find_poi", "bare_find_poi",
              "other", "unregistered"}
NoCall    == "no_call"
Position  == 1 .. (MaxBatch + 1)
Batch     == [Position -> CallKinds \cup {NoCall}]
NoBatch   == [i \in Position |-> NoCall]

Calls(b)     == {i \in Position : b[i] # NoCall}
Repeat(k, n) == [i \in Position |-> IF i <= n THEN k ELSE NoCall]
Has(b, k)    == \E i \in Position : b[i] = k
IsFindPoi(k) == k \in {"find_poi", "bare_find_poi"}

\* What the model may propose when it does propose calls.
Proposals ==
  {b \in Batch : \E n \in 1 .. MaxBatch : Calls(b) = 1 .. n}

(***************************************************************************)
(* The gates, in registration order: the first violation wins.             *)
(***************************************************************************)
AskUserOnly(b) ==
  \E i \in Position : b[i] = "ask_user" /\ Calls(b) = {i}

MissingSpatialScope(b) ==
  \E i \in Position :
    /\ b[i] = "bare_find_poi"
    /\ \A j \in Position : j < i => ~IsFindPoi(b[j])

ApplyGates(b) ==
  IF AskUserOnly(b) THEN "ask_user_only"
  ELSE IF MissingSpatialScope(b) THEN "missing_spatial_scope"
  ELSE "none"

\* Every find_poi goes; an address lookup comes, unless one stays.
Rectify(b) ==
  [i \in Position |->
     IF i = MaxBatch + 1
     THEN IF Has(b, "address_lookup") THEN NoCall ELSE "address_lookup"
     ELSE IF IsFindPoi(b[i]) THEN NoCall ELSE b[i]]

(***************************************************************************)
(* Texts.  A reply is told apart by who wrote it, whether it denies having *)
(* data without naming any record, and its script: the one of the two that *)
(* clearly dominates, or else the one the user expects.  Users write       *)
(* Chinese ("cjk"), English, or another Latin-script language ("fra").     *)
(***************************************************************************)
Langs   == {"eng", "fra", "cjk"}
Scripts == {"latin", "chinese"}
LlmText == [by : {"llm"}, denies : BOOLEAN, script : Scripts]
Canned  == [by     : {"chitchat", "question", "unreachable", "cannot_compose", "apology"},
            denies : {FALSE},
            script : Scripts]
NoText    == [by |-> "nobody", denies |-> FALSE, script |-> "latin"]
\* tokens of a synthesis that then failed or was cleaned away to nothing
Fragment  == [by |-> "fragment", denies |-> FALSE, script |-> "latin"]
English(who) == [by |-> who, denies |-> FALSE, script |-> "latin"]
Text == LlmText \cup Canned \cup {NoText, Fragment}

Expected(l) == IF l = "cjk" THEN "chinese" ELSE "latin"
InLang(who, l) == [by |-> who, denies |-> FALSE, script |-> Expected(l)]

\* apply_invariants: data_denial is registered before wrong_language.
ApplyInvariants(t, has_records, l) ==
  IF t.denies /\ has_records THEN "data_denial"
  ELSE IF t.script # Expected(l) THEN "wrong_language"
  ELSE "none"

\* Mutant: one repair more than the code makes.
RepairLimitFour == 4

RepairLimit == 3

-----------------------------------------------------------------------------
VARIABLES
  pc,            \* where handle_turn is waiting
  lang,          \* the language the user is answered in
  ask,           \* what the chain rule reads in the question
  hit,           \* the classifier's verdict
  gate,          \* the gate the first proposal violated, if any
  how,           \* how the first batch came to be dispatched
  round,         \* which dispatch the running batch belongs to
  calls,         \* the batch being dispatched
  outcome,       \* per position, how far its call has come
  started,       \* tool calls dispatched so far
  traced,        \* entries of tool_trace
  dropped,       \* results of a deferred fast path, which no trace reports
  returned,      \* a call that was not dropped came back with records
  records,       \* the results the invariants are given hold records
  clarification, \* meta.ask_user answered in the first round
  attempts,      \* corrective prompts spent on the reply
  unfixed,       \* a corrective prompt failed: the text went out unrepaired
  reply,         \* reply_text
  shown,         \* what the streamed turn.token events add up to
  llm,           \* requests to the model so far
  saves, finals  \* store.save completed, turn.final delivered

request   == <<lang, ask, hit>>
gating    == <<gate, how>>
dispatch  == <<round, calls, outcome>>
tally     == <<started, traced, dropped>>
evidence  == <<returned, records, clarification>>
repairing == <<attempts, unfixed>>
text      == <<reply, shown>>
ends      == <<saves, finals>>
vars == <<pc, request, gating, dispatch, tally, evidence, repairing, text, llm, ends>>

Waiting  == {"received", "decide", "gate_retry", "dispatch", "hint", "synthesis",
             "synthesis_retry", "check", "repair", "compose", "save", "emit"}
Ended    == {"done", "aborted"}
Outcomes == {"idle", "running", "records", "ok", "failed"}
Rounds   == {"none", "named", "lookup", "find", "first", "auto", "hint"}

TypeOK ==
  /\ pc \in Waiting \cup Ended
  /\ lang \in Langs
  /\ ask \in {"category", "shape", "plain"}
  /\ hit \in {"chitchat", "named", "poi_self", "poi_phrase", "none"}
  /\ gate \in {"none", "ask_user_only", "missing_spatial_scope"}
  /\ how \in {"none", "clean", "kept", "retried", "rectified"}
  /\ round \in Rounds
  /\ calls \in Batch
  /\ outcome \in [Position -> Outcomes]
  /\ started \in Nat /\ traced \in Nat /\ dropped \in Nat
  /\ returned \in BOOLEAN /\ records \in BOOLEAN /\ clarification \in BOOLEAN
  /\ attempts \in 0 .. RepairLimit
  /\ unfixed \in BOOLEAN
  /\ reply \in Text /\ shown \in Text
  /\ llm \in Nat
  /\ saves \in 0 .. 1 /\ finals \in 0 .. 1

-----------------------------------------------------------------------------
(***************************************************************************)
(* The request.  A classifier hit on points of interest means the question *)
(* names a category; forced locales and the disabled fast path have        *)
(* hit = "none".                                                           *)
(***************************************************************************)
Init ==
  /\ pc = "received"
  /\ lang \in Langs
  /\ ask \in {"category", "shape", "plain"}
  /\ hit \in {"chitchat", "named", "poi_self", "poi_phrase", "none"}
  /\ hit \in {"poi_self", "poi_phrase"} => ask = "category"
  /\ gate = "none" /\ how = "none"
  /\ round = "none" /\ calls = NoBatch /\ outcome = [i \in Position |-> "idle"]
  /\ started = 0 /\ traced = 0 /\ dropped = 0
  /\ returned = FALSE /\ records = FALSE /\ clarification = FALSE
  /\ attempts = 0 /\ unfixed = FALSE
  /\ reply = NoText /\ shown = NoText
  /\ llm = 0 /\ saves = 0 /\ finals = 0

-----------------------------------------------------------------------------
\* Batches: every call of b is started at once (asyncio.gather).
Launch(b, r) ==
  /\ pc' = "dispatch"
  /\ round' = r
  /\ calls' = b
  /\ outcome' = [i \in Position |-> IF b[i] = NoCall THEN "idle" ELSE "running"]
  /\ started' = started + Cardinality(Calls(b))
  /\ UNCHANGED <<traced, dropped>>

\* The batch has been dealt with and control moves on to p.
Leave(p) ==
  /\ pc' = p
  /\ round' = "none"
  /\ calls' = NoBatch
  /\ outcome' = [i \in Position |-> "idle"]
  /\ UNCHANGED started

AllBack == pc = "dispatch" /\ \A i \in Position : outcome[i] # "running"
Found   == \E i \in Position : outcome[i] = "records"

\* What a call may come back with: a question holds no records.
Returns(k) == IF k = "ask_user" THEN {"ok", "failed"} ELSE {"records", "ok", "failed"}

ToolReturns(i) ==
  /\ pc \in {"dispatch", "aborted"}
  /\ outcome[i] = "running"
  /\ calls[i] # "unregistered"
  /\ \E o \in Returns(calls[i]) :
       /\ outcome' = [outcome EXCEPT ![i] = o]
       /\ returned' = (returned \/ o = "records")
  /\ UNCHANGED <<pc, request, gating, round, calls, tally, records, clarification,
                 repairing, text, llm, ends>>

\* registry.get raises outside the dispatcher's try: gather hands the
\* exception to handle_turn at once, and the siblings run on unattended.
ToolRaises(i) ==
  /\ pc \in {"dispatch", "aborted"}
  /\ outcome[i] = "running"
  /\ calls[i] = "unregistered"
  /\ pc' = "aborted"
  /\ outcome' = [outcome EXCEPT ![i] = "failed"]
  /\ UNCHANGED <<request, gating, round, calls, tally, evidence, repairing, text,
                 llm, ends>>

\* The model's arguments parsed as JSON that is no object: validation failed
\* the call, and ToolTraceEntry refuses to record it.  A find_poi with a point
\* had an object.
TraceRaises ==
  /\ AllBack
  /\ round \in {"first", "hint"}
  /\ \E i \in 1 .. MaxBatch : outcome[i] = "failed" /\ calls[i] # "find_poi"
  /\ pc' = "aborted"
  /\ UNCHANGED <<request, gating, dispatch, tally, evidence, repairing, text, llm, ends>>

-----------------------------------------------------------------------------
Begin ==
  /\ pc = "received"
  /\ \/ /\ hit = "chitchat"
        /\ pc' = "save"
        /\ reply' = InLang("chitchat", lang)
        /\ UNCHANGED <<dispatch, tally>>
     \/ /\ hit = "named"
        /\ \E n \in 1 .. MaxBatch : Launch(Repeat("other", n), "named")
        /\ UNCHANGED reply
     \/ /\ hit = "poi_self"       \* the session knows where the user is
        /\ Launch(Repeat("find_poi", 1), "find")
        /\ UNCHANGED reply
     \/ /\ hit = "poi_phrase"
        /\ Launch(Repeat("address_lookup", 1), "lookup")
        /\ UNCHANGED reply
     \/ /\ hit \in {"none", "poi_self"}
        /\ pc' = "decide"
        /\ UNCHANGED <<dispatch, tally, reply>>
  /\ UNCHANGED <<request, gating, evidence, repairing, shown, llm, ends>>

CollectNamed ==
  /\ AllBack /\ round = "named"
  /\ traced' = traced + Cardinality(Calls(calls))
  /\ records' = (records \/ Found)
  /\ Leave("synthesis")
  /\ UNCHANGED <<request, gating, dropped, returned, clarification, repairing, text,
                 llm, ends>>

\* The phrase resolved to a corroborated point, and find_poi runs there; or it
\* did not, and the model gets the turn while the lookup is forgotten.
CollectLookup ==
  /\ AllBack /\ round = "lookup"
  /\ \/ /\ Found
        /\ Launch(Repeat("find_poi", 1), "find")
        /\ UNCHANGED returned
     \/ /\ Leave("decide")
        /\ dropped' = dropped + 1
        /\ returned' = FALSE
        /\ UNCHANGED traced
  /\ UNCHANGED <<request, gating, records, clarification, repairing, text, llm, ends>>

CollectFind ==
  /\ AllBack /\ round = "find"
  /\ traced' = traced + (IF hit = "poi_phrase" THEN 2 ELSE 1)
  /\ records' = (hit = "poi_phrase" \/ Found)
  /\ Leave("synthesis")
  /\ UNCHANGED <<request, gating, dropped, returned, clarification, repairing, text,
                 llm, ends>>

-----------------------------------------------------------------------------
\* Mutant: the early return for an unreachable model forgets store.save.
DecideFailsUnsaved ==
  /\ pc = "decide"
  /\ pc' = "emit"
  /\ reply' = English("unreachable")
  /\ llm' = llm + 1
  /\ UNCHANGED <<request, gating, dispatch, tally, evidence, repairing, shown, ends>>

DecideFails ==
  /\ pc = "decide"
  /\ pc' = "save"
  /\ reply' = English("unreachable")
  /\ llm' = llm + 1
  /\ UNCHANGED <<request, gating, dispatch, tally, evidence, repairing, shown, ends>>

\* No tool calls although they were required: the text goes out unchecked.
DecideTalks ==
  /\ pc = "decide"
  /\ pc' = "compose"
  /\ reply' \in LlmText \cup {English("cannot_compose")}
  /\ llm' = llm + 1
  /\ UNCHANGED <<request, gating, dispatch, tally, evidence, repairing, shown, ends>>

DecideCalls(b) ==
  /\ pc = "decide"
  /\ llm' = llm + 1
  /\ gate' = ApplyGates(b)
  /\ IF gate' = "none"
     THEN /\ Launch(b, "first")
          /\ how' = "clean"
     ELSE /\ pc' = "gate_retry"
          /\ calls' = b
          /\ UNCHANGED <<round, outcome, tally, how>>
  /\ UNCHANGED <<request, evidence, repairing, text, ends>>

\* The corrective prompt failed or drew no calls: the rejected batch runs.
GateRetryFails ==
  /\ pc = "gate_retry"
  /\ llm' = llm + 1
  /\ how' = "kept"
  /\ Launch(calls, "first")
  /\ UNCHANGED <<request, gate, evidence, repairing, text, ends>>

\* Mutant: the retry is not gated again.
GateRetryUnchecked(b) ==
  /\ pc = "gate_retry"
  /\ llm' = llm + 1
  /\ Launch(b, "first") /\ how' = "retried"
  /\ UNCHANGED <<request, gate, evidence, repairing, text, ends>>

GateRetryCalls(b) ==
  /\ pc = "gate_retry"
  /\ llm' = llm + 1
  /\ IF ApplyGates(b) = gate /\ gate = "missing_spatial_scope"
     THEN Launch(Rectify(b), "first") /\ how' = "rectified"
     ELSE Launch(b, "first") /\ how' = "retried"
  /\ UNCHANGED <<request, gate, evidence, repairing, text, ends>>

-----------------------------------------------------------------------------
\* apply_chain_rules on the first round's results: the last lookup that
\* succeeded found something, no find_poi ran, and the question wants one.
ChainReady ==
  /\ ask # "plain"
  /\ \A i \in Position : ~IsFindPoi(calls[i])
  /\ \E i \in Position :
       /\ calls[i] = "address_lookup"
       /\ outcome[i] = "records"
       /\ \A j \in Position :
            j > i /\ calls[j] = "address_lookup" => outcome[j] = "failed"

\* located: the first candidate has coordinates.
CollectFirst ==
  /\ AllBack /\ round = "first"
  /\ traced' = traced + Cardinality(Calls(calls))
  /\ records' = Found
  /\ clarification' = \E i \in Position : calls[i] = "ask_user" /\ outcome[i] = "ok"
  /\ \E located \in BOOLEAN :
       IF ChainReady /\ located /\ ask = "category"
       THEN /\ pc' = "dispatch"
            /\ round' = "auto"
            /\ calls' = Repeat("find_poi", 1)
            /\ outcome' = [i \in Position |-> IF i = 1 THEN "running" ELSE "idle"]
            /\ started' = started + 1
       ELSE Leave(IF ChainReady /\ located THEN "hint" ELSE "synthesis")
  /\ UNCHANGED <<request, gating, dropped, returned, repairing, text, llm, ends>>

HintFails ==
  /\ pc = "hint"
  /\ pc' = "synthesis"
  /\ llm' = llm + 1
  /\ UNCHANGED <<request, gating, dispatch, tally, evidence, repairing, text, ends>>

\* The batch drawn by the hint passes no gate.
HintCalls(b) ==
  /\ pc = "hint"
  /\ llm' = llm + 1
  /\ Launch(b, "hint")
  /\ UNCHANGED <<request, gating, evidence, repairing, text, ends>>

\* Mutant: the follow-up's results are not appended to the trace.
CollectFollowupUntraced ==
  /\ AllBack /\ round \in {"auto", "hint"}
  /\ records' = (records \/ Found)
  /\ Leave("synthesis")
  /\ UNCHANGED <<request, gating, traced, dropped, returned, clarification, repairing,
                 text, llm, ends>>

\* Mutant: the invariants see the follow-up's results only.
CollectFollowupReplaces ==
  /\ AllBack /\ round \in {"auto", "hint"}
  /\ traced' = traced + Cardinality(Calls(calls))
  /\ records' = Found
  /\ Leave("synthesis")
  /\ UNCHANGED <<request, gating, dropped, returned, clarification, repairing, text,
                 llm, ends>>

CollectFollowup ==
  /\ AllBack /\ round \in {"auto", "hint"}
  /\ traced' = traced + Cardinality(Calls(calls))
  /\ records' = (records \/ Found)
  /\ Leave("synthesis")
  /\ UNCHANGED <<request, gating, dropped, returned, clarification, repairing, text,
                 llm, ends>>

-----------------------------------------------------------------------------
\* llm.py makes an LLMError of what the client library raises, and nothing
\* else: a connection that breaks in the middle of the stream, or an answer
\* without choices to any other request, goes through handle_turn uncaught.
ModelRaises ==
  /\ pc \in {"decide", "gate_retry", "hint", "synthesis", "synthesis_retry", "repair"}
  /\ pc' = "aborted"
  /\ shown' \in IF pc = "synthesis" THEN {NoText, Fragment} ELSE {shown}
  /\ llm' = llm + 1
  /\ UNCHANGED <<request, gating, dispatch, tally, evidence, repairing, reply, ends>>

StreamEnds ==
  /\ pc = "synthesis"
  /\ pc' = "check"
  /\ reply' \in LlmText
  /\ shown' = reply'
  /\ llm' = llm + 1
  /\ UNCHANGED <<request, gating, dispatch, tally, evidence, repairing, ends>>

\* The request failed, or its text was all leaked tool calls.
StreamFails ==
  /\ pc = "synthesis"
  /\ pc' = "synthesis_retry"
  /\ shown' \in {NoText, Fragment}
  /\ llm' = llm + 1
  /\ UNCHANGED <<request, gating, dispatch, tally, evidence, repairing, reply, ends>>

SynthesisRetry ==
  /\ pc = "synthesis_retry"
  /\ pc' = "check"
  /\ reply' \in LlmText \cup {English("cannot_compose")}
  /\ llm' = llm + 1
  /\ UNCHANGED <<request, gating, dispatch, tally, evidence, repairing, shown, ends>>

Violation == ApplyInvariants(reply, records, lang)

CheckPasses ==
  /\ pc = "check"
  /\ Violation = "none"
  /\ pc' = "compose"
  /\ UNCHANGED <<request, gating, dispatch, tally, evidence, repairing, text, llm, ends>>

\* Mutant: the repair loop runs once too often.
CheckFailsOnceMore ==
  /\ pc = "check"
  /\ Violation # "none"
  /\ attempts <= RepairLimit
  /\ pc' = "repair"
  /\ attempts' = attempts + 1
  /\ UNCHANGED <<request, gating, dispatch, tally, evidence, unfixed, text, llm, ends>>

CheckFails ==
  /\ pc = "check"
  /\ Violation # "none"
  /\ attempts < RepairLimit
  /\ pc' = "repair"
  /\ attempts' = attempts + 1
  /\ UNCHANGED <<request, gating, dispatch, tally, evidence, unfixed, text, llm, ends>>

\* An empty answer keeps the candidate.
RepairReplies ==
  /\ pc = "repair"
  /\ pc' = "check"
  /\ reply' \in LlmText \cup {reply}
  /\ llm' = llm + 1
  /\ UNCHANGED <<request, gating, dispatch, tally, evidence, repairing, shown, ends>>

RepairFails ==
  /\ pc = "repair"
  /\ pc' = "compose"
  /\ unfixed' = TRUE
  /\ llm' = llm + 1
  /\ UNCHANGED <<request, gating, dispatch, tally, evidence, attempts, text, ends>>

\* Mutant: the last candidate goes out as it is.
GiveUpShips ==
  /\ pc = "check"
  /\ Violation # "none"
  /\ attempts = RepairLimit
  /\ pc' = "compose"
  /\ UNCHANGED <<request, gating, dispatch, tally, evidence, repairing, text, llm, ends>>

GiveUp ==
  /\ pc = "check"
  /\ Violation # "none"
  /\ attempts = RepairLimit
  /\ pc' = "compose"
  /\ reply' = IF Violation = "wrong_language" /\ lang = "eng"
              THEN English("apology") ELSE reply
  /\ UNCHANGED <<request, gating, dispatch, tally, evidence, repairing, shown, llm, ends>>

\* A clarification takes the place of whatever was synthesised.
Compose ==
  /\ pc = "compose"
  /\ pc' = "save"
  /\ reply' \in IF clarification THEN {t \in Canned : t.by = "question"} ELSE {reply}
  /\ UNCHANGED <<request, gating, dispatch, tally, evidence, repairing, shown, llm, ends>>

-----------------------------------------------------------------------------
Save ==
  /\ pc = "save"
  /\ pc' = "emit"
  /\ saves' = saves + 1
  /\ UNCHANGED <<request, gating, dispatch, tally, evidence, repairing, text, llm, finals>>

EmitFinal ==
  /\ pc = "emit"
  /\ pc' = "done"
  /\ finals' = finals + 1
  /\ UNCHANGED <<request, gating, dispatch, tally, evidence, repairing, text, llm, saves>>

\* SQLite refuses (database locked, disk full): nothing catches it.
StoreFails ==
  /\ pc \in {"received", "save"}
  /\ pc' = "aborted"
  /\ UNCHANGED <<request, gating, dispatch, tally, evidence, repairing, text, llm, ends>>

-----------------------------------------------------------------------------
Tools == \E i \in Position : ToolReturns(i) \/ ToolRaises(i)

Collect == CollectNamed \/ CollectLookup \/ CollectFind \/ CollectFirst
             \/ CollectFollowup \/ TraceRaises

Model ==
  \/ DecideFails \/ DecideTalks \/ GateRetryFails \/ HintFails
  \/ /\ pc \in {"decide", "gate_retry", "hint"}
     /\ \E b \in Proposals : DecideCalls(b) \/ GateRetryCalls(b) \/ HintCalls(b)
  \/ StreamEnds \/ StreamFails \/ SynthesisRetry \/ RepairReplies \/ RepairFails
  \/ ModelRaises

Local == Begin \/ CheckPasses \/ CheckFails \/ GiveUp \/ Compose \/ Save \/ EmitFinal
           \/ StoreFails

Next == Tools \/ Collect \/ Model \/ Local

Spec == Init /\ [][Next]_vars

(***************************************************************************)
(* Every await of a turn ends: requests to the model and to the upstreams  *)
(* carry timeouts (llm_timeout_s, the tools' httpx timeouts, sqlite's busy *)
(* timeout), and one that runs out is a failure like any other.  A turn    *)
(* never waits for another turn.                                           *)
(***************************************************************************)
FairSpec == Spec /\ WF_vars(Next)
=============================================================================
