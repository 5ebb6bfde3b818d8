----------------------------- MODULE TurnProofs -----------------------------
(***************************************************************************)
(* Proofs about the turn, for every batch size the model may use.  IInv    *)
(* (module TurnProperties) is inductive; type correctness, the safety      *)
(* properties and the safety half of the refinement follow from it.        *)
(***************************************************************************)
EXTENDS TurnProperties, FiniteSetTheorems, TLAPS

-----------------------------------------------------------------------------
\* Facts about batches.

\* A batch is finite, so counting its calls gives a number.
LEMMA CallsCountable ==
  ASSUME NEW b \in Batch
  PROVE  IsFiniteSet(Calls(b)) /\ Cardinality(Calls(b)) \in Nat
<1>1. IsFiniteSet(Position)
  BY FS_Interval, MaxBatchAssumption DEF Position
<1>2. Calls(b) \subseteq Position
  BY DEF Calls
<1>. QED  BY <1>1, <1>2, FS_Subset, FS_CardinalityType

\* One call of the orchestrator's own is a batch with one call in it.
LEMMA SingleCall ==
  ASSUME NEW k \in CallKinds
  PROVE  /\ Repeat(k, 1) \in Batch
         /\ Calls(Repeat(k, 1)) = {1}
         /\ Cardinality(Calls(Repeat(k, 1))) = 1
<1>1. Repeat(k, 1) \in Batch
  BY DEF Repeat, Batch
<1>2. Calls(Repeat(k, 1)) = {1}
  BY MaxBatchAssumption DEF Repeat, Calls, Position, CallKinds, NoCall
<1>. QED  BY <1>1, <1>2, FS_Singleton

\* What the classifier names is a batch.
LEMMA NamedCalls ==
  ASSUME NEW n \in 1 .. MaxBatch
  PROVE  Repeat("other", n) \in Batch
BY DEF Repeat, Batch, CallKinds

\* What rectification returns is a batch.
LEMMA RectifyBatch ==
  ASSUME NEW b \in Batch
  PROVE  Rectify(b) \in Batch
BY DEF Rectify, Batch, CallKinds, NoCall

\* _rectify repairs what it is called for: whatever the model proposed, the
\* rectified batch passes every gate.
LEMMA RectifiedPassesGates ==
  ASSUME NEW b \in Proposals
  PROVE  ApplyGates(Rectify(b)) = "none"
<1>. DEFINE r == Rectify(b)
<1>1. PICK n \in 1 .. MaxBatch : Calls(b) = 1 .. n
  BY DEF Proposals
<1>2. b \in Batch /\ b[MaxBatch + 1] = NoCall
  BY <1>1, MaxBatchAssumption DEF Proposals, Calls, Position
<1>3. r \in Batch
  BY <1>2, RectifyBatch
<1>4. \E j \in Position : r[j] = "address_lookup"
  <2>1. CASE Has(b, "address_lookup")
    BY <1>2, <2>1, MaxBatchAssumption DEF Has, Rectify, Position, IsFindPoi, NoCall
  <2>2. CASE ~Has(b, "address_lookup")
    BY <2>2, MaxBatchAssumption DEF Rectify, Position
  <2>. QED  BY <2>1, <2>2
<1>5. ~AskUserOnly(r)
  BY <1>4 DEF AskUserOnly, Calls, NoCall
<1>6. ~MissingSpatialScope(r)
  BY MaxBatchAssumption DEF MissingSpatialScope, Rectify, Position, IsFindPoi, NoCall
<1>. QED  BY <1>5, <1>6 DEF ApplyGates

\* The orchestrator's own calls pass the gates as well, and every verdict is
\* one of three.
LEMMA GateVerdicts ==
  ASSUME NEW b
  PROVE  ApplyGates(b) \in {"none", "ask_user_only", "missing_spatial_scope"}
BY DEF ApplyGates

\* The texts the code writes itself are texts.
LEMMA CannedTexts ==
  /\ NoText \in Text /\ Fragment \in Text
  /\ \A l \in Langs : InLang("chitchat", l) \in Text
  /\ \A w \in {"unreachable", "cannot_compose", "apology"} : English(w) \in Text
BY DEF NoText, Fragment, InLang, English, Text, Canned, Langs, Scripts, Expected

-----------------------------------------------------------------------------
\* Every step keeps every variable in its type.
LEMMA TypeStep ==
  ASSUME TypeOK, EndsInv, [Next]_vars
  PROVE  TypeOK'
<1>. USE DEF TypeOK, request, gating, dispatch, tally, evidence, repairing, text, ends
<1>1. ASSUME NEW i \in Position, ToolReturns(i) PROVE TypeOK'
  BY <1>1 DEF ToolReturns, Returns, Outcomes
<1>2. ASSUME NEW i \in Position, ToolRaises(i) PROVE TypeOK'
  BY <1>2 DEF ToolRaises, Outcomes, Ended
<1>3. ASSUME Begin PROVE TypeOK'
  <2>1. "other" \in CallKinds /\ "find_poi" \in CallKinds /\ "address_lookup" \in CallKinds
    BY DEF CallKinds
  <2>. QED  BY <1>3, <2>1, SingleCall, NamedCalls, CallsCountable, CannedTexts
            DEF Begin, Launch, Outcomes, Rounds, Waiting
<1>4. ASSUME Collect PROVE TypeOK'
  <2>. USE DEF Outcomes, Rounds, Waiting, Ended
  <2>1. NoBatch \in Batch
    BY DEF NoBatch, Batch
  <2>2. "find_poi" \in CallKinds
    BY DEF CallKinds
  <2>3. Cardinality(Calls(calls)) \in Nat
    BY CallsCountable
  <2>4. CASE CollectNamed
    BY <2>1, <2>3, <2>4 DEF CollectNamed, Leave, Found
  <2>5. CASE CollectLookup
    <3>0. UNCHANGED <<request, gating, records, clarification, repairing, text, llm, ends>>
      BY <2>5 DEF CollectLookup
    <3>1. CASE Launch(Repeat("find_poi", 1), "find") /\ UNCHANGED returned
      BY <2>2, <3>0, <3>1, SingleCall DEF Launch
    <3>2. CASE Leave("decide") /\ dropped' = dropped + 1 /\ returned' = FALSE /\ UNCHANGED traced
      <4>1. returned' \in BOOLEAN
        BY <3>2
      <4>2. Leave("decide") /\ dropped' = dropped + 1 /\ UNCHANGED traced
        BY <3>2
      <4>. QED  BY <2>1, <3>0, <4>1, <4>2 DEF Leave
    <3>. QED  BY <2>5, <3>1, <3>2 DEF CollectLookup
  <2>6. CASE CollectFind
    BY <2>1, <2>6 DEF CollectFind, Leave, Found
  <2>7. CASE CollectFirst
    BY <2>1, <2>2, <2>3, <2>7, SingleCall DEF CollectFirst, Leave, Found
  <2>8. CASE CollectFollowup
    BY <2>1, <2>3, <2>8 DEF CollectFollowup, Leave, Found
  <2>9. CASE TraceRaises
    BY <2>9 DEF TraceRaises
  <2>. QED  BY <1>4, <2>4, <2>5, <2>6, <2>7, <2>8, <2>9 DEF Collect
<1>5. ASSUME NEW b \in Proposals, DecideCalls(b) \/ GateRetryCalls(b) \/ HintCalls(b)
      PROVE  TypeOK'
  <2>1. b \in Batch /\ Rectify(b) \in Batch
    BY RectifyBatch DEF Proposals
  <2>. QED  BY <1>5, <2>1, CallsCountable, GateVerdicts
            DEF DecideCalls, GateRetryCalls, HintCalls, Launch, Outcomes, Rounds, Waiting
<1>6. ASSUME DecideFails \/ DecideTalks \/ GateRetryFails \/ HintFails PROVE TypeOK'
  BY <1>6, CallsCountable, CannedTexts
  DEF DecideFails, DecideTalks, GateRetryFails, HintFails, Launch, Outcomes, Rounds, Waiting, Text
<1>7. ASSUME StreamEnds \/ StreamFails \/ SynthesisRetry \/ RepairReplies \/ RepairFails
      PROVE  TypeOK'
  <2>1. LlmText \subseteq Text
    BY DEF Text
  <2>2. reply' \in Text /\ shown' \in Text
    BY <1>7, <2>1, CannedTexts
    DEF StreamEnds, StreamFails, SynthesisRetry, RepairReplies, RepairFails
  <2>3. llm' \in Nat /\ pc' \in Waiting
    BY <1>7 DEF StreamEnds, StreamFails, SynthesisRetry, RepairReplies, RepairFails, Waiting
  <2>4. unfixed' = TRUE \/ unfixed' = unfixed
    BY <1>7, Zenon DEF StreamEnds, StreamFails, SynthesisRetry, RepairReplies, RepairFails
  <2>5. unfixed' \in BOOLEAN
    BY <2>4
  <2>6. UNCHANGED <<request, gating, dispatch, tally, evidence, attempts, ends>>
    BY <1>7 DEF StreamEnds, StreamFails, SynthesisRetry, RepairReplies, RepairFails
  <2>. QED  BY <2>2, <2>3, <2>5, <2>6
<1>8. ASSUME CheckPasses \/ CheckFails \/ GiveUp \/ Compose PROVE TypeOK'
  <2>1. CASE CheckPasses \/ CheckFails
    BY <2>1 DEF CheckPasses, CheckFails, Waiting, RepairLimit
  <2>2. CASE GiveUp
    BY <2>2, CannedTexts DEF GiveUp, Waiting
  <2>3. CASE Compose
    BY <2>3 DEF Compose, Waiting, Text
  <2>. QED  BY <1>8, <2>1, <2>2, <2>3
<1>9. ASSUME Save \/ EmitFinal \/ StoreFails PROVE TypeOK'
  BY <1>9 DEF EndsInv, Save, EmitFinal, StoreFails, Waiting, Ended
<1>10. ASSUME ModelRaises PROVE TypeOK'
  BY <1>10, CannedTexts DEF ModelRaises, Ended
<1>11. CASE UNCHANGED vars
  BY <1>11 DEF vars
<1>. QED  BY <1>1, <1>2, <1>3, <1>4, <1>5, <1>6, <1>7, <1>8, <1>9, <1>10, <1>11
          DEF Next, Tools, Model, Local

-----------------------------------------------------------------------------
\* The pair is saved before the reply, once.
LEMMA EndsStep ==
  ASSUME EndsInv, [Next]_vars
  PROVE  EndsInv'
<1>. USE DEF EndsInv, ends
<1>1. ASSUME NEW i \in Position, ToolReturns(i) \/ ToolRaises(i) PROVE EndsInv'
  BY <1>1 DEF ToolReturns, ToolRaises
<1>2. CASE Begin
  BY <1>2 DEF Begin, Launch
<1>3. CASE Collect
  BY <1>3 DEF Collect, CollectNamed, CollectLookup, CollectFind, CollectFirst, CollectFollowup,
              TraceRaises, AllBack, Launch, Leave
<1>4. ASSUME NEW b \in Proposals, DecideCalls(b) \/ GateRetryCalls(b) \/ HintCalls(b)
      PROVE  EndsInv'
  BY <1>4 DEF DecideCalls, GateRetryCalls, HintCalls, Launch
<1>5. CASE Model /\ \A b \in Proposals : ~(DecideCalls(b) \/ GateRetryCalls(b) \/ HintCalls(b))
  BY <1>5 DEF Model, DecideFails, DecideTalks, GateRetryFails, HintFails, StreamEnds, StreamFails,
              SynthesisRetry, RepairReplies, RepairFails, ModelRaises, Launch
<1>6. CASE Local
  BY <1>2, <1>6 DEF Local, CheckPasses, CheckFails, GiveUp, Compose, Save, EmitFinal, StoreFails
<1>7. CASE UNCHANGED vars
  BY <1>7 DEF vars
<1>. QED  BY <1>1, <1>2, <1>3, <1>4, <1>5, <1>6, <1>7 DEF Next, Tools, Model

\* A batch is in flight exactly while the turn waits for it, and a round is
\* one the classifier's verdict allows.
LEMMA RoundStep ==
  ASSUME RoundInv, [Next]_vars
  PROVE  RoundInv'
<1>. USE DEF RoundInv, request, dispatch
<1>1. ASSUME NEW i \in Position, ToolReturns(i) \/ ToolRaises(i) PROVE RoundInv'
  BY <1>1 DEF ToolReturns, ToolRaises
<1>2. CASE Begin
  BY <1>2 DEF Begin, Launch
<1>3. CASE CollectNamed \/ CollectFind \/ CollectFollowup \/ TraceRaises
  BY <1>3 DEF CollectNamed, CollectFind, CollectFollowup, TraceRaises, AllBack, Leave
<1>4. CASE CollectLookup
  BY <1>4 DEF CollectLookup, AllBack, Launch, Leave
<1>5. CASE CollectFirst
  BY <1>5 DEF CollectFirst, AllBack, Leave
<1>6. ASSUME NEW b \in Proposals, DecideCalls(b) \/ GateRetryCalls(b) \/ HintCalls(b)
      PROVE  RoundInv'
  BY <1>6 DEF DecideCalls, GateRetryCalls, HintCalls, Launch
<1>7. CASE Model /\ \A b \in Proposals : ~(DecideCalls(b) \/ GateRetryCalls(b) \/ HintCalls(b))
  BY <1>7 DEF Model, DecideFails, DecideTalks, GateRetryFails, HintFails, StreamEnds, StreamFails,
              SynthesisRetry, RepairReplies, RepairFails, ModelRaises, Launch
<1>8. CASE Local
  BY <1>2, <1>8 DEF Local, CheckPasses, CheckFails, GiveUp, Compose, Save, EmitFinal, StoreFails
<1>9. CASE UNCHANGED vars
  BY <1>9 DEF vars
<1>. QED  BY <1>1, <1>2, <1>3, <1>4, <1>5, <1>6, <1>7, <1>8, <1>9
          DEF Next, Tools, Collect, Model

\* What is dispatched first passed the gates, or is one of the known leaks.
LEMMA GateStep ==
  ASSUME TypeOK, RoundInv, GateInv, [Next]_vars
  PROVE  GateInv'
<1>. USE DEF GateInv, gating, dispatch
<1>1. ASSUME NEW i \in Position, ToolReturns(i) \/ ToolRaises(i) PROVE GateInv'
  BY <1>1 DEF ToolReturns, ToolRaises
<1>2. CASE Begin
  BY <1>2 DEF Begin, Launch, RoundInv
<1>3. CASE Collect
  BY <1>3 DEF Collect, CollectNamed, CollectLookup, CollectFind, CollectFirst, CollectFollowup,
              TraceRaises, AllBack, Launch, Leave
<1>4. ASSUME NEW b \in Proposals, DecideCalls(b) PROVE GateInv'
  BY <1>4 DEF DecideCalls, Launch, RoundInv
<1>5. ASSUME NEW b \in Proposals, GateRetryCalls(b) PROVE GateInv'
  BY <1>5, RectifiedPassesGates DEF GateRetryCalls, Launch
<1>6. ASSUME NEW b \in Proposals, HintCalls(b) PROVE GateInv'
  BY <1>6 DEF HintCalls, Launch
<1>7. CASE Model /\ \A b \in Proposals : ~(DecideCalls(b) \/ GateRetryCalls(b) \/ HintCalls(b))
  BY <1>7 DEF Model, DecideFails, DecideTalks, GateRetryFails, HintFails, StreamEnds, StreamFails,
              SynthesisRetry, RepairReplies, RepairFails, ModelRaises, Launch
<1>8. CASE Local
  BY <1>2, <1>8 DEF Local, CheckPasses, CheckFails, GiveUp, Compose, Save, EmitFinal, StoreFails
<1>9. CASE UNCHANGED vars
  BY <1>9 DEF vars
<1>. QED  BY <1>1, <1>2, <1>3, <1>4, <1>5, <1>6, <1>7, <1>8, <1>9
          DEF Next, Tools, Collect, Model

\* The requests made and the requests still to come stay within the budget.
LEMMA LlmStep ==
  ASSUME TypeOK, RoundInv, LlmInv, [Next]_vars
  PROVE  LlmInv'
<1>. USE DEF LlmInv, LlmLeft, RepairLimit, request, dispatch, repairing
<1>0. llm \in Nat /\ attempts \in 0 .. RepairLimit
  BY DEF TypeOK
<1>1. ASSUME NEW i \in Position, ToolReturns(i) \/ ToolRaises(i) PROVE LlmInv'
  BY <1>0, <1>1 DEF ToolReturns, ToolRaises
<1>2. CASE Begin
  BY <1>0, <1>2 DEF Begin, Launch
<1>3. CASE CollectNamed \/ CollectFind \/ CollectFollowup \/ TraceRaises
  BY <1>0, <1>3 DEF CollectNamed, CollectFind, CollectFollowup, TraceRaises, AllBack, Leave
<1>4. CASE CollectLookup
  BY <1>0, <1>4 DEF CollectLookup, AllBack, Launch, Leave, RoundInv
<1>5. CASE CollectFirst
  BY <1>0, <1>5 DEF CollectFirst, AllBack, Leave, RoundInv
<1>6. ASSUME NEW b \in Proposals, DecideCalls(b) \/ GateRetryCalls(b) \/ HintCalls(b)
      PROVE  LlmInv'
  BY <1>0, <1>6 DEF DecideCalls, GateRetryCalls, HintCalls, Launch, RoundInv
<1>7. CASE DecideFails \/ DecideTalks \/ GateRetryFails \/ HintFails
  BY <1>0, <1>7 DEF DecideFails, DecideTalks, GateRetryFails, HintFails, Launch, RoundInv
<1>8. CASE StreamEnds \/ StreamFails \/ SynthesisRetry \/ RepairReplies \/ RepairFails \/ ModelRaises
  BY <1>0, <1>8 DEF StreamEnds, StreamFails, SynthesisRetry, RepairReplies, RepairFails, ModelRaises
<1>9. CASE CheckPasses \/ CheckFails \/ GiveUp \/ Compose \/ Save \/ EmitFinal \/ StoreFails
  BY <1>0, <1>9 DEF CheckPasses, CheckFails, GiveUp, Compose, Save, EmitFinal, StoreFails
<1>10. CASE UNCHANGED vars
  BY <1>10 DEF vars
<1>. QED  BY <1>1, <1>2, <1>3, <1>4, <1>5, <1>6, <1>7, <1>8, <1>9, <1>10
          DEF Next, Tools, Collect, Model, Local

\* Every dispatched call is in the trace, dropped, or accounted as untraced.
LEMMA TraceStep ==
  ASSUME TypeOK, RoundInv, TraceInv, [Next]_vars
  PROVE  TraceInv'
<1>. USE DEF TraceInv, Untraced, request, dispatch, tally
<1>0. /\ started \in Nat /\ traced \in Nat /\ dropped \in Nat
      /\ Cardinality(Calls(calls)) \in Nat
  BY CallsCountable DEF TypeOK
<1>1. ASSUME NEW i \in Position, ToolReturns(i) \/ ToolRaises(i) PROVE TraceInv'
  BY <1>0, <1>1 DEF ToolReturns, ToolRaises
<1>2. CASE Begin
  <2>1. \A n \in 1 .. MaxBatch : Cardinality(Calls(Repeat("other", n))) \in Nat
    BY NamedCalls, CallsCountable
  <2>. QED  BY <1>0, <1>2, <2>1, SingleCall DEF Begin, Launch, CallKinds, RoundInv
<1>3. CASE CollectNamed \/ CollectFind \/ CollectFollowup \/ TraceRaises
  <2>1. CASE CollectNamed
    BY <1>0, <2>1 DEF CollectNamed, AllBack, Leave
  <2>2. CASE CollectFind
    <3>1. Cardinality(Calls(calls)) = 1
      BY <2>2, FS_Singleton DEF CollectFind, AllBack
    <3>. QED  BY <1>0, <2>2, <3>1 DEF CollectFind, AllBack, Leave
  <2>3. CASE CollectFollowup
    BY <1>0, <2>3 DEF CollectFollowup, AllBack, Leave
  <2>4. CASE TraceRaises
    BY <1>0, <2>4 DEF TraceRaises, AllBack
  <2>. QED  BY <1>3, <2>1, <2>2, <2>3, <2>4
<1>4. CASE CollectLookup
  <2>1. /\ Cardinality(Calls(calls)) = 1
        /\ pc = "dispatch" /\ round = "lookup" /\ hit = "poi_phrase"
        /\ traced' = traced /\ hit' = hit
    BY <1>4, FS_Singleton DEF CollectLookup, AllBack, RoundInv, Launch
  <2>2. CASE Launch(Repeat("find_poi", 1), "find") /\ dropped' = dropped
    BY <1>0, <2>1, <2>2, SingleCall DEF Launch, CallKinds
  <2>3. CASE Leave("decide") /\ dropped' = dropped + 1
    BY <1>0, <2>1, <2>3 DEF Leave
  <2>. QED  BY <1>4, <2>2, <2>3 DEF CollectLookup, Launch
<1>5. CASE CollectFirst
  BY <1>0, <1>5, SingleCall DEF CollectFirst, AllBack, Leave, CallKinds
<1>6. ASSUME NEW b \in Proposals, DecideCalls(b) \/ GateRetryCalls(b) \/ HintCalls(b)
      PROVE  TraceInv'
  <2>1. /\ Cardinality(Calls(b)) \in Nat
        /\ Cardinality(Calls(Rectify(b))) \in Nat
    BY RectifyBatch, CallsCountable DEF Proposals
  <2>. QED  BY <1>0, <1>6, <2>1 DEF DecideCalls, GateRetryCalls, HintCalls, Launch, RoundInv
<1>7. CASE DecideFails \/ DecideTalks \/ GateRetryFails \/ HintFails
  <2>1. CASE DecideFails \/ DecideTalks \/ HintFails
    BY <1>0, <2>1 DEF DecideFails, DecideTalks, HintFails
  <2>2. CASE GateRetryFails
    BY <1>0, <2>2 DEF GateRetryFails, Launch
  <2>. QED  BY <1>7, <2>1, <2>2
<1>8. CASE StreamEnds \/ StreamFails \/ SynthesisRetry \/ RepairReplies \/ RepairFails \/ ModelRaises
  BY <1>0, <1>8 DEF StreamEnds, StreamFails, SynthesisRetry, RepairReplies, RepairFails, ModelRaises
<1>9. CASE CheckPasses \/ CheckFails \/ GiveUp \/ Compose \/ Save \/ EmitFinal \/ StoreFails
  BY <1>0, <1>9 DEF CheckPasses, CheckFails, GiveUp, Compose, Save, EmitFinal, StoreFails
<1>10. CASE UNCHANGED vars
  BY <1>10 DEF vars
<1>. QED  BY <1>1, <1>2, <1>3, <1>4, <1>5, <1>6, <1>7, <1>8, <1>9, <1>10
          DEF Next, Tools, Collect, Model, Local

\* What came back with records is in what the invariants are given.
LEMMA EvidenceStep ==
  ASSUME TypeOK, RoundInv, EvidenceInv, [Next]_vars
  PROVE  EvidenceInv'
<1>. USE DEF EvidenceInv, request, dispatch, evidence
<1>0. returned \in BOOLEAN /\ records \in BOOLEAN /\ outcome \in [Position -> Outcomes]
  BY DEF TypeOK
<1>1. ASSUME NEW i \in Position, ToolReturns(i) PROVE EvidenceInv'
  <2>1. Found => Found'
    BY <1>0, <1>1 DEF ToolReturns, Found
  <2>2. returned' => returned \/ Found'
    BY <1>0, <1>1 DEF ToolReturns, Found
  <2>3. UNCHANGED <<pc, request, round, records>> /\ pc \in {"dispatch", "aborted"}
    BY <1>1 DEF ToolReturns
  <2>. QED  BY <2>1, <2>2, <2>3
<1>2. ASSUME NEW i \in Position, ToolRaises(i) PROVE EvidenceInv'
  BY <1>2 DEF ToolRaises
<1>3. CASE Begin
  <2>1. ~returned /\ ~returned'
    BY <1>3, Zenon DEF Begin
  <2>. QED  BY <2>1
<1>4. CASE CollectNamed \/ CollectFirst \/ CollectFollowup
  <2>1. returned' = returned /\ (returned => records')
    BY <1>0, <1>4 DEF CollectNamed, CollectFirst, CollectFollowup, AllBack
  <2>2. \/ pc' \in {"hint", "synthesis"}
        \/ pc' = "dispatch" /\ round' = "auto"
    BY <1>4 DEF CollectNamed, CollectFirst, CollectFollowup, Leave
  <2>. QED  BY <2>1, <2>2
<1>5. CASE CollectLookup
  <2>1. CASE Launch(Repeat("find_poi", 1), "find")
    BY <1>5, <2>1 DEF CollectLookup, AllBack, Launch, RoundInv
  <2>2. CASE Leave("decide") /\ returned' = FALSE
    BY <2>2 DEF Leave
  <2>. QED  BY <1>5, <2>1, <2>2 DEF CollectLookup
<1>6. CASE CollectFind
  BY <1>0, <1>6 DEF CollectFind, AllBack, Leave
<1>7. CASE TraceRaises
  BY <1>7 DEF TraceRaises, AllBack
<1>8. ASSUME NEW b \in Proposals, DecideCalls(b) \/ GateRetryCalls(b) \/ HintCalls(b)
      PROVE  EvidenceInv'
  BY <1>0, <1>8 DEF DecideCalls, GateRetryCalls, HintCalls, Launch
<1>9. CASE Model /\ \A b \in Proposals : ~(DecideCalls(b) \/ GateRetryCalls(b) \/ HintCalls(b))
  BY <1>0, <1>9 DEF Model, DecideFails, DecideTalks, GateRetryFails, HintFails, StreamEnds,
              StreamFails, SynthesisRetry, RepairReplies, RepairFails, ModelRaises, Launch
<1>10. CASE CheckPasses \/ CheckFails \/ GiveUp \/ Compose \/ Save \/ EmitFinal \/ StoreFails
  BY <1>0, <1>10 DEF CheckPasses, CheckFails, GiveUp, Compose, Save, EmitFinal, StoreFails
<1>11. CASE UNCHANGED vars
  BY <1>11 DEF vars, Found
<1>. QED  BY <1>1, <1>2, <1>3, <1>4, <1>5, <1>6, <1>7, <1>8, <1>9, <1>10, <1>11
          DEF Next, Tools, Collect, Model, Local

\* A reply leaves the repair loop only when it passes or repairs are over.
LEMMA ReplyStep ==
  ASSUME TypeOK, RoundInv, EvidenceInv, ReplyInv, [Next]_vars
  PROVE  ReplyInv'
<1>. USE DEF ReplyInv, request, dispatch, evidence, repairing, text, tally
<1>0. /\ returned \in BOOLEAN /\ records \in BOOLEAN /\ unfixed \in BOOLEAN
      /\ traced \in Nat /\ reply \in Text
  BY DEF TypeOK
<1>1. ASSUME NEW i \in Position, ToolReturns(i) \/ ToolRaises(i) PROVE ReplyInv'
  BY <1>0, <1>1 DEF ToolReturns, ToolRaises
<1>2. CASE Begin
  BY <1>0, <1>2 DEF Begin, Launch, InLang, RoundInv
<1>3. CASE CollectNamed \/ CollectFind \/ CollectFollowup \/ TraceRaises
  BY <1>0, <1>3 DEF CollectNamed, CollectFind, CollectFollowup, TraceRaises, AllBack, Leave
<1>4. CASE CollectLookup
  BY <1>0, <1>4 DEF CollectLookup, AllBack, Launch, Leave
<1>5. CASE CollectFirst
  BY <1>0, <1>5 DEF CollectFirst, AllBack, Leave
<1>6. ASSUME NEW b \in Proposals, DecideCalls(b) \/ GateRetryCalls(b) \/ HintCalls(b)
      PROVE  ReplyInv'
  BY <1>0, <1>6 DEF DecideCalls, GateRetryCalls, HintCalls, Launch
<1>7. CASE DecideFails \/ DecideTalks \/ GateRetryFails \/ HintFails
  BY <1>0, <1>7 DEF DecideFails, DecideTalks, GateRetryFails, HintFails, Launch, EvidenceInv
<1>8. CASE StreamEnds \/ StreamFails \/ SynthesisRetry \/ RepairReplies \/ ModelRaises
  BY <1>0, <1>8 DEF StreamEnds, StreamFails, SynthesisRetry, RepairReplies, ModelRaises
<1>9. CASE RepairFails
  <2>1. unfixed' /\ pc' = "compose"
    BY <1>9, Zenon DEF RepairFails
  <2>. QED  BY <2>1
<1>10. CASE CheckPasses
  BY <1>0, <1>10 DEF CheckPasses, Violation, ApplyInvariants, EvidenceInv
<1>11. CASE CheckFails
  BY <1>0, <1>11 DEF CheckFails
<1>12. CASE GiveUp
  BY <1>0, <1>12 DEF GiveUp, Violation, ApplyInvariants, English
<1>13. CASE Compose
  BY <1>0, <1>13 DEF Compose, Canned
<1>14. CASE Save \/ EmitFinal \/ StoreFails
  BY <1>0, <1>14 DEF Save, EmitFinal, StoreFails
<1>15. CASE UNCHANGED vars
  BY <1>15 DEF vars
<1>. QED  BY <1>1, <1>2, <1>3, <1>4, <1>5, <1>6, <1>7, <1>8, <1>9, <1>10, <1>11, <1>12,
             <1>13, <1>14, <1>15
          DEF Next, Tools, Collect, Model, Local

-----------------------------------------------------------------------------
\* A turn starts in the invariant.
LEMMA InitIInv ==
  ASSUME Init
  PROVE  IInv
<1>. USE DEF Init
<1>1. TypeOK
  <2>1. /\ returned \in BOOLEAN /\ records \in BOOLEAN
        /\ clarification \in BOOLEAN /\ unfixed \in BOOLEAN
    BY Zenon
  <2>2. calls \in Batch
    BY DEF NoBatch, Batch
  <2>. QED  BY <2>1, <2>2, CannedTexts DEF TypeOK, Waiting, Rounds, Outcomes, RepairLimit
<1>2. EndsInv /\ RoundInv /\ GateInv /\ LlmInv
  BY DEF EndsInv, RoundInv, GateInv, LlmInv, LlmLeft
<1>3. TraceInv
  BY DEF TraceInv, Untraced
<1>4. EvidenceInv
  <2>1. ~returned
    BY Zenon
  <2>. QED  BY <2>1 DEF EvidenceInv
<1>5. ReplyInv
  BY DEF ReplyInv
<1>. QED  BY <1>1, <1>2, <1>3, <1>4, <1>5 DEF IInv

\* Every step keeps the invariant.
LEMMA NextIInv ==
  ASSUME IInv, [Next]_vars
  PROVE  IInv'
BY TypeStep, EndsStep, RoundStep, GateStep, LlmStep, TraceStep, EvidenceStep, ReplyStep DEF IInv

\* The invariant holds in every state of a turn.
THEOREM Invariance == Spec => []IInv
<1>1. Init => IInv
  BY InitIInv
<1>2. IInv /\ [Next]_vars => IInv'
  BY NextIInv
<1>. QED  BY <1>1, <1>2, PTL DEF Spec

\* Type correctness, for every batch size.
THEOREM TypeCorrect == Spec => []TypeOK
<1>1. IInv => TypeOK
  BY DEF IInv
<1>. QED  BY <1>1, Invariance, PTL

\* However the model and the upstreams behave, a turn makes at most eight
\* requests to the model, five if the classifier named its tools.
THEOREM LlmBudgetHolds == Spec => []LlmBudget
<1>1. IInv => LlmBudget
  <2>. SUFFICES ASSUME IInv PROVE LlmBudget
    OBVIOUS
  <2>1. llm \in Nat /\ attempts \in 0 .. RepairLimit /\ LlmInv
    BY DEF IInv, TypeOK
  <2>2. LlmLeft \in Nat
    BY <2>1 DEF LlmLeft, RepairLimit
  <2>. QED  BY <2>1, <2>2 DEF LlmInv, LlmBudget
<1>. QED  BY <1>1, Invariance, PTL

\* A first batch that violates a gate is one of the three known leaks.
THEOREM GateLeaksHolds == Spec => []GateLeaks
<1>1. IInv => GateLeaks
  BY GateVerdicts DEF IInv, GateInv, TypeOK, GateLeaks, ApplyGates
<1>. QED  BY <1>1, Invariance, PTL

\* Every tool call of every round is in the trace, but for one dropped lookup.
THEOREM TraceCompleteHolds == Spec => []TraceComplete
<1>1. IInv => TraceComplete
  BY DEF IInv, TypeOK, TraceInv, Untraced, TraceComplete
<1>. QED  BY <1>1, Invariance, PTL

\* No denial of data that tools returned goes out while a repair was left.
THEOREM DenialHolds == Spec => []DenialOnlyUnrepaired
<1>1. IInv => DenialOnlyUnrepaired
  BY DEF IInv, ReplyInv, DenialOnlyUnrepaired
<1>. QED  BY <1>1, Invariance, PTL

\* No text in the wrong script goes out while a repair was left.
THEOREM WrongScriptHolds == Spec => []WrongScriptOnlyUnrepaired
<1>1. IInv => WrongScriptOnlyUnrepaired
  BY DEF IInv, ReplyInv, WrongScriptOnlyUnrepaired
<1>. QED  BY <1>1, Invariance, PTL

-----------------------------------------------------------------------------
\* Every step of a turn is a step of its contract, or changes nothing of it.
LEMMA ContractStep ==
  ASSUME EndsInv, [Next]_vars
  PROVE  [Contract!Next]_(Contract!vars)
<1>. USE DEF Contract!Next, Contract!vars, Contract!Accept, Contract!Store, Contract!Answer,
             Contract!Abort, Phase, ends
<1>1. ASSUME NEW i \in Position, ToolReturns(i) \/ ToolRaises(i)
      PROVE  Contract!Abort \/ UNCHANGED Contract!vars
  BY <1>1 DEF ToolReturns, ToolRaises
<1>2. ASSUME Begin PROVE Contract!Accept
  BY <1>2 DEF Begin, Launch
<1>3. ASSUME Collect PROVE Contract!Abort \/ UNCHANGED Contract!vars
  BY <1>3 DEF Collect, CollectNamed, CollectLookup, CollectFind, CollectFirst, CollectFollowup,
              TraceRaises, AllBack, Launch, Leave
<1>4. ASSUME NEW b \in Proposals, DecideCalls(b) \/ GateRetryCalls(b) \/ HintCalls(b)
      PROVE  UNCHANGED Contract!vars
  BY <1>4 DEF DecideCalls, GateRetryCalls, HintCalls, Launch
<1>5. ASSUME DecideFails \/ DecideTalks \/ GateRetryFails \/ HintFails \/ StreamEnds \/ StreamFails
               \/ SynthesisRetry \/ RepairReplies \/ RepairFails
      PROVE  UNCHANGED Contract!vars
  BY <1>5 DEF DecideFails, DecideTalks, GateRetryFails, HintFails, StreamEnds, StreamFails,
              SynthesisRetry, RepairReplies, RepairFails, Launch
<1>6. ASSUME CheckPasses \/ CheckFails \/ GiveUp \/ Compose PROVE UNCHANGED Contract!vars
  BY <1>6 DEF CheckPasses, CheckFails, GiveUp, Compose
<1>7. ASSUME Save PROVE Contract!Store
  BY <1>7 DEF Save
<1>8. ASSUME EmitFinal PROVE Contract!Answer
  BY <1>8 DEF EmitFinal
<1>9. ASSUME StoreFails PROVE Contract!Abort
  BY <1>9 DEF StoreFails
<1>10. ASSUME ModelRaises PROVE Contract!Abort
  BY <1>10 DEF ModelRaises
<1>11. ASSUME UNCHANGED vars PROVE UNCHANGED Contract!vars
  BY <1>11 DEF vars
<1>. QED  BY <1>1, <1>2, <1>3, <1>4, <1>5, <1>6, <1>7, <1>8, <1>9, <1>10, <1>11
          DEF Next, Tools, Model, Local

\* The safety half of the refinement: a turn saves its pair once and only then
\* answers, or dies having done neither.  (That it ends is left to TLC.)
THEOREM ContractSafety == Spec => Contract!Init /\ [][Contract!Next]_(Contract!vars)
<1>1. Init => Contract!Init
  BY DEF Init, Contract!Init, Phase
<1>2. IInv /\ [Next]_vars => [Contract!Next]_(Contract!vars)
  BY ContractStep DEF IInv
<1>. QED  BY <1>1, <1>2, Invariance, PTL DEF Spec
=============================================================================
