------------------------------ MODULE Question ------------------------------
(***************************************************************************)
(* The questions of one session, one after the other: the language each is *)
(* taken to be in and saved with the session, the fast path or the model,  *)
(* the tools called and the language they are called in, and for a trip    *)
(* the planner's search (orchestrator.py, _handle_turn_inner and           *)
(* _dispatch_one).  What the model says or streams is in Turn; here it may *)
(* pick any tool.                                                          *)
(***************************************************************************)
EXTENDS Router, Planner

CONSTANTS
  Messages,      \* what users write, as the fields of Router
  Overrides,     \* values of locale_override, "auto" among them
  Trips,         \* pairs of ends the model may plan a trip between
  ModelTools,    \* tools the model calls, other than the planners
  PoiFastPath,   \* the setting poi_fast_path_enabled
  NoMessage

ASSUME QuestionAssumption ==
  /\ "auto" \in Overrides
  /\ PoiFastPath \in BOOLEAN
  /\ NoMessage \notin Messages
  /\ \A t \in Messages : IsMessage(t)
  /\ Trips \subseteq [from : Ends, to : Ends]

VARIABLES
  locale,     \* the language saved in the session's row
  asked,      \* the message in hand, with what the classifier made of it
  pc,         \* "idle", "poi", "model" or "planning"
  task,       \* what the planner works for, and the modes to compare
  calls,      \* the tools called in this turn, and in which language
  options,    \* the options of a journey, by mode
  spoken,     \* (history) the language of the last message that had one
  wordless    \* (history) a message without letters has come since

vars == <<locale, asked, pc, task, calls, options, spoken, wordless, plannerVars>>

NoLocale == [lang |-> "auto", script |-> "Other", tts |-> "en-US"]
NotAsked == [text |-> NoMessage, hit |-> NoHit]
NoTask   == [tool |-> "none", from |-> NoSpot, to |-> NoSpot]

SimpleRoute == "transport.plan_simple_route"
Journey     == "transport.plan_journey"
Lookup      == "geo.address_lookup"
FindPoi     == "geo.find_poi"

Init ==
  /\ PlannerInit
  /\ locale = NoLocale
  /\ asked = NotAsked
  /\ pc = "idle"
  /\ task = NoTask
  /\ calls = {}
  /\ options = <<>>
  /\ spoken = NoLocale
  /\ wordless = FALSE

\* _dispatch_one asks in the language of the detection, which locale now is.
Call(tool, l) ==
  LET q == ChooseQueryLang(tool, l) IN
  [tool |-> tool, lang |-> q.lang, translated |-> q.translated]

\* Whether a message says what language it is in.
HasWords(t)  == ~t.blank /\ (DOMAIN t.letters # {} \/ t.word)
Known(code)  == FromOverride(code, NoLocale) # NoLocale

\* A message comes: its language is detected, and the classifier reads it.
Ask(t) ==
  LET hit   == Classify(t)
      taken == IF hit.intent = "poi" /\ ~PoiFastPath THEN NoHit ELSE hit
  IN
  /\ pc = "idle"
  /\ locale' \in Detect(t, Carried(locale))
  /\ asked' = [text |-> t, hit |-> taken]
  /\ calls' = {Call(tool, locale') : tool \in Range(taken.tools)}
  /\ pc' = CASE taken.intent = "none" -> "model"
             [] taken.intent = "poi"  -> "poi"
             [] OTHER                 -> "idle"
  /\ options' = <<>>
  /\ spoken' = IF HasWords(t) THEN locale' ELSE spoken
  /\ wordless' = (~HasWords(t) /\ (wordless \/ ~t.blank))
  /\ UNCHANGED <<task, plannerVars>>

\* A message comes with locale_override: whatever it says, its language is
\* forced and it is not classified.
AskForced(code) ==
  /\ pc = "idle"
  /\ code # "auto"
  /\ locale' = FromOverride(code, Carried(locale))
  /\ asked' = NotAsked
  /\ calls' = {}
  /\ pc' = "model"
  /\ options' = <<>>
  /\ spoken' = IF Known(code) THEN locale' ELSE spoken
  /\ wordless' = (wordless /\ ~Known(code))
  /\ UNCHANGED <<task, plannerVars>>

\* The fast path looks a named place up and searches around it, or around the
\* user.
Located == IF asked.hit.at = "phrase" THEN {Call(Lookup, locale)} ELSE {}

PoiAnswers ==
  /\ pc = "poi"
  /\ calls' = Located \cup {Call(FindPoi, locale)}
  /\ pc' = "idle"
  /\ UNCHANGED <<locale, asked, task, options, spoken, wordless, plannerVars>>

\* The place is not known to the address service, or the user's own is not
\* known: the model takes over.
PoiDefers ==
  /\ pc = "poi"
  /\ calls' = Located
  /\ pc' = "model"
  /\ asked' = [asked EXCEPT !.hit = NoHit]
  /\ UNCHANGED <<locale, task, options, spoken, wordless, plannerVars>>

\* The model calls a tool; the route planner too, which refuses a mode other
\* than the MTR.
ModelCalls(tool) ==
  /\ pc = "model"
  /\ calls' = calls \cup {Call(tool, locale)}
  /\ pc' = "idle"
  /\ asked' = NotAsked
  /\ UNCHANGED <<locale, task, options, spoken, wordless, plannerVars>>

\* It plans a route by MTR.
PlanSimpleRoute(trip) ==
  /\ pc = "model"
  /\ calls' = calls \cup {Call(SimpleRoute, locale)}
  /\ Begin(trip.from, trip.to)
  /\ task' = [NoTask EXCEPT !.tool = SimpleRoute]
  /\ pc' = "planning"
  /\ asked' = NotAsked
  /\ UNCHANGED <<locale, options, spoken, wordless>>

\* It compares walking and the MTR, or has one of them, between two points,
\* or names that stand for points; the planner is asked only where the points
\* are not close.
Compare(o, d, modes) ==
  LET plans == "mtr" \in modes /\ ~TooClose(o, d) IN
  /\ pc = "model"
  /\ calls' = calls \cup {Call(Journey, locale)}
  /\ asked' = NotAsked
  /\ options' = [walk |-> IF "walk" \in modes THEN WalkOption(o, d) ELSE NoOption,
                 mtr  |-> IF "mtr" \in modes /\ ~plans THEN CloseOption ELSE NoOption,
                 recommendation |-> Recommends(o, d)]
  /\ IF plans
     THEN /\ task' = [tool |-> Journey, from |-> o, to |-> d]
          /\ Begin([name |-> NoName, spot |-> o], [name |-> NoName, spot |-> d])
          /\ pc' = "planning"
     ELSE /\ pc' = "idle"
          /\ UNCHANGED <<task, plannerVars>>
  /\ UNCHANGED <<locale, spoken, wordless>>

\* An end did not resolve, or both are named and collide: the call fails.
RefuseJourney(o, d) ==
  /\ pc = "model"
  /\ {o, d} \subseteq Spots => Collide(o, d)
  /\ calls' = calls \cup {Call(Journey, locale)}
  /\ pc' = "idle"
  /\ asked' = NotAsked
  /\ UNCHANGED <<locale, task, options, spoken, wordless, plannerVars>>

Search ==
  /\ Searching
  /\ UNCHANGED <<locale, asked, pc, task, calls, options, spoken, wordless>>

\* _inline_mtr_leg makes an option of the plan.
Offer ==
  /\ pc = "planning"
  /\ search = "done"
  /\ task.tool = Journey
  /\ options.mtr = NoOption
  /\ options' = [options EXCEPT !.mtr = MtrOption(plan)]
  /\ UNCHANGED <<locale, asked, pc, task, calls, spoken, wordless, plannerVars>>

\* The handler returns.
Return ==
  /\ pc = "planning"
  /\ search = "done"
  /\ task.tool = Journey => options.mtr # NoOption
  /\ pc' = "idle"
  /\ task' = NoTask
  /\ Returned
  /\ UNCHANGED <<locale, asked, calls, options, spoken, wordless>>

Next ==
  \/ \E t \in Messages : Ask(t)
  \/ \E code \in Overrides : AskForced(code)
  \/ PoiAnswers
  \/ PoiDefers
  \/ \E tool \in ModelTools \cup {SimpleRoute} : ModelCalls(tool)
  \/ \E trip \in Trips : PlanSimpleRoute(trip)
  \/ \E o, d \in Spots, modes \in SUBSET {"walk", "mtr"} : Compare(o, d, modes)
  \/ \E o, d \in Spots \cup {NoSpot} : RefuseJourney(o, d)
  \/ Search
  \/ Offer
  \/ Return

Spec == Init /\ [][Next]_vars

=============================================================================
