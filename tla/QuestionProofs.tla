--------------------------- MODULE QuestionProofs ---------------------------
(***************************************************************************)
(* Proofs about the routing of questions, for every message, every tool    *)
(* and every override, and about the search for a route, for every         *)
(* network.                                                                *)
(***************************************************************************)
EXTENDS QuestionProperties, PlannerProofs, SetFacts, TLAPS

-----------------------------------------------------------------------------
(***************************************************************************)
(* The language of a message.                                              *)
(***************************************************************************)

\* There is a voice for every language.
LEMMA VoiceIs == \A lang, script : TtsLocaleFor(lang, script) \in Voices
BY DEF TtsLocaleFor, Voices

\* A language in a script is a locale, and says what it was made of.
LEMMA InIs ==
  \A lang \in Langs, script \in Writings :
    Spoke(In(lang, script)) /\ In(lang, script).script = script
BY VoiceIs DEF In, Spoken, Spoke

\* Every language and script of the code is one.
LEMMA Tongues ==
  /\ {"yue", "zho", "jpn", "kor", "eng"} \subseteq Langs
  /\ {"Hant", "Hans", "Hiragana", "Katakana", "Hangul", "Latin", "Other"} \subseteq Writings
  /\ \A s \in DOMAIN ScriptPrimary : /\ s \in Writings /\ ScriptPrimary[s] \in Langs
                                     /\ s # "Other"
BY DEF Langs, Writings, Scripts, ScriptPrimary

\* Written another way, a locale keeps its language and its voice.
LEMMA Rescripted ==
  ASSUME NEW l, Spoke(l), NEW script \in Writings
  PROVE  /\ Spoke([l EXCEPT !.script = script])
         /\ [l EXCEPT !.script = script].lang = l.lang
         /\ [l EXCEPT !.script = script].tts = l.tts
         /\ [l EXCEPT !.script = l.script] = l
BY DEF Spoke

\* A message that says what language it is in says its script too; any other
\* keeps the language and the voice of the session.
LEMMA DetectIs ==
  ASSUME NEW t, IsMessage(t), NEW carried, Spoke(carried), NEW l \in Detect(t, carried)
  PROVE  /\ Spoke(l)
         /\ HasWords(t) => l.script # "Other"
         /\ t.blank => l = carried
         /\ ~HasWords(t) => l.lang = carried.lang /\ l.tts = carried.tts
<1>1. PICK d \in DominantScripts(t) : l = DetectBy(t, carried, d)
  BY DEF Detect
<1>2. /\ d = "Other" \/ d \in DOMAIN t.letters
      /\ DOMAIN t.letters # {} => d \in DOMAIN t.letters
  BY DEF DominantScripts
<1>3. /\ DOMAIN t.letters \subseteq DOMAIN ScriptPrimary \cup
              {"Han", "Hiragana", "Katakana", "Hangul", "Latin"}
      /\ \A s \in DOMAIN t.letters : Count(t, s) \in Nat \ {0}
      /\ \A s : s \notin DOMAIN t.letters => Count(t, s) = 0
      /\ \A s : Count(t, s) \in Nat
  BY DEF IsMessage, Scripts, Count
<1>4. CASE t.blank
  BY <1>1, <1>4 DEF DetectBy, HasWords
<1>5. CASE ~t.blank /\ t.particle
  <2>1. l = In("yue", "Hant")
    BY <1>1, <1>5 DEF DetectBy
  <2>2. HasWords(t)
    BY <1>5 DEF HasWords, IsMessage
  <2>. QED  BY <1>5, <2>1, <2>2, InIs, Tongues
<1>6. CASE /\ ~t.blank /\ ~t.particle
           /\ Count(t, "Hiragana") + Count(t, "Katakana") > 0
  <2>1. l = In("jpn", "Hiragana") \/ l = In("jpn", "Katakana")
    BY <1>1, <1>6 DEF DetectBy
  <2>2. Count(t, "Hiragana") # 0 \/ Count(t, "Katakana") # 0
    BY <1>3, <1>6
  <2>3. HasWords(t)
    BY <1>3, <1>6, <2>2 DEF HasWords
  <2>. QED  BY <1>6, <2>1, <2>3, InIs, Tongues
<1>7. CASE /\ ~t.blank /\ ~t.particle
           /\ ~(Count(t, "Hiragana") + Count(t, "Katakana") > 0)
           /\ Count(t, "Han") > 0
  <2>1. l = In("zho", "Hans") \/ l = In("zho", "Hant")
    BY <1>1, <1>7 DEF DetectBy
  <2>2. HasWords(t)
    BY <1>3, <1>7 DEF HasWords
  <2>. QED  BY <1>7, <2>1, <2>2, InIs, Tongues
<1>8. CASE /\ ~t.blank /\ ~t.particle
           /\ ~(Count(t, "Hiragana") + Count(t, "Katakana") > 0)
           /\ ~(Count(t, "Han") > 0)
  <2>1. l = IF d = "Hangul" THEN In("kor", "Hangul")
            ELSE IF d \in DOMAIN ScriptPrimary THEN In(ScriptPrimary[d], d)
            ELSE IF Count(t, "Latin") > 0 \/ t.word THEN In("eng", "Latin")
            ELSE [carried EXCEPT !.script = "Other"]
    BY <1>1, <1>8 DEF DetectBy
  <2>2. \A s \in DOMAIN ScriptPrimary : /\ s \in Writings /\ ScriptPrimary[s] \in Langs
                                        /\ s # "Other"
    BY Tongues
  <2>3. CASE d = "Hangul" \/ d \in DOMAIN ScriptPrimary
    <3>1. d # "Other"
      BY <2>2, <2>3
    <3>2. HasWords(t)
      BY <1>2, <1>8, <3>1 DEF HasWords
    <3>3. Spoke(l) /\ l.script = d
      BY <2>1, <2>2, <2>3, InIs, Tongues
    <3>. QED  BY <1>8, <3>1, <3>2, <3>3
  <2>4. CASE ~(d = "Hangul" \/ d \in DOMAIN ScriptPrimary) /\ HasWords(t)
    <3>1. Count(t, "Hiragana") = 0 /\ Count(t, "Katakana") = 0 /\ Count(t, "Han") = 0
      BY <1>3, <1>8
    <3>2. DOMAIN t.letters # {} => d = "Latin"
      BY <1>2, <1>3, <2>4, <3>1
    <3>3. Count(t, "Latin") > 0 \/ t.word
      BY <1>2, <1>3, <2>4, <3>2 DEF HasWords
    <3>4. l = In("eng", "Latin")
      BY <2>1, <2>4, <3>3
    <3>. QED  BY <1>8, <2>4, <3>4, InIs, Tongues
  <2>5. CASE ~(d = "Hangul" \/ d \in DOMAIN ScriptPrimary) /\ ~HasWords(t)
    <3>1. DOMAIN t.letters = {} /\ ~t.word
      BY <1>8, <2>5 DEF HasWords
    <3>2. l = [carried EXCEPT !.script = "Other"]
      BY <1>3, <2>1, <2>5, <3>1
    <3>3. Spoke(l) /\ l.lang = carried.lang /\ l.tts = carried.tts
      BY <3>2, Tongues, Rescripted
    <3>. QED  BY <1>8, <2>5, <3>3
  <2>. QED  BY <2>3, <2>4, <2>5
<1>9. {t.blank, t.particle} \subseteq BOOLEAN
  BY DEF IsMessage
<1>. QED  BY <1>4, <1>5, <1>6, <1>7, <1>8, <1>9

\* What a turn carries over is a locale, of the same language and voice; the
\* script too, unless it had none.
LEMMA CarriedIs ==
  ASSUME NEW l, Spoke(l)
  PROVE  /\ Spoke(Carried(l))
         /\ Carried(l).lang = l.lang /\ Carried(l).tts = l.tts
         /\ l.script # "Other" => Carried(l) = l
<1>1. Carried(l) = [l EXCEPT !.script = IF l.script = "Other" THEN "Hant" ELSE l.script]
  BY DEF Carried
<1>3. CASE l.script = "Other"
  <2>1. Carried(l) = [l EXCEPT !.script = "Hant"]
    BY <1>1, <1>3
  <2>. QED  BY <1>3, <2>1, Tongues, Rescripted
<1>4. CASE l.script # "Other"
  <2>1. Carried(l) = [l EXCEPT !.script = l.script] /\ l.script \in Writings
    BY <1>1, <1>4 DEF Spoke
  <2>. QED  BY <2>1, Rescripted
<1>. QED  BY <1>3, <1>4

\* An override the table knows forces its own language, in its script; any
\* other keeps what the session has.
LEMMA OverrideIs ==
  ASSUME NEW code, NEW carried, Spoke(carried)
  PROVE  /\ Spoke(FromOverride(code, carried))
         /\ Known(code) => FromOverride(code, carried).script # "Other"
         /\ ~Known(code) => FromOverride(code, carried) = carried
<1>. DEFINE Table == {"yue", "zh-Hant", "zh-Hans", "en", "ja", "ko", "th", "fr", "de",
                      "es", "tl", "id", "vi"}
            Inner == {In("yue", "Hant"), In("zho", "Hant"), In("zho", "Hans"),
                      In("eng", "Latin"), In("jpn", "Hiragana"), In("kor", "Hangul"),
                      In("tha", "Thai"), Spoken("fra", "Latin", "fr-FR"),
                      Spoken("deu", "Latin", "de-DE"), Spoken("spa", "Latin", "es-ES"),
                      Spoken("tgl", "Latin", "tl-PH"), Spoken("ind", "Latin", "id-ID"),
                      Spoken("vie", "Latin", "vi-VN")}
<1>1. ASSUME NEW c PROVE code \in Table => FromOverride(code, c) \in Inner
  BY Zenon DEF FromOverride
<1>2. ASSUME NEW c PROVE code \notin Table => FromOverride(code, c) = c
  BY Zenon DEF FromOverride
<1>3. \A l \in Inner : Spoke(l) /\ l.script # "Other"
  <2>1. \A lang \in Langs, script \in Writings, tts \in Voices :
          Spoke(Spoken(lang, script, tts)) /\ Spoken(lang, script, tts).script = script
    BY DEF Spoke, Spoken
  <2>2. /\ {"yue", "zho", "eng", "jpn", "kor", "tha", "fra", "deu", "spa", "tgl", "ind", "vie"}
              \subseteq Langs
        /\ {"Hant", "Hans", "Latin", "Hiragana", "Hangul", "Thai"} \subseteq Writings \ {"Other"}
        /\ {"fr-FR", "de-DE", "es-ES", "tl-PH", "id-ID", "vi-VN"} \subseteq Voices
    BY DEF Langs, Writings, Scripts, ScriptPrimary, Voices
  <2>3. \A lang \in Langs, script \in Writings \ {"Other"} :
          Spoke(In(lang, script)) /\ In(lang, script).script # "Other"
    BY InIs
  <2>4. \A lang \in Langs, script \in Writings \ {"Other"}, tts \in Voices :
          Spoke(Spoken(lang, script, tts)) /\ Spoken(lang, script, tts).script # "Other"
    BY <2>1
  <2>. DEFINE Fine(l) == Spoke(l) /\ l.script # "Other"
  <2>5. /\ Fine(In("yue", "Hant")) /\ Fine(In("zho", "Hant")) /\ Fine(In("zho", "Hans"))
        /\ Fine(In("eng", "Latin")) /\ Fine(In("jpn", "Hiragana"))
        /\ Fine(In("kor", "Hangul")) /\ Fine(In("tha", "Thai"))
    BY <2>2, <2>3
  <2>6. /\ Fine(Spoken("fra", "Latin", "fr-FR")) /\ Fine(Spoken("deu", "Latin", "de-DE"))
        /\ Fine(Spoken("spa", "Latin", "es-ES")) /\ Fine(Spoken("tgl", "Latin", "tl-PH"))
        /\ Fine(Spoken("ind", "Latin", "id-ID")) /\ Fine(Spoken("vie", "Latin", "vi-VN"))
    BY <2>2, <2>4
  <2>7. \A l \in Inner : Fine(l)
    <3>. HIDE DEF Fine
    <3>. QED  BY <2>5, <2>6
  <2>. QED  BY <2>7
<1>4. NoLocale.script = "Other"
  BY DEF NoLocale
<1>. HIDE DEF Table, Inner
<1>5. Known(code) <=> code \in Table
  BY <1>1, <1>2, <1>3, <1>4 DEF Known
<1>. QED  BY <1>1, <1>2, <1>3, <1>5

\* A call is made in a language its data set serves, and is said to be
\* translated unless that is the user's.
LEMMA CallIs ==
  ASSUME NEW tool, NEW l
  PROVE  /\ Call(tool, l).tool = tool
         /\ Call(tool, l).lang \in DatasetCoverage(tool)
         /\ Call(tool, l).translated \in BOOLEAN
         /\ ~Call(tool, l).translated => Call(tool, l).lang = NativeTag(l)
<1>1. PICK q : q = ChooseQueryLang(tool, l)
  OBVIOUS
<1>2. PICK tag : tag = IF l.lang = "yue" THEN "zh-Hant" ELSE Native(l)
  OBVIOUS
<1>3. /\ q.lang = IF tag \in DatasetCoverage(tool) THEN tag ELSE "en"
      /\ q.translated = (tag \notin DatasetCoverage(tool) \/ l.lang = "yue")
  BY <1>1, <1>2, Zenon DEF ChooseQueryLang
<1>4. "en" \in DatasetCoverage(tool)
  BY DEF DatasetCoverage
<1>5. Native(l) = NativeTag(l)
  BY DEF Native, NativeTag
<1>6. Call(tool, l) = [tool |-> tool, lang |-> q.lang, translated |-> q.translated]
  BY <1>1 DEF Call
<1>7. q.lang \in DatasetCoverage(tool) /\ q.translated \in BOOLEAN
  BY <1>3, <1>4
<1>8. ~q.translated => q.lang = NativeTag(l)
  BY <1>2, <1>3, <1>5
<1>9. /\ Call(tool, l).tool = tool /\ Call(tool, l).lang = q.lang
      /\ Call(tool, l).translated = q.translated
  <2>1. PICK a, b : a = q.lang /\ b = q.translated
    OBVIOUS
  <2>2. Call(tool, l) = [tool |-> tool, lang |-> a, translated |-> b]
    BY <1>6, <2>1
  <2>3. Call(tool, l).tool = tool /\ Call(tool, l).lang = a
    BY <2>2
  <2>4. b \in BOOLEAN
    BY <1>7, <2>1
  <2>5. Call(tool, l).translated = b
    BY <2>2, <2>4
  <2>. QED  BY <2>1, <2>3, <2>5
<1>. QED  BY <1>7, <1>8, <1>9, Zenon

-----------------------------------------------------------------------------
(***************************************************************************)
(* The inductive invariant of the languages: a script is known once a      *)
(* language is, and an untranslated call is in the language of the         *)
(* session, as it has been since the call.                                 *)
(***************************************************************************)

Answerable(c, l) ==
  /\ c.lang \in DatasetCoverage(c.tool) /\ c.translated \in BOOLEAN
  /\ ~c.translated => c.lang = NativeTag(l)

\* Every call is answerable when it is made.
LEMMA CalledIs == \A tool, l : Answerable(Call(tool, l), l)
<1>1. TAKE tool, l
<1>. QED  BY CallIs DEF Answerable

(***************************************************************************)
(* The inductive invariant of the language: the session's is the one last  *)
(* spoken, which has a script, and every call is one it can make.          *)
(***************************************************************************)
Tongue ==
  /\ Spoke(locale) /\ Spoke(spoken) /\ wordless \in BOOLEAN
  /\ locale.lang = spoken.lang /\ locale.tts = spoken.tts
  /\ spoken # NoLocale => spoken.script # "Other"
  /\ ~wordless /\ spoken # NoLocale => locale = spoken
  /\ \A c \in calls : Answerable(c, locale)

\* Actions other than a message add calls in the language of the session.
Proceeds == \/ PoiAnswers \/ PoiDefers
            \/ \E tool \in ModelTools \cup {SimpleRoute} : ModelCalls(tool)
            \/ \E trip \in Trips : PlanSimpleRoute(trip)
            \/ \E o, d \in Spots, modes \in SUBSET {"walk", "mtr"} : Compare(o, d, modes)
            \/ \E o, d \in Spots \cup {NoSpot} : RefuseJourney(o, d)
            \/ Search \/ Offer \/ Return

\* They leave the language alone.
LEMMA ProceedsIn ==
  ASSUME Proceeds
  PROVE  /\ UNCHANGED <<locale, spoken, wordless>>
         /\ \A c \in calls' : c \in calls \/ \E tool : c = Call(tool, locale)
<1>1. CASE PoiAnswers
  BY <1>1 DEF PoiAnswers, Located
<1>2. CASE PoiDefers
  BY <1>2 DEF PoiDefers, Located
<1>3. ASSUME NEW tool, ModelCalls(tool)
      PROVE  /\ UNCHANGED <<locale, spoken, wordless>>
             /\ \A c \in calls' : c \in calls \/ \E x : c = Call(x, locale)
  BY <1>3 DEF ModelCalls
<1>4. ASSUME NEW trip, PlanSimpleRoute(trip)
      PROVE  /\ UNCHANGED <<locale, spoken, wordless>>
             /\ \A c \in calls' : c \in calls \/ \E x : c = Call(x, locale)
  BY <1>4 DEF PlanSimpleRoute
<1>5. ASSUME NEW o, NEW d, NEW modes, Compare(o, d, modes)
      PROVE  /\ UNCHANGED <<locale, spoken, wordless>>
             /\ \A c \in calls' : c \in calls \/ \E x : c = Call(x, locale)
  BY <1>5 DEF Compare
<1>6. ASSUME NEW o, NEW d, RefuseJourney(o, d)
      PROVE  /\ UNCHANGED <<locale, spoken, wordless>>
             /\ \A c \in calls' : c \in calls \/ \E x : c = Call(x, locale)
  BY <1>6 DEF RefuseJourney
<1>7. CASE Search \/ Offer \/ Return
  BY <1>7 DEF Search, Offer, Return
<1>. QED  BY <1>1, <1>2, <1>3, <1>4, <1>5, <1>6, <1>7 DEF Proceeds

\* A message keeps it: its own language, if it says one, is the session's from
\* then on, and its calls are made in that.
LEMMA AskTongue ==
  ASSUME Tongue, NEW t \in Messages, Ask(t)
  PROVE  Tongue'
<1>1. IsMessage(t)
  BY QuestionAssumption
<1>2. PICK c : c = Carried(locale)
  OBVIOUS
<1>3. /\ Spoke(c) /\ c.lang = locale.lang /\ c.tts = locale.tts
      /\ locale.script # "Other" => c = locale
  BY <1>2, CarriedIs DEF Tongue
<1>4. PICK l \in Detect(t, c) : l = locale'
  BY <1>2 DEF Ask
<1>5. /\ Spoke(locale')
      /\ HasWords(t) => locale'.script # "Other"
      /\ t.blank => locale' = c
      /\ ~HasWords(t) => locale'.lang = c.lang /\ locale'.tts = c.tts
  BY <1>1, <1>3, <1>4, DetectIs
<1>6. /\ spoken' = IF HasWords(t) THEN locale' ELSE spoken
      /\ wordless' = (~HasWords(t) /\ (wordless \/ ~t.blank))
      /\ \A x \in calls' : \E tool : x = Call(tool, locale')
  BY Zenon DEF Ask
<1>7. \A x \in calls' : Answerable(x, locale')
  <2>1. TAKE x \in calls'
  <2>2. PICK tool : x = Call(tool, locale')
    BY <1>6
  <2>. QED  BY <2>2, CalledIs, Zenon
<1>8. CASE HasWords(t)
  <2>1. spoken' = locale' /\ wordless' = FALSE
    BY <1>6, <1>8
  <2>. QED  BY <1>5, <1>7, <1>8, <2>1 DEF Tongue
<1>9. CASE ~HasWords(t) /\ t.blank
  <2>1. spoken' = spoken /\ wordless' = wordless /\ locale' = c
    BY <1>5, <1>6, <1>9 DEF Tongue
  <2>2. ~wordless /\ spoken # NoLocale => locale' = spoken
    BY <1>3, <2>1 DEF Tongue
  <2>. QED  BY <1>3, <1>7, <2>1, <2>2 DEF Tongue
<1>10. CASE ~HasWords(t) /\ ~t.blank
  <2>1. spoken' = spoken /\ wordless' = TRUE
    BY <1>6, <1>10
  <2>2. locale'.lang = spoken'.lang /\ locale'.tts = spoken'.tts
    BY <1>3, <1>5, <1>10, <2>1 DEF Tongue
  <2>. QED  BY <1>5, <1>7, <2>1, <2>2 DEF Tongue
<1>11. t.blank \in BOOLEAN
  BY <1>1 DEF IsMessage
<1>. QED  BY <1>8, <1>9, <1>10, <1>11

\* An override keeps it, known or not.
LEMMA ForcedTongue ==
  ASSUME Tongue, NEW code \in Overrides, AskForced(code)
  PROVE  Tongue'
<1>1. PICK c : c = Carried(locale)
  OBVIOUS
<1>2. /\ Spoke(c) /\ c.lang = locale.lang /\ c.tts = locale.tts
      /\ locale.script # "Other" => c = locale
  BY <1>1, CarriedIs DEF Tongue
<1>3. locale' = FromOverride(code, c) /\ calls' = {}
  BY <1>1 DEF AskForced
<1>4. /\ Spoke(locale')
      /\ Known(code) => locale'.script # "Other"
      /\ ~Known(code) => locale' = c
  BY <1>2, <1>3, OverrideIs
<1>5. /\ spoken' = IF Known(code) THEN locale' ELSE spoken
      /\ wordless' = (wordless /\ ~Known(code))
  BY DEF AskForced
<1>6. CASE Known(code)
  <2>1. spoken' = locale' /\ wordless' = FALSE
    BY <1>5, <1>6
  <2>. QED  BY <1>3, <1>4, <1>6, <2>1 DEF Tongue
<1>7. CASE ~Known(code)
  <2>1. spoken' = spoken /\ wordless' = wordless /\ locale' = c
    BY <1>4, <1>5, <1>7 DEF Tongue
  <2>2. ~wordless /\ spoken # NoLocale => locale' = spoken
    BY <1>2, <2>1 DEF Tongue
  <2>. QED  BY <1>2, <1>3, <2>1, <2>2 DEF Tongue
<1>. QED  BY <1>6, <1>7

\* No message yet, it holds.
LEMMA InitTongue == Init => Tongue
<1>1. Spoke(NoLocale)
  BY DEF Spoke, NoLocale, Langs, Writings, Voices
<1>. QED  BY <1>1 DEF Init, Tongue

\* Every step keeps it.
LEMMA TongueStep ==
  ASSUME Tongue, [Next]_vars
  PROVE  Tongue'
<1>1. CASE \E t \in Messages : Ask(t)
  BY <1>1, AskTongue
<1>2. CASE \E code \in Overrides : AskForced(code)
  BY <1>2, ForcedTongue
<1>3. CASE Proceeds
  <2>1. /\ locale' = locale /\ spoken' = spoken /\ wordless' = wordless
        /\ \A c \in calls' : c \in calls \/ \E tool : c = Call(tool, locale)
    BY <1>3, ProceedsIn
  <2>2. \A c \in calls' : Answerable(c, locale)
    <3>1. TAKE c \in calls'
    <3>2. CASE c \in calls
      BY <3>2 DEF Tongue
    <3>3. ASSUME NEW tool, c = Call(tool, locale)
          PROVE  Answerable(c, locale)
      BY <3>3, CalledIs, Zenon
    <3>. QED  BY <2>1, <3>2, <3>3
  <2>. QED  BY <2>1, <2>2 DEF Tongue
<1>4. CASE UNCHANGED vars
  BY <1>4 DEF vars, Tongue
<1>. QED  BY <1>1, <1>2, <1>3, <1>4, Zenon DEF Next, Proceeds

\* What is not translated is in the user's own language, and in the user's own
\* script, if no message without letters has come between.
LEMMA TongueSpeaks == Tongue => SpeaksTheUsersLanguage
<1>. SUFFICES ASSUME Tongue PROVE SpeaksTheUsersLanguage
  OBVIOUS
<1>1. ASSUME NEW c \in calls, ~c.translated
      PROVE  \/ c.lang = NativeTag(spoken)
             \/ wordless /\ c.lang = NativeTag(locale) /\ spoken.lang = "zho"
  <2>1. c.lang = NativeTag(locale) /\ c.lang \in DatasetCoverage(c.tool)
    BY <1>1 DEF Tongue, Answerable
  <2>2. c.lang # "none"
    BY <2>1 DEF DatasetCoverage
  <2>3. locale.lang = spoken.lang
    BY DEF Tongue
  <2>4. CASE spoken.lang = "eng"
    <3>1. NativeTag(locale) = "en" /\ NativeTag(spoken) = "en"
      BY <2>3, <2>4, Zenon DEF NativeTag
    <3>. QED  BY <2>1, <3>1
  <2>5. CASE spoken.lang = "zho"
    <3>1. spoken # NoLocale
      BY <2>5 DEF NoLocale
    <3>2. ~wordless => locale = spoken
      BY <3>1 DEF Tongue
    <3>. QED  BY <2>1, <2>5, <3>2 DEF Tongue
  <2>6. CASE spoken.lang \notin {"eng", "zho"}
    <3>1. NativeTag(locale) = "none"
      BY <2>3, <2>6, Zenon DEF NativeTag
    <3>. QED  BY <2>1, <2>2, <3>1
  <2>. QED  BY <2>4, <2>5, <2>6
<1>. QED  BY <1>1 DEF SpeaksTheUsersLanguage, Tongue

\* The languages agree at every moment.
LEMMA AlwaysTongue == Spec => []Tongue
BY InitTongue, TongueStep, PTL DEF Spec

\* The session keeps the language of the last message that had one, and what
\* is asked natively is asked in it (detect's carried, Locale.from_detection,
\* choose_query_lang).
THEOREM SpeaksTheUsersLanguageHolds == Spec => []SpeaksTheUsersLanguage
BY AlwaysTongue, TongueSpeaks, PTL

-----------------------------------------------------------------------------
(***************************************************************************)
(* The fast path.                                                          *)
(***************************************************************************)

\* What stands before a Chinese marker is a place of a name, or here.
LEMMA CjkIs ==
  \A c \in Marker : /\ ClassifyCjkPhrase(c) = "phrase" <=> c = "place"
                    /\ ClassifyCjkPhrase(c) = "self" <=> c \in {"empty", "self"}
<1>1. ClassifyCjkPhrase("place") = "phrase" /\ ClassifyCjkPhrase("empty") = "self"
  BY Zenon DEF ClassifyCjkPhrase
<1>2. ClassifyCjkPhrase("self") = "self" /\ ClassifyCjkPhrase("hk") = "hk"
  BY Zenon DEF ClassifyCjkPhrase
<1>3. ClassifyCjkPhrase("absent") = "absent"
  BY Zenon DEF ClassifyCjkPhrase
<1>. QED  BY <1>1, <1>2, <1>3 DEF Marker

\* What stands after an English one is a place of a name, or none.
LEMMA PhraseIs ==
  \A c \in Marker : /\ ClassifyPhrase(c) = "phrase" <=> c = "place"
                    /\ ClassifyPhrase(c) # "self"
<1>1. ClassifyPhrase("place") = "phrase" /\ ClassifyPhrase("empty") = "none"
  BY Zenon DEF ClassifyPhrase
<1>2. ClassifyPhrase("self") = "none" /\ ClassifyPhrase("hk") = "hk"
  BY Zenon DEF ClassifyPhrase
<1>3. ClassifyPhrase("absent") = "none"
  BY Zenon DEF ClassifyPhrase
<1>. QED  BY <1>1, <1>2, <1>3 DEF Marker

\* The place taken from a message is one it names, the user's own where it
\* speaks of here, and one it names is missed only where it speaks of here or of
\* the whole of Hong Kong.
LEMMA LocationIs ==
  ASSUME NEW t, IsMessage(t)
  PROVE  /\ ExtractLocation(t) = "phrase" => Names(t)
         /\ ExtractLocation(t) = "self" => Here(t)
         /\ /\ Names(t) /\ t.prefix # "place" /\ ExtractLocation(t) # "phrase"
            => Here(t) \/ Abroad(t)
<1>1. /\ {t.near, t.exist, t.at, t.phrase, t.prefix} \subseteq Marker
      /\ {t.here, t.by_me} \subseteq BOOLEAN
  BY DEF IsMessage
<1>2. CASE t.near # "absent"
  <2>1. ExtractLocation(t) = ClassifyCjkPhrase(t.near)
    BY <1>2 DEF ExtractLocation
  <2>. QED  BY <1>1, <1>2, <2>1, CjkIs DEF Names, Here, Abroad, Marker
<1>3. CASE t.near = "absent" /\ t.here
  <2>1. ExtractLocation(t) = "self"
    BY <1>3 DEF ExtractLocation
  <2>. QED  BY <1>3, <2>1 DEF Here
<1>4. CASE t.near = "absent" /\ ~t.here /\ t.exist # "absent"
  <2>1. ExtractLocation(t) = ClassifyCjkPhrase(t.exist)
    BY <1>4 DEF ExtractLocation
  <2>. QED  BY <1>1, <1>4, <2>1, CjkIs DEF Names, Here, Abroad, Marker
<1>5. CASE t.near = "absent" /\ ~t.here /\ t.exist = "absent" /\ t.at # "absent"
  <2>1. ExtractLocation(t) = ClassifyCjkPhrase(t.at)
    BY <1>5 DEF ExtractLocation
  <2>. QED  BY <1>1, <1>5, <2>1, CjkIs DEF Names, Here, Abroad, Marker
<1>6. CASE /\ t.near = "absent" /\ ~t.here /\ t.exist = "absent" /\ t.at = "absent"
           /\ t.by_me
  <2>1. ExtractLocation(t) = "self"
    BY <1>6 DEF ExtractLocation
  <2>. QED  BY <1>6, <2>1 DEF Here
<1>7. CASE /\ t.near = "absent" /\ ~t.here /\ t.exist = "absent" /\ t.at = "absent"
           /\ ~t.by_me
  <2>1. ExtractLocation(t) = ClassifyPhrase(t.phrase)
    BY <1>7 DEF ExtractLocation
  <2>. QED  BY <1>1, <1>7, <2>1, PhraseIs DEF Names, Here, Abroad, Marker
<1>. QED  BY <1>2, <1>3, <1>4, <1>5, <1>6, <1>7

Plain(t, hit) ==
  /\ hit.intent = "poi" =>
       /\ Cardinality(t.category) = 1 /\ t.words \cap {"routing", "future"} = {}
       /\ IF hit.at = "phrase" THEN Names(t) ELSE Here(t)
       /\ Names(t) /\ hit.at = "self" => Here(t)
  /\ hit.intent \in {"weather", "aqi", "warnings", "weather_and_air"} =>
       /\ t.prefix # "place"
       /\ Names(t) => Here(t) \/ Abroad(t)
  /\ hit.intent = "weather" => "future" \notin t.words

\* A shortcut has the intent it says.
LEMMA HitIs ==
  /\ NoHit.intent = "none"
  /\ \A i \in Intents : \A tools : Hit(i, tools).intent = i
BY DEF NoHit, Hit, Intents

\* A search for places is plain.
LEMMA PoiIsPlain ==
  ASSUME NEW t, IsMessage(t), IsPoi(t)
  PROVE  Plain(t, ClassifyPoi(t)) /\ ClassifyPoi(t).intent \in Intents
<1>1. PICK kind : kind = ExtractLocation(t)
  OBVIOUS
<1>2. CASE \/ t.words \cap (Context \cup {"routing", "future"}) # {}
           \/ \E a, b \in t.category : a # b
           \/ kind \notin {"phrase", "self"}
  <2>1. ClassifyPoi(t) = NoHit
    BY <1>1, <1>2, Zenon DEF ClassifyPoi
  <2>. QED  BY <2>1, HitIs DEF Plain, Intents
<1>3. CASE /\ t.words \cap (Context \cup {"routing", "future"}) = {}
           /\ \A a, b \in t.category : a = b
           /\ kind \in {"phrase", "self"}
  <2>1. ClassifyPoi(t) = [intent |-> "poi", tools |-> <<>>, category |-> t.category,
                          at |-> kind]
    BY <1>1, <1>3, Zenon DEF ClassifyPoi
  <2>2. ClassifyPoi(t).intent = "poi" /\ ClassifyPoi(t).at = kind
    BY <2>1
  <2>3. PICK a : a \in t.category
    BY DEF IsPoi
  <2>4. t.category = {a}
    BY <1>3, <2>3
  <2>5. Cardinality(t.category) = 1
    BY <2>4, FS_Singleton
  <2>6. t.words \cap {"routing", "future"} = {}
    BY <1>3
  <2>7. IF kind = "phrase" THEN Names(t) ELSE Here(t)
    BY <1>1, <1>3, LocationIs
  <2>. QED  BY <1>3, <2>2, <2>5, <2>6, <2>7 DEF Plain, Intents
<1>. QED  BY <1>2, <1>3

\* A question about the weather is plain.
LEMMA ContextIsPlain ==
  ASSUME NEW t, IsMessage(t)
  PROVE  Plain(t, ClassifyContext(t)) /\ ClassifyContext(t).intent \in Intents
<1>1. CASE t.words \cap Context = {} \/ NamedLocationPresent(t)
  <2>1. ClassifyContext(t) = NoHit
    BY <1>1, Zenon DEF ClassifyContext
  <2>. QED  BY <2>1, HitIs DEF Plain, Intents
<1>2. CASE ~(t.words \cap Context = {} \/ NamedLocationPresent(t))
  <2>1. ExtractLocation(t) # "phrase" /\ t.prefix # "place"
    BY <1>2 DEF NamedLocationPresent
  <2>2. Names(t) => Here(t) \/ Abroad(t)
    BY <2>1, LocationIs
  <2>3. PICK h : h = ClassifyContext(t)
    OBVIOUS
  <2>4. CASE "outdoor" \in t.words \/ Len(Merged(t)) > 1
    <3>1. \E tools : h = Hit("weather_and_air", tools)
      BY <1>2, <2>3, <2>4, Zenon DEF ClassifyContext
    <3>2. h.intent = "weather_and_air"
      BY <3>1, HitIs DEF Intents
    <3>. QED  BY <2>1, <2>2, <2>3, <3>2 DEF Plain, Intents
  <2>5. CASE ~("outdoor" \in t.words \/ Len(Merged(t)) > 1) /\ "weather" \in t.words
    <3>1. h = IF "future" \in t.words THEN NoHit ELSE Hit("weather", Merged(t))
      BY <1>2, <2>3, <2>5, Zenon DEF ClassifyContext
    <3>2. NoHit.intent = "none" /\ Hit("weather", Merged(t)).intent = "weather"
      BY HitIs DEF Intents
    <3>3. \/ h.intent = "none"
          \/ h.intent = "weather" /\ "future" \notin t.words
      BY <3>1, <3>2
    <3>. QED  BY <2>1, <2>2, <2>3, <3>3 DEF Plain, Intents
  <2>6. CASE ~("outdoor" \in t.words \/ Len(Merged(t)) > 1) /\ "weather" \notin t.words
    <3>1. h = Hit(CHOOSE w \in {"aqi", "warnings"} : w \in t.words, Merged(t))
      BY <1>2, <2>3, <2>6, Zenon DEF ClassifyContext
    <3>2. \E w \in {"aqi", "warnings"} : w \in t.words
      BY <1>2, <2>6 DEF Context
    <3>3. (CHOOSE w \in {"aqi", "warnings"} : w \in t.words) \in {"aqi", "warnings"}
      BY <3>2
    <3>4. PICK w : w \in {"aqi", "warnings"} /\ h = Hit(w, Merged(t))
      BY <3>1, <3>3
    <3>5. h.intent \in {"aqi", "warnings"}
      <4>1. w \in Intents
        BY <3>4 DEF Intents
      <4>. QED  BY <3>4, <4>1, HitIs
    <3>. QED  BY <2>1, <2>2, <2>3, <3>5 DEF Plain, Intents
  <2>. QED  BY <2>4, <2>5, <2>6
<1>. QED  BY <1>1, <1>2

\* Whatever the classifier takes, it is plain.
LEMMA ClassifiedIsPlain ==
  ASSUME NEW t, IsMessage(t)
  PROVE  Plain(t, Classify(t)) /\ Classify(t).intent \in Intents
<1>1. CASE t.blank
  <2>1. Classify(t) = NoHit
    BY <1>1, Zenon DEF Classify
  <2>. QED  BY <2>1, HitIs DEF Plain, Intents
<1>2. CASE ~t.blank /\ t.chitchat /\ t.length <= 40
  <2>1. Classify(t) = Hit("chitchat", <<>>)
    BY <1>2, Zenon DEF Classify
  <2>. QED  BY <2>1, HitIs DEF Plain, Intents
<1>3. CASE ~t.blank /\ ~(t.chitchat /\ t.length <= 40) /\ IsPoi(t)
  <2>1. Classify(t) = ClassifyPoi(t)
    BY <1>3, Zenon DEF Classify
  <2>. QED  BY <1>3, <2>1, PoiIsPlain
<1>4. CASE ~t.blank /\ ~(t.chitchat /\ t.length <= 40) /\ ~IsPoi(t)
  <2>1. Classify(t) = ClassifyContext(t)
    BY <1>4, Zenon DEF Classify
  <2>. QED  BY <2>1, ContextIsPlain
<1>. QED  BY <1>1, <1>2, <1>3, <1>4

(***************************************************************************)
(* The inductive invariant of the fast path: a shortcut is in hand only as *)
(* what the classifier made of the message in hand.                        *)
(***************************************************************************)

Heard ==
  /\ asked = [text |-> asked.text, hit |-> asked.hit]
  /\ asked.text \in Messages \cup {NoMessage}
  /\ asked.hit.intent \in Intents
  /\ asked.hit.intent # "none" =>
       asked.text \in Messages /\ asked.hit = Classify(asked.text)

\* Nothing in hand, it holds.
LEMMA NotAskedIs ==
  /\ NotAsked = [text |-> NoMessage, hit |-> NoHit]
  /\ NotAsked.text = NoMessage /\ NotAsked.hit = NoHit
BY DEF NotAsked

\* What is taken of a message is what the classifier made of it, or nothing.
LEMMA AskHeard ==
  ASSUME NEW t \in Messages, Ask(t)
  PROVE  Heard'
<1>1. PICK taken : /\ asked' = [text |-> t, hit |-> taken]
                   /\ taken \in {Classify(t), NoHit}
  BY Zenon DEF Ask
<1>2. asked'.text = t /\ asked'.hit = taken
  BY <1>1
<1>3. taken.intent \in Intents /\ (taken.intent # "none" => taken = Classify(t))
  BY <1>1, HitIs, ClassifiedIsPlain, QuestionAssumption DEF Intents
<1>. QED  BY <1>1, <1>2, <1>3 DEF Heard

\* Everything else keeps it or drops it.
LEMMA HeardStep ==
  ASSUME Heard, [Next]_vars
  PROVE  Heard'
<1>1. ASSUME asked' \in {asked, NotAsked, [text |-> asked.text, hit |-> NoHit]}
      PROVE  Heard'
  <2>1. CASE asked' = asked
    BY <2>1 DEF Heard
  <2>2. CASE asked' = NotAsked
    BY <2>2, NotAskedIs, HitIs DEF Heard, Intents
  <2>3. CASE asked' = [text |-> asked.text, hit |-> NoHit]
    <3>1. asked'.text = asked.text /\ asked'.hit = NoHit
      BY <2>3
    <3>. QED  BY <2>3, <3>1, HitIs DEF Heard, Intents
  <2>. QED  BY <1>1, <2>1, <2>2, <2>3
<1>2. CASE \E t \in Messages : Ask(t)
  BY <1>2, AskHeard
<1>3. CASE \E code \in Overrides : AskForced(code)
  <2>1. asked' = NotAsked
    BY <1>3 DEF AskForced
  <2>. QED  BY <1>1, <2>1
<1>4. CASE PoiDefers
  <2>1. asked' = [asked EXCEPT !.hit = NoHit]
    BY <1>4 DEF PoiDefers
  <2>2. asked' = [text |-> asked.text, hit |-> NoHit]
    BY <2>1 DEF Heard
  <2>. QED  BY <1>1, <2>2
<1>5. CASE PoiAnswers \/ Search \/ Offer \/ Return \/ UNCHANGED vars
  <2>1. asked' = asked
    BY <1>5 DEF PoiAnswers, Search, Offer, Return, vars
  <2>. QED  BY <1>1, <2>1
<1>6. CASE \/ \E tool \in ModelTools \cup {SimpleRoute} : ModelCalls(tool)
           \/ \E trip \in Trips : PlanSimpleRoute(trip)
           \/ \E o, d \in Spots, modes \in SUBSET {"walk", "mtr"} : Compare(o, d, modes)
           \/ \E o, d \in Spots \cup {NoSpot} : RefuseJourney(o, d)
  <2>1. asked' = NotAsked
    BY <1>6 DEF ModelCalls, PlanSimpleRoute, Compare, RefuseJourney
  <2>. QED  BY <1>1, <2>1
<1>. QED  BY <1>2, <1>3, <1>4, <1>5, <1>6, Zenon DEF Next

\* In hand at any moment is what the classifier made of the message.
LEMMA AlwaysHeard == Spec => []Heard
<1>1. Init => Heard
  BY NotAskedIs, HitIs DEF Init, Heard, Intents
<1>. QED  BY <1>1, HeardStep, PTL DEF Spec

\* Places are looked up without the model only for one category and a place of
\* the message, and for no trip or other day; the other shortcuts are not taken
\* for a place named alone (classify and extract_location).
THEOREM ShortcutIsPlainHolds == Spec => []ShortcutIsPlain
<1>1. Heard => ShortcutIsPlain
  <2>. SUFFICES ASSUME Heard PROVE ShortcutIsPlain
    OBVIOUS
  <2>1. CASE asked.hit.intent = "none"
    BY <2>1 DEF ShortcutIsPlain
  <2>2. CASE asked.hit.intent # "none"
    <3>1. Plain(asked.text, asked.hit)
      BY <2>2, ClassifiedIsPlain, QuestionAssumption DEF Heard
    <3>. QED  BY <3>1 DEF Plain, ShortcutIsPlain
  <2>. QED  BY <2>1, <2>2
<1>. QED  BY <1>1, AlwaysHeard, PTL

-----------------------------------------------------------------------------
(***************************************************************************)
(* The types.                                                              *)
(***************************************************************************)

\* A turn is planning just when a search is on.
Paced ==
  /\ pc \in {"idle", "poi", "model", "planning"}
  /\ pc = "planning" <=> search # "idle"

\* Every step keeps them in pace.
LEMMA PacedStep ==
  ASSUME Paced, [Next]_vars
  PROVE  Paced'
<1>1. ASSUME NEW t \in Messages, Ask(t) PROVE Paced'
  <2>1. pc = "idle" /\ search' = search
    BY <1>1 DEF Ask, plannerVars
  <2>2. pc' \in {"model", "poi", "idle"}
    BY <1>1, Zenon DEF Ask
  <2>. QED  BY <2>1, <2>2 DEF Paced
<1>2. CASE \E code \in Overrides : AskForced(code)
  BY <1>2 DEF AskForced, plannerVars, Paced
<1>3. CASE PoiAnswers \/ PoiDefers \/ Offer \/ UNCHANGED vars
  BY <1>3 DEF PoiAnswers, PoiDefers, Offer, vars, plannerVars, Paced
<1>4. CASE \/ \E tool \in ModelTools \cup {SimpleRoute} : ModelCalls(tool)
           \/ \E o, d \in Spots \cup {NoSpot} : RefuseJourney(o, d)
  BY <1>4 DEF ModelCalls, RefuseJourney, plannerVars, Paced
<1>5. ASSUME NEW from, NEW to, Begin(from, to) PROVE search' # "idle"
  BY <1>5, Zenon DEF Begin
<1>6. CASE \E trip \in Trips : PlanSimpleRoute(trip)
  BY <1>5, <1>6 DEF PlanSimpleRoute, Paced
<1>7. ASSUME NEW o \in Spots, NEW d \in Spots, NEW modes, Compare(o, d, modes)
      PROVE  Paced'
  <2>1. pc = "model"
    BY <1>7 DEF Compare
  <2>2. \/ /\ Begin([name |-> NoName, spot |-> o], [name |-> NoName, spot |-> d])
           /\ pc' = "planning"
        \/ pc' = "idle" /\ UNCHANGED plannerVars
    BY <1>7, Zenon DEF Compare
  <2>. QED  BY <1>5, <2>1, <2>2 DEF Paced, plannerVars
<1>8. CASE Search
  <2>1. pc' = pc /\ search # "idle"
    BY <1>8 DEF Search, Searching, Exhausted, Pop
  <2>2. search' # "idle"
    BY <1>8, <2>1 DEF Search, Searching, Exhausted, Pop
  <2>. QED  BY <2>1, <2>2 DEF Paced
<1>9. CASE Return
  BY <1>9 DEF Return, Returned, Paced
<1>. QED  BY <1>1, <1>2, <1>3, <1>4, <1>6, <1>7, <1>8, <1>9, Zenon DEF Next

\* The states are the ones the code can be in (the turn's row, its calls and the
\* search within it).
THEOREM TypeCorrectness == Spec => []TypeOK
<1>1. Init => Paced
  BY DEF Init, PlannerInit, Paced
<1>2. Spec => []Paced
  BY <1>1, PacedStep, PTL DEF Spec
<1>3. Paced /\ Tongue /\ Heard /\ IInv => TypeOK
  <2>. SUFFICES ASSUME Paced, Tongue, Heard, IInv PROVE TypeOK
    OBVIOUS
  <2>1. \A e \in frontier : e.cost \in Nat /\ Reached(e) \in DOMAIN seen
    BY FareIs DEF IInv, Stocked
  <2>2. frontier # {} => search \in {"running", "done"}
    BY DEF IInv, Ready
  <2>3. \A c \in calls : c.lang \in DatasetCoverage(c.tool) /\ c.translated \in BOOLEAN
    BY DEF Tongue, Answerable
  <2>4. /\ (pc = "planning") = (search # "idle")
        /\ pc \in {"idle", "poi", "model", "planning"}
    BY DEF Paced
  <2>5. Spoke(locale) /\ Spoke(spoken) /\ wordless \in BOOLEAN
    BY DEF Tongue
  <2>6. asked.text \in Messages \cup {NoMessage} /\ asked.hit.intent \in Intents
    BY DEF Heard
  <2>7. net \in Networks /\ search \in {"idle", "running", "done"}
    BY DEF IInv, Ready
  <2>. QED  BY <2>1, <2>2, <2>3, <2>4, <2>5, <2>6, <2>7 DEF TypeOK
<1>. QED  BY <1>2, <1>3, AlwaysTongue, AlwaysHeard, Invariance, PTL

=============================================================================
