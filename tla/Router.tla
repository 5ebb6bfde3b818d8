------------------------------- MODULE Router -------------------------------
(***************************************************************************)
(* Where a message goes before any model reads it: the language it is in   *)
(* (smcity/langrouter/detect.py), the language each data set is asked in   *)
(* (langrouter/coverage.py), and whether it is so plain that tools can be  *)
(* called at once (smcity/classifier.py).                                  *)
(*                                                                         *)
(* A message is kept as what the regular expressions and the counting of   *)
(* code points find in it.  For the language, the fields                   *)
(*   blank       nothing but white space                                   *)
(*   letters     the scripts it has letters of, and how many               *)
(*   particle    a Cantonese particle or bigram, which is of Han letters   *)
(*   simplified  a character only simplified Chinese has                   *)
(*   word        two Latin letters together, accented ones included        *)
(***************************************************************************)
EXTENDS Naturals, Sequences

TtsLocaleFor(lang, script) ==
  CASE lang = "yue" -> "yue-HK"
    [] lang = "zho" -> IF script = "Hant" THEN "zh-HK" ELSE "zh-CN"
    [] lang = "jpn" -> "ja-JP"
    [] lang = "kor" -> "ko-KR"
    [] lang = "tha" -> "th-TH"
    [] lang = "ara" -> "ar-EG"
    [] lang = "heb" -> "he-IL"
    [] lang = "rus" -> "ru-RU"
    [] lang = "hin" -> "hi-IN"
    [] lang = "ell" -> "el-GR"
    [] OTHER        -> "en-US"

Spoken(lang, script, tts) == [lang |-> lang, script |-> script, tts |-> tts]
In(lang, script)          == Spoken(lang, script, TtsLocaleFor(lang, script))

ScriptPrimary == [Thai |-> "tha", Arabic |-> "ara", Hebrew |-> "heb",
                  Cyrillic |-> "rus", Devanagari |-> "hin", Greek |-> "ell"]

Scripts == DOMAIN ScriptPrimary \cup
           {"Han", "Hiragana", "Katakana", "Hangul", "Latin"}

Count(t, s) == IF s \in DOMAIN t.letters THEN t.letters[s] ELSE 0

\* The first of the scripts with most letters, in the order of the text: with
\* as many letters of two, either.
DominantScripts(t) ==
  IF DOMAIN t.letters = {} THEN {"Other"}
  ELSE {s \in DOMAIN t.letters : \A o \in DOMAIN t.letters : Count(t, o) <= Count(t, s)}

\* detect, for one dominant script.  Han outranks Latin however many letters
\* there are of each; what has no letters keeps the language of the session,
\* and not its script.
DetectBy(t, carried, dominant) ==
  IF t.blank THEN carried
  ELSE IF t.particle THEN In("yue", "Hant")
  ELSE IF Count(t, "Hiragana") + Count(t, "Katakana") > 0
  THEN In("jpn", IF Count(t, "Hiragana") >= Count(t, "Katakana")
                 THEN "Hiragana" ELSE "Katakana")
  ELSE IF Count(t, "Han") > 0
  THEN In("zho", IF t.simplified THEN "Hans" ELSE "Hant")
  ELSE IF dominant = "Hangul" THEN In("kor", "Hangul")
  ELSE IF dominant \in DOMAIN ScriptPrimary
  THEN In(ScriptPrimary[dominant], dominant)
  ELSE IF Count(t, "Latin") > 0 \/ t.word THEN In("eng", "Latin")
  ELSE [carried EXCEPT !.script = "Other"]

\* Mutant: what has no letters has no language.
DetectAlone(t, carried) ==
  {DetectBy(t, In("und", "Other"), s) : s \in DominantScripts(t)}

Detect(t, carried) == {DetectBy(t, carried, s) : s \in DominantScripts(t)}

\* _detection_from_override: nothing checks the code, and one that is not in
\* the table forces what the session has.
FromOverride(code, carried) ==
  CASE code = "yue"     -> In("yue", "Hant")
    [] code = "zh-Hant" -> In("zho", "Hant")
    [] code = "zh-Hans" -> In("zho", "Hans")
    [] code = "en"      -> In("eng", "Latin")
    [] code = "ja"      -> In("jpn", "Hiragana")
    [] code = "ko"      -> In("kor", "Hangul")
    [] code = "th"      -> In("tha", "Thai")
    [] code = "fr"      -> Spoken("fra", "Latin", "fr-FR")
    [] code = "de"      -> Spoken("deu", "Latin", "de-DE")
    [] code = "es"      -> Spoken("spa", "Latin", "es-ES")
    [] code = "tl"      -> Spoken("tgl", "Latin", "tl-PH")
    [] code = "id"      -> Spoken("ind", "Latin", "id-ID")
    [] code = "vi"      -> Spoken("vie", "Latin", "vi-VN")
    [] OTHER            -> carried

\* What a turn carries over from the locale saved in the session's row.
Carried(l) == [l EXCEPT !.script = IF @ = "Other" THEN "Hant" ELSE @]

-----------------------------------------------------------------------------
(***************************************************************************)
(* The language a data set is asked in, and whether the user's is not one  *)
(* it serves.                                                              *)
(***************************************************************************)

Trilingual ==
  {"transport.get_kmb_eta_by_stop", "transport.get_kmb_eta_by_route_stop",
   "transport.get_citybus_eta_by_route_stop", "transport.get_citybus_route_stops",
   "transport.find_stops_near_point", "transport.find_stops_by_name",
   "transport.get_gmb_eta", "context.get_9day_forecast",
   "context.get_current_weather", "context.get_active_warnings", "geo.find_poi"}

Bilingual ==
  {"transport.get_mtr_next_trains", "transport.plan_simple_route",
   "transport.plan_walking_route", "transport.plan_journey",
   "transport.plan_multimodal_journey", "context.get_aqhi",
   "geo.address_lookup", "facility.find_nearby_courts",
   "facility.find_nearby_pools", "housing.get_estate_info",
   "housing.list_estates_in_district", "csdi.query_features"}

DatasetCoverage(tool) ==
  {"en"} \cup (IF tool \in Trilingual \cup Bilingual THEN {"zh-Hant"} ELSE {})
         \cup (IF tool \in Trilingual THEN {"zh-Hans"} ELSE {})

Native(l) ==
  CASE l.lang = "eng" -> "en"
    [] l.lang = "zho" -> IF l.script = "Hans" THEN "zh-Hans" ELSE "zh-Hant"
    [] OTHER          -> "none"

\* Mutant: whether the data set serves the language only decides the flag.
ChooseUnchecked(tool, l) ==
  LET tag == IF l.lang = "yue" THEN "zh-Hant" ELSE Native(l)
      ok  == tag \in DatasetCoverage(tool) IN
  [lang |-> IF tag # "none" THEN tag ELSE "en", translated |-> ~ok \/ l.lang = "yue"]

\* Cantonese is asked in traditional Chinese, and counts as translated.  No
\* data set serves zh-Hans without zh-Hant.
ChooseQueryLang(tool, l) ==
  LET tag == IF l.lang = "yue" THEN "zh-Hant" ELSE Native(l)
      ok  == tag \in DatasetCoverage(tool) IN
  [lang |-> IF ok THEN tag ELSE "en", translated |-> ~ok \/ l.lang = "yue"]

-----------------------------------------------------------------------------
(***************************************************************************)
(* The fast path.  The fields it goes by:                                  *)
(*   chitchat   the whole message is a pleasantry                          *)
(*   length     in characters                                              *)
(*   words      which banks of patterns match                              *)
(*   category   the slugs whose lexicon matches                            *)
(* and what stands next to the markers of a place, once function words and *)
(* the terms of the category are stripped off: "absent" when the marker    *)
(* is, else "empty", "self" (a word for here), "hk", or "place":           *)
(*   near       before a word for nearby          here    a word for here  *)
(*   exist      before where is, is there any     by_me   near me, nearby  *)
(*   at         after a locative                  phrase  after near, in   *)
(*   prefix     before a word for the weather                              *)
(***************************************************************************)

ClassifyCjkPhrase(c) == CASE c \in {"empty", "self"} -> "self"
                          [] c = "place"             -> "phrase"
                          [] OTHER                   -> c

\* An English phrase that is empty, or longer than four words, is none.
ClassifyPhrase(c) == CASE c = "place" -> "phrase"
                       [] c = "hk"    -> "hk"
                       [] OTHER       -> "none"

\* extract_location: the first marker found, in this order, says.
ExtractLocation(t) ==
  IF t.near # "absent" THEN ClassifyCjkPhrase(t.near)
  ELSE IF t.here THEN "self"
  ELSE IF t.exist # "absent" THEN ClassifyCjkPhrase(t.exist)
  ELSE IF t.at # "absent" THEN ClassifyCjkPhrase(t.at)
  ELSE IF t.by_me THEN "self"
  ELSE ClassifyPhrase(t.phrase)

\* Mutant: a place written right before the word for the weather is missed.
MarkedLocationPresent(t) == ExtractLocation(t) = "phrase"

NamedLocationPresent(t) == ExtractLocation(t) = "phrase" \/ t.prefix \in {"place", "self"}

NoHit         == [intent |-> "none", tools |-> <<>>]
Hit(i, tools) == [intent |-> i, tools |-> tools]

Weather  == "context.get_current_weather"
Warnings == "context.get_active_warnings"
Aqhi     == "context.get_aqhi"

Context == {"weather", "aqi", "warnings", "outdoor"}

PoiMaxLen == 120
IsPoi(t)  == t.length <= PoiMaxLen /\ t.category # {}

\* A registry slug and a place to search, and nothing else.
ClassifyPoi(t) ==
  LET kind == ExtractLocation(t) IN
  IF \/ t.words \cap (Context \cup {"routing", "future"}) # {}
     \/ \E a, b \in t.category : a # b
     \/ kind \notin {"phrase", "self"}
  THEN NoHit
  ELSE [intent |-> "poi", tools |-> <<>>, category |-> t.category, at |-> kind]

Merged(t) ==
  SelectSeq(<<Weather, Warnings, Aqhi>>,
            LAMBDA tool : CASE tool = Weather  -> "weather" \in t.words
                            [] tool = Warnings -> "warnings" \in t.words
                            [] tool = Aqhi     -> "aqi" \in t.words)

\* Only the weather alone is put off when it is asked of another day.
ClassifyContext(t) ==
  IF t.words \cap Context = {} \/ NamedLocationPresent(t) THEN NoHit
  ELSE IF "outdoor" \in t.words
  THEN Hit("weather_and_air", <<Weather, Aqhi, Warnings>>)
  ELSE IF Len(Merged(t)) > 1 THEN Hit("weather_and_air", Merged(t))
  ELSE IF "weather" \in t.words
  THEN IF "future" \in t.words THEN NoHit ELSE Hit("weather", Merged(t))
  ELSE Hit(CHOOSE w \in {"aqi", "warnings"} : w \in t.words, Merged(t))

Marker == {"absent", "empty", "self", "hk", "place"}

\* What the expressions and the counting may find in a message.
IsMessage(t) ==
  /\ {t.blank, t.particle, t.simplified, t.word, t.chitchat, t.here, t.by_me}
       \subseteq BOOLEAN
  /\ DOMAIN t.letters \subseteq Scripts
  /\ \A s \in DOMAIN t.letters : t.letters[s] \in Nat \ {0}
  /\ t.particle => "Han" \in DOMAIN t.letters
  /\ {t.near, t.exist, t.at, t.phrase, t.prefix} \subseteq Marker

Classify(t) ==
  IF t.blank THEN NoHit
  ELSE IF t.chitchat /\ t.length <= 40 THEN Hit("chitchat", <<>>)
  ELSE IF IsPoi(t) THEN ClassifyPoi(t)
  ELSE ClassifyContext(t)

=============================================================================
