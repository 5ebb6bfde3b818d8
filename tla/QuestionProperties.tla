------------------------- MODULE QuestionProperties -------------------------
(***************************************************************************)
(* What the routing of questions and the planning of trips promise.        *)
(***************************************************************************)
EXTENDS Question

Langs == {"auto", "yue", "zho", "jpn", "kor", "tha", "ara", "heb", "rus", "hin",
              "ell", "eng", "fra", "deu", "spa", "tgl", "ind", "vie"}
Writings  == (Scripts \ {"Han"}) \cup {"Hant", "Hans", "Other"}
Voices    == {"yue-HK", "zh-HK", "zh-CN", "ja-JP", "ko-KR", "th-TH", "ar-EG", "he-IL",
              "ru-RU", "hi-IN", "el-GR", "en-US", "fr-FR", "de-DE", "es-ES", "tl-PH",
              "id-ID", "vi-VN"}

Intents   == {"none", "chitchat", "poi", "weather", "aqi", "warnings", "weather_and_air"}

Spoke(l) == l \in [lang : Langs, script : Writings, tts : Voices]

\* The states are the ones the code can be in.
TypeOK ==
  /\ Spoke(locale) /\ Spoke(spoken)
  /\ asked.text \in Messages \cup {NoMessage}
  /\ asked.hit.intent \in Intents
  /\ pc \in {"idle", "poi", "model", "planning"}
  /\ (pc = "planning") = (search # "idle")
  /\ \A c \in calls : /\ c.lang \in DatasetCoverage(c.tool)
                      /\ c.translated \in BOOLEAN
  /\ wordless \in BOOLEAN
  /\ net \in Networks
  /\ frontier # {} => search \in {"running", "done"}
  /\ \A e \in frontier : e.cost \in Nat /\ Reached(e) \in DOMAIN seen
  /\ search \in {"idle", "running", "done"}

(***************************************************************************)
(* The session keeps the language of the last message that had one, and so *)
(* does the voice, through every message without words and every override  *)
(* the table does not know (detect's carried, Locale.from_detection).  A   *)
(* data set is asked natively only in that language and, unless a message  *)
(* without letters has come since and lost it, in that script.             *)
(***************************************************************************)
NativeTag(l) == CASE l.lang = "eng" -> "en"
                  [] l.lang = "zho" -> IF l.script = "Hans" THEN "zh-Hans" ELSE "zh-Hant"
                  [] OTHER          -> "none"

SpeaksTheUsersLanguage ==
  /\ locale.lang = spoken.lang
  /\ locale.tts = spoken.tts
  /\ ~wordless /\ spoken # NoLocale => locale = spoken
  /\ \A c \in calls : ~c.translated =>
       \/ c.lang = NativeTag(spoken)
       \/ wordless /\ c.lang = NativeTag(locale) /\ spoken.lang = "zho"

(***************************************************************************)
(* The fast path answers only what it was made for: a search for places    *)
(* has one category and a place the message does name, and stays out of    *)
(* trips and of other days; data of the whole territory is not given for a *)
(* place that is named and is not here; the weather alone is not given for *)
(* another day.  (The classifier lets more through than one would expect:  *)
(* a named place beside "Hong Kong", the weather in a question about a     *)
(* trip, and the weather joined with the air on another day.  Of those     *)
(* nothing is claimed.)                                                    *)
(***************************************************************************)
Names(t) == "place" \in {t.near, t.exist, t.at, t.phrase, t.prefix}
Here(t)  == t.here \/ t.by_me \/ {"empty", "self"} \cap {t.near, t.exist, t.at} # {}
Abroad(t) == "hk" \in {t.near, t.exist, t.at}

ShortcutIsPlain ==
  LET t == asked.text
      i == asked.hit.intent IN
  /\ i = "poi" =>
       /\ Cardinality(t.category) = 1 /\ t.words \cap {"routing", "future"} = {}
       /\ IF asked.hit.at = "phrase" THEN Names(t) ELSE Here(t)
       /\ Names(t) /\ asked.hit.at = "self" => Here(t)
  /\ i \in {"weather", "aqi", "warnings", "weather_and_air"} =>
       /\ t.prefix # "place"
       /\ Names(t) => Here(t) \/ Abroad(t)
  /\ i = "weather" => "future" \notin t.words

(***************************************************************************)
(* The way found is the cheapest there is, counting two minutes a hop and  *)
(* five a change of line, against every way through the network that comes *)
(* to no station twice; its total adds the two walks; and no way is found  *)
(* only where there is none (_shortest_path, and the accounting of the     *)
(* handler).                                                               *)
(***************************************************************************)
Itineraries(src) ==
  LET grow[n \in Nat] ==
        IF n = 0 THEN {<<At(src, NoLine)>>}
        ELSE grow[n - 1] \cup
             UNION {{Append(p, At(h.to, h.line)) : h \in
                       {g \in Adjacency(net, Last(p).at) :
                          \A i \in DOMAIN p : p[i].at # g.to}} : p \in grow[n - 1]}
  IN  grow[Cardinality({h.from : h \in Hops(net)})]

Fare(p) == 2 * (Len(p) - 1)
           + 5 * Cardinality({i \in 3 .. Len(p) : p[i].line # p[i - 1].line})

Ways == {p \in Itineraries(job.from) : Last(p).at = job.to}

WalkedMin(m) == IF m > 30 THEN WalkMin(m) ELSE 0
Walks        == WalkedMin(job.walk_from) + WalkedMin(job.walk_to)

CheapestRoute ==
  search = "done" =>
    /\ plan.ok => plan.total - Walks = Min({Fare(p) : p \in Ways})
    /\ plan.reason = "no path" => Ways = {}

(***************************************************************************)
(* The directions lead there: the rides join up from the station of the    *)
(* origin to that of the destination along tracks of the line they name,   *)
(* and the MTR option of a journey names the station the first is boarded  *)
(* at and the one the last is left at.                                     *)
(***************************************************************************)
Along(leg) ==
  \A i \in 1 .. Len(leg.stations) - 1 :
    Hop(leg.stations[i], leg.stations[i + 1], leg.line) \in Hops(net)

DirectionsLead ==
  LET rides == Rides(plan.legs) IN
  search = "done" /\ plan.ok =>
    /\ \A i \in DOMAIN rides : /\ Along(rides[i])
                               /\ Head(rides[i].stations) = rides[i].from
                               /\ Last(rides[i].stations) = rides[i].to
    /\ \A i \in 1 .. Len(rides) - 1 : rides[i].to = rides[i + 1].from
    /\ IF rides = <<>> THEN job.from = job.to
       ELSE rides[1].from = job.from /\ Last(rides).to = job.to
    /\ task.tool = Journey /\ options.mtr # NoOption =>
         /\ options.mtr.to = job.to
         /\ options.mtr.from = IF rides = <<>> THEN NoStation ELSE job.from

=============================================================================
