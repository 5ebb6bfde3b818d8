----------------------------- MODULE MCQuestion -----------------------------
(***************************************************************************)
(* Two networks of six stations: one where the station reached first is    *)
(* reached on the wrong line, and one with a loop, a branch and a line     *)
(* that joins nothing.  Four points, one of them far from every station.   *)
(* Messages that differ in script, and messages that differ in what the    *)
(* classifier looks for: one bank of words or two, no category, one or    *)
(* two, and the markers of a place alone and in the pairs that compete.    *)
(***************************************************************************)
EXTENDS QuestionProperties

MCNetworks ==
  {[red   |-> {<<"a", "b", "c">>},
    blue  |-> {<<"a", "x", "y", "c", "d">>}],
   [red   |-> {<<"a", "b", "c">>, <<"b", "d">>},
    green |-> {<<"c", "d", "a">>},
    blue  |-> {<<"x", "y">>}]}

MCSpots  == {"home", "corner", "park", "hill"}
MCMetres ==
  [home   |-> [a |-> 400,  b |-> 1499, c |-> 3000, d |-> 3900, x |-> 2500, y |-> 2600, z |-> 9000],
   corner |-> [a |-> 507,  b |-> 1600, c |-> 2900, d |-> 3800, x |-> 2400, y |-> 2700, z |-> 8900],
   park   |-> [a |-> 3100, b |-> 1700, c |-> 1800, d |-> 30,   x |-> 1900, y |-> 2000, z |-> 9100],
   hill   |-> [a |-> 5000, b |-> 4000, c |-> 3300, d |-> 1501, x |-> 1500, y |-> 4100, z |-> 9200]]
MCApart ==
  [home   |-> [home |-> 0,    corner |-> 780,  park |-> 3500, hill |-> 4500],
   corner |-> [home |-> 780,  corner |-> 0,    park |-> 3400, hill |-> 4400],
   park   |-> [home |-> 3500, corner |-> 3400, park |-> 0,    hill |-> 599],
   hill   |-> [home |-> 4500, corner |-> 4400, park |-> 599,  hill |-> 0]]

MCFuzzy == [like_c |-> "c", like_y |-> "y", gibberish |-> NoStation]

End(n, p) == [name |-> n, spot |-> p]
From == {End("a", NoSpot), End(NoName, "home"), End("gibberish", "hill")}
To   == {End("d", "park"), End("like_c", NoSpot), End("like_y", "hill"), End("z", NoSpot),
         End("a", "corner"), End("gibberish", NoSpot)}
MCTrips == [from : From, to : To]

Plain ==
  [blank |-> FALSE, letters |-> [Han |-> 4, Latin |-> 9], particle |-> FALSE,
   simplified |-> FALSE, word |-> TRUE, chitchat |-> FALSE, length |-> 30,
   words |-> {}, category |-> {}, near |-> "absent", here |-> FALSE,
   exist |-> "absent", at |-> "absent", by_me |-> FALSE, phrase |-> "absent",
   prefix |-> "absent"]

Chinese(p, s) == [Plain EXCEPT !.particle = p, !.simplified = s]
Letters(l)    == [Plain EXCEPT !.letters = l]
Wordless      == [Plain EXCEPT !.letters = <<>>, !.word = FALSE]

Languages ==
  {Chinese(TRUE, FALSE), Chinese(FALSE, TRUE), Wordless,
   [Wordless EXCEPT !.blank = TRUE], [Wordless EXCEPT !.word = TRUE],
   Letters([Hiragana |-> 3, Katakana |-> 3, Han |-> 4]),
   Letters([Katakana |-> 2]), Letters([Hangul |-> 3, Latin |-> 3]),
   Letters([Thai |-> 5]), Letters([Thai |-> 1, Latin |-> 5])}

Places ==
  {[Plain EXCEPT !.near = c] : c \in {"absent", "empty", "self", "hk", "place"}} \cup
  {[Plain EXCEPT !.here = TRUE], [Plain EXCEPT !.exist = "place"],
   [Plain EXCEPT !.exist = "empty", !.at = "place"], [Plain EXCEPT !.at = "place"],
   [Plain EXCEPT !.at = "hk", !.phrase = "place"],
   [Plain EXCEPT !.near = "empty", !.at = "place"],
   [Plain EXCEPT !.by_me = TRUE, !.phrase = "place"], [Plain EXCEPT !.phrase = "place"],
   [Plain EXCEPT !.phrase = "hk"], [Plain EXCEPT !.phrase = "empty"],
   [Plain EXCEPT !.prefix = "place"], [Plain EXCEPT !.here = TRUE, !.prefix = "self"]}

Words ==
  {{w} : w \in {"weather", "aqi", "warnings", "outdoor", "future", "routing"}} \cup
  {{}, {"weather", "warnings"}, {"weather", "aqi"}, {"aqi", "warnings"},
   {"weather", "future"}, {"outdoor", "future"}, {"weather", "routing"}}

Classified ==
  {[p EXCEPT !.words = w, !.category = c] :
     p \in Places, w \in Words, c \in {{}, {"toilets"}}} \cup
  {[p EXCEPT !.category = {"toilets", "bench"}] : p \in Places}

MCMessages ==
  Languages \cup Classified \cup
  {[Plain EXCEPT !.chitchat = TRUE, !.length = 40],
   [Plain EXCEPT !.chitchat = TRUE, !.length = 41],
   [Plain EXCEPT !.category = {"toilets"}, !.by_me = TRUE, !.length = 121]}

MCModelTools == {"transport.get_mtr_next_trains", "transport.get_gmb_eta",
                 "meta.ask_user"}
MCOverrides == {"auto", "zh-Hans", "en", "fr", "unlisted"}
=============================================================================
