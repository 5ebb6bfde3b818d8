------------------------------ MODULE MCTools ------------------------------
(***************************************************************************)
(* Two callers and three calls of one family of tools, so that one call    *)
(* waits for another's load and a third comes later.  Tools that share     *)
(* neither a catalogue nor a cache key do not meet, so each behaviour      *)
(* calls one family.  Ages are counted in steps: what is kept for seconds  *)
(* or minutes is kept for one, what is kept for an hour or a day for two.  *)
(***************************************************************************)
EXTENDS ToolsProperties

CONSTANTS alice, bob, here, there

MCCallers == {alice, bob}
MCLangs   == {"en", "zh-Hant"}
MCPlaces  == {here, there}

At(f, p)   == [form |-> f, at |-> p]
Trip(o, d) == [o |-> o, d |-> d]

In(l, wants) == {<<w, l>> : w \in wants}
InBoth(w)    == {<<w, l>> : l \in MCLangs}

MCFamilies ==
  {InBoth(<<"weather", "now">>), InBoth(<<"warnings", "now">>),
   InBoth(<<"forecast", "now">>), InBoth(<<"address", "a">>),
   InBoth(<<"mtr", "a">>) \cup In("en", {<<"mtr", "unknown">>, <<"mtr", "bad">>})} \cup
  {In("en", F) : F \in
     {{<<"aqhi", "now">>},
      {<<"citybus eta", "a">>, <<"citybus stops", "a">>},
      {<<"multimodal", "a">>}, {<<"gmb", "a">>},
      {<<"kmb eta", "a">>, <<"by name", "both">>},
      {<<"kmb route eta", "a">>, <<"near point", "kmb">>},
      {<<"near point", "mtr">>, <<"by name", "mtr">>, <<"by name", "kmb">>},
      {<<"courts", "here">>, <<"pools", "here">>},
      {<<"courts", "here">>, <<"courts", "elsewhere">>},
      {<<"estate", "here">>, <<"estates", "here">>},
      {<<"csdi", "one">>, <<"csdi", "two">>, <<"csdi", "three">>,
       <<"csdi", "unknown">>},
      {<<"walk", Trip(At("name", here), At("point", there))>>},
      {<<"walk", Trip(At("missing", here), At("name", here))>>},
      {<<"journey", Trip(At("station", here), At("name", here))>>},
      {<<"journey", Trip(At("name", here), At("pinned", there))>>}}}

MCMalformed == {<<"mtr", "bad">>}

MCTtl == [t \in Tools |->
  IF t \in {"address", "citybus stops", "near point", "by name", "courts",
            "pools", "estate", "estates", "csdi", "walk", "journey"}
  THEN 2 ELSE 1]
=============================================================================
