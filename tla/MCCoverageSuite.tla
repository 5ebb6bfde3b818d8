--------------------------- MODULE MCCoverageSuite --------------------------
(***************************************************************************)
(* Three questions: one that wants a place of a category, one any of two   *)
(* tools, and one whose data set has no tool.  Among the answers are those *)
(* a contract could mistake for good ones, and good ones it could mistake: *)
(* data in the reply beside a call that failed, or beside a search for     *)
(* something else.                                                         *)
(***************************************************************************)
EXTENDS CoverageSuiteProperties

CONSTANTS dentist, bus, ferry

MCQuestions == {dentist, bus, ferry}

MCContract ==
  (dentist :> [kind |-> "poi", category |-> "dentist"]) @@
  (bus     :> [kind |-> "any", accept |-> {"eta by stop", "eta by route"}]) @@
  (ferry   :> [kind |-> "open"])

Called(tool, ok, category) == [tool |-> tool, ok |-> ok, category |-> category]
Place(ok, category) == Called(POI_TOOL, ok, category)
Bus(ok)             == Called("eta by stop", ok, "none")
Resolved            == Called(Lookup, TRUE, "none")
Said(reply, trace)  == [status |-> "ok", reply |-> reply, trace |-> trace]
Failed(how)         == [status |-> how, reply |-> "empty", trace |-> {}]

MCAnswers ==
  (dentist :> {Said("data", {Place(FALSE, "dentist"), Place(TRUE, "bench")}),
               Said("data", {Place(FALSE, "bench"), Place(TRUE, "dentist")}),
               Said("data", {Resolved, Place(TRUE, "bench")})}) @@
  (bus     :> {Said("data", {Bus(FALSE)}), Said("data", {Bus(TRUE)}), Said("other", {})}) @@
  (ferry   :> {Failed("timeout")})
=============================================================================
