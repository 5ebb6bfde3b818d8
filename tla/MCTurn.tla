------------------------------- MODULE MCTurn -------------------------------
(***************************************************************************)
(* Batches of up to two calls: enough for a bare find_poi beside its       *)
(* lookup, for an ask_user beside a search, for two lookups of which one   *)
(* fails, and for a call that raises beside one that still runs.           *)
(***************************************************************************)
EXTENDS TurnProperties
=============================================================================
