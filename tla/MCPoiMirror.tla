---------------------------- MODULE MCPoiMirror ----------------------------
(***************************************************************************)
(* Two refreshers: a replica and the command, which may also take the lock *)
(* as a second replica does, or two replicas.  Two categories, so that a   *)
(* sweep goes on after a failure and rowids of one follow those of the     *)
(* other.  Three fetches: each category once, and one of them again.       *)
(***************************************************************************)
EXTENDS PoiMirrorProperties

CONSTANTS blue, green, ops, near, far

MCLoops    == {blue}
MCCommands == {ops}
MCReplicas == {blue, green}
MCSought   == {1}
MCElements == {near, far}
MCNear     == {near}
=============================================================================
