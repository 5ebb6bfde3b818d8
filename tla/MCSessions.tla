----------------------------- MODULE MCSessions -----------------------------
(***************************************************************************)
(* A POST that tells where the user is, and a message on the socket that   *)
(* may ask to be forgotten: they overlap or not, on one replica or two.    *)
(* With the repeat of the POST there are three saves for a history of two  *)
(* pairs, so the last must trim.  Two faults: one to have the POST         *)
(* repeated, one more to hit the repeat or the socket.                     *)
(***************************************************************************)
EXTENDS SessionsProperties

CONSTANTS post1, ws1, blue, green

MCRequests   == {post1, ws1}
MCWsRequests == {ws1}
MCLocating   == {post1}
MCForgetting == {ws1}
MCReplicas   == {blue, green}
=============================================================================
