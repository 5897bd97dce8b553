---------------------------- MODULE MCAutoDefrag ----------------------------
(* AutoDefrag with two calling threads for TLC. *)
EXTENDS AutoDefrag

CONSTANTS c1, c2

MCTwo == {c1, c2}
MCOps == {"enable", "disable", "stop"}
MCSetConfig == {"enable", "disable"}
=============================================================================
