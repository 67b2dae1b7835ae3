---------------------------- MODULE MCBroadcast ----------------------------
(***************************************************************************)
(* An instance of the client's calls for TLC.                              *)
(***************************************************************************)
EXTENDS Broadcast

CONSTANTS cli, agent

TwoAndOne == [p \in Process |-> IF p = cli THEN 2 ELSE 1]
=============================================================================
