---------------------------- MODULE MCGatewayCli ----------------------------
(* Instance of GatewayCli: one secret, the server and one command process, *)
(* so every race is between a command and the server or its other clients. *)
EXTENDS GatewayCli
=============================================================================
