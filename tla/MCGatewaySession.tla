-------------------------- MODULE MCGatewaySession --------------------------
(* A small instance of GatewaySession for TLC. *)
EXTENDS GatewaySession

CONSTANTS c1, c2
=============================================================================
