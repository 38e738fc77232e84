--------------------------- MODULE MCGatewayRelay ---------------------------
(* GatewayRelay for TLC. *)
EXTENDS GatewayRelay
=============================================================================
