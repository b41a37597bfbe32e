--------------------------- MODULE MCGatewayStop ---------------------------
(* The limiter and the gateway.stop capture on small instances. *)
EXTENDS GatewayStop
============================================================================
