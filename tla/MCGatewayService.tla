-------------------------- MODULE MCGatewayService --------------------------
(* Instances of the gateway daemon for TLC: one thread of each kind.       *)
EXTENDS GatewayService
=============================================================================
