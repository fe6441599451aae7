------------------------- MODULE MCGatewayInstances -------------------------
(* TLC instance of GatewayInstances: two gateways started plainly and one     *)
(* with --replace.                                                            *)
EXTENDS GatewayInstances
=============================================================================
