-------------------------- MODULE MCGatewayBreaker --------------------------
(* Small instances of GatewayBreaker.                                      *)
EXTENDS GatewayBreaker
CONSTANTS r1, r2, r3

\* The client of r1 may hang up while the last provider is asked.
AtTheLast == {<<r1, NumProviders>>}
=============================================================================
