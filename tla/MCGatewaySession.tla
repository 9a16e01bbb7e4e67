------------------------- MODULE MCGatewaySession -------------------------
(* A small instance of GatewaySession for TLC: one next_event loop.        *)
EXTENDS GatewaySession

CONSTANTS o1, c1, c2

OneCaller == {o1}
TwoConns == {c1, c2}
=============================================================================
