------------------------- MODULE MCHttpConnection -------------------------
(* A small instance of HttpConnection for TLC.                             *)
EXTENDS HttpConnection

CONSTANTS r1, r2, r3

ThreeRequests == {r1, r2, r3}
=============================================================================
