---------------------------- MODULE MCWebSocket ----------------------------
(* A small instance of WebSocket for TLC.                                  *)
EXTENDS WebSocket

CONSTANTS r1, r2, r3, s1, s2, s3, x1, x2

ThreeReads == {r1, r2, r3}
ThreeSends == {s1, s2, s3}
TwoCloses == {x1, x2}
=============================================================================
