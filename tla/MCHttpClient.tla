--------------------------- MODULE MCHttpClient ---------------------------
(* A small instance of HttpClient, and of the RateLimiter it extends, for   *)
(* TLC: two requests share a route.                                        *)
EXTENDS HttpClient, TLC

CONSTANTS r1, r2, r3, kA, kB

Reqs == {r1, r2, r3}
Keys == {kA, kB}
ReqRoute == r1 :> kA @@ r2 :> kA @@ r3 :> kB
=============================================================================
