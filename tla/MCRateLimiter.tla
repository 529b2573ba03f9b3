--------------------------- MODULE MCRateLimiter ---------------------------
(* One client address and the shared bucket, two threads; windows of three *)
(* ticks, one and a half seconds, so Retry-After has to round; two         *)
(* requests a window.  Three windows open before the horizon.              *)
EXTENDS RateLimiter, TLC

CONSTANTS visitor

MCIp == {visitor}

(* The threads of the pool differ in nothing.                              *)
Threads == Permutations(Thread)
=============================================================================
