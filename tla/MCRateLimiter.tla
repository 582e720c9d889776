--------------------------- MODULE MCRateLimiter ---------------------------
(***************************************************************************)
(* Instances of RateLimiter for TLC: two or three calls.                   *)
(***************************************************************************)
EXTENDS RateLimiter

============================================================================
