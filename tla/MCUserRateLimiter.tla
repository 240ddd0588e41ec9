-------------------------- MODULE MCUserRateLimiter --------------------------
(* Instances of UserRateLimiter for TLC. *)
EXTENDS UserRateLimiter, TLC

==============================================================================
