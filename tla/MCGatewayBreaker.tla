--------------------------- MODULE MCGatewayBreaker ---------------------------
(* Instances of GatewayBreaker for TLC. *)
EXTENDS GatewayBreaker, TLC

CallerSymmetry == Permutations(Caller)

==============================================================================
