----------------------------- MODULE MCSendLimit -----------------------------
(* Instances of SendLimit for TLC. *)
EXTENDS SendLimit, TLC

HandlerSymmetry == Permutations(Handler)

(* The service does not crash: what goes wrong is the handlers' own doing. *)
SteadySpec == Init /\ [][Tick \/ \E h \in Handler : Handle(h)]_vars

==============================================================================
