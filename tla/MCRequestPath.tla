---------------------------- MODULE MCRequestPath ----------------------------
(* Instances of RequestPath for TLC. *)
EXTENDS RequestPath, TLC

CONSTANTS q1, q2

Requests == {q1, q2}
OneRequest == {q1}
Calls == Requests \X (1..MaxAttempts)
CallsOfOne == OneRequest \X (1..MaxAttempts)

==============================================================================
