----------------------------- MODULE OneTimeCode -----------------------------
(***************************************************************************)
(* What a verification code promises, whichever handlers take it and in    *)
(* whatever order their calls reach Redis: a code opens the door only to   *)
(* requests admitted while it was stored, and at most Limit times until it *)
(* is issued again.  A code that really is one-time has Limit = 1.         *)
(***************************************************************************)
EXTENDS Naturals

CONSTANTS Key, Code, None, Limit

VARIABLES
    stored,    \* the code a key holds, or None
    pending,   \* requests it has admitted that may still be granted
    uses       \* requests it has been granted to

vars == <<stored, pending, uses>>

Init ==
    /\ stored = [k \in Key |-> None]
    /\ pending = [k \in Key |-> 0]
    /\ uses = [k \in Key |-> 0]

(* A new code starts afresh: what its predecessor admitted is not its doing. *)
Issue(k) ==
    /\ \E c \in Code : stored' = [stored EXCEPT ![k] = c]
    /\ pending' = [pending EXCEPT ![k] = 0]
    /\ uses' = [uses EXCEPT ![k] = 0]

Admit(k) ==
    /\ stored[k] # None
    /\ pending[k] + uses[k] < Limit
    /\ pending' = [pending EXCEPT ![k] = @ + 1]
    /\ UNCHANGED <<stored, uses>>

Use(k) ==
    /\ pending[k] > 0
    /\ pending' = [pending EXCEPT ![k] = @ - 1]
    /\ uses' = [uses EXCEPT ![k] = @ + 1]
    /\ UNCHANGED stored

(* Admitted requests come to nothing. *)
Drop ==
    /\ UNCHANGED <<stored, uses>>
    /\ pending' \in [Key -> Nat]
    /\ \A k \in Key : pending'[k] <= pending[k]

(* Codes are deleted or expire. *)
Withdraw ==
    /\ UNCHANGED <<pending, uses>>
    /\ stored' \in [Key -> Code \cup {None}]
    /\ \A k \in Key : stored'[k] \in {stored[k], None}

Next == Drop \/ Withdraw \/ \E k \in Key : Issue(k) \/ Admit(k) \/ Use(k)

Spec == Init /\ [][Next]_vars

==============================================================================
