----------------------------- MODULE MCCodeUse -------------------------------
(* Instances of CodeUse for TLC. *)
EXTENDS CodeUse, TLC

CONSTANTS e1, p1, p2, pwA

(* Nobody is registered; or one user is, whose account is disabled. *)
NoUsers == {<<>>}
NobodyOrDisabled ==
    NoUsers \cup {<<[email |-> e1, phone |-> p, pw |-> pwA, disabled |-> TRUE]>> : p \in Phone}

(* NoPhone is a telephone like any other but for NewcomersNeedNoPhone. *)
Symmetry == Permutations(Handler) \cup Permutations(Phone)

==============================================================================
