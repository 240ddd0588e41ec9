-------------------------- MODULE OneTimeCodeProofs --------------------------
(* What OneTimeCode allows, for any keys, codes and limit.                   *)
EXTENDS OneTimeCode, TLAPS

TypeOK ==
    /\ pending \in [Key -> Nat]
    /\ uses \in [Key -> Nat]
    /\ DOMAIN stored = Key

(* Requests admitted and not answered count as uses already: the bound on    *)
(* uses alone is not inductive.                                              *)
Limited == \A k \in Key : pending[k] + uses[k] <= Limit

(* Until it is issued again, a code is used at most Limit times, whatever is *)
(* admitted, granted, dropped or withdrawn in between.                       *)
THEOREM AtMostLimit ==
    ASSUME Limit \in Nat PROVE Spec => [](TypeOK /\ Limited)
<1>1. Init => TypeOK /\ Limited
  BY DEF Init, TypeOK, Limited
<1>2. TypeOK /\ Limited /\ [Next]_vars => TypeOK' /\ Limited'
  <2> SUFFICES ASSUME TypeOK, Limited, [Next]_vars PROVE TypeOK' /\ Limited'
    OBVIOUS
  <2> USE DEF TypeOK, Limited
  <2>1. ASSUME NEW k \in Key, Issue(k) PROVE TypeOK' /\ Limited'
    BY <2>1 DEF Issue
  <2>2. ASSUME NEW k \in Key, Admit(k) PROVE TypeOK' /\ Limited'
    BY <2>2 DEF Admit
  <2>3. ASSUME NEW k \in Key, Use(k) PROVE TypeOK' /\ Limited'
    BY <2>3 DEF Use
  <2>4. CASE Drop
    BY <2>4 DEF Drop
  <2>5. CASE Withdraw
    BY <2>5 DEF Withdraw
  <2>6. CASE UNCHANGED vars
    BY <2>6 DEF vars
  <2> QED
    BY <2>1, <2>2, <2>3, <2>4, <2>5, <2>6 DEF Next
<1> QED
  BY <1>1, <1>2, PTL DEF Spec

==============================================================================
