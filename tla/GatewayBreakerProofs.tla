------------------------ MODULE GatewayBreakerProofs -------------------------
(***************************************************************************)
(* Proofs about GatewayBreaker: what its slots are spent on, and what      *)
(* entering the breaker twice per call does to its opening and closing.    *)
(***************************************************************************)
EXTENDS GatewayBreaker, FiniteSetTheorems, TLAPS

Level == {"outer", "inner"}

(* The invariant is about a breaker b, the entries F of its generation, the  *)
(* calls' stages p and outcomes o, and the history f (failed) and s          *)
(* (straddle), so that it can be said of the breaker as it is and as it is   *)
(* once an expiry has been noticed.                                          *)

Types(b, F) ==
    /\ b \in Breaker
    /\ b.successes < MaxRequests
    /\ F \subseteq Caller \X Level

(* What the counts of a generation are made of. *)
Counted(b, F) ==
    /\ b.state = "half-open" =>
        /\ b.requests = b.successes + Cardinality(F)
        /\ b.requests <= MaxRequests
        /\ b.left = 0 /\ b.failures = 0
    /\ b.state = "open" => F = {} /\ b.requests = 0 /\ b.left <= Timeout
    /\ b.state = "closed" =>
        b.failures + Cardinality(F) <= b.requests /\ b.left <= Interval

(* Where the calls that hold an entry are. *)
Staged(F, p) ==
    \A c \in Caller :
        /\ <<c, "outer">> \in F => p[c] \in {"inner", "rpc", "leave"}
        /\ <<c, "inner">> \in F => p[c] = "rpc"
        /\ <<c, "outer">> \in F /\ p[c] = "rpc" => <<c, "inner">> \in F

(* Without a straddler, whoever holds an inner entry holds an outer one.     *)
Paired(b, F, s) ==
    b.state = "half-open" /\ ~s =>
        \A c \in Caller : <<c, "inner">> \in F => <<c, "outer">> \in F

(* Calls whose RPC is over and whose outer entry is still to be settled. *)
WaitingWell(F, p, o) ==
    {c \in Caller : p[c] = "leave" /\ <<c, "outer">> \in F /\ o[c] = TRUE}
WaitingBadly(F, p, o) ==
    {c \in Caller : p[c] = "leave" /\ <<c, "outer">> \in F /\ o[c] = FALSE}

(* Without a straddler, successes come in pairs, but for the waiting calls.  *)
Even(b, F, p, o, s) ==
    b.state = "half-open" /\ ~s =>
        \E k \in Nat : b.successes = 2 * k + Cardinality(WaitingWell(F, p, o))

(* A failed call has been counted twice, or once and is waiting. *)
Twice(b, F, p, o, f) ==
    b.state = "closed" =>
        b.failures + Cardinality(WaitingBadly(F, p, o)) <= 2 * f

Inv(b, F, p, o, f, s) ==
    /\ Types(b, F) /\ Counted(b, F) /\ Staged(F, p)
    /\ Paired(b, F, s) /\ Even(b, F, p, o, s) /\ Twice(b, F, p, o, f)

IInv == TypeOK /\ Inv(cb, fresh, pc, ok, failed, straddle)

------------------------------------------------------------------------------
LEMMA Finite ==
    /\ \A F \in SUBSET (Caller \X Level) : IsFiniteSet(F) /\ Cardinality(F) \in Nat
    /\ \A S \in SUBSET Caller : IsFiniteSet(S) /\ Cardinality(S) \in Nat
<1>1. IsFiniteSet(Level)
  <2>1. IsFiniteSet({"outer"})
    BY FS_Singleton
  <2>2. Level = {"outer"} \cup {"inner"}
    BY DEF Level
  <2> QED
    BY <2>1, <2>2, FS_AddElement
<1>2. IsFiniteSet(Caller \X Level)
  BY <1>1, FS_Product, BreakerAssumption
<1> QED
  BY <1>2, FS_Subset, FS_CardinalityType, BreakerAssumption

LEMMA Adding ==
  ASSUME NEW S, IsFiniteSet(S), NEW x
  PROVE  Cardinality(S \cup {x}) = IF x \in S THEN Cardinality(S) ELSE Cardinality(S) + 1
BY FS_AddElement

LEMMA Removing ==
  ASSUME NEW S, IsFiniteSet(S), NEW x
  PROVE  Cardinality(S \ {x}) = IF x \in S THEN Cardinality(S) - 1 ELSE Cardinality(S)
BY FS_RemoveElement

(* A generation that begins satisfies the invariant, wherever the calls are. *)
LEMMA Beginning ==
  ASSUME NEW st \in {"closed", "open", "half-open"},
         NEW p, NEW o, NEW f \in Nat, NEW s
  PROVE  Inv(NewGeneration(st), {}, p, o, f, s)
<1>1. Cardinality({}) = 0
  BY FS_EmptySet
<1>2. WaitingWell({}, p, o) = {} /\ WaitingBadly({}, p, o) = {}
  BY DEF WaitingWell, WaitingBadly
<1>3. NewGeneration(st) \in Breaker
  BY BreakerAssumption DEF NewGeneration, Breaker
<1>4. /\ NewGeneration(st).state = st
      /\ NewGeneration(st).requests = 0
      /\ NewGeneration(st).failures = 0
      /\ NewGeneration(st).successes = 0
      /\ NewGeneration(st).left = CASE st = "closed" -> Interval
                                    [] st = "open" -> Timeout
                                    [] st = "half-open" -> 0
  BY DEF NewGeneration
<1>5. Types(NewGeneration(st), {}) /\ Counted(NewGeneration(st), {})
  BY <1>1, <1>3, <1>4, BreakerAssumption DEF Types, Counted
<1>6. Even(NewGeneration(st), {}, p, o, s)
  <2>1. Cardinality(WaitingWell({}, p, o)) = 0
    BY <1>1, <1>2, Zenon
  <2>2. 0 \in Nat /\ 0 = 2 * 0 + Cardinality(WaitingWell({}, p, o))
    BY <2>1
  <2> QED
    BY <2>2, <1>4 DEF Even
<1>7. Twice(NewGeneration(st), {}, p, o, f)
  <2>1. Cardinality(WaitingBadly({}, p, o)) = 0
    BY <1>1, <1>2, Zenon
  <2> QED
    BY <2>1, <1>4 DEF Twice
<1> QED
  BY <1>5, <1>6, <1>7 DEF Inv, Staged, Paired

(* Noticing an expiry preserves it. *)
LEMMA Noticing ==
  ASSUME IInv
  PROVE  Inv(Current, CurrentFresh, pc, ok,
             IF Expired THEN 0 ELSE failed, straddle /\ ~Expired)
<1>1. CASE Expired
  BY <1>1, Beginning DEF Current, CurrentFresh
<1>2. CASE ~Expired
  <2>1. (straddle /\ ~Expired) = straddle
    BY <1>2 DEF IInv, TypeOK
  <2> QED
    BY <1>2, <2>1 DEF Current, CurrentFresh, IInv
<1> QED
  BY <1>1, <1>2

------------------------------------------------------------------------------
Stages == {"idle", "inner", "rpc", "leave"}

(* ExecuteWithBreaker counts an entry: one slot more, held by the caller.    *)
LEMMA EnteringOuter ==
  ASSUME NEW b, NEW F, NEW p \in [Caller -> Stages], NEW o, NEW f \in Nat,
         NEW s, NEW c \in Caller,
         Inv(b, F, p, o, f, s), Admits(b), p[c] = "idle"
  PROVE  Inv([b EXCEPT !.requests = @ + 1], F \cup {<<c, "outer">>},
             [p EXCEPT ![c] = "inner"], o, f, s)
<1> DEFINE B == [b EXCEPT !.requests = @ + 1]
           G == F \cup {<<c, "outer">>}
           q == [p EXCEPT ![c] = "inner"]
<1>1. F \in SUBSET (Caller \X Level) /\ b \in Breaker /\ b.successes < MaxRequests
  BY DEF Inv, Types
<1>2. Types(B, G)
  BY <1>1 DEF Types, Breaker, Level
<1>3. <<c, "outer">> \notin F
  BY DEF Inv, Staged
<1>4. Cardinality(G) = Cardinality(F) + 1 /\ Cardinality(F) \in Nat
  BY <1>1, <1>3, Finite, Adding
<1>5. /\ B.state = b.state /\ B.requests = b.requests + 1
      /\ B.failures = b.failures /\ B.successes = b.successes /\ B.left = b.left
      /\ b.requests \in Nat /\ b.failures \in Nat /\ b.successes \in Nat
  BY <1>1 DEF Breaker
<1>6. Counted(B, G)
  <2> HIDE DEF B, G
  <2>1. Counted(b, F)
    BY DEF Inv
  <2>2. CASE b.state = "closed"
    BY <2>1, <2>2, <1>4, <1>5 DEF Counted
  <2>3. CASE b.state = "half-open"
    <3>1. b.requests < MaxRequests
      BY <2>3 DEF Admits
    <3> QED
      BY <2>1, <2>3, <3>1, <1>4, <1>5, BreakerAssumption DEF Counted
  <2> QED
    BY <2>2, <2>3 DEF Admits
<1>7. Staged(G, q)
  BY <1>1 DEF Inv, Staged, Stages
<1>8. WaitingWell(G, q, o) = WaitingWell(F, p, o)
      /\ WaitingBadly(G, q, o) = WaitingBadly(F, p, o)
  BY <1>1 DEF WaitingWell, WaitingBadly
<1>9. Paired(B, G, s)
  BY <1>5 DEF Inv, Paired
<1>10. Even(B, G, q, o, s) /\ Twice(B, G, q, o, f)
  BY <1>5, <1>8 DEF Inv, Even, Twice
<1> QED
  BY <1>2, <1>6, <1>7, <1>9, <1>10 DEF Inv

(* The interceptor counts an entry: a straddler unless the call's outer      *)
(* entry is of the same generation.                                          *)
LEMMA EnteringInner ==
  ASSUME NEW b, NEW F, NEW p \in [Caller -> Stages], NEW o, NEW f \in Nat,
         NEW s, NEW c \in Caller,
         Inv(b, F, p, o, f, s), Admits(b), p[c] = "inner"
  PROVE  Inv([b EXCEPT !.requests = @ + 1], F \cup {<<c, "inner">>},
             [p EXCEPT ![c] = "rpc"], o, f, s \/ <<c, "outer">> \notin F)
<1> DEFINE B == [b EXCEPT !.requests = @ + 1]
           G == F \cup {<<c, "inner">>}
           q == [p EXCEPT ![c] = "rpc"]
<1>1. F \in SUBSET (Caller \X Level) /\ b \in Breaker /\ b.successes < MaxRequests
  BY DEF Inv, Types
<1>2. Types(B, G)
  BY <1>1 DEF Types, Breaker, Level
<1>3. <<c, "inner">> \notin F
  BY DEF Inv, Staged
<1>4. Cardinality(G) = Cardinality(F) + 1 /\ Cardinality(F) \in Nat
  BY <1>1, <1>3, Finite, Adding
<1>5. /\ B.state = b.state /\ B.requests = b.requests + 1
      /\ B.failures = b.failures /\ B.successes = b.successes /\ B.left = b.left
      /\ b.requests \in Nat /\ b.failures \in Nat /\ b.successes \in Nat
  BY <1>1 DEF Breaker
<1>6. Counted(B, G)
  <2> HIDE DEF B, G
  <2>1. Counted(b, F)
    BY DEF Inv
  <2>2. CASE b.state = "closed"
    BY <2>1, <2>2, <1>4, <1>5 DEF Counted
  <2>3. CASE b.state = "half-open"
    <3>1. b.requests < MaxRequests
      BY <2>3 DEF Admits
    <3> QED
      BY <2>1, <2>3, <3>1, <1>4, <1>5, BreakerAssumption DEF Counted
  <2> QED
    BY <2>2, <2>3 DEF Admits
<1>7. Staged(G, q)
  BY <1>1 DEF Inv, Staged, Stages
<1>8. WaitingWell(G, q, o) = WaitingWell(F, p, o)
      /\ WaitingBadly(G, q, o) = WaitingBadly(F, p, o)
  BY <1>1 DEF WaitingWell, WaitingBadly
<1>9. Paired(B, G, s \/ <<c, "outer">> \notin F)
  BY <1>5 DEF Inv, Paired
<1>10. Even(B, G, q, o, s \/ <<c, "outer">> \notin F) /\ Twice(B, G, q, o, f)
  BY <1>5, <1>8 DEF Inv, Even, Twice
<1> QED
  BY <1>2, <1>6, <1>7, <1>9, <1>10 DEF Inv

(* The interceptor refuses a call, which therefore fails. *)
LEMMA RefusingInner ==
  ASSUME NEW b, NEW F, NEW p \in [Caller -> Stages], NEW o \in [Caller -> BOOLEAN],
         NEW f \in Nat, NEW s, NEW c \in Caller,
         Inv(b, F, p, o, f, s), ~Admits(b), p[c] = "inner"
  PROVE  Inv(b, F, [p EXCEPT ![c] = "leave"], [o EXCEPT ![c] = FALSE], f, s)
<1> DEFINE q == [p EXCEPT ![c] = "leave"]
           r == [o EXCEPT ![c] = FALSE]
<1>1. b.state # "closed"
  BY DEF Admits
<1>2. WaitingWell(F, q, r) = WaitingWell(F, p, o)
  BY DEF WaitingWell
<1>3. Staged(F, q)
  BY DEF Inv, Staged, Stages
<1>4. Even(b, F, q, r, s)
  BY <1>2 DEF Inv, Even
<1>5. Twice(b, F, q, r, f)
  BY <1>1 DEF Twice
<1> QED
  BY <1>3, <1>4, <1>5 DEF Inv

------------------------------------------------------------------------------
(* An RPC of an earlier generation ends: nothing is counted, and its call    *)
(* has no outer entry either.                                                *)
LEMMA LateInner ==
  ASSUME NEW b, NEW F, NEW p \in [Caller -> Stages], NEW o \in [Caller -> BOOLEAN],
         NEW f \in Nat, NEW s, NEW c \in Caller, NEW good \in BOOLEAN,
         Inv(b, F, p, o, f, s), p[c] = "rpc", <<c, "inner">> \notin F
  PROVE  Inv(b, F, [p EXCEPT ![c] = "leave"], [o EXCEPT ![c] = good], f, s)
<1> DEFINE q == [p EXCEPT ![c] = "leave"]
           r == [o EXCEPT ![c] = good]
<1>1. <<c, "outer">> \notin F
  BY DEF Inv, Staged
<1>2. WaitingWell(F, q, r) = WaitingWell(F, p, o)
      /\ WaitingBadly(F, q, r) = WaitingBadly(F, p, o)
  BY <1>1 DEF WaitingWell, WaitingBadly
<1>3. Staged(F, q)
  BY <1>1 DEF Inv, Staged, Stages
<1>4. Even(b, F, q, r, s) /\ Twice(b, F, q, r, f)
  BY <1>2 DEF Inv, Even, Twice
<1> QED
  BY <1>3, <1>4 DEF Inv

(* Likewise for the outer entry. *)
LEMMA LateOuter ==
  ASSUME NEW b, NEW F, NEW p \in [Caller -> Stages], NEW o \in [Caller -> BOOLEAN],
         NEW f \in Nat, NEW s, NEW c \in Caller,
         Inv(b, F, p, o, f, s), p[c] = "leave", <<c, "outer">> \notin F
  PROVE  Inv(b, F, [p EXCEPT ![c] = "idle"], [o EXCEPT ![c] = TRUE], f, s)
<1> DEFINE q == [p EXCEPT ![c] = "idle"]
           r == [o EXCEPT ![c] = TRUE]
<1>2. WaitingWell(F, q, r) = WaitingWell(F, p, o)
      /\ WaitingBadly(F, q, r) = WaitingBadly(F, p, o)
  BY DEF WaitingWell, WaitingBadly
<1>3. Staged(F, q)
  BY DEF Inv, Staged, Stages
<1>4. Even(b, F, q, r, s) /\ Twice(b, F, q, r, f)
  BY <1>2 DEF Inv, Even, Twice
<1> QED
  BY <1>3, <1>4 DEF Inv

(* Giving an entry back keeps the counts right if the breaker B has counted  *)
(* it as a success or a failure and is in the state it was in.               *)
LEMMA GivingBack ==
  ASSUME NEW b \in Breaker, NEW B \in Breaker, NEW F \in SUBSET (Caller \X Level),
         NEW e \in F, Counted(b, F), b.state # "open",
         B.state = b.state, B.requests = b.requests, B.left = b.left,
         b.state = "half-open" => B.successes = b.successes + 1
                                  /\ B.failures = b.failures,
         b.state = "closed" => B.failures \in {b.failures, b.failures + 1}
  PROVE  Counted(B, F \ {e})
<1>1. Cardinality(F \ {e}) = Cardinality(F) - 1 /\ Cardinality(F) \in Nat
  BY Finite, Removing
<1>2. b.failures \in Nat /\ b.successes \in Nat /\ b.requests \in Nat
  BY DEF Breaker
<1>3. CASE b.state = "half-open"
  BY <1>1, <1>2, <1>3 DEF Counted
<1>4. CASE b.state = "closed"
  BY <1>1, <1>2, <1>4 DEF Counted
<1> QED
  BY <1>3, <1>4 DEF Breaker

(* An RPC goes well and the breaker stays as it is. *)
LEMMA GoodInner ==
  ASSUME NEW b, NEW F, NEW p \in [Caller -> Stages], NEW o \in [Caller -> BOOLEAN],
         NEW f \in Nat, NEW s, NEW c \in Caller,
         Inv(b, F, p, o, f, s), p[c] = "rpc", <<c, "inner">> \in F,
         b.state = "half-open" => b.successes + 1 < MaxRequests
  PROVE  Inv(Succeeded(b), F \ {<<c, "inner">>},
             [p EXCEPT ![c] = "leave"], [o EXCEPT ![c] = TRUE], f, s)
<1> DEFINE B == Succeeded(b)
           G == F \ {<<c, "inner">>}
           q == [p EXCEPT ![c] = "leave"]
           r == [o EXCEPT ![c] = TRUE]
<1>1. F \in SUBSET (Caller \X Level) /\ b \in Breaker /\ b.successes < MaxRequests
  BY DEF Inv, Types
<1>2. b.state # "open"
  BY DEF Inv, Counted
<1>3. /\ B \in Breaker
      /\ B.state = b.state /\ B.requests = b.requests /\ B.left = b.left
      /\ B.failures = b.failures
      /\ b.state = "half-open" => B.successes = b.successes + 1
      /\ b.state # "half-open" => B.successes = b.successes
  BY <1>1, BreakerAssumption DEF Breaker, Succeeded
<1> HIDE DEF B
<1>4. Types(B, G)
  BY <1>1, <1>3, BreakerAssumption DEF Types, Breaker
<1>5. Counted(B, G)
  BY <1>1, <1>2, <1>3, GivingBack DEF Inv
<1>6. Staged(G, q)
  BY <1>1 DEF Inv, Staged, Stages
<1>7. Paired(B, G, s)
  BY <1>3 DEF Inv, Paired
<1>8. WaitingBadly(G, q, r) = WaitingBadly(F, p, o)
  BY <1>1 DEF WaitingBadly
<1>9. Even(B, G, q, r, s)
  <2> SUFFICES ASSUME b.state = "half-open", ~s
               PROVE  \E k \in Nat : B.successes = 2 * k + Cardinality(WaitingWell(G, q, r))
    BY <1>3 DEF Even
  <2>1. <<c, "outer">> \in F
    BY DEF Inv, Paired
  <2>2. WaitingWell(G, q, r) = WaitingWell(F, p, o) \cup {c} /\ c \notin WaitingWell(F, p, o)
    BY <2>1 DEF WaitingWell
  <2>3. WaitingWell(F, p, o) \in SUBSET Caller
    BY DEF WaitingWell
  <2>4. Cardinality(WaitingWell(G, q, r)) = Cardinality(WaitingWell(F, p, o)) + 1
        /\ Cardinality(WaitingWell(F, p, o)) \in Nat
    BY <2>2, <2>3, Finite, Adding
  <2>5. PICK k \in Nat : b.successes = 2 * k + Cardinality(WaitingWell(F, p, o))
    BY DEF Inv, Even
  <2> QED
    BY <1>3, <2>4, <2>5
<1>10. Twice(B, G, q, r, f)
  BY <1>3, <1>8 DEF Inv, Twice
<1> QED
  BY <1>4, <1>5, <1>6, <1>7, <1>9, <1>10 DEF Inv, B

(* A call goes well and the breaker stays as it is. *)
LEMMA GoodOuter ==
  ASSUME NEW b, NEW F, NEW p \in [Caller -> Stages], NEW o \in [Caller -> BOOLEAN],
         NEW f \in Nat, NEW s, NEW c \in Caller,
         Inv(b, F, p, o, f, s), p[c] = "leave", <<c, "outer">> \in F, o[c] = TRUE,
         b.state = "half-open" => b.successes + 1 < MaxRequests
  PROVE  Inv(Succeeded(b), F \ {<<c, "outer">>},
             [p EXCEPT ![c] = "idle"], [o EXCEPT ![c] = TRUE], f, s)
<1> DEFINE B == Succeeded(b)
           G == F \ {<<c, "outer">>}
           q == [p EXCEPT ![c] = "idle"]
           r == [o EXCEPT ![c] = TRUE]
<1>1. F \in SUBSET (Caller \X Level) /\ b \in Breaker /\ b.successes < MaxRequests
  BY DEF Inv, Types
<1>2. b.state # "open"
  BY DEF Inv, Counted
<1>3. /\ B \in Breaker
      /\ B.state = b.state /\ B.requests = b.requests /\ B.left = b.left
      /\ B.failures = b.failures
      /\ b.state = "half-open" => B.successes = b.successes + 1
      /\ b.state # "half-open" => B.successes = b.successes
  BY <1>1, BreakerAssumption DEF Breaker, Succeeded
<1> HIDE DEF B
<1>4. Types(B, G)
  BY <1>1, <1>3, BreakerAssumption DEF Types, Breaker
<1>5. Counted(B, G)
  BY <1>1, <1>2, <1>3, GivingBack DEF Inv
<1>6. Staged(G, q)
  BY <1>1 DEF Inv, Staged, Stages
<1>7. Paired(B, G, s)
  BY <1>3 DEF Inv, Paired, Staged
<1>8. WaitingBadly(G, q, r) = WaitingBadly(F, p, o)
  BY <1>1 DEF WaitingBadly
<1>9. Even(B, G, q, r, s)
  <2> SUFFICES ASSUME b.state = "half-open", ~s
               PROVE  \E k \in Nat : B.successes = 2 * k + Cardinality(WaitingWell(G, q, r))
    BY <1>3 DEF Even
  <2>2. WaitingWell(G, q, r) = WaitingWell(F, p, o) \ {c} /\ c \in WaitingWell(F, p, o)
    BY DEF WaitingWell
  <2>3. /\ IsFiniteSet(WaitingWell(F, p, o))
        /\ Cardinality(WaitingWell(F, p, o)) \in Nat
    BY Finite DEF WaitingWell
  <2>4. Cardinality(WaitingWell(G, q, r)) = Cardinality(WaitingWell(F, p, o)) - 1
    <3> HIDE DEF G, q, r
    <3> QED
      BY <2>2, <2>3, Removing
  <2>5. PICK k \in Nat : b.successes = 2 * k + Cardinality(WaitingWell(F, p, o))
    BY DEF Inv, Even
  <2>6. k + 1 \in Nat /\ B.successes = 2 * (k + 1) + Cardinality(WaitingWell(G, q, r))
    <3> HIDE DEF G, q, r
    <3>1. \A w, w1 \in Int : w1 = w - 1 => 2 * k + w + 1 = 2 * (k + 1) + w1
      OBVIOUS
    <3> QED
      BY <1>3, <2>3, <2>4, <2>5, <3>1
  <2> QED
    BY <2>6
<1>10. Twice(B, G, q, r, f)
  BY <1>3, <1>8 DEF Inv, Twice
<1> QED
  BY <1>4, <1>5, <1>6, <1>7, <1>9, <1>10 DEF Inv, B

(* A failure that leaves a breaker closed is one more failure of its         *)
(* generation.                                                               *)
LEMMA FailingClosed ==
  ASSUME NEW b \in Breaker, Failed(b).state = "closed"
  PROVE  /\ b.state = "closed" /\ Failed(b) \in Breaker
         /\ Failed(b) = [b EXCEPT !.failures = @ + 1]
         /\ Failed(b).state = b.state /\ Failed(b).requests = b.requests
         /\ Failed(b).left = b.left
         /\ Failed(b).failures = b.failures + 1 /\ Failed(b).successes = b.successes
<1> DEFINE g == [b EXCEPT !.failures = @ + 1]
<1>1. g \in Breaker /\ g.state = b.state /\ g.requests = b.requests /\ g.left = b.left
      /\ g.failures = b.failures + 1 /\ g.successes = b.successes
  BY DEF Breaker
<1>2. Failed(b) = IF b.state = "half-open" \/ Trips(g) THEN NewGeneration("open") ELSE g
  BY DEF Failed
<1>3. NewGeneration("open").state = "open"
  BY DEF NewGeneration
<1>4. Failed(b) = g /\ b.state # "half-open"
  BY <1>2, <1>3
<1>5. b.state = "closed"
  BY <1>1, <1>4
<1> QED
  BY <1>1, <1>4, <1>5

(* An RPC fails, is counted, and the breaker stays closed.                   *)
LEMMA BadInner ==
  ASSUME NEW b, NEW F, NEW p \in [Caller -> Stages], NEW o \in [Caller -> BOOLEAN],
         NEW f \in Nat, NEW s, NEW c \in Caller,
         Inv(b, F, p, o, f, s), p[c] = "rpc", <<c, "inner">> \in F,
         Failed(b).state = "closed"
  PROVE  Inv(Failed(b), F \ {<<c, "inner">>},
             [p EXCEPT ![c] = "leave"], [o EXCEPT ![c] = FALSE], f + 1, s)
<1> DEFINE B == Failed(b)
           G == F \ {<<c, "inner">>}
           q == [p EXCEPT ![c] = "leave"]
           r == [o EXCEPT ![c] = FALSE]
<1>1. F \in SUBSET (Caller \X Level) /\ b \in Breaker /\ b.successes < MaxRequests
  BY DEF Inv, Types
<1>2. /\ b.state = "closed" /\ B \in Breaker
      /\ B.state = b.state /\ B.requests = b.requests /\ B.left = b.left
      /\ B.failures = b.failures + 1 /\ B.successes = b.successes
  BY <1>1, FailingClosed
<1> HIDE DEF B
<1>3. Types(B, G)
  BY <1>1, <1>2 DEF Types
<1>4. Counted(B, G)
  BY <1>1, <1>2, GivingBack DEF Inv
<1>5. Staged(G, q)
  BY <1>1 DEF Inv, Staged, Stages
<1>6. Paired(B, G, s) /\ Even(B, G, q, r, s)
  BY <1>2 DEF Paired, Even
<1>7. Twice(B, G, q, r, f + 1)
  <2>1. WaitingBadly(G, q, r) \subseteq WaitingBadly(F, p, o) \cup {c}
    BY <1>1 DEF WaitingBadly
  <2>2. /\ IsFiniteSet(WaitingBadly(F, p, o))
        /\ Cardinality(WaitingBadly(F, p, o)) \in Nat
        /\ Cardinality(WaitingBadly(G, q, r)) \in Nat
    BY Finite DEF WaitingBadly
  <2>3. Cardinality(WaitingBadly(G, q, r)) <= Cardinality(WaitingBadly(F, p, o)) + 1
    <3> HIDE DEF G, q, r
    <3>1. /\ IsFiniteSet(WaitingBadly(F, p, o) \cup {c})
          /\ Cardinality(WaitingBadly(F, p, o) \cup {c}) <= Cardinality(WaitingBadly(F, p, o)) + 1
      <4>1. IsFiniteSet(WaitingBadly(F, p, o) \cup {c})
        BY <2>2, FS_AddElement
      <4> QED
        BY <2>2, <4>1, Adding
    <3>2. Cardinality(WaitingBadly(G, q, r)) <= Cardinality(WaitingBadly(F, p, o) \cup {c})
      BY <2>1, <3>1, FS_Subset
    <3>3. Cardinality(WaitingBadly(F, p, o) \cup {c}) \in Nat
      BY <3>1, FS_CardinalityType
    <3> QED
      BY <2>2, <3>1, <3>2, <3>3
  <2>4. b.failures + Cardinality(WaitingBadly(F, p, o)) <= 2 * f /\ b.failures \in Nat
    BY <1>1, <1>2 DEF Inv, Twice, Breaker
  <2> HIDE DEF G, q, r
  <2>5. B.failures + Cardinality(WaitingBadly(G, q, r)) <= 2 * (f + 1)
    BY <1>2, <2>2, <2>3, <2>4
  <2> QED
    BY <2>5 DEF Twice
<1> QED
  BY <1>3, <1>4, <1>5, <1>6, <1>7 DEF Inv, B

(* A failed call is counted for the second time, and the breaker stays       *)
(* closed.                                                                   *)
LEMMA BadOuter ==
  ASSUME NEW b, NEW F, NEW p \in [Caller -> Stages], NEW o \in [Caller -> BOOLEAN],
         NEW f \in Nat, NEW s, NEW c \in Caller,
         Inv(b, F, p, o, f, s), p[c] = "leave", <<c, "outer">> \in F, o[c] = FALSE,
         Failed(b).state = "closed"
  PROVE  Inv(Failed(b), F \ {<<c, "outer">>},
             [p EXCEPT ![c] = "idle"], [o EXCEPT ![c] = TRUE], f, s)
<1> DEFINE B == Failed(b)
           G == F \ {<<c, "outer">>}
           q == [p EXCEPT ![c] = "idle"]
           r == [o EXCEPT ![c] = TRUE]
<1>1. F \in SUBSET (Caller \X Level) /\ b \in Breaker /\ b.successes < MaxRequests
  BY DEF Inv, Types
<1>2. /\ b.state = "closed" /\ B \in Breaker
      /\ B.state = b.state /\ B.requests = b.requests /\ B.left = b.left
      /\ B.failures = b.failures + 1 /\ B.successes = b.successes
  BY <1>1, FailingClosed
<1> HIDE DEF B
<1>3. Types(B, G)
  BY <1>1, <1>2 DEF Types
<1>4. Counted(B, G)
  BY <1>1, <1>2, GivingBack DEF Inv
<1>5. Staged(G, q)
  BY <1>1 DEF Inv, Staged, Stages
<1>6. Paired(B, G, s) /\ Even(B, G, q, r, s)
  BY <1>2 DEF Paired, Even
<1>7. Twice(B, G, q, r, f)
  <2>1. WaitingBadly(G, q, r) = WaitingBadly(F, p, o) \ {c} /\ c \in WaitingBadly(F, p, o)
    BY DEF WaitingBadly
  <2>2. /\ IsFiniteSet(WaitingBadly(F, p, o))
        /\ Cardinality(WaitingBadly(F, p, o)) \in Nat
    BY Finite DEF WaitingBadly
  <2> HIDE DEF G, q, r
  <2>3. Cardinality(WaitingBadly(G, q, r)) = Cardinality(WaitingBadly(F, p, o)) - 1
    BY <2>1, <2>2, Removing
  <2>4. b.failures + Cardinality(WaitingBadly(F, p, o)) <= 2 * f /\ b.failures \in Nat
    BY <1>1, <1>2 DEF Inv, Twice, Breaker
  <2>5. B.failures + Cardinality(WaitingBadly(G, q, r)) <= 2 * f
    BY <1>2, <2>2, <2>3, <2>4
  <2> QED
    BY <2>5 DEF Twice
<1> QED
  BY <1>3, <1>4, <1>5, <1>6, <1>7 DEF Inv, B

------------------------------------------------------------------------------
(* What the type invariant says of the breaker follows from the rest. *)
LEMMA Typed ==
  ASSUME NEW b, NEW F, NEW p, NEW o, NEW f, NEW s, Inv(b, F, p, o, f, s)
  PROVE  /\ b \in Breaker
         /\ b.state = "half-open" => b.left = 0 /\ b.failures = 0
         /\ b.state = "open" => b.requests = 0 /\ b.left <= Timeout
         /\ b.state = "closed" => b.failures <= b.requests /\ b.left <= Interval
         /\ b.successes < MaxRequests
         /\ F \subseteq Caller \X {"outer", "inner"}
<1>1. b \in Breaker /\ b.successes < MaxRequests /\ F \in SUBSET (Caller \X Level)
  BY DEF Inv, Types
<1>2. Cardinality(F) \in Nat
  BY <1>1, Finite
<1>3. b.state = "closed" => b.failures <= b.requests
  BY <1>1, <1>2 DEF Inv, Counted, Breaker
<1> QED
  BY <1>1, <1>3 DEF Inv, Counted, Level

(* The five ways in which an entry is settled: an answer of an earlier       *)
(* generation; a success; a failure; the success that closes the breaker;    *)
(* the failure that opens it.                                                *)
SettlesLate(c, level) ==
    /\ <<c, level>> \notin CurrentFresh
    /\ cb' = Current /\ fresh' = CurrentFresh
    /\ failed' = IF Expired THEN 0 ELSE failed
    /\ straddle' = (straddle /\ ~Expired)
SettlesWell(c, level) ==
    /\ <<c, level>> \in fresh
    /\ cb' = Succeeded(cb) /\ fresh' = fresh \ {<<c, level>>}
    /\ cb.state = "half-open" => cb.successes + 1 < MaxRequests
    /\ cb'.state = cb.state
    /\ failed' = failed /\ straddle' = straddle
SettlesBadly(c, level) ==
    /\ <<c, level>> \in fresh
    /\ cb' = Failed(cb) /\ cb'.state = "closed" /\ cb.state = "closed"
    /\ fresh' = fresh \ {<<c, level>>}
    /\ failed' = failed + IF level = "inner" THEN 1 ELSE 0
    /\ straddle' = straddle
SettlesClosing(c, level) ==
    /\ <<c, level>> \in fresh
    /\ cb.state = "half-open" /\ cb.successes + 1 >= MaxRequests
    /\ cb' = NewGeneration("closed") /\ fresh' = {}
    /\ failed' = 0 /\ straddle' = FALSE
SettlesOpening(c, level) ==
    /\ <<c, level>> \in fresh
    /\ cb' = NewGeneration("open") /\ fresh' = {}
    /\ cb.state # "half-open" =>
           cb.state = "closed" /\ Trips([cb EXCEPT !.failures = @ + 1])
    /\ failed' = failed + IF level = "inner" THEN 1 ELSE 0
    /\ straddle' = FALSE

LEMMA Settling ==
  ASSUME IInv, NEW c \in Caller, NEW level \in Level, NEW good \in BOOLEAN,
         Settle(c, level, good)
  PROVE  \/ SettlesLate(c, level)
         \/ good /\ (SettlesWell(c, level) \/ SettlesClosing(c, level))
         \/ ~good /\ (SettlesBadly(c, level) \/ SettlesOpening(c, level))
<1>1. CASE <<c, level>> \notin CurrentFresh
  <2>1. cb' = Current /\ CurrentFresh \ {<<c, level>>} = CurrentFresh
    BY <1>1 DEF Settle
  <2>2. ~Closes(Current, Current)
    BY DEF Closes
  <2>3. failed \in Nat /\ failed + 0 = failed
    BY DEF IInv, TypeOK
  <2> QED
    BY <1>1, <2>1, <2>2, <2>3 DEF Settle, SettlesLate
<1>2. CASE <<c, level>> \in CurrentFresh
  <2>1. ~Expired /\ Current = cb /\ CurrentFresh = fresh /\ <<c, level>> \in fresh
    BY <1>2 DEF CurrentFresh, Current
  <2>2. /\ cb \in Breaker /\ cb.state # "open" /\ failed \in Nat /\ failed + 0 = failed
        /\ straddle \in BOOLEAN
    BY <2>1 DEF IInv, TypeOK, Inv, Counted
  <2>3. /\ \A st : NewGeneration(st).state = st
        /\ Succeeded(cb).state = cb.state \/ Succeeded(cb) = NewGeneration("closed")
    BY <2>2, BreakerAssumption DEF NewGeneration, Succeeded, Breaker
  <2>4. CASE good
    <3>1. /\ cb' = Succeeded(cb)
          /\ fresh' = IF Succeeded(cb).state = cb.state THEN fresh \ {<<c, level>>} ELSE {}
          /\ failed' = IF Closes(cb, Succeeded(cb)) THEN 0 ELSE failed
          /\ straddle' = (straddle /\ Succeeded(cb).state = cb.state)
      BY <2>1, <2>2, <2>4, <1>2 DEF Settle
    <3>2. CASE cb.state = "half-open" /\ cb.successes + 1 >= MaxRequests
      <4>1. Succeeded(cb) = NewGeneration("closed")
        BY <3>2 DEF Succeeded
      <4>2. NewGeneration("closed").state = "closed"
        BY DEF NewGeneration
      <4>3. Closes(cb, Succeeded(cb)) /\ Succeeded(cb).state # cb.state
        BY <3>2, <4>1, <4>2 DEF Closes
      <4>4. failed' = 0 /\ straddle' = FALSE /\ fresh' = {}
        BY <3>1, <4>3
      <4>5. cb' = NewGeneration("closed")
        BY <3>1, <4>1
      <4> QED
        BY <2>1, <2>4, <3>2, <4>4, <4>5 DEF SettlesClosing
    <3>3. CASE ~(cb.state = "half-open" /\ cb.successes + 1 >= MaxRequests)
      <4>1. cb.state = "half-open" => cb.successes + 1 < MaxRequests
        BY <3>3, <2>2, BreakerAssumption DEF Breaker
      <4>2. Succeeded(cb).state = cb.state
        BY <3>3, <2>2 DEF Succeeded, Breaker
      <4> QED
        BY <2>1, <2>2, <2>4, <3>1, <4>1, <4>2 DEF Closes, SettlesWell
    <3> QED
      BY <3>2, <3>3
  <2>5. CASE ~good
    <3> DEFINE g == [cb EXCEPT !.failures = @ + 1]
    <3>1. Failed(cb) = IF cb.state = "half-open" \/ Trips(g) THEN NewGeneration("open") ELSE g
      BY DEF Failed
    <3>2. g.state = cb.state
      BY <2>2 DEF Breaker
    <3>3. Failed(cb).state # "closed" => Failed(cb) = NewGeneration("open")
      BY <3>1, <3>2, <2>2 DEF Breaker
    <3>4. ~Closes(cb, Failed(cb))
      BY <3>1, <3>2, <2>3 DEF Closes
    <3>5. /\ cb' = Failed(cb)
          /\ fresh' = IF Failed(cb).state = cb.state THEN fresh \ {<<c, level>>} ELSE {}
          /\ failed' = failed + IF level = "inner" THEN 1 ELSE 0
          /\ straddle' = (straddle /\ Failed(cb).state = cb.state)
      BY <2>1, <2>2, <2>5, <1>2, <3>4 DEF Settle
    <3>6. CASE cb.state = "half-open" \/ Trips(g)
      <4>1. Failed(cb) = NewGeneration("open") /\ Failed(cb).state # cb.state
        BY <3>6, <3>1, <2>2, <2>3
      <4>2. cb.state # "half-open" => cb.state = "closed" /\ Trips(g)
        BY <3>6, <2>2 DEF Breaker
      <4> QED
        BY <2>1, <2>5, <3>5, <4>1, <4>2 DEF SettlesOpening
    <3>7. CASE ~(cb.state = "half-open" \/ Trips(g))
      <4>1. Failed(cb) = g /\ cb.state = "closed"
        BY <3>7, <3>1, <2>2 DEF Breaker
      <4> QED
        BY <2>1, <2>2, <2>5, <3>5, <3>2, <4>1 DEF SettlesBadly
    <3> QED
      BY <3>6, <3>7
  <2> QED
    BY <2>4, <2>5
<1> QED
  BY <1>1, <1>2

------------------------------------------------------------------------------
LEMMA Initially == Init => IInv
<1> SUFFICES ASSUME Init PROVE IInv
  OBVIOUS
<1>1. /\ cb = NewGeneration("closed") /\ fresh = {} /\ failed = 0 /\ streak = 0
      /\ straddle = FALSE /\ pc \in [Caller -> {"idle", "inner", "rpc", "leave"}]
      /\ ok \in [Caller -> BOOLEAN]
  BY DEF Init
<1>2. Inv(cb, fresh, pc, ok, failed, straddle)
  BY <1>1, Beginning
<1>3. /\ cb \in Breaker
      /\ cb.state = "half-open" => cb.left = 0 /\ cb.failures = 0
      /\ cb.state = "open" => cb.requests = 0 /\ cb.left <= Timeout
      /\ cb.state = "closed" => cb.failures <= cb.requests /\ cb.left <= Interval
      /\ cb.successes < MaxRequests
      /\ fresh \subseteq Caller \X {"outer", "inner"}
  BY <1>2, Typed
<1>4. streak \in 0..(TripRequests + 1) /\ failed \in Nat
  BY <1>1, BreakerAssumption
<1>5. TypeOK
  BY <1>1, <1>3, <1>4 DEF TypeOK
<1> QED
  BY <1>2, <1>5 DEF IInv

(* Every step preserves the invariant. *)
LEMMA Inductive == IInv /\ [Next]_vars => IInv'
<1> SUFFICES ASSUME IInv, [Next]_vars PROVE IInv'
  OBVIOUS
<1> DEFINE K == Current
           KF == CurrentFresh
           f1 == IF Expired THEN 0 ELSE failed
           s1 == straddle /\ ~Expired
<1>1. /\ pc \in [Caller -> Stages] /\ ok \in [Caller -> BOOLEAN]
      /\ failed \in Nat /\ streak \in 0..(TripRequests + 1) /\ straddle \in BOOLEAN
      /\ f1 \in Nat /\ s1 \in BOOLEAN
  BY DEF IInv, TypeOK, Stages
<1>2. Inv(K, KF, pc, ok, f1, s1)
  BY Noticing
<1>3. Inv(cb, fresh, pc, ok, failed, straddle)
  BY DEF IInv
(* It is enough to preserve Inv and the types of the calls' variables. *)
<1>4. ASSUME Inv(cb', fresh', pc', ok', failed', straddle'),
             pc' \in [Caller -> Stages], ok' \in [Caller -> BOOLEAN], failed' \in Nat,
             streak' \in 0..(TripRequests + 1), straddle' \in BOOLEAN
      PROVE  IInv'
  <2>1. /\ cb' \in Breaker
        /\ cb'.state = "half-open" => cb'.left = 0 /\ cb'.failures = 0
        /\ cb'.state = "open" => cb'.requests = 0 /\ cb'.left <= Timeout
        /\ cb'.state = "closed" => cb'.failures <= cb'.requests /\ cb'.left <= Interval
        /\ cb'.successes < MaxRequests
        /\ fresh' \subseteq Caller \X {"outer", "inner"}
    BY <1>4, Typed
  <2>2. TypeOK'
    BY <1>4, <2>1 DEF TypeOK, Stages
  <2> QED
    BY <1>4, <2>2 DEF IInv
<1> HIDE DEF K, KF, f1, s1
<1>5. CASE Tick
  <2>1. cb.left \in Nat /\ cb.left > 0 /\ cb \in Breaker
    BY <1>5 DEF Tick, IInv, TypeOK, Breaker
  <2>2. /\ cb' \in Breaker /\ cb'.state = cb.state /\ cb'.requests = cb.requests
        /\ cb'.failures = cb.failures /\ cb'.successes = cb.successes
        /\ cb'.left = cb.left - 1
    BY <1>5, <2>1 DEF Tick, Breaker
  <2>3. fresh' = fresh /\ pc' = pc /\ ok' = ok /\ failed' = failed /\ streak' = streak
        /\ straddle' = straddle
    BY <1>5 DEF Tick, history
  <2>4. Inv(cb', fresh, pc, ok, failed, straddle)
    <3>1. Types(cb', fresh) /\ Counted(cb', fresh)
      BY <1>3, <2>1, <2>2, BreakerAssumption DEF Inv, Types, Counted
    <3>2. /\ Paired(cb', fresh, straddle) /\ Even(cb', fresh, pc, ok, straddle)
          /\ Twice(cb', fresh, pc, ok, failed)
      BY <1>3, <2>2 DEF Inv, Paired, Even, Twice
    <3> QED
      BY <1>3, <3>1, <3>2 DEF Inv
  <2> QED
    BY <1>1, <1>4, <2>3, <2>4
<1>6. CASE vars' = vars
  <2>1. cb' = cb /\ fresh' = fresh /\ pc' = pc /\ ok' = ok /\ failed' = failed
        /\ streak' = streak /\ straddle' = straddle
    BY <1>6 DEF vars, history
  <2> QED
    BY <1>1, <1>3, <1>4, <2>1
<1>7. ASSUME NEW c \in Caller, EnterOuter(c) PROVE IInv'
  <2>1. /\ cb' = [K EXCEPT !.requests = @ + 1] /\ fresh' = KF \cup {<<c, "outer">>}
        /\ pc' = [pc EXCEPT ![c] = "inner"] /\ ok' = ok /\ streak' = streak
        /\ failed' = f1 /\ straddle' = s1 /\ Admits(K) /\ pc[c] = "idle"
    BY <1>7 DEF EnterOuter, Enter, K, KF, f1, s1
  <2>2. Inv([K EXCEPT !.requests = @ + 1], KF \cup {<<c, "outer">>},
            [pc EXCEPT ![c] = "inner"], ok, f1, s1)
    BY <1>1, <1>2, <2>1, EnteringOuter
  <2>3. pc' \in [Caller -> Stages]
    BY <1>1, <2>1 DEF Stages
  <2> QED
    BY <1>1, <1>4, <2>1, <2>2, <2>3
<1>8. ASSUME NEW c \in Caller, RefuseOuter(c) PROVE IInv'
  <2>1. /\ cb' = K /\ fresh' = KF /\ ok' = ok /\ streak' = streak
        /\ failed' = f1 /\ straddle' = s1
        /\ pc[c] = "idle" /\ pc' = [pc EXCEPT ![c] = "idle"]
    BY <1>8 DEF RefuseOuter, Refuse, K, KF, f1, s1
  <2>2. pc' = pc
    BY <1>1, <2>1
  <2> QED
    BY <1>1, <1>2, <1>4, <2>1, <2>2
<1>9. ASSUME NEW c \in Caller, EnterInner(c) PROVE IInv'
  <2>1. /\ cb' = [K EXCEPT !.requests = @ + 1] /\ fresh' = KF \cup {<<c, "inner">>}
        /\ pc' = [pc EXCEPT ![c] = "rpc"] /\ ok' = ok /\ streak' = streak
        /\ failed' = f1 /\ straddle' = (s1 \/ <<c, "outer">> \notin KF)
        /\ Admits(K) /\ pc[c] = "inner"
    BY <1>9 DEF EnterInner, Enter, K, KF, f1, s1
  <2>2. Inv([K EXCEPT !.requests = @ + 1], KF \cup {<<c, "inner">>},
            [pc EXCEPT ![c] = "rpc"], ok, f1, s1 \/ <<c, "outer">> \notin KF)
    BY <1>1, <1>2, <2>1, EnteringInner
  <2>3. pc' \in [Caller -> Stages]
    BY <1>1, <2>1 DEF Stages
  <2> QED
    BY <1>1, <1>4, <2>1, <2>2, <2>3
<1>10. ASSUME NEW c \in Caller, RefuseInner(c) PROVE IInv'
  <2>1. /\ cb' = K /\ fresh' = KF /\ ok' = [ok EXCEPT ![c] = FALSE] /\ streak' = streak
        /\ failed' = f1 /\ straddle' = s1
        /\ pc[c] = "inner" /\ pc' = [pc EXCEPT ![c] = "leave"] /\ ~Admits(K)
    BY <1>10 DEF RefuseInner, Refuse, K, KF, f1, s1
  <2>2. Inv(K, KF, [pc EXCEPT ![c] = "leave"], [ok EXCEPT ![c] = FALSE], f1, s1)
    BY <1>1, <1>2, <2>1, RefusingInner
  <2>3. pc' \in [Caller -> Stages] /\ ok' \in [Caller -> BOOLEAN]
    BY <1>1, <2>1 DEF Stages
  <2> QED
    BY <1>1, <1>2, <1>4, <2>1, <2>2, <2>3
<1>11. ASSUME NEW c \in Caller, LeaveInner(c) PROVE IInv'
  <2>1. PICK good \in BOOLEAN :
          /\ pc[c] = "rpc" /\ pc' = [pc EXCEPT ![c] = "leave"]
          /\ Settle(c, "inner", good) /\ ok' = [ok EXCEPT ![c] = good]
          /\ streak' = IF good THEN 0
                       ELSE IF streak > TripRequests THEN streak ELSE streak + 1
    BY <1>11 DEF LeaveInner
  <2>2. /\ pc' \in [Caller -> Stages] /\ ok' \in [Caller -> BOOLEAN]
        /\ streak' \in 0..(TripRequests + 1)
    BY <1>1, <2>1, BreakerAssumption DEF Stages
  <2>3. /\ failed' \in Nat /\ straddle' \in BOOLEAN
        /\ Inv(cb', fresh', pc', ok', failed', straddle')
    <3> DEFINE q == [pc EXCEPT ![c] = "leave"]
    <3>0. "inner" \in Level
      BY DEF Level
    <3>1. CASE SettlesLate(c, "inner")
      <4>1. /\ <<c, "inner">> \notin KF /\ cb' = K /\ fresh' = KF
            /\ failed' = f1 /\ straddle' = s1
        BY <3>1 DEF SettlesLate, K, KF, f1, s1
      <4>2. Inv(K, KF, q, [ok EXCEPT ![c] = good], f1, s1)
        BY <1>1, <1>2, <2>1, <4>1, LateInner
      <4> QED
        BY <1>1, <2>1, <4>1, <4>2
    <3>2. CASE good /\ SettlesWell(c, "inner")
      <4>1. /\ <<c, "inner">> \in fresh
            /\ cb' = Succeeded(cb) /\ fresh' = fresh \ {<<c, "inner">>}
            /\ cb.state = "half-open" => cb.successes + 1 < MaxRequests
            /\ failed' = failed /\ straddle' = straddle
        BY <3>2 DEF SettlesWell
      <4>2. ok' = [ok EXCEPT ![c] = TRUE]
        BY <2>1, <3>2
      <4>3. Inv(Succeeded(cb), fresh \ {<<c, "inner">>}, q, [ok EXCEPT ![c] = TRUE],
                failed, straddle)
        BY <1>1, <1>3, <2>1, <4>1, <4>2, GoodInner
      <4> QED
        BY <1>1, <2>1, <4>1, <4>2, <4>3
    <3>3. CASE ~good /\ SettlesBadly(c, "inner")
      <4>1. /\ <<c, "inner">> \in fresh
            /\ cb' = Failed(cb) /\ Failed(cb).state = "closed"
            /\ fresh' = fresh \ {<<c, "inner">>}
            /\ failed' = failed + 1 /\ straddle' = straddle
        BY <1>1, <3>3 DEF SettlesBadly
      <4>2. ok' = [ok EXCEPT ![c] = FALSE]
        BY <2>1, <3>3, Zenon
      <4>3. Inv(Failed(cb), fresh \ {<<c, "inner">>}, q,
                [ok EXCEPT ![c] = FALSE], failed + 1, straddle)
        BY <1>1, <1>3, <2>1, <4>1, <4>2, BadInner
      <4>4. Inv(cb', fresh', pc', ok', failed', straddle')
        BY <2>1, <4>1, <4>2, <4>3, Zenon
      <4> QED
        BY <1>1, <4>1, <4>4
    <3>4. CASE SettlesClosing(c, "inner") \/ SettlesOpening(c, "inner")
      <4>1. /\ \E st \in {"closed", "open"} : cb' = NewGeneration(st)
            /\ fresh' = {} /\ failed' \in Nat /\ straddle' = FALSE
        BY <1>1, <3>4 DEF SettlesClosing, SettlesOpening
      <4>2. Inv(cb', {}, pc', ok', failed', FALSE)
        BY <4>1, Beginning
      <4> QED
        BY <4>1, <4>2
    <3> QED
      BY <2>1, <3>0, <3>1, <3>2, <3>3, <3>4, Settling
  <2> QED
    BY <1>4, <2>2, <2>3
<1>12. ASSUME NEW c \in Caller, LeaveOuter(c) PROVE IInv'
  <2>1. /\ pc[c] = "leave" /\ pc' = [pc EXCEPT ![c] = "idle"]
        /\ Settle(c, "outer", ok[c]) /\ ok' = [ok EXCEPT ![c] = TRUE]
        /\ streak' = streak /\ ok[c] \in BOOLEAN
    BY <1>1, <1>12 DEF LeaveOuter
  <2>2. pc' \in [Caller -> Stages] /\ ok' \in [Caller -> BOOLEAN]
    BY <1>1, <2>1 DEF Stages
  <2>3. /\ failed' \in Nat /\ straddle' \in BOOLEAN
        /\ Inv(cb', fresh', pc', ok', failed', straddle')
    <3> DEFINE q == [pc EXCEPT ![c] = "idle"]
    <3>0. "outer" \in Level /\ "outer" # "inner"
      BY DEF Level
    <3>1. CASE SettlesLate(c, "outer")
      <4>1. /\ <<c, "outer">> \notin KF /\ cb' = K /\ fresh' = KF
            /\ failed' = f1 /\ straddle' = s1
        BY <3>1 DEF SettlesLate, K, KF, f1, s1
      <4>2. Inv(K, KF, q, [ok EXCEPT ![c] = TRUE], f1, s1)
        BY <1>1, <1>2, <2>1, <4>1, LateOuter
      <4> QED
        BY <1>1, <2>1, <4>1, <4>2
    <3>2. CASE ok[c] /\ SettlesWell(c, "outer")
      <4>1. /\ <<c, "outer">> \in fresh
            /\ cb' = Succeeded(cb) /\ fresh' = fresh \ {<<c, "outer">>}
            /\ cb.state = "half-open" => cb.successes + 1 < MaxRequests
            /\ failed' = failed /\ straddle' = straddle
        BY <3>2 DEF SettlesWell
      <4>2. ok[c] = TRUE
        BY <2>1, <3>2
      <4>3. Inv(Succeeded(cb), fresh \ {<<c, "outer">>}, q, [ok EXCEPT ![c] = TRUE],
                failed, straddle)
        BY <1>1, <1>3, <2>1, <4>1, <4>2, GoodOuter
      <4> QED
        BY <1>1, <2>1, <4>1, <4>2, <4>3
    <3>3. CASE ~ok[c] /\ SettlesBadly(c, "outer")
      <4>1. /\ <<c, "outer">> \in fresh
            /\ cb' = Failed(cb) /\ Failed(cb).state = "closed"
            /\ fresh' = fresh \ {<<c, "outer">>}
            /\ failed' = failed /\ straddle' = straddle
        BY <1>1, <3>3 DEF SettlesBadly
      <4>2. ok[c] = FALSE
        BY <2>1, <3>3
      <4>3. Inv(Failed(cb), fresh \ {<<c, "outer">>}, q,
                [ok EXCEPT ![c] = TRUE], failed, straddle)
        BY <1>1, <1>3, <2>1, <4>1, <4>2, BadOuter
      <4> QED
        BY <1>1, <2>1, <4>1, <4>2, <4>3
    <3>4. CASE SettlesClosing(c, "outer") \/ SettlesOpening(c, "outer")
      <4>1. /\ \E st \in {"closed", "open"} : cb' = NewGeneration(st)
            /\ fresh' = {} /\ failed' \in Nat /\ straddle' = FALSE
        BY <1>1, <3>4 DEF SettlesClosing, SettlesOpening
      <4>2. Inv(cb', {}, pc', ok', failed', FALSE)
        BY <4>1, Beginning
      <4> QED
        BY <4>1, <4>2
    <3> QED
      BY <2>1, <3>0, <3>1, <3>2, <3>3, <3>4, Settling
  <2> QED
    BY <1>1, <1>4, <2>1, <2>2, <2>3
<1> QED
  BY <1>5, <1>6, <1>7, <1>8, <1>9, <1>10, <1>11, <1>12 DEF Next

------------------------------------------------------------------------------
THEOREM Invariance == Spec => []IInv
BY Initially, Inductive, PTL DEF Spec

(* The breaker's counts, its expiry and the calls' stages have their types;  *)
(* an open breaker has counted nothing, a half-open one no failure, and      *)
(* successes never reach the number that closes it.                          *)
THEOREM TypeCorrect == Spec => []TypeOK
<1>1. IInv => TypeOK
  BY DEF IInv
<1> QED
  BY <1>1, Invariance, PTL

(* Every slot of a half-open breaker is a success or a call that still holds *)
(* it, and there are no more slots than the limit.                           *)
THEOREM EverySlotAccounted == Spec => []SlotsAccounted
<1>1. IInv => SlotsAccounted
  BY DEF IInv, Inv, Counted, SlotsAccounted
<1> QED
  BY <1>1, Invariance, PTL

(* However many callers there are, no more RPCs than the limit are under way *)
(* that a half-open breaker let through, and half as many if none straddles  *)
(* two generations, since each of them holds two slots.                      *)
THEOREM FewProbes == Spec => []HalfOpenProbes
<1>1. IInv => HalfOpenProbes
  <2> DEFINE S == {c \in Caller : pc[c] = "rpc" /\ <<c, "inner">> \in fresh}
  <2> SUFFICES ASSUME IInv, cb.state = "half-open"
               PROVE  Cardinality(S) <= IF straddle THEN MaxRequests
                                                    ELSE MaxRequests \div 2
    BY DEF HalfOpenProbes
  <2>1. /\ fresh \in SUBSET (Caller \X Level) /\ cb \in Breaker
        /\ cb.requests = cb.successes + Cardinality(fresh)
        /\ cb.requests <= MaxRequests
    BY DEF IInv, Inv, Types, Counted
  <2>2. Cardinality(fresh) \in Nat /\ IsFiniteSet(fresh) /\ Cardinality(fresh) <= MaxRequests
    BY <2>1, Finite, BreakerAssumption DEF Breaker
  <2>3. IsFiniteSet(S) /\ Cardinality(S) \in Nat
    BY Finite
  <2>4. /\ IsFiniteSet({"inner"}) /\ Cardinality({"inner"}) = 1
        /\ IsFiniteSet(Level) /\ Cardinality(Level) = 2
    <3>1. IsFiniteSet({"inner"}) /\ Cardinality({"inner"}) = 1
      BY FS_Singleton
    <3>2. Level = {"inner"} \cup {"outer"} /\ "outer" \notin {"inner"}
      BY DEF Level
    <3> QED
      BY <3>1, <3>2, FS_AddElement
  <2>5. ASSUME NEW T, IsFiniteSet(T), S \X T \subseteq fresh
        PROVE  Cardinality(S) * Cardinality(T) <= MaxRequests
    <3> HIDE DEF S
    <3>1. Cardinality(S \X T) = Cardinality(S) * Cardinality(T)
      BY <2>3, <2>5, FS_Product
    <3>2. Cardinality(S \X T) <= Cardinality(fresh) /\ Cardinality(S \X T) \in Nat
      BY <2>2, <2>5, FS_Subset, FS_CardinalityType
    <3> QED
      BY <2>2, <3>1, <3>2, BreakerAssumption
  <2>6. Cardinality(S) <= MaxRequests
    <3>1. S \X {"inner"} \subseteq fresh
      OBVIOUS
    <3>2. Cardinality(S) * 1 <= MaxRequests
      BY <2>4, <2>5, <3>1
    <3> QED
      BY <2>3, <3>2
  <2>7. CASE ~straddle
    <3>1. \A c \in S : <<c, "outer">> \in fresh
      BY <2>7 DEF IInv, Inv, Paired
    <3>2. S \X Level \subseteq fresh
      BY <3>1 DEF Level
    <3>3. Cardinality(S) * 2 <= MaxRequests
      BY <2>4, <2>5, <3>2
    <3> HIDE DEF S
    <3>4. Cardinality(S) <= MaxRequests \div 2
      BY <2>3, <3>3, BreakerAssumption
    <3> QED
      BY <2>7, <3>4
  <2> QED
    BY <2>6, <2>7
<1> QED
  BY <1>1, Invariance, PTL

(* A step that does not settle an entry neither closes nor trips a breaker.  *)
LEMMA OnlySettlingChanges ==
  ASSUME IInv, NEW c \in Caller,
         Tick \/ EnterOuter(c) \/ RefuseOuter(c) \/ EnterInner(c) \/ RefuseInner(c)
              \/ SettlesLate(c, "inner") \/ SettlesLate(c, "outer")
  PROVE  /\ cb.state = "half-open" => cb'.state = "half-open"
         /\ cb.state = "closed" => cb'.state = "closed"
<1>1. cb \in Breaker
  BY DEF IInv, TypeOK
<1>2. Current \in Breaker
        /\ (cb.state # "open" => Current.state = cb.state)
  BY <1>1, BreakerAssumption DEF Current, Expired, NewGeneration, Breaker
<1>3. CASE Tick
  BY <1>1, <1>3 DEF Tick, Breaker
<1>4. CASE cb' = [Current EXCEPT !.requests = @ + 1] \/ cb' = Current
  BY <1>2, <1>4 DEF Breaker
<1> QED
  BY <1>3, <1>4 DEF EnterOuter, EnterInner, RefuseOuter, RefuseInner, Enter, Refuse,
                    SettlesLate

(* With an odd limit, like the code's 3, a breaker in whose generation the   *)
(* interceptor admitted only calls that had entered it in that generation    *)
(* never closes: two slots per call leave no way to reach an odd number of   *)
(* successes.                                                                *)
THEOREM OnlyStraddlersClose ==
  ASSUME \E n \in Nat : MaxRequests = 2 * n + 1
  PROVE  Spec => ClosesOnlyByStraddler
<1>1. IInv /\ [Next]_vars => (cb.state = "half-open" /\ cb'.state = "closed" => straddle)
  <2> SUFFICES ASSUME IInv, [Next]_vars, cb.state = "half-open", cb'.state = "closed",
                      ~straddle
               PROVE  FALSE
    BY DEF IInv, TypeOK
  <2>1. /\ cb \in Breaker /\ cb.successes < MaxRequests
        /\ fresh \in SUBSET (Caller \X Level)
        /\ cb.requests = cb.successes + Cardinality(fresh)
        /\ cb.requests <= MaxRequests
    BY DEF IInv, Inv, Types, Counted
  <2>2. cb.successes \in Nat /\ Cardinality(fresh) \in Nat /\ IsFiniteSet(fresh)
    BY <2>1, Finite DEF Breaker
  (* An entry held alone, or with another one. *)
  <2>3. ASSUME NEW c \in Caller, SettlesClosing(c, "inner") PROVE FALSE
    <3>1. /\ <<c, "inner">> \in fresh /\ <<c, "outer">> \in fresh
          /\ cb.successes + 1 >= MaxRequests
      BY <2>3 DEF SettlesClosing, IInv, Inv, Paired
    <3>2. Cardinality(fresh \ {<<c, "inner">>}) = Cardinality(fresh) - 1
          /\ IsFiniteSet(fresh \ {<<c, "inner">>})
      BY <2>2, <3>1, FS_RemoveElement
    <3>3. <<c, "outer">> \in fresh \ {<<c, "inner">>}
      BY <3>1
    <3>4. Cardinality(fresh \ {<<c, "inner">>}) # 0
      BY <3>2, <3>3, FS_EmptySet
    <3>5. Cardinality(fresh \ {<<c, "inner">>}) \in Nat
      BY <3>2, FS_CardinalityType
    <3>6. Cardinality(fresh) >= 2
      BY <2>2, <3>2, <3>4, <3>5
    <3> QED
      BY <2>1, <2>2, <3>1, <3>6, BreakerAssumption
  <2>4. ASSUME NEW c \in Caller, SettlesClosing(c, "outer"), pc[c] = "leave", ok[c] = TRUE
        PROVE  FALSE
    <3>1. <<c, "outer">> \in fresh /\ cb.successes + 1 >= MaxRequests
      BY <2>4 DEF SettlesClosing
    <3>2. Cardinality(fresh) = 1 /\ cb.successes + 1 = MaxRequests
      <4>1. Cardinality(fresh) # 0
        BY <2>2, <3>1, FS_EmptySet
      <4> QED
        BY <2>1, <2>2, <3>1, <4>1, BreakerAssumption
    <3>3. \A x \in fresh : x = <<c, "outer">>
      <4>1. Cardinality(fresh \ {<<c, "outer">>}) = 0 /\ IsFiniteSet(fresh \ {<<c, "outer">>})
        BY <2>2, <3>1, <3>2, FS_RemoveElement
      <4>2. fresh \ {<<c, "outer">>} = {}
        BY <4>1, FS_EmptySet
      <4> QED
        BY <4>2
    <3>4. WaitingWell(fresh, pc, ok) = {c}
      BY <2>4, <3>1, <3>3 DEF WaitingWell
    <3>5. Cardinality(WaitingWell(fresh, pc, ok)) = 1
      BY <3>4, FS_Singleton, Zenon
    <3>6. PICK k \in Nat : cb.successes = 2 * k + 1
      BY <3>5 DEF IInv, Inv, Even
    <3>7. PICK n \in Nat : MaxRequests = 2 * n + 1
      OBVIOUS
    <3> QED
      BY <3>2, <3>6, <3>7
  <2>5. ASSUME NEW c \in Caller, LeaveInner(c) PROVE FALSE
    <3>1. PICK good \in BOOLEAN : Settle(c, "inner", good)
      BY <2>5 DEF LeaveInner
    <3>2. "inner" \in Level
      BY DEF Level
    <3>3. \/ SettlesLate(c, "inner") \/ SettlesWell(c, "inner") \/ SettlesClosing(c, "inner")
          \/ SettlesBadly(c, "inner") \/ SettlesOpening(c, "inner")
      BY <3>1, <3>2, Settling
    <3>4. ~SettlesOpening(c, "inner")
      BY DEF SettlesOpening, NewGeneration
    <3>5. ~SettlesWell(c, "inner") /\ ~SettlesBadly(c, "inner")
      BY DEF SettlesWell, SettlesBadly
    <3> QED
      BY <2>3, <3>3, <3>4, <3>5, OnlySettlingChanges
  <2>6. ASSUME NEW c \in Caller, LeaveOuter(c) PROVE FALSE
    <3>1. Settle(c, "outer", ok[c]) /\ ok[c] \in BOOLEAN /\ pc[c] = "leave"
      BY <2>6 DEF LeaveOuter, IInv, TypeOK
    <3>2. "outer" \in Level
      BY DEF Level
    <3>3. \/ SettlesLate(c, "outer") \/ SettlesWell(c, "outer")
          \/ SettlesClosing(c, "outer") /\ ok[c] = TRUE
          \/ SettlesBadly(c, "outer") \/ SettlesOpening(c, "outer")
      BY <3>1, <3>2, Settling
    <3>4. ~SettlesOpening(c, "outer")
      BY DEF SettlesOpening, NewGeneration
    <3>5. ~SettlesWell(c, "outer") /\ ~SettlesBadly(c, "outer")
      BY DEF SettlesWell, SettlesBadly
    <3> QED
      BY <2>4, <3>1, <3>3, <3>4, <3>5, OnlySettlingChanges
  <2>7. CASE Tick
    BY <2>1, <2>7 DEF Tick, Breaker
  <2>8. CASE vars' = vars
    BY <2>8 DEF vars
  <2> QED
    BY <2>5, <2>6, <2>7, <2>8, OnlySettlingChanges DEF Next
<1> QED
  BY <1>1, Invariance, PTL DEF Spec, ClosesOnlyByStraddler

(* With at least the code's 5 requests before it may trip, a closed breaker  *)
(* opens only when the RPCs of two calls have failed and been counted, for   *)
(* every number of callers; with 4 one call could do it.                     *)
THEOREM TwoFailuresTrip ==
  ASSUME TripRequests >= 5
  PROVE  Spec => OneFailureNeverTrips
<1>1. IInv /\ [Next]_vars => (cb.state = "closed" /\ cb'.state = "open" => failed' >= 2)
  <2> SUFFICES ASSUME IInv, [Next]_vars, cb.state = "closed", cb'.state = "open"
               PROVE  failed' >= 2
    OBVIOUS
  <2>1. /\ cb \in Breaker /\ failed \in Nat /\ cb.failures \in Nat /\ cb.requests \in Nat
        /\ cb.failures + Cardinality(WaitingBadly(fresh, pc, ok)) <= 2 * failed
    BY DEF IInv, TypeOK, Inv, Types, Twice, Breaker
  <2>2. /\ IsFiniteSet(WaitingBadly(fresh, pc, ok))
        /\ Cardinality(WaitingBadly(fresh, pc, ok)) \in Nat
    BY Finite DEF WaitingBadly
  <2>3. ASSUME Trips([cb EXCEPT !.failures = @ + 1]) PROVE cb.failures >= 2
    <3>1. cb.requests >= TripRequests /\ 2 * (cb.failures + 1) >= cb.requests
      BY <2>1, <2>3 DEF Trips, Breaker
    <3> QED
      BY <2>1, <3>1, BreakerAssumption
  <2>4. ASSUME NEW c \in Caller, LeaveInner(c) PROVE failed' >= 2
    <3>1. PICK good \in BOOLEAN : Settle(c, "inner", good)
      BY <2>4 DEF LeaveInner
    <3>2. "inner" \in Level
      BY DEF Level
    <3>3. \/ SettlesLate(c, "inner") \/ SettlesWell(c, "inner") \/ SettlesClosing(c, "inner")
          \/ SettlesBadly(c, "inner") \/ SettlesOpening(c, "inner")
      BY <3>1, <3>2, Settling
    <3>4. SettlesOpening(c, "inner")
      BY <3>3, OnlySettlingChanges DEF SettlesWell, SettlesBadly, SettlesClosing
    <3>5. failed' = failed + 1 /\ cb.failures >= 2
      BY <2>3, <3>4 DEF SettlesOpening
    <3> QED
      BY <2>1, <2>2, <3>5
  <2>5. ASSUME NEW c \in Caller, LeaveOuter(c) PROVE failed' >= 2
    <3>1. Settle(c, "outer", ok[c]) /\ ok[c] \in BOOLEAN /\ pc[c] = "leave"
      BY <2>5 DEF LeaveOuter, IInv, TypeOK
    <3>2. "outer" \in Level /\ "outer" # "inner"
      BY DEF Level
    <3>3. \/ SettlesLate(c, "outer") \/ SettlesWell(c, "outer") \/ SettlesClosing(c, "outer")
          \/ SettlesBadly(c, "outer") \/ (ok[c] = FALSE /\ SettlesOpening(c, "outer"))
      BY <3>1, <3>2, Settling
    <3>4. ok[c] = FALSE /\ SettlesOpening(c, "outer")
      BY <3>3, OnlySettlingChanges DEF SettlesWell, SettlesBadly, SettlesClosing
    <3>5. failed' = failed /\ cb.failures >= 2 /\ <<c, "outer">> \in fresh
      BY <2>1, <2>3, <3>2, <3>4 DEF SettlesOpening
    <3>6. c \in WaitingBadly(fresh, pc, ok)
      BY <3>1, <3>4, <3>5 DEF WaitingBadly
    <3>7. Cardinality(WaitingBadly(fresh, pc, ok)) # 0
      BY <2>2, <3>6, FS_EmptySet
    <3> QED
      BY <2>1, <2>2, <3>5, <3>7
  <2>6. CASE Tick
    BY <2>1, <2>6 DEF Tick, Breaker
  <2>7. CASE vars' = vars
    BY <2>7 DEF vars
  <2> QED
    BY <2>4, <2>5, <2>6, <2>7, OnlySettlingChanges DEF Next
<1> QED
  BY <1>1, Invariance, PTL DEF Spec, OneFailureNeverTrips

==============================================================================
