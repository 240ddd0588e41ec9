------------------------ MODULE UserRateLimiterProofs ------------------------
(* Proofs about UserRateLimiter, for every number of requests, users and     *)
(* buckets, every burst, rate and period.                                    *)
EXTENDS UserRateLimiter, FiniteSetTheorems, TLAPS

LEMMA HoldersFinite ==
    ASSUME NEW b PROVE IsFiniteSet(Holders(b)) /\ Cardinality(Holders(b)) \in Nat
<1>1. Holders(b) \subseteq Request
  BY DEF Holders
<1> QED
  BY <1>1, LimiterAssumption, FS_Subset, FS_CardinalityType

------------------------------------------------------------------------------
(* Whose bucket is whose. *)

(* A bucket in use is one user's: in the map, and in the hands of requests.  *)
Owned ==
    /\ \A r \in Request : held[r] = None <=> who[r] = None
    /\ \A u, v \in User : limiters[u] # None /\ limiters[u] = limiters[v] => u = v
    /\ \A r \in Request, u \in User :
         held[r] # None /\ held[r] = limiters[u] => who[r] = u
    /\ \A r, s \in Request : held[r] # None /\ held[r] = held[s] => who[r] = who[s]
    /\ \A u \in pending : limiters[u] # None

LEMMA OwnedStep == TypeOK /\ Owned /\ [Next]_vars => Owned'
<1> SUFFICES ASSUME TypeOK, Owned, [Next]_vars PROVE Owned'
  OBVIOUS
<1> USE LimiterAssumption DEF TypeOK, Owned, map, requests, cleaner, history
<1>1. ASSUME NEW r \in Request, Get(r) PROVE Owned'
  <2> PICK u \in User, b \in Bucket : GetLimiter(r, u, b)
    BY <1>1 DEF Get
  <2>1. who' = [who EXCEPT ![r] = u] /\ held' = [held EXCEPT ![r] = b]
    BY DEF GetLimiter
  <2>2. pending' = pending /\ pending = {}
    BY <1>1 DEF Get, Unlocked
  <2>3. CASE limiters[u] # None
    BY <2>1, <2>2, <2>3 DEF GetLimiter
  <2>4. CASE limiters[u] = None
    <3>1. /\ limiters' = [limiters EXCEPT ![u] = b]
          /\ \A v \in User : limiters[v] # b
          /\ \A s \in Request : held[s] # b
      BY <2>4 DEF GetLimiter, Free
    <3> QED
      BY <2>1, <2>2, <3>1
  <2> QED
    BY <2>3, <2>4
<1>2. ASSUME NEW r \in Request, Allow(r) PROVE Owned'
  BY <1>2 DEF Allow, Leave
<1>3. ASSUME NEW r \in Request, Refuse(r) PROVE Owned'
  BY <1>3 DEF Refuse, Leave
<1>4. CASE CleanUp
  BY <1>4 DEF CleanUp
<1>5. CASE Drop
  BY <1>5 DEF Drop
<1>6. CASE Tick
  BY <1>6 DEF Tick
<1>7. ASSUME NEW u \in User, Look(u) PROVE Owned'
  BY <1>7 DEF Look
<1>8. CASE UNCHANGED vars
  BY <1>8 DEF vars
<1> QED
  BY <1>1, <1>2, <1>3, <1>4, <1>5, <1>6, <1>7, <1>8 DEF Next

(* Every variable keeps its type: no bucket exceeds its burst, and the       *)
(* clean-up judges only users it still has to visit.                         *)
THEOREM TypeCorrect == Spec => []TypeOK
<1>1. Init => TypeOK /\ Owned
  BY LimiterAssumption DEF Init, TypeOK, Owned
<1>2. TypeOK /\ Owned /\ [Next]_vars => TypeOK'
  <2> SUFFICES ASSUME TypeOK, Owned, [Next]_vars PROVE TypeOK'
    OBVIOUS
  <2> USE LimiterAssumption DEF TypeOK, map, requests, cleaner, history
  <2>1. ASSUME NEW r \in Request, Get(r) PROVE TypeOK'
    BY <2>1 DEF Get, GetLimiter, NewTokens
  <2>2. ASSUME NEW r \in Request, Allow(r) PROVE TypeOK'
    <3>1. who[r] \in User /\ held[r] \in Bucket
      BY <2>2 DEF Allow, Owned
    <3>2. tokens' \in [Bucket -> 0..Burst] /\ level' \in [User -> Nat]
      BY <2>2, <3>1 DEF Allow
    <3> QED
      BY <2>2, <3>2 DEF Allow, Leave
  <2>3. ASSUME NEW r \in Request, Refuse(r) PROVE TypeOK'
    BY <2>3 DEF Refuse, Leave
  <2>4. CASE CleanUp
    BY <2>4 DEF CleanUp, Unlocked
  <2>5. CASE Drop
    BY <2>5 DEF Drop
  <2>6. CASE Tick
    BY <2>6 DEF Tick, Refill, Drain
  <2>7. ASSUME NEW u \in User, Look(u) PROVE TypeOK'
    <3>1. Cardinality(Holders(limiters[u])) \in Nat
      BY HoldersFinite
    <3> QED
      BY <2>7, <3>1 DEF Look
  <2>8. CASE UNCHANGED vars
    BY <2>8 DEF vars
  <2> QED
    BY <2>1, <2>2, <2>3, <2>4, <2>5, <2>6, <2>7, <2>8 DEF Next
<1> QED
  BY <1>1, <1>2, OwnedStep, PTL DEF Spec

------------------------------------------------------------------------------
(* What a user can still be granted. *)

(* Requests of a user that will take a token the map's bucket does not miss: *)
(* theirs has been dropped, or is about to be.                               *)
Stray(u) == {r \in Request : who[r] = u /\ (held[r] = limiters[u] => judged = u)}

(* What the bucket in the map lacks of a burst. *)
Lack(u) == IF limiters[u] = None \/ judged = u THEN 0 ELSE Burst - tokens[limiters[u]]

(* Each stray is excused.  What a user was granted and its strays may yet    *)
(* be granted shows in its bucket, or is excused.                            *)
Balanced ==
    \A u \in User :
        /\ Cardinality(Stray(u)) <= excused[u]
        /\ level[u] + Cardinality(Stray(u)) <= Lack(u) + excused[u]

LEMMA StrayFinite ==
    ASSUME NEW u
    PROVE /\ IsFiniteSet(Stray(u)) /\ Cardinality(Stray(u)) \in Nat
          /\ IsFiniteSet(Stray(u)') /\ Cardinality(Stray(u)') \in Nat
<1>1. Stray(u) \subseteq Request /\ Stray(u)' \subseteq Request
  BY DEF Stray
<1> QED
  BY <1>1, LimiterAssumption, FS_Subset, FS_CardinalityType

(* A step that adds no stray to a user, takes nothing from what it lacks or  *)
(* is excused, and grants it nothing.                                        *)
LEMMA NoDearer ==
    ASSUME TypeOK, TypeOK', NEW u \in User,
           Cardinality(Stray(u)) <= excused[u],
           level[u] + Cardinality(Stray(u)) <= Lack(u) + excused[u],
           Stray(u)' \subseteq Stray(u), Lack(u)' >= Lack(u),
           excused[u]' = excused[u], level[u]' = level[u]
    PROVE  /\ Cardinality(Stray(u)') <= excused[u]'
           /\ level[u]' + Cardinality(Stray(u)') <= Lack(u)' + excused[u]'
<1>1. Cardinality(Stray(u)') <= Cardinality(Stray(u))
  BY StrayFinite, FS_Subset
<1>2. Cardinality(Stray(u)) \in Nat /\ Cardinality(Stray(u)') \in Nat
  BY StrayFinite
<1>3. /\ Lack(u) \in Int /\ Lack(u)' \in Int
      /\ level[u] \in Nat /\ excused[u] \in Nat
  BY LimiterAssumption DEF Lack, TypeOK
<1> HIDE DEF Stray, Lack
<1> QED
  BY <1>1, <1>2, <1>3

LEMMA BalancedStep == TypeOK /\ TypeOK' /\ Owned /\ Balanced /\ [Next]_vars => Balanced'
<1> SUFFICES ASSUME TypeOK, TypeOK', Owned, Balanced, [Next]_vars, NEW u \in User
             PROVE  /\ Cardinality(Stray(u)') <= excused[u]'
                    /\ level[u]' + Cardinality(Stray(u)') <= Lack(u)' + excused[u]'
  BY DEF Balanced
<1>a. /\ Cardinality(Stray(u)) <= excused[u]
      /\ level[u] + Cardinality(Stray(u)) <= Lack(u) + excused[u]
  BY DEF Balanced
<1>b. /\ Lack(u) \in Int /\ level[u] \in Nat /\ excused[u] \in Nat
      /\ Cardinality(Stray(u)) \in Nat /\ Cardinality(Stray(u)') \in Nat
      /\ Burst \in Nat /\ Rate \in Nat
  BY StrayFinite, LimiterAssumption DEF Lack, TypeOK
<1> USE LimiterAssumption
<1> DEFINE Goal == /\ Cardinality(Stray(u)') <= excused[u]'
                   /\ level[u]' + Cardinality(Stray(u)') <= Lack(u)' + excused[u]'
<1>1. ASSUME NEW r \in Request, Get(r) PROVE Goal
  <2> PICK v \in User, b \in Bucket : GetLimiter(r, v, b)
    BY <1>1 DEF Get
  <2>1. who' = [who EXCEPT ![r] = v] /\ held' = [held EXCEPT ![r] = b] /\ held[r] = None
    BY <1>1 DEF Get, GetLimiter
  <2>2. UNCHANGED <<judged, level, excused>> /\ judged = None
    BY <1>1 DEF Get, Unlocked, cleaner, history, TypeOK
  <2>3. CASE limiters[v] # None
    <3>1. UNCHANGED map /\ b = limiters[v]
      BY <2>3 DEF GetLimiter
    <3>2. Stray(u)' \subseteq Stray(u)
      BY <2>1, <2>2, <3>1 DEF Stray, TypeOK, map
    <3>3. Lack(u)' = Lack(u)
      BY <2>2, <3>1 DEF Lack, map
    <3> QED
      BY <1>a, <1>b, <2>2, <3>2, <3>3, NoDearer
  <2>4. CASE limiters[v] = None
    <3>1. /\ limiters' = [limiters EXCEPT ![v] = b]
          /\ tokens' = [tokens EXCEPT ![b] = Burst]
          /\ \A w \in User : limiters[w] # b
          /\ \A s \in Request : held[s] # b
      BY <2>4 DEF GetLimiter, Free, NewTokens
    <3>2. Stray(u)' \subseteq Stray(u)
      BY <2>1, <2>2, <2>4, <3>1 DEF Stray, TypeOK, Owned
    <3>3. Lack(u)' = Lack(u)
      BY <1>b, <2>2, <2>4, <3>1 DEF Lack, TypeOK
    <3> QED
      BY <1>a, <1>b, <2>2, <3>2, <3>3, NoDearer
  <2> QED
    BY <2>3, <2>4
<1>2. ASSUME NEW r \in Request, Allow(r) PROVE Goal
  <2>1. /\ held[r] \in Bucket /\ who[r] \in User
        /\ tokens' = [tokens EXCEPT ![held[r]] = @ - 1]
        /\ level' = [level EXCEPT ![who[r]] = @ + 1]
        /\ who' = [who EXCEPT ![r] = None] /\ held' = [held EXCEPT ![r] = None]
        /\ UNCHANGED <<limiters, judged, excused>>
    BY <1>2 DEF Allow, Leave, cleaner, TypeOK, Owned
  <2>2. CASE who[r] # u
    <3>1. Stray(u)' \subseteq Stray(u)
      BY <2>1 DEF Stray, TypeOK
    <3>2. Lack(u)' = Lack(u) /\ level[u]' = level[u]
      BY <2>1, <2>2 DEF Lack, TypeOK, Owned
    <3> QED
      BY <1>a, <1>b, <2>1, <3>1, <3>2, NoDearer
  <2>3. CASE who[r] = u /\ r \in Stray(u)
    <3>1. Stray(u)' \subseteq Stray(u) \ {r}
      BY <2>1 DEF Stray, TypeOK
    <3>2. Cardinality(Stray(u)') <= Cardinality(Stray(u)) - 1
      <4>1. Cardinality(Stray(u) \ {r}) = Cardinality(Stray(u)) - 1
        BY <2>3, StrayFinite, FS_RemoveElement
      <4>2. IsFiniteSet(Stray(u) \ {r})
        BY StrayFinite, FS_RemoveElement
      <4> QED
        BY <3>1, <4>1, <4>2, FS_Subset
    <3>3. Lack(u)' = Lack(u) /\ level[u]' = level[u] + 1
      BY <2>1, <2>3 DEF Lack, TypeOK, Owned, Stray
    <3>4. excused[u]' = excused[u]
      BY <2>1
    <3> HIDE DEF Stray, Lack
    <3> QED
      BY <1>a, <1>b, <3>2, <3>3, <3>4
  <2>4. CASE who[r] = u /\ r \notin Stray(u)
    <3>1. Stray(u)' \subseteq Stray(u)
      BY <2>1 DEF Stray, TypeOK
    <3>2. Cardinality(Stray(u)') <= Cardinality(Stray(u))
      BY <3>1, StrayFinite, FS_Subset
    <3>3. held[r] = limiters[u] /\ judged # u
      BY <2>4 DEF Stray
    <3>4. Lack(u)' = Lack(u) + 1 /\ level[u]' = level[u] + 1
      BY <1>b, <2>1, <2>4, <3>3 DEF Lack, TypeOK
    <3>5. excused[u]' = excused[u]
      BY <2>1
    <3> HIDE DEF Stray, Lack
    <3> QED
      BY <1>a, <1>b, <3>2, <3>4, <3>5
  <2> QED
    BY <2>2, <2>3, <2>4
<1>3. ASSUME NEW r \in Request, Refuse(r) PROVE Goal
  <2>1. /\ who' = [who EXCEPT ![r] = None] /\ held' = [held EXCEPT ![r] = None]
        /\ UNCHANGED <<limiters, tokens, judged, level, excused>>
    BY <1>3 DEF Refuse, Leave, map, cleaner, history
  <2>2. Stray(u)' \subseteq Stray(u)
    BY <2>1 DEF Stray, TypeOK
  <2>3. Lack(u)' = Lack(u)
    BY <2>1 DEF Lack
  <2> QED
    BY <1>a, <1>b, <2>1, <2>2, <2>3, NoDearer
<1>4. CASE CleanUp \/ UNCHANGED vars
  <2>1. UNCHANGED <<limiters, tokens, who, held, judged, level, excused>>
    BY <1>4 DEF CleanUp, vars, map, requests, cleaner, history
  <2>2. Stray(u)' = Stray(u) /\ Lack(u)' = Lack(u)
    BY <2>1 DEF Stray, Lack
  <2> QED
    BY <1>a, <1>b, <2>1, <2>2, NoDearer
<1>5. CASE Drop
  <2>1. /\ judged \in User /\ limiters' = [limiters EXCEPT ![judged] = None]
        /\ judged' = None /\ UNCHANGED <<tokens, who, held, level, excused>>
    BY <1>5 DEF Drop, requests, history, TypeOK
  <2>2. Stray(u)' \subseteq Stray(u)
    BY <2>1 DEF Stray, TypeOK, Owned
  <2>3. Lack(u)' = Lack(u)
    BY <2>1 DEF Lack, TypeOK
  <2> QED
    BY <1>a, <1>b, <2>1, <2>2, <2>3, NoDearer
<1>6. CASE Tick
  <2>1. Stray(u)' = Stray(u)
    BY <1>6 DEF Tick, requests, Stray
  <2>2. level[u]' = Drain(level[u]) /\ Lack(u)' \in Nat /\ Lack(u)' >= Lack(u) - Rate
    BY <1>6, <1>b DEF Tick, Lack, Refill, TypeOK
  <2>3. excused[u]' = excused[u] \/ (excused[u]' = 0 /\ level[u]' = 0 /\ Stray(u) = {})
    BY <1>6 DEF Tick, Stray, TypeOK
  <2>4. Stray(u) = {} => Cardinality(Stray(u)) = 0
    BY FS_EmptySet
  <2> HIDE DEF Stray, Lack
  <2>5. excused[u]' = excused[u] => Goal
    BY <1>a, <1>b, <2>1, <2>2 DEF Drain
  <2>6. excused[u]' = 0 /\ level[u]' = 0 /\ Stray(u) = {} => Goal
    BY <1>b, <2>1, <2>2, <2>4
  <2> QED
    BY <2>3, <2>5, <2>6
<1>7. ASSUME NEW v \in User, Look(v) PROVE Goal
  <2>1. UNCHANGED <<limiters, tokens, who, held, level>> /\ judged = None
        /\ limiters[v] \in Bucket
    BY <1>7 DEF Look, map, requests, TypeOK, Owned
  <2>2. CASE ~Full(limiters[v])
    <3>1. UNCHANGED <<judged, excused>>
      BY <1>7, <2>2 DEF Look
    <3>2. Stray(u)' = Stray(u) /\ Lack(u)' = Lack(u)
      BY <2>1, <3>1 DEF Stray, Lack
    <3> QED
      BY <1>a, <1>b, <2>1, <3>1, <3>2, NoDearer
  <2>3. CASE Full(limiters[v]) /\ u # v
    <3>1. judged' = v /\ excused[u]' = excused[u]
      BY <1>7, <2>3 DEF Look, TypeOK
    <3>2. Stray(u)' \subseteq Stray(u) /\ Lack(u)' = Lack(u)
      BY <2>1, <2>3, <3>1 DEF Stray, Lack, TypeOK
    <3> QED
      BY <1>a, <1>b, <2>1, <3>1, <3>2, NoDearer
  <2>4. CASE Full(limiters[v]) /\ u = v
    <3> DEFINE caught == Holders(limiters[u])
    <3>1. judged' = u /\ excused[u]' = excused[u] + Cardinality(caught)
      BY <1>7, <2>4 DEF Look, TypeOK
    <3>2. Stray(u)' \subseteq Stray(u) \cup caught
      BY <2>1, <3>1 DEF Stray, Holders
    <3>3. Cardinality(caught) \in Nat /\ IsFiniteSet(caught)
      BY HoldersFinite
    <3>4. /\ IsFiniteSet(Stray(u) \cup caught)
          /\ Cardinality(Stray(u) \cup caught) \in Nat
          /\ Cardinality(Stray(u) \cup caught) <= Cardinality(Stray(u)) + Cardinality(caught)
      <4>1. IsFiniteSet(Stray(u) \cup caught)
        BY <3>3, StrayFinite, FS_Union
      <4>2. IsFiniteSet(Stray(u) \cap caught)
        BY StrayFinite, FS_Intersection
      <4>3. Cardinality(Stray(u) \cap caught) \in Nat
        BY <4>2, FS_CardinalityType
      <4>4. Cardinality(Stray(u) \cup caught) =
              Cardinality(Stray(u)) + Cardinality(caught) - Cardinality(Stray(u) \cap caught)
        BY <3>3, StrayFinite, FS_Union
      <4>5. Cardinality(Stray(u) \cup caught) \in Nat
        BY <4>1, FS_CardinalityType
      <4> HIDE DEF caught, Stray
      <4> QED
        BY <1>b, <3>3, <4>1, <4>3, <4>4, <4>5
    <3>5. Cardinality(Stray(u)') <= Cardinality(Stray(u) \cup caught)
      BY <3>2, <3>4, FS_Subset
    <3>6. Lack(u) <= 0 /\ Lack(u)' = 0 /\ level[u]' = level[u]
      BY <1>b, <2>1, <2>4, <3>1 DEF Lack, Full, TypeOK
    <3> HIDE DEF caught, Stray, Lack
    <3> QED
      BY <1>a, <1>b, <3>1, <3>3, <3>4, <3>5, <3>6
  <2> QED
    BY <2>2, <2>3, <2>4
<1> QED
  BY <1>1, <1>2, <1>3, <1>4, <1>5, <1>6, <1>7 DEF Next

LEMMA Start == Init => Owned /\ Balanced
<1> SUFFICES ASSUME Init PROVE Owned /\ Balanced
  OBVIOUS
<1>1. Owned
  BY DEF Init, Owned
<1>2. ASSUME NEW u \in User PROVE Stray(u) = {} /\ level[u] = 0 /\ excused[u] = 0 /\ Lack(u) = 0
  BY LimiterAssumption DEF Init, Stray, Lack
<1>3. Cardinality({}) = 0
  BY FS_EmptySet
<1> QED
  BY <1>1, <1>2, <1>3 DEF Balanced

(* For any number of requests, users and buckets, and whatever the clean-up  *)
(* drops under them: a user gets its burst and its rate, and one token more  *)
(* for each request a clean-up caught.                                       *)
THEOREM BurstAndRate == Spec => []Conforms
<1>1. Init => Owned /\ Balanced
  BY Start
<1>2. TypeOK /\ TypeOK' /\ Owned /\ Balanced /\ [Next]_vars => Owned' /\ Balanced'
  BY OwnedStep, BalancedStep
<1>3. TypeOK /\ Balanced => Conforms
  <2> SUFFICES ASSUME TypeOK, Balanced, NEW u \in User PROVE level[u] <= Burst + excused[u]
    BY DEF Conforms
  <2>1. Lack(u) \in Int /\ Lack(u) <= Burst
    BY LimiterAssumption DEF Lack, TypeOK
  <2>2. /\ level[u] \in Nat /\ excused[u] \in Nat /\ Burst \in Nat
        /\ Cardinality(Stray(u)) \in Nat
        /\ level[u] + Cardinality(Stray(u)) <= Lack(u) + excused[u]
    BY StrayFinite, LimiterAssumption DEF Balanced, TypeOK
  <2> HIDE DEF Stray, Lack
  <2> QED
    BY <2>1, <2>2
<1> QED
  BY <1>1, <1>2, <1>3, TypeCorrect, PTL DEF Spec

------------------------------------------------------------------------------
(* No early refusal. *)

(* What a bucket of a user lacks, in the map or in a request's hands, the    *)
(* user was granted.                                                         *)
Earned ==
    /\ \A u \in User : limiters[u] # None => level[u] >= Burst - tokens[limiters[u]]
    /\ \A r \in Request : held[r] # None => level[who[r]] >= Burst - tokens[held[r]]

LEMMA EarnedStep == TypeOK /\ TypeOK' /\ Owned /\ Earned /\ [Next]_vars => Earned'
<1> SUFFICES ASSUME TypeOK, TypeOK', Owned, Earned, [Next]_vars PROVE Earned'
  OBVIOUS
<1> USE LimiterAssumption DEF TypeOK, Owned, Earned, map, requests, cleaner, history
<1>1. ASSUME NEW r \in Request, Get(r) PROVE Earned'
  <2> PICK u \in User, b \in Bucket : GetLimiter(r, u, b)
    BY <1>1 DEF Get
  <2>1. /\ who' = [who EXCEPT ![r] = u] /\ held' = [held EXCEPT ![r] = b]
        /\ level' = level
    BY <1>1 DEF Get, GetLimiter
  <2>2. CASE limiters[u] # None
    BY <2>1, <2>2 DEF GetLimiter
  <2>3. CASE limiters[u] = None
    <3>1. /\ limiters' = [limiters EXCEPT ![u] = b]
          /\ tokens' = [tokens EXCEPT ![b] = Burst]
          /\ \A v \in User : limiters[v] # b
          /\ \A s \in Request : held[s] # b
      BY <2>3 DEF GetLimiter, Free, NewTokens
    <3> QED
      BY <2>1, <3>1
  <2> QED
    BY <2>2, <2>3
<1>2. ASSUME NEW r \in Request, Allow(r) PROVE Earned'
  BY <1>2 DEF Allow, Leave
<1>3. ASSUME NEW r \in Request, Refuse(r) PROVE Earned'
  BY <1>3 DEF Refuse, Leave
<1>4. CASE CleanUp
  BY <1>4 DEF CleanUp
<1>5. CASE Drop
  BY <1>5 DEF Drop
<1>6. CASE Tick
  <2>1. \A n \in Nat, t \in 0..Burst : n >= Burst - t => Drain(n) >= Burst - Refill(t)
    BY DEF Drain, Refill
  <2>2. /\ \A b \in Bucket : tokens'[b] = Refill(tokens[b])
        /\ \A u \in User : level'[u] = Drain(level[u])
        /\ limiters' = limiters /\ held' = held /\ who' = who
    BY <1>6 DEF Tick
  <2>3. \A r \in Request : held[r] # None => who[r] \in User /\ held[r] \in Bucket
    OBVIOUS
  <2>4. ASSUME NEW u \in User, limiters[u] # None
        PROVE  level'[u] >= Burst - tokens'[limiters[u]]
    BY <2>1, <2>2, <2>4
  <2>5. ASSUME NEW r \in Request, held[r] # None
        PROVE  level'[who[r]] >= Burst - tokens'[held[r]]
    BY <2>1, <2>2, <2>3, <2>5
  <2> QED
    BY <2>2, <2>4, <2>5
<1>7. ASSUME NEW u \in User, Look(u) PROVE Earned'
  BY <1>7 DEF Look
<1>8. CASE UNCHANGED vars
  BY <1>8 DEF vars
<1> QED
  BY <1>1, <1>2, <1>3, <1>4, <1>5, <1>6, <1>7, <1>8 DEF Next

(* For any number of requests, users and buckets: a request is refused only  *)
(* when its user has been granted a whole burst that is not yet refilled.    *)
THEOREM NoEarlyRefusal == Spec => RefusedOnlyWhenSpent
<1>1. Init => Owned /\ Earned
  BY LimiterAssumption DEF Init, Owned, Earned
<1>2. TypeOK /\ TypeOK' /\ Owned /\ Earned /\ [Next]_vars => Owned' /\ Earned'
  BY OwnedStep, EarnedStep
<1>3. TypeOK /\ Owned /\ Earned /\ [Next]_vars =>
        [\A r \in Request : Refuse(r) => level[who[r]] >= Burst]_vars
  BY LimiterAssumption DEF TypeOK, Owned, Earned, Refuse
<1> QED
  BY <1>1, <1>2, <1>3, TypeCorrect, PTL DEF Spec, RefusedOnlyWhenSpent

==============================================================================
