--------------------------- MODULE UserRateLimiter ---------------------------
(***************************************************************************)
(* globalUserLimiter, the token buckets the gateway keeps per user         *)
(* (apps/gateway/internal/middleware/rate_limit.go), and                   *)
(* UserRateLimitMiddleware: a map under a mutex, from which a request      *)
(* takes its bucket, to ask it for a token only after the mutex is         *)
(* released, and an hourly clean-up that drops the buckets it finds full.  *)
(* The check of a user id, which the JWT middleware has set, is left out.  *)
(* UserRateLimitMiddlewareWithConfig is not modelled: it makes a limiter   *)
(* of its own that no goroutine cleans up.                                 *)
(***************************************************************************)
EXTENDS Integers, FiniteSets

CONSTANTS
    Request,      \* goroutines in the middleware at the same time
    User,
    Bucket,       \* *rate.Limiter objects; one no longer referenced is free again
    None,
    Burst, Rate,  \* 20 tokens, 10 a second
    Period,       \* 1 h between clean-ups
    MaxExcused    \* bound: a user past it stays away until its level is 0

ASSUME LimiterAssumption ==
    /\ IsFiniteSet(Request)
    /\ None \notin Bucket \cup User
    /\ Burst \in Nat \ {0} /\ Rate \in Nat \ {0}
    /\ Period \in Nat \ {0} /\ MaxExcused \in Nat

VARIABLES
    limiters,  \* the map: a user's bucket or None
    tokens,    \* what is in a bucket
    who, held, \* the user of a request, and the bucket it has taken from the map
    pending,   \* users the running clean-up has not visited; it holds the mutex
    judged,    \* the one whose bucket it has found full and will delete
    timer,     \* time to the next clean-up
    (* History, for the properties only. *)
    level,     \* what a user was granted and has not been refilled, over all buckets
    excused    \* requests caught between the map and their token by a clean-up
               \* that dropped the bucket, since level was last 0

map == <<limiters, tokens>>
requests == <<who, held>>
cleaner == <<pending, judged, timer>>
history == <<level, excused>>
vars == <<map, requests, cleaner, history>>

Free == Bucket \ ({limiters[u] : u \in User} \cup {held[r] : r \in Request})

Unlocked == pending = {}

Holders(b) == {r \in Request : held[r] = b}

(* Mistake: a bucket starts empty. *)
NewEmpty == 0

(* rate.NewLimiter starts full. *)
NewTokens == Burst

Init ==
    /\ limiters = [u \in User |-> None]
    /\ tokens = [b \in Bucket |-> Burst]
    /\ who = [r \in Request |-> None] /\ held = [r \in Request |-> None]
    /\ pending = {} /\ judged = None /\ timer = Period
    /\ level = [u \in User |-> 0] /\ excused = [u \in User |-> 0]

(* GetLimiter: the user's bucket, or a new one. *)
GetLimiter(r, u, b) ==
    /\ IF limiters[u] # None THEN b = limiters[u] /\ UNCHANGED map
       ELSE /\ b \in Free
            /\ limiters' = [limiters EXCEPT ![u] = b]
            /\ tokens' = [tokens EXCEPT ![b] = NewTokens]
    /\ who' = [who EXCEPT ![r] = u] /\ held' = [held EXCEPT ![r] = b]

Get(r) ==
    /\ Unlocked
    /\ held[r] = None
    /\ \E u \in User, b \in Bucket :
        /\ excused[u] <= MaxExcused
        /\ GetLimiter(r, u, b)
    /\ UNCHANGED <<cleaner, history>>

Leave(r) == who' = [who EXCEPT ![r] = None] /\ held' = [held EXCEPT ![r] = None]

(* Allow takes a token, on whatever bucket the request holds by now.         *)
Allow(r) ==
    /\ held[r] # None
    /\ tokens[held[r]] > 0
    /\ tokens' = [tokens EXCEPT ![held[r]] = @ - 1]
    /\ level' = [level EXCEPT ![who[r]] = @ + 1]
    /\ Leave(r)
    /\ UNCHANGED <<limiters, cleaner, excused>>

(* 429.                                                                      *)
Refuse(r) ==
    /\ held[r] # None
    /\ tokens[held[r]] = 0
    /\ Leave(r)
    /\ UNCHANGED <<map, cleaner, history>>

------------------------------------------------------------------------------
(* The ticker fires: CleanupInactiveLimiters takes the mutex.                *)
CleanUp ==
    /\ timer = 0 /\ Unlocked
    /\ pending' = {u \in User : limiters[u] # None}
    /\ timer' = Period
    /\ UNCHANGED <<map, requests, judged, history>>

(* Mistake: a bucket with any token left counts as unused. *)
FullEnough(b) == tokens[b] > 0

(* Mistake: a bucket must hold more than it can. *)
FullNever(b) == tokens[b] > Burst

Full(b) == tokens[b] >= Burst

Look(u) ==
    /\ u \in pending /\ judged = None
    /\ IF Full(limiters[u])
       THEN /\ judged' = u
            /\ excused' = [excused EXCEPT ![u] = @ + Cardinality(Holders(limiters[u]))]
            /\ UNCHANGED pending
       ELSE /\ pending' = pending \ {u}
            /\ UNCHANGED <<judged, excused>>
    /\ UNCHANGED <<map, requests, timer, level>>

(* delete(u.limiters, userUUID): a request that holds the bucket may have    *)
(* taken a token by now, or will.                                            *)
Drop ==
    /\ judged # None
    /\ limiters' = [limiters EXCEPT ![judged] = None]
    /\ pending' = pending \ {judged}
    /\ judged' = None
    /\ UNCHANGED <<tokens, requests, timer, history>>

(* Mistake: tokens that are not used are kept for ever. *)
RefillAny(n) == n + Rate

Refill(n) == IF n + Rate > Burst THEN Burst ELSE n + Rate
Drain(n) == IF n > Rate THEN n - Rate ELSE 0

Tick ==
    /\ tokens' = [b \in Bucket |-> Refill(tokens[b])]
    /\ level' = [u \in User |-> Drain(level[u])]
    /\ excused' = [u \in User |-> IF level'[u] = 0 /\ judged # u
                                     /\ {r \in Request : who[r] = u} = {}
                                  THEN 0 ELSE excused[u]]
    /\ timer' = IF timer > 0 THEN timer - 1 ELSE 0
    /\ UNCHANGED <<limiters, requests, pending, judged>>

Next ==
    \/ \E r \in Request : Get(r) \/ Allow(r) \/ Refuse(r)
    \/ CleanUp \/ Drop \/ Tick
    \/ \E u \in User : Look(u)

Spec == Init /\ [][Next]_vars

(* Goroutines run on, the ticker ticks, time passes. *)
FairSpec ==
    /\ Spec
    /\ WF_vars(CleanUp) /\ WF_vars(Drop) /\ WF_vars(Tick)
    /\ \A u \in User : WF_vars(Look(u))
    /\ \A r \in Request : WF_vars(Allow(r) \/ Refuse(r))

------------------------------------------------------------------------------
TypeOK ==
    /\ limiters \in [User -> Bucket \cup {None}]
    /\ tokens \in [Bucket -> 0..Burst]
    /\ who \in [Request -> User \cup {None}]
    /\ held \in [Request -> Bucket \cup {None}]
    /\ pending \subseteq User /\ judged \in pending \cup {None}
    /\ timer \in 0..Period
    /\ level \in [User -> Nat] /\ excused \in [User -> Nat]

(* However requests of a user, refills and clean-ups interleave, the user    *)
(* gets its burst and the rate, over all buckets it ever had, and one token  *)
(* more only for each request that a clean-up caught between taking the      *)
(* bucket from the map and asking it (rate_limit.go:59-62, 112-115).         *)
Conforms == \A u \in User : level[u] <= Burst + excused[u]

(* No request is refused before its user has spent a whole burst, whichever  *)
(* bucket it holds.                                                          *)
RefusedOnlyWhenSpent ==
    [][\A r \in Request : Refuse(r) => level[who[r]] >= Burst]_vars

(* The map of the limiter that InitUserRateLimiter starts the clean-up for   *)
(* (rate_limit.go:81-91) does not grow for ever: a user that has stopped     *)
(* asking is forgotten.                                                      *)
IdleForgotten ==
    \A u \in User :
        <>[](\A r \in Request : who[r] # u) => []<>(limiters[u] = None)

==============================================================================
