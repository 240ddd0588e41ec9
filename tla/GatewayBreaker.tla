---------------------------- MODULE GatewayBreaker ----------------------------
(***************************************************************************)
(* The gateway's circuit breaker around its calls to the user service      *)
(* (apps/gateway/internal/pb/client.go and                                 *)
(* apps/gateway/internal/middleware/circuit_breaker.go).  One gobreaker    *)
(* instance is passed both to the client, whose ExecuteWithBreaker runs    *)
(* every call inside breaker.Execute, and to the connection, whose unary   *)
(* interceptor runs every RPC inside Execute of the same breaker: each     *)
(* call enters the breaker twice, and goroutines interleave in between.    *)
(*                                                                         *)
(* Execute is the library's (sony/gobreaker v1.0.0): beforeRequest and     *)
(* afterRequest each hold its mutex, the request between them does not.    *)
(***************************************************************************)
EXTENDS Naturals, FiniteSets

CONSTANTS
    Caller,        \* goroutines that call the user service
    MaxRequests,   \* 3: admissions while half-open, successes to close
    TripRequests,  \* 5: requests before the breaker may trip
    Interval,      \* 15 s: a closed generation's life
    Timeout,       \* 45 s: how long it stays open
    MaxCounted     \* bound: requests of one closed generation

ASSUME BreakerAssumption ==
    /\ IsFiniteSet(Caller)
    /\ MaxRequests \in Nat \ {0} /\ TripRequests \in Nat
    /\ Interval \in Nat \ {0} /\ Timeout \in Nat \ {0} /\ MaxCounted \in Nat

VARIABLES
    cb,       \* the breaker: its state, the counts of its generation, its expiry
    fresh,    \* entries <<caller, level>> counted in the present generation
    pc,       \* where each call is
    ok,       \* whether its RPC went well
    (* History, for the properties only. *)
    failed,   \* RPCs whose failure was counted since the last closed generation began
    streak,   \* calls that failed since the last one that went well
    straddle  \* in this generation the interceptor admitted a call of an earlier one

history == <<failed, streak, straddle>>
vars == <<cb, fresh, pc, ok, history>>

------------------------------------------------------------------------------
(* The breaker.  Successes matter, and are counted here, only while half-open. *)

Breaker == [state : {"closed", "open", "half-open"}, requests : Nat, failures : Nat,
            successes : Nat, left : Nat]

(* Mistake: a half-open breaker expires as well.                             *)
NewGenerationTimed(state) ==
    [state |-> state, requests |-> 0, failures |-> 0, successes |-> 0,
     left |-> IF state = "closed" THEN Interval ELSE Timeout]

(* toNewGeneration: the counts are cleared; only a half-open breaker has no  *)
(* expiry.                                                                   *)
NewGeneration(state) ==
    [state |-> state, requests |-> 0, failures |-> 0, successes |-> 0,
     left |-> CASE state = "closed" -> Interval
                [] state = "open" -> Timeout
                [] state = "half-open" -> 0]

(* currentState: an expired generation ends when it is next looked at. *)
Expired == cb.left = 0 /\ cb.state # "half-open"
Current ==
    IF Expired THEN NewGeneration(IF cb.state = "open" THEN "half-open" ELSE "closed")
    ELSE cb
CurrentFresh == IF Expired THEN {} ELSE fresh

(* Mistakes: no limit while half-open; failures trip a breaker at once.      *)
AdmitsAlways(b) == b.state # "open"
TripsEarly(b) == 2 * b.failures >= b.requests

(* beforeRequest: ErrOpenState, ErrTooManyRequests, or an entry is counted. *)
Admits(b) == b.state = "closed" \/ (b.state = "half-open" /\ b.requests < MaxRequests)

(* ReadyToTrip of CreateCircuitBreaker. *)
Trips(b) == b.requests >= TripRequests /\ 2 * b.failures >= b.requests

(* Mistake: one success fewer closes the breaker.                            *)
SucceededEarly(b) ==
    IF b.state = "half-open"
    THEN IF b.successes + 1 >= MaxRequests - 1 THEN NewGeneration("closed")
         ELSE [b EXCEPT !.successes = @ + 1]
    ELSE b

(* afterRequest for an entry of the present generation. *)
Succeeded(b) ==
    IF b.state = "half-open"
    THEN IF b.successes + 1 >= MaxRequests THEN NewGeneration("closed")
         ELSE [b EXCEPT !.successes = @ + 1]
    ELSE b
Failed(b) ==
    LET f == [b EXCEPT !.failures = @ + 1] IN
    IF b.state = "half-open" \/ Trips(f) THEN NewGeneration("open") ELSE f

------------------------------------------------------------------------------
Init ==
    /\ cb = NewGeneration("closed")
    /\ fresh = {}
    /\ pc = [c \in Caller |-> "idle"]
    /\ ok = [c \in Caller |-> TRUE]
    /\ failed = 0 /\ streak = 0 /\ straddle = FALSE

(* The entry is counted, and the call goes on to the next stage. *)
Enter(c, level, next) ==
    /\ Admits(Current)
    /\ Current.state = "closed" => Current.requests < MaxCounted
    /\ cb' = [Current EXCEPT !.requests = @ + 1]
    /\ fresh' = CurrentFresh \cup {<<c, level>>}
    /\ pc' = [pc EXCEPT ![c] = next]
    /\ failed' = IF Expired THEN 0 ELSE failed
    /\ UNCHANGED <<ok, streak>>

(* The entry is refused; the breaker may still have noticed an expiry. *)
Refuse(c, next) ==
    /\ ~Admits(Current)
    /\ cb' = Current
    /\ fresh' = CurrentFresh
    /\ pc' = [pc EXCEPT ![c] = next]
    /\ failed' = IF Expired THEN 0 ELSE failed
    /\ straddle' = (straddle /\ ~Expired)
    /\ UNCHANGED streak

(* A method of the client, whichever it is, is one ExecuteWithBreaker: the   *)
(* first entry.                                                              *)
EnterOuter(c) ==
    /\ pc[c] = "idle"
    /\ Enter(c, "outer", "inner")
    /\ straddle' = (straddle /\ ~Expired)

RefuseOuter(c) ==
    /\ pc[c] = "idle"
    /\ Refuse(c, "idle")
    /\ UNCHANGED ok

(* CircuitBreakerInterceptor: the second entry of the same call. *)
EnterInner(c) ==
    /\ pc[c] = "inner"
    /\ Enter(c, "inner", "rpc")
    /\ straddle' = ((straddle /\ ~Expired) \/ <<c, "outer">> \notin CurrentFresh)

RefuseInner(c) ==
    /\ pc[c] = "inner"
    /\ Refuse(c, "leave")
    /\ ok' = [ok EXCEPT ![c] = FALSE]

Closes(b, next) == b.state = "half-open" /\ next.state = "closed"

(* Mistake: an entry is settled whatever generation it was counted in.       *)
SettleAlways(c, level, good) ==
    LET b == IF good THEN Succeeded(Current) ELSE Failed(Current)
        next == Expired \/ b.state # Current.state IN
    /\ cb' = b
    /\ fresh' = IF b.state = Current.state THEN CurrentFresh \ {<<c, level>>} ELSE {}
    /\ failed' = IF Expired \/ Closes(Current, b) THEN 0
                 ELSE failed + IF level = "inner" /\ ~good THEN 1 ELSE 0
    /\ straddle' = (straddle /\ ~next)

(* afterRequest: an entry of an earlier generation is ignored. *)
Settle(c, level, good) ==
    LET counted == <<c, level>> \in CurrentFresh
        b == CASE ~counted -> Current
               [] counted /\ good -> Succeeded(Current)
               [] counted /\ ~good -> Failed(Current)
        next == Expired \/ b.state # Current.state IN
    /\ cb' = b
    /\ fresh' = IF b.state = Current.state THEN CurrentFresh \ {<<c, level>>} ELSE {}
    /\ failed' = IF Expired \/ Closes(Current, b) THEN 0
                 ELSE failed + IF counted /\ level = "inner" /\ ~good THEN 1 ELSE 0
    /\ straddle' = (straddle /\ ~next)

(* The RPC ends: any error counts, a business error of the user service as   *)
(* much as an unreachable one; a panic counts as an error.                   *)
LeaveInner(c) ==
    /\ pc[c] = "rpc"
    /\ \E good \in BOOLEAN :
        /\ Settle(c, "inner", good)
        /\ ok' = [ok EXCEPT ![c] = good]
        /\ streak' = IF good THEN 0 ELSE IF streak > TripRequests THEN streak ELSE streak + 1
    /\ pc' = [pc EXCEPT ![c] = "leave"]

LeaveOuter(c) ==
    /\ pc[c] = "leave"
    /\ Settle(c, "outer", ok[c])
    /\ pc' = [pc EXCEPT ![c] = "idle"]
    /\ ok' = [ok EXCEPT ![c] = TRUE]
    /\ UNCHANGED streak

Tick ==
    /\ cb.left > 0
    /\ cb' = [cb EXCEPT !.left = @ - 1]
    /\ UNCHANGED <<fresh, pc, ok, history>>

Next ==
    \/ Tick
    \/ \E c \in Caller :
        \/ EnterOuter(c) \/ RefuseOuter(c)
        \/ EnterInner(c) \/ RefuseInner(c)
        \/ LeaveInner(c) \/ LeaveOuter(c)

Spec == Init /\ [][Next]_vars

------------------------------------------------------------------------------
TypeOK ==
    /\ cb \in Breaker
    /\ cb.state = "half-open" => cb.left = 0 /\ cb.failures = 0
    /\ cb.state = "open" => cb.requests = 0 /\ cb.left <= Timeout
    /\ cb.state = "closed" => cb.failures <= cb.requests /\ cb.left <= Interval
    /\ cb.successes < MaxRequests
    /\ fresh \subseteq Caller \X {"outer", "inner"}
    /\ pc \in [Caller -> {"idle", "inner", "rpc", "leave"}]
    /\ ok \in [Caller -> BOOLEAN]
    /\ failed \in Nat
    /\ streak \in 0..(TripRequests + 1)
    /\ straddle \in BOOLEAN

(* No entry is lost and none is settled twice: the slots of a half-open      *)
(* breaker are the successes so far and the calls that still hold one, so it *)
(* cannot be left waiting for an answer nobody owes it.                      *)
SlotsAccounted ==
    cb.state = "half-open" =>
        /\ cb.requests = cb.successes + Cardinality(fresh)
        /\ cb.requests <= MaxRequests

(* "At most 3 requests are let through while half-open" (client.go:381),     *)
(* whatever the interleaving of callers and of generations; and because a    *)
(* call is admitted twice, one at a time unless one of them straddles.       *)
HalfOpenProbes ==
    cb.state = "half-open" =>
        Cardinality({c \in Caller : pc[c] = "rpc" /\ <<c, "inner">> \in fresh})
            <= IF straddle THEN MaxRequests ELSE MaxRequests \div 2

(* One failing call is not enough to open the breaker, although every call   *)
(* is counted twice, calls in flight are counted before they end, and late   *)
(* answers arrive in other generations.                                      *)
OneFailureNeverTrips ==
    [][cb.state = "closed" /\ cb'.state = "open" => failed' >= 2]_vars

(* The two entries of a call use up two of the three slots, so the second    *)
(* call of a half-open breaker is refused by the interceptor and opens it    *)
(* again.  It closes only if the interceptor also admitted a call that had   *)
(* passed ExecuteWithBreaker before the breaker became half-open, that is,   *)
(* a call held up between the two for the whole timeout.                     *)
ClosesOnlyByStraddler ==
    [][cb.state = "half-open" /\ cb'.state = "closed" => straddle]_vars

(* client.go:385: the breaker trips after more than 5 consecutive failures.  *)
TripsAfterFive ==
    [][cb.state = "closed" /\ cb'.state = "open" => streak' > TripRequests]_vars

==============================================================================
