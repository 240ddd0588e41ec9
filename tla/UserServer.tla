----------------------------- MODULE UserServer -----------------------------
(***************************************************************************)
(* The user service as a process (apps/user/cmd/main.go and                *)
(* apps/user/internal/server/grpc_server.go): start-up with or without     *)
(* Redis, the interceptor chain Recovery, RateLimit, Metrics, Logging      *)
(* around every handler (apps/user/internal/interceptors), graceful stop   *)
(* with its time limit, and death.  What the handlers do to Redis and      *)
(* MySQL is in the modules SendLimit, CodeUse and DeviceTokens; here a     *)
(* handler is the code it returns.                                         *)
(***************************************************************************)
EXTENDS Integers, FiniteSets

CONSTANTS
    Call,        \* RPCs that may reach the server
    Burst, Rate, \* 2500 tokens, 1500 a second
    Grace,       \* 10 s for the calls in progress
    MaxStops     \* bound: signals and deaths

ASSUME ServerAssumption ==
    /\ IsFiniteSet(Call)
    /\ Burst \in Nat \ {0} /\ Rate \in Nat /\ Grace \in Nat \ {0} /\ MaxStops \in Nat

VARIABLES
    phase,      \* "down", "serving" or "draining"
    drain,      \* time left to the calls in progress, before Stop is tried
    redis,      \* pkgredis.Build succeeded: the repositories have a client
    bucket,     \* tokens of the global limiter
    executing,  \* calls whose handler runs
    gauge,      \* grpc_request_in_flight
    stops

serverVars == <<phase, drain, redis, bucket, executing, gauge, stops>>

(* gRPC codes. *)
OK == 0
InvalidArgument == 3
DeadlineExceeded == 4
NotFound == 5
AlreadyExists == 6
PermissionDenied == 7
ResourceExhausted == 8
FailedPrecondition == 9
Internal == 13
Unauthenticated == 16

------------------------------------------------------------------------------
(* Errors, from the drivers to the caller (repository/errors.go).            *)

(* What a query and a command may fail with.  "MySQLError" is the driver's   *)
(* own, a duplicate key (1062) included: mysql.Build does not set gorm's     *)
(* TranslateError, so ErrDuplicatedKey is never reported.                    *)
DBFailure == {"ErrRecordNotFound", "MySQLError", "connection"}
RedisFailure == {"Nil", "connection"}

dbErrorRules == [ErrRecordNotFound |-> "ErrRecordNotFound",
                 ErrDuplicatedKey |-> "ErrDuplicateKey"]
redisErrorRules == [Nil |-> "ErrRedisNil"]

wrapError(err, rules, defaultErr) ==
    IF err \in DOMAIN rules THEN rules[err] ELSE defaultErr

WrapDBError(err) == wrapError(err, dbErrorRules, "ErrDatabase")
WrapRedisError(err) == wrapError(err, redisErrorRules, "ErrRedis")

(* A handler looks for one error of the repository; the others are Internal. *)
Telling(err, known, code) == IF err = known THEN code ELSE Internal

GetByEmailCodes ==
    {Telling(WrapDBError(e), "ErrRecordNotFound", NotFound) : e \in DBFailure}
CreateCodes ==
    {Telling(WrapDBError(e), "ErrDuplicateKey", AlreadyExists) : e \in DBFailure}
VerifyVerifyCodeCodes ==
    {Telling(WrapRedisError(e), "ErrRedisNil", Unauthenticated) : e \in RedisFailure}
GetRefreshTokenCodes ==
    {Telling(WrapRedisError(e), "ErrRedisNil", NotFound) : e \in RedisFailure}

(* The errors of each handler of user.AuthService: those of its queries, and *)
(* its own refusals.                                                         *)
RegisterCodes == VerifyVerifyCodeCodes \cup CreateCodes \cup {Unauthenticated}
LoginCodes == GetByEmailCodes \cup {PermissionDenied, Unauthenticated}
LoginByCodeCodes ==
    GetByEmailCodes \cup VerifyVerifyCodeCodes \cup {PermissionDenied, Unauthenticated}
SendVerifyCodeCodes == {InvalidArgument, ResourceExhausted, Internal}
VerifyCodeCodes == VerifyVerifyCodeCodes

(* Mistake: as the comment above RefreshToken announces it.                  *)
RefreshTokenCodesAnnounced == GetRefreshTokenCodes \cup {InvalidArgument, DeadlineExceeded}

RefreshTokenCodes == GetRefreshTokenCodes \cup {InvalidArgument}
LogoutCodes == {Internal}
ResetPasswordCodes ==
    GetByEmailCodes \cup VerifyVerifyCodeCodes \cup {Unauthenticated, FailedPrecondition}

(* What is told apart from Internal. *)
RefusalCode ==
    (RegisterCodes \cup LoginCodes \cup LoginByCodeCodes \cup SendVerifyCodeCodes
     \cup VerifyCodeCodes \cup RefreshTokenCodes \cup LogoutCodes \cup ResetPasswordCodes)
    \ {Internal}

------------------------------------------------------------------------------
ServerInit ==
    /\ phase = "down" /\ drain = 0 /\ redis = FALSE
    /\ bucket = 0 /\ executing = {} /\ gauge = 0 /\ stops = 0

(* main: MySQL must be there, Redis need not.                                *)
Boot ==
    /\ phase = "down"
    /\ phase' = "serving"
    /\ redis' \in BOOLEAN
    /\ bucket' = Burst /\ gauge' = 0
    /\ UNCHANGED <<drain, executing, stops>>

(* The listener closes with the signal, but streams opened before the client *)
(* reads the GOAWAY are still served.                                        *)
Accepting == phase = "serving" \/ (phase = "draining" /\ drain = Grace)

(* RateLimitUnaryInterceptor takes a token; MetricsUnaryInterceptor counts   *)
(* the call in.                                                              *)
Admit(c) ==
    /\ Accepting /\ bucket > 0
    /\ bucket' = bucket - 1
    /\ executing' = executing \cup {c}
    /\ gauge' = gauge + 1
    /\ UNCHANGED <<phase, drain, redis, stops>>

Exhausted == Accepting /\ bucket = 0 /\ UNCHANGED serverVars

(* The handler returns, and the deferred Dec runs.                           *)
Finish(c) ==
    /\ c \in executing
    /\ executing' = executing \ {c}
    /\ gauge' = gauge - 1
    /\ UNCHANGED <<phase, drain, redis, bucket, stops>>

(* Without Redis no handler succeeds: each either fails first for its own    *)
(* reasons or dereferences the nil client.                                   *)
Completes(c, code) ==
    /\ Finish(c)
    /\ code = OK => redis

(* Mistake: the call is counted out after the handler instead of deferred.   *)
PanicsCounted(c) ==
    /\ ~redis
    /\ c \in executing
    /\ executing' = executing \ {c}
    /\ UNCHANGED <<phase, drain, redis, bucket, gauge, stops>>

(* The nil dereference; RecoveryUnaryInterceptor makes it Internal.          *)
Panics(c) == ~redis /\ Finish(c)

(* Mistake: Stop at once.                                                    *)
SignalStops ==
    /\ phase = "serving"
    /\ stops < MaxStops
    /\ phase' = "draining" /\ drain' = 0 /\ stops' = stops + 1
    /\ UNCHANGED <<redis, bucket, executing, gauge>>

(* SIGINT or SIGTERM. *)
Signal ==
    /\ phase = "serving"
    /\ stops < MaxStops
    /\ phase' = "draining" /\ drain' = Grace /\ stops' = stops + 1
    /\ UNCHANGED <<redis, bucket, executing, gauge>>

(* Serve returns and main with it. *)
Exit == phase' = "down" /\ drain' = 0 /\ executing' = {} /\ UNCHANGED <<redis, bucket, gauge>>

(* Mistake: after the timer, nobody listens for GracefulStop's end.          *)
DrainDoneInTime ==
    phase = "draining" /\ drain > 0 /\ executing = {} /\ Exit /\ UNCHANGED stops

(* GracefulStop waits for every handler, also those whose caller is gone.    *)
DrainDone == phase = "draining" /\ executing = {} /\ Exit /\ UNCHANGED stops

(* "graceful stop timeout, force stop": Stop gets the server's lock, and the *)
(* process leaves its handlers behind, if a connection is still open.  If    *)
(* none is, GracefulStop holds the lock while it waits for the handlers, and *)
(* Stop only waits with it: this step need not happen.                       *)
ForceStop == phase = "draining" /\ drain = 0 /\ Exit /\ UNCHANGED stops

(* The process is killed. *)
Kill ==
    /\ phase # "down"
    /\ stops < MaxStops
    /\ stops' = stops + 1
    /\ Exit

DrainAged == drain' = IF phase = "draining" /\ drain > 0 THEN drain - 1 ELSE drain

(* Mistake: tokens that are not used are kept for ever.                      *)
RefilledAny == bucket + Rate

Refilled == IF bucket + Rate > Burst THEN Burst ELSE bucket + Rate

ServerTick ==
    /\ DrainAged
    /\ bucket' = IF phase = "down" THEN bucket ELSE Refilled
    /\ UNCHANGED <<phase, redis, executing, gauge, stops>>

------------------------------------------------------------------------------
ServerTypeOK ==
    /\ phase \in {"down", "serving", "draining"}
    /\ drain \in 0..Grace
    /\ redis \in BOOLEAN
    /\ bucket \in 0..Burst
    /\ executing \subseteq Call
    /\ gauge \in Int
    /\ stops \in 0..MaxStops

(* The gauge an operator watches is the number of handlers that run, however *)
(* they ended: returned, panicked, or with an earlier process.               *)
GaugeExact == phase # "down" => gauge = Cardinality(executing)

==============================================================================
