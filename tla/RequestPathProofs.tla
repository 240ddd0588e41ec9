-------------------------- MODULE RequestPathProofs --------------------------
(* Proofs about RequestPath and the UserServer in it, for every number of    *)
(* requests and attempts, every deadline and time to stop in, every burst    *)
(* and rate, and every number of stops and lost connections.                 *)
EXTENDS RequestPath, FiniteSetTheorems, TLAPS

------------------------------------------------------------------------------
(* Codes. *)

(* A missing row and a missing key are told from other failures; a duplicate *)
(* key is not.                                                               *)
LEMMA RepositoryErrors ==
    /\ WrapDBError("ErrRecordNotFound") = "ErrRecordNotFound"
    /\ WrapDBError("MySQLError") = "ErrDatabase"
    /\ WrapDBError("connection") = "ErrDatabase"
    /\ WrapRedisError("Nil") = "ErrRedisNil"
    /\ WrapRedisError("connection") = "ErrRedis"
BY DEF WrapDBError, WrapRedisError, wrapError, dbErrorRules, redisErrorRules

(* No handler refuses with a code of the retry policy.                       *)
LEMMA HandlerCodes == HandlerCode = {OK, Internal, Unauthenticated}
<1> USE DEF OK, InvalidArgument, DeadlineExceeded, NotFound, AlreadyExists,
        PermissionDenied, ResourceExhausted, FailedPrecondition, Internal,
        Unauthenticated, Unknown, Unavailable
<1>1. /\ GetByEmailCodes = {NotFound, Internal}
      /\ CreateCodes = {Internal}
      /\ VerifyVerifyCodeCodes = {Unauthenticated, Internal}
      /\ GetRefreshTokenCodes = {NotFound, Internal}
  BY RepositoryErrors
     DEF GetByEmailCodes, CreateCodes, VerifyVerifyCodeCodes, GetRefreshTokenCodes,
         Telling, DBFailure, RedisFailure
<1>2. RefusalCode = {InvalidArgument, NotFound, PermissionDenied, ResourceExhausted,
                     FailedPrecondition, Unauthenticated}
  BY <1>1
     DEF RefusalCode, RegisterCodes, LoginCodes, LoginByCodeCodes, SendVerifyCodeCodes,
         VerifyCodeCodes, RefreshTokenCodes, LogoutCodes, ResetPasswordCodes
<1>3. \A code \in RefusalCode : Treated(code) = Unauthenticated
  BY <1>2 DEF Treated, Retryable
<1>4. Unauthenticated \in RefusalCode
  BY <1>2
<1> QED
  BY <1>3, <1>4 DEF HandlerCode

(* What the gateway may hold as a reply to an attempt. *)
Reply == {OK, Internal, Unauthenticated, ResourceExhausted}

LEMMA ReplyNotRetryable ==
    /\ HandlerCode \cup {ResourceExhausted, None} = Reply \cup {None}
    /\ Reply \subseteq Int /\ None \notin Reply
    /\ Reply \cap Retryable = {}
BY HandlerCodes, PathAssumption
   DEF Reply, OK, Internal, Unauthenticated, ResourceExhausted, Retryable, Unknown,
       DeadlineExceeded, Unavailable

(* How an RPC ends for the handler of the gateway. *)
Outcome == Reply \cup Retryable \cup {Cancelled, Plain}

(* An answer to an RPC is success for OK and an internal error for the rest. *)
LEMMA AnswerToCodes ==
    ASSUME NEW code \in Outcome
    PROVE  /\ AnswerTo(code) \in {Success, InternalError}
           /\ AnswerTo(code) = Success => code = OK
BY DEF Outcome, Plain, Reply, AnswerTo, IsNonServerError, ExtractErrorCode, Success, InternalError, OK,
       Internal, Unauthenticated, ResourceExhausted, Retryable, Unknown, DeadlineExceeded,
       Unavailable, Cancelled

------------------------------------------------------------------------------
(* Attempts and handlers. *)

(* Attempts are numbered as they are made, and a handler runs for one of     *)
(* them that was sent.                                                       *)
Numbered ==
    /\ \A q \in Request : stage[q] = "idle" => attempt[q] = 0
    /\ \A q \in Waiting : attempt[q] >= 1
    /\ \A c \in ran : /\ c[2] <= attempt[c[1]]
                      /\ stage[c[1]] = "call" => c[2] < attempt[c[1]]
    /\ executing \subseteq ran

LEMMA CallPairs ==
    /\ \A c \in Call : c[1] \in Request /\ c[2] \in 1..MaxAttempts /\ c = <<c[1], c[2]>>
    /\ \A q \in Request, n \in 1..MaxAttempts : <<q, n>> \in Call
BY PathAssumption

LEMMA ServerTypeStep ==
    ASSUME ServerTypeOK
    PROVE  /\ Boot \/ Signal \/ DrainDone \/ ForceStop \/ Kill => ServerTypeOK'
           /\ ServerTick => ServerTypeOK'
           /\ \A c \in Call : Admit(c) \/ Finish(c) => ServerTypeOK'
           /\ UNCHANGED serverVars => ServerTypeOK'
<1> USE ServerAssumption DEF ServerTypeOK
<1>1. Boot \/ Signal \/ DrainDone \/ ForceStop \/ Kill => ServerTypeOK'
  BY DEF Boot, Signal, DrainDone, ForceStop, Kill, Exit
<1>2. ServerTick => ServerTypeOK'
  BY DEF ServerTick, DrainAged, Refilled
<1>3. \A c \in Call : Admit(c) \/ Finish(c) => ServerTypeOK'
  BY DEF Admit, Finish
<1>4. UNCHANGED serverVars => ServerTypeOK'
  BY DEF serverVars
<1> QED
  BY <1>1, <1>2, <1>3, <1>4

(* What every route is refused with, and what its service makes of OK.       *)
LEMMA RouteFields ==
    \A route \in Routes : /\ route.refusals \subseteq {ParamError, HTTPUnauthorized}
                          /\ route.results \subseteq {OK, Plain}
BY DEF Routes, Login, Register, SendVerifyCode, LoginByCode, Logout, ResetPassword,
       RefreshToken, VerifyCode, LoginResults, RegisterResults, SendVerifyCodeResults,
       LoginByCodeResults, LogoutResults, ResetPasswordResults, RefreshTokenResults,
       VerifyCodeResults, JWTRefusals

(* A reply is sent anew or answered as it is, or OK is answered as an error. *)
LEMMA DeliverCases ==
    ASSUME TypeOK, NEW q \in Request, Deliver(q)
    PROVE  \/ Settle(q, reply[q]) \/ Respond(q, AnswerTo(reply[q]))
           \/ Respond(q, AnswerTo(Plain))
<1>1. CASE reply[q] = OK
  <2>1. PICK err \in results[q] : Respond(q, AnswerTo(err))
    BY <1>1 DEF Deliver
  <2>2. err = OK \/ err = Plain
    BY DEF TypeOK
  <2> QED
    BY <1>1, <2>1, <2>2
<1>2. CASE reply[q] # OK
  BY <1>2 DEF Deliver
<1> QED
  BY <1>1, <1>2

(* What a step does to the requests, as far as the types go.                 *)
LEMMA SettleType ==
    ASSUME TypeOK, NEW q \in Waiting, NEW code \in Outcome,
           Settle(q, code) \/ Respond(q, AnswerTo(code))
    PROVE  /\ stage' \in [Request -> {"idle", "call", "sent", "done"}]
           /\ attempt' \in [Request -> 0..MaxAttempts]
           /\ left' \in [Request -> 0..Deadline]
           /\ reply' \in [Request -> HandlerCode \cup {ResourceExhausted, None}]
           /\ results' \in [Request -> SUBSET {OK, Plain}]
           /\ answer' \in [Request -> {Success, HTTPUnauthorized, ParamError,
                                       InternalError, None}]
<1> USE PathAssumption DEF TypeOK, Waiting
<1>1. CASE Respond(q, AnswerTo(code))
  <2>1. AnswerTo(code) \in {Success, InternalError}
    BY AnswerToCodes
  <2> QED
    BY <1>1, <2>1 DEF Respond
<1>2. CASE ~Respond(q, AnswerTo(code))
  BY <1>2 DEF Settle
<1> QED
  BY <1>1, <1>2

LEMMA TypeStep == TypeOK /\ Numbered /\ [Next]_vars => TypeOK'
<1> SUFFICES ASSUME TypeOK, Numbered, [Next]_vars PROVE TypeOK'
  OBVIOUS
<1> USE PathAssumption DEF TypeOK, pathVars, history
<1>1. CASE ServerStep
  BY <1>1, ServerTypeStep DEF ServerStep
<1>2. CASE Tick
  <2>1. ServerTypeOK'
    BY <1>2, ServerTypeStep DEF Tick
  <2>2. \A q \in Request : Aged(q) \in 0..Deadline
    BY <1>2 DEF Tick, Aged
  <2> QED
    BY <1>2, <2>1, <2>2 DEF Tick
<1>3. CASE Shutdown
  BY <1>3, ServerTypeStep DEF Shutdown
<1>4. CASE GatewayExit
  BY <1>4, ServerTypeStep DEF GatewayExit
<1>5. ASSUME NEW q \in Request, Reject(q) PROVE TypeOK'
  BY <1>5, RouteFields, ServerTypeStep DEF Reject, Respond
<1>6. ASSUME NEW q \in Request, BreakerRefuses(q) PROVE TypeOK'
  <2>1. AnswerTo(Plain) \in {Success, InternalError}
    BY AnswerToCodes DEF Outcome
  <2> QED
    BY <1>6, <2>1, ServerTypeStep DEF BreakerRefuses, Respond
<1>7. ASSUME NEW q \in Request, Begin(q) PROVE TypeOK'
  BY <1>7, RouteFields, ServerTypeStep DEF Begin
<1>8. ASSUME NEW q \in Request, Arrive(q) PROVE TypeOK'
  <2>1. attempt[q] \in 1..MaxAttempts
    BY <1>8 DEF Arrive, Numbered, Waiting
  <2>2. <<q, attempt[q]>> \in Call
    BY <2>1, CallPairs
  <2>3. ServerTypeOK'
    BY <1>8, <2>2, ServerTypeStep DEF Arrive, Exhausted
  <2> QED
    BY <1>8, <2>2, <2>3 DEF Arrive
<1>9. ASSUME NEW q \in Request, Deliver(q) PROVE TypeOK'
  <2>1. q \in Waiting /\ {reply[q], Plain} \subseteq Outcome
    BY <1>9, ReplyNotRetryable DEF Deliver, Waiting, Outcome
  <2>2. Settle(q, reply[q]) \/ Respond(q, AnswerTo(reply[q])) \/ Respond(q, AnswerTo(Plain))
    BY <1>9, DeliverCases
  <2>3. UNCHANGED <<serverVars, gateway, httpLeft, history>>
    BY <1>9 DEF Deliver
  <2> QED
    BY <2>1, <2>2, <2>3, SettleType, ServerTypeStep
<1>10. ASSUME NEW q \in Request, Lose(q) PROVE TypeOK'
  <2>1. lost' \in [Request -> Nat] /\ broken' \in 0..MaxLost
    BY <1>10 DEF Lose
  <2>2. Unavailable \in Outcome
    BY DEF Retryable, Outcome
  <2> QED
    BY <1>10, <2>1, <2>2, SettleType, ServerTypeStep DEF Lose
<1>11. ASSUME NEW q \in Request, TimeOut(q) PROVE TypeOK'
  <2>1. DeadlineExceeded \in Outcome
    BY DEF Retryable, Outcome
  <2> QED
    BY <1>11, <2>1, SettleType, ServerTypeStep DEF TimeOut
<1>12. ASSUME NEW q \in Request, HangUp(q) PROVE TypeOK'
  BY <1>12, SettleType, ServerTypeStep DEF HangUp, Outcome
<1>13. ASSUME NEW c \in Call, Handled(c) PROVE TypeOK'
  <2>1. c[1] \in Request /\ c \in ran
    BY <1>13, CallPairs DEF Handled, Completes, Finish, Numbered
  <2> QED
    BY <1>13, <2>1, ServerTypeStep DEF Handled, Completes, Replied
<1>14. ASSUME NEW c \in Call, Panicked(c) PROVE TypeOK'
  BY <1>14, CallPairs, HandlerCodes, ServerTypeStep DEF Panicked, Panics, Replied
<1>15. CASE UNCHANGED vars
  BY <1>15, ServerTypeStep DEF vars
<1> QED
  BY <1>1, <1>2, <1>3, <1>4, <1>5, <1>6, <1>7, <1>8, <1>9, <1>10, <1>11, <1>12, <1>13,
     <1>14, <1>15 DEF Next

LEMMA NumberedStep == TypeOK /\ Numbered /\ [Next]_vars => Numbered'
<1> SUFFICES ASSUME TypeOK, Numbered, [Next]_vars PROVE Numbered'
  OBVIOUS
<1> USE PathAssumption, CallPairs
    DEF TypeOK, ServerTypeOK, Numbered, pathVars, serverVars, history, Waiting
<1>1. CASE ServerStep
  BY <1>1 DEF ServerStep, Boot, Signal, DrainDone, ForceStop, Kill, Exit
<1>2. CASE Tick
  BY <1>2 DEF Tick, ServerTick
<1>3. CASE Shutdown
  BY <1>3 DEF Shutdown
<1>4. CASE GatewayExit
  BY <1>4 DEF GatewayExit
<1>5. ASSUME NEW q \in Request, Reject(q) PROVE Numbered'
  BY <1>5 DEF Reject, Respond
<1>6. ASSUME NEW q \in Request, BreakerRefuses(q) PROVE Numbered'
  BY <1>6 DEF BreakerRefuses, Respond
<1>7. ASSUME NEW q \in Request, Begin(q) PROVE Numbered'
  BY <1>7 DEF Begin
<1>8. ASSUME NEW q \in Request, Arrive(q) PROVE Numbered'
  BY <1>8 DEF Arrive, Admit, Exhausted
<1>9. ASSUME NEW q \in Request, Deliver(q) PROVE Numbered'
  BY <1>9 DEF Deliver, Settle, Respond
<1>10. ASSUME NEW q \in Request, Lose(q) PROVE Numbered'
  BY <1>10 DEF Lose, Settle, Respond
<1>11. ASSUME NEW q \in Request, TimeOut(q) PROVE Numbered'
  BY <1>11 DEF TimeOut, Respond
<1>12. ASSUME NEW q \in Request, HangUp(q) PROVE Numbered'
  BY <1>12 DEF HangUp, Respond
<1>13. ASSUME NEW c \in Call, Handled(c) PROVE Numbered'
  BY <1>13 DEF Handled, Completes, Finish
<1>14. ASSUME NEW c \in Call, Panicked(c) PROVE Numbered'
  BY <1>14 DEF Panicked, Panics, Finish
<1>15. CASE UNCHANGED vars
  BY <1>15 DEF vars
<1> QED
  BY <1>1, <1>2, <1>3, <1>4, <1>5, <1>6, <1>7, <1>8, <1>9, <1>10, <1>11, <1>12, <1>13,
     <1>14, <1>15 DEF Next

LEMMA InitTyped == Init => TypeOK /\ Numbered
<1> SUFFICES ASSUME Init PROVE TypeOK /\ Numbered
  OBVIOUS
<1>1. ServerTypeOK
  <2>1. 0 \in Int /\ 0 \in 0..Grace /\ 0 \in 0..Burst /\ 0 \in 0..MaxStops
    BY ServerAssumption
  <2>2. ServerInit
    BY DEF Init
  <2> QED
    BY <2>1, <2>2, Zenon DEF ServerInit, ServerTypeOK
<1>2. TypeOK
  BY <1>1, PathAssumption DEF Init, TypeOK
<1>3. Numbered
  BY DEF Init, ServerInit, Numbered, Waiting
<1> QED
  BY <1>2, <1>3

LEMMA Typed == Spec => [](TypeOK /\ Numbered)
BY InitTyped, TypeStep, NumberedStep, PTL DEF Spec

(* Every variable keeps its type: no timer runs below zero, the limiter      *)
(* never holds more than its burst, no request is sent more often than the   *)
(* policy's maxAttempts, and no code of the policy comes back as a reply.    *)
THEOREM TypeCorrect == Spec => []TypeOK
BY Typed, PTL

------------------------------------------------------------------------------
(* The gauge. *)

LEMMA ExecutingFinite ==
    ASSUME ServerTypeOK PROVE IsFiniteSet(executing) /\ Cardinality(executing) \in Nat
BY ServerAssumption, FS_Subset, FS_CardinalityType DEF ServerTypeOK

(* A handler that ends was counted in when it started. *)
LEMMA FinishGauge ==
    ASSUME ServerTypeOK, GaugeExact, NEW c, Finish(c) PROVE GaugeExact'
<1>1. Cardinality(executing \ {c}) = Cardinality(executing) - 1
  BY ExecutingFinite, FS_RemoveElement DEF Finish
<1> QED
  BY <1>1, ExecutingFinite DEF Finish, GaugeExact

(* One that starts is not counted already. *)
LEMMA AdmitGauge ==
    ASSUME ServerTypeOK, GaugeExact, NEW c, c \notin executing, Admit(c) PROVE GaugeExact'
<1>1. Cardinality(executing \cup {c}) = Cardinality(executing) + 1
  BY ExecutingFinite, FS_AddElement
<1>2. phase # "down"
  BY DEF Admit, Accepting
<1> QED
  BY <1>1, <1>2, ExecutingFinite DEF Admit, GaugeExact

(* A process that is down runs nothing: the next one starts from nothing. *)
DownRunsNothing == phase = "down" => executing = {}

LEMMA GaugeStep ==
    TypeOK /\ Numbered /\ GaugeExact /\ DownRunsNothing /\ [Next]_vars
        => GaugeExact' /\ DownRunsNothing'
<1> SUFFICES ASSUME TypeOK, Numbered, GaugeExact, DownRunsNothing, [Next]_vars
             PROVE  GaugeExact' /\ DownRunsNothing'
  OBVIOUS
<1>1. ServerTypeOK
  BY DEF TypeOK
<1>2. CASE ServerStep
  <2>1. CASE Boot
    BY <2>1, FS_EmptySet DEF Boot, GaugeExact, DownRunsNothing
  <2>2. CASE ~Boot
    BY <1>2, <2>2 DEF ServerStep, Signal, DrainDone, ForceStop, Kill, Exit, GaugeExact,
                      DownRunsNothing
  <2> QED
    BY <2>1, <2>2
<1>3. ASSUME NEW q \in Request, Arrive(q) PROVE GaugeExact' /\ DownRunsNothing'
  <2>1. CASE Admit(<<q, attempt[q]>>)
    <3>1. <<q, attempt[q]>> \notin executing
      BY <1>1, <1>3, CallPairs DEF Arrive, Numbered, TypeOK, ServerTypeOK
    <3> QED
      BY <1>1, <2>1, <3>1, AdmitGauge DEF Admit, Accepting, DownRunsNothing
  <2>2. CASE ~Admit(<<q, attempt[q]>>)
    BY <1>3, <2>2 DEF Arrive, Exhausted, serverVars, GaugeExact, DownRunsNothing
  <2> QED
    BY <2>1, <2>2
<1>4. ASSUME NEW c \in Call, Handled(c) \/ Panicked(c)
      PROVE  GaugeExact' /\ DownRunsNothing'
  <2>1. Finish(c)
    BY <1>4 DEF Handled, Completes, Panicked, Panics
  <2> QED
    BY <1>1, <2>1, FinishGauge DEF Finish, DownRunsNothing
<1>5. CASE Tick
  BY <1>5 DEF Tick, ServerTick, GaugeExact, DownRunsNothing
<1>6. CASE UNCHANGED serverVars
  BY <1>6 DEF serverVars, GaugeExact, DownRunsNothing
<1>7. \/ ServerStep \/ Tick \/ UNCHANGED serverVars
      \/ \E q \in Request : Arrive(q)
      \/ \E c \in Call : Handled(c) \/ Panicked(c)
  BY DEF Next, vars, Shutdown, GatewayExit, Reject, BreakerRefuses, Begin, Deliver, Lose,
         TimeOut, HangUp
<1> QED
  BY <1>2, <1>3, <1>4, <1>5, <1>6, <1>7

(* grpc_request_in_flight is the number of handlers that run, for any number *)
(* of calls: returned, panicked, or of a process that died.                  *)
THEOREM InFlightExact == Spec => []GaugeExact
<1>1. Init => GaugeExact /\ DownRunsNothing
  BY DEF Init, ServerInit, GaugeExact, DownRunsNothing
<1> QED
  BY <1>1, GaugeStep, Typed, PTL DEF Spec

------------------------------------------------------------------------------
(* How often a handler is run. *)

(* Only a lost connection makes another attempt.                             *)
Excused == \A q \in Request : attempt[q] <= 1 + lost[q]

LEMMA ExcusedStep == TypeOK /\ Numbered /\ Excused /\ [Next]_vars => Excused'
<1> SUFFICES ASSUME TypeOK, Numbered, Excused, [Next]_vars PROVE Excused'
  OBVIOUS
<1> USE DEF TypeOK, Excused, pathVars, history
<1>1. ASSUME NEW q \in Request, Begin(q) PROVE Excused'
  BY <1>1 DEF Begin
<1>2. ASSUME NEW q \in Request, Deliver(q) PROVE Excused'
  <2>1. reply[q] \in Reply /\ reply[q] \notin Retryable
    BY <1>2, ReplyNotRetryable DEF Deliver
  <2> QED
    BY <1>2, <2>1 DEF Deliver, Settle, Respond
<1>3. ASSUME NEW q \in Request, Lose(q) PROVE Excused'
  BY <1>3, PathAssumption DEF Lose, Settle, Respond
<1>4. CASE UNCHANGED <<attempt, lost>>
  BY <1>4
<1>5. \/ UNCHANGED <<attempt, lost>>
      \/ \E q \in Request : Begin(q) \/ Deliver(q) \/ Lose(q)
  BY DEF Next, vars, ServerStep, Tick, Shutdown, GatewayExit, Reject, BreakerRefuses, Arrive,
         TimeOut, HangUp, Respond, Handled, Panicked
<1> QED
  BY <1>1, <1>2, <1>3, <1>4, <1>5

(* The handlers run for a request are of different attempts.                 *)
LEMMA RunsPerAttempt ==
    ASSUME TypeOK, Numbered, NEW q \in Request
    PROVE  Cardinality(RunsOf(q)) \in 0..attempt[q]
<1> DEFINE number == [c \in RunsOf(q) |-> c[2]]
<1>1. attempt[q] \in Nat
  BY PathAssumption DEF TypeOK
<1>2. IsFiniteSet(1..attempt[q]) /\ Cardinality(1..attempt[q]) = attempt[q]
  BY <1>1, FS_Interval
<1>3. \A c \in RunsOf(q) : c = <<q, c[2]>> /\ c[2] \in 1..attempt[q]
  BY <1>1, CallPairs, PathAssumption DEF RunsOf, Numbered, TypeOK
<1>4. number \in Injection(RunsOf(q), 1..attempt[q])
  BY <1>3 DEF Injection, IsInjective
<1> HIDE DEF number
<1>5. IsFiniteSet(RunsOf(q)) /\ Cardinality(RunsOf(q)) <= attempt[q]
  BY <1>2, <1>4, FS_Injection
<1> QED
  BY <1>1, <1>5, FS_CardinalityType

(* Whatever is lost or late, and with any number of attempts: a handler is   *)
(* run at most once for a request, and once more for each connection that    *)
(* broke under one of its attempts.                                          *)
THEOREM NoNeedlessRun == Spec => []RunsBounded
<1>1. Init => Excused
  BY DEF Init, Excused
<1>2. TypeOK /\ Numbered /\ Excused => RunsBounded
  <2> SUFFICES ASSUME TypeOK, Numbered, Excused, NEW q \in Request
               PROVE  Cardinality(RunsOf(q)) <= 1 + lost[q]
    BY DEF RunsBounded
  <2>1. attempt[q] \in Int /\ lost[q] \in Int /\ attempt[q] <= 1 + lost[q]
    BY DEF TypeOK, Excused
  <2>2. Cardinality(RunsOf(q)) \in 0..attempt[q]
    BY RunsPerAttempt
  <2> QED
    BY <2>1, <2>2
<1> QED
  BY <1>1, <1>2, ExcusedStep, Typed, PTL DEF Spec

------------------------------------------------------------------------------
(* What the HTTP client is told. *)

(* A reply of success is a handler's, and who is answered is done.           *)
RepliesTrue ==
    \A q \in Request :
        /\ reply[q] = OK => \E c \in good : c[1] = q
        /\ answer[q] # None => stage[q] = "done"

LEMMA UntouchedRuns ==
    ASSUME TypeOK, Numbered, NEW q \in Request, stage[q] = "idle"
    PROVE  RunsOf(q) = {}
BY CallPairs DEF TypeOK, Numbered, RunsOf

(* The answer to an attempt: success if a handler succeeded.                 *)
LEMMA RespondTrue ==
    ASSUME TypeOK, AnswersTrue, RepliesTrue, NEW q \in Request, stage[q] # "done",
           NEW code \in Outcome,
           code = OK => \E c \in good : c[1] = q,
           Settle(q, code) \/ Respond(q, AnswerTo(code)), UNCHANGED <<ran, good>>
    PROVE  AnswersTrue' /\ RepliesTrue'
<1>1. AnswerTo(code) = Success => \E c \in good : c[1] = q
  BY AnswerToCodes
<1>2. AnswerTo(code) \notin {HTTPUnauthorized, ParamError}
  BY AnswerToCodes DEF Success, InternalError, HTTPUnauthorized, ParamError
<1>3. None # OK
  BY PathAssumption DEF OK
<1> HIDE DEF AnswerTo
<1>4. CASE Respond(q, AnswerTo(code))
  BY <1>1, <1>2, <1>3, <1>4 DEF Respond, AnswersTrue, RepliesTrue, RunsOf, TypeOK
<1>5. CASE ~Respond(q, AnswerTo(code))
  BY <1>3, <1>5 DEF Settle, AnswersTrue, RepliesTrue, RunsOf, TypeOK
<1> QED
  BY <1>4, <1>5

LEMMA AnswersStep ==
    TypeOK /\ Numbered /\ AnswersTrue /\ RepliesTrue /\ [Next]_vars
        => AnswersTrue' /\ RepliesTrue'
<1> SUFFICES ASSUME TypeOK, Numbered, AnswersTrue, RepliesTrue, [Next]_vars
             PROVE  AnswersTrue' /\ RepliesTrue'
  OBVIOUS
<1>a. None # OK /\ Internal # OK /\ ResourceExhausted # OK
  BY PathAssumption DEF OK, Internal, ResourceExhausted
<1>b. /\ {Unavailable, DeadlineExceeded, Cancelled, Plain} \subseteq Outcome
      /\ OK \notin {Unavailable, DeadlineExceeded, Cancelled, Plain}
  BY DEF Outcome, Retryable, OK, Unavailable, DeadlineExceeded, Cancelled, Plain
<1>1. ASSUME NEW q \in Request, Reject(q) PROVE AnswersTrue' /\ RepliesTrue'
  <2>1. RunsOf(q) = {} /\ ran' = ran /\ good' = good
    BY <1>1, UntouchedRuns DEF Reject, history
  <2>2. PICK code \in {ParamError, HTTPUnauthorized} : Respond(q, code)
    BY <1>1, RouteFields DEF Reject
  <2>3. code # Success
    BY DEF ParamError, HTTPUnauthorized, Success
  <2> QED
    BY <1>a, <2>1, <2>2, <2>3 DEF Respond, AnswersTrue, RepliesTrue, RunsOf, TypeOK
<1>2. ASSUME NEW q \in Request, BreakerRefuses(q) PROVE AnswersTrue' /\ RepliesTrue'
  BY <1>b, <1>2, RespondTrue DEF BreakerRefuses, history
<1>3. ASSUME NEW q \in Request, Begin(q) PROVE AnswersTrue' /\ RepliesTrue'
  BY <1>3 DEF Begin, AnswersTrue, RepliesTrue, RunsOf, TypeOK, history
<1>4. ASSUME NEW q \in Request, Arrive(q) PROVE AnswersTrue' /\ RepliesTrue'
  <2>1. /\ stage[q] = "call" /\ stage' = [stage EXCEPT ![q] = "sent"]
        /\ answer' = answer /\ good' = good
        /\ reply' = reply \/ reply' = [reply EXCEPT ![q] = ResourceExhausted]
    BY <1>4 DEF Arrive
  <2>2. answer[q] = None /\ None \notin {HTTPUnauthorized, ParamError}
    BY <2>1, PathAssumption DEF RepliesTrue, HTTPUnauthorized, ParamError
  <2>3. \A p \in Request : p # q => RunsOf(p)' = RunsOf(p)
    BY <1>4 DEF Arrive, RunsOf
  <2>4. AnswersTrue'
    BY <2>1, <2>2, <2>3 DEF AnswersTrue
  <2>5. RepliesTrue'
    BY <1>a, <2>1, <2>2 DEF RepliesTrue, TypeOK
  <2> QED
    BY <2>4, <2>5
<1>5. ASSUME NEW q \in Request, Deliver(q) PROVE AnswersTrue' /\ RepliesTrue'
  <2>1. reply[q] \in Outcome
    BY <1>5, ReplyNotRetryable DEF Deliver, TypeOK, Outcome
  <2>2. reply[q] = OK => \E c \in good : c[1] = q
    BY DEF RepliesTrue
  <2>3. stage[q] # "done" /\ UNCHANGED <<ran, good>>
    BY <1>5 DEF Deliver, history
  <2>4. CASE Settle(q, reply[q]) \/ Respond(q, AnswerTo(reply[q]))
    BY <2>1, <2>2, <2>3, <2>4, RespondTrue
  <2>5. CASE Respond(q, AnswerTo(Plain))
    BY <1>b, <2>3, <2>5, RespondTrue
  <2> QED
    BY <1>5, <2>4, <2>5, DeliverCases
<1>6. ASSUME NEW q \in Request, Lose(q) PROVE AnswersTrue' /\ RepliesTrue'
  BY <1>b, <1>6, RespondTrue DEF Lose, Waiting
<1>7. ASSUME NEW q \in Request, TimeOut(q) \/ HangUp(q) PROVE AnswersTrue' /\ RepliesTrue'
  BY <1>b, <1>7, RespondTrue DEF TimeOut, HangUp, Waiting, history
<1>8. ASSUME NEW c \in Call, Handled(c) PROVE AnswersTrue' /\ RepliesTrue'
  <2>1. PICK code \in HandlerCode :
            Replied(c, code) /\ good' = IF code = OK THEN good \cup {c} ELSE good
    BY <1>8 DEF Handled
  <2>2. c[1] \in Request
    BY CallPairs
  <2>3. good \subseteq good'
    BY <2>1
  <2>4. reply' = reply \/ reply' = [reply EXCEPT ![c[1]] = code]
    BY <2>1 DEF Replied
  <2>5. code = OK => c \in good'
    BY <2>1
  <2>6. UNCHANGED <<answer, stage, ran>>
    BY <1>8 DEF Handled
  <2>7. AnswersTrue'
    BY <2>3, <2>6 DEF AnswersTrue, RunsOf
  <2>8. RepliesTrue'
    BY <2>2, <2>3, <2>4, <2>5, <2>6 DEF RepliesTrue, TypeOK
  <2> QED
    BY <2>7, <2>8
<1>9. ASSUME NEW c \in Call, Panicked(c) PROVE AnswersTrue' /\ RepliesTrue'
  BY <1>9, <1>a, CallPairs DEF Panicked, Replied, AnswersTrue, RepliesTrue, RunsOf, TypeOK,
                               history
<1>10. CASE UNCHANGED <<stage, reply, answer, ran, good>>
  BY <1>10 DEF AnswersTrue, RepliesTrue, RunsOf
<1>11. \/ UNCHANGED <<stage, reply, answer, ran, good>>
       \/ \E q \in Request :
            \/ Reject(q) \/ BreakerRefuses(q) \/ Begin(q) \/ Arrive(q) \/ Deliver(q)
            \/ Lose(q) \/ TimeOut(q) \/ HangUp(q)
       \/ \E c \in Call : Handled(c) \/ Panicked(c)
  BY DEF Next, vars, pathVars, history, ServerStep, Tick, Shutdown, GatewayExit
<1> QED
  BY <1>1, <1>2, <1>3, <1>4, <1>5, <1>6, <1>7, <1>8, <1>9, <1>10, <1>11

(* However many attempts, lost replies and late handlers there are: the HTTP *)
(* client is told of success only if a handler succeeded, and refused by the *)
(* gateway only if none was run.                                             *)
THEOREM TruthfulAnswers == Spec => []AnswersTrue
<1>1. Init => AnswersTrue /\ RepliesTrue
  BY PathAssumption
     DEF Init, AnswersTrue, RepliesTrue, OK, Success, HTTPUnauthorized, ParamError
<1> QED
  BY <1>1, AnswersStep, Typed, PTL DEF Spec

------------------------------------------------------------------------------
(* Stops. *)

(* Shutdown's time outlasts every RPC.                                       *)
GatewayPatient ==
    /\ gateway = "closing" => \A q \in Waiting : left[q] < httpLeft
    /\ gateway = "down" => Waiting = {}

LEMMA PatientStep == TypeOK /\ GatewayPatient /\ [Next]_vars => GatewayPatient'
<1> SUFFICES ASSUME TypeOK, GatewayPatient, [Next]_vars PROVE GatewayPatient'
  OBVIOUS
<1> USE DEF TypeOK, GatewayPatient, Waiting
<1>1. CASE Tick
  BY <1>1, PathAssumption DEF Tick, Aged
<1>2. CASE Shutdown
  BY <1>2, PathAssumption DEF Shutdown
<1>3. CASE GatewayExit
  BY <1>3, PathAssumption DEF GatewayExit
<1>4. ASSUME NEW q \in Request,
             Reject(q) \/ BreakerRefuses(q) \/ Arrive(q) \/ Deliver(q)
             \/ Lose(q) \/ TimeOut(q) \/ HangUp(q)
      PROVE  GatewayPatient'
  <2>1. Waiting' \subseteq Waiting
    BY <1>4 DEF Reject, BreakerRefuses, Arrive, Deliver, Lose, TimeOut, HangUp, Settle,
                Respond
  <2>2. UNCHANGED <<gateway, httpLeft, left>>
    BY <1>4 DEF Reject, BreakerRefuses, Arrive, Deliver, Lose, TimeOut, HangUp, Settle,
                Respond
  <2> QED
    BY <2>1, <2>2
<1>5. ASSUME NEW q \in Request, Begin(q) PROVE GatewayPatient'
  <2>1. gateway = "closing" => Deadline < httpLeft
    BY <1>5, PathAssumption DEF Begin, Reading
  <2>2. /\ UNCHANGED <<gateway, httpLeft>> /\ gateway # "down"
        /\ Waiting' \subseteq Waiting \cup {q}
        /\ left' = [left EXCEPT ![q] = Deadline]
    BY <1>5 DEF Begin, Reading
  <2> QED
    BY <2>1, <2>2
<1>6. CASE UNCHANGED <<gateway, httpLeft, stage, left>>
  BY <1>6
<1>7. \/ Tick \/ Shutdown \/ GatewayExit \/ UNCHANGED <<gateway, httpLeft, stage, left>>
      \/ \E q \in Request :
           \/ Reject(q) \/ BreakerRefuses(q) \/ Begin(q) \/ Arrive(q) \/ Deliver(q)
           \/ Lose(q) \/ TimeOut(q) \/ HangUp(q)
  BY DEF Next, vars, pathVars, ServerStep, Handled, Panicked
<1> QED
  BY <1>1, <1>2, <1>3, <1>4, <1>5, <1>6, <1>7

(* With any ReadTimeout and deadline that together are shorter than          *)
(* Shutdown's time, and any number of attempts: the gateway exits under no   *)
(* request.                                                                  *)
THEOREM GatewayLeavesNobody == Spec => []GatewayStopsClean
<1>1. Init => GatewayPatient
  BY DEF Init, GatewayPatient, Waiting
<1>2. GatewayPatient => GatewayStopsClean
  BY DEF GatewayPatient, GatewayStopsClean
<1> QED
  BY <1>1, <1>2, PatientStep, Typed, PTL DEF Spec

(* A server that drains has more time left than the callers of its handlers. *)
ServerPatient ==
    phase = "draining" =>
        \A q \in Waiting : <<q, attempt[q]>> \in executing => left[q] < drain

(* An attempt that is yet to be sent, or was not made, is not executing.     *)
LEMMA NewAttemptsIdle ==
    ASSUME TypeOK, Numbered, NEW q \in Request, NEW n \in Int,
           n > attempt[q] \/ (n = attempt[q] /\ stage[q] = "call")
    PROVE  <<q, n>> \notin executing
<1> SUFFICES ASSUME <<q, n>> \in ran PROVE FALSE
  BY DEF Numbered
<1>1. n <= attempt[q] /\ (stage[q] = "call" => n < attempt[q])
  BY DEF Numbered
<1> QED
  BY <1>1, PathAssumption DEF TypeOK

(* After an attempt, the next one is not there yet.                          *)
LEMMA SettlePatient ==
    ASSUME TypeOK, Numbered, ServerPatient, NEW q \in Waiting, NEW code, NEW answered,
           Settle(q, code) \/ Respond(q, answered),
           UNCHANGED serverVars
    PROVE  ServerPatient'
<1> USE PathAssumption DEF TypeOK, ServerPatient, Waiting, serverVars
<1>1. CASE Respond(q, answered)
  BY <1>1 DEF Respond
<1>2. CASE ~Respond(q, answered)
  <2>1. CASE Respond(q, AnswerTo(code))
    BY <2>1 DEF Respond
  <2>2. CASE ~Respond(q, AnswerTo(code))
    <3>1. /\ stage' = [stage EXCEPT ![q] = "call"]
          /\ attempt' = [attempt EXCEPT ![q] = attempt[q] + 1]
          /\ left' = left
      BY <1>2, <2>2 DEF Settle
    <3>2. <<q, attempt[q] + 1>> \notin executing
      BY NewAttemptsIdle
    <3> QED
      BY <3>1, <3>2
  <2> QED
    BY <2>1, <2>2
<1> QED
  BY <1>1, <1>2

LEMMA ServerPatientStep ==
    TypeOK /\ Numbered /\ ServerPatient /\ [Next]_vars => ServerPatient'
<1> SUFFICES ASSUME TypeOK, Numbered, ServerPatient, [Next]_vars PROVE ServerPatient'
  OBVIOUS
<1> USE PathAssumption, ServerAssumption DEF TypeOK, ServerTypeOK
<1>1. CASE ServerStep
  <2>1. CASE Signal
    BY <1>1, <2>1 DEF ServerStep, Signal, ServerPatient, Waiting, pathVars
  <2>2. CASE ~Signal
    BY <1>1, <2>2 DEF ServerStep, Boot, DrainDone, ForceStop, Kill, Exit, ServerPatient
  <2> QED
    BY <2>1, <2>2
<1>2. CASE Tick
  BY <1>2 DEF Tick, ServerTick, DrainAged, Aged, ServerPatient, Waiting
<1>3. CASE Shutdown \/ GatewayExit
  BY <1>3 DEF Shutdown, GatewayExit, serverVars, ServerPatient, Waiting
<1>4. ASSUME NEW q \in Request, Reject(q) \/ BreakerRefuses(q) PROVE ServerPatient'
  BY <1>4 DEF Reject, BreakerRefuses, Respond, serverVars, ServerPatient, Waiting
<1>5. ASSUME NEW q \in Request, Begin(q) PROVE ServerPatient'
  <2>1. <<q, 1>> \notin executing
    BY <1>5, NewAttemptsIdle DEF Begin, Numbered
  <2> QED
    BY <1>5, <2>1 DEF Begin, serverVars, ServerPatient, Waiting
<1>6. ASSUME NEW q \in Request, Arrive(q) PROVE ServerPatient'
  <2>1. CASE Admit(<<q, attempt[q]>>)
    <3>1. phase = "draining" => drain = Grace
      BY <2>1 DEF Admit, Accepting
    <3> QED
      BY <1>6, <2>1, <3>1 DEF Arrive, Admit, ServerPatient, Waiting
  <2>2. CASE ~Admit(<<q, attempt[q]>>)
    <3>1. <<q, attempt[q]>> \notin executing
      BY <1>6, NewAttemptsIdle DEF Arrive
    <3> QED
      BY <1>6, <2>2, <3>1 DEF Arrive, Exhausted, serverVars, ServerPatient, Waiting
  <2> QED
    BY <2>1, <2>2
<1>7. ASSUME NEW q \in Request, Deliver(q) PROVE ServerPatient'
  <2>1. q \in Waiting /\ UNCHANGED serverVars
    BY <1>7 DEF Deliver, Waiting
  <2> QED
    BY <1>7, <2>1, DeliverCases, SettlePatient
<1>8. ASSUME NEW q \in Request, Lose(q) PROVE ServerPatient'
  BY <1>8, SettlePatient DEF Lose
<1>9. ASSUME NEW q \in Request, TimeOut(q) \/ HangUp(q) PROVE ServerPatient'
  BY <1>9, SettlePatient DEF TimeOut, HangUp
<1>10. ASSUME NEW c \in Call, Handled(c) \/ Panicked(c) PROVE ServerPatient'
  BY <1>10 DEF Handled, Completes, Panicked, Panics, Finish, ServerPatient, Waiting
<1>11. CASE UNCHANGED vars
  BY <1>11 DEF vars, pathVars, serverVars, ServerPatient, Waiting
<1> QED
  BY <1>1, <1>2, <1>3, <1>4, <1>5, <1>6, <1>7, <1>8, <1>9, <1>10, <1>11 DEF Next

(* With any deadline shorter than the server's time to stop: a server that   *)
(* stops by itself cuts off no handler whose caller still waits.             *)
THEOREM StopSpares == Spec => StopSparesCallers
<1>1. Init => ServerPatient
  BY DEF Init, ServerInit, ServerPatient
<1>2. TypeOK /\ ServerPatient /\ [Next]_vars
        => [phase = "draining" /\ phase' = "down" /\ stops' = stops =>
              \A q \in Waiting : <<q, attempt[q]>> \notin executing]_vars
  <2> SUFFICES ASSUME TypeOK, ServerPatient, Next,
                      phase = "draining", phase' = "down", stops' = stops,
                      NEW q \in Waiting, <<q, attempt[q]>> \in executing
               PROVE  FALSE
    OBVIOUS
  <2>1. DrainDone \/ ForceStop
    BY ServerAssumption
       DEF Next, ServerStep, Boot, Signal, Kill, Tick, ServerTick, Shutdown, GatewayExit,
           Reject, BreakerRefuses, Begin, Arrive, Deliver, Lose, TimeOut, HangUp, Handled,
           Panicked, Admit, Exhausted, Completes, Panics, Finish, serverVars, TypeOK,
           ServerTypeOK
  <2>2. drain = 0
    BY <2>1 DEF DrainDone, ForceStop
  <2>3. left[q] < drain /\ left[q] \in 0..Deadline
    BY DEF ServerPatient, TypeOK, Waiting
  <2> QED
    BY <2>2, <2>3, PathAssumption
<1> QED
  BY <1>1, <1>2, ServerPatientStep, Typed, PTL DEF Spec, StopSparesCallers
==============================================================================
