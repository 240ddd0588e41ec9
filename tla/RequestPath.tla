----------------------------- MODULE RequestPath -----------------------------
(***************************************************************************)
(* An HTTP request on its way through the gateway to the user service and  *)
(* back: the checks of the router, its middleware and the AuthHandler      *)
(* methods (apps/gateway/internal/router), the gRPC client with its retry  *)
(* policy (apps/gateway/internal/pb/client.go), the result                 *)
(* (apps/gateway/internal/utils/error_code.go, pkg/result), and the        *)
(* shutdown of the gateway (apps/gateway/cmd/main.go), composed with       *)
(* UserServer.                                                             *)
(***************************************************************************)
EXTENDS UserServer

CONSTANTS
    Request,
    MaxAttempts,  \* "maxAttempts": 5
    Deadline,     \* "timeout": "2s", for the attempts together
    ReadTime,     \* ReadTimeout: 10 s for a client to send its request
    HTTPGrace,    \* 30 s for the requests in progress when the gateway stops
    MaxLost,      \* bound: connections that break under an attempt
    None

ASSUME PathAssumption ==
    /\ IsFiniteSet(Request)
    /\ Call = Request \X (1..MaxAttempts)
    /\ MaxAttempts \in Nat \ {0} /\ MaxLost \in Nat
    /\ Deadline \in Nat \ {0} /\ Deadline < Grace
    /\ ReadTime \in Nat /\ HTTPGrace \in Nat /\ ReadTime + Deadline < HTTPGrace
    /\ None \notin Int

VARIABLES
    gateway, httpLeft,  \* "up", "closing" or "down"; time left in Shutdown
    stage,    \* "idle", "call" (an attempt is under way to the server), "sent"
              \* (it is there, or its reply is under way back), "done"
    attempt,  \* the attempt under way
    left,     \* time to the deadline of the RPC
    reply,    \* the code under way back
    results,  \* what the service makes of the reply it waits for, should it be OK
    answer,   \* the code in the body of the HTTP response
    (* History, for the properties only. *)
    ran,      \* attempts whose handler was started
    good,     \* attempts whose handler returned OK
    lost,     \* connections that broke under an attempt
    broken    \* how many of them did so with the server alive

history == <<ran, good, lost, broken>>
pathVars == <<gateway, httpLeft, stage, attempt, left, reply, results, answer,
              history>>
vars == <<serverVars, pathVars>>

Cancelled == 1
Unknown == 2
Unavailable == 14
Retryable == {Unknown, DeadlineExceeded, Unavailable}

(* Refusals that the gateway treats alike are represented by one.            *)
Treated(code) == IF code \in Retryable THEN code ELSE Unauthenticated

HandlerCode == {OK, Internal} \cup {Treated(code) : code \in RefusalCode}

Success == 0
HTTPUnauthorized == 401
ParamError == 10001
InternalError == 30001

Waiting == {q \in Request : stage[q] \in {"call", "sent"}}

(* An error that is no status: gobreaker's own, or one that a method of the  *)
(* gateway's service makes.                                                  *)
Plain == -1

(* status.FromError(err).Code(), not the number that the user service puts   *)
(* in the message of its errors.                                             *)
ExtractErrorCode(err) == IF err = Plain THEN InternalError ELSE err

IsNonServerError(code) == code >= 10000 /\ code < 30000

(* Mistake: the error of the RPC is dropped.                                 *)
AnswerToAny(code) == Success

(* The answer to an RPC that ended with OK or an error: business failures    *)
(* keep their code, everything else is an internal error.                    *)
AnswerTo(err) ==
    IF err = OK THEN Success
    ELSE IF IsNonServerError(ExtractErrorCode(err)) THEN ExtractErrorCode(err)
    ELSE InternalError

(* result.Result: the status that a code of the body goes with.              *)
HTTPStatus(code) == IF code >= 30000 /\ code < 40000 THEN 500 ELSE 200

------------------------------------------------------------------------------
(* The methods of the gateway's AuthServiceImpl: each makes its RPC and hands *)
(* an error on; of OK it makes one of these.  Three ask for the user, or its *)
(* uuid, in the reply.                                                       *)
LoginResults == {OK, Plain}
RegisterResults == {OK, Plain}
SendVerifyCodeResults == {OK}
LoginByCodeResults == {OK, Plain}
LogoutResults == {OK}
ResetPasswordResults == {OK}
RefreshTokenResults == {OK}
VerifyCodeResults == {OK}

(* JWTAuthMiddleware: no token, a malformed header, or a token ParseToken    *)
(* refuses.                                                                  *)
JWTRefusals == {HTTPUnauthorized}

(* The AuthHandler methods: what each refuses a request with before it calls *)
(* the service of its name (all of them one they cannot bind, the logins one *)
(* without X-Device-ID, too), and what comes back.  Then each answers        *)
(* AnswerTo of it.                                                           *)
Login == [refusals |-> {ParamError}, results |-> LoginResults]
Register == [refusals |-> {ParamError}, results |-> RegisterResults]
SendVerifyCode == [refusals |-> {ParamError}, results |-> SendVerifyCodeResults]
LoginByCode == [refusals |-> {ParamError}, results |-> LoginByCodeResults]
Logout == [refusals |-> {ParamError} \cup JWTRefusals, results |-> LogoutResults]
ResetPassword == [refusals |-> {ParamError}, results |-> ResetPasswordResults]
RefreshToken == [refusals |-> {ParamError}, results |-> RefreshTokenResults]
VerifyCode == [refusals |-> {ParamError}, results |-> VerifyCodeResults]

(* InitRouter *)
Routes == {Login, Register, SendVerifyCode, LoginByCode, Logout, ResetPassword,
           RefreshToken, VerifyCode}

------------------------------------------------------------------------------
Init ==
    /\ ServerInit
    /\ gateway = "up" /\ httpLeft = 0
    /\ stage = [q \in Request |-> "idle"]
    /\ attempt = [q \in Request |-> 0]
    /\ left = [q \in Request |-> 0]
    /\ reply = [q \in Request |-> None]
    /\ results = [q \in Request |-> {}]
    /\ answer = [q \in Request |-> None]
    /\ ran = {} /\ good = {}
    /\ lost = [q \in Request |-> 0]
    /\ broken = 0

Respond(q, code) ==
    /\ stage' = [stage EXCEPT ![q] = "done"]
    /\ reply' = [reply EXCEPT ![q] = None]
    /\ results' = [results EXCEPT ![q] = {}]
    /\ answer' = [answer EXCEPT ![q] = code]
    /\ UNCHANGED <<attempt, left>>

(* The gateway reads requests until it is told to stop; what comes in on a   *)
(* connection it had accepted by then, as long as its ReadTimeout lets it.   *)
Reading ==
    \/ gateway = "up"
    \/ gateway = "closing" /\ HTTPGrace - httpLeft <= ReadTime

Reject(q) ==
    /\ Reading /\ stage[q] = "idle"
    /\ \E route \in Routes : \E code \in route.refusals : Respond(q, code)
    /\ UNCHANGED <<serverVars, gateway, httpLeft, history>>

(* The breaker does not let the call through (module GatewayBreaker), and    *)
(* gobreaker's error is handed on as it is.                                  *)
BreakerRefuses(q) ==
    /\ Reading /\ stage[q] = "idle"
    /\ Respond(q, AnswerTo(Plain))
    /\ UNCHANGED <<serverVars, gateway, httpLeft, history>>

Begin(q) ==
    /\ Reading /\ stage[q] = "idle"
    /\ stage' = [stage EXCEPT ![q] = "call"]
    /\ attempt' = [attempt EXCEPT ![q] = 1]
    /\ left' = [left EXCEPT ![q] = Deadline]
    /\ \E route \in Routes : results' = [results EXCEPT ![q] = route.results]
    /\ UNCHANGED <<serverVars, gateway, httpLeft, reply, answer, history>>

------------------------------------------------------------------------------
(* The attempt reaches the server: with waitForReady it waits for a          *)
(* connection until the deadline.                                            *)
Arrive(q) ==
    /\ stage[q] = "call"
    /\ stage' = [stage EXCEPT ![q] = "sent"]
    /\ \/ /\ Admit(<<q, attempt[q]>>)
          /\ ran' = ran \cup {<<q, attempt[q]>>}
          /\ UNCHANGED reply
       \/ /\ Exhausted
          /\ reply' = [reply EXCEPT ![q] = ResourceExhausted]
          /\ UNCHANGED ran
    /\ UNCHANGED <<gateway, httpLeft, attempt, left, results, answer, good, lost, broken>>

(* A handler ends.  Its reply goes nowhere if the caller has given the       *)
(* attempt up.                                                               *)
Replied(c, code) ==
    reply' = IF stage[c[1]] = "sent" /\ attempt[c[1]] = c[2]
             THEN [reply EXCEPT ![c[1]] = code] ELSE reply

Handled(c) ==
    /\ \E code \in HandlerCode :
        /\ Completes(c, code)
        /\ Replied(c, code)
        /\ good' = IF code = OK THEN good \cup {c} ELSE good
    /\ UNCHANGED <<gateway, httpLeft, stage, attempt, left, results, answer, ran, lost,
                   broken>>

Panicked(c) ==
    /\ Panics(c)
    /\ Replied(c, Internal)
    /\ UNCHANGED <<gateway, httpLeft, stage, attempt, left, results, answer, history>>

(* An attempt has ended with `code`: it is sent again or answered.           *)
Settle(q, code) ==
    IF code \in Retryable /\ attempt[q] < MaxAttempts
    THEN /\ stage' = [stage EXCEPT ![q] = "call"]
         /\ attempt' = [attempt EXCEPT ![q] = @ + 1]
         /\ reply' = [reply EXCEPT ![q] = None]
         /\ UNCHANGED <<left, results, answer>>
    ELSE Respond(q, AnswerTo(code))

(* A reply is there, and the service has made something of it. *)
Deliver(q) ==
    /\ stage[q] = "sent" /\ reply[q] # None
    /\ IF reply[q] = OK THEN \E err \in results[q] : Respond(q, AnswerTo(err))
       ELSE Settle(q, reply[q])
    /\ UNCHANGED <<serverVars, gateway, httpLeft, history>>

(* The connection breaks, before or after the attempt arrived, or its server *)
(* is gone.  A handler that runs goes on.                                    *)
Lose(q) ==
    /\ q \in Waiting
    /\ \/ broken < MaxLost /\ broken' = broken + 1
       \/ /\ stage[q] = "sent" /\ reply[q] = None
          /\ <<q, attempt[q]>> \notin executing
          /\ UNCHANGED broken
    /\ lost' = [lost EXCEPT ![q] = @ + 1]
    /\ Settle(q, Unavailable)
    /\ UNCHANGED <<serverVars, gateway, httpLeft, ran, good>>

(* The deadline passes: nothing is left to retry in.                         *)
TimeOut(q) ==
    /\ q \in Waiting /\ left[q] = 0
    /\ Respond(q, AnswerTo(DeadlineExceeded))
    /\ UNCHANGED <<serverVars, gateway, httpLeft, history>>

(* The HTTP client closes its connection, which cancels the context the RPC  *)
(* was made from.                                                            *)
HangUp(q) ==
    /\ q \in Waiting
    /\ Respond(q, AnswerTo(Cancelled))
    /\ UNCHANGED <<serverVars, gateway, httpLeft, history>>

------------------------------------------------------------------------------
(* Mistake: Shutdown gets no more time than an RPC.                          *)
ShutdownShort ==
    /\ gateway = "up"
    /\ gateway' = "closing" /\ httpLeft' = Deadline - 1
    /\ UNCHANGED <<serverVars, stage, attempt, left, reply, results, answer, history>>

Shutdown ==
    /\ gateway = "up"
    /\ gateway' = "closing" /\ httpLeft' = HTTPGrace
    /\ UNCHANGED <<serverVars, stage, attempt, left, reply, results, answer, history>>

(* srv.Shutdown returns: nobody waits any more, or it took too long.         *)
GatewayExit ==
    /\ gateway = "closing"
    /\ Waiting = {} \/ httpLeft = 0
    /\ gateway' = "down"
    /\ UNCHANGED <<serverVars, httpLeft, stage, attempt, left, reply, results, answer,
                   history>>

(* Mistake: the deadline counts only while an attempt has a connection.      *)
AgedConnected(q) == IF stage[q] = "sent" THEN left[q] - 1 ELSE left[q]

Aged(q) == IF q \in Waiting THEN left[q] - 1 ELSE left[q]

(* Timers fire on time.                                                      *)
Tick ==
    /\ ServerTick
    /\ \A q \in Waiting : left[q] > 0
    /\ gateway = "closing" => httpLeft > 0
    /\ left' = [q \in Request |-> Aged(q)]
    /\ httpLeft' = IF gateway = "closing" THEN httpLeft - 1 ELSE httpLeft
    /\ UNCHANGED <<gateway, stage, attempt, reply, results, answer, history>>

ServerStep ==
    /\ Boot \/ Signal \/ DrainDone \/ ForceStop \/ Kill
    /\ UNCHANGED pathVars

Next ==
    \/ ServerStep \/ Tick \/ Shutdown \/ GatewayExit
    \/ \E q \in Request :
        \/ Reject(q) \/ BreakerRefuses(q) \/ Begin(q) \/ Arrive(q) \/ Deliver(q)
        \/ Lose(q) \/ TimeOut(q) \/ HangUp(q)
    \/ \E c \in Call : Handled(c) \/ Panicked(c)

Spec == Init /\ [][Next]_vars

(* Time passes, timers fire, and a process ends that has nothing left to     *)
(* wait for; nothing else is sure to happen: no handler has to return, no    *)
(* connection to come back, no server to be started again, no Stop to work.  *)
FairSpec ==
    /\ Spec
    /\ WF_vars(Tick)
    /\ \A q \in Request : WF_vars(TimeOut(q))
    /\ WF_vars(DrainDone /\ UNCHANGED pathVars)
    /\ WF_vars(GatewayExit)

------------------------------------------------------------------------------
TypeOK ==
    /\ ServerTypeOK
    /\ gateway \in {"up", "closing", "down"} /\ httpLeft \in 0..HTTPGrace
    /\ stage \in [Request -> {"idle", "call", "sent", "done"}]
    /\ attempt \in [Request -> 0..MaxAttempts]
    /\ left \in [Request -> 0..Deadline]
    /\ reply \in [Request -> HandlerCode \cup {ResourceExhausted, None}]
    /\ results \in [Request -> SUBSET {OK, Plain}]
    /\ answer \in [Request -> {Success, HTTPUnauthorized, ParamError, InternalError, None}]
    /\ ran \subseteq Call /\ good \subseteq ran
    /\ lost \in [Request -> Nat] /\ broken \in 0..MaxLost

RunsOf(q) == {c \in ran : c[1] = q}

(* Register, LoginByCode and SendVerifyCode are not idempotent, and the      *)
(* policy sends them again: a handler is run anew only for a connection that *)
(* was lost, never for what a handler, a panic or the limiter replied,       *)
(* because none of them refuses with a code of the policy.                   *)
RunsBounded == \A q \in Request : Cardinality(RunsOf(q)) <= 1 + lost[q]

(* What the HTTP client is told, however attempts, lost replies and late     *)
(* handlers interleave: success only if a handler succeeded, a refusal of    *)
(* the gateway only if none was run.                                         *)
AnswersTrue ==
    \A q \in Request :
        /\ answer[q] = Success => \E c \in good : c[1] = q
        /\ answer[q] \in {HTTPUnauthorized, ParamError} => RunsOf(q) = {}

(* A server that is told to stop never abandons a call that somebody still   *)
(* waits for, should Stop cut off the handlers: when its time is up          *)
(* (grpc_server.go:128) the 2 s of every call it took (client.go:440) are    *)
(* over.                                                                     *)
StopSparesCallers ==
    [][phase = "draining" /\ phase' = "down" /\ stops' = stops =>
         \A q \in Waiting : <<q, attempt[q]>> \notin executing]_vars

(* The gateway never exits under a request: Shutdown's 30 s outlast the      *)
(* reading of a request that was on its way and its RPC with all attempts.   *)
GatewayStopsClean == gateway = "down" => Waiting = {}

(* Every request is answered, whatever the server does or however long it is *)
(* down.                                                                     *)
RequestsAnswered == \A q \in Request : q \in Waiting ~> stage[q] = "done"

(* A server that was signalled goes down if its handlers return, be it after *)
(* the 10 s, whether or not Stop works and however many calls came in with   *)
(* the signal.  (A handler that never returns may keep the process alive:    *)
(* see ForceStop.)                                                           *)
DrainEnds ==
    (\A c \in Call : []<>(c \notin executing)) => (phase = "draining" ~> phase = "down")

(* auth_handle.go:68-70 answers a "business failure, such as a wrong         *)
(* password" with its own code, and pkg/result/response.go:42 with HTTP 200: *)
(* so is every reply with a business reason that reaches the gateway.        *)
BusinessErrorsAnswered ==
    [][\A q \in Request :
         Deliver(q) /\ reply[q] = Unauthenticated => HTTPStatus(answer'[q]) = 200]_vars

==============================================================================
