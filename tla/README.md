# LCchat in TLA+

LCchat is the back end of a chat application in Go: an HTTP **gateway**
(`apps/gateway`) in front of a gRPC **user service** (`apps/user`), which keeps
accounts and sessions in MySQL and codes, counters and tokens in Redis. A third
service, `apps/connect`, is an empty package. This directory specifies the parts
of it where the order of calls, failures and retries decide whether it is right.

## Inventory

| Part | State it keeps | Operations | What is hard | What makes it correct |
|---|---|---|---|---|
| Sending codes: `SendVerifyCode` (`apps/user/internal/service/auth_service.go:400`), `auth_repository.go:115-182`, `lua_scripts.go`, `pkg/util/verify_code.go` | Redis: a code per address and type; counters per address (1 min, 24 h) and per client address (1 h) | check three limits, store a code, count, mail | the check and the counting are separate calls of concurrent handlers; the pipeline may break or be sent twice; the mail may fail last | limits are overshot by a bounded amount only; counters always expire, and windows do not move; limits lift |
| Using codes: `Register`, `LoginByCode`, `ResetPassword`, `VerifyCode` (`auth_service.go:49, 263, 480, 648`) | the same codes; `user_info` rows, found by address | look up, check the code, act, delete the code | check, act and delete are separate; a deletion may fail or hit a newer code; rows are read before and used after; ids are given before rows are committed | a code serves its address and purpose only; a login or reset code is deleted after use and used a bounded number of times (`Register` deletes none) |
| Tokens and sessions: `Login`, `LoginByCode`, `RefreshToken`, `Logout`, `device_repository.go`, `pkg/util/jwt.go` | Redis: access token (as a digest) and refresh token per user and device; MySQL: `device_session` | write the pair and the row, compare, delete | logins of one device interleave; any write fails or is sent twice; tokens and keys expire apart; what the gateway hands on in the context | an answered login stands until the next; the refresh key outlives the access key; a key outlives its token |
| Breaker: `pb/client.go:354-431`, `middleware/circuit_breaker.go` | one gobreaker: state, counts, generation, expiry | enter and leave, twice for every call | late answers; two entries of a call in different generations; few slots | slots are neither lost nor settled twice; a half-open breaker lets little through; it opens when it should and closes again |
| Request path: `router`, `middleware/auth.go`, `v1`, `gateway/internal/service`, gRPC client (`pb/client.go:436-449`), `utils/error_code.go`, `pkg/result` | the requests in progress | refuse, call with up to 5 attempts in 2 s, translate the result | a handler may run more than once, or after its caller is gone; an error crosses three layers | a handler is run anew only for a lost connection; the answer is true; every request is answered |
| Server: both `cmd/main.go`, `server/grpc_server.go`, `interceptors` | processes; a global token bucket; a gauge of calls in flight | start, admit, recover, count, stop | start without Redis; panics; shutdown against calls in flight; handlers that hang | a stop abandons no waiting caller, and ends if the handlers return; the gauge is exact |
| User limiter: `middleware/rate_limit.go` | a map of token buckets, cleaned hourly | get, take a token, clean | a bucket dropped while in use | burst and rate per user; nobody refused early; idle users forgotten by the limiter that is cleaned |
| Clients of Redis and MySQL: `pkg/redis`, `pkg/mysql`, `repository/errors.go` | connections | build, wrap errors | nil client, retries, errors that are not translated | seen in the modules above |

The gateway calls the user service over gRPC through the breaker; the user
service's handlers run concurrently and share only Redis and MySQL.

## Modules

| Module | What it is |
|---|---|
| `SendLimit` | `SendVerifyCode` and the Redis keys it works on |
| `CodeUse` | the handlers that take a code; implements `OneTimeCode` |
| `OneTimeCode` | abstract: a code that can be used a limited number of times |
| `DeviceTokens` | the token keys and the session row of devices, and the calls on them |
| `GatewayBreaker` | the breaker with its two entries per call |
| `UserServer` | the user service as a process: interceptors, limiter, start and stop |
| `RequestPath` | an HTTP request to its answer; composes `UserServer` |
| `UserRateLimiter` | the gateway's buckets per user and their clean-up |
| `SendLimitProofs`, `CodeUseProofs`, `OneTimeCodeProofs`, `DeviceTokensProofs`, `GatewayBreakerProofs`, `RequestPathProofs`, `UserRateLimiterProofs` | theorems about the module of that name |
| `MC...` | instances for TLC |

How they fit: `RequestPath` has a handler as the code it returns; `SendLimit`,
`CodeUse` and `DeviceTokens` are what handlers do meanwhile, each with any number
of them at once, with repeated and interrupted calls (`Receive` again, `Crash`) as
`RequestPath` produces them. `SendLimit` writes the codes `CodeUse` consumes; there
a `SendVerifyCode` is its `SET`. The token pair a login by code writes is one step
of `CodeUse` and spelled out in `DeviceTokens`. A refusal by `GatewayBreaker` is
`BreakerRefuses` in `RequestPath`; an RPC in `GatewayBreaker` is all its attempts.

### SendLimit

`minute`, `day`, `hour` and `codes` are the Redis keys (`[n, ttl]`, `[code, ttl]`;
an absent key reads as 0). `pc`, `req`, `attempt` are the handlers. One action is
one Redis command or one script, because Redis runs those one at a time and the
handler holds nothing in between: `CheckMinute/Day/Hour` with their early return,
`Store`, `IncrMinute/Day/Hour` for the three scripts of the pipeline, `Mail`.
`CheckFails`, `StoreFails`, `PipelineBreaks`, `MailFails` and `Crash` are what can
go wrong; a handler that cannot count goes on to the mail, as in the code.
`IncrHour` may lose its reply, and the client then sends the pipeline again
(`Attempts`; `pkg/redis` leaves go-redis at 3 retries). `Tick` ages every key.
`inbox` is history: how long ago a mail was sent. The client address is the one
the user service sees: the gateway sends no metadata, so
`GetClientIPFromContext` returns the gateway's own.

### CodeUse

`codes` and `accounts` are the stores; `accounts` is the table in the order of its
primary key, which `First` in `GetByEmail` sorts by, and `visible` are the rows of
it that are committed: gorm wraps `Create` in a transaction, so an id is given at
the `INSERT` and its row may become visible after rows with higher ids. A row of
a transaction that fails stays invisible for good, and its id is spent. `found` is
the row (and the password in it) that a handler read at its lookup and uses after
the code was accepted, with the earlier rows that were `Open`, inserted but not
committed, at that time. A call runs `Lookup` (not for `Register`), `Accept` or `VerifyEnds`,
and then

- login: `Delete`, then `Tokens` (the token pair and session as one step);
- reset: `Update`, then `Delete`;
- register: `Insert`, with the unique index on `telephone`, then `Commit`; no
  deletion. `CreateFails` is a duplicate key or a failure before the commit.

`VerifyCode` reads a code and changes nothing; it has no action here.

`DeleteFails` stands for a `DEL` that does not reach Redis, `Resend` for one that
is sent again, after it had its effect or before; `UpdateFails` for an `UPDATE`
with or without effect. `mailed`, `held`, `grants` and `lost` are history:
`held` are the handlers whose accepted code has not been issued anew, `grants`
what the present code of a key was good for (an account counts, too), `lost` how
many of those left the code stored because its deletion never took effect. What
is promised of deletion and of a bound is promised of `SpentKey`, the login and
reset codes: a registration code is good for any number of accounts until it
expires (`code_use_race`).

### DeviceTokens

`at` and `rt` are the keys `auth:at:*` and `auth:rt:*`, `row` the session, all by
user and device *name*: the device's id stays in the gateway, and the service
falls back to the name (`auth_service.go:182`). A token is its claims and the time
it is `left` to live; two access tokens of a device signed in one tick are the same
string, as in the code, where times have a resolution of a second. `wallet` is
what each device was answered. `Login` and `LoginByCode` are `Refuse` or `Sign`,
then `Store` twice and `SaveSession`; `StoreAgain`, `StoreFails`, `SaveFails` and
`Crash` are the failures (a failing session is only logged, whether or not its row
was written). `RefreshToken` is
`Parse`, `Compare` and `Store`; `Logout` is `EndSession`. What the code does about
the last two is in the operators `Parses` and `ContextUser`. `clash` and `stands`
are history: which logins met another one, and which login of a key stands.

### UserServer and RequestPath

`UserServer` has one action per thing the process does: `Boot` (MySQL must be
there, Redis need not), `Admit` through the interceptors, `Completes` or `Panics`,
`Signal`, `DrainDone`, `ForceStop`, `Kill`. `DBFailure` to `WrapRedisError` are
`repository/errors.go`: what a driver may report and what the handlers look for.
A duplicate key is among what is not told apart, because `mysql.Build` leaves
gorm's `TranslateError` off, so that `Register` never answers `AlreadyExists`.
`...Codes` are the gRPC codes of each handler's error returns, made of those of its
queries and of its own refusals; `RequestPath` lets one code stand for all that
the gateway treats alike (`Treated`).

`DrainDone` is `GracefulStop` returning: every handler has ended, the cancelled ones
too. `ForceStop` is a step that may happen when the 10 s are over and need not: in
the version of grpc-go that `go.mod` names, `GracefulStop` keeps the server's lock
while it waits for handlers whose connections are gone, and the `Stop` of
`grpc_server.go:130` then waits with it. (The library is not part of the
repository; this is read from its sources.)

In `RequestPath` a request comes to one of the `Routes`. Each is a handler of the
gateway: what it refuses a request with (bad body, missing device id, no token),
and what its service makes of a reply of `OK`: three of them ask for a user or an
id in it and make an error of their own, `Plain`, which is no gRPC status. A
request is `Reject`ed, refused by the breaker, or begins an RPC: `Arrive`, then a
reply or a loss, then `Settle`, another attempt or the answer. `AnswerTo` is the
body's code and `HTTPStatus` what goes with it. Requests are read while the
gateway is up, and for the `ReadTime` after its signal on connections it had
accepted (`Reading`). Taken from grpc-go: a retry needs a retryable code, and the
2 s are for all attempts together; the back-off may take any time, here none or
until the deadline; with `waitForReady` an attempt waits for a connection; a
server that got its signal may still take streams that were on their way
(`Accepting`). `lost`, `broken`, `ran` and `good` are history.

### GatewayBreaker

`cb` is the breaker. gobreaker numbers its generations and ignores what an older
one admitted; only whether an entry belongs to the present generation matters, so
the model keeps that set, `fresh`, and no numbers. Each of `beforeRequest` and
`afterRequest` is one step, as the library's mutex makes it. A call is
`EnterOuter` (in `ExecuteWithBreaker`), `EnterInner` (in the interceptor),
`LeaveInner` with the RPC's outcome, `LeaveOuter`. Consecutive successes are
counted only while half-open, where the library looks at them; a closed
generation's are left out. gRPC's own retries are below the interceptor and part
of the RPC.

### UserRateLimiter

`limiters` is the map, `tokens` the buckets. A request takes its bucket under the
mutex (`Get`) and asks it for a token after (`Allow`, `Refuse`), as
`UserRateLimitMiddleware` does. The clean-up holds the mutex (`Unlocked`) while it
goes through the map: `Look` judges a bucket full, `Drop` deletes it, and requests
that already have it take tokens in between. `level` is a reference bucket: what a
user was granted and has not been refilled, over all buckets it ever had;
`excused` counts the requests a clean-up caught with a bucket it dropped. The
module is `globalUserLimiter`, which `main` makes, and `UserRateLimitMiddleware`, which
no route mounts yet. `UserRateLimitMiddlewareWithConfig`, not mounted either, makes a
limiter of its own (`rate_limit.go:140`) that no goroutine cleans: its map only grows,
and nothing here is said of it. Tokens are whole: the library's are fractions, so
that `RefusedOnlyWhenSpent` is true of it up to one token.

## Runs

| Run | Shows | States |
|---|---|---|
| `send_limit` | how far each limit can be overshot (`Budget` and the three bounds, which are attained), no counter without expiry, no window moved; limits lift, a request gets past Redis | 104 000 |
| `send_limit_mail` | violated: being limited does not mean a code was sent | |
| `code_use` | a used login or reset code is deleted and its uses are bounded, codes keep to their purpose, only a holder of a mailed code deletes one, the row found stays the one the address names, but for registrations open at the lookup; `CodeUse` implements `OneTimeCode`; every step brings a call nearer to its answer | 853 000 |
| `code_use_race` | violated: at least one of login and registration codes is used once | |
| `code_use_newcomer` | violated: registering without a telephone meets no existing user | |
| `breaker_safety` | slots, probes, tripping and closing | 108 000 |
| `breaker_trip` | violated: more than five consecutive failures trip the breaker | |
| `device_tokens` | an answered login that was alone stands; the refresh key outlives the access key; a key outlives its token | 275 000 |
| `refresh_dead` | violated: a device can renew its session or end it | |
| `request_path` | handlers run anew only for a lost connection; answers are true; neither process stops under a waiting caller; the gauge is exact; every request is answered, every stop ends if the handlers return | 490 000 |
| `business_error` | violated: a business error is answered with HTTP 200 | |
| `user_limiter` | burst and rate over all buckets of a user; no early refusal; idle users are forgotten | 386 000 |

Every property of a passing run has a mutant in `PROJECT.json`: a plausible
mistake in the code (the definitions marked "Mistake" in the modules) that breaks
it.

**Bounds.** Two handlers, or two requests, are the least at which a check and its
effect can be separated; the bounds the invariants state hold for any number.
`SendLimit` and `CodeUse` have one address, one client address and one code: keys
of different addresses do not interact, and a wrong code is always possible, since
`VerifyEnds` does not depend on the code. `Attempts = 2` sends a command twice.
Limits and windows are shrunk but keep their order (`1 min < 1 h < 24 h`, and the
code's life among them; access token before refresh token; RPC deadline before the
grace of the user service, reading and RPC together before that of the gateway).
`MaxRows = 2` lets two registrations be open at once, with ids that are committed in
either order. `DeviceTokens` has two devices of one name, which is where
devices interact, and four refresh ids: one stored, one in each handler, one in a
wallet. `MaxLost` bounds the deletions that are lost and the connections that break,
`MaxStops` signals and deaths, `MaxCounted` the requests of one closed generation
of the breaker, `MaxExcused` the requests a user makes after it was excused; all
stop actions of the environment only. The breaker has the code's own 3 and 5, a
tick of 15 s, and four callers, one more than its slots. The limiter's four
buckets are one for each user and each request. Deadlock is checked for the
breaker, the request path and the limiter, where something is always possible; in
the other modules a step is always possible too (`Crash`, `Tick`), and the check
is off because it would say nothing.

**Fairness.** `SendLimit`: `Tick`, time passes; `RedisStep(h)`, a Redis command
ends within the 50 ms the service configures. Nothing is assumed of clients, of the
process staying up, or of the SMTP dialogue, which has no deadline: `RedisPartEnds`
ends at the mail. `RequestPath`: time passes and timers fire on time (`Tick`,
`TimeOut`), and a process ends that waits for nothing (`DrainDone`, `GatewayExit`). No
handler has to return, no connection to come back, no `Stop` to work and no server to
be started again; `DrainEnds` has the return of the handlers as its condition. `UserRateLimiter`: its goroutines run
on and its ticker ticks. `CodeUse` states none: `StepsLeadToAnswer` gives every call
a measure that each of its steps lowers.

**What a lost reply means.** A command whose reply is lost ran before it was sent
again, or never. A command that Redis runs only after its client has given up is
not modelled. `Store` in `SendLimit` is one `SET`; nothing there reads the code.
In `CodeUse` a repeated `SET` is another `Issue` of the same code.

## What the runs say

*The breaker* is entered twice per call, and both entries count. A half-open
breaker has three slots: the first call takes two, and the second call takes the
third in `ExecuteWithBreaker` and is refused by the interceptor; that refusal is a
failure, and the breaker opens again. `ClosesOnlyByStraddler` states the
consequence: the breaker closes only if a call was held up between the two
entries for the whole 45 s and then entered the half-open generation. With
ordinary calls a breaker that has opened stays so until the gateway is restarted.
It opens after two failing calls if a third is in flight (`breaker_trip`: five requests
by the library's count, or six), and any error counts, a wrong password included.

*Tokens.* A refresh token is an opaque id that `RefreshToken` parses as a JWT
and `Logout` looks for the user in a context that never holds one. So neither gets
past its first check, whatever it is given, and the tokens it should renew or delete
stay as they are: `refresh_dead` shows both, against what the API document and the
comments above the two handlers say. Two logins of one device name can leave a pair of both in the keys;
`AnsweredLoginStands` is about logins that met no other.

*Codes.* Two logins that check a code before either deletes it both succeed, and
`Register` deletes no code, so that one code makes accounts until it expires
(`code_use_race` shows both). For login and reset codes `UseBound` says how far it
can go. The second user without a telephone meets the unique index
(`code_use_newcomer`), and is answered with an internal error.

*Errors.* The gateway takes the gRPC code for the business code, so that every
business error is answered 30001 with HTTP 500 (`business_error`).

*Retries.* Handlers refuse with codes that the retry policy leaves alone. This is
what `RunsBounded` hangs on, and it is close: the comment above `RefreshToken`
(`auth_service.go:521`) announces `DeadlineExceeded` for an expired token, which
would be sent again up to four times; the handler returns `InvalidArgument`.

## Proofs

Every invariant and action property of the passing runs, and the refinement, is a
theorem for every value of the constants that the assumptions allow. Each proof
module names the strengthenings it needs and proves them in that order.

`SendLimitProofs` proves, for every number of handlers, addresses, limits, windows
and attempts allowed by `LimitAssumption`:

- `TypeCorrect`: `TypeOK`.
- `BudgetHolds` (`Budget`) and from it `MinuteLimit`, `DayLimit`, `HourLimit`. A
  bound on a counter alone is not inductive: a handler past the check raises it
  without looking again. `Budget` adds to each counter what is owed to it, the set
  of pairs (handler, attempt) that passed the check and have not run the script.
  Entering the set needs a counter below its limit; running a script moves one
  pair from the set into the counter; nothing else adds to the sum. The set is
  contained in `Handler \X 1..Attempts`, which gives `Slack`.
- `ExpiryInvariant` (`CountersExpire`): a counter exists exactly as long as its TTL.
- `AnchorProperty` (`WindowsAnchored`), from that invariant.

`GatewayBreakerProofs` proves, for every number of callers and every setting allowed
by `BreakerAssumption`:

- `TypeCorrect` (`TypeOK`), `EverySlotAccounted` (`SlotsAccounted`) and `FewProbes`
  (`HalfOpenProbes`).
- `OnlyStraddlersClose` (`ClosesOnlyByStraddler`), if `MaxRequests` is odd, as 3 is.
  An even number is reached by calls that go well one after the other.
- `TwoFailuresTrip` (`OneFailureNeverTrips`), if `TripRequests` is at least 5, as it
  is. With 4, one failed call and one still in flight would do it.

The inductive invariant `IInv` is stated of a breaker, the entries of its
generation, the calls' stages and the history (`Inv`), so that one lemma
(`Noticing`) takes it from the breaker as stored to `Current`, and one lemma per
way of entering and settling takes it from there. Its parts: the counts of a
generation are made of settled entries and of those still held (`Counted`); where
the holders of an entry are (`Staged`); without a straddler an inner entry comes
with an outer one (`Paired`), so that successes come in pairs but for the calls
between their two settlements (`Even`); and a failed call has been counted twice, or
once and is waiting (`Twice`). `Settling` lists the five ways in which `afterRequest`
can end; the two action properties look at the one that closes or opens.

`UserRateLimiterProofs` proves, for every number of requests, users and buckets and
every burst, rate and period allowed by `LimiterAssumption`:

- `TypeCorrect` (`TypeOK`), together with `Owned`: a bucket in use is one user's.
- `BurstAndRate` (`Conforms`). The level of a user is not bounded by its bucket
  alone, because a request may still take a token from a bucket that has been
  dropped, or is about to be: a *stray*. `Balanced` says that a user has no more
  strays than were excused, and that its level and its strays together are at most
  what its bucket lacks of a burst plus what was excused. A clean-up that judges a
  bucket full makes strays of the requests holding it and excuses as many; a
  token taken by a stray turns it into level; any other shows in the bucket.
- `NoEarlyRefusal` (`RefusedOnlyWhenSpent`), from `Earned`: what a bucket lacks, in
  the map or in a request's hands, its user was granted.

`CodeUseProofs` proves, for every number of handlers, addresses, codes, accounts,
retries and lost deletions allowed by `UseAssumption`:

- `TypeCorrect` (`TypeOK`), with `Staged`: which call is at which stage, and that
  only a handler past the check is in `held`.
- `FoundIsFirst` (`FoundStaysFirst`): a row that was committed stays, and updates
  leave addresses alone (`RowsKept`). A row that becomes visible later was open at
  the lookup, which the handler noted, or was inserted since, with a higher id.
- `MailedOnly` (`OnlyMailedCodes`) and `AddresseesOnly` (`OnlyAddresseesDelete`), from
  `Mailed`: also the stored codes are mailed ones, which the check hands on to the
  handler. The theorem is for any codes; the run has one, which tells purposes
  apart but not codes.
- `CallsAdvance` (`StepsLeadToAnswer`).
- `UsedIsDeleted` (`UsedMeansDeleted`) and `UseLimited` (`UseBound`), both of login and
  reset codes only: of a registration code neither holds. `UseBound` is
  not inductive: a handler that is admitted raises its left side, and nothing in
  it says that the others have not used the code up. `UsedMeansDeleted` does: while
  the code is stored, what it granted is covered by the deletions that were lost
  and by the resets about to delete; the latter are none of those that may still
  grant, and both are handlers. The other way round `UsedMeansDeleted` is inductive
  by itself. `EveryKey` lists what a step may do to the counts of a key: a step of
  a handler touches the key of its call only, and moves that one handler between
  the counted sets (`StepCounts`, over `Recounted`).
- `KeepsPromise` (`ImplementsOneTimeCode`) for the same codes, from the same list: `Issue` is `Issue`;
  an accepting handler is `Admit`, whose limit is what `UseBound` says of the state
  after it; a grant is `Use`; a refusal after the check, a crash, and a deletion
  that fails are `Drop`, which may drop nobody; a deletion and `Tick` are `Withdraw`.

`OneTimeCodeProofs` proves `AtMostLimit`: what `OneTimeCode` admits and grants is at
most `Limit`, for any natural number.

`DeviceTokensProofs` proves, for every number of handlers, users, devices and names
and every lifetime and number of retries allowed by `TokenAssumption`, and by
`OpaqueAssumption`, that the opaque ids are no JWTs:

- `TypeCorrect` (`TypeOK`), with `Ready`: what a handler has in hand where it is. In
  particular a refresh holds a JWT when it compares, which no refresh key ever
  holds (`RefreshEnds`), so that only logins write.
- `ValidStaysStored` (`KeyOutlivesToken`), which needs `Expired`: a key without time is
  empty.
- `LoginStands` (`AnsweredLoginStands`) and `RefreshLasts`
  (`RefreshOutlivesAccess`). Both speak of logins that were answered; `Alone` adds
  what holds of one that is still writing and has met nobody: it is the only one on
  its key, and what it has written so far is there or has expired. Each write
  extends that by one store, and its answer turns it into `Stands`. While anybody
  writes under a key no login of it stands.

`RequestPathProofs` proves, for every number of requests and attempts, every bucket,
and every deadline shorter than the grace of the user service and, with the time to
read a request, than that of the gateway (`PathAssumption`,
`ServerAssumption`):

- `TypeCorrect` (`TypeOK`), with `Numbered`: attempts are numbered as they are made,
  and what runs was sent.
- `InFlightExact` (`GaugeExact`), with `DownRunsNothing`.
- `NoNeedlessRun` (`RunsBounded`), from `Excused`: only a lost connection makes
  another attempt, as no handler replies with a code of the policy. This rests on
  `HandlerCodes`, worked out from the error rules and the handlers' own codes in
  `UserServer` (`RepositoryErrors`), and fails with the one a comment announces
  (see Retries above).
- `TruthfulAnswers` (`AnswersTrue`), with `RepliesTrue`: a reply of success under way
  comes from a handler that succeeded.
- `GatewayLeavesNobody` (`GatewayStopsClean`) and `StopSpares`
  (`StopSparesCallers`), from `GatewayPatient` and `ServerPatient`: once a process
  is told to stop, it has more time left than anybody who waits. That a call begun
  later still has less is what `Deadline < Grace`, `ReadTime + Deadline < HTTPGrace` and
  the order of signal and admission give. `StopSpares` is about a `Stop` that works;
  one that blocks abandons nobody.

The assumptions on constants are: finite sets of handlers, requests or callers where
they are counted, naturals for times and bounds, the order of those times that the
code's settings have, and that values of different kinds differ.

**Only model-checked**: the liveness properties `LimitsLift`, `RedisPartEnds`,
`RequestsAnswered`, `DrainEnds` and `IdleForgotten`, because the proof system does
not handle fairness and `ENABLED`; and that the six disagreements of the
`violation` runs are reached.

## Not modelled

- Friends, applications, blacklist, profile and device lists: handlers, services
  and repositories are stubs that return nil; the gateway's DTOs for them and the
  client's methods have no caller. `apps/connect` is empty, `_achieve` is old code
  outside the build.
- Logger, metrics other than the gauge in flight, CORS, trace ids, converters and
  masks: output and copying. The metrics server of the user service is started
  only after the gRPC server has stopped (`main.go:124`) and serves nothing.
- `timeout.go` is not mounted. `recover.go` catches nothing: no handler of the
  gateway panics.
- `VerifyAccessToken` of the repository, `GenerateRefreshToken` and
  `RefreshAccessToken` of `pkg/util/jwt.go` are never called.
- A handler that never returns, beyond what `ForceStop` says: whether the process
  then ends depends on grpc-go, and nothing is claimed of it.
- `UserRateLimitMiddlewareWithConfig` (see UserRateLimiter).
- Read replicas that lag: `pkg/mysql` supports replicas, no configuration names one,
  and it falls back to the primary (`Readable`).
- `ValidateEmail` and the binding tags of the requests: an address or a body that is
  refused changes nothing.
- Connection pools of `pkg/redis` and `pkg/mysql`: their other settings and their
  errors appear where the modules above meet them.

## Plan

1. `SendLimit` and `CodeUse` over the same codes and mailboxes: what a deletion of
   a newer code costs a caller who may not ask again for a minute.
2. Abstract specifications for the limiter (one bucket per user, with what was
   excused) and for a call over the network (run once, and once more per lost
   connection), implemented by `UserRateLimiter` and `RequestPath`.
