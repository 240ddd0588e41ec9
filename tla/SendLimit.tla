------------------------------ MODULE SendLimit ------------------------------
(***************************************************************************)
(* The SendVerifyCode handler of the user service                          *)
(* (apps/user/internal/service/auth_service.go) and the Redis state it     *)
(* works on (apps/user/internal/repository/auth_repository.go): three      *)
(* fixed-window counters, read one after the other before a code is        *)
(* stored, and incremented by a pipeline afterwards.  Each Redis command   *)
(* and each Lua script is atomic in the server; nothing holds between two  *)
(* of them, so the handlers of concurrent requests interleave there.       *)
(*                                                                         *)
(* Time is a tick that ages every key.  The TTLs are constants: a tick is  *)
(* as long as the unit they are given in.                                  *)
(***************************************************************************)
EXTENDS Naturals, FiniteSets

CONSTANTS
    Handler,         \* goroutines that serve SendVerifyCode at the same time
    Email,           \* addresses ValidateEmail accepts
    IP,              \* client addresses as the user service sees them
    Type,            \* code types (1 register, 2 login, 3 reset, 4 rebind)
    Code,            \* what GenerateVerifyCode may return
    None,            \* "no value"
    MinuteMax, DayMax, HourMax,            \* 1, 10 and 100 in the code
    MinuteTTL, CodeTTL, HourTTL, DayTTL,   \* 60 s, 2 min, 1 h and 24 h
    Attempts,        \* times go-redis sends a pipeline: 1 + MaxRetries
    MailConfigured   \* SetEmailConfig was called with SMTP credentials

ASSUME LimitAssumption ==
    /\ IsFiniteSet(Handler)
    /\ None \notin Code
    /\ MinuteMax \in Nat \ {0} /\ DayMax \in Nat \ {0} /\ HourMax \in Nat \ {0}
    /\ MinuteTTL \in Nat \ {0} /\ CodeTTL \in Nat \ {0}
    /\ HourTTL \in Nat \ {0} /\ DayTTL \in Nat \ {0}
    /\ Attempts \in Nat \ {0}
    /\ MailConfigured \in BOOLEAN

VARIABLES
    minute,   \* user:verify_code:1m:{email}
    day,      \* user:verify_code:24h:{email}
    hour,     \* user:verify_code:1h:{ip}
    codes,    \* user:verify_code:{email}:{type}
    inbox,    \* ticks for which the newest mail to an address stays under a minute old
    pc,       \* where each handler is in SendVerifyCode
    req,      \* the request it serves
    attempt   \* which sending of the pipeline this is

counters == <<minute, day, hour>>
local == <<pc, req, attempt>>
vars == <<counters, codes, inbox, local>>

------------------------------------------------------------------------------
(* Redis keys. *)

Counter == [n : Nat, ttl : Nat]
Absent == [n |-> 0, ttl |-> 0]      \* GET answers redis.Nil, which Int() reads as 0

StoredCode == [code : Code \cup {None}, ttl : Nat]
NoCode == [code |-> None, ttl |-> 0]

Request == [email : Email, ip : IP, type : Type]

(* Mistakes for luaIncrementWithExpire: INCR alone; EXPIRE on every INCR.    *)
IncrementedBare(c, ttl) == [c EXCEPT !.n = @ + 1]
IncrementedSliding(c, ttl) == [n |-> c.n + 1, ttl |-> ttl]

(* luaIncrementWithExpire: INCR, and EXPIRE only when INCR created the key. *)
Incremented(c, ttl) ==
    IF c.n = 0 THEN [n |-> 1, ttl |-> ttl] ELSE [c EXCEPT !.n = @ + 1]

(* A key loses a tick of its life, and is gone with the last one.  A key     *)
(* without an expiry stays.                                                   *)
Aged(key, gone) ==
    CASE key.ttl > 1 -> [key EXCEPT !.ttl = @ - 1]
      [] key.ttl = 1 -> gone
      [] OTHER -> key

------------------------------------------------------------------------------
(* The handler, one Redis command at a time. *)

Checking == {"minute", "day", "hour"}
Incrementing == {"incMinute", "incDay", "incHour"}
Stage == {"idle", "store", "mail"} \cup Checking \cup Incrementing

Init ==
    /\ minute = [e \in Email |-> Absent]
    /\ day = [e \in Email |-> Absent]
    /\ hour = [i \in IP |-> Absent]
    /\ codes = [k \in Email \X Type |-> NoCode]
    /\ inbox = [e \in Email |-> 0]
    /\ pc = [h \in Handler |-> "idle"]
    /\ req = [h \in Handler |-> None]
    /\ attempt = [h \in Handler |-> 1]

Goto(h, stage) == pc' = [pc EXCEPT ![h] = stage] /\ UNCHANGED <<req, attempt>>

(* Answer the caller: the goroutine is free for another request. *)
Return(h) ==
    /\ pc' = [pc EXCEPT ![h] = "idle"]
    /\ req' = [req EXCEPT ![h] = None]
    /\ attempt' = [attempt EXCEPT ![h] = 1]

Receive(h) ==
    /\ pc[h] = "idle"
    /\ \E r \in Request :
        /\ req' = [req EXCEPT ![h] = r]
        /\ pc' = [pc EXCEPT ![h] = "minute"]
    /\ UNCHANGED <<counters, codes, inbox, attempt>>

(* One GET of VerifyVerifyCodeRateLimit and its early return.                *)
Check(h, count, max, next) ==
    /\ IF count >= max THEN Return(h) ELSE Goto(h, next)
    /\ UNCHANGED <<counters, codes, inbox>>

(* Mistakes: each limit admits one send too many.                            *)
CheckMinuteLoose(h) ==
    pc[h] = "minute" /\ Check(h, minute[req[h].email].n, MinuteMax + 1, "day")
CheckDayLoose(h) ==
    pc[h] = "day" /\ Check(h, day[req[h].email].n, DayMax + 1, "hour")
CheckHourLoose(h) ==
    pc[h] = "hour" /\ Check(h, hour[req[h].ip].n, HourMax + 1, "store")

(* VerifyVerifyCodeRateLimit: three GETs, each with its own early return. *)
CheckMinute(h) ==
    pc[h] = "minute" /\ Check(h, minute[req[h].email].n, MinuteMax, "day")
CheckDay(h) ==
    pc[h] = "day" /\ Check(h, day[req[h].email].n, DayMax, "hour")
CheckHour(h) ==
    pc[h] = "hour" /\ Check(h, hour[req[h].ip].n, HourMax, "store")

(* A GET of the limit check fails: codes.Internal. *)
CheckFails(h) ==
    /\ pc[h] \in Checking
    /\ Return(h)
    /\ UNCHANGED <<counters, codes, inbox>>

(* GenerateVerifyCode and StoreVerifyCode: SET with its TTL replaces the key. *)
SetCode(h) ==
    \E c \in Code :
        codes' = [codes EXCEPT ![<<req[h].email, req[h].type>>] =
                                   [code |-> c, ttl |-> CodeTTL]]

Store(h) ==
    /\ pc[h] = "store"
    /\ SetCode(h)
    /\ Goto(h, "incMinute")
    /\ UNCHANGED <<counters, inbox>>

(* The random source fails, or SET does, and then with or without effect. *)
StoreFails(h) ==
    /\ pc[h] = "store"
    /\ SetCode(h) \/ UNCHANGED codes
    /\ Return(h)
    /\ UNCHANGED <<counters, inbox>>

(* IncrementVerifyCodeCount: a pipeline of three scripts, which the server   *)
(* runs one at a time, with other clients' commands between them.            *)
IncrMinute(h) ==
    /\ pc[h] = "incMinute"
    /\ minute' = [minute EXCEPT ![req[h].email] = Incremented(@, MinuteTTL)]
    /\ Goto(h, "incDay")
    /\ UNCHANGED <<day, hour, codes, inbox>>

IncrDay(h) ==
    /\ pc[h] = "incDay"
    /\ day' = [day EXCEPT ![req[h].email] = Incremented(@, DayTTL)]
    /\ Goto(h, "incHour")
    /\ UNCHANGED <<minute, hour, codes, inbox>>

(* Mistakes: the retries are not counted; they are not limited.              *)
ResendUncounted(h) ==
    attempt[h] < Attempts /\ Goto(h, "incMinute")
ResendUnlimited(h) ==
    /\ attempt' = [attempt EXCEPT ![h] = @ + 1]
    /\ pc' = [pc EXCEPT ![h] = "incMinute"]
    /\ UNCHANGED req

(* The client sends the whole pipeline again, or gives up with a warning. *)
Resend(h) ==
    /\ attempt[h] < Attempts
    /\ attempt' = [attempt EXCEPT ![h] = @ + 1]
    /\ pc' = [pc EXCEPT ![h] = "incMinute"]
    /\ UNCHANGED req

GiveUp(h) == Goto(h, "mail")

(* After the last script the replies arrive, or are lost. *)
IncrHour(h) ==
    /\ pc[h] = "incHour"
    /\ hour' = [hour EXCEPT ![req[h].ip] = Incremented(@, HourTTL)]
    /\ Goto(h, "mail") \/ Resend(h)
    /\ UNCHANGED <<minute, day, codes, inbox>>

(* The connection breaks before the next script of the pipeline has run. *)
PipelineBreaks(h) ==
    /\ pc[h] \in Incrementing
    /\ Resend(h) \/ GiveUp(h)
    /\ UNCHANGED <<counters, codes, inbox>>

(* SendVerifyCodeEmail: it refuses an empty configuration before it dials. *)
Mail(h) ==
    /\ pc[h] = "mail"
    /\ MailConfigured
    /\ inbox' = [inbox EXCEPT ![req[h].email] = MinuteTTL]
    /\ Return(h)
    /\ UNCHANGED <<counters, codes>>

MailFails(h) ==
    /\ pc[h] = "mail"
    /\ Return(h)
    /\ UNCHANGED <<counters, codes, inbox>>

------------------------------------------------------------------------------
(* The service process dies with every request it was serving; Redis keeps   *)
(* its keys.                                                                  *)
Crash ==
    /\ pc' = [h \in Handler |-> "idle"]
    /\ req' = [h \in Handler |-> None]
    /\ attempt' = [h \in Handler |-> 1]
    /\ UNCHANGED <<counters, codes, inbox>>

Tick ==
    /\ minute' = [e \in Email |-> Aged(minute[e], Absent)]
    /\ day' = [e \in Email |-> Aged(day[e], Absent)]
    /\ hour' = [i \in IP |-> Aged(hour[i], Absent)]
    /\ codes' = [k \in Email \X Type |-> Aged(codes[k], NoCode)]
    /\ inbox' = [e \in Email |-> IF inbox[e] > 0 THEN inbox[e] - 1 ELSE 0]
    /\ UNCHANGED local

RedisStep(h) ==
    \/ CheckMinute(h) \/ CheckDay(h) \/ CheckHour(h) \/ CheckFails(h)
    \/ Store(h) \/ StoreFails(h)
    \/ IncrMinute(h) \/ IncrDay(h) \/ IncrHour(h) \/ PipelineBreaks(h)

Handle(h) == Receive(h) \/ RedisStep(h) \/ Mail(h) \/ MailFails(h)

Next == Crash \/ Tick \/ \E h \in Handler : Handle(h)

Spec == Init /\ [][Next]_vars

(* Time passes.  A Redis call ends within its read and write timeouts        *)
(* (apps/user/cmd/main.go sets 50 ms).  Nothing is assumed of clients, of    *)
(* the process staying up, or of the SMTP dialogue, which has no deadline.   *)
FairSpec == Spec /\ WF_vars(Tick) /\ \A h \in Handler : WF_vars(RedisStep(h))

------------------------------------------------------------------------------
TypeOK ==
    /\ minute \in [Email -> Counter]
    /\ day \in [Email -> Counter]
    /\ hour \in [IP -> Counter]
    /\ codes \in [Email \X Type -> StoredCode]
    /\ inbox \in [Email -> 0..MinuteTTL]
    /\ pc \in [Handler -> Stage]
    /\ req \in [Handler -> Request \cup {None}]
    /\ attempt \in [Handler -> 1..Attempts]
    /\ \A h \in Handler : pc[h] # "idle" => req[h] \in Request

(* Handler h is past a check and attempt k of its pipeline may still run the *)
(* script the check is about: the running attempt while its stage is due.    *)
Owes(h, k, past, due) ==
    /\ pc[h] \in past
    /\ k > attempt[h] \/ (k = attempt[h] /\ pc[h] \in due)

MinuteOwed(e) ==
    {p \in Handler \X (1..Attempts) :
        /\ Owes(p[1], p[2], {"day", "hour", "store"} \cup Incrementing,
                            {"day", "hour", "store", "incMinute"})
        /\ req[p[1]].email = e}
DayOwed(e) ==
    {p \in Handler \X (1..Attempts) :
        /\ Owes(p[1], p[2], {"hour", "store"} \cup Incrementing,
                            {"hour", "store", "incMinute", "incDay"})
        /\ req[p[1]].email = e}
HourOwed(i) ==
    {p \in Handler \X (1..Attempts) :
        /\ Owes(p[1], p[2], {"store"} \cup Incrementing, {"store"} \cup Incrementing)
        /\ req[p[1]].ip = i}

Slack == Cardinality(Handler) * Attempts

(* What a counter holds plus what is owed to it never exceeds the last value *)
(* that passes the check plus one pipeline for every concurrent handler.     *)
Budget ==
    /\ \A e \in Email :
        /\ minute[e].n + Cardinality(MinuteOwed(e)) <= MinuteMax - 1 + Slack
        /\ day[e].n + Cardinality(DayOwed(e)) <= DayMax - 1 + Slack
    /\ \A i \in IP : hour[i].n + Cardinality(HourOwed(i)) <= HourMax - 1 + Slack

(* The limits are not exact: the checks and the increments are separate      *)
(* calls.  But a limit is overshot by at most one pipeline per concurrent    *)
(* handler, retries included, however requests, ticks and failures           *)
(* interleave: VerifyVerifyCodeRateLimit and IncrementVerifyCodeCount.       *)
MinuteOvershoot == \A e \in Email : minute[e].n <= MinuteMax - 1 + Slack
DayOvershoot == \A e \in Email : day[e].n <= DayMax - 1 + Slack
HourOvershoot == \A i \in IP : hour[i].n <= HourMax - 1 + Slack

(* No counter outlives its window: a live counter always has an expiry, so a *)
(* broken pipeline or a crash never locks an address out for good.           *)
CountersExpire ==
    /\ \A e \in Email :
        /\ (minute[e].n > 0) <=> (minute[e].ttl > 0)
        /\ (day[e].n > 0) <=> (day[e].ttl > 0)
    /\ \A i \in IP : (hour[i].n > 0) <=> (hour[i].ttl > 0)

(* Windows are anchored at the first send: a later send, a retry or a race   *)
(* never moves the end of a window that is already running.                  *)
Anchored(c, d) == c.n > 0 /\ d.n > 0 => d.ttl <= c.ttl
AnchoredStep ==
    /\ \A e \in Email : Anchored(minute[e], minute'[e]) /\ Anchored(day[e], day'[e])
    /\ \A i \in IP : Anchored(hour[i], hour'[i])
WindowsAnchored == [][AnchoredStep]_vars

(* An address or a client that is over a limit is admitted again.            *)
LimitsLift ==
    /\ \A e \in Email :
        /\ (minute[e].n >= MinuteMax) ~> (minute[e].n < MinuteMax)
        /\ (day[e].n >= DayMax) ~> (day[e].n < DayMax)
    /\ \A i \in IP : (hour[i].n >= HourMax) ~> (hour[i].n < HourMax)

(* A request is never stuck in Redis, retries of the pipeline included: it   *)
(* is answered or reaches the mail step.                                     *)
RedisPartEnds ==
    \A h \in Handler : (pc[h] # "idle") ~> (pc[h] \in {"idle", "mail"})

(* What auth_repository.go:124 takes the minute counter to say, "already     *)
(* sent within this minute": a limited address got a mail in this minute, or *)
(* the send that counted is still running.                                   *)
LimitedMeansSent ==
    \A e \in Email : minute[e].n >= MinuteMax =>
        inbox[e] > 0 \/ \E h \in Handler : pc[h] # "idle" /\ req[h].email = e

(* The same comment read as the limit: one send per address and minute.      *)
OneSendPerMinute == \A e \in Email : minute[e].n <= MinuteMax

==============================================================================
