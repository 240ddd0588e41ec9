--------------------------- MODULE SendLimitProofs ---------------------------
(* Proofs about SendLimit, for every number of handlers, every limit and     *)
(* every number of attempts.                                                  *)
EXTENDS SendLimit, FiniteSetTheorems, TLAPS

(* Every variable keeps its type, and a handler that is busy has a request. *)
THEOREM TypeCorrect == Spec => []TypeOK
<1>1. Init => TypeOK
  BY LimitAssumption DEF Init, TypeOK, Counter, Absent, StoredCode, NoCode, Stage
<1>2. TypeOK /\ [Next]_vars => TypeOK'
  <2> SUFFICES ASSUME TypeOK, [Next]_vars PROVE TypeOK'
    OBVIOUS
  <2> USE LimitAssumption DEF TypeOK, counters, local, Stage, Checking, Incrementing
  <2>1. CASE Crash
    BY <2>1 DEF Crash
  <2>2. CASE Tick
    <3>1. \A c \in Counter : Aged(c, Absent) \in Counter
      BY DEF Aged, Counter, Absent
    <3>2. \A c \in StoredCode : Aged(c, NoCode) \in StoredCode
      BY DEF Aged, StoredCode, NoCode
    <3> QED
      BY <2>2, <3>1, <3>2 DEF Tick
  <2>3. ASSUME NEW h \in Handler, Receive(h) PROVE TypeOK'
    BY <2>3 DEF Receive
  <2>4. ASSUME NEW h \in Handler, RedisStep(h) PROVE TypeOK'
    <3>1. \A c \in Counter, ttl \in Nat : Incremented(c, ttl) \in Counter
      BY DEF Incremented, Counter
    <3>0. SetCode(h) /\ req[h] \in Request => codes' \in [Email \X Type -> StoredCode]
      <4> SUFFICES ASSUME req[h] \in Request, NEW c \in Code,
                          codes' = [codes EXCEPT ![<<req[h].email, req[h].type>>] =
                                                   [code |-> c, ttl |-> CodeTTL]]
                   PROVE  codes' \in [Email \X Type -> StoredCode]
        BY DEF SetCode
      <4>1. [code |-> c, ttl |-> CodeTTL] \in StoredCode
        BY DEF StoredCode
      <4> QED
        BY <4>1
    <3>2. CASE CheckMinute(h)
      BY <3>2 DEF CheckMinute, Check, Return, Goto
    <3>3. CASE CheckDay(h)
      BY <3>3 DEF CheckDay, Check, Return, Goto
    <3>4. CASE CheckHour(h)
      BY <3>4 DEF CheckHour, Check, Return, Goto
    <3>5. CASE CheckFails(h)
      BY <3>5 DEF CheckFails, Return
    <3>6. CASE Store(h)
      BY <3>0, <3>6 DEF Store, Goto
    <3>7. CASE StoreFails(h)
      BY <3>0, <3>7 DEF StoreFails, Return
    <3>8. CASE IncrMinute(h)
      BY <3>1, <3>8 DEF IncrMinute, Goto
    <3>9. CASE IncrDay(h)
      BY <3>1, <3>9 DEF IncrDay, Goto
    <3>10. CASE IncrHour(h)
      <4>1. hour' \in [IP -> Counter]
        BY <3>1, <3>10 DEF IncrHour
      <4>2. CASE Goto(h, "mail")
        BY <4>1, <4>2, <3>10 DEF IncrHour, Goto
      <4>3. CASE Resend(h)
        BY <4>1, <4>3, <3>10 DEF IncrHour, Resend
      <4> QED
        BY <4>2, <4>3, <3>10 DEF IncrHour
    <3>11. CASE PipelineBreaks(h)
      BY <3>11 DEF PipelineBreaks, GiveUp, Goto, Resend
    <3> QED
      BY <2>4, <3>2, <3>3, <3>4, <3>5, <3>6, <3>7, <3>8, <3>9, <3>10, <3>11 DEF RedisStep
  <2>5. ASSUME NEW h \in Handler, Mail(h) \/ MailFails(h) PROVE TypeOK'
    BY <2>5 DEF Mail, MailFails, Return
  <2>6. CASE UNCHANGED vars
    BY <2>6 DEF vars
  <2> QED
    BY <2>1, <2>2, <2>3, <2>4, <2>5, <2>6 DEF Next, Handle
<1> QED
  BY <1>1, <1>2, PTL DEF Spec

------------------------------------------------------------------------------
(* Counting. *)

Pairs == Handler \X (1..Attempts)

LEMMA PairsCount ==
    /\ IsFiniteSet(Pairs)
    /\ Cardinality(Pairs) = Slack
    /\ Slack \in Nat
<1>1. IsFiniteSet(1..Attempts) /\ Cardinality(1..Attempts) = Attempts
  BY FS_Interval, LimitAssumption
<1>2. IsFiniteSet(Handler)
  BY LimitAssumption
<1>3. IsFiniteSet(Pairs) /\ Cardinality(Pairs) = Cardinality(Handler) * Attempts
  BY <1>1, <1>2, FS_Product DEF Pairs
<1> QED
  BY <1>3, FS_CardinalityType DEF Slack

(* What a step may do to a counter that goes from n to m while the           *)
(* increments owed to it go from S to T: nothing is added; or n passed its   *)
(* check; or one owed increment is paid.                                     *)
Accounted(n, m, max, S, T) ==
    \/ m <= n /\ T \subseteq S
    \/ m = n /\ n < max
    \/ m = n + 1 /\ \E x \in S : T \subseteq S \ {x}

(* A step of that kind keeps a counter within its budget.                    *)
LEMMA AccountedKeepsBudget ==
    ASSUME NEW S \in SUBSET Pairs, NEW T \in SUBSET Pairs,
           NEW n \in Nat, NEW m \in Nat, NEW max \in Nat \ {0},
           Accounted(n, m, max, S, T),
           n + Cardinality(S) <= max - 1 + Slack
    PROVE  m + Cardinality(T) <= max - 1 + Slack
<1>1. /\ IsFiniteSet(S) /\ Cardinality(S) \in Nat
      /\ IsFiniteSet(T) /\ Cardinality(T) \in Nat /\ Cardinality(T) <= Slack
      /\ Slack \in Nat
  BY PairsCount, FS_Subset, FS_CardinalityType
<1>2. CASE m <= n /\ T \subseteq S
  <2>1. Cardinality(T) <= Cardinality(S)
    BY <1>1, <1>2, FS_Subset
  <2> QED
    BY <1>1, <1>2, <2>1
<1>3. CASE m = n /\ n < max
  BY <1>1, <1>3
<1>4. CASE m = n + 1 /\ \E x \in S : T \subseteq S \ {x}
  <2> PICK x \in S : T \subseteq S \ {x}
    BY <1>4
  <2>1. IsFiniteSet(S \ {x}) /\ Cardinality(S \ {x}) = Cardinality(S) - 1
    BY <1>1, FS_RemoveElement
  <2>2. Cardinality(T) <= Cardinality(S) - 1
    BY <2>1, FS_Subset
  <2> QED
    BY <1>1, <1>4, <2>2
<1> QED
  BY <1>2, <1>3, <1>4 DEF Accounted

(* Every step accounts for each of the three counters.                       *)
LEMMA MinuteAccounted ==
    ASSUME TypeOK, [Next]_vars, NEW e \in Email
    PROVE  Accounted(minute[e].n, minute'[e].n, MinuteMax, MinuteOwed(e), MinuteOwed(e)')
<1> USE DEF TypeOK, counters, local, Stage, Checking, Incrementing, Request,
            MinuteOwed, Owes
<1>1. ASSUME NEW h \in Handler, IncrMinute(h)
      PROVE  Accounted(minute[e].n, minute'[e].n, MinuteMax, MinuteOwed(e), MinuteOwed(e)')
  <2>1. CASE req[h].email = e
    <3>1. minute'[e].n = minute[e].n + 1
      BY <1>1, <2>1 DEF IncrMinute, Incremented, Counter
    <3>2. <<h, attempt[h]>> \in MinuteOwed(e)
      BY <1>1, <2>1 DEF IncrMinute
    <3>3. MinuteOwed(e)' \subseteq MinuteOwed(e) \ {<<h, attempt[h]>>}
      BY <1>1, <2>1 DEF IncrMinute, Goto
    <3> QED
      BY <3>1, <3>2, <3>3 DEF Accounted
  <2>2. CASE req[h].email # e
    <3>1. minute'[e] = minute[e]
      BY <1>1, <2>2 DEF IncrMinute
    <3>2. MinuteOwed(e)' \subseteq MinuteOwed(e)
      BY <1>1, <2>2 DEF IncrMinute, Goto
    <3> QED
      BY <3>1, <3>2 DEF Accounted, Counter
  <2> QED
    BY <2>1, <2>2
<1>2. ASSUME NEW h \in Handler, CheckMinute(h)
      PROVE  Accounted(minute[e].n, minute'[e].n, MinuteMax, MinuteOwed(e), MinuteOwed(e)')
  <2>1. minute'[e] = minute[e]
    BY <1>2 DEF CheckMinute, Check
  <2>2. CASE req[h].email = e /\ minute[e].n < MinuteMax
    BY <2>1, <2>2 DEF Accounted
  <2>3. CASE ~(req[h].email = e /\ minute[e].n < MinuteMax)
    <3>1. MinuteOwed(e)' \subseteq MinuteOwed(e)
      BY <1>2, <2>3, LimitAssumption DEF CheckMinute, Check, Goto, Return, Counter
    <3> QED
      BY <2>1, <3>1 DEF Accounted, Counter
  <2> QED
    BY <2>2, <2>3
<1>3. ASSUME NEW h \in Handler, \/ Receive(h) \/ CheckFails(h) \/ StoreFails(h)
                                \/ Mail(h) \/ MailFails(h)
      PROVE  Accounted(minute[e].n, minute'[e].n, MinuteMax, MinuteOwed(e), MinuteOwed(e)')
  <2>1. MinuteOwed(e)' \subseteq MinuteOwed(e)
    BY <1>3 DEF Receive, CheckFails, StoreFails, Mail, MailFails, Return
  <2> QED
    BY <1>3, <2>1 DEF Receive, CheckFails, StoreFails, Mail, MailFails, Accounted, Counter
<1>4. ASSUME NEW h \in Handler, CheckDay(h)
      PROVE  Accounted(minute[e].n, minute'[e].n, MinuteMax, MinuteOwed(e), MinuteOwed(e)')
  <2>1. MinuteOwed(e)' \subseteq MinuteOwed(e)
    BY <1>4 DEF CheckDay, Check, Goto, Return
  <2> QED
    BY <1>4, <2>1 DEF CheckDay, Check, Accounted, Counter
<1>5. ASSUME NEW h \in Handler, CheckHour(h)
      PROVE  Accounted(minute[e].n, minute'[e].n, MinuteMax, MinuteOwed(e), MinuteOwed(e)')
  <2>1. MinuteOwed(e)' \subseteq MinuteOwed(e)
    BY <1>5 DEF CheckHour, Check, Goto, Return
  <2> QED
    BY <1>5, <2>1 DEF CheckHour, Check, Accounted, Counter
<1>6. ASSUME NEW h \in Handler, Store(h)
      PROVE  Accounted(minute[e].n, minute'[e].n, MinuteMax, MinuteOwed(e), MinuteOwed(e)')
  <2>1. MinuteOwed(e)' \subseteq MinuteOwed(e)
    BY <1>6 DEF Store, Goto
  <2> QED
    BY <1>6, <2>1 DEF Store, Accounted, Counter
<1>7. ASSUME NEW h \in Handler, IncrDay(h)
      PROVE  Accounted(minute[e].n, minute'[e].n, MinuteMax, MinuteOwed(e), MinuteOwed(e)')
  <2>1. MinuteOwed(e)' \subseteq MinuteOwed(e)
    BY <1>7 DEF IncrDay, Goto
  <2> QED
    BY <1>7, <2>1 DEF IncrDay, Accounted, Counter
<1>8. ASSUME NEW h \in Handler, IncrHour(h)
      PROVE  Accounted(minute[e].n, minute'[e].n, MinuteMax, MinuteOwed(e), MinuteOwed(e)')
  <2>1. MinuteOwed(e)' \subseteq MinuteOwed(e)
    BY <1>8 DEF IncrHour, Goto, Resend
  <2> QED
    BY <1>8, <2>1 DEF IncrHour, Accounted, Counter
<1>9. ASSUME NEW h \in Handler, PipelineBreaks(h)
      PROVE  Accounted(minute[e].n, minute'[e].n, MinuteMax, MinuteOwed(e), MinuteOwed(e)')
  <2>1. MinuteOwed(e)' \subseteq MinuteOwed(e)
    BY <1>9 DEF PipelineBreaks, GiveUp, Goto, Resend
  <2> QED
    BY <1>9, <2>1 DEF PipelineBreaks, Accounted, Counter
<1>10. CASE Crash \/ Tick \/ UNCHANGED vars
  <2>1. MinuteOwed(e)' \subseteq MinuteOwed(e)
    BY <1>10 DEF Crash, Tick, vars
  <2>2. minute'[e].n <= minute[e].n
    <3>1. Aged(minute[e], Absent).n <= minute[e].n
      BY DEF Aged, Absent, Counter
    <3> QED
      BY <1>10, <3>1 DEF Crash, Tick, vars, Counter
  <2> QED
    BY <2>1, <2>2 DEF Accounted
<1> QED
  BY <1>1, <1>2, <1>3, <1>4, <1>5, <1>6, <1>7, <1>8, <1>9, <1>10
  DEF Next, Handle, RedisStep

LEMMA DayAccounted ==
    ASSUME TypeOK, [Next]_vars, NEW e \in Email
    PROVE  Accounted(day[e].n, day'[e].n, DayMax, DayOwed(e), DayOwed(e)')
<1> USE DEF TypeOK, counters, local, Stage, Checking, Incrementing, Request,
            DayOwed, Owes
<1>1. ASSUME NEW h \in Handler, IncrDay(h)
      PROVE  Accounted(day[e].n, day'[e].n, DayMax, DayOwed(e), DayOwed(e)')
  <2>1. CASE req[h].email = e
    <3>1. day'[e].n = day[e].n + 1
      BY <1>1, <2>1 DEF IncrDay, Incremented, Counter
    <3>2. <<h, attempt[h]>> \in DayOwed(e)
      BY <1>1, <2>1 DEF IncrDay
    <3>3. DayOwed(e)' \subseteq DayOwed(e) \ {<<h, attempt[h]>>}
      BY <1>1, <2>1 DEF IncrDay, Goto
    <3> QED
      BY <3>1, <3>2, <3>3 DEF Accounted
  <2>2. CASE req[h].email # e
    <3>1. day'[e] = day[e]
      BY <1>1, <2>2 DEF IncrDay
    <3>2. DayOwed(e)' \subseteq DayOwed(e)
      BY <1>1, <2>2 DEF IncrDay, Goto
    <3> QED
      BY <3>1, <3>2 DEF Accounted, Counter
  <2> QED
    BY <2>1, <2>2
<1>2. ASSUME NEW h \in Handler, CheckDay(h)
      PROVE  Accounted(day[e].n, day'[e].n, DayMax, DayOwed(e), DayOwed(e)')
  <2>1. day'[e] = day[e]
    BY <1>2 DEF CheckDay, Check
  <2>2. CASE req[h].email = e /\ day[e].n < DayMax
    BY <2>1, <2>2 DEF Accounted
  <2>3. CASE ~(req[h].email = e /\ day[e].n < DayMax)
    <3>1. DayOwed(e)' \subseteq DayOwed(e)
      BY <1>2, <2>3, LimitAssumption DEF CheckDay, Check, Goto, Return, Counter
    <3> QED
      BY <2>1, <3>1 DEF Accounted, Counter
  <2> QED
    BY <2>2, <2>3
<1>3. ASSUME NEW h \in Handler, \/ Receive(h) \/ CheckFails(h) \/ StoreFails(h)
                                \/ Mail(h) \/ MailFails(h)
      PROVE  Accounted(day[e].n, day'[e].n, DayMax, DayOwed(e), DayOwed(e)')
  <2>1. DayOwed(e)' \subseteq DayOwed(e)
    BY <1>3 DEF Receive, CheckFails, StoreFails, Mail, MailFails, Return
  <2> QED
    BY <1>3, <2>1 DEF Receive, CheckFails, StoreFails, Mail, MailFails, Accounted, Counter
<1>4. ASSUME NEW h \in Handler, CheckMinute(h)
      PROVE  Accounted(day[e].n, day'[e].n, DayMax, DayOwed(e), DayOwed(e)')
  <2>1. DayOwed(e)' \subseteq DayOwed(e)
    BY <1>4 DEF CheckMinute, Check, Goto, Return
  <2> QED
    BY <1>4, <2>1 DEF CheckMinute, Check, Accounted, Counter
<1>5. ASSUME NEW h \in Handler, CheckHour(h)
      PROVE  Accounted(day[e].n, day'[e].n, DayMax, DayOwed(e), DayOwed(e)')
  <2>1. DayOwed(e)' \subseteq DayOwed(e)
    BY <1>5 DEF CheckHour, Check, Goto, Return
  <2> QED
    BY <1>5, <2>1 DEF CheckHour, Check, Accounted, Counter
<1>6. ASSUME NEW h \in Handler, Store(h)
      PROVE  Accounted(day[e].n, day'[e].n, DayMax, DayOwed(e), DayOwed(e)')
  <2>1. DayOwed(e)' \subseteq DayOwed(e)
    BY <1>6 DEF Store, Goto
  <2> QED
    BY <1>6, <2>1 DEF Store, Accounted, Counter
<1>7. ASSUME NEW h \in Handler, IncrMinute(h)
      PROVE  Accounted(day[e].n, day'[e].n, DayMax, DayOwed(e), DayOwed(e)')
  <2>1. DayOwed(e)' \subseteq DayOwed(e)
    BY <1>7 DEF IncrMinute, Goto
  <2> QED
    BY <1>7, <2>1 DEF IncrMinute, Accounted, Counter
<1>8. ASSUME NEW h \in Handler, IncrHour(h)
      PROVE  Accounted(day[e].n, day'[e].n, DayMax, DayOwed(e), DayOwed(e)')
  <2>1. DayOwed(e)' \subseteq DayOwed(e)
    BY <1>8 DEF IncrHour, Goto, Resend
  <2> QED
    BY <1>8, <2>1 DEF IncrHour, Accounted, Counter
<1>9. ASSUME NEW h \in Handler, PipelineBreaks(h)
      PROVE  Accounted(day[e].n, day'[e].n, DayMax, DayOwed(e), DayOwed(e)')
  <2>1. DayOwed(e)' \subseteq DayOwed(e)
    BY <1>9 DEF PipelineBreaks, GiveUp, Goto, Resend
  <2> QED
    BY <1>9, <2>1 DEF PipelineBreaks, Accounted, Counter
<1>10. CASE Crash \/ Tick \/ UNCHANGED vars
  <2>1. DayOwed(e)' \subseteq DayOwed(e)
    BY <1>10 DEF Crash, Tick, vars
  <2>2. day'[e].n <= day[e].n
    <3>1. Aged(day[e], Absent).n <= day[e].n
      BY DEF Aged, Absent, Counter
    <3> QED
      BY <1>10, <3>1 DEF Crash, Tick, vars, Counter
  <2> QED
    BY <2>1, <2>2 DEF Accounted
<1> QED
  BY <1>1, <1>2, <1>3, <1>4, <1>5, <1>6, <1>7, <1>8, <1>9, <1>10
  DEF Next, Handle, RedisStep

LEMMA HourAccounted ==
    ASSUME TypeOK, [Next]_vars, NEW i \in IP
    PROVE  Accounted(hour[i].n, hour'[i].n, HourMax, HourOwed(i), HourOwed(i)')
<1> USE DEF TypeOK, counters, local, Stage, Checking, Incrementing, Request,
            HourOwed, Owes
<1>1. ASSUME NEW h \in Handler, IncrHour(h)
      PROVE  Accounted(hour[i].n, hour'[i].n, HourMax, HourOwed(i), HourOwed(i)')
  <2>1. CASE req[h].ip = i
    <3>1. hour'[i].n = hour[i].n + 1
      BY <1>1, <2>1 DEF IncrHour, Incremented, Counter
    <3>2. <<h, attempt[h]>> \in HourOwed(i)
      BY <1>1, <2>1 DEF IncrHour
    <3>3. HourOwed(i)' \subseteq HourOwed(i) \ {<<h, attempt[h]>>}
      BY <1>1, <2>1 DEF IncrHour, Goto, Resend
    <3> QED
      BY <3>1, <3>2, <3>3 DEF Accounted
  <2>2. CASE req[h].ip # i
    <3>1. hour'[i] = hour[i]
      BY <1>1, <2>2 DEF IncrHour
    <3>2. HourOwed(i)' \subseteq HourOwed(i)
      BY <1>1, <2>2 DEF IncrHour, Goto, Resend
    <3> QED
      BY <3>1, <3>2 DEF Accounted, Counter
  <2> QED
    BY <2>1, <2>2
<1>2. ASSUME NEW h \in Handler, CheckHour(h)
      PROVE  Accounted(hour[i].n, hour'[i].n, HourMax, HourOwed(i), HourOwed(i)')
  <2>1. hour'[i] = hour[i]
    BY <1>2 DEF CheckHour, Check
  <2>2. CASE req[h].ip = i /\ hour[i].n < HourMax
    BY <2>1, <2>2 DEF Accounted
  <2>3. CASE ~(req[h].ip = i /\ hour[i].n < HourMax)
    <3>1. HourOwed(i)' \subseteq HourOwed(i)
      BY <1>2, <2>3, LimitAssumption DEF CheckHour, Check, Goto, Return, Counter
    <3> QED
      BY <2>1, <3>1 DEF Accounted, Counter
  <2> QED
    BY <2>2, <2>3
<1>3. ASSUME NEW h \in Handler, \/ Receive(h) \/ CheckFails(h) \/ StoreFails(h)
                                \/ Mail(h) \/ MailFails(h)
      PROVE  Accounted(hour[i].n, hour'[i].n, HourMax, HourOwed(i), HourOwed(i)')
  <2>1. HourOwed(i)' \subseteq HourOwed(i)
    BY <1>3 DEF Receive, CheckFails, StoreFails, Mail, MailFails, Return
  <2> QED
    BY <1>3, <2>1 DEF Receive, CheckFails, StoreFails, Mail, MailFails, Accounted, Counter
<1>4. ASSUME NEW h \in Handler, CheckMinute(h)
      PROVE  Accounted(hour[i].n, hour'[i].n, HourMax, HourOwed(i), HourOwed(i)')
  <2>1. HourOwed(i)' \subseteq HourOwed(i)
    BY <1>4 DEF CheckMinute, Check, Goto, Return
  <2> QED
    BY <1>4, <2>1 DEF CheckMinute, Check, Accounted, Counter
<1>5. ASSUME NEW h \in Handler, CheckDay(h)
      PROVE  Accounted(hour[i].n, hour'[i].n, HourMax, HourOwed(i), HourOwed(i)')
  <2>1. HourOwed(i)' \subseteq HourOwed(i)
    BY <1>5 DEF CheckDay, Check, Goto, Return
  <2> QED
    BY <1>5, <2>1 DEF CheckDay, Check, Accounted, Counter
<1>6. ASSUME NEW h \in Handler, Store(h)
      PROVE  Accounted(hour[i].n, hour'[i].n, HourMax, HourOwed(i), HourOwed(i)')
  <2>1. HourOwed(i)' \subseteq HourOwed(i)
    BY <1>6 DEF Store, Goto
  <2> QED
    BY <1>6, <2>1 DEF Store, Accounted, Counter
<1>7. ASSUME NEW h \in Handler, IncrMinute(h)
      PROVE  Accounted(hour[i].n, hour'[i].n, HourMax, HourOwed(i), HourOwed(i)')
  <2>1. HourOwed(i)' \subseteq HourOwed(i)
    BY <1>7 DEF IncrMinute, Goto
  <2> QED
    BY <1>7, <2>1 DEF IncrMinute, Accounted, Counter
<1>8. ASSUME NEW h \in Handler, IncrDay(h)
      PROVE  Accounted(hour[i].n, hour'[i].n, HourMax, HourOwed(i), HourOwed(i)')
  <2>1. HourOwed(i)' \subseteq HourOwed(i)
    BY <1>8 DEF IncrDay, Goto
  <2> QED
    BY <1>8, <2>1 DEF IncrDay, Accounted, Counter
<1>9. ASSUME NEW h \in Handler, PipelineBreaks(h)
      PROVE  Accounted(hour[i].n, hour'[i].n, HourMax, HourOwed(i), HourOwed(i)')
  <2>1. HourOwed(i)' \subseteq HourOwed(i)
    BY <1>9 DEF PipelineBreaks, GiveUp, Goto, Resend
  <2> QED
    BY <1>9, <2>1 DEF PipelineBreaks, Accounted, Counter
<1>10. CASE Crash \/ Tick \/ UNCHANGED vars
  <2>1. HourOwed(i)' \subseteq HourOwed(i)
    BY <1>10 DEF Crash, Tick, vars
  <2>2. hour'[i].n <= hour[i].n
    <3>1. Aged(hour[i], Absent).n <= hour[i].n
      BY DEF Aged, Absent, Counter
    <3> QED
      BY <1>10, <3>1 DEF Crash, Tick, vars, Counter
  <2> QED
    BY <2>1, <2>2 DEF Accounted
<1> QED
  BY <1>1, <1>2, <1>3, <1>4, <1>5, <1>6, <1>7, <1>8, <1>9, <1>10
  DEF Next, Handle, RedisStep

------------------------------------------------------------------------------
(* The inductive invariant. *)

IInv == TypeOK /\ Budget

(* Every reachable state keeps every counter within its budget: what it      *)
(* holds and what concurrent handlers may still add.                          *)
THEOREM BudgetInvariant == Spec => []IInv
<1>1. Init => Budget
  <2> SUFFICES ASSUME Init PROVE Budget
    OBVIOUS
  <2>1. \A e \in Email : MinuteOwed(e) = {} /\ DayOwed(e) = {}
    BY DEF Init, MinuteOwed, DayOwed, Owes, Incrementing
  <2>2. \A i \in IP : HourOwed(i) = {}
    BY DEF Init, HourOwed, Owes, Incrementing
  <2>3. Cardinality({}) = 0
    BY FS_EmptySet
  <2>4. \A max \in Nat \ {0} : 0 + 0 <= max - 1 + Slack
    BY PairsCount
  <2>5. /\ \A e \in Email : minute[e].n = 0 /\ day[e].n = 0
        /\ \A i \in IP : hour[i].n = 0
    BY DEF Init, Absent
  <2> QED
    BY <2>1, <2>2, <2>3, <2>4, <2>5, LimitAssumption DEF Budget
<1>2. TypeOK /\ TypeOK' /\ Budget /\ [Next]_vars => Budget'
  <2> SUFFICES ASSUME TypeOK, TypeOK', Budget, [Next]_vars PROVE Budget'
    OBVIOUS
  <2>1. ASSUME NEW e \in Email
        PROVE  minute'[e].n + Cardinality(MinuteOwed(e)') <= MinuteMax - 1 + Slack
    <3>1. MinuteOwed(e) \in SUBSET Pairs /\ MinuteOwed(e)' \in SUBSET Pairs
      BY DEF MinuteOwed, Pairs
    <3>2. minute[e].n \in Nat /\ minute'[e].n \in Nat
      BY DEF TypeOK, Counter
    <3> QED
      BY <3>1, <3>2, MinuteAccounted, AccountedKeepsBudget, LimitAssumption DEF Budget
  <2>2. ASSUME NEW e \in Email
        PROVE  day'[e].n + Cardinality(DayOwed(e)') <= DayMax - 1 + Slack
    <3>1. DayOwed(e) \in SUBSET Pairs /\ DayOwed(e)' \in SUBSET Pairs
      BY DEF DayOwed, Pairs
    <3>2. day[e].n \in Nat /\ day'[e].n \in Nat
      BY DEF TypeOK, Counter
    <3> QED
      BY <3>1, <3>2, DayAccounted, AccountedKeepsBudget, LimitAssumption DEF Budget
  <2>3. ASSUME NEW i \in IP
        PROVE  hour'[i].n + Cardinality(HourOwed(i)') <= HourMax - 1 + Slack
    <3>1. HourOwed(i) \in SUBSET Pairs /\ HourOwed(i)' \in SUBSET Pairs
      BY DEF HourOwed, Pairs
    <3>2. hour[i].n \in Nat /\ hour'[i].n \in Nat
      BY DEF TypeOK, Counter
    <3> QED
      BY <3>1, <3>2, HourAccounted, AccountedKeepsBudget, LimitAssumption DEF Budget
  <2> QED
    BY <2>1, <2>2, <2>3 DEF Budget
<1> QED
  BY <1>1, <1>2, TypeCorrect, PTL DEF Spec, IInv

(* The budget is checked on its own by the runs. *)
COROLLARY BudgetHolds == Spec => []Budget
  BY BudgetInvariant, PTL DEF IInv

LEMMA BudgetBounds == IInv => MinuteOvershoot /\ DayOvershoot /\ HourOvershoot
<1> SUFFICES ASSUME IInv PROVE MinuteOvershoot /\ DayOvershoot /\ HourOvershoot
  OBVIOUS
<1> USE PairsCount, FS_Subset, FS_CardinalityType, LimitAssumption
    DEF IInv, Budget, TypeOK, Counter
<1>1. \A e \in Email : /\ Cardinality(MinuteOwed(e)) \in Nat
                       /\ Cardinality(DayOwed(e)) \in Nat
  BY DEF MinuteOwed, DayOwed, Pairs
<1>2. \A i \in IP : Cardinality(HourOwed(i)) \in Nat
  BY DEF HourOwed, Pairs
<1> QED
  BY <1>1, <1>2 DEF MinuteOvershoot, DayOvershoot, HourOvershoot

(* The one-minute limit of an address is never overshot by more than one     *)
(* pipeline, retries included, per concurrent handler.                        *)
THEOREM MinuteLimit == Spec => []MinuteOvershoot
  BY BudgetInvariant, BudgetBounds, PTL

(* So is its 24-hour limit. *)
THEOREM DayLimit == Spec => []DayOvershoot
  BY BudgetInvariant, BudgetBounds, PTL

(* And the hourly limit of a client address. *)
THEOREM HourLimit == Spec => []HourOvershoot
  BY BudgetInvariant, BudgetBounds, PTL

------------------------------------------------------------------------------
(* A live counter always has an expiry, whatever breaks between two scripts. *)
THEOREM ExpiryInvariant == Spec => []CountersExpire
<1> DEFINE Sound(c) == (c.n > 0) <=> (c.ttl > 0)
<1>1. ASSUME NEW c \in Counter, Sound(c)
      PROVE  Sound(Aged(c, Absent)) /\ \A ttl \in Nat \ {0} : Sound(Incremented(c, ttl))
  BY <1>1 DEF Counter, Absent, Aged, Incremented
<1>2. Init => CountersExpire
  BY DEF Init, CountersExpire, Absent
<1>3. TypeOK /\ CountersExpire /\ [Next]_vars => CountersExpire'
  <2> SUFFICES ASSUME TypeOK, CountersExpire, [Next]_vars PROVE CountersExpire'
    OBVIOUS
  <2>1. CASE UNCHANGED counters
    BY <2>1 DEF counters, CountersExpire
  <2>2. CASE Tick
    BY <1>1, <2>2 DEF Tick, TypeOK, CountersExpire
  <2>3. ASSUME NEW h \in Handler, IncrMinute(h) PROVE CountersExpire'
    BY <1>1, <2>3, LimitAssumption DEF IncrMinute, TypeOK, CountersExpire
  <2>4. ASSUME NEW h \in Handler, IncrDay(h) PROVE CountersExpire'
    BY <1>1, <2>4, LimitAssumption DEF IncrDay, TypeOK, CountersExpire
  <2>5. ASSUME NEW h \in Handler, IncrHour(h) PROVE CountersExpire'
    BY <1>1, <2>5, LimitAssumption DEF IncrHour, TypeOK, CountersExpire
  <2> QED
    BY <2>1, <2>2, <2>3, <2>4, <2>5
    DEF Next, Handle, RedisStep, vars, Crash, Receive, CheckMinute, CheckDay,
        CheckHour, Check, CheckFails, Store, StoreFails, PipelineBreaks, Mail, MailFails
<1> QED
  BY <1>2, <1>3, TypeCorrect, PTL DEF Spec

(* No step moves the end of a running window further away.                   *)
THEOREM AnchorProperty == Spec => WindowsAnchored
<1>1. ASSUME NEW c \in Counter
      PROVE  /\ Anchored(c, c) /\ Anchored(c, Aged(c, Absent))
             /\ \A ttl \in Nat : Anchored(c, Incremented(c, ttl))
  BY DEF Counter, Absent, Aged, Incremented, Anchored
<1>2. TypeOK /\ [Next]_vars => [AnchoredStep]_vars
  <2> SUFFICES ASSUME TypeOK, Next PROVE AnchoredStep
    OBVIOUS
  <2>1. CASE UNCHANGED counters
    BY <1>1, <2>1 DEF counters, TypeOK, AnchoredStep
  <2>2. CASE Tick
    BY <1>1, <2>2 DEF Tick, TypeOK, AnchoredStep
  <2>3. ASSUME NEW h \in Handler, IncrMinute(h) PROVE AnchoredStep
    BY <1>1, <2>3, LimitAssumption DEF IncrMinute, TypeOK, AnchoredStep
  <2>4. ASSUME NEW h \in Handler, IncrDay(h) PROVE AnchoredStep
    BY <1>1, <2>4, LimitAssumption DEF IncrDay, TypeOK, AnchoredStep
  <2>5. ASSUME NEW h \in Handler, IncrHour(h) PROVE AnchoredStep
    BY <1>1, <2>5, LimitAssumption DEF IncrHour, TypeOK, AnchoredStep
  <2> QED
    BY <2>1, <2>2, <2>3, <2>4, <2>5
    DEF Next, Handle, RedisStep, Crash, Receive, CheckMinute, CheckDay,
        CheckHour, Check, CheckFails, Store, StoreFails, PipelineBreaks, Mail, MailFails
<1> QED
  BY <1>2, TypeCorrect, PTL DEF Spec, WindowsAnchored
==============================================================================
