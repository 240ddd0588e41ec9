------------------------- MODULE DeviceTokensProofs -------------------------
(* Proofs about DeviceTokens, for every number of handlers, users, devices   *)
(* and device names, all lifetimes of the tokens and any number of           *)
(* retransmissions.                                                          *)
EXTENDS DeviceTokens, TLAPS

------------------------------------------------------------------------------
(* Types. *)

(* What a handler has in hand where it is.  Only logins reach the stores: a  *)
(* refresh stops at one of its two checks, since what parses is not stored.  *)
Ready ==
    \A h \in Handler :
        /\ pc[h] \in {"check", "access", "refresh", "row"} => req[h] \in LoginCall
        /\ pc[h] \in {"access", "refresh", "row"} =>
             pair[h] \in [access : Access, refresh : Refresh]
        /\ pc[h] \in {"parse", "compare"} => req[h] \in RefreshCall
        /\ pc[h] = "compare" => req[h].token \in Access

LEMMA NotOpaque == \A t \in Access : t \notin Refresh /\ t # None
BY OpaqueAssumption

LEMMA OlderTyped ==
    /\ \A t \in Access : Older(t) \in Access
    /\ \A t \in Refresh \cup {None} : Older(t) = t
    /\ \A t \in Access, n \in Nat :
         t.left <= n /\ n > 1 => Older(t).left <= n - 1
<1>1. ASSUME NEW t \in Access, t.left = 0 PROVE Older(t) = t
  BY <1>1 DEF Older
<1>2. ASSUME NEW t \in Access, t.left # 0
      PROVE  Older(t) = [t EXCEPT !.left = t.left - 1]
  BY <1>2, NotOpaque DEF Older
<1>3. \A t \in Access : t.left \in 0..AccessTTL
  BY DEF Access
<1>4. \A t \in Access : Older(t) \in Access
  BY <1>1, <1>2, TokenAssumption DEF Access
<1>5. ASSUME NEW t \in Access, NEW n \in Nat, t.left <= n, n > 1
      PROVE  Older(t).left <= n - 1
  BY <1>1, <1>2, <1>3, <1>5 DEF Access
<1> QED
  BY <1>4, <1>5 DEF Older

LEMMA OlderPairTyped ==
    /\ \A p \in Pair \cup {NoPair} : OlderPair(p) \in Pair \cup {NoPair}
    /\ \A p \in [access : Access, refresh : Refresh] :
         OlderPair(p) \in [access : Access, refresh : Refresh]
    /\ \A p \in Pair \cup {NoPair} : OlderPair(p).refresh = p.refresh
BY OlderTyped DEF OlderPair, Pair, NoPair

(* A stored access token one tick later. *)
LEMMA AgedKey ==
    ASSUME NEW T, NEW L, NEW I, NEW r \in [tok : T, ttl : L, by : I], NEW t \in T, NEW n \in L
    PROVE  LET s == [r EXCEPT !.ttl = n, !.tok = t] IN
           s \in [tok : T, ttl : L, by : I] /\ s.tok = t /\ s.ttl = n /\ s.by = r.by
OBVIOUS

(* The key a login works on. *)
LEMMA LoginKey ==
    ASSUME Ready, NEW h \in Handler, pc[h] \in {"check", "access", "refresh", "row"}
    PROVE  KeyOf(h) = <<req[h].user, req[h].name>> /\ KeyOf(h) \in Key
BY DEF Ready, LoginCall, KeyOf, Key

LEMMA WritersLogIn ==
    ASSUME Ready, NEW k, NEW h \in Writing(k)
    PROVE  h \in Handler /\ req[h].op = "login" /\ req[h] \in LoginCall
BY DEF Ready, Writing, LoginCall

LEMMA ReturnTyped ==
    ASSUME TypeOK, NEW h \in Handler, Return(h)
    PROVE  /\ pc' \in [Handler -> {"idle", "check", "access", "refresh", "row", "parse",
                                   "compare", "user"}]
           /\ req' \in [Handler -> Request \cup {None}]
           /\ pair' \in [Handler -> Pair \cup {NoPair}]
           /\ attempt' \in [Handler -> 1..Attempts]
           /\ clash' \subseteq Handler
BY TokenAssumption DEF TypeOK, Return

LEMMA GotoTyped ==
    ASSUME TypeOK, NEW h \in Handler,
           NEW stage \in {"access", "refresh", "row", "compare"}, Goto(h, stage)
    PROVE  /\ pc' \in [Handler -> {"idle", "check", "access", "refresh", "row", "parse",
                                   "compare", "user"}]
           /\ req' \in [Handler -> Request \cup {None}]
           /\ attempt' \in [Handler -> 1..Attempts]
BY TokenAssumption DEF TypeOK, Goto

LEMMA WriteTyped ==
    ASSUME TypeOK, Ready, NEW h \in Handler, Write(h)
    PROVE  /\ at' \in [Key -> [tok : Access \cup {None}, ttl : 0..AccessTTL,
                               by : Refresh \cup {None}]]
           /\ rt' \in [Key -> [id : Refresh \cup {None}, ttl : 0..RefreshTTL]]
<1>1. pair[h].access \in Access /\ pair[h].refresh \in Refresh
  BY DEF Write, Ready
<1>2. AccessTTL \in 0..AccessTTL /\ RefreshTTL \in 0..RefreshTTL
  BY TokenAssumption
<1>3. /\ [tok |-> pair[h].access, ttl |-> AccessTTL, by |-> pair[h].refresh]
           \in [tok : Access \cup {None}, ttl : 0..AccessTTL, by : Refresh \cup {None}]
      /\ [id |-> pair[h].refresh, ttl |-> RefreshTTL]
           \in [id : Refresh \cup {None}, ttl : 0..RefreshTTL]
  BY <1>1, <1>2
<1>4. CASE SetAccess(h) /\ UNCHANGED rt
  BY <1>3, <1>4 DEF TypeOK, SetAccess
<1>5. CASE SetRefresh(h) /\ UNCHANGED at
  BY <1>3, <1>5 DEF TypeOK, SetRefresh
<1> QED
  BY <1>4, <1>5 DEF Write

LEMMA TypeStep == TypeOK /\ Ready /\ [Next]_vars => TypeOK'
<1> SUFFICES ASSUME TypeOK, Ready, [Next]_vars PROVE TypeOK'
  OBVIOUS
<1> USE TokenAssumption DEF TypeOK, history
<1>1. CASE Crash
  BY <1>1 DEF Crash
<1>2. CASE Tick
  <2>1. at' \in [Key -> [tok : Access \cup {None}, ttl : 0..AccessTTL,
                         by : Refresh \cup {None}]]
    <3> SUFFICES ASSUME NEW k \in Key
                 PROVE  (IF at[k].ttl > 1
                         THEN [at[k] EXCEPT !.ttl = at[k].ttl - 1, !.tok = Older(at[k].tok)]
                         ELSE NoAccess)
                        \in [tok : Access \cup {None}, ttl : 0..AccessTTL,
                             by : Refresh \cup {None}]
      BY <1>2 DEF Tick
    <3>1. Older(at[k].tok) \in Access \cup {None}
      BY OlderTyped
    <3>2. CASE at[k].ttl > 1
      <4>1. at[k].ttl - 1 \in 0..AccessTTL
        BY <3>2
      <4>2. at[k] \in [tok : Access \cup {None}, ttl : 0..AccessTTL,
                       by : Refresh \cup {None}]
        OBVIOUS
      <4> HIDE DEF TypeOK
      <4>3. [at[k] EXCEPT !.ttl = at[k].ttl - 1, !.tok = Older(at[k].tok)]
              \in [tok : Access \cup {None}, ttl : 0..AccessTTL, by : Refresh \cup {None}]
        BY <3>1, <4>1, <4>2, AgedKey
      <4> QED
        BY <3>2, <4>3
    <3>3. CASE ~(at[k].ttl > 1)
      BY <3>3 DEF NoAccess
    <3> QED
      BY <3>2, <3>3
  <2>2. rt' \in [Key -> [id : Refresh \cup {None}, ttl : 0..RefreshTTL]]
    <3> SUFFICES ASSUME NEW k \in Key
                 PROVE  (IF rt[k].ttl > 1 THEN [rt[k] EXCEPT !.ttl = rt[k].ttl - 1]
                         ELSE NoRefresh)
                        \in [id : Refresh \cup {None}, ttl : 0..RefreshTTL]
      BY <1>2 DEF Tick
    <3>1. CASE rt[k].ttl > 1
      BY <3>1
    <3>2. CASE ~(rt[k].ttl > 1)
      BY <3>2 DEF NoRefresh
    <3> QED
      BY <3>1, <3>2
  <2>3. /\ wallet' \in [Device -> Pair \cup {NoPair}]
        /\ pair' \in [Handler -> Pair \cup {NoPair}]
    BY <1>2, OlderPairTyped DEF Tick
  <2>4. ASSUME NEW h \in Handler, pc[h] \in {"parse", "compare"}
        PROVE  [req[h] EXCEPT !.token = Older(req[h].token)] \in Request
    <3>1. req[h] \in RefreshCall
      BY <2>4 DEF Ready
    <3>2. Older(req[h].token) \in Access \cup Refresh
      BY <3>1, OlderTyped DEF RefreshCall
    <3> QED
      BY <3>1, <3>2 DEF RefreshCall, Request
  <2>5. req' \in [Handler -> Request \cup {None}]
    BY <1>2, <2>4 DEF Tick
  <2> QED
    BY <1>2, <2>1, <2>2, <2>3, <2>5 DEF Tick
<1>3. ASSUME NEW h \in Handler, Receive(h) PROVE TypeOK'
  <2>1. req' \in [Handler -> Request \cup {None}]
    <3>1. \A d \in Device : \A t \in {wallet[d].access, wallet[d].refresh} \ {None} :
            t \in Access \cup Refresh
      BY DEF Pair, NoPair
    <3> QED
      BY <1>3, <3>1 DEF Receive, Request, LoginCall, RefreshCall, LogoutCall
  <2> QED
    BY <1>3, <2>1 DEF Receive
<1>4. ASSUME NEW h \in Handler, Refuse(h) PROVE TypeOK'
  BY <1>4, ReturnTyped DEF Refuse
<1>5. ASSUME NEW h \in Handler, Sign(h) PROVE TypeOK'
  <2>1. req[h].user \in User /\ req[h].name \in Name
    BY <1>5 DEF Sign, Ready, LoginCall
  <2>2. pair' \in [Handler -> Pair \cup {NoPair}]
    BY <1>5, <2>1 DEF Sign, Pair, Access
  <2>3. clash' \subseteq Handler
    BY <1>5 DEF Sign, Writing
  <2>4. stands' \in [Key -> [id : Refresh \cup {None}, device : Device \cup {None}]]
    BY <1>5 DEF Sign, NoLogin
  <2> QED
    BY <1>5, <2>2, <2>3, <2>4, GotoTyped DEF Sign
<1>6. ASSUME NEW h \in Handler, Store(h) PROVE TypeOK'
  <2>1. CASE req[h].op = "refresh"
    BY <1>6, <2>1, ReturnTyped, WriteTyped DEF Store
  <2>2. CASE req[h].op # "refresh"
    <3>1. PICK stage \in {"refresh", "row"} : Goto(h, stage)
      BY <1>6, <2>2 DEF Store
    <3> QED
      BY <1>6, <2>2, <3>1, GotoTyped, WriteTyped DEF Store
  <2> QED
    BY <2>1, <2>2
<1>7. ASSUME NEW h \in Handler, StoreAgain(h) PROVE TypeOK'
  BY <1>7, WriteTyped DEF StoreAgain
<1>8. ASSUME NEW h \in Handler, StoreFails(h) PROVE TypeOK'
  <2>1. CASE Write(h)
    BY <1>8, <2>1, ReturnTyped, WriteTyped DEF StoreFails
  <2>2. CASE ~Write(h)
    BY <1>8, <2>2, ReturnTyped DEF StoreFails
  <2> QED
    BY <2>1, <2>2
<1>9. ASSUME NEW h \in Handler, SaveSession(h) \/ SaveFails(h) PROVE TypeOK'
  <2>1. req[h] \in LoginCall /\ pair[h] \in Pair /\ pair[h].refresh \in Refresh
    BY <1>9 DEF SaveSession, SaveFails, Ready, Pair
  <2>2. PICK listed \in Device \cup {None} : AnswerLogin(h, listed)
    BY <1>9, <2>1 DEF SaveSession, SaveFails, LoginCall
  <2>3. wallet' \in [Device -> Pair \cup {NoPair}]
    BY <2>1, <2>2 DEF AnswerLogin, LoginCall
  <2>4. stands' \in [Key -> [id : Refresh \cup {None}, device : Device \cup {None}]]
    BY <2>1, <2>2 DEF AnswerLogin
  <2>5. row' \in [Key -> Session]
    BY <1>9, <2>1 DEF SaveSession, SaveFails, LoginCall, Session
  <2>6. UNCHANGED <<at, rt>> /\ Return(h)
    BY <1>9, <2>2 DEF SaveSession, SaveFails, AnswerLogin
  <2> QED
    BY <2>3, <2>4, <2>5, <2>6, ReturnTyped
<1>10. ASSUME NEW h \in Handler, Parse(h) PROVE TypeOK'
  <2>1. CASE Parses(req[h].token)
    BY <1>10, <2>1, GotoTyped DEF Parse
  <2>2. CASE ~Parses(req[h].token)
    BY <1>10, <2>2, ReturnTyped DEF Parse
  <2> QED
    BY <2>1, <2>2
<1>11. ASSUME NEW h \in Handler, Compare(h) PROVE TypeOK'
  <2>1. CASE rt[KeyOf(h)].id = req[h].token
    <3>1. req[h].token \in Access
      BY <1>11 DEF Compare, Ready
    <3>2. [access |-> [req[h].token EXCEPT !.left = AccessTTL], refresh |-> None] \in Pair
      <4>1. AccessTTL \in 0..AccessTTL
        BY TokenAssumption
      <4>2. [req[h].token EXCEPT !.left = AccessTTL] \in Access
        BY <3>1, <4>1 DEF Access
      <4> QED
        BY <4>2 DEF Pair
    <3> QED
      BY <1>11, <2>1, <3>2, GotoTyped DEF Compare
  <2>2. CASE rt[KeyOf(h)].id # req[h].token
    BY <1>11, <2>2, ReturnTyped DEF Compare
  <2> QED
    BY <2>1, <2>2
<1>12. ASSUME NEW h \in Handler, EndSession(h) PROVE TypeOK'
  BY <1>12, ReturnTyped DEF EndSession, ContextUser
<1>13. CASE UNCHANGED vars
  BY <1>13 DEF vars, local
<1> QED
  BY <1>1, <1>2, <1>3, <1>4, <1>5, <1>6, <1>7, <1>8, <1>9, <1>10, <1>11, <1>12, <1>13
     DEF Next

(* Compare never succeeds: what was parsed is a JWT, what is stored is none. *)
LEMMA RefreshEnds ==
    ASSUME TypeOK, Ready, NEW h \in Handler, Compare(h) PROVE Return(h)
<1>1. req[h].token \in Access /\ req[h] \in RefreshCall
  BY DEF Ready, Compare
<1>2. KeyOf(h) \in Key
  BY <1>1 DEF Access, KeyOf, Key, RefreshCall
<1>3. rt[KeyOf(h)].id # req[h].token
  BY <1>1, <1>2, NotOpaque DEF TypeOK
<1> QED
  BY <1>3 DEF Compare

LEMMA ReadyStep == TypeOK /\ Ready /\ [Next]_vars => Ready'
<1> SUFFICES ASSUME TypeOK, Ready, [Next]_vars PROVE Ready'
  OBVIOUS
<1> USE DEF TypeOK, Ready
<1>1. CASE Crash
  BY <1>1 DEF Crash
<1>2. CASE Tick
  <2> SUFFICES ASSUME NEW h \in Handler
               PROVE  /\ pc[h] \in {"check", "access", "refresh", "row"}
                           => req'[h] \in LoginCall
                      /\ pc[h] \in {"access", "refresh", "row"}
                           => pair'[h] \in [access : Access, refresh : Refresh]
                      /\ pc[h] \in {"parse", "compare"} => req'[h] \in RefreshCall
                      /\ pc[h] = "compare" => req'[h].token \in Access
    BY <1>2 DEF Tick
  <2>1. CASE pc[h] \in {"parse", "compare"}
    <3>1. req[h] \in RefreshCall /\ Older(req[h].token) \in Access \cup Refresh
      BY <2>1, OlderTyped DEF RefreshCall
    <3>2. req'[h] = [req[h] EXCEPT !.token = Older(req[h].token)]
      BY <1>2, <2>1 DEF Tick
    <3>3. req'[h] \in RefreshCall /\ req'[h].token = Older(req[h].token)
      BY <3>1, <3>2 DEF RefreshCall
    <3> QED
      BY <2>1, <3>3, OlderTyped
  <2>2. CASE pc[h] \notin {"parse", "compare"}
    BY <1>2, <2>2, OlderPairTyped DEF Tick
  <2> QED
    BY <2>1, <2>2
<1>3. ASSUME NEW h \in Handler, Receive(h) PROVE Ready'
  <2>1. \A g \in Handler : g # h => pc'[g] = pc[g] /\ req'[g] = req[g]
    BY <1>3 DEF Receive
  <2>2. pair' = pair
    BY <1>3 DEF Receive
  <2>3. \/ pc'[h] = "check" /\ req'[h] \in LoginCall
        \/ pc'[h] = "parse" /\ req'[h] \in RefreshCall
        \/ pc'[h] = "user"
    <3>1. \A d \in Device : \A t \in {wallet[d].access, wallet[d].refresh} \ {None} :
            t \in Access \cup Refresh
      BY DEF Pair, NoPair
    <3> QED
      BY <1>3, <3>1 DEF Receive, LoginCall, RefreshCall
  <2> QED
    BY <2>1, <2>2, <2>3
<1>4. ASSUME NEW h \in Handler, Return(h) PROVE Ready'
  BY <1>4 DEF Return
<1>5. ASSUME NEW h \in Handler, Sign(h) PROVE Ready'
  <2>1. req[h] \in LoginCall
    BY <1>5 DEF Sign
  <2>2. PICK id \in Refresh :
          pair' = [pair EXCEPT ![h] =
                     [access |-> [user |-> req[h].user, name |-> req[h].name,
                                  left |-> AccessTTL],
                      refresh |-> id]]
    BY <1>5 DEF Sign
  <2>3. [user |-> req[h].user, name |-> req[h].name, left |-> AccessTTL] \in Access
    BY <2>1, TokenAssumption DEF LoginCall, Access
  <2>4. pair'[h] \in [access : Access, refresh : Refresh]
    BY <2>2, <2>3
  <2>5. \A g \in Handler : g # h => pair'[g] = pair[g]
    BY <2>2
  <2> QED
    BY <1>5, <2>1, <2>4, <2>5 DEF Sign, Goto
<1>6. ASSUME NEW h \in Handler, Store(h) PROVE Ready'
  <2>1. pc[h] \in {"access", "refresh"} /\ req[h].op = "login"
    BY <1>6 DEF Store, Write, LoginCall
  <2> QED
    BY <1>6, <2>1 DEF Store, Goto
<1>7. ASSUME NEW h \in Handler, StoreAgain(h) PROVE Ready'
  BY <1>7 DEF StoreAgain
<1>8. ASSUME NEW h \in Handler, Parse(h), Parses(req[h].token) PROVE Ready'
  <2>1. req[h].token \in Access
    BY <1>8 DEF Parse, Parses, RefreshCall
  <2> QED
    BY <1>8, <2>1 DEF Parse, Goto
<1>9. ASSUME NEW h \in Handler, Compare(h) PROVE Return(h)
  BY <1>9, RefreshEnds
<1>10. CASE UNCHANGED vars
  BY <1>10 DEF vars, local
<1>11. \/ Crash \/ Tick \/ UNCHANGED vars
       \/ \E h \in Handler :
            \/ Receive(h) \/ Sign(h) \/ Store(h) \/ StoreAgain(h) \/ Return(h)
            \/ Parse(h) /\ Parses(req[h].token)
  BY <1>9 DEF Next, Refuse, StoreFails, SaveSession, SaveFails, AnswerLogin, Parse, EndSession
<1> QED
  BY <1>1, <1>2, <1>3, <1>4, <1>5, <1>6, <1>7, <1>8, <1>10, <1>11

LEMMA Typed == Spec => [](TypeOK /\ Ready)
<1>1. Init => TypeOK /\ Ready
  <2> SUFFICES ASSUME Init PROVE TypeOK /\ Ready
    OBVIOUS
  <2>1. /\ NoAccess \in [tok : Access \cup {None}, ttl : 0..AccessTTL,
                         by : Refresh \cup {None}]
        /\ NoRefresh \in [id : Refresh \cup {None}, ttl : 0..RefreshTTL]
        /\ NoLogin \in [id : Refresh \cup {None}, device : Device \cup {None}]
        /\ 1 \in 1..Attempts
    BY TokenAssumption DEF NoAccess, NoRefresh, NoLogin
  <2>2. TypeOK
    BY <2>1 DEF Init, TypeOK, Session
  <2>3. Ready
    BY DEF Init, Ready
  <2> QED
    BY <2>2, <2>3
<1> QED
  BY <1>1, TypeStep, ReadyStep, PTL DEF Spec

(* Every variable keeps its type: keys live no longer than their TTL, no      *)
(* command is sent more often than go-redis retries, and a device is given a *)
(* whole pair or nothing.                                                    *)
THEOREM TypeCorrect == Spec => []TypeOK
BY Typed, PTL

------------------------------------------------------------------------------
(* What is stored. *)

(* Only the clock and the writes of logins change what is stored.            *)
LEMMA StoredBy ==
    ASSUME Ready, [Next]_vars
    PROVE  Tick \/ UNCHANGED <<at, rt>> \/ \E h \in Handler : Write(h)
BY DEF Next, vars, Crash, Receive, Refuse, Sign, Store, StoreAgain, StoreFails, SaveSession,
       SaveFails, Parse, Compare, EndSession, ContextUser

(* A write puts the pair of a login under its key.                           *)
LEMMA Written ==
    ASSUME TypeOK, Ready, NEW h \in Handler, Write(h)
    PROVE  /\ KeyOf(h) \in Key /\ h \in Writing(KeyOf(h)) /\ req[h].op = "login"
           /\ pair[h].access \in Access /\ pair[h].refresh \in Refresh
           /\ \/ /\ pc[h] = "access" /\ rt' = rt
                 /\ at' = [at EXCEPT ![KeyOf(h)] =
                              [tok |-> pair[h].access, ttl |-> AccessTTL,
                               by |-> pair[h].refresh]]
              \/ /\ pc[h] = "refresh" /\ at' = at
                 /\ rt' = [rt EXCEPT ![KeyOf(h)] =
                              [id |-> pair[h].refresh, ttl |-> RefreshTTL]]
<1>1. pc[h] \in {"access", "refresh"}
  BY DEF Write
<1>2. KeyOf(h) \in Key
  BY <1>1, LoginKey
<1>3. h \in Writing(KeyOf(h))
  BY <1>1 DEF Writing
<1>4. req[h].op = "login"
  BY <1>3, WritersLogIn
<1>5. pair[h].access \in Access /\ pair[h].refresh \in Refresh
  BY <1>1 DEF Ready
<1> QED
  BY <1>2, <1>3, <1>4, <1>5 DEF Write, SetAccess, SetRefresh

(* A tick makes a key older or deletes it.                                   *)
LEMMA Ticked ==
    ASSUME TypeOK, Tick, NEW k \in Key
    PROVE  /\ IF at[k].ttl > 1
              THEN /\ at'[k].tok = Older(at[k].tok) /\ at'[k].by = at[k].by
                   /\ at'[k].ttl = at[k].ttl - 1
              ELSE at'[k] = NoAccess
           /\ IF rt[k].ttl > 1
              THEN rt'[k].id = rt[k].id /\ rt'[k].ttl = rt[k].ttl - 1
              ELSE rt'[k] = NoRefresh
<1> DEFINE older == [at[k] EXCEPT !.ttl = at[k].ttl - 1, !.tok = Older(at[k].tok)]
           younger == [rt[k] EXCEPT !.ttl = rt[k].ttl - 1]
<1>1. /\ at'[k] = IF at[k].ttl > 1 THEN older ELSE NoAccess
      /\ rt'[k] = IF rt[k].ttl > 1 THEN younger ELSE NoRefresh
  BY DEF Tick
<1>2. CASE at[k].ttl > 1
  <2>1. at[k] \in [tok : Access \cup {None}, ttl : 0..AccessTTL, by : Refresh \cup {None}]
    BY DEF TypeOK
  <2>2. at[k].ttl - 1 \in 0..AccessTTL
    BY <1>2, <2>1, TokenAssumption
  <2>3. Older(at[k].tok) \in Access \cup {None}
    BY <2>1, OlderTyped
  <2> HIDE DEF older
  <2>4. /\ older.tok = Older(at[k].tok) /\ older.by = at[k].by
        /\ older.ttl = at[k].ttl - 1
    BY <2>1, <2>2, <2>3, AgedKey DEF older
  <2> QED
    BY <1>1, <1>2, <2>4
<1>3. rt[k] \in [id : Refresh \cup {None}, ttl : 0..RefreshTTL]
  BY DEF TypeOK
<1>4. younger.id = rt[k].id /\ younger.ttl = rt[k].ttl - 1
  BY <1>3
<1> HIDE DEF older, younger
<1> QED
  BY <1>1, <1>2, <1>4

LEMMA OutlivesStep == TypeOK /\ Ready /\ KeyOutlivesToken /\ [Next]_vars => KeyOutlivesToken'
<1> SUFFICES ASSUME TypeOK, Ready, KeyOutlivesToken, [Next]_vars, NEW k \in Key,
                    at'[k].tok # None
             PROVE  at'[k].tok.left <= at'[k].ttl
  BY DEF KeyOutlivesToken
<1>1. CASE Tick
  <2>1. /\ at'[k].tok = Older(at[k].tok) /\ at'[k].ttl = at[k].ttl - 1
        /\ at[k].ttl > 1
    BY <1>1, Ticked DEF NoAccess
  <2>2. at[k].tok \in Access \cup {None} /\ at[k].ttl \in Nat
    BY DEF TypeOK
  <2>3. at[k].tok # None
    BY <2>1, OlderTyped
  <2> QED
    BY <2>1, <2>2, <2>3, OlderTyped DEF KeyOutlivesToken
<1>2. CASE at' = at
  BY <1>2 DEF KeyOutlivesToken
<1>3. ASSUME NEW h \in Handler, Write(h), at' # at PROVE at'[k].tok.left <= at'[k].ttl
  <2>1. /\ at' = [at EXCEPT ![KeyOf(h)] = [tok |-> pair[h].access, ttl |-> AccessTTL,
                                           by |-> pair[h].refresh]]
        /\ pair[h].access \in Access
    BY <1>3, Written
  <2>2. pair[h].access.left <= AccessTTL
    BY <2>1, TokenAssumption DEF Access
  <2>3. CASE k = KeyOf(h)
    BY <2>1, <2>2, <2>3 DEF TypeOK
  <2>4. CASE k # KeyOf(h)
    BY <2>1, <2>4 DEF TypeOK, KeyOutlivesToken
  <2> QED
    BY <2>3, <2>4
<1> QED
  BY <1>1, <1>2, <1>3, StoredBy

(* However often SET is sent and whenever the pair was signed: a stored      *)
(* token that is valid as a JWT stays stored as long as it is valid.         *)
THEOREM ValidStaysStored == Spec => []KeyOutlivesToken
<1>1. Init => KeyOutlivesToken
  BY DEF Init, KeyOutlivesToken, NoAccess
<1> QED
  BY <1>1, OutlivesStep, Typed, PTL DEF Spec

------------------------------------------------------------------------------
(* A login that is alone on its key. *)

(* Who is not marked has been alone on its key since it signed, and what the *)
(* keys hold of that time is its own.  While anybody is on a key, no login   *)
(* of it stands.                                                             *)
Alone(k) ==
    /\ stands[k].id # None => Writing(k) = {}
    /\ \A h \in Writing(k) : h \notin clash =>
         /\ Writing(k) = {h}
         /\ pc[h] \in {"refresh", "row"} => at[k].by \in {pair[h].refresh, None}
         /\ pc[h] = "row" =>
              /\ rt[k].id \in {pair[h].refresh, None}
              /\ at[k].tok # None => rt[k].ttl > at[k].ttl

(* What the two properties of standing logins say of one key. *)
Stands(k) ==
    stands[k].id # None =>
        /\ at[k].by \in {stands[k].id, None}
        /\ rt[k].id \in {stands[k].id, None}
        /\ stands[k].device \in {row[k], None}
        /\ at[k].tok # None => rt[k].ttl > at[k].ttl

Standing == \A k \in Key : Alone(k) /\ Stands(k)

LEMMA StandingMeans == Standing => AnsweredLoginStands /\ RefreshOutlivesAccess
BY DEF Standing, Stands, AnsweredLoginStands, RefreshOutlivesAccess

LEMMA WritingReturn ==
    ASSUME TypeOK, NEW h \in Handler, Return(h), NEW k
    PROVE  Writing(k)' = Writing(k) \ {h}
BY DEF TypeOK, Return, Writing, KeyOf

LEMMA WritingKept ==
    ASSUME NEW k,
           \A g \in Handler :
               /\ pc'[g] \in {"access", "refresh", "row"}
                    <=> pc[g] \in {"access", "refresh", "row"}
               /\ pc[g] \in {"access", "refresh", "row"} => req'[g] = req[g]
    PROVE  Writing(k)' = Writing(k)
BY DEF Writing, KeyOf

(* A handler ends without having touched the keys, the row or what stands.   *)
LEMMA ReturnStanding ==
    ASSUME TypeOK, NEW h \in Handler, Return(h), UNCHANGED <<at, rt, row, stands>>,
           NEW k \in Key, Alone(k), Stands(k)
    PROVE  Alone(k)' /\ Stands(k)'
<1>1. Writing(k)' = Writing(k) \ {h}
  BY WritingReturn
<1>2. /\ clash' = clash \ {h}
      /\ \A g \in Handler : g # h => pc'[g] = pc[g] /\ pair'[g] = pair[g]
  BY DEF Return, TypeOK
<1>3. Writing(k) \subseteq Handler
  BY DEF Writing
<1> QED
  BY <1>1, <1>2, <1>3 DEF Alone, Stands

(* A write changes its own key only, on which nothing stands and which is    *)
(* the writer's alone unless it is marked.                                   *)
LEMMA WriteStanding ==
    ASSUME TypeOK, Ready, NEW h \in Handler, Write(h), NEW k \in Key, Alone(k)
    PROVE  /\ k # KeyOf(h) => at'[k] = at[k] /\ rt'[k] = rt[k]
           /\ k = KeyOf(h) =>
                /\ stands[k].id = None /\ h \in Writing(k)
                /\ \A g \in Writing(k) : g \notin clash => g = h /\ Writing(k) = {h}
                /\ pc[h] = "access" => at'[k].by = pair[h].refresh
                /\ pc[h] = "refresh" =>
                     /\ rt'[k].id = pair[h].refresh /\ at'[k] = at[k]
                     /\ rt'[k].ttl > at'[k].ttl
<1>1. CASE k # KeyOf(h)
  BY <1>1, Written DEF TypeOK
<1>2. CASE k = KeyOf(h)
  <2>1. h \in Writing(k)
    BY <1>2, Written
  <2>2. stands[k].id = None
    BY <2>1 DEF Alone
  <2>3. \A g \in Writing(k) : g \notin clash => g = h /\ Writing(k) = {h}
    BY <2>1 DEF Alone
  <2>4. pc[h] = "access" => at'[k].by = pair[h].refresh
    BY <1>2, Written DEF TypeOK
  <2>5. ASSUME pc[h] = "refresh"
        PROVE  rt'[k].id = pair[h].refresh /\ at'[k] = at[k] /\ rt'[k].ttl = RefreshTTL
    BY <1>2, <2>5, Written DEF TypeOK
  <2>6. at[k].ttl < RefreshTTL
    BY TokenAssumption DEF TypeOK
  <2> QED
    BY <1>2, <2>1, <2>2, <2>3, <2>4, <2>5, <2>6
<1> QED
  BY <1>1, <1>2

LEMMA StandingStep == TypeOK /\ Ready /\ Standing /\ [Next]_vars => Standing'
<1> SUFFICES ASSUME TypeOK, Ready, Standing, [Next]_vars, NEW k \in Key
             PROVE  Alone(k)' /\ Stands(k)'
  BY DEF Standing
<1>a. Alone(k) /\ Stands(k)
  BY DEF Standing
<1>b. Writing(k) \subseteq Handler
  BY DEF Writing
<1>1. CASE Crash
  <2>1. Writing(k)' = {}
    BY <1>1 DEF Crash, Writing
  <2> QED
    BY <1>1, <1>a, <2>1 DEF Crash, Alone, Stands
<1>2. CASE Tick
  <2>1. Writing(k)' = Writing(k)
    BY <1>2, WritingKept DEF Tick
  <2>2. \A h \in Handler : pair'[h].refresh = pair[h].refresh
    BY <1>2, OlderPairTyped DEF Tick, TypeOK
  <2>3. UNCHANGED <<pc, row, clash, stands>>
    BY <1>2 DEF Tick, history
  <2>4. at[k].tok \in Access \cup {None} /\ at[k].ttl \in Nat /\ rt[k].ttl \in Nat
    BY DEF TypeOK
  <2>5. at'[k].by \in {at[k].by, None} /\ rt'[k].id \in {rt[k].id, None}
    BY <1>2, Ticked DEF NoAccess, NoRefresh
  <2>6. (at[k].tok # None => rt[k].ttl > at[k].ttl)
          => (at'[k].tok # None => rt'[k].ttl > at'[k].ttl)
    <3> SUFFICES ASSUME at'[k].tok # None, at[k].tok # None => rt[k].ttl > at[k].ttl
                 PROVE  rt'[k].ttl > at'[k].ttl
      OBVIOUS
    <3>1. at[k].ttl > 1 /\ at'[k].tok = Older(at[k].tok) /\ at'[k].ttl = at[k].ttl - 1
      BY <1>2, Ticked DEF NoAccess
    <3>2. at[k].tok # None
      BY <3>1, OlderTyped
    <3>3. rt[k].ttl > 1 /\ rt'[k].ttl = rt[k].ttl - 1
      BY <1>2, <2>4, <3>1, <3>2, Ticked
    <3> QED
      BY <2>4, <3>1, <3>2, <3>3
  <2>7. Alone(k)'
    <3>1. stands'[k].id # None => Writing(k)' = {}
      BY <1>a, <2>1, <2>3 DEF Alone
    <3>2. ASSUME NEW h \in Writing(k)', h \notin clash'
          PROVE  /\ Writing(k)' = {h}
                 /\ pc'[h] \in {"refresh", "row"} => at'[k].by \in {pair'[h].refresh, None}
                 /\ pc'[h] = "row" =>
                      /\ rt'[k].id \in {pair'[h].refresh, None}
                      /\ at'[k].tok # None => rt'[k].ttl > at'[k].ttl
      <4>1. h \in Writing(k) /\ h \notin clash /\ h \in Handler
        BY <1>b, <2>1, <2>3, <3>2
      <4>2. pair'[h].refresh = pair[h].refresh /\ pc'[h] = pc[h]
        BY <2>2, <2>3, <4>1
      <4>3. /\ Writing(k) = {h}
            /\ pc[h] \in {"refresh", "row"} => at[k].by \in {pair[h].refresh, None}
            /\ pc[h] = "row" =>
                 /\ rt[k].id \in {pair[h].refresh, None}
                 /\ at[k].tok # None => rt[k].ttl > at[k].ttl
        BY <1>a, <4>1 DEF Alone
      <4> QED
        BY <2>1, <2>5, <2>6, <4>2, <4>3
    <3> QED
      BY <3>1, <3>2 DEF Alone
  <2>8. Stands(k)'
    BY <1>a, <2>3, <2>5, <2>6 DEF Stands
  <2> QED
    BY <2>7, <2>8
<1>3. ASSUME NEW h \in Handler, Receive(h) PROVE Alone(k)' /\ Stands(k)'
  <2>1. \A g \in Handler : g # h => pc'[g] = pc[g] /\ req'[g] = req[g]
    BY <1>3 DEF Receive, TypeOK
  <2>2. pc[h] = "idle" /\ pc'[h] \in {"check", "parse", "user"}
    BY <1>3 DEF Receive, TypeOK
  <2>3. Writing(k)' = Writing(k) /\ h \notin Writing(k)
    BY <2>1, <2>2, WritingKept DEF Writing
  <2> QED
    BY <1>3, <1>a, <1>b, <2>1, <2>3 DEF Receive, history, Alone, Stands
<1>4. ASSUME NEW h \in Handler, Sign(h) PROVE Alone(k)' /\ Stands(k)'
  <2>1. KeyOf(h) \in Key /\ pc[h] = "check"
    BY <1>4, LoginKey DEF Sign
  <2>2. \A g \in Handler : g # h => pc'[g] = pc[g] /\ pair'[g] = pair[g]
    BY <1>4 DEF Sign, Goto, TypeOK
  <2>3. pc'[h] = "access" /\ req' = req /\ UNCHANGED <<at, rt, row>>
    BY <1>4 DEF Sign, Goto, TypeOK
  <2>4. clash \subseteq clash' /\ (Writing(KeyOf(h)) # {} =>
                                     Writing(KeyOf(h)) \cup {h} \subseteq clash')
    BY <1>4 DEF Sign
  <2>5. h \notin Writing(k)
    BY <2>1 DEF Writing
  <2>6. CASE k = KeyOf(h)
    <3>1. Writing(k)' = Writing(k) \cup {h}
      BY <2>2, <2>3, <2>6 DEF Writing, KeyOf
    <3>2. stands'[k].id = None
      BY <1>4, <2>1, <2>6 DEF Sign, NoLogin, TypeOK
    <3>3. Alone(k)'
      BY <2>3, <2>4, <2>6, <3>1, <3>2 DEF Alone
    <3> QED
      BY <3>2, <3>3 DEF Stands
  <2>7. CASE k # KeyOf(h)
    <3>1. Writing(k)' = Writing(k)
      BY <2>1, <2>2, <2>3, <2>7 DEF Writing, KeyOf
    <3>2. stands'[k] = stands[k]
      BY <1>4, <2>7 DEF Sign, TypeOK
    <3> QED
      BY <1>a, <1>b, <2>2, <2>3, <2>4, <2>5, <3>1, <3>2 DEF Alone, Stands
  <2> QED
    BY <2>6, <2>7
<1>5. ASSUME NEW h \in Handler, Store(h) PROVE Alone(k)' /\ Stands(k)'
  <2>1. Write(h) /\ UNCHANGED <<row, stands, pair, clash, req>> /\ req[h].op = "login"
    BY <1>5, Written DEF Store, Goto
  <2>2. /\ pc[h] \in {"access", "refresh"}
        /\ pc' = [pc EXCEPT ![h] = IF pc[h] = "access" THEN "refresh" ELSE "row"]
    BY <1>5, <2>1 DEF Store, Goto, Write
  <2>3. Writing(k)' = Writing(k)
    BY <2>1, <2>2, WritingKept DEF TypeOK
  <2>4. CASE k # KeyOf(h)
    <3>1. at'[k] = at[k] /\ rt'[k] = rt[k] /\ h \notin Writing(k)
      BY <1>a, <2>1, <2>4, WriteStanding DEF Writing
    <3> QED
      BY <1>a, <1>b, <2>1, <2>2, <2>3, <3>1 DEF Alone, Stands, TypeOK
  <2>5. CASE k = KeyOf(h)
    <3>1. /\ stands[k].id = None /\ h \in Writing(k)
          /\ \A g \in Writing(k) : g \notin clash => g = h /\ Writing(k) = {h}
          /\ pc[h] = "access" => at'[k].by = pair[h].refresh
          /\ pc[h] = "refresh" =>
                /\ rt'[k].id = pair[h].refresh /\ at'[k] = at[k]
                /\ rt'[k].ttl > at'[k].ttl
      BY <1>a, <2>1, <2>5, WriteStanding
    <3>2. pc'[h] = IF pc[h] = "access" THEN "refresh" ELSE "row"
      BY <2>2 DEF TypeOK
    <3>3. pc[h] = "refresh" /\ h \notin clash => at[k].by \in {pair[h].refresh, None}
      BY <1>a, <3>1 DEF Alone
    <3>4. Alone(k)'
      BY <2>1, <2>2, <2>3, <3>1, <3>2, <3>3 DEF Alone
    <3> QED
      BY <2>1, <3>1, <3>4 DEF Stands
  <2> QED
    BY <2>4, <2>5
<1>6. ASSUME NEW h \in Handler, StoreAgain(h) PROVE Alone(k)' /\ Stands(k)'
  <2>1. Write(h) /\ UNCHANGED <<row, stands, pair, clash, req, pc>>
    BY <1>6 DEF StoreAgain, history
  <2>2. Writing(k)' = Writing(k) /\ pc[h] \in {"access", "refresh"}
    BY <2>1, WritingKept DEF Write
  <2>3. CASE k # KeyOf(h)
    <3>1. at'[k] = at[k] /\ rt'[k] = rt[k]
      BY <1>a, <2>1, <2>3, WriteStanding
    <3> QED
      BY <1>a, <2>1, <2>2, <3>1 DEF Alone, Stands
  <2>4. CASE k = KeyOf(h)
    <3>1. /\ stands[k].id = None /\ h \in Writing(k)
          /\ \A g \in Writing(k) : g \notin clash => g = h /\ Writing(k) = {h}
          /\ pc[h] = "refresh" => at'[k] = at[k]
      BY <1>a, <2>1, <2>4, WriteStanding
    <3>2. Alone(k)'
      BY <1>a, <2>1, <2>2, <3>1 DEF Alone
    <3> QED
      BY <2>1, <3>1, <3>2 DEF Stands
  <2> QED
    BY <2>3, <2>4
<1>7. ASSUME NEW h \in Handler, StoreFails(h) PROVE Alone(k)' /\ Stands(k)'
  <2>1. CASE Write(h)
    <3>1. Writing(k)' = Writing(k) \ {h}
      BY <1>7, WritingReturn DEF StoreFails
    <3>2. CASE k # KeyOf(h)
      <4>1. at'[k] = at[k] /\ rt'[k] = rt[k]
        BY <1>a, <2>1, <3>2, WriteStanding
      <4>2. /\ clash' = clash \ {h} /\ UNCHANGED <<row, stands>>
            /\ \A g \in Handler : g # h => pc'[g] = pc[g] /\ pair'[g] = pair[g]
        BY <1>7 DEF StoreFails, Return, TypeOK
      <4> QED
        BY <1>a, <1>b, <3>1, <4>1, <4>2 DEF Alone, Stands
    <3>3. CASE k = KeyOf(h)
      <4>1. /\ stands[k].id = None /\ h \in Writing(k)
            /\ \A g \in Writing(k) : g \notin clash => g = h /\ Writing(k) = {h}
        BY <1>a, <2>1, <3>3, WriteStanding
      <4>2. clash' = clash \ {h} /\ stands' = stands
        BY <1>7 DEF StoreFails, Return
      <4> QED
        BY <3>1, <4>1, <4>2 DEF Alone, Stands
    <3> QED
      BY <3>2, <3>3
  <2>2. CASE ~Write(h)
    BY <1>7, <1>a, <2>2, ReturnStanding DEF StoreFails
  <2> QED
    BY <2>1, <2>2
<1>8. ASSUME NEW h \in Handler, SaveSession(h) \/ SaveFails(h) PROVE Alone(k)' /\ Stands(k)'
  <2>1. pc[h] = "row" /\ Return(h) /\ UNCHANGED <<at, rt>>
    BY <1>8 DEF SaveSession, SaveFails, AnswerLogin
  <2>2. Writing(k)' = Writing(k) \ {h}
    BY <2>1, WritingReturn
  <2>3. /\ clash' = clash \ {h}
        /\ \A g \in Handler : g # h => pc'[g] = pc[g] /\ pair'[g] = pair[g]
    BY <2>1 DEF Return, TypeOK
  <2>4. KeyOf(h) \in Key /\ h \in Writing(KeyOf(h))
    BY <2>1, LoginKey DEF Writing
  <2>5. CASE k # KeyOf(h)
    <3>1. row'[k] = row[k] /\ stands'[k] = stands[k]
      BY <1>8, <2>5 DEF SaveSession, SaveFails, AnswerLogin, TypeOK
    <3> QED
      BY <1>a, <1>b, <2>1, <2>2, <2>3, <3>1 DEF Alone, Stands
  <2>6. CASE k = KeyOf(h) /\ h \in clash
    <3>1. stands' = stands /\ stands[k].id = None
      BY <1>8, <1>a, <2>4, <2>6 DEF SaveSession, SaveFails, AnswerLogin, Alone
    <3>2. \A g \in Writing(k) : g \in clash
      BY <1>a, <2>4, <2>6 DEF Alone
    <3> QED
      BY <2>2, <2>3, <3>1, <3>2 DEF Alone, Stands
  <2>7. CASE k = KeyOf(h) /\ h \notin clash
    <3>1. Writing(k)' = {}
      BY <1>a, <2>2, <2>4, <2>7 DEF Alone
    <3>2. /\ at[k].by \in {pair[h].refresh, None} /\ rt[k].id \in {pair[h].refresh, None}
          /\ at[k].tok # None => rt[k].ttl > at[k].ttl
      <4>1. h \in Writing(k) /\ h \notin clash /\ pc[h] = "row"
        BY <2>1, <2>4, <2>7
      <4> QED
        BY <1>a, <4>1 DEF Alone
    <3>3. stands'[k].id = pair[h].refresh /\ stands'[k].device \in {row'[k], None}
      BY <1>8, <2>7 DEF SaveSession, SaveFails, AnswerLogin, TypeOK
    <3> QED
      BY <2>1, <3>1, <3>2, <3>3 DEF Alone, Stands
  <2> QED
    BY <2>5, <2>6, <2>7
<1>9. ASSUME NEW h \in Handler, Parse(h), Goto(h, "compare"), UNCHANGED <<pair, clash>>
      PROVE  Alone(k)' /\ Stands(k)'
  <2>1. Writing(k)' = Writing(k) /\ h \notin Writing(k)
    BY <1>9, WritingKept DEF Parse, Goto, TypeOK, Writing
  <2> QED
    BY <1>9, <1>a, <1>b, <2>1 DEF Parse, Goto, Alone, Stands, TypeOK
<1>10. ASSUME NEW h \in Handler, Return(h), UNCHANGED <<at, rt, row, stands>>
       PROVE  Alone(k)' /\ Stands(k)'
  BY <1>10, <1>a, ReturnStanding
<1>11. CASE UNCHANGED vars
  BY <1>11, <1>a DEF vars, local, history, Alone, Stands, Writing, KeyOf
<1>12. \/ Crash \/ Tick \/ UNCHANGED vars
       \/ \E h \in Handler :
            \/ Receive(h) \/ Sign(h) \/ Store(h) \/ StoreAgain(h) \/ StoreFails(h)
            \/ SaveSession(h) \/ SaveFails(h)
            \/ Parse(h) /\ Goto(h, "compare") /\ UNCHANGED <<pair, clash>>
            \/ Return(h) /\ UNCHANGED <<at, rt, row, stands>>
  BY RefreshEnds DEF Next, Refuse, Parse, Compare, EndSession, ContextUser
<1> QED
  BY <1>1, <1>2, <1>3, <1>4, <1>5, <1>6, <1>7, <1>8, <1>9, <1>10, <1>11, <1>12

LEMMA StandingInvariant == Spec => []Standing
<1>1. Init => Standing
  BY DEF Init, Standing, Alone, Stands, NoLogin, Writing
<1> QED
  BY <1>1, StandingStep, Typed, PTL DEF Spec

(* Whatever other handlers of any number left behind, had half done or died  *)
(* in: a login that was alone on its key leaves its pair in both keys and    *)
(* its device in the row, until the keys expire or another login begins.     *)
THEOREM LoginStands == Spec => []AnsweredLoginStands
BY StandingInvariant, StandingMeans, PTL

(* And its refresh key outlives its access key, for any two lifetimes of     *)
(* which the refresh token's is the longer.                                  *)
THEOREM RefreshLasts == Spec => []RefreshOutlivesAccess
BY StandingInvariant, StandingMeans, PTL

=============================================================================
