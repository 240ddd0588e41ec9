---------------------------- MODULE CodeUseProofs ----------------------------
(* Proofs about CodeUse, for every number of handlers, addresses, codes and  *)
(* accounts, any expiry and any number of retransmissions and lost deletions.*)
EXTENDS CodeUse, FiniteSetTheorems, SequenceTheorems, WellFoundedInduction, TLAPS

------------------------------------------------------------------------------
(* Requests and rows. *)

LEMMA RequestFields ==
    ASSUME NEW r \in Request
    PROVE  /\ r.op \in Purpose /\ r.email \in Email /\ r.code \in Code
           /\ r.op = "register" => r.phone \in Phone /\ r.pw \in Password
           /\ r.op = "reset" => r.pw \in Password
BY DEF Request, RegisterCall, LoginCall, ResetCall, Purpose, Password

(* A set of numbers that is not empty has a least one.                       *)
LEMMA LeastNumber ==
    ASSUME NEW S \in SUBSET Nat, S # {}
    PROVE  \E n \in S : \A m \in S : n <= m
<1>1. PICK n \in S : \A m \in S : <<m, n>> \notin OpToRel(<, Nat)
  BY NatLessThanWellFounded, WFMin
<1>2. \A m \in S : ~ (m < n)
  BY <1>1 DEF OpToRel
<1> QED
  BY <1>2

(* First finds the first row of an address.                                  *)
LEMMA FirstRow ==
    ASSUME TypeOK, NEW e, RowsOf(e) # {}
    PROVE  /\ GetByEmail(e) \in RowsOf(e)
           /\ \A i \in RowsOf(e) : GetByEmail(e) <= i
<1>1. RowsOf(e) \subseteq Nat
  BY DEF RowsOf, Readable, TypeOK
<1> QED
  BY <1>1, LeastNumber DEF GetByEmail

(* An insert leaves the rows that are there as they are, and what is visible.*)
LEMMA InsertRow ==
    ASSUME TypeOK, NEW row \in Row, accounts' = Append(accounts, row), visible' = visible
    PROVE  /\ accounts' \in Seq(Row) /\ Len(accounts) + 1 \in DOMAIN accounts'
           /\ DOMAIN accounts \subseteq DOMAIN accounts'
           /\ \A e : RowsOf(e)' = RowsOf(e)
<1>1. accounts \in Seq(Row) /\ visible \subseteq DOMAIN accounts
  BY DEF TypeOK
<1>2. /\ accounts' \in Seq(Row) /\ Len(accounts') = Len(accounts) + 1
      /\ \A i \in 1..Len(accounts) : accounts'[i] = accounts[i]
  BY <1>1, AppendProperties
<1>3. DOMAIN accounts = 1..Len(accounts) /\ DOMAIN accounts' = 1..(Len(accounts) + 1)
  BY <1>1, <1>2
<1> QED
  BY <1>1, <1>2, <1>3 DEF RowsOf, Readable

(* A new password leaves every address where it is.                          *)
LEMMA PasswordRow ==
    ASSUME TypeOK, NEW h, req[h].pw \in Password, SetPassword(h), visible' = visible
    PROVE  /\ accounts' \in Seq(Row) /\ DOMAIN accounts' = DOMAIN accounts
           /\ \A e : RowsOf(e)' = RowsOf(e)
<1> DEFINE i == found[h].row
           row == [accounts[i] EXCEPT !.pw = req[h].pw]
<1>1. accounts' = [accounts EXCEPT ![i] = row]
  BY DEF SetPassword
<1>2. CASE i \in DOMAIN accounts
  <2>1. accounts \in Seq(Row) /\ i \in 1..Len(accounts) /\ accounts[i] \in Row
    BY <1>2 DEF TypeOK
  <2>2. row \in Row /\ row.email = accounts[i].email
    BY <2>1 DEF Row
  <2> HIDE DEF i, row
  <2>3. /\ accounts' \in Seq(Row) /\ Len(accounts') = Len(accounts)
        /\ \A j \in 1..Len(accounts) : accounts'[j] = IF j = i THEN row ELSE accounts[j]
    BY <1>1, <2>1, <2>2, ExceptSeq
  <2>4. DOMAIN accounts' = 1..Len(accounts) /\ DOMAIN accounts = 1..Len(accounts)
    BY <2>1, <2>3
  <2> QED
    BY <2>2, <2>3, <2>4 DEF RowsOf, Readable, TypeOK
<1>3. CASE i \notin DOMAIN accounts
  <2>1. accounts \in Seq(Row)
    BY DEF TypeOK
  <2>2. accounts = [j \in DOMAIN accounts |-> accounts[j]]
    BY <2>1
  <2>3. accounts' = accounts
    BY <1>1, <1>3, <2>2
  <2> QED
    BY <2>1, <2>3 DEF RowsOf, Readable
<1> QED
  BY <1>2, <1>3

------------------------------------------------------------------------------
(* Types and stages. *)

(* Which call is at which stage, and what it has with it.                    *)
Staged ==
    /\ \A h \in Handler :
        /\ pc[h] = "idle" => found[h] = None
        /\ pc[h] = "lookup" => req[h].op \in {"login", "reset"}
        /\ pc[h] \in {"create", "commit"} => req[h].op = "register"
        /\ pc[h] = "commit" => writing[h] \in DOMAIN accounts
        /\ pc[h] = "update" => req[h].op = "reset"
        /\ pc[h] = "tokens" => req[h].op = "login"
    /\ \A h \in held : pc[h] \in {"create", "commit", "update", "delete", "tokens"}

LEMMA KeyTyped ==
    ASSUME TypeOK, NEW h \in Handler, pc[h] # "idle"
    PROVE  KeyOf(h) \in Key
BY RequestFields DEF TypeOK, KeyOf, Key

(* What TypeOK says of the handlers.                                         *)
LocalTyped ==
    /\ pc \in [Handler -> Stage] /\ req \in [Handler -> Request \cup {None}]
    /\ found \in [Handler -> [row : Nat, pw : Password, open : SUBSET Nat] \cup {None}]
    /\ writing \in [Handler -> DOMAIN accounts \cup {None}]
    /\ attempt \in [Handler -> 1..Attempts] /\ held \subseteq Handler
    /\ \A h \in Handler : pc[h] # "idle" => req[h] \in Request
    /\ \A h \in Handler : pc[h] \in {"delete", "tokens"} => req[h].op \in {"login", "reset"}

(* Rows may come, but none goes.                                             *)
RowsStay == DOMAIN accounts \subseteq DOMAIN accounts'

LEMMA ReturnTyped ==
    ASSUME TypeOK, Staged, NEW h \in Handler, Return(h), RowsStay
    PROVE  LocalTyped' /\ Staged'
<1>1. 1 \in 1..Attempts
  BY UseAssumption
<1>2. LocalTyped'
  BY <1>1 DEF TypeOK, LocalTyped, RowsStay, Return, Stage
<1>3. Staged'
  BY DEF TypeOK, Staged, RowsStay, Return
<1> QED
  BY <1>2, <1>3

LEMMA GotoTyped ==
    ASSUME TypeOK, Staged, NEW h \in Handler, NEW stage \in Stage, Goto(h, stage), RowsStay,
           pc[h] # "idle", stage \in {"create", "update", "delete", "tokens"},
           held' \in {held, held \cup {h}},
           stage = "create" => req[h].op = "register",
           stage = "update" => req[h].op = "reset",
           stage = "tokens" => req[h].op = "login",
           stage = "delete" => req[h].op \in {"login", "reset"}
    PROVE  LocalTyped' /\ Staged'
<1>1. LocalTyped'
  BY DEF TypeOK, LocalTyped, RowsStay, Goto
<1>2. Staged'
  BY DEF TypeOK, Staged, RowsStay, Goto
<1> QED
  BY <1>1, <1>2

LEMMA ToTokensTyped ==
    ASSUME TypeOK, Staged, NEW h \in Handler, ToTokens(h), RowsStay,
           pc[h] = "delete", req[h].op = "login"
    PROVE  LocalTyped' /\ Staged'
<1>1. 1 \in 1..Attempts
  BY UseAssumption
<1>2. LocalTyped'
  BY <1>1 DEF TypeOK, LocalTyped, RowsStay, ToTokens, Stage
<1>3. Staged'
  BY DEF TypeOK, Staged, RowsStay, ToTokens
<1> QED
  BY <1>2, <1>3

LEMMA ResendTyped ==
    ASSUME TypeOK, Staged, NEW h \in Handler, Resend(h), RowsStay
    PROVE  LocalTyped' /\ Staged'
<1>1. LocalTyped'
  BY UseAssumption DEF TypeOK, LocalTyped, RowsStay, Resend
<1>2. Staged'
  BY DEF TypeOK, Staged, RowsStay, Resend
<1> QED
  BY <1>1, <1>2

LEMMA CodeTyped ==
    /\ NoCode \in StoredCode
    /\ \A key \in StoredCode : Aged(key) \in StoredCode /\ Aged(key).code \in {key.code, None}
    /\ \A c \in Code : [code |-> c, ttl |-> CodeTTL] \in StoredCode
BY UseAssumption DEF NoCode, StoredCode, Aged

LEMMA TypeStep == TypeOK /\ Staged /\ [Next]_vars => TypeOK' /\ Staged'
<1> SUFFICES ASSUME TypeOK, Staged, [Next]_vars PROVE TypeOK' /\ Staged'
  OBVIOUS
<1> USE UseAssumption
<1>1. ASSUME NEW k \in Key, NEW c \in Code, Issue(k, c) PROVE TypeOK' /\ Staged'
  <2>1. codes' \in [Key -> StoredCode]
    BY <1>1, CodeTyped DEF Issue, TypeOK
  <2>2. /\ mailed' \in [Key -> SUBSET Code] /\ held' \subseteq held
        /\ grants' \in [Key -> Nat] /\ lost' \in [Key -> 0..MaxLost]
        /\ UNCHANGED <<accounts, visible, pc, req, found, writing, attempt>>
    BY <1>1 DEF Issue, TypeOK, local, table
  <2> QED
    BY <2>1, <2>2 DEF TypeOK, Staged
<1>2. CASE Crash
  <2>1. lost' \in [Key -> 0..MaxLost]
    <3> SUFFICES ASSUME NEW k \in Key
                 PROVE  lost[k] + (IF Live(k) THEN Cardinality(Deleting(k)) ELSE 0)
                          \in 0..MaxLost
      BY <1>2 DEF Crash
    <3>1. IsFiniteSet(Deleting(k))
      BY FS_Subset DEF Deleting, TypeOK
    <3>2. Cardinality(Deleting(k)) \in Nat /\ lost[k] \in Nat
      BY <3>1, FS_CardinalityType DEF TypeOK
    <3>3. lost[k] + (IF Live(k) THEN Cardinality(Deleting(k)) ELSE 0) <= MaxLost
      BY <1>2 DEF Crash
    <3> QED
      BY <3>2, <3>3
  <2> QED
    BY <1>2, <2>1 DEF Crash, TypeOK, Staged, Stage, table
<1>3. CASE Tick
  <2>1. codes' \in [Key -> StoredCode]
    BY <1>3, CodeTyped DEF Tick, TypeOK
  <2> QED
    BY <1>3, <2>1 DEF Tick, TypeOK, Staged, local, history, table
<1>4. ASSUME NEW h \in Handler, Receive(h) PROVE TypeOK' /\ Staged'
  <2>1. PICK r \in Request : /\ req' = [req EXCEPT ![h] = r]
                             /\ pc' = [pc EXCEPT ![h] = IF r.op = "register" THEN "verify"
                                                       ELSE "lookup"]
    BY <1>4 DEF Receive
  <2>2. r.op \in {"register", "login", "reset"}
    BY RequestFields DEF Purpose
  <2>3. /\ pc[h] = "idle"
        /\ UNCHANGED <<codes, accounts, visible, found, writing, attempt, mailed, held,
                       grants, lost>>
    BY <1>4 DEF Receive, history, table
  <2>4. TypeOK'
    BY <2>1, <2>3 DEF TypeOK, Stage
  <2>5. Staged'
    BY <2>1, <2>2, <2>3 DEF TypeOK, Staged
  <2> QED
    BY <2>4, <2>5
<1>5. ASSUME NEW h \in Handler, Lookup(h) PROVE TypeOK' /\ Staged'
  <2> DEFINE i == GetByEmail(req[h].email)
  <2>1. i \in DOMAIN accounts /\ accounts \in Seq(Row)
    BY <1>5, FirstRow DEF Lookup, RowsOf, Readable, TypeOK
  <2>2. i \in Nat /\ accounts[i].pw \in Password
    <3>1. accounts[i] \in Row
      BY <2>1
    <3> QED
      BY <2>1, <3>1 DEF Row
  <2>3. Open \subseteq Nat
    BY DEF Open, Staged, TypeOK
  <2>4. found' = [found EXCEPT ![h] = [row |-> i, pw |-> accounts[i].pw,
                                       open |-> {j \in Open : j < i}]]
    BY <1>5 DEF Lookup
  <2>5. [row |-> i, pw |-> accounts[i].pw, open |-> {j \in Open : j < i}]
          \in [row : Nat, pw : Password, open : SUBSET Nat]
    BY <2>2, <2>3
  <2>6. found' \in [Handler -> [row : Nat, pw : Password, open : SUBSET Nat] \cup {None}]
    BY <2>4, <2>5 DEF TypeOK
  <2> HIDE DEF i
  <2>7. /\ pc' = [pc EXCEPT ![h] = "verify"] /\ pc[h] = "lookup"
        /\ \A g \in Handler \ {h} : found'[g] = found[g]
        /\ UNCHANGED <<codes, accounts, visible, req, writing, attempt, mailed, held,
                       grants, lost>>
    BY <1>5, <2>4 DEF Lookup, history, table, TypeOK
  <2>8. TypeOK'
    BY <2>6, <2>7 DEF TypeOK, Stage
  <2>9. Staged'
    BY <2>7 DEF Staged, TypeOK
  <2> QED
    BY <2>8, <2>9
<1>6. ASSUME NEW h \in Handler, LookupRefuses(h) \/ VerifyEnds(h) \/ CreateFails(h)
                                \/ TokensFail(h)
      PROVE  TypeOK' /\ Staged'
  <2>1. Return(h) /\ UNCHANGED <<codes, accounts, visible, mailed, grants, lost>>
    BY <1>6 DEF LookupRefuses, VerifyEnds, CreateFails, TokensFail, table
  <2>2. RowsStay
    BY <2>1 DEF RowsStay
  <2> QED
    BY <2>1, <2>2, ReturnTyped DEF TypeOK, LocalTyped
<1>7. ASSUME NEW h \in Handler, Accept(h) PROVE TypeOK' /\ Staged'
  <2>1. req[h].op \in {"register", "login", "reset"} /\ pc[h] = "verify"
    BY <1>7, RequestFields DEF Accept, TypeOK, Purpose
  <2>2. PICK stage \in {"create", "delete", "update"} :
            /\ Goto(h, stage)
            /\ stage = "create" => req[h].op = "register"
            /\ stage = "update" => req[h].op = "reset"
            /\ stage = "delete" => req[h].op = "login"
    BY <1>7, <2>1 DEF Accept
  <2>3. held' = held \cup {h} /\ UNCHANGED <<codes, accounts, visible, mailed, grants, lost>>
    BY <1>7 DEF Accept, table
  <2>4. LocalTyped' /\ Staged'
    BY <2>1, <2>2, <2>3, GotoTyped DEF Stage, RowsStay
  <2> QED
    BY <2>3, <2>4 DEF TypeOK, LocalTyped
<1>8. ASSUME NEW h \in Handler, Insert(h) PROVE TypeOK' /\ Staged'
  <2> DEFINE row == [email |-> req[h].email, phone |-> req[h].phone,
                     pw |-> req[h].pw, disabled |-> FALSE]
  <2>1. row \in Row
    BY <1>8, RequestFields DEF Insert, TypeOK, Staged, Row
  <2>2. accounts' = Append(accounts, row)
    BY <1>8 DEF Insert
  <2> HIDE DEF row
  <2>3. /\ accounts' \in Seq(Row) /\ Len(accounts) + 1 \in DOMAIN accounts'
        /\ DOMAIN accounts \subseteq DOMAIN accounts'
    BY <1>8, <2>1, <2>2, InsertRow DEF Insert
  <2>4. /\ pc[h] = "create" /\ pc' = [pc EXCEPT ![h] = "commit"]
        /\ writing' = [writing EXCEPT ![h] = Len(accounts) + 1]
        /\ UNCHANGED <<codes, visible, req, found, attempt, mailed, held, grants, lost>>
    BY <1>8 DEF Insert, history
  <2>5. TypeOK'
    BY <2>3, <2>4 DEF TypeOK, Stage
  <2>6. Staged'
    BY <2>3, <2>4 DEF TypeOK, Staged
  <2> QED
    BY <2>5, <2>6
<1>9. ASSUME NEW h \in Handler, Granted(h), pc[h] # "idle" PROVE grants' \in [Key -> Nat]
  <2>1. grants \in [Key -> Nat] /\ KeyOf(h) \in Key
    BY <1>9, KeyTyped DEF TypeOK
  <2> QED
    BY <1>9, <2>1 DEF Granted
<1>10. ASSUME NEW h \in Handler, Survives(h), pc[h] # "idle"
       PROVE  lost' \in [Key -> 0..MaxLost]
  <2>1. lost \in [Key -> 0..MaxLost] /\ KeyOf(h) \in Key
    BY <1>10, KeyTyped DEF TypeOK
  <2>2. lost[KeyOf(h)] < MaxLost => lost[KeyOf(h)] + 1 \in 0..MaxLost
    BY <2>1
  <2> QED
    BY <1>10, <2>1, <2>2 DEF Survives
<1>11. ASSUME NEW h \in Handler, Commit(h) PROVE TypeOK' /\ Staged'
  <2>1. /\ Return(h) /\ UNCHANGED <<codes, accounts, mailed, lost>>
        /\ visible' \subseteq DOMAIN accounts' /\ grants' \in [Key -> Nat]
    BY <1>9, <1>11 DEF Commit, Staged, TypeOK
  <2>2. LocalTyped' /\ Staged'
    BY <2>1, ReturnTyped DEF RowsStay
  <2> QED
    BY <2>1, <2>2 DEF TypeOK, LocalTyped
<1>12. ASSUME NEW h \in Handler, SetPassword(h), pc[h] = "update", visible' = visible
       PROVE  /\ accounts' \in Seq(Row) /\ visible' \subseteq DOMAIN accounts'
              /\ RowsStay /\ req[h].op = "reset"
  <2>1. req[h].op = "reset" /\ req[h].pw \in Password
    BY <1>12, RequestFields DEF TypeOK, Staged
  <2> QED
    BY <1>12, <2>1, PasswordRow DEF RowsStay, TypeOK
<1>13. ASSUME NEW h \in Handler, Update(h) PROVE TypeOK' /\ Staged'
  <2>1. /\ accounts' \in Seq(Row) /\ visible' \subseteq DOMAIN accounts'
        /\ RowsStay /\ req[h].op = "reset" /\ grants' \in [Key -> Nat]
    BY <1>9, <1>12, <1>13 DEF Update
  <2>2. LocalTyped' /\ Staged'
    BY <1>13, <2>1, GotoTyped DEF Update, Stage
  <2> QED
    BY <1>13, <2>1, <2>2 DEF Update, TypeOK, LocalTyped
<1>14. ASSUME NEW h \in Handler, UpdateFails(h) PROVE TypeOK' /\ Staged'
  <2>1. /\ accounts' \in Seq(Row) /\ visible' \subseteq DOMAIN accounts' /\ RowsStay
        /\ grants' \in [Key -> Nat] /\ lost' \in [Key -> 0..MaxLost]
    <3>1. CASE UNCHANGED <<accounts, grants, lost>>
      BY <1>14, <3>1 DEF UpdateFails, TypeOK, RowsStay
    <3>2. CASE SetPassword(h) /\ Granted(h) /\ Survives(h)
      BY <1>9, <1>10, <1>12, <1>14, <3>2 DEF UpdateFails
    <3> QED
      BY <1>14, <3>1, <3>2 DEF UpdateFails
  <2>2. LocalTyped' /\ Staged'
    BY <1>14, <2>1, ReturnTyped DEF UpdateFails
  <2> QED
    BY <1>14, <2>1, <2>2 DEF UpdateFails, TypeOK, LocalTyped
<1>15. ASSUME NEW h \in Handler, AfterDelete(h) \/ Resend(h), pc[h] = "delete",
              codes' \in [Key -> StoredCode], lost' \in [Key -> 0..MaxLost],
              UNCHANGED <<table, mailed, grants>>
       PROVE  TypeOK' /\ Staged'
  <2>1. RowsStay /\ UNCHANGED <<accounts, visible>>
    BY <1>15 DEF RowsStay, table
  <2>2. LocalTyped' /\ Staged'
    <3>1. CASE Return(h)
      BY <2>1, <3>1, ReturnTyped
    <3>2. CASE Resend(h)
      BY <2>1, <3>2, ResendTyped
    <3>3. CASE req[h].op = "login" /\ ToTokens(h)
      BY <1>15, <2>1, <3>3, ToTokensTyped
    <3> QED
      BY <1>15, <3>1, <3>2, <3>3 DEF AfterDelete
  <2> QED
    BY <1>15, <2>1, <2>2 DEF TypeOK, LocalTyped
<1>16. ASSUME NEW h \in Handler, Delete(h) PROVE TypeOK' /\ Staged'
  <2>1. codes' \in [Key -> StoredCode]
    BY <1>16, CodeTyped DEF Delete, TypeOK
  <2> QED
    BY <1>15, <1>16, <2>1 DEF Delete, TypeOK
<1>17. ASSUME NEW h \in Handler, DeleteFails(h) PROVE TypeOK' /\ Staged'
  BY <1>10, <1>15, <1>17 DEF DeleteFails, TypeOK
<1>18. ASSUME NEW h \in Handler, Tokens(h) PROVE TypeOK' /\ Staged'
  <2>1. /\ Return(h) /\ UNCHANGED <<codes, accounts, visible, mailed, lost>>
        /\ grants' \in [Key -> Nat]
    BY <1>9, <1>18 DEF Tokens, table
  <2>2. LocalTyped' /\ Staged'
    BY <2>1, ReturnTyped DEF RowsStay
  <2> QED
    BY <2>1, <2>2 DEF TypeOK, LocalTyped
<1>19. CASE UNCHANGED vars
  BY <1>19 DEF vars, local, history, table, TypeOK, Staged
<1> QED
  BY <1>1, <1>2, <1>3, <1>4, <1>5, <1>6, <1>7, <1>8, <1>11, <1>13, <1>14, <1>16, <1>17,
     <1>18, <1>19
     DEF Next, Step

LEMMA Typed == Spec => [](TypeOK /\ Staged)
<1>1. Init => TypeOK /\ Staged
  <2> SUFFICES ASSUME Init PROVE TypeOK /\ Staged
    OBVIOUS
  <2>1. accounts \in Seq(Row) /\ 1 \in 1..Attempts /\ 0 \in 0..MaxLost
    BY UseAssumption DEF Init
  <2>2. TypeOK
    BY <2>1, CodeTyped DEF Init, TypeOK, Stage
  <2>3. Staged
    BY DEF Init, Staged
  <2> QED
    BY <2>2, <2>3
<1> QED
  BY <1>1, TypeStep, PTL DEF Spec

(* Every variable keeps its type: DEL is not sent more often than go-redis   *)
(* retries, and each call meets only the stages that are on its way.         *)
THEOREM TypeCorrect == Spec => []TypeOK
BY Typed, PTL

------------------------------------------------------------------------------
(* The account that a call acts on. *)

(* No step removes, moves or readdresses an account.  One becomes visible by *)
(* the COMMIT of its registration.                                           *)
LEMMA RowsKept ==
    ASSUME TypeOK, Staged, [Next]_vars, NEW e
    PROVE  \/ RowsOf(e)' = RowsOf(e)
           \/ \E h \in Handler : /\ pc[h] = "commit" /\ RowsOf(e) \subseteq RowsOf(e)'
                                 /\ RowsOf(e)' \subseteq RowsOf(e) \cup {writing[h]}
<1>1. ASSUME NEW h \in Handler, Insert(h) PROVE RowsOf(e)' = RowsOf(e)
  <2>1. [email |-> req[h].email, phone |-> req[h].phone,
         pw |-> req[h].pw, disabled |-> FALSE] \in Row
    BY <1>1, RequestFields DEF Insert, TypeOK, Staged, Row
  <2> QED
    BY <1>1, <2>1, InsertRow DEF Insert
<1>2. ASSUME NEW h \in Handler, pc[h] = "update", SetPassword(h), visible' = visible
      PROVE  RowsOf(e)' = RowsOf(e)
  <2>1. req[h].pw \in Password
    BY <1>2, RequestFields DEF TypeOK, Staged
  <2> QED
    BY <1>2, <2>1, PasswordRow
<1>3. ASSUME NEW h \in Handler, Commit(h)
      PROVE  /\ pc[h] = "commit" /\ RowsOf(e) \subseteq RowsOf(e)'
             /\ RowsOf(e)' \subseteq RowsOf(e) \cup {writing[h]}
  BY <1>3 DEF Commit, RowsOf, Readable
<1>4. CASE UNCHANGED table
  BY <1>4 DEF RowsOf, Readable, table
<1>5. \/ UNCHANGED table
      \/ \E h \in Handler : \/ Insert(h) \/ Commit(h)
                            \/ pc[h] = "update" /\ SetPassword(h) /\ visible' = visible
  BY DEF Next, vars, table, Step, Issue, Crash, Tick, Receive, Lookup, LookupRefuses, Accept,
         VerifyEnds, CreateFails, Update, UpdateFails, Delete, DeleteFails, Tokens, TokensFail
<1> QED
  BY <1>1, <1>2, <1>3, <1>4, <1>5

(* The row of an open transaction was inserted before this step or is new.   *)
LEMMA WritingKept ==
    ASSUME TypeOK, Staged, [Next]_vars, NEW g \in Handler, pc'[g] = "commit"
    PROVE  \/ pc[g] = "commit" /\ writing'[g] = writing[g]
           \/ writing'[g] = Len(accounts) + 1
<1> USE DEF TypeOK
<1>1. ASSUME NEW h \in Handler, Insert(h)
      PROVE  \/ pc[g] = "commit" /\ writing'[g] = writing[g]
             \/ writing'[g] = Len(accounts) + 1
  BY <1>1 DEF Insert
<1>2. ASSUME NEW h \in Handler, Return(h)
      PROVE  pc[g] = "commit" /\ writing'[g] = writing[g]
  BY <1>2 DEF Return
<1>3. ASSUME NEW h \in Handler, NEW stage, Goto(h, stage), stage # "commit"
      PROVE  pc[g] = "commit" /\ writing'[g] = writing[g]
  BY <1>3 DEF Goto
<1>4. ASSUME NEW h \in Handler, Receive(h) \/ Lookup(h)
      PROVE  pc[g] = "commit" /\ writing'[g] = writing[g]
  BY <1>4 DEF Receive, Lookup
<1>5. ~ Crash
  BY DEF Crash
<1>6. ASSUME NEW h \in Handler, Accept(h)
      PROVE  \E stage : Goto(h, stage) /\ stage # "commit"
  <2>1. req[h].op \in {"register", "login", "reset"}
    BY <1>6, RequestFields DEF Accept, Purpose
  <2> QED
    BY <1>6, <2>1 DEF Accept
<1>9. ASSUME NEW h \in Handler, ToTokens(h)
      PROVE  pc[g] = "commit" /\ writing'[g] = writing[g]
  BY <1>9 DEF ToTokens
<1>7. CASE UNCHANGED <<pc, writing>>
  BY <1>7
<1>8. \/ UNCHANGED <<pc, writing>>
      \/ \E h \in Handler : \/ Insert(h) \/ Return(h) \/ Receive(h) \/ Lookup(h) \/ Accept(h)
                            \/ Goto(h, "delete") \/ ToTokens(h)
  BY <1>5 DEF Next, vars, local, Step, Issue, Tick, LookupRefuses, VerifyEnds, Commit,
         CreateFails, Update, UpdateFails, Delete, DeleteFails, AfterDelete, Resend, Tokens,
         TokensFail
<1> QED
  BY <1>1, <1>2, <1>3, <1>4, <1>6, <1>7, <1>8, <1>9

(* A row that was found stays with the call it was found for.                *)
LEMMA FoundKept ==
    ASSUME TypeOK, Staged, [Next]_vars, NEW h \in Handler
    PROVE  \/ Lookup(h)
           \/ found'[h] = None
           \/ found'[h] = found[h] /\ req'[h] = req[h]
<1> USE DEF TypeOK
<1>1. ASSUME NEW g \in Handler, Receive(g) PROVE \/ found'[h] = None
                                                 \/ found'[h] = found[h] /\ req'[h] = req[h]
  BY <1>1 DEF Receive, Staged
<1>2. ASSUME NEW g \in Handler, Lookup(g)
      PROVE  Lookup(h) \/ (found'[h] = found[h] /\ req'[h] = req[h])
  BY <1>2 DEF Lookup
<1>3. ASSUME NEW g \in Handler, Return(g)
      PROVE  found'[h] = None \/ (found'[h] = found[h] /\ req'[h] = req[h])
  BY <1>3 DEF Return
<1>4. CASE Crash
  BY <1>4 DEF Crash
<1>5. CASE UNCHANGED <<found, req>>
  BY <1>5
<1>6. \/ Crash \/ UNCHANGED <<found, req>>
      \/ \E g \in Handler : Receive(g) \/ Lookup(g) \/ Return(g)
  BY DEF Next, vars, local, Step, Issue, Tick, LookupRefuses, Accept, VerifyEnds, Commit, Insert,
         CreateFails, Update, UpdateFails, Delete, DeleteFails, AfterDelete, Resend, Goto,
         ToTokens,
         Tokens, TokensFail
<1> QED
  BY <1>1, <1>2, <1>3, <1>4, <1>5, <1>6

(* What may still become visible: rows that come after the one that was      *)
(* found, or that were open already when it was.                             *)
NoneOvertakes ==
    \A h, g \in Handler : found[h] # None /\ pc[g] = "commit" =>
        writing[g] \in found[h].open \/ found[h].row <= writing[g]

LEMMA FoundStep ==
    TypeOK /\ Staged /\ FoundStaysFirst /\ NoneOvertakes /\ [Next]_vars
      => FoundStaysFirst' /\ NoneOvertakes'
<1> SUFFICES ASSUME TypeOK, Staged, FoundStaysFirst, NoneOvertakes, [Next]_vars,
                    NEW h \in Handler, found'[h] # None
             PROVE  /\ found'[h].row \in RowsOf(req[h].email)'
                    /\ \A i \in RowsOf(req[h].email)' \ found'[h].open : found'[h].row <= i
                    /\ \A g \in Handler : pc'[g] = "commit" =>
                         writing'[g] \in found'[h].open \/ found'[h].row <= writing'[g]
  BY DEF FoundStaysFirst, NoneOvertakes
<1> PICK e : e = req[h].email
  OBVIOUS
<1>1. CASE Lookup(h)
  <2> DEFINE first == GetByEmail(e)
  <2>1. /\ found'[h].row = first /\ found'[h].open = {j \in Open : j < first}
        /\ req' = req
        /\ RowsOf(e) # {} /\ UNCHANGED <<accounts, visible, writing>>
        /\ pc' = [pc EXCEPT ![h] = "verify"]
    BY <1>1 DEF Lookup, table, TypeOK
  <2>2. /\ found'[h].row \in RowsOf(e)
        /\ \A i \in RowsOf(e) : found'[h].row <= i
    BY <2>1, FirstRow
  <2>3. RowsOf(req[h].email)' = RowsOf(e)
    BY <2>1 DEF RowsOf, Readable
  <2>4. first \in Nat
    BY <2>1, <2>2 DEF RowsOf, Readable, TypeOK
  <2> HIDE DEF first
  <2>5. \A g \in Handler : pc'[g] = "commit" =>
          /\ writing'[g] \in Open /\ writing'[g] \in Nat
    BY <2>1 DEF Open, TypeOK, Staged
  <2>6. \A g \in Handler : pc'[g] = "commit" =>
          writing'[g] \in found'[h].open \/ found'[h].row <= writing'[g]
    BY <2>1, <2>4, <2>5
  <2> QED
    BY <2>1, <2>2, <2>3, <2>6
<1>2. CASE found'[h] = found[h] /\ req'[h] = req[h]
  <2> DEFINE first == found[h].row
             open == found[h].open
  <2>1. first \in RowsOf(e) /\ \A i \in RowsOf(e) \ open : first <= i
    BY <1>2 DEF FoundStaysFirst
  <2>2. first \in 1..Len(accounts) /\ Len(accounts) \in Nat
    BY <2>1 DEF RowsOf, Readable, TypeOK
  <2>3. \A g \in Handler : pc[g] = "commit" => writing[g] \in open \/ first <= writing[g]
    BY <1>2 DEF NoneOvertakes
  <2> HIDE DEF first, open
  <2>4. first \in RowsOf(e)' /\ \A i \in RowsOf(e)' \ open : first <= i
    BY <2>1, <2>3, RowsKept
  <2>5. \A g \in Handler : pc'[g] = "commit" => writing'[g] \in open \/ first <= writing'[g]
    BY <2>2, <2>3, WritingKept
  <2>6. RowsOf(req[h].email)' = RowsOf(e)'
    BY <1>2 DEF RowsOf, Readable
  <2> QED
    BY <1>2, <2>4, <2>5, <2>6 DEF first, open
<1> QED
  BY <1>1, <1>2, FoundKept

(* Whatever is registered between the lookup and the act, and in whatever    *)
(* order it is committed: the row a call acts on is the first of its         *)
(* address, but for rows whose COMMIT was outstanding at the lookup.         *)
THEOREM FoundIsFirst == Spec => []FoundStaysFirst
<1>1. Init => FoundStaysFirst /\ NoneOvertakes
  BY DEF Init, FoundStaysFirst, NoneOvertakes
<1> QED
  BY <1>1, FoundStep, Typed, PTL DEF Spec

------------------------------------------------------------------------------
(* The codes that are accepted. *)

(* A stored code, and one a handler has had accepted, was issued under its   *)
(* key.                                                                      *)
Mailed ==
    /\ \A k \in Key : codes[k].code \in mailed[k] \cup {None}
    /\ \A h \in Handler : pc[h] \in {"delete", "tokens", "update", "create", "commit"} =>
         req[h].code \in mailed[KeyOf(h)]

LEMMA MailedStep == TypeOK /\ Staged /\ Mailed /\ [Next]_vars => Mailed'
<1> SUFFICES ASSUME TypeOK, Staged, Mailed, [Next]_vars PROVE Mailed'
  OBVIOUS
<1> USE DEF TypeOK
<1>1. /\ \A k \in Key : mailed[k] \subseteq mailed'[k]
      /\ \A k \in Key : codes'[k].code \in mailed'[k] \cup {None}
  <2>1. ASSUME NEW k \in Key, NEW c \in Code, Issue(k, c)
        PROVE  /\ \A j \in Key : mailed[j] \subseteq mailed'[j]
               /\ \A j \in Key : codes'[j].code \in mailed'[j] \cup {None}
    BY <2>1 DEF Issue, Mailed
  <2>2. CASE Tick
    BY <2>2, CodeTyped DEF Tick, history, Mailed
  <2>3. ASSUME NEW h \in Handler, Delete(h)
        PROVE  /\ \A j \in Key : mailed[j] \subseteq mailed'[j]
               /\ \A j \in Key : codes'[j].code \in mailed'[j] \cup {None}
    BY <2>3 DEF Delete, Mailed, NoCode
  <2>4. CASE UNCHANGED <<codes, mailed>>
    BY <2>4 DEF Mailed
  <2>5. \/ Tick \/ UNCHANGED <<codes, mailed>>
        \/ \E k \in Key, c \in Code : Issue(k, c)
        \/ \E h \in Handler : Delete(h)
    BY DEF Next, vars, history, Step, Crash, Receive, Lookup, LookupRefuses, Accept,
           VerifyEnds, Insert, Commit, CreateFails, Update, UpdateFails, DeleteFails, Tokens,
           TokensFail
  <2> QED
    BY <2>1, <2>2, <2>3, <2>4, <2>5
<1>2. ASSUME NEW h \in Handler, pc'[h] \in {"delete", "tokens", "update", "create", "commit"}
      PROVE  \/ Accept(h)
             \/ req'[h] = req[h] /\ pc[h] \in {"delete", "tokens", "update", "create", "commit"}
  <2>1. ASSUME NEW g \in Handler, Receive(g) \/ Lookup(g)
        PROVE  req'[h] = req[h] /\ pc[h] \in {"delete", "tokens", "update", "create", "commit"}
    BY <1>2, <2>1 DEF Receive, Lookup
  <2>2. ASSUME NEW g \in Handler, Return(g)
        PROVE  req'[h] = req[h] /\ pc[h] \in {"delete", "tokens", "update", "create", "commit"}
    BY <1>2, <2>2 DEF Return
  <2>3. ASSUME NEW g \in Handler, Accept(g)
        PROVE  \/ Accept(h)
               \/ req'[h] = req[h] /\ pc[h] \in {"delete", "tokens", "update", "create", "commit"}
    <3> PICK stage : Goto(g, stage)
      BY <2>3 DEF Accept
    <3> QED
      BY <1>2, <2>3 DEF Goto
  <2>4. ASSUME NEW g \in Handler, NEW stage, Goto(g, stage), pc[g] \in {"update", "delete"}
        PROVE  req'[h] = req[h] /\ pc[h] \in {"delete", "tokens", "update", "create", "commit"}
    BY <1>2, <2>4 DEF Goto
  <2>9. ASSUME NEW g \in Handler, pc[g] = "delete" /\ ToTokens(g)
        PROVE  req'[h] = req[h] /\ pc[h] \in {"delete", "tokens", "update", "create", "commit"}
    BY <1>2, <2>9 DEF ToTokens
  <2>5. CASE Crash
    BY <1>2, <2>5 DEF Crash
  <2>6. CASE UNCHANGED <<pc, req>>
    BY <1>2, <2>6
  <2>7. ASSUME NEW g \in Handler, Insert(g)
        PROVE  req'[h] = req[h] /\ pc[h] \in {"delete", "tokens", "update", "create", "commit"}
    BY <1>2, <2>7 DEF Insert
  <2>8. \/ Crash \/ UNCHANGED <<pc, req>>
        \/ \E g \in Handler :
             \/ Receive(g) \/ Lookup(g) \/ Return(g) \/ Accept(g)
             \/ pc[g] = "update" /\ Goto(g, "delete")
             \/ pc[g] = "delete" /\ ToTokens(g)
             \/ Insert(g)
    BY DEF Next, vars, local, Step, Issue, Tick, LookupRefuses, VerifyEnds, Commit, Insert,
           CreateFails, Update, UpdateFails, Delete, DeleteFails, AfterDelete, Resend, Tokens,
           TokensFail
  <2> QED
    BY <2>1, <2>2, <2>3, <2>4, <2>5, <2>6, <2>7, <2>8, <2>9
<1>3. ASSUME NEW h \in Handler, pc'[h] \in {"delete", "tokens", "update", "create", "commit"}
      PROVE  req'[h].code \in mailed'[KeyOf(h)']
  <2>1. CASE Accept(h)
    <3>1. req'[h] = req[h] /\ pc[h] # "idle" /\ codes[KeyOf(h)].code = req[h].code
      BY <2>1 DEF Accept, Accepts, Goto
    <3>2. req[h].code \in Code /\ KeyOf(h) \in Key /\ None \notin Code
      BY <3>1, KeyTyped, RequestFields, UseAssumption
    <3>3. req[h].code \in mailed[KeyOf(h)]
      BY <3>1, <3>2 DEF Mailed
    <3>4. KeyOf(h)' = KeyOf(h)
      BY <3>1 DEF KeyOf
    <3> QED
      BY <1>1, <3>1, <3>2, <3>3, <3>4
  <2>2. CASE req'[h] = req[h] /\ pc[h] \in {"delete", "tokens", "update", "create", "commit"}
    <3>1. KeyOf(h) \in Key /\ KeyOf(h)' = KeyOf(h)
      BY <2>2, KeyTyped DEF KeyOf
    <3> QED
      BY <1>1, <2>2, <3>1 DEF Mailed
  <2> QED
    BY <1>2, <1>3, <2>1, <2>2
<1> QED
  BY <1>1, <1>3 DEF Mailed

(* In any order of the calls: a token, a new password or an account is only  *)
(* granted to a code that was issued to that address for that purpose.       *)
THEOREM MailedOnly == Spec => []OnlyMailedCodes
<1>1. Init => Mailed
  BY DEF Init, Mailed, NoCode
<1>2. TypeOK /\ Staged /\ Mailed => OnlyMailedCodes
  <2> SUFFICES ASSUME TypeOK, Staged, Mailed, NEW h \in Handler,
                      pc[h] \in {"delete", "tokens", "update", "create", "commit"}
               PROVE  req[h].code \in mailed[<<req[h].email,
                                               CASE pc[h] \in {"create", "commit"} -> "register"
                                                 [] pc[h] = "update" -> "reset"
                                                 [] OTHER -> req[h].op>>]
    BY DEF OnlyMailedCodes
  <2>1. (CASE pc[h] \in {"create", "commit"} -> "register" [] pc[h] = "update" -> "reset"
           [] OTHER -> req[h].op) = req[h].op
    BY DEF Staged
  <2> QED
    BY <2>1 DEF Mailed, KeyOf
<1> QED
  BY <1>1, <1>2, MailedStep, Typed, PTL DEF Spec

(* With any codes and addresses: whoever deletes a code that has not expired *)
(* has one that was mailed to the same address for the same purpose.         *)
THEOREM AddresseesOnly == Spec => OnlyAddresseesDelete
<1>1. Init => Mailed
  BY DEF Init, Mailed, NoCode
<1>2. TypeOK /\ Staged /\ Mailed /\ [Next]_vars =>
        [\A k \in Key : Live(k) /\ codes'[k].code = None =>
           \/ codes[k].ttl <= 1 /\ UNCHANGED local
           \/ \E h \in Handler : /\ pc[h] = "delete" /\ k = <<req[h].email, req[h].op>>
                                 /\ req[h].code \in mailed[k]]_vars
  <2> SUFFICES ASSUME TypeOK, Staged, Mailed, Next, NEW k \in Key, Live(k),
                      codes'[k].code = None,
                      ~ (codes[k].ttl <= 1 /\ UNCHANGED local)
               PROVE  \E h \in Handler : /\ pc[h] = "delete"
                                         /\ k = <<req[h].email, req[h].op>>
                                         /\ req[h].code \in mailed[k]
    OBVIOUS
  <2>1. ASSUME NEW j \in Key, NEW c \in Code, Issue(j, c) PROVE FALSE
    <3>1. codes'[k] = IF k = j THEN [code |-> c, ttl |-> CodeTTL] ELSE codes[k]
      BY <2>1 DEF Issue, TypeOK
    <3>2. c # None
      BY UseAssumption
    <3> QED
      BY <3>1, <3>2 DEF Live
  <2>2. ~ Tick
    <3>1. codes[k] \in StoredCode /\ codes[k].ttl > 1 => Aged(codes[k]).code = codes[k].code
      BY DEF Aged, StoredCode
    <3>2. codes[k] \in StoredCode /\ (codes[k].ttl > 1 \/ ~ UNCHANGED local)
      BY DEF TypeOK, StoredCode
    <3> QED
      BY <3>1, <3>2 DEF Tick, Live
  <2>3. ASSUME NEW h \in Handler, Receive(h) PROVE FALSE
    BY <2>3 DEF Receive, Live
  <2>4. ~ Crash
    BY DEF Crash, Live
  <2>5. PICK h \in Handler : Step(h)
    BY <2>1, <2>2, <2>3, <2>4 DEF Next
  <2>6. Delete(h)
    BY <2>5 DEF Step, Lookup, LookupRefuses, Accept, VerifyEnds, Insert, Commit, CreateFails,
                Update, UpdateFails, DeleteFails, Tokens, TokensFail, Live
  <2>7. pc[h] = "delete" /\ codes' = [codes EXCEPT ![KeyOf(h)] = NoCode]
    BY <2>6 DEF Delete
  <2>8. k = KeyOf(h)
    BY <2>7 DEF TypeOK, Live
  <2> QED
    BY <2>7, <2>8 DEF Mailed, KeyOf
<1> QED
  BY <1>1, <1>2, MailedStep, Typed, PTL DEF Spec, OnlyAddresseesDelete

------------------------------------------------------------------------------
(* Every step brings a call nearer to its answer. *)

LEMMA StepNearer ==
    ASSUME TypeOK, Staged, NEW h \in Handler, Step(h)
    PROVE  \/ Distance[pc'[h]] < Distance[pc[h]]
           \/ Distance[pc'[h]] = Distance[pc[h]] /\ attempt'[h] > attempt[h]
<1> USE DEF TypeOK, Distance
<1>1. CASE Return(h) /\ pc[h] # "idle"
  <2>1. pc'[h] = "idle"
    BY <1>1 DEF Return
  <2> QED
    BY <1>1, <2>1 DEF Stage
<1>2. CASE Lookup(h)
  BY <1>2 DEF Lookup
<1>3. CASE Accept(h)
  <2>1. pc'[h] \in {"create", "delete", "update"} /\ pc[h] = "verify"
    <3>1. req[h].op \in {"register", "login", "reset"}
      BY <1>3, RequestFields DEF Accept, Purpose
    <3> QED
      BY <1>3, <3>1 DEF Accept, Goto
  <2> QED
    BY <2>1
<1>4. CASE Update(h)
  BY <1>4 DEF Update, Goto
<1>5. CASE pc[h] = "delete" /\ ToTokens(h)
  BY <1>5 DEF ToTokens
<1>6. CASE pc[h] = "delete" /\ Resend(h)
  BY <1>6, UseAssumption DEF Resend
<1>7. CASE Insert(h)
  BY <1>7 DEF Insert
<1>8. \/ Lookup(h) \/ Accept(h) \/ Update(h) \/ Insert(h)
      \/ pc[h] = "delete" /\ (ToTokens(h) \/ Resend(h))
      \/ Return(h) /\ pc[h] # "idle"
  BY DEF Step, LookupRefuses, VerifyEnds, Insert, Commit, CreateFails, UpdateFails, Delete,
         DeleteFails, AfterDelete, Tokens, TokensFail
<1> QED
  BY <1>1, <1>2, <1>3, <1>4, <1>5, <1>6, <1>7, <1>8

(* For every number of handlers and retries, and in any order of failures:   *)
(* each step of a call brings it nearer to its answer or uses up a retry.    *)
THEOREM CallsAdvance == Spec => StepsLeadToAnswer
<1>1. TypeOK /\ Staged /\ [Next]_vars
        => [\A h \in Handler :
              \/ Distance[pc'[h]] < Distance[pc[h]]
              \/ Distance[pc'[h]] = Distance[pc[h]] /\ attempt'[h] > attempt[h]
              \/ ~ Step(h)]_vars
  BY StepNearer
<1> QED
  BY <1>1, Typed, PTL DEF Spec, StepsLeadToAnswer

------------------------------------------------------------------------------
(* How a step counts. *)

(* Logins that have deleted the code they were admitted with.                *)
Spending(k) == {h \in Pending(k) : pc[h] = "tokens"}

(* A step's effect on what is counted for a key: how many handlers join      *)
(* those that may still grant, those of them past the deletion, and those    *)
(* that are deleting, and how many are granted.                              *)
Change(k, pending, spending, deleting, granted) ==
    /\ Cardinality(Pending(k))' = Cardinality(Pending(k)) + pending
    /\ Cardinality(Spending(k))' = Cardinality(Spending(k)) + spending
    /\ Cardinality(Deleting(k))' = Cardinality(Deleting(k)) + deleting
    /\ grants'[k] = grants[k] + granted

(* The code stays as it is; or it stays although it should have gone; or it  *)
(* goes.                                                                     *)
Stays(k) == lost'[k] = lost[k] /\ codes'[k] = codes[k]
Missed(k) ==
    /\ lost'[k] >= lost[k] /\ codes'[k] = codes[k]
    /\ Live(k) => lost'[k] = lost[k] + 1
Goes(k) == lost'[k] = lost[k] /\ codes'[k] = NoCode

Untouched(k) == Change(k, 0, 0, 0, 0) /\ Stays(k)

LEMMA HandlersFinite ==
    ASSUME NEW S \in SUBSET Handler PROVE IsFiniteSet(S) /\ Cardinality(S) \in Nat
BY UseAssumption, FS_Subset, FS_CardinalityType

LEMMA CountedHandlers ==
    ASSUME held \subseteq Handler, NEW k
    PROVE  /\ Pending(k) \subseteq Handler /\ Spending(k) \subseteq Handler
           /\ Deleting(k) \subseteq Handler
BY DEF Pending, Spending, Deleting

(* One handler more, or one less.                                            *)
LEMMA Recount ==
    ASSUME NEW S \in SUBSET Handler, NEW T \in SUBSET Handler, NEW h, S \ {h} = T \ {h}
    PROVE  Cardinality(T) = Cardinality(S) + (IF h \in T THEN 1 ELSE 0)
                                           - (IF h \in S THEN 1 ELSE 0)
<1>1. /\ IsFiniteSet(S) /\ Cardinality(S) \in Nat
      /\ IsFiniteSet(T) /\ Cardinality(T) \in Nat
  BY HandlersFinite
<1>2. Cardinality(S \ {h}) = IF h \in S THEN Cardinality(S) - 1 ELSE Cardinality(S)
  BY <1>1, FS_RemoveElement
<1>3. Cardinality(T \ {h}) = IF h \in T THEN Cardinality(T) - 1 ELSE Cardinality(T)
  BY <1>1, FS_RemoveElement
<1> QED
  BY <1>1, <1>2, <1>3

(* Only one handler moves.                                                   *)
OnlyMoves(h) ==
    /\ held \subseteq Handler /\ held' \subseteq Handler
    /\ \A g \in Handler \ {h} : /\ pc'[g] = pc[g] /\ req'[g] = req[g]
                                /\ g \in held' <=> g \in held

LEMMA Recounted ==
    ASSUME NEW h \in Handler, OnlyMoves(h), NEW k
    PROVE  /\ Cardinality(Pending(k))' = Cardinality(Pending(k))
                + (IF h \in Pending(k)' THEN 1 ELSE 0) - (IF h \in Pending(k) THEN 1 ELSE 0)
           /\ Cardinality(Spending(k))' = Cardinality(Spending(k))
                + (IF h \in Spending(k)' THEN 1 ELSE 0) - (IF h \in Spending(k) THEN 1 ELSE 0)
           /\ Cardinality(Deleting(k))' = Cardinality(Deleting(k))
                + (IF h \in Deleting(k)' THEN 1 ELSE 0) - (IF h \in Deleting(k) THEN 1 ELSE 0)
           /\ Cardinality(Pending(k)) \in Nat /\ Cardinality(Spending(k)) \in Nat
           /\ Cardinality(Deleting(k)) \in Nat
<1>1. Pending(k)' \ {h} = Pending(k) \ {h}
  BY DEF OnlyMoves, Pending, KeyOf
<1>2. Spending(k)' \ {h} = Spending(k) \ {h}
  BY <1>1, CountedHandlers DEF OnlyMoves, Spending
<1>3. Deleting(k)' \ {h} = Deleting(k) \ {h}
  BY DEF OnlyMoves, Deleting, KeyOf
<1>4. /\ Pending(k) \subseteq Handler /\ Pending(k)' \subseteq Handler
      /\ Spending(k) \subseteq Handler /\ Spending(k)' \subseteq Handler
      /\ Deleting(k) \subseteq Handler /\ Deleting(k)' \subseteq Handler
  BY DEF OnlyMoves, Pending, Spending, Deleting
<1> QED
  BY <1>1, <1>2, <1>3, <1>4, Recount, HandlersFinite

LEMMA StepMovesOne ==
    ASSUME TypeOK, Staged, TypeOK', NEW h \in Handler, Receive(h) \/ Step(h)
    PROVE  OnlyMoves(h)
<1> USE DEF TypeOK, OnlyMoves
<1>1. CASE Receive(h) \/ Lookup(h) \/ Insert(h)
  BY <1>1 DEF Receive, Lookup, Insert, history
<1>2. CASE Return(h)
  BY <1>2 DEF Return
<1>3. CASE Resend(h)
  BY <1>3 DEF Resend
<1>4. CASE Accept(h)
  <2> PICK stage : Goto(h, stage)
    BY <1>4 DEF Accept
  <2> QED
    BY <1>4 DEF Accept, Goto
<1>5. CASE held' = held /\ Goto(h, "delete")
  BY <1>5 DEF Goto
<1>6. CASE ToTokens(h)
  BY <1>6 DEF ToTokens
<1> QED
  BY <1>1, <1>2, <1>3, <1>4, <1>5, <1>6
     DEF Step, LookupRefuses, VerifyEnds, Commit, CreateFails, Update, UpdateFails, Delete,
         DeleteFails, AfterDelete, Tokens, TokensFail

(* A handler counts for the key of its call only.                            *)
LEMMA OthersUntouched ==
    ASSUME TypeOK, Staged, TypeOK', Staged', NEW h \in Handler, NEW k \in Key,
           Receive(h) \/ (Step(h) /\ k # KeyOf(h))
    PROVE  Untouched(k)
<1>1. OnlyMoves(h)
  BY StepMovesOne
<1>2. /\ h \notin Pending(k) /\ h \notin Spending(k) /\ h \notin Deleting(k)
      /\ h \notin Pending(k)' /\ h \notin Spending(k)' /\ h \notin Deleting(k)'
  <2>1. CASE Receive(h)
    BY <2>1 DEF Receive, Staged, Pending, Spending, Deleting, history, TypeOK
  <2>2. CASE Step(h) /\ k # KeyOf(h)
    <3>1. h \notin held' \/ req'[h] = req[h]
      BY <2>2 DEF Step, Lookup, LookupRefuses, Accept, VerifyEnds, Insert, Commit, CreateFails,
                  Update, UpdateFails, Delete, DeleteFails, AfterDelete, Resend, Goto,
         ToTokens,
                  Tokens, TokensFail, Return
    <3> QED
      BY <2>2, <3>1 DEF Pending, Spending, Deleting, KeyOf
  <2> QED
    BY <2>1, <2>2
<1>3. grants'[k] = grants[k] /\ lost'[k] = lost[k] /\ codes'[k] = codes[k]
  <2>1. CASE Receive(h)
    BY <2>1 DEF Receive, history
  <2>2. CASE Step(h) /\ k # KeyOf(h)
    <3>1. codes' = codes \/ codes' = [codes EXCEPT ![KeyOf(h)] = NoCode]
      BY <2>2 DEF Step, Lookup, LookupRefuses, Accept, VerifyEnds, Insert, Commit, CreateFails,
                  Update, UpdateFails, Delete, DeleteFails, Tokens, TokensFail
    <3>2. grants' = grants \/ grants' = [grants EXCEPT ![KeyOf(h)] = @ + 1]
      BY <2>2 DEF Step, Lookup, LookupRefuses, Accept, VerifyEnds, Insert, Commit, CreateFails,
                  Update, UpdateFails, Delete, DeleteFails, Tokens, TokensFail, Granted,
                  history
    <3>3. lost' = lost \/ lost' = [lost EXCEPT ![KeyOf(h)] = @ + 1]
      BY <2>2 DEF Step, Lookup, LookupRefuses, Accept, VerifyEnds, Insert, Commit, CreateFails,
                  Update, UpdateFails, Delete, DeleteFails, Tokens, TokensFail, Survives,
                  history
    <3> QED
      BY <2>2, <3>1, <3>2, <3>3 DEF TypeOK
  <2> QED
    BY <2>1, <2>2
<1>4. grants[k] \in Nat
  BY DEF TypeOK
<1> QED
  BY <1>1, <1>2, <1>3, <1>4, Recounted DEF Untouched, Change, Stays

(* The count of a handler that counts nowhere, before and after.             *)
LEMMA KeyUntouched ==
    ASSUME TypeOK, NEW h \in Handler, OnlyMoves(h), NEW k \in Key,
           h \notin held \/ pc[h] \in {"verify", "lookup", "create"},
           h \notin held' \/ pc'[h] \in {"verify", "lookup", "create"},
           grants'[k] = grants[k], Stays(k)
    PROVE  Untouched(k)
<1>1. /\ h \notin Pending(k) /\ h \notin Spending(k) /\ h \notin Deleting(k)
      /\ h \notin Pending(k)' /\ h \notin Spending(k)' /\ h \notin Deleting(k)'
  BY DEF Pending, Spending, Deleting
<1>2. grants[k] \in Nat
  BY DEF TypeOK
<1> QED
  BY <1>1, <1>2, Recounted DEF Untouched, Change

(* What a step of a login or a reset may do to the counts of its key.        *)
Accounted(k) ==
    \/ Untouched(k)
    \/ Live(k) /\ Change(k, 1, 0, 0, 0) /\ Stays(k)
    \/ Change(k, -1, 0, 1, 1) /\ Stays(k)
    \/ Change(k, -1, 0, 0, 0) /\ Stays(k)
    \/ Change(k, -1, -1, 0, 0) /\ Stays(k)
    \/ Change(k, -1, -1, 0, 1) /\ Stays(k)
    \/ Change(k, -1, 0, 0, 1) /\ Missed(k)
    \/ Change(k, 0, 1, 0, 0) /\ Missed(k)
    \/ Change(k, 0, 0, -1, 0) /\ Missed(k)
    \/ Goes(k) /\ \E s, d \in -1..1 : Change(k, 0, s, d, 0)

LEMMA StepCounts ==
    ASSUME TypeOK, Staged, TypeOK', NEW h \in Handler, Step(h),
           NEW k \in SpentKey, k = KeyOf(h)
    PROVE  Accounted(k)
<1> k \in Key
  BY DEF SpentKey, Key, Purpose
<1>0. ~ Insert(h) /\ ~ Commit(h) /\ pc[h] \notin {"create", "commit"}
  BY DEF SpentKey, KeyOf, Staged, Insert, Commit
<1>1. OnlyMoves(h) /\ grants[k] \in Nat /\ lost[k] \in Nat
  BY StepMovesOne DEF TypeOK
<1>2. /\ Cardinality(Pending(k))' = Cardinality(Pending(k))
           + (IF h \in Pending(k)' THEN 1 ELSE 0) - (IF h \in Pending(k) THEN 1 ELSE 0)
      /\ Cardinality(Spending(k))' = Cardinality(Spending(k))
           + (IF h \in Spending(k)' THEN 1 ELSE 0) - (IF h \in Spending(k) THEN 1 ELSE 0)
      /\ Cardinality(Deleting(k))' = Cardinality(Deleting(k))
           + (IF h \in Deleting(k)' THEN 1 ELSE 0) - (IF h \in Deleting(k) THEN 1 ELSE 0)
      /\ Cardinality(Pending(k)) \in Nat /\ Cardinality(Spending(k)) \in Nat
      /\ Cardinality(Deleting(k)) \in Nat
  BY <1>1, Recounted
<1>3. /\ h \notin held => h \notin Pending(k) /\ h \notin Spending(k) /\ h \notin Deleting(k)
      /\ h \in held =>
           /\ h \in Pending(k) <=> \/ pc[h] \in {"update", "tokens"}
                                   \/ pc[h] = "delete" /\ req[h].op = "login"
           /\ h \in Spending(k) <=> pc[h] = "tokens"
           /\ h \in Deleting(k) <=> pc[h] = "delete" /\ req[h].op = "reset"
  BY DEF Pending, Spending, Deleting
<1>4. ASSUME req'[h] = req[h], h \in held'
      PROVE  /\ h \in Pending(k)' <=> \/ pc'[h] \in {"update", "tokens"}
                                      \/ pc'[h] = "delete" /\ req[h].op = "login"
             /\ h \in Spending(k)' <=> pc'[h] = "tokens"
             /\ h \in Deleting(k)' <=> pc'[h] = "delete" /\ req[h].op = "reset"
  BY <1>4 DEF Pending, Spending, Deleting, KeyOf
<1>5. h \notin held' => h \notin Pending(k)' /\ h \notin Spending(k)' /\ h \notin Deleting(k)'
  BY DEF Pending, Spending, Deleting
<1>6. CASE Accept(h)
  <2>1. /\ h \notin held /\ h \in held' /\ req'[h] = req[h]
        /\ grants'[k] = grants[k] /\ Stays(k) /\ Live(k)
    <3>1. req[h].code \in Code
      BY <1>6, RequestFields DEF TypeOK, Accept
    <3>2. codes[k].code = req[h].code /\ codes' = codes /\ grants' = grants /\ lost' = lost
      BY <1>6 DEF Accept, Accepts
    <3>3. pc[h] = "verify" /\ held' = held \cup {h} /\ req' = req
      BY <1>6 DEF Accept, Goto
    <3> QED
      BY <3>1, <3>2, <3>3, UseAssumption DEF Staged, Stays, Live
  <2>2. \/ pc'[h] = "create"
        \/ pc'[h] = "delete" /\ req[h].op = "login"
        \/ pc'[h] = "update"
    BY <1>6, RequestFields DEF TypeOK, Accept, Goto, Purpose
  <2>3. h \notin Spending(k)' /\ h \notin Deleting(k)'
    BY <1>4, <2>1, <2>2
  <2>4. Change(k, 0, 0, 0, 0) \/ Change(k, 1, 0, 0, 0)
    BY <1>1, <1>2, <1>3, <2>1, <2>3 DEF Change
  <2> QED
    BY <2>1, <2>4 DEF Accounted, Untouched
<1>7. CASE Delete(h)
  <2>1. grants'[k] = grants[k] /\ Goes(k)
    BY <1>7 DEF TypeOK, Delete, Goes
  <2>2. h \in Pending(k)' <=> h \in Pending(k)
    <3>1. \/ req'[h] = req[h] /\ req[h].op = "login" /\ pc'[h] = "tokens" /\ held' = held
          \/ req[h].op = "reset" /\ h \notin held'
          \/ req'[h] = req[h] /\ pc'[h] = "delete" /\ held' = held
      BY <1>7 DEF TypeOK, Delete, AfterDelete, Resend, Goto,
         ToTokens, Return
    <3>2. pc[h] = "delete"
      BY <1>7 DEF Delete
    <3> QED
      BY <1>3, <1>4, <1>5, <3>1, <3>2
  <2>3. \E s, d \in -1..1 : Change(k, 0, s, d, 0)
    <3> DEFINE s == (IF h \in Spending(k)' THEN 1 ELSE 0) - (IF h \in Spending(k) THEN 1 ELSE 0)
               d == (IF h \in Deleting(k)' THEN 1 ELSE 0) - (IF h \in Deleting(k) THEN 1 ELSE 0)
    <3>1. s \in -1..1 /\ d \in -1..1
      OBVIOUS
    <3>2. Change(k, 0, s, d, 0)
      BY <1>1, <1>2, <2>1, <2>2 DEF Change
    <3> QED
      BY <3>1, <3>2
  <2> QED
    BY <2>1, <2>3 DEF Accounted
<1>8. CASE /\ held' = held \/ held' = held \ {h}
           /\ h \notin held /\ codes' = codes /\ grants' = grants /\ lost' = lost
  <2>1. /\ h \notin Pending(k) /\ h \notin Spending(k) /\ h \notin Deleting(k)
        /\ h \notin Pending(k)' /\ h \notin Spending(k)' /\ h \notin Deleting(k)'
    BY <1>3, <1>5, <1>8
  <2> QED
    BY <1>1, <1>2, <1>8, <2>1 DEF Accounted, Untouched, Change, Stays
<1>9. CASE h \in held /\ (CreateFails(h) \/ TokensFail(h))
  <2>1. /\ h \notin held' /\ grants'[k] = grants[k] /\ Stays(k)
        /\ pc[h] = "tokens"
    BY <1>0, <1>9 DEF CreateFails, TokensFail, Return, Stays
  <2>2. h \notin Deleting(k) /\ (h \in Pending(k) <=> h \in Spending(k))
    BY <1>3, <1>9, <2>1
  <2>3. Change(k, 0, 0, 0, 0) \/ Change(k, -1, -1, 0, 0)
    BY <1>1, <1>2, <1>5, <2>1, <2>2 DEF Change
  <2> QED
    BY <2>1, <2>3 DEF Accounted, Untouched
<1>10. CASE h \in held /\ Tokens(h)
  <2>1. h \notin held' /\ grants'[k] = grants[k] + 1 /\ Stays(k) /\ pc[h] = "tokens"
    BY <1>10 DEF TypeOK, Tokens, Granted, Return, Stays
  <2>2. h \in Pending(k) /\ h \in Spending(k) /\ h \notin Deleting(k)
    BY <1>3, <1>10, <2>1
  <2>3. Change(k, -1, -1, 0, 1)
    BY <1>1, <1>2, <1>5, <2>1, <2>2 DEF Change
  <2> QED
    BY <2>1, <2>3 DEF Accounted
<1>11. CASE h \in held /\ Update(h)
  <2>1. /\ h \in held' /\ req'[h] = req[h] /\ pc[h] = "update" /\ pc'[h] = "delete"
        /\ grants'[k] = grants[k] + 1 /\ Stays(k)
    BY <1>11 DEF TypeOK, Update, Granted, Goto, Stays
  <2>2. req[h].op = "reset"
    BY <2>1 DEF Staged
  <2>3. /\ h \in Pending(k) /\ h \notin Spending(k) /\ h \notin Deleting(k)
        /\ h \notin Pending(k)' /\ h \notin Spending(k)' /\ h \in Deleting(k)'
    BY <1>3, <1>4, <1>11, <2>1, <2>2
  <2>4. Change(k, -1, 0, 1, 1)
    BY <1>1, <1>2, <2>1, <2>3 DEF Change
  <2> QED
    BY <2>1, <2>4 DEF Accounted
<1>12. CASE h \in held /\ UpdateFails(h)
  <2>1. h \notin held' /\ pc[h] = "update"
    BY <1>12 DEF UpdateFails, Return
  <2>2. h \in Pending(k) /\ h \notin Spending(k) /\ h \notin Deleting(k)
    BY <1>3, <1>12, <2>1
  <2>3. \/ grants'[k] = grants[k] /\ Stays(k)
        \/ grants'[k] = grants[k] + 1 /\ Missed(k)
    BY <1>1, <1>12 DEF TypeOK, UpdateFails, Granted, Survives, Stays, Missed
  <2>4. \/ Change(k, -1, 0, 0, 0) /\ Stays(k)
        \/ Change(k, -1, 0, 0, 1) /\ Missed(k)
    BY <1>1, <1>2, <1>5, <2>1, <2>2, <2>3 DEF Change
  <2> QED
    BY <2>4 DEF Accounted
<1>13. CASE DeleteFails(h) /\ Resend(h) /\ UNCHANGED lost
  <2>1. /\ pc[h] = "delete" /\ pc'[h] = "delete" /\ req'[h] = req[h] /\ held' = held
        /\ grants'[k] = grants[k] /\ Stays(k)
    BY <1>13 DEF DeleteFails, Resend, Stays
  <2>2. /\ h \in Pending(k) <=> h \in Pending(k)'
        /\ h \in Spending(k) <=> h \in Spending(k)'
        /\ h \in Deleting(k) <=> h \in Deleting(k)'
    BY <1>3, <1>4, <1>5, <2>1
  <2>3. Change(k, 0, 0, 0, 0)
    BY <1>1, <1>2, <2>1, <2>2 DEF Change
  <2> QED
    BY <2>1, <2>3 DEF Accounted, Untouched
<1>14. CASE h \in held /\ DeleteFails(h) /\ AfterDelete(h) /\ Survives(h)
  <2>1. grants'[k] = grants[k] /\ Missed(k) /\ pc[h] = "delete"
    BY <1>1, <1>14 DEF TypeOK, DeleteFails, Survives, Missed
  <2>2. CASE req[h].op = "login" /\ ToTokens(h)
    <3>1. h \in held' /\ req'[h] = req[h] /\ pc'[h] = "tokens"
      BY <1>14, <2>2 DEF TypeOK, ToTokens
    <3>2. /\ h \in Pending(k) /\ h \notin Spending(k) /\ h \notin Deleting(k)
          /\ h \in Pending(k)' /\ h \in Spending(k)' /\ h \notin Deleting(k)'
      BY <1>3, <1>4, <1>14, <2>1, <2>2, <3>1
    <3>3. Change(k, 0, 1, 0, 0)
      BY <1>1, <1>2, <2>1, <3>2 DEF Change
    <3> QED
      BY <2>1, <3>3 DEF Accounted
  <2>3. CASE req[h].op = "reset" /\ Return(h)
    <3>1. h \notin held'
      BY <2>3 DEF Return
    <3>2. h \notin Pending(k) /\ h \notin Spending(k) /\ h \in Deleting(k)
      BY <1>3, <1>14, <2>1, <2>3
    <3>3. Change(k, 0, 0, -1, 0)
      BY <1>1, <1>2, <1>5, <2>1, <3>1, <3>2 DEF Change
    <3> QED
      BY <2>1, <3>3 DEF Accounted
  <2> QED
    BY <1>14, <2>2, <2>3 DEF AfterDelete
<1>15. CASE h \notin held /\ ~ Accept(h) /\ ~ Delete(h)
  <2>1. held' = held \/ held' = held \ {h}
    BY <1>0, <1>15 DEF Step, Lookup, LookupRefuses, VerifyEnds, CreateFails, Update,
                 UpdateFails, DeleteFails, AfterDelete, Resend, ToTokens, Tokens,
                 TokensFail, Return, history
  <2>2. codes' = codes /\ grants' = grants /\ lost' = lost
    BY <1>0, <1>15 DEF Step, Lookup, LookupRefuses, VerifyEnds, CreateFails, Update,
                 UpdateFails, DeleteFails, Granted, Survives, Tokens, TokensFail, history
  <2> QED
    BY <1>8, <1>15, <2>1, <2>2
<1>16. h \in held => ~ (Lookup(h) \/ LookupRefuses(h) \/ VerifyEnds(h))
  BY DEF Staged, Lookup, LookupRefuses, VerifyEnds
<1>17. DeleteFails(h) => \/ Resend(h) /\ UNCHANGED lost
                         \/ AfterDelete(h) /\ Survives(h)
  BY DEF DeleteFails
<1> QED
  BY <1>0, <1>6, <1>7, <1>9, <1>10, <1>11, <1>12, <1>13, <1>14, <1>15, <1>16, <1>17 DEF Step

(* Nobody is left whose code of this key was accepted.                       *)
Vacated(k) ==
    /\ Cardinality(Pending(k))' = 0 /\ Cardinality(Spending(k))' = 0
    /\ Cardinality(Deleting(k))' = 0

LEMMA Uncounted ==
    ASSUME NEW k, held' \subseteq Handler, \A h \in held' : KeyOf(h)' # k
    PROVE  Vacated(k)
<1>1. Pending(k)' = {} /\ Spending(k)' = {} /\ Deleting(k)' = {}
  BY DEF Pending, Spending, Deleting
<1> QED
  BY <1>1, FS_EmptySet DEF Vacated

LEMMA IssueCounts ==
    ASSUME TypeOK, NEW k \in Key, NEW c \in Code, Issue(k, c)
    PROVE  /\ Vacated(k) /\ grants'[k] = 0 /\ lost'[k] = 0 /\ codes'[k].code = c
           /\ \A j \in Key \ {k} : Untouched(j)
<1>1. held' = {h \in held : KeyOf(h) # k} /\ UNCHANGED <<pc, req>>
  BY DEF Issue, local
<1>2. held' \subseteq Handler /\ \A h \in held' : KeyOf(h)' # k
  BY <1>1 DEF TypeOK, KeyOf
<1>3. grants'[k] = 0 /\ lost'[k] = 0 /\ codes'[k].code = c
  BY DEF TypeOK, Issue
<1>4. ASSUME NEW j \in Key \ {k} PROVE Untouched(j)
  <2>1. /\ Pending(j)' = Pending(j) /\ Deleting(j)' = Deleting(j)
    BY <1>1 DEF Pending, Deleting, KeyOf
  <2>2. Spending(j)' = Spending(j)
    BY <1>1, <2>1 DEF Spending
  <2>3. /\ Cardinality(Pending(j)) \in Nat /\ Cardinality(Spending(j)) \in Nat
        /\ Cardinality(Deleting(j)) \in Nat /\ grants[j] \in Nat
    BY CountedHandlers, HandlersFinite DEF TypeOK
  <2>4. grants'[j] = grants[j] /\ Stays(j)
    BY DEF TypeOK, Issue, Stays
  <2> QED
    BY <2>1, <2>2, <2>3, <2>4 DEF Untouched, Change
<1> QED
  BY <1>2, <1>3, <1>4, Uncounted

LEMMA CrashCounts ==
    ASSUME TypeOK, Crash, NEW k \in Key
    PROVE  /\ Vacated(k) /\ grants'[k] = grants[k] /\ codes'[k] = codes[k]
           /\ lost'[k] = lost[k] + IF Live(k) THEN Cardinality(Deleting(k)) ELSE 0
<1>1. held' = {}
  BY DEF Crash
<1> QED
  BY <1>1, Uncounted DEF Crash

LEMMA StillCounts ==
    ASSUME TypeOK, Tick \/ UNCHANGED vars, NEW k \in Key
    PROVE  /\ Change(k, 0, 0, 0, 0) /\ lost'[k] = lost[k]
           /\ codes'[k].code \in {codes[k].code, None}
<1>1. UNCHANGED <<local, history>>
  BY DEF Tick, vars
<1>2. Pending(k)' = Pending(k) /\ Spending(k)' = Spending(k) /\ Deleting(k)' = Deleting(k)
  BY <1>1 DEF Pending, Spending, Deleting, KeyOf, local, history
<1>3. /\ Cardinality(Pending(k)) \in Nat /\ Cardinality(Spending(k)) \in Nat
      /\ Cardinality(Deleting(k)) \in Nat /\ grants[k] \in Nat
  BY CountedHandlers, HandlersFinite DEF TypeOK
<1>4. codes'[k].code \in {codes[k].code, None}
  BY CodeTyped DEF TypeOK, Tick, vars
<1> QED
  BY <1>1, <1>2, <1>3, <1>4 DEF Change, history

(* Whatever happens, each spent key is accounted for.                            *)
LEMMA EveryKey ==
    ASSUME TypeOK, Staged, TypeOK', Staged', [Next]_vars, NEW k \in SpentKey
    PROVE  \/ Accounted(k)
           \/ Vacated(k) /\ grants'[k] = 0 /\ lost'[k] = 0
           \/ /\ Vacated(k) /\ grants'[k] = grants[k] /\ codes'[k] = codes[k]
              /\ lost'[k] = lost[k] + IF Live(k) THEN Cardinality(Deleting(k)) ELSE 0
           \/ /\ Change(k, 0, 0, 0, 0) /\ lost'[k] = lost[k]
              /\ codes'[k].code \in {codes[k].code, None}
<1> k \in Key
  BY DEF SpentKey, Key, Purpose
<1>1. CASE \E j \in Key, c \in Code : Issue(j, c)
  BY <1>1, IssueCounts DEF Accounted
<1>2. CASE \E h \in Handler : Receive(h) \/ Step(h)
  BY <1>2, OthersUntouched, StepCounts DEF Accounted
<1>3. CASE Crash
  BY <1>3, CrashCounts
<1>4. CASE Tick \/ UNCHANGED vars
  BY <1>4, StillCounts
<1> QED
  BY <1>1, <1>2, <1>3, <1>4 DEF Next

------------------------------------------------------------------------------
(* How often a code is used. *)

(* The parts of UsedMeansDeleted and UseBound for one key.                   *)
Used(k) ==
    Live(k) => grants[k] + Cardinality(Spending(k)) <= lost[k] + Cardinality(Deleting(k))
Bound(k) ==
    grants[k] + Cardinality(Pending(k)) <= Cardinality(Handler) + lost[k]

UsedOften == \A k \in SpentKey : Used(k) /\ Bound(k)

LEMMA Disjoint ==
    ASSUME NEW P \in SUBSET Handler, NEW D \in SUBSET Handler, P \cap D = {}
    PROVE  Cardinality(P) + Cardinality(D) <= Cardinality(Handler)
<1>1. /\ IsFiniteSet(P) /\ Cardinality(P) \in Nat
      /\ IsFiniteSet(D) /\ Cardinality(D) \in Nat
  BY HandlersFinite
<1>2. Cardinality(P \cup D) = Cardinality(P) + Cardinality(D)
  <2>1. Cardinality(P \cap D) = 0
    BY FS_EmptySet
  <2>2. Cardinality(P \cup D) = Cardinality(P) + Cardinality(D) - Cardinality(P \cap D)
    BY <1>1, FS_Union
  <2> QED
    BY <1>1, <2>1, <2>2
<1>3. Cardinality(P \cup D) <= Cardinality(Handler)
  BY UseAssumption, FS_Subset
<1> QED
  BY <1>2, <1>3

LEMMA UsedStep ==
    TypeOK /\ Staged /\ TypeOK' /\ Staged' /\ UsedOften /\ [Next]_vars => UsedOften'
<1> SUFFICES ASSUME TypeOK, Staged, TypeOK', Staged', UsedOften, [Next]_vars,
                    NEW k \in SpentKey
             PROVE  Used(k)' /\ Bound(k)'
  BY DEF UsedOften
<1> k \in Key
  BY DEF SpentKey, Key, Purpose
<1>1. Used(k) /\ Bound(k)
  BY DEF UsedOften
<1>2. /\ Cardinality(Pending(k)) \in Nat /\ Cardinality(Spending(k)) \in Nat
      /\ Cardinality(Deleting(k)) \in Nat /\ Cardinality(Handler) \in Nat
  BY CountedHandlers, HandlersFinite DEF TypeOK
<1>3. grants[k] \in Nat /\ lost[k] \in Nat /\ lost'[k] \in Nat
  BY DEF TypeOK
<1>4. CASE Live(k) /\ Change(k, 1, 0, 0, 0) /\ Stays(k)
  <2>1. Cardinality(Pending(k)') + Cardinality(Deleting(k)') <= Cardinality(Handler)
    <3>1. /\ Pending(k)' \subseteq Handler /\ Deleting(k)' \subseteq Handler
          /\ Pending(k)' \cap Deleting(k)' = {}
      BY DEF Pending, Deleting, TypeOK
    <3> QED
      BY <3>1, Disjoint
  <2>2. Cardinality(Deleting(k)') = Cardinality(Deleting(k))
    BY <1>2, <1>4 DEF Change
  <2>3. Cardinality(Pending(k)') = Cardinality(Pending(k)) + 1
    BY <1>4 DEF Change
  <2> QED
    BY <1>1, <1>2, <1>3, <1>4, <2>1, <2>2, <2>3 DEF Used, Bound, Live, Change, Stays
<1>5. CASE /\ Change(k, 0, 0, 0, 0) /\ lost'[k] = lost[k]
           /\ codes'[k].code \in {codes[k].code, None}
  BY <1>1, <1>2, <1>3, <1>5 DEF Used, Bound, Live, Change
<1>6. CASE Goes(k) /\ \E s, d \in -1..1 : Change(k, 0, s, d, 0)
  <2>1. ~ Live(k)'
    BY <1>6 DEF Goes, Live, NoCode
  <2> QED
    BY <1>1, <1>2, <1>3, <1>6, <2>1 DEF Used, Bound, Goes, Change
<1>7. CASE Vacated(k) /\ grants'[k] = 0
  BY <1>2, <1>3, <1>7 DEF Used, Bound, Vacated
<1>8. CASE /\ Vacated(k) /\ grants'[k] = grants[k] /\ codes'[k] = codes[k]
           /\ lost'[k] = lost[k] + IF Live(k) THEN Cardinality(Deleting(k)) ELSE 0
  BY <1>1, <1>2, <1>3, <1>8 DEF Used, Bound, Live, Vacated
<1>9. CASE \/ Untouched(k)
           \/ Change(k, -1, 0, 1, 1) /\ Stays(k)
           \/ Change(k, -1, 0, 0, 0) /\ Stays(k)
           \/ Change(k, -1, -1, 0, 0) /\ Stays(k)
           \/ Change(k, -1, -1, 0, 1) /\ Stays(k)
  BY <1>1, <1>2, <1>3, <1>9 DEF Used, Bound, Live, Change, Stays, Untouched
<1>10. CASE \/ Change(k, -1, 0, 0, 1) /\ Missed(k)
            \/ Change(k, 0, 1, 0, 0) /\ Missed(k)
            \/ Change(k, 0, 0, -1, 0) /\ Missed(k)
  BY <1>1, <1>2, <1>3, <1>10 DEF Used, Bound, Live, Change, Missed
<1> QED
  BY <1>4, <1>5, <1>6, <1>7, <1>8, <1>9, <1>10, EveryKey DEF Accounted

LEMMA UsedAlways == Spec => [](TypeOK /\ Staged /\ UsedOften)
<1>1. Init => UsedOften
  <2> SUFFICES ASSUME Init, NEW k \in SpentKey PROVE Used(k) /\ Bound(k)
    BY DEF UsedOften
  <2>1. grants[k] = 0 /\ lost[k] = 0 /\ ~ Live(k) /\ held = {}
    BY DEF Init, Live, NoCode, SpentKey, Key, Purpose
  <2>2. Pending(k) = {}
    BY <2>1 DEF Pending
  <2> QED
    BY <2>1, <2>2, HandlersFinite, FS_EmptySet DEF Used, Bound
<1> QED
  BY <1>1, Typed, UsedStep, PTL DEF Spec

(* For every number of handlers and every order of their calls: a login or   *)
(* reset code that is still stored has granted nothing, and will not be      *)
(* granted from after its deletion, but for deletions that were lost or are  *)
(* about to happen.                                                          *)
THEOREM UsedIsDeleted == Spec => []UsedMeansDeleted
<1>1. UsedOften => UsedMeansDeleted
  BY DEF UsedOften, Used, UsedMeansDeleted, Spending
<1> QED
  BY <1>1, UsedAlways, PTL

(* ... and a login or reset code is never used more often than handlers run  *)
(* at the same time, plus the deletions that were lost.  The codes of        *)
(* Register, which never deletes them, have no bound.                        *)
THEOREM UseLimited == Spec => []UseBound
<1>1. UsedOften => UseBound
  BY DEF UsedOften, Bound, UseBound
<1> QED
  BY <1>1, UsedAlways, PTL

------------------------------------------------------------------------------
(* The refinement of OneTimeCode. *)

(* How many handlers may still grant, and how many did, are numbers.         *)
LEMMA Countable ==
    ASSUME TypeOK, TypeOK'
    PROVE  \A k \in SpentKey :
             /\ Cardinality(Pending(k)) \in Nat /\ Cardinality(Pending(k)') \in Nat
             /\ grants[k] \in Nat /\ grants'[k] \in Nat
             /\ codes[k].code \in Code \cup {None} /\ codes'[k].code \in Code \cup {None}
<1>1. SpentKey \subseteq Key
  BY DEF SpentKey, Key, Purpose
<1> QED
  BY <1>1, CountedHandlers, HandlersFinite DEF TypeOK, Pending, StoredCode

(* What a key shows of itself to OneTimeCode stays as it is.                 *)
Hidden(k) ==
    /\ codes'[k].code = codes[k].code /\ grants'[k] = grants[k]
    /\ Cardinality(Pending(k)') = Cardinality(Pending(k))

LEMMA PromiseIssue ==
    ASSUME TypeOK, TypeOK', NEW k \in SpentKey, codes'[k].code \in Code,
           Cardinality(Pending(k)') = 0, grants'[k] = 0, \A j \in SpentKey \ {k} : Hidden(j)
    PROVE  Promise!Issue(k)
<1>1. [j \in SpentKey |-> codes'[j].code]
        = [[j \in SpentKey |-> codes[j].code] EXCEPT ![k] = codes'[k].code]
  BY DEF Hidden
<1>2. [j \in SpentKey |-> Cardinality(Pending(j)')]
        = [[j \in SpentKey |-> Cardinality(Pending(j))] EXCEPT ![k] = 0]
  BY DEF Hidden
<1>3. [j \in SpentKey |-> grants'[j]] = [[j \in SpentKey |-> grants[j]] EXCEPT ![k] = 0]
  BY DEF Hidden
<1> QED
  BY <1>1, <1>2, <1>3 DEF Promise!Issue

LEMMA PromiseAdmit ==
    ASSUME TypeOK, TypeOK', NEW k \in SpentKey, Live(k), codes'[k].code = codes[k].code,
           Cardinality(Pending(k)') = Cardinality(Pending(k)) + 1, grants'[k] = grants[k],
           Cardinality(Pending(k)') + grants'[k] <= Cardinality(Handler) + MaxLost,
           \A j \in SpentKey \ {k} : Hidden(j)
    PROVE  Promise!Admit(k)
<1>1. [j \in SpentKey |-> codes'[j].code] = [j \in SpentKey |-> codes[j].code]
  BY DEF Hidden
<1>2. [j \in SpentKey |-> Cardinality(Pending(j)')]
        = [[j \in SpentKey |-> Cardinality(Pending(j))] EXCEPT ![k] = @ + 1]
  BY DEF Hidden
<1>3. [j \in SpentKey |-> grants'[j]] = [j \in SpentKey |-> grants[j]]
  BY DEF Hidden
<1>4. Cardinality(Pending(k)) + grants[k] < Cardinality(Handler) + MaxLost
  <2>1. Cardinality(Pending(k)) \in Nat /\ grants[k] \in Nat
    BY Countable DEF TypeOK
  <2>2. Cardinality(Handler) \in Nat /\ MaxLost \in Nat
    BY HandlersFinite, UseAssumption
  <2> QED
    BY <2>1, <2>2
<1> QED
  BY <1>1, <1>2, <1>3, <1>4 DEF Promise!Admit, Live

LEMMA PromiseUse ==
    ASSUME TypeOK, TypeOK', NEW k \in SpentKey, codes'[k].code = codes[k].code,
           Cardinality(Pending(k)') = Cardinality(Pending(k)) - 1,
           grants'[k] = grants[k] + 1, \A j \in SpentKey \ {k} : Hidden(j)
    PROVE  Promise!Use(k)
<1>1. [j \in SpentKey |-> codes'[j].code] = [j \in SpentKey |-> codes[j].code]
  BY DEF Hidden
<1>2. [j \in SpentKey |-> Cardinality(Pending(j)')]
        = [[j \in SpentKey |-> Cardinality(Pending(j))] EXCEPT ![k] = @ - 1]
  BY DEF Hidden
<1>3. [j \in SpentKey |-> grants'[j]] = [[j \in SpentKey |-> grants[j]] EXCEPT ![k] = @ + 1]
  BY DEF Hidden
<1>4. Cardinality(Pending(k)) > 0
  BY Countable
<1> QED
  BY <1>1, <1>2, <1>3, <1>4 DEF Promise!Use

LEMMA PromiseDrop ==
    ASSUME TypeOK, TypeOK',
           \A k \in SpentKey : /\ codes'[k].code = codes[k].code /\ grants'[k] = grants[k]
                               /\ Cardinality(Pending(k)') <= Cardinality(Pending(k))
    PROVE  Promise!Drop
<1>1. [j \in SpentKey |-> codes'[j].code] = [j \in SpentKey |-> codes[j].code]
  OBVIOUS
<1>2. [j \in SpentKey |-> grants'[j]] = [j \in SpentKey |-> grants[j]]
  OBVIOUS
<1>3. [j \in SpentKey |-> Cardinality(Pending(j)')] \in [SpentKey -> Nat]
  BY Countable
<1> QED
  BY <1>1, <1>2, <1>3 DEF Promise!Drop

LEMMA PromiseWithdraw ==
    ASSUME TypeOK, TypeOK',
           \A k \in SpentKey : /\ codes'[k].code \in {codes[k].code, None}
                               /\ grants'[k] = grants[k]
                               /\ Cardinality(Pending(k)') = Cardinality(Pending(k))
    PROVE  Promise!Withdraw
<1>1. [j \in SpentKey |-> codes'[j].code] \in [SpentKey -> Code \cup {None}]
  <2>1. \A j \in SpentKey : codes'[j].code \in Code \cup {None}
    BY Countable
  <2> QED
    BY <2>1
<1>2. [j \in SpentKey |-> Cardinality(Pending(j)')] = [j \in SpentKey |-> Cardinality(Pending(j))]
  OBVIOUS
<1>3. [j \in SpentKey |-> grants'[j]] = [j \in SpentKey |-> grants[j]]
  OBVIOUS
<1> QED
  BY <1>1, <1>2, <1>3 DEF Promise!Withdraw

LEMMA PromiseStill ==
    ASSUME TypeOK, TypeOK', \A k \in SpentKey : Hidden(k)
    PROVE  Promise!Next
<1>1. \A k \in SpentKey : /\ codes'[k].code = codes[k].code /\ grants'[k] = grants[k]
                          /\ Cardinality(Pending(k)') <= Cardinality(Pending(k))
  BY Countable DEF Hidden
<1> QED
  BY <1>1, PromiseDrop DEF Promise!Next

LEMMA UntouchedHidden ==
    ASSUME TypeOK, TypeOK', NEW k \in SpentKey, Untouched(k)
    PROVE  Hidden(k)
BY Countable DEF Untouched, Change, Stays, Hidden

LEMMA PromiseHandler ==
    ASSUME TypeOK, Staged, TypeOK', Staged', UsedOften', NEW h \in Handler, Step(h),
           NEW k \in SpentKey, k = KeyOf(h)
    PROVE  Promise!Next
<1> SpentKey \subseteq Key
  BY DEF SpentKey, Key, Purpose
<1>3. Accounted(k)
  BY StepCounts
<1>4. \A j \in SpentKey \ {k} : Hidden(j)
  BY OthersUntouched, UntouchedHidden
<1>5. /\ Cardinality(Pending(k)) \in Nat /\ grants[k] \in Nat
      /\ Cardinality(Handler) \in Nat
  BY Countable, HandlersFinite
<1>6. CASE Live(k) /\ Change(k, 1, 0, 0, 0) /\ Stays(k)
  <2>1. /\ codes'[k].code = codes[k].code /\ grants'[k] = grants[k]
        /\ Cardinality(Pending(k)') = Cardinality(Pending(k)) + 1
    BY <1>5, <1>6 DEF Change, Stays
  <2>2. Cardinality(Pending(k)') + grants'[k] <= Cardinality(Handler) + MaxLost
    <3>1. grants'[k] + Cardinality(Pending(k)') <= Cardinality(Handler) + lost'[k]
      BY DEF UsedOften, Bound
    <3>2. lost'[k] \in Nat /\ lost'[k] <= MaxLost /\ MaxLost \in Nat
      BY UseAssumption DEF TypeOK
    <3> QED
      BY <1>5, <2>1, <3>1, <3>2
  <2>3. Promise!Admit(k)
    BY <1>4, <1>6, <2>1, <2>2, PromiseAdmit
  <2> QED
    BY <2>3 DEF Promise!Next
<1>7. CASE \/ Change(k, -1, 0, 1, 1) /\ Stays(k)
           \/ Change(k, -1, -1, 0, 1) /\ Stays(k)
           \/ Change(k, -1, 0, 0, 1) /\ Missed(k)
  <2>1. /\ codes'[k].code = codes[k].code /\ grants'[k] = grants[k] + 1
        /\ Cardinality(Pending(k)') = Cardinality(Pending(k)) - 1
    BY <1>5, <1>7 DEF Change, Stays, Missed
  <2>2. Promise!Use(k)
    BY <1>4, <2>1, PromiseUse
  <2> QED
    BY <2>2 DEF Promise!Next
<1>8. CASE Goes(k) /\ \E s, d \in -1..1 : Change(k, 0, s, d, 0)
  <2>1. /\ codes'[k].code = None /\ grants'[k] = grants[k]
        /\ Cardinality(Pending(k)') = Cardinality(Pending(k))
    BY <1>5, <1>8 DEF Change, Goes, NoCode
  <2>2. Promise!Withdraw
    BY <1>4, <2>1, PromiseWithdraw DEF Hidden
  <2> QED
    BY <2>2 DEF Promise!Next
<1>9. CASE \/ Untouched(k)
           \/ Change(k, -1, 0, 0, 0) /\ Stays(k)
           \/ Change(k, -1, -1, 0, 0) /\ Stays(k)
           \/ Change(k, 0, 1, 0, 0) /\ Missed(k)
           \/ Change(k, 0, 0, -1, 0) /\ Missed(k)
  <2>1. /\ codes'[k].code = codes[k].code /\ grants'[k] = grants[k]
        /\ Cardinality(Pending(k)') <= Cardinality(Pending(k))
    BY <1>5, <1>9 DEF Untouched, Change, Stays, Missed
  <2>2. \A j \in SpentKey : Cardinality(Pending(j)) \in Nat
    BY Countable
  <2>3. Promise!Drop
    BY <1>4, <2>1, <2>2, PromiseDrop DEF Hidden
  <2> QED
    BY <2>3 DEF Promise!Next
<1> QED
  BY <1>3, <1>6, <1>7, <1>8, <1>9 DEF Accounted

LEMMA PromiseStep ==
    TypeOK /\ Staged /\ TypeOK' /\ Staged' /\ UsedOften' /\ [Next]_vars
      => [Promise!Next]_Promise!vars
<1> SUFFICES ASSUME TypeOK, Staged, TypeOK', Staged', UsedOften', [Next]_vars
             PROVE  Promise!Next
  OBVIOUS
<1> SpentKey \subseteq Key
  BY DEF SpentKey, Key, Purpose
<1>1. \A k \in SpentKey : Cardinality(Pending(k)) \in Nat /\ grants[k] \in Nat
  BY Countable
<1>2. ASSUME NEW k \in Key, NEW c \in Code, Issue(k, c) PROVE Promise!Next
  <2>1. /\ codes'[k].code \in Code /\ Cardinality(Pending(k)') = 0 /\ grants'[k] = 0
    BY <1>2, IssueCounts DEF Vacated
  <2>2. \A j \in SpentKey \ {k} : Hidden(j)
    BY <1>2, IssueCounts, UntouchedHidden
  <2>3. CASE k \in SpentKey
    BY <2>1, <2>2, <2>3, PromiseIssue DEF Promise!Next
  <2>4. CASE k \notin SpentKey
    BY <2>2, <2>4, PromiseStill
  <2> QED
    BY <2>3, <2>4
<1>3. ASSUME NEW h \in Handler, Receive(h) \/ (Step(h) /\ KeyOf(h) \notin SpentKey)
      PROVE  Promise!Next
  <2>1. \A j \in SpentKey : Hidden(j)
    BY <1>3, OthersUntouched, UntouchedHidden
  <2> QED
    BY <2>1, PromiseStill
<1>4. CASE Crash
  <2>1. \A k \in SpentKey : /\ codes'[k].code = codes[k].code /\ grants'[k] = grants[k]
                            /\ Cardinality(Pending(k)') <= Cardinality(Pending(k))
    BY <1>1, <1>4, CrashCounts DEF Vacated
  <2>2. Promise!Drop
    BY <2>1, PromiseDrop
  <2> QED
    BY <2>2 DEF Promise!Next
<1>5. CASE Tick \/ UNCHANGED vars
  <2>1. \A k \in SpentKey : /\ codes'[k].code \in {codes[k].code, None}
                            /\ grants'[k] = grants[k]
                            /\ Cardinality(Pending(k)') = Cardinality(Pending(k))
    BY <1>1, <1>5, StillCounts DEF Change
  <2>2. Promise!Withdraw
    BY <2>1, PromiseWithdraw
  <2> QED
    BY <2>2 DEF Promise!Next
<1> QED
  BY <1>2, <1>3, <1>4, <1>5, PromiseHandler DEF Next

(* For every number of handlers, retries and lost deletions: whatever the    *)
(* handlers do with a login or reset code, they admit requests only while it *)
(* is stored, grant only to those they admitted, and do so at most as often  *)
(* as OneTimeCode allows.                                                    *)
THEOREM KeepsPromise == Spec => ImplementsOneTimeCode
<1>1. Init => Promise!Init
  <2> SUFFICES ASSUME Init PROVE Promise!Init
    OBVIOUS
  <2>1. [k \in SpentKey |-> codes[k].code] = [k \in SpentKey |-> None]
    BY DEF Init, NoCode, SpentKey, Key, Purpose
  <2>2. \A k \in SpentKey : Cardinality(Pending(k)) = 0
    <3> TAKE k \in SpentKey
    <3>1. Pending(k) = {}
      BY DEF Init, Pending
    <3> QED
      BY <3>1, FS_EmptySet
  <2>3. [k \in SpentKey |-> grants[k]] = [k \in SpentKey |-> 0]
    BY DEF Init, SpentKey, Key, Purpose
  <2> QED
    BY <2>1, <2>2, <2>3 DEF Promise!Init
<1> QED
  BY <1>1, PromiseStep, UsedAlways, PTL DEF Spec, ImplementsOneTimeCode, Promise!Spec

==============================================================================
