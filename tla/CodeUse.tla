------------------------------- MODULE CodeUse -------------------------------
(***************************************************************************)
(* The handlers of the user service that take a verification code          *)
(* (apps/user/internal/service/auth_service.go): Register, LoginByCode and *)
(* ResetPassword, over the codes in Redis and the rows of user_info        *)
(* (apps/user/internal/repository/auth_repository.go).  Checking a code,   *)
(* acting on it and deleting it are separate calls, and handlers           *)
(* interleave between them.  SendVerifyCode is reduced to its SET; module  *)
(* SendLimit has the rest of it.  VerifyCode only reads, and is no action. *)
(***************************************************************************)
EXTENDS Naturals, Sequences, FiniteSets

CONSTANTS
    Handler,     \* goroutines that serve these calls at the same time
    Op,          \* the calls clients make: "register", "login", "reset"
    Email, Code,
    FirstPassword,  \* those that accounts are registered with
    NewPassword,    \* those that resets ask for
    Phone,       \* telephone numbers, with NoPhone for the optional field left out
    NoPhone,
    None,        \* "no value"
    Seed,        \* what user_info may hold at the start
    CodeTTL,     \* 2 min in the code
    Attempts,    \* times go-redis sends a command: 1 + MaxRetries
    MaxLost,     \* bound: deletions of a code that never take effect
    MaxRows      \* bound: ids given to rows of user_info

(* Code types 1, 2 and 3; no handler takes type 4 (rebind).                  *)
Purpose == {"register", "login", "reset"}
Key == Email \X Purpose

(* Keys of the codes that a handler deletes: Register does not.              *)
SpentKey == Email \X {"login", "reset"}

Password == FirstPassword \cup NewPassword

Row == [email : Email, phone : Phone, pw : Password, disabled : BOOLEAN]

ASSUME UseAssumption ==
    /\ IsFiniteSet(Handler)
    /\ None \notin Code /\ NoPhone \in Phone
    /\ Seed \subseteq Seq(Row)
    /\ CodeTTL \in Nat \ {0} /\ Attempts \in Nat \ {0}
    /\ MaxLost \in Nat /\ MaxRows \in Nat

VARIABLES
    codes,     \* user:verify_code:{email}:{type}
    accounts,  \* the rows of user_info, by primary key, committed or not
    visible,   \* those that are committed; the others are for nobody to see
    pc, req,   \* where each handler is, and the call it serves
    found,     \* the row GetByEmail returned to it
    writing,   \* the row its open transaction has inserted
    attempt,   \* which sending of DEL this is
    (* History, for the properties only. *)
    mailed,    \* codes ever issued under a key
    held,      \* handlers whose code was accepted and has not been issued anew since
    grants,    \* tokens, new passwords and accounts the code of a key has granted
    lost       \* those whose DEL never took effect

history == <<mailed, held, grants, lost>>
table == <<accounts, visible>>
local == <<pc, req, found, writing, attempt>>
vars == <<codes, table, local, history>>

------------------------------------------------------------------------------
StoredCode == [code : Code \cup {None}, ttl : Nat]
NoCode == [code |-> None, ttl |-> 0]
Live(k) == codes[k].code # None

(* The requests of Register, LoginByCode and ResetPassword.                  *)
RegisterCall ==
    [op : {"register"}, email : Email, code : Code, phone : Phone, pw : FirstPassword]
LoginCall == [op : {"login"}, email : Email, code : Code]
ResetCall == [op : {"reset"}, email : Email, code : Code, pw : NewPassword]

Request == {r \in RegisterCall \cup LoginCall \cup ResetCall : r.op \in Op}

(* Mistake: a key without the code type.                                     *)
KeyOfAny(h) == CHOOSE k \in Key : k[1] = req[h].email

(* The Redis key of the code a handler takes. *)
KeyOf(h) == <<req[h].email, req[h].op>>

(* mysql.Build sends reads to the replicas; as none is configured, they are  *)
(* the primary itself, and a query sees every row that is committed.         *)
Readable == visible

RowsOf(e) == {i \in Readable : accounts[i].email = e}

(* Mistake: the newest row of an address instead of the first. *)
GetByEmailLast(e) == CHOOSE i \in RowsOf(e) : \A j \in RowsOf(e) : j <= i

(* GetByEmail: First orders by the primary key. *)
GetByEmail(e) == CHOOSE i \in RowsOf(e) : \A j \in RowsOf(e) : i <= j

------------------------------------------------------------------------------
Stage == {"idle", "lookup", "verify", "delete", "tokens", "update", "create", "commit"}

Init ==
    /\ codes = [k \in Key |-> NoCode]
    /\ accounts \in Seed /\ visible = DOMAIN accounts
    /\ pc = [h \in Handler |-> "idle"]
    /\ req = [h \in Handler |-> None]
    /\ found = [h \in Handler |-> None]
    /\ writing = [h \in Handler |-> None]
    /\ attempt = [h \in Handler |-> 1]
    /\ mailed = [k \in Key |-> {}]
    /\ held = {}
    /\ grants = [k \in Key |-> 0]
    /\ lost = [k \in Key |-> 0]

Goto(h, stage) ==
    pc' = [pc EXCEPT ![h] = stage] /\ UNCHANGED <<req, found, writing, attempt>>

(* Answer the caller: the goroutine is free for another call. *)
Return(h) ==
    /\ pc' = [pc EXCEPT ![h] = "idle"]
    /\ req' = [req EXCEPT ![h] = None]
    /\ found' = [found EXCEPT ![h] = None]
    /\ writing' = [writing EXCEPT ![h] = None]
    /\ attempt' = [attempt EXCEPT ![h] = 1]
    /\ held' = held \ {h}

(* SendVerifyCode stores a code: SET replaces the one before. *)
Issue(k, c) ==
    /\ codes' = [codes EXCEPT ![k] = [code |-> c, ttl |-> CodeTTL]]
    /\ mailed' = [mailed EXCEPT ![k] = @ \cup {c}]
    /\ held' = {h \in held : KeyOf(h) # k}
    /\ grants' = [grants EXCEPT ![k] = 0]
    /\ lost' = [lost EXCEPT ![k] = 0]
    /\ UNCHANGED <<table, local>>

Receive(h) ==
    /\ pc[h] = "idle"
    /\ \E r \in Request :
        /\ req' = [req EXCEPT ![h] = r]
        /\ pc' = [pc EXCEPT ![h] = IF r.op = "register" THEN "verify" ELSE "lookup"]
    /\ UNCHANGED <<codes, table, found, writing, attempt, history>>

(* The rows of transactions that are not committed yet. *)
Open == {writing[h] : h \in {g \in Handler : pc[g] = "commit"}}

(* LoginByCode and ResetPassword find the user first; a login also refuses a *)
(* disabled one.  For FoundStaysFirst, the row is noted with those before it *)
(* that were open at the time.                                               *)
Lookup(h) ==
    /\ pc[h] = "lookup"
    /\ RowsOf(req[h].email) # {}
    /\ LET i == GetByEmail(req[h].email) IN
        /\ ~(req[h].op = "login" /\ accounts[i].disabled)
        /\ found' = [found EXCEPT ![h] =
                        [row |-> i, pw |-> accounts[i].pw,
                         open |-> {j \in Open : j < i}]]
        /\ pc' = [pc EXCEPT ![h] = "verify"]
    /\ UNCHANGED <<codes, table, req, writing, attempt, history>>

(* No such user, a disabled one, or the query fails. *)
LookupRefuses(h) ==
    /\ pc[h] = "lookup"
    /\ Return(h)
    /\ UNCHANGED <<codes, table, mailed, grants, lost>>

(* VerifyVerifyCode: one GET and a comparison.                               *)
Accepts(h) == codes[KeyOf(h)].code = req[h].code

(* A reset to the password found at the lookup ends here. *)
SamePassword(h) == req[h].op = "reset" /\ req[h].pw = found[h].pw

Accept(h) ==
    /\ pc[h] = "verify"
    /\ Accepts(h)
    /\ ~SamePassword(h)
    /\ held' = held \cup {h}
    /\ Goto(h, CASE req[h].op = "register" -> "create"
                 [] req[h].op = "login" -> "delete"
                 [] req[h].op = "reset" -> "update")
    /\ UNCHANGED <<codes, table, mailed, grants, lost>>

(* The code is absent or another, or GET fails, or the new password is the   *)
(* old one.                                                                  *)
VerifyEnds(h) ==
    /\ pc[h] = "verify"
    /\ Return(h)
    /\ UNCHANGED <<codes, table, mailed, grants, lost>>

------------------------------------------------------------------------------
(* Register.  gorm wraps Create in a transaction: BEGIN, INSERT, COMMIT.  The *)
(* INSERT takes the next id, so rows become visible in the order of their    *)
(* commits, which need not be that of their ids.                             *)

(* telephone has a unique index, and so has the uuid, which is new; email    *)
(* has none.  Against the row of an open transaction, INSERT waits.          *)
Taken(phone) == \E i \in visible \cup Open : accounts[i].phone = phone

Insert(h) ==
    /\ pc[h] = "create"
    /\ ~Taken(req[h].phone)
    /\ Len(accounts) < MaxRows
    /\ accounts' = Append(accounts, [email |-> req[h].email, phone |-> req[h].phone,
                                     pw |-> req[h].pw, disabled |-> FALSE])
    /\ writing' = [writing EXCEPT ![h] = Len(accounts) + 1]
    /\ pc' = [pc EXCEPT ![h] = "commit"]
    /\ UNCHANGED <<codes, visible, req, found, attempt, history>>

Granted(h) ==
    grants' = IF h \in held THEN [grants EXCEPT ![KeyOf(h)] = @ + 1] ELSE grants

(* The account is there even if the answer to COMMIT is lost.                *)
Commit(h) ==
    /\ pc[h] = "commit"
    /\ visible' = visible \cup {writing[h]}
    /\ Granted(h)
    /\ Return(h)
    /\ UNCHANGED <<codes, accounts, mailed, lost>>

(* A duplicate key, or the transaction fails and its row will never be seen. *)
(* Without gorm's TranslateError (see pkg/mysql) the service cannot tell     *)
(* them apart, and answers Internal.                                         *)
CreateFails(h) ==
    /\ pc[h] \in {"create", "commit"}
    /\ Return(h)
    /\ UNCHANGED <<codes, table, mailed, grants, lost>>

------------------------------------------------------------------------------
(* Acting on a code and deleting it. *)

(* The code stays although it has been or will be used. *)
Survives(h) ==
    IF h \in held /\ Live(KeyOf(h))
    THEN /\ lost[KeyOf(h)] < MaxLost
         /\ lost' = [lost EXCEPT ![KeyOf(h)] = @ + 1]
    ELSE UNCHANGED lost

(* UpdatePassword on the row that was found. *)
SetPassword(h) ==
    accounts' = [accounts EXCEPT ![found[h].row].pw = req[h].pw]

Update(h) ==
    /\ pc[h] = "update"
    /\ SetPassword(h)
    /\ Granted(h)
    /\ Goto(h, "delete")
    /\ UNCHANGED <<codes, visible, mailed, held, lost>>

(* UPDATE fails, without effect or with only its answer lost: in both cases  *)
(* ResetPassword returns before it deletes the code.                         *)
UpdateFails(h) ==
    /\ pc[h] = "update"
    /\ \/ UNCHANGED <<accounts, grants, lost>>
       \/ SetPassword(h) /\ Granted(h) /\ Survives(h)
    /\ Return(h)
    /\ UNCHANGED <<codes, visible, mailed>>

(* The next commands start with their own first attempt.                     *)
ToTokens(h) ==
    /\ pc' = [pc EXCEPT ![h] = "tokens"]
    /\ attempt' = [attempt EXCEPT ![h] = 1]
    /\ UNCHANGED <<req, found, writing, held>>

(* After DEL, successful or not, a login goes on to its tokens and a reset   *)
(* is done.                                                                  *)
AfterDelete(h) ==
    \/ req[h].op = "login" /\ ToTokens(h)
    \/ req[h].op = "reset" /\ Return(h)

(* Mistake: the retries of DEL are not counted.                              *)
ResendUncounted(h) ==
    UNCHANGED <<local, held>>

(* Mistake: they are not limited.                                            *)
ResendUnlimited(h) ==
    /\ attempt' = [attempt EXCEPT ![h] = @ + 1]
    /\ UNCHANGED <<pc, req, found, writing, held>>

(* The client sends DEL again. *)
Resend(h) ==
    /\ attempt[h] < Attempts
    /\ attempt' = [attempt EXCEPT ![h] = @ + 1]
    /\ UNCHANGED <<pc, req, found, writing, held>>

(* Mistake: DEL names the code of another type. *)
DeleteOther(h) ==
    /\ pc[h] = "delete"
    /\ codes' = [codes EXCEPT ![<<req[h].email, "register">>] = NoCode]
    /\ AfterDelete(h) \/ Resend(h)
    /\ UNCHANGED <<table, mailed, grants, lost>>

(* DeleteVerifyCode: DEL takes the key, whichever code it holds by now.  The *)
(* answer arrives, or is lost.                                               *)
Delete(h) ==
    /\ pc[h] = "delete"
    /\ codes' = [codes EXCEPT ![KeyOf(h)] = NoCode]
    /\ AfterDelete(h) \/ Resend(h)
    /\ UNCHANGED <<table, mailed, grants, lost>>

(* DEL does not reach Redis; the handlers only log a warning. *)
DeleteFails(h) ==
    /\ pc[h] = "delete"
    /\ \/ Resend(h) /\ UNCHANGED lost
       \/ AfterDelete(h) /\ Survives(h)
    /\ UNCHANGED <<codes, table, mailed, grants>>

(* LoginByCode writes the token pair and the session, and answers.  Once the *)
(* access token is in Redis, later failures do not take it back.             *)
Tokens(h) ==
    /\ pc[h] = "tokens"
    /\ Granted(h)
    /\ Return(h)
    /\ UNCHANGED <<codes, table, mailed, lost>>

(* Signing the token or writing it fails: the login fails, the code is spent. *)
TokensFail(h) ==
    /\ pc[h] = "tokens"
    /\ Return(h)
    /\ UNCHANGED <<codes, table, mailed, grants, lost>>

------------------------------------------------------------------------------
(* Resets that changed the password and have not deleted their code yet. *)
Deleting(k) ==
    {h \in held : pc[h] = "delete" /\ req[h].op = "reset" /\ KeyOf(h) = k}

(* The service process dies; Redis and MySQL keep what they have. *)
Crash ==
    /\ lost' = [k \in Key |-> lost[k] + IF Live(k) THEN Cardinality(Deleting(k)) ELSE 0]
    /\ \A k \in Key : lost'[k] <= MaxLost
    /\ pc' = [h \in Handler |-> "idle"]
    /\ req' = [h \in Handler |-> None]
    /\ found' = [h \in Handler |-> None]
    /\ writing' = [h \in Handler |-> None]
    /\ attempt' = [h \in Handler |-> 1]
    /\ held' = {}
    /\ UNCHANGED <<codes, table, mailed, grants>>

Aged(key) == IF key.ttl > 1 THEN [key EXCEPT !.ttl = @ - 1] ELSE NoCode

Tick ==
    /\ codes' = [k \in Key |-> Aged(codes[k])]
    /\ UNCHANGED <<table, local, history>>

Step(h) ==
    \/ Lookup(h) \/ LookupRefuses(h)
    \/ Accept(h) \/ VerifyEnds(h)
    \/ Insert(h) \/ Commit(h) \/ CreateFails(h)
    \/ Update(h) \/ UpdateFails(h)
    \/ Delete(h) \/ DeleteFails(h)
    \/ Tokens(h) \/ TokensFail(h)

Next ==
    \/ \E k \in Key, c \in Code : Issue(k, c)
    \/ Crash \/ Tick
    \/ \E h \in Handler : Receive(h) \/ Step(h)

Spec == Init /\ [][Next]_vars

------------------------------------------------------------------------------
TypeOK ==
    /\ codes \in [Key -> StoredCode]
    /\ accounts \in Seq(Row) /\ visible \subseteq DOMAIN accounts
    /\ pc \in [Handler -> Stage]
    /\ req \in [Handler -> Request \cup {None}]
    /\ found \in [Handler -> [row : Nat, pw : Password, open : SUBSET Nat] \cup {None}]
    /\ writing \in [Handler -> DOMAIN accounts \cup {None}]
    /\ attempt \in [Handler -> 1..Attempts]
    /\ mailed \in [Key -> SUBSET Code]
    /\ held \subseteq Handler
    /\ grants \in [Key -> Nat]
    /\ lost \in [Key -> 0..MaxLost]
    /\ \A h \in Handler : pc[h] # "idle" => req[h] \in Request
    /\ \A h \in Handler : pc[h] \in {"delete", "tokens"} => req[h].op \in {"login", "reset"}

(* Handlers past the check of the present code of k that may still grant. *)
Pending(k) ==
    {h \in held : /\ KeyOf(h) = k
                  /\ \/ pc[h] \in {"update", "tokens"}
                     \/ pc[h] = "delete" /\ req[h].op = "login"}

(* A login or reset code that is still stored has granted nothing and will   *)
(* not be granted from after its deletion, but for deletions that never took *)
(* effect and resets about to delete it: "delete the code, prevent its       *)
(* reuse" (auth_service.go:315 and 711) for every order of the calls.  It    *)
(* says nothing of registration codes, which nobody deletes.                 *)
UsedMeansDeleted ==
    \A k \in SpentKey : Live(k) =>
        grants[k] + Cardinality({h \in Pending(k) : pc[h] = "tokens"})
            <= lost[k] + Cardinality(Deleting(k))

(* LoginByCode and ResetPassword check a code and delete it in two steps, so *)
(* it may be used twice; but never more often than handlers run at the same  *)
(* time, plus the deletions that were lost.  A registration code has no such *)
(* bound (see SomeCodeIsOneTime).                                            *)
UseBound ==
    \A k \in SpentKey :
        grants[k] + Cardinality(Pending(k)) <= Cardinality(Handler) + lost[k]

(* A token, a new password or an account is only ever granted to a code that *)
(* was issued to that address for that purpose.                              *)
OnlyMailedCodes ==
    \A h \in Handler : pc[h] \in {"delete", "tokens", "update", "create", "commit"} =>
        req[h].code \in mailed[<<req[h].email,
                                CASE pc[h] \in {"create", "commit"} -> "register"
                                  [] pc[h] = "update" -> "reset"
                                  [] OTHER -> req[h].op>>]

(* The row a login or a reset acts on is still the one its address names,    *)
(* whatever was registered since the lookup (auth_service.go:655).  The only *)
(* rows that may come before it are those of registrations whose COMMIT was  *)
(* outstanding at the lookup.                                                *)
FoundStaysFirst ==
    \A h \in Handler : found[h] # None =>
        /\ found[h].row \in RowsOf(req[h].email)
        /\ \A i \in RowsOf(req[h].email) \ found[h].open : found[h].row <= i

(* The codes handlers delete are limited-use codes in the abstract sense.    *)
Promise == INSTANCE OneTimeCode WITH
    Key <- SpentKey,
    stored <- [k \in SpentKey |-> codes[k].code],
    pending <- [k \in SpentKey |-> Cardinality(Pending(k))],
    uses <- [k \in SpentKey |-> grants[k]],
    Limit <- Cardinality(Handler) + MaxLost

ImplementsOneTimeCode == Promise!Spec

(* How far a stage is from the answer. *)
Distance ==
    [idle |-> 0, tokens |-> 1, commit |-> 1, delete |-> 2, update |-> 3, create |-> 3,
     verify |-> 4, lookup |-> 5]

(* Every step of a call brings it nearer to its answer, retries of DEL       *)
(* included: no order of failures, retries and other calls keeps one in the  *)
(* service, whose Redis commands all end (after 50 ms and its retries,       *)
(* main.go:49-50).                                                           *)
StepsLeadToAnswer ==
    [][\A h \in Handler :
         \/ Distance[pc'[h]] < Distance[pc[h]]
         \/ Distance[pc'[h]] = Distance[pc[h]] /\ attempt'[h] > attempt[h]
         \/ ~ Step(h)]_vars

(* DEL names the key and not the code, so a handler may delete a code newer  *)
(* than the one it accepted (auth_service.go:316, 711).  But a code only     *)
(* ever goes by its expiry, or by a login or a reset that itself has a code  *)
(* mailed to that address for that purpose: no sequence of calls with wrong  *)
(* codes, or for another purpose, takes one from its addressee.              *)
OnlyAddresseesDelete ==
    [][\A k \in Key : Live(k) /\ codes'[k].code = None =>
         \/ codes[k].ttl <= 1 /\ UNCHANGED local
         \/ \E h \in Handler : /\ pc[h] = "delete" /\ k = <<req[h].email, req[h].op>>
                               /\ req[h].code \in mailed[k]]_vars

(* What auth_service.go:315 says of the deletion after a code was accepted,  *)
(* "consume the code, prevent its reuse", and doc/agent_skills.md:143 asks   *)
(* for after every validation: a code grants once, unless a deletion was     *)
(* lost.                                                                     *)
OneTime(purpose) ==
    \A e \in Email : lost[<<e, purpose>>] = 0 => grants[<<e, purpose>>] <= 1

(* ... asked here of one purpose at least, so that the behaviour that breaks *)
(* it shows both: two logins at the same time, and Register, which deletes   *)
(* no code at all.                                                           *)
SomeCodeIsOneTime == \E purpose \in {"login", "register"} : OneTime(purpose)

(* doc/user_doc/01: telephone is optional and 11002 means the user exists. A *)
(* registration without a telephone of an address nobody has registered      *)
(* meets no duplicate key.                                                   *)
NewcomersNeedNoPhone ==
    \A h \in Handler :
        pc[h] = "create" /\ req[h].phone = NoPhone /\ RowsOf(req[h].email) = {}
            => ~Taken(NoPhone)

==============================================================================
