---------------------------- MODULE DeviceTokens ----------------------------
(***************************************************************************)
(* The token pair of a device: the part of Login and LoginByCode that      *)
(* follows the credentials, RefreshToken and Logout                        *)
(* (apps/user/internal/service/auth_service.go), over the two Redis keys   *)
(* and the device_session row of a user's device                           *)
(* (apps/user/internal/repository/device_repository.go).  The access token *)
(* is a JWT, valid on its own for AccessExpire; the refresh token is an    *)
(* opaque id.  Each key is written by a command of its own, and handlers   *)
(* interleave between them.                                                *)
(***************************************************************************)
EXTENDS Naturals, FiniteSets

CONSTANTS
    Handler,     \* goroutines that serve these calls at the same time
    User, Device,
    Name,        \* what a client calls its device; "Unknown" when it says nothing
    Refresh,     \* refresh tokens: snowflake ids (bound: how many exist at once)
    None,
    AccessTTL,   \* 2 h in the code
    RefreshTTL,  \* 7 d
    Attempts     \* times go-redis sends a command: 1 + MaxRetries

ASSUME TokenAssumption ==
    /\ IsFiniteSet(Handler)
    /\ None \notin Refresh \cup User \cup Device
    /\ AccessTTL \in Nat \ {0} /\ RefreshTTL \in Nat /\ AccessTTL < RefreshTTL
    /\ Attempts \in Nat \ {0}

(* The user service finds no device id in its context (the gateway sends no  *)
(* metadata), so that the device's name stands for it.                       *)
Key == User \X Name

VARIABLES
    at,       \* auth:at:{user}:{device}: the digest of an access token
    rt,       \* auth:rt:{user}:{device}: a refresh token
    row,      \* device_session by (user, device): the device that wrote it last
    wallet,   \* the pair a device was last given
    pc, req,  \* where each handler is, and the call it serves
    pair,     \* the pair it has made
    attempt,  \* which sending of its command this is
    (* History, for the properties only. *)
    clash,    \* handlers that were not alone on their key since they signed
    stands    \* the last login of a key that was alone, if none has begun since

history == <<clash, stands>>
local == <<pc, req, pair, attempt>>
vars == <<at, rt, row, wallet, local, history>>

------------------------------------------------------------------------------
(* GenerateToken: claims and times, with a resolution of one tick, so that   *)
(* two tokens of a device signed in one tick are the same string.  `left` is *)
(* how long the token is still valid.                                        *)
Access == [user : User, name : Name, left : 0..AccessTTL]

(* A snowflake id is never the text of a JWT.                                *)
ASSUME OpaqueAssumption == Access \cap (Refresh \cup {None}) = {}

(* ParseToken: an opaque id is no JWT; a JWT is good until it expires.       *)
Parses(t) == t \notin Refresh \cup {None} /\ t.left > 0

Pair == [access : Access, refresh : Refresh \cup {None}]
NoPair == [access |-> None, refresh |-> None]

NoAccess == [tok |-> None, ttl |-> 0, by |-> None]
NoRefresh == [id |-> None, ttl |-> 0]
NoLogin == [id |-> None, device |-> None]

(* The calls, as the gateway hands them on.  A login has the name of the     *)
(* device in it, and never its id; the `device` is for the properties.       *)
LoginCall == [op : {"login"}, user : User, device : Device, name : Name]
RefreshCall == [op : {"refresh"}, token : Access \cup Refresh]
LogoutCall == [op : {"logout"}, name : Name]
Request == LoginCall \cup RefreshCall \cup LogoutCall

(* A row of device_session, of which only matters who wrote it last.         *)
Session == Device \cup {None}

(* The Redis keys and the row a call works on: a login's by its device name, *)
(* a refresh's by the claims.                                                *)
KeyOf(h) == IF req[h].op = "login" THEN <<req[h].user, req[h].name>>
            ELSE <<req[h].token.user, req[h].token.name>>

Writing(k) == {h \in Handler : pc[h] \in {"access", "refresh", "row"} /\ KeyOf(h) = k}

InUse ==
    {at[k].by : k \in Key} \cup {rt[k].id : k \in Key} \cup {stands[k].id : k \in Key}
    \cup {wallet[d].refresh : d \in Device} \cup {pair[h].refresh : h \in Handler}
    \cup {req[h].token : h \in {g \in Handler : pc[g] \in {"parse", "compare"}}}

------------------------------------------------------------------------------
Init ==
    /\ at = [k \in Key |-> NoAccess]
    /\ rt = [k \in Key |-> NoRefresh]
    /\ row = [k \in Key |-> None]
    /\ wallet = [d \in Device |-> NoPair]
    /\ pc = [h \in Handler |-> "idle"]
    /\ req = [h \in Handler |-> None]
    /\ pair = [h \in Handler |-> NoPair]
    /\ attempt = [h \in Handler |-> 1]
    /\ clash = {}
    /\ stands = [k \in Key |-> NoLogin]

Goto(h, stage) ==
    /\ pc' = [pc EXCEPT ![h] = stage]
    /\ attempt' = [attempt EXCEPT ![h] = 1]
    /\ UNCHANGED req

(* Answer the caller: the goroutine is free for another call. *)
Return(h) ==
    /\ pc' = [pc EXCEPT ![h] = "idle"]
    /\ req' = [req EXCEPT ![h] = None]
    /\ pair' = [pair EXCEPT ![h] = NoPair]
    /\ attempt' = [attempt EXCEPT ![h] = 1]
    /\ clash' = clash \ {h}

(* A login; a refresh with one of the tokens a device was given; or a logout *)
(* that the gateway let through with a valid access token.                   *)
Receive(h) ==
    /\ pc[h] = "idle"
    /\ \/ \E r \in LoginCall :
            /\ req' = [req EXCEPT ![h] = r]
            /\ pc' = [pc EXCEPT ![h] = "check"]
       \/ \E d \in Device : \E t \in {wallet[d].access, wallet[d].refresh} \ {None} :
            /\ req' = [req EXCEPT ![h] = [op |-> "refresh", token |-> t]]
            /\ pc' = [pc EXCEPT ![h] = "parse"]
       \/ \E d \in Device, n \in Name :
            /\ Parses(wallet[d].access)
            /\ req' = [req EXCEPT ![h] = [op |-> "logout", name |-> n]]
            /\ pc' = [pc EXCEPT ![h] = "user"]
    /\ UNCHANGED <<at, rt, row, wallet, pair, attempt, history>>

------------------------------------------------------------------------------
(* Login and LoginByCode. *)

(* No such user, a disabled one, a wrong password or code, a failing query.  *)
Refuse(h) ==
    /\ pc[h] = "check"
    /\ Return(h)
    /\ UNCHANGED <<at, rt, row, wallet, stands>>

(* The credentials are good: the pair is made.                               *)
Sign(h) ==
    /\ pc[h] = "check"
    /\ \E id \in Refresh \ InUse :
         pair' = [pair EXCEPT ![h] =
                    [access |-> [user |-> req[h].user, name |-> req[h].name,
                                 left |-> AccessTTL],
                     refresh |-> id]]
    /\ Goto(h, "access")
    /\ LET others == Writing(KeyOf(h)) IN
         clash' = IF others = {} THEN clash ELSE clash \cup others \cup {h}
    /\ stands' = [stands EXCEPT ![KeyOf(h)] = NoLogin]
    /\ UNCHANGED <<at, rt, row, wallet>>

(* Mistake: the access key lives as long as the one before had left.         *)
SetAccessKeepTTL(h) ==
    at' = [at EXCEPT ![KeyOf(h)] =
             [tok |-> pair[h].access, by |-> pair[h].refresh,
              ttl |-> IF @.ttl > 0 THEN @.ttl ELSE AccessTTL]]

(* Mistake: the access key gets the refresh token's expiry.                  *)
SetAccessLong(h) ==
    at' = [at EXCEPT ![KeyOf(h)] =
             [tok |-> pair[h].access, ttl |-> RefreshTTL, by |-> pair[h].refresh]]

(* SET of the token's digest, with its expiry.                               *)
SetAccess(h) ==
    at' = [at EXCEPT ![KeyOf(h)] =
             [tok |-> pair[h].access, ttl |-> AccessTTL, by |-> pair[h].refresh]]

(* Mistake: the refresh token gets the access token's expiry.                *)
SetRefreshShort(h) ==
    rt' = [rt EXCEPT ![KeyOf(h)] = [id |-> pair[h].refresh, ttl |-> AccessTTL]]

SetRefresh(h) ==
    rt' = [rt EXCEPT ![KeyOf(h)] = [id |-> pair[h].refresh, ttl |-> RefreshTTL]]

Write(h) ==
    \/ pc[h] = "access" /\ SetAccess(h) /\ UNCHANGED rt
    \/ pc[h] = "refresh" /\ SetRefresh(h) /\ UNCHANGED at

(* StoreAccessToken, after which a login goes on and a refresh is done;      *)
(* StoreRefreshToken.                                                        *)
Store(h) ==
    /\ Write(h)
    /\ IF req[h].op = "refresh" THEN Return(h)
       ELSE /\ Goto(h, IF pc[h] = "access" THEN "refresh" ELSE "row")
            /\ UNCHANGED <<pair, clash>>
    /\ UNCHANGED <<row, wallet, stands>>

(* The command runs, its reply is lost, and go-redis sends it again.         *)
StoreAgain(h) ==
    /\ Write(h)
    /\ attempt[h] < Attempts
    /\ attempt' = [attempt EXCEPT ![h] = @ + 1]
    /\ UNCHANGED <<row, wallet, pc, req, pair, history>>

(* Mistake: a failing SET is only logged, like the session's.                *)
StoreFailsOn(h) ==
    /\ pc[h] \in {"access", "refresh"}
    /\ Goto(h, IF pc[h] = "access" THEN "refresh" ELSE "row")
    /\ UNCHANGED <<at, rt, row, wallet, pair, history>>

(* The command fails, with or without effect: the call fails, and what was   *)
(* written stays.                                                            *)
StoreFails(h) ==
    /\ pc[h] \in {"access", "refresh"}
    /\ Write(h) \/ UNCHANGED <<at, rt>>
    /\ Return(h)
    /\ UNCHANGED <<row, wallet, stands>>

(* The login is answered; the answer may not reach the device. *)
AnswerLogin(h, listed) ==
    /\ wallet' \in {wallet, [wallet EXCEPT ![req[h].device] = pair[h]]}
    /\ stands' = IF h \in clash THEN stands
                 ELSE [stands EXCEPT ![KeyOf(h)] = [id |-> pair[h].refresh,
                                                    device |-> listed]]
    /\ Return(h)

(* UpsertSession, keyed like the tokens. *)
SaveSession(h) ==
    /\ pc[h] = "row"
    /\ row' = [row EXCEPT ![KeyOf(h)] = req[h].device]
    /\ AnswerLogin(h, req[h].device)
    /\ UNCHANGED <<at, rt>>

(* A failure of it is only logged, whether or not the row was written. *)
SaveFails(h) ==
    /\ pc[h] = "row"
    /\ row' \in {row, [row EXCEPT ![KeyOf(h)] = req[h].device]}
    /\ AnswerLogin(h, None)
    /\ UNCHANGED <<at, rt>>

------------------------------------------------------------------------------
(* RefreshToken. *)

Parse(h) ==
    /\ pc[h] = "parse"
    /\ IF Parses(req[h].token) THEN Goto(h, "compare") /\ UNCHANGED <<pair, clash>>
       ELSE Return(h)
    /\ UNCHANGED <<at, rt, row, wallet, stands>>

(* GetRefreshToken fails or finds nothing, or finds another token; or the    *)
(* one presented, and a new access token is signed.                          *)
Compare(h) ==
    /\ pc[h] = "compare"
    /\ IF rt[KeyOf(h)].id = req[h].token
       THEN /\ pair' = [pair EXCEPT ![h] =
                          [access |-> [req[h].token EXCEPT !.left = AccessTTL],
                           refresh |-> None]]
            /\ Goto(h, "access")
            /\ UNCHANGED clash
       ELSE Return(h)
    /\ UNCHANGED <<at, rt, row, wallet, stands>>

------------------------------------------------------------------------------
(* Logout. *)

(* ctx.Value("user_uuid") in the user service: the gateway puts the user in  *)
(* its own context, gRPC carries metadata only, and no interceptor sets it.  *)
ContextUser == None

(* One pipeline of two DELs. *)
DeleteTokens(k) ==
    /\ at' = [at EXCEPT ![k] = NoAccess]
    /\ rt' = [rt EXCEPT ![k] = NoRefresh]

(* Without a user the call fails; with one, the keys of the device id in the *)
(* request would go.                                                         *)
EndSession(h) ==
    /\ pc[h] = "user"
    /\ IF ContextUser = None THEN UNCHANGED <<at, rt>>
       ELSE DeleteTokens(<<ContextUser, req[h].name>>)
    /\ Return(h)
    /\ UNCHANGED <<row, wallet, stands>>

------------------------------------------------------------------------------
(* The service process dies; Redis and MySQL keep what they have. *)
Crash ==
    /\ pc' = [h \in Handler |-> "idle"]
    /\ req' = [h \in Handler |-> None]
    /\ pair' = [h \in Handler |-> NoPair]
    /\ attempt' = [h \in Handler |-> 1]
    /\ clash' = {}
    /\ UNCHANGED <<at, rt, row, wallet, stands>>

Older(t) == IF t \in Refresh \cup {None} \/ t.left = 0 THEN t ELSE [t EXCEPT !.left = @ - 1]

OlderPair(p) == [p EXCEPT !.access = Older(@)]

(* Keys and tokens age. *)
Tick ==
    /\ at' = [k \in Key |-> IF at[k].ttl > 1
                            THEN [at[k] EXCEPT !.ttl = @ - 1, !.tok = Older(@)]
                            ELSE NoAccess]
    /\ rt' = [k \in Key |-> IF rt[k].ttl > 1 THEN [rt[k] EXCEPT !.ttl = @ - 1]
                            ELSE NoRefresh]
    /\ wallet' = [d \in Device |-> OlderPair(wallet[d])]
    /\ pair' = [h \in Handler |-> OlderPair(pair[h])]
    /\ req' = [h \in Handler |->
                 IF pc[h] \in {"parse", "compare"}
                 THEN [req[h] EXCEPT !.token = Older(@)] ELSE req[h]]
    /\ UNCHANGED <<row, pc, attempt, history>>

Next ==
    \/ Crash \/ Tick
    \/ \E h \in Handler :
        \/ Receive(h) \/ Refuse(h) \/ Sign(h)
        \/ Store(h) \/ StoreAgain(h) \/ StoreFails(h)
        \/ SaveSession(h) \/ SaveFails(h)
        \/ Parse(h) \/ Compare(h) \/ EndSession(h)

Spec == Init /\ [][Next]_vars

------------------------------------------------------------------------------
TypeOK ==
    /\ at \in [Key -> [tok : Access \cup {None}, ttl : 0..AccessTTL,
                       by : Refresh \cup {None}]]
    /\ rt \in [Key -> [id : Refresh \cup {None}, ttl : 0..RefreshTTL]]
    /\ row \in [Key -> Session]
    /\ wallet \in [Device -> Pair \cup {NoPair}]
    /\ pc \in [Handler -> {"idle", "check", "access", "refresh", "row", "parse",
                           "compare", "user"}]
    /\ req \in [Handler -> Request \cup {None}]
    /\ pair \in [Handler -> Pair \cup {NoPair}]
    /\ attempt \in [Handler -> 1..Attempts]
    /\ clash \subseteq Handler
    /\ stands \in [Key -> [id : Refresh \cup {None}, device : Device \cup {None}]]

(* A login that was alone on its key, from signing to its answer, stands     *)
(* until the next one begins: whatever the handlers before it left behind,   *)
(* had half done or died in, both keys hold its pair or have expired, and    *)
(* the row names its device unless just that write failed.                   *)
AnsweredLoginStands ==
    \A k \in Key : stands[k].id # None =>
        /\ at[k].by \in {stands[k].id, None}
        /\ rt[k].id \in {stands[k].id, None}
        /\ stands[k].device \in {row[k], None}

(* A device that was given the standing pair still has its refresh key when  *)
(* its access key goes: that is the time the refresh token is for            *)
(* (jwt.go:14-15).                                                           *)
RefreshOutlivesAccess ==
    \A k \in Key : stands[k].id # None /\ at[k].tok # None => rt[k].ttl > at[k].ttl

(* A stored token that is still valid as a JWT stays stored as long as it is *)
(* valid, whenever it was signed and however often SET was sent: only        *)
(* another write can make the two checks of a token disagree.                *)
KeyOutlivesToken ==
    \A k \in Key : at[k].tok # None => at[k].tok.left <= at[k].ttl

(* doc/API接口规范.md:228: "when the access token has expired, get a new one *)
(* with the refresh token"; auth_service.go:596: Logout "deletes the access  *)
(* and the refresh token".  A device that holds its session can end it or    *)
(* renew it: when it presents the refresh token that is stored, and logs out *)
(* with a valid access token, at least one of the two calls gets past its    *)
(* first check.                                                              *)
SomeSessionCallWorks ==
    \A g, h \in Handler :
        /\ pc[g] = "parse" /\ (\E k \in Key : rt[k].id = req[g].token)
        /\ pc[h] = "user"
        => Parses(req[g].token) \/ ContextUser # None

==============================================================================
