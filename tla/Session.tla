------------------------------ MODULE Session ------------------------------
(***************************************************************************)
(* The sessions of one account, as the auth service keeps them: a hashed   *)
(* refresh token in its row, access tokens nobody keeps, and a Redis entry *)
(* that refuses the account for a while after its removal.                 *)
(*                                                                         *)
(* A token is what it says: a refresh token the second of its issue, an    *)
(* access token that second and the role of the account when the call that *)
(* issued it read the row.  A client may present any refresh token, and the  *)
(* access token it holds; the browser is SessionRefresh.                   *)
(***************************************************************************)
EXTENDS Naturals

CONSTANTS
    Calls,          \* logins, refreshes and logouts under way
    Requests,       \* requests of any other endpoint under way
    Tabs,           \* clients, each with an access token in its memory
    Roles,
    AccessLives,    \* JWT_ACCESS_EXPIRES_IN: the lifetimes a deployment may choose
    RefreshLife,    \* JWT_REFRESH_EXPIRES_IN
    BlacklistLife,  \* the entry that follows a removal
    MaxClock,       \* bound: seconds
    None

ASSUME SessionAssumption ==
    /\ AccessLives \subseteq Nat
    /\ RefreshLife \in Nat /\ BlacklistLife \in Nat /\ MaxClock \in Nat
    /\ None \notin Nat /\ None \notin Roles

VARIABLES
    clock,       \* seconds, what iat and exp are counted in
    accessLife,  \* the lifetime in force
    account,     \* the row
    blackUntil,  \* when the Redis entry ends
    removal,     \* how far the removal of the account has come
    call,        \* each login, refresh or logout
    request,     \* each other request
    accessToken, \* the access token each client holds (auth-session.ts)
    had,         \* history: when the account last ceased to be active in a role
    newest,      \* history: the youngest refresh token whose hash was stored
    removedAt,   \* history: when the last removal changed the row
    revivedAt,   \* history: when the row was first active again after that
    alone        \* history: calls that write the row have never overlapped

row == <<account, had, newest>>
admin == <<blackUntil, removal, removedAt, revivedAt>>
vars == <<clock, accessLife, row, admin, call, request, accessToken, alone>>

Seconds == 0..MaxClock
RefreshTokens == Seconds
AccessTokens == [iat : Seconds, role : Roles, read : Seconds]
Executing == {"sent", "minting", "storing", "anchoring"}
Ended == {"ok", "refused", "failed"}

\* ACTIVE is a row with isActive too; PASSBLOCK stands for every other row that
\* is not REVOKED: one that is PENDING, or not isActive, is refused like it.
Statuses == {"ACTIVE", "PASSBLOCK", "REVOKED"}

TypeOK ==
    /\ clock \in Seconds
    /\ accessLife \in AccessLives
    /\ account \in [status : Statuses, role : Roles, hash : RefreshTokens \cup {None}]
    /\ blackUntil \in Nat
    /\ removal \in {"none", "row", "listed", "failed"}
    /\ call \in [Calls -> [kind : {"login", "refresh", "logout"},
                           pc : Executing \cup Ended \cup {"free"},
                           token : RefreshTokens \cup {None},
                           role : Roles \cup {None}, read : Seconds, iat : Seconds]]
    /\ request \in [Requests -> [pc : {"free", "sent", "served", "unauthorized"},
                                 token : AccessTokens \cup {None}]]
    /\ accessToken \in [Tabs -> AccessTokens \cup {None}]
    /\ had \in [Roles -> Seconds \cup {None}]
    /\ newest \in RefreshTokens \cup {None}
    /\ removedAt \in Seconds \cup {None}
    /\ revivedAt \in Seconds \cup {None}
    /\ alone \in BOOLEAN

NoCall == [kind |-> "login", pc |-> "free", token |-> None, role |-> None,
           read |-> 0, iat |-> 0]
NoRequest == [pc |-> "free", token |-> None]

\* An account that was approved and has not signed in.
Init ==
    /\ clock = 0
    /\ accessLife \in AccessLives
    /\ account \in [status : {"ACTIVE"}, role : Roles, hash : {None}]
    /\ call = [c \in Calls |-> NoCall]
    /\ blackUntil = 0
    /\ removal = "none"
    /\ request = [q \in Requests |-> NoRequest]
    /\ accessToken = [t \in Tabs |-> None]
    /\ had = [r \in Roles |-> None]
    /\ newest = None
    /\ removedAt = None
    /\ revivedAt = None
    /\ alone = TRUE

Open == {c \in Calls : call[c].pc # "free"}
Goto(c, l) == call' = [call EXCEPT ![c].pc = l]
GiveUp(c, l) == call' = [call EXCEPT ![c] = [NoCall EXCEPT !.kind = call[c].kind, !.pc = l]]
Alive(iat, life) == clock < iat + life

\* what validateUser, refreshTokens and the recovery ask of a row
Active(u) == u.status = "ACTIVE"
InRole(u, r) == Active(u) /\ u.role = r

\* the row becomes u, and the history what that makes it
Becomes(u) ==
    /\ account' = u
    /\ had' = [r \in Roles |-> IF InRole(account, r) /\ ~InRole(u, r) THEN clock ELSE had[r]]
Write(u) ==
    /\ Becomes(u)
    /\ revivedAt' = IF removedAt # None /\ revivedAt = None /\ Active(u) THEN clock
                    ELSE revivedAt

Tick ==
    /\ clock < MaxClock
    /\ clock' = clock + 1
    /\ UNCHANGED <<accessLife, row, admin, call, request, accessToken, alone>>

-----------------------------------------------------------------------------
(* Variants with a bug the code could have, no part of Next.                *)

\* findAuthUserById finds the account and its hash is not compared
MayRefreshAny(c) == call[c].token # None /\ Active(account) /\ account.hash # None

\* ignoreExpiration: true
ValidForEver(token) == token # None /\ clock >= blackUntil

\* the lifetime of the entry is passed in the wrong unit
BlacklistBriefly ==
    /\ removal = "row"
    /\ blackUntil' = clock /\ removal' = "listed"
    /\ UNCHANGED <<clock, accessLife, row, removedAt, revivedAt, call, request, accessToken,
                   alone>>

-----------------------------------------------------------------------------
(* login, refresh and logout                                                *)

\* A client calls; token is its refresh token, None when it has none.
Send(c, kind, token) ==
    /\ call[c].pc = "free"
    /\ call' = [call EXCEPT ![c] = [@ EXCEPT !.kind = kind, !.pc = "sent", !.token = token]]
    /\ alone' = (alone /\ Open = {})
    /\ UNCHANGED <<clock, accessLife, row, admin, request, accessToken>>

\* resolveUserIdFromRefreshToken: the signature and the times, no row
Resolves(c) == call[c].token # None /\ Alive(call[c].token, RefreshLife)

\* validateUser, and findAuthUserById with the tests that follow it
MaySignIn(c) == Active(account)
MayRefresh(c) ==
    /\ Resolves(c)
    /\ Active(account)
    /\ account.hash = call[c].token

Read(c) ==
    /\ call[c].pc = "sent"
    /\ \/ call[c].kind = "login" /\ MaySignIn(c)
       \/ call[c].kind = "refresh" /\ MayRefresh(c)
    /\ call' = [call EXCEPT ![c] = [@ EXCEPT !.pc = "minting", !.token = None,
                                             !.role = account.role, !.read = clock]]
    /\ UNCHANGED <<clock, accessLife, row, admin, request, accessToken, alone>>

\* a wrong password is a login refused whatever the account
Refuse(c) ==
    /\ call[c].pc = "sent"
    /\ \/ call[c].kind = "login"
       \/ call[c].kind = "refresh" /\ ~MayRefresh(c)
       \/ call[c].kind = "logout" /\ ~Resolves(c)
    /\ GiveUp(c, "refused")
    /\ UNCHANGED <<clock, accessLife, row, admin, request, accessToken, alone>>

\* generateTokens, from the row as it was read
Mint(c) ==
    /\ call[c].pc = "minting"
    /\ call' = [call EXCEPT ![c] = [@ EXCEPT !.pc = "storing", !.iat = clock]]
    /\ UNCHANGED <<clock, accessLife, row, admin, request, accessToken, alone>>

\* updateRefreshToken writes by id; a login then anchors AUTH_LOGIN
StoreHash(c) ==
    /\ call[c].pc = "storing"
    /\ account' = [account EXCEPT !.hash = call[c].iat]
    /\ newest' = IF newest = None \/ newest < call[c].iat THEN call[c].iat ELSE newest
    /\ Goto(c, IF call[c].kind = "login" THEN "anchoring" ELSE "ok")
    /\ UNCHANGED <<clock, accessLife, had, admin, request, accessToken, alone>>

ClearHash(c) ==
    /\ call[c].pc = "sent" /\ call[c].kind = "logout" /\ Resolves(c)
    /\ account' = [account EXCEPT !.hash = None]
    /\ Goto(c, "anchoring")
    /\ UNCHANGED <<clock, accessLife, had, newest, admin, request, accessToken, alone>>

Anchored(c) ==
    /\ call[c].pc = "anchoring"
    /\ Goto(c, "ok")
    /\ UNCHANGED <<clock, accessLife, row, admin, request, accessToken, alone>>

\* The database or the anchoring throws, or the service restarts.
Fail(c) ==
    /\ call[c].pc \in Executing
    /\ GiveUp(c, "failed")
    /\ UNCHANGED <<clock, accessLife, row, admin, request, accessToken, alone>>

Free(c) ==
    /\ call[c].pc \in Ended
    /\ call' = [call EXCEPT ![c] = NoCall]
    /\ UNCHANGED <<clock, accessLife, row, admin, request, alone>>

\* the client of tab t keeps the new token; or it has none, or drops the answer
Issued(c) == [iat |-> call[c].iat, role |-> call[c].role, read |-> call[c].read]
Take(c, t) == call[c].pc = "ok" /\ accessToken' = [accessToken EXCEPT ![t] = Issued(c)]
Forget(t) == accessToken' = [accessToken EXCEPT ![t] = None]

Serve(c) == Read(c) \/ Refuse(c) \/ Mint(c) \/ StoreHash(c) \/ ClearHash(c) \/ Anchored(c)

-----------------------------------------------------------------------------
(* Every other endpoint: JwtStrategy                                        *)

SendRequest(q, t) ==
    /\ request[q].pc = "free"
    /\ request' = [request EXCEPT ![q] = [pc |-> "sent", token |-> accessToken[t]]]
    /\ UNCHANGED <<clock, accessLife, row, admin, call, accessToken, alone>>

Blacklisted == clock < blackUntil
Valid(token) == token # None /\ Alive(token.iat, accessLife) /\ ~Blacklisted

\* RolesGuard then looks at token.role; 403 and 200 are both a request served
Check(q) ==
    /\ request[q].pc = "sent"
    /\ request' = [request EXCEPT ![q].pc =
                       IF Valid(request[q].token) THEN "served" ELSE "unauthorized"]
    /\ UNCHANGED <<clock, accessLife, row, admin, call, accessToken, alone>>

ReceiveRequest(q) ==
    /\ request[q].pc \in {"served", "unauthorized"}
    /\ request' = [request EXCEPT ![q] = NoRequest]
    /\ UNCHANGED <<clock, accessLife, row, admin, call, accessToken, alone>>

\* What clients do: the JavaScript between two awaits may send and receive
\* several of these at once.
Clients ==
    /\ call' \in [Calls -> {call[c] : c \in Calls} \cup {NoCall} \cup
                           [kind : {"login", "refresh", "logout"}, pc : {"sent"},
                            token : 0..clock \cup {None}, role : {None}, read : {0}, iat : {0}]]
    /\ \A c \in Calls : \/ call'[c] = call[c]
                        \/ call[c].pc \in Ended /\ call'[c] = NoCall
                        \/ call[c].pc = "free" /\ call'[c].pc = "sent"
    /\ alone' => alone /\ \A c, d \in Calls : call'[c] # call[c] /\ call'[c].pc = "sent"
                                  /\ d # c => call[d].pc = "free" /\ call'[d].pc = "free"
    /\ alone' \in BOOLEAN
    /\ accessToken' \in [Tabs -> {accessToken[t] : t \in Tabs} \cup {None} \cup
                                 {Issued(c) : c \in {d \in Calls : call[d].pc = "ok"
                                                           /\ call[d].kind # "logout"}}]
    /\ request' \in [Requests -> {request[q] : q \in Requests} \cup
                  [pc : {"sent"}, token : {accessToken'[t] : t \in Tabs}] \cup {NoRequest}]
    /\ \A q \in Requests : \/ request'[q] = request[q]
                           \/ request[q].pc \in {"served", "unauthorized"}
                                /\ request'[q] = NoRequest
                           \/ request[q].pc = "free" /\ request'[q].pc = "sent"
    /\ UNCHANGED <<clock, accessLife, row, admin>>

-----------------------------------------------------------------------------
(* What everybody else does to the row.  A recovery, an approval or a role  *)
(* change writes by id what it decided from an earlier read: whatever that  *)
(* write may leave is also left by UpdateUser.                              *)

\* PATCH /users/:id, which asks for no session (users.controller.ts:68)
UpdateUser ==
    /\ \E s \in Statuses, r \in Roles : Write([account EXCEPT !.status = s, !.role = r])
    /\ UNCHANGED <<clock, accessLife, newest, blackUntil, removal, removedAt, call, request,
                   accessToken, alone>>

ChangeRole(new) ==
    /\ account.status # "REVOKED" /\ new # account.role
    /\ Write([account EXCEPT !.role = new])
    /\ UNCHANGED <<clock, accessLife, newest, blackUntil, removal, removedAt, call, request,
                   accessToken, alone>>

\* remove: the row, then Redis, whose refusal is a 500 that no second call
\* mends while the row stays REVOKED.  Bound: one entry is due at a time.
RemoveRow ==
    /\ account.status # "REVOKED" /\ removal # "row"
    /\ Becomes([account EXCEPT !.status = "REVOKED"])
    /\ removal' = "row" /\ removedAt' = clock /\ revivedAt' = None
    /\ UNCHANGED <<clock, accessLife, newest, blackUntil, call, request, accessToken, alone>>

Blacklist ==
    /\ removal = "row"
    /\ \/ blackUntil' = clock + BlacklistLife /\ removal' = "listed"
       \/ removal' = "failed" /\ UNCHANGED blackUntil
    /\ UNCHANGED <<clock, accessLife, row, removedAt, revivedAt, call, request, accessToken,
                   alone>>

\* a recovery asked for, or a password of 90 days
BlockPassword ==
    /\ Active(account)
    /\ Write([account EXCEPT !.status = "PASSBLOCK"])
    /\ UNCHANGED <<clock, accessLife, newest, blackUntil, removal, removedAt, call, request,
                   accessToken, alone>>

\* consumePasswordResetToken asks that the owner be active in a read that comes
\* before two awaits (users.service.ts:361): the account was active at first, so
\* that the write, by id, finds whatever has become of the row since.
ResetPassword ==
    /\ Write([account EXCEPT !.status = "ACTIVE", !.hash = None])
    /\ UNCHANGED <<clock, accessLife, newest, blackUntil, removal, removedAt, call, request,
                   accessToken, alone>>

\* a logout whose body names the account needs no token; the webapp sends none
LogoutById ==
    /\ account' = [account EXCEPT !.hash = None]
    /\ UNCHANGED <<clock, accessLife, had, newest, admin, call, request, accessToken, alone>>

Administer == UpdateUser \/ RemoveRow \/ BlockPassword \/ ResetPassword \/ LogoutById
                \/ \E r \in Roles : ChangeRole(r)

Next ==
    \/ Tick \/ Administer \/ Blacklist \/ Clients
    \/ \E c \in Calls : Serve(c) \/ Fail(c)
    \/ \E q \in Requests : Check(q)

Spec == Init /\ [][Next]_vars

-----------------------------------------------------------------------------
(* Properties                                                               *)

Accepted(q) == request[q].pc = "sent" /\ request'[q].pc = "served"

\* RolesGuard believes the token (roles.guard.ts:28), so a role outlives its
\* loss, by a change, a removal or a block: but by no more than one lifetime
\* of a token and the time the call that issued it took after its read.
StaleRoleEnds ==
    [][\A q \in Requests : Accepted(q) =>
        LET t == request[q].token IN
            \/ InRole(account, t.role)
            \/ /\ had[t.role] # None
               /\ clock < had[t.role] + accessLife + (t.iat - t.read)]_vars

\* Once a removal has written its Redis entry (users.service.ts:666), and if
\* tokens live no longer than the entry, no token signed before the removal is
\* let in, and none that rests on a read of the removed row: the call that
\* signed it had read the row before the removal, or a PATCH, a reset or an
\* approval had made the account active again before it read.
RemovalCoversTokens ==
    [][\A q \in Requests :
        Accepted(q) /\ removal = "listed" /\ accessLife <= BlacklistLife =>
            LET t == request[q].token IN
                /\ t.iat > removedAt
                /\ t.read <= removedAt \/ (revivedAt # None /\ revivedAt <= t.read)]_vars

\* While logins, refreshes and logouts have not overlapped, the only refresh
\* token that is ever exchanged (auth.service.ts:161) is the youngest one: a
\* token that was rotated out in an earlier second is never good again.
OnlyNewestRefreshes ==
    [][\A c \in Calls :
        alone /\ call[c].kind = "refresh" /\ call[c].pc = "sent" /\ call'[c].pc = "minting"
            => call[c].token = newest]_vars
============================================================================
