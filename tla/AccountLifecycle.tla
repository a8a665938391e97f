-------------------------- MODULE AccountLifecycle --------------------------
(***************************************************************************)
(* One account of the auth service: its row of the User table, its reset   *)
(* tokens, and the calls that write them (login, refresh, logout, recover, *)
(* reset, approve, remove, PATCH), with the trigger that blocks passwords  *)
(* of 90 days.  Rows of other accounts are independent of this one.        *)
(*                                                                         *)
(* Every call reads the row, awaits something slow (argon2, the breach     *)
(* check, a key pair) and then writes by id: each query is an action.  The *)
(* two database transactions run at READ COMMITTED.  The one that consumes *)
(* a token begins with a conditional update of that token's row, which     *)
(* keeps its lock: it is one action.  The one that issues a token begins   *)
(* with an update of the unused tokens it can see: it is two.              *)
(***************************************************************************)
EXTENDS FiniteSets, Naturals

CONSTANTS
    Calls,        \* calls of the API: each names the token it may issue
    MaxInFlight,  \* bound: how many calls may be executing at the same time
    None          \* null

ASSUME CallsAssumption ==
    /\ IsFiniteSet(Calls)
    /\ MaxInFlight \in Nat \ {0}
    /\ None \notin Calls

VARIABLES
    user,         \* the row
    aged,         \* passwordChangedAt is 90 days ago
    token,        \* PasswordResetToken row of each call that issued one
    pc,           \* where each call stands
    arg,          \* the reset token a reset was called with
    seen,         \* the unused tokens an open transaction has marked used
    signedOut,    \* history: the session was ended and nothing raced with it
    gone,         \* history: the account was removed and nothing raced with it
    edited,       \* history: somebody has PATCHed the row
    alone         \* history: calls have never overlapped

tokens == <<token, seen>>
history == <<signedOut, gone, edited>>
vars == <<user, aged, tokens, pc, arg, history, alone>>

Statuses == {"PENDING", "ACTIVE", "PASSBLOCK", "REVOKED"}
Running == {"login", "rotate", "signingIn", "recover", "recovering", "welcome",
            "welcoming", "mail", "owner", "consume", "approve", "remove"}

\* email is "own" until it is overwritten with REVOKED_id, which no login or
\* recovery can name; the password is generated, then one the user knows, and
\* at last no hash at all; refresh is the call whose token the hash is of
Users == [status : Statuses, active : BOOLEAN, email : {"own", "scrubbed"},
          password : {"generated", "known", "scrubbed"}, refresh : Calls \cup {None},
          identity : Calls \cup {None}]

TypeOK ==
    /\ user \in Users
    /\ aged \in BOOLEAN
    /\ token \in [Calls -> {"none", "open", "expired", "used"}]
    /\ pc \in [Calls -> Running \cup {"idle", "over", "signedIn", "mailed", "changed"}]
    /\ arg \in [Calls -> Calls]
    /\ seen \in [Calls -> SUBSET Calls]
    /\ signedOut \in BOOLEAN /\ gone \in BOOLEAN /\ edited \in BOOLEAN
    /\ alone \in BOOLEAN

\* create: the row of a registered user
Init ==
    /\ user = [status |-> "PENDING", active |-> FALSE, email |-> "own",
               password |-> "generated", refresh |-> None, identity |-> None]
    /\ aged = FALSE
    /\ token = [c \in Calls |-> "none"]
    /\ pc = [c \in Calls |-> "idle"]
    /\ arg = [c \in Calls |-> c]
    /\ seen = [c \in Calls |-> {}]
    /\ signedOut = FALSE /\ gone = FALSE /\ edited = FALSE
    /\ alone = TRUE

InFlight == {c \in Calls : pc[c] \in Running}
Unused == {t \in Calls : token[t] \in {"open", "expired"}}
SigningIn == {c \in Calls : pc[c] \in {"login", "rotate"}}
Locked(t) == \E d \in Calls : t \in seen[d]
Reviving == {c \in Calls : pc[c] \in {"approve", "consume"}}

SignInAllowed == user.status = "ACTIVE" /\ user.active
MayLogIn == user.email = "own" /\ SignInAllowed /\ user.password = "known"
MayRecover == user.email = "own" /\ user.active /\ user.status # "REVOKED"

Goto(c, l) == pc' = [pc EXCEPT ![c] = l]

\* The trigger on every insert and update of the row.
Rotated(u) == IF aged THEN [u EXCEPT !.status = "PASSBLOCK", !.active = FALSE] ELSE u
Store(u) == user' = Rotated(u) /\ UNCHANGED aged

\* A write that changes the password is never blocked by its age.
StoreNewPassword(u) == user' = u /\ aged' = FALSE

\* A call begins with its first read, which sends it on to l or turns it away.
Begin(c) ==
    /\ pc[c] = "idle" /\ Cardinality(InFlight) < MaxInFlight
    /\ alone' = (alone /\ InFlight = {})

OnwardIf(c, ok, l) == Goto(c, IF ok THEN l ELSE "over")

\* A call closes some tokens and may issue its own.
Close(t, closed) == IF t \in closed /\ token[t] # "none" THEN "used" ELSE token[t]

-----------------------------------------------------------------------------
(* Variants with a bug the code could have, no part of Next.                *)

\* the presented refresh token is not compared with the stored hash
BeginRefreshUnmatched(c) ==
    /\ Begin(c)
    /\ OnwardIf(c, SignInAllowed /\ \E d \in Calls : pc[d] = "signedIn", "rotate")
    /\ UNCHANGED <<user, aged, tokens, arg, history>>

\* the new token is inserted before the old ones are closed
IssueTokenThenClose(c) ==
    /\ \/ pc[c] = "recovering" /\ Store([user EXCEPT !.status = "PASSBLOCK"])
       \/ pc[c] = "welcoming" /\ UNCHANGED <<user, aged>>
    /\ token' = [t \in Calls |->
                    IF t = c THEN "used" ELSE Close(t, seen[c])]
    /\ seen' = [seen EXCEPT ![c] = {}]
    /\ Goto(c, "mail")
    /\ UNCHANGED <<arg, history, alone>>

\* the old tokens are not closed
IssueTokenOnly(c) ==
    /\ \/ pc[c] = "recovering" /\ Store([user EXCEPT !.status = "PASSBLOCK"])
       \/ pc[c] = "welcoming" /\ UNCHANGED <<user, aged>>
    /\ token' = [token EXCEPT ![c] = "open"]
    /\ seen' = [seen EXCEPT ![c] = {}]
    /\ Goto(c, "mail")
    /\ UNCHANGED <<arg, history, alone>>

\* isActive of the owner is not tested
ResetReadsOwnerUnchecked(c) ==
    /\ pc[c] = "owner"
    /\ Goto(c, "consume")
    /\ UNCHANGED <<user, aged, tokens, arg, history, alone>>

\* the token is marked used without the condition usedAt = null
ConsumeTokenUnchecked(c) ==
    /\ pc[c] = "consume"
    /\ StoreNewPassword([user EXCEPT !.password = "known", !.status = "ACTIVE",
                                     !.active = TRUE, !.refresh = None])
    /\ token' = [t \in Calls |-> Close(t, Calls)]
    /\ signedOut' = (SigningIn = {})
    /\ Goto(c, "changed")
    /\ UNCHANGED <<arg, seen, gone, edited, alone>>

\* the status is not compared with PENDING
BeginApproveAny(c) ==
    /\ Begin(c)
    /\ Goto(c, "approve")
    /\ UNCHANGED <<user, aged, tokens, arg, history>>

-----------------------------------------------------------------------------
(* login, refresh and logout: one refresh token is valid at a time, the one *)
(* whose hash is in the row.                                                *)

\* validateUser
BeginLogin(c) ==
    /\ Begin(c)
    /\ OnwardIf(c, MayLogIn, "login")
    /\ signedOut' = (signedOut /\ ~MayLogIn)
    /\ UNCHANGED <<user, aged, tokens, arg, gone, edited>>

\* refreshTokens, with a token the client was given
BeginRefresh(c) ==
    /\ Begin(c)
    /\ OnwardIf(c, /\ SignInAllowed
                   /\ \E d \in Calls : pc[d] = "signedIn" /\ user.refresh = d,
                "rotate")
    /\ UNCHANGED <<user, aged, tokens, arg, history>>

\* updateRefreshToken: new tokens are signed, the hash is stored by id
WriteRefreshHash(c) ==
    /\ c \in SigningIn
    /\ Store([user EXCEPT !.refresh = c])
    /\ Goto(c, "signingIn")
    /\ UNCHANGED <<tokens, arg, history, alone>>

AnswerSignIn(c) ==
    /\ pc[c] = "signingIn"
    /\ Goto(c, "signedIn")
    /\ UNCHANGED <<user, aged, tokens, arg, history, alone>>

SignOut(c) ==
    /\ Begin(c)
    /\ Store([user EXCEPT !.refresh = None])
    /\ signedOut' = (SigningIn = {})
    /\ Goto(c, "over")
    /\ UNCHANGED <<tokens, arg, gone, edited>>

-----------------------------------------------------------------------------
(* Recovery.  createPasswordResetToken blocks the account and mails a link; *)
(* consumePasswordResetToken takes the token of the link.                   *)

BeginRecover(c) ==
    /\ Begin(c)
    /\ OnwardIf(c, MayRecover, "recover")
    /\ UNCHANGED <<user, aged, tokens, arg, history>>

\* issuePasswordResetActionUrl: the transaction's first statement
CloseTokens(c) ==
    /\ \/ pc[c] = "recover" /\ Goto(c, "recovering")
       \/ pc[c] = "welcome" /\ Goto(c, "welcoming")
    /\ seen' = [seen EXCEPT ![c] = Unused]
    /\ UNCHANGED <<user, aged, token, arg, history, alone>>

\* the rest of it, and its commit
IssueToken(c) ==
    /\ \/ pc[c] = "recovering" /\ Store([user EXCEPT !.status = "PASSBLOCK"])
       \/ pc[c] = "welcoming" /\ UNCHANGED <<user, aged>>
    /\ token' = [t \in Calls |->
                    IF t = c THEN "open" ELSE Close(t, seen[c])]
    /\ seen' = [seen EXCEPT ![c] = {}]
    /\ Goto(c, "mail")
    /\ UNCHANGED <<arg, history, alone>>

MailLink(c) ==
    /\ pc[c] = "mail"
    /\ Goto(c, "mailed")
    /\ UNCHANGED <<user, aged, tokens, arg, history, alone>>

\* ten minutes after it was created
TokenExpires(t) ==
    /\ token[t] = "open"
    /\ token' = [token EXCEPT ![t] = "expired"]
    /\ UNCHANGED <<user, aged, pc, arg, seen, history, alone>>

\* resolveValidPasswordResetToken
BeginReset(c, t) ==
    /\ pc[t] = "mailed"
    /\ Begin(c)
    /\ arg' = [arg EXCEPT ![c] = t]
    /\ OnwardIf(c, token[t] = "open", "owner")
    /\ UNCHANGED <<user, aged, tokens, history>>

ResetReadsOwner(c) ==
    /\ pc[c] = "owner"
    /\ OnwardIf(c, user.active, "consume")
    /\ UNCHANGED <<user, aged, tokens, arg, history, alone>>

\* the breach check and argon2 are over; the age of the token was settled when
\* the call began
ConsumeToken(c) ==
    /\ pc[c] = "consume"
    /\ \/ /\ arg[c] \in Unused /\ ~Locked(arg[c])
          /\ StoreNewPassword([user EXCEPT !.password = "known", !.status = "ACTIVE",
                                           !.active = TRUE, !.refresh = None])
          /\ token' = [t \in Calls |-> Close(t, Calls)]
          /\ signedOut' = (SigningIn = {})
          /\ Goto(c, "changed")
       \/ /\ arg[c] \notin Unused
          /\ Goto(c, "over")
          /\ UNCHANGED <<user, aged, token, signedOut>>
    /\ UNCHANGED <<arg, seen, gone, edited, alone>>

-----------------------------------------------------------------------------
(* What administrators do.  Their own role and that of the account are      *)
(* checked as well: they are not part of this model.                        *)

BeginApprove(c) ==
    /\ Begin(c)
    /\ OnwardIf(c, user.status = "PENDING", "approve")
    /\ UNCHANGED <<user, aged, tokens, arg, history>>

\* the identity was created by the query before; the update looks at nothing
Approve(c) ==
    /\ pc[c] = "approve"
    /\ Store([user EXCEPT !.status = "ACTIVE", !.active = TRUE, !.identity = c])
    /\ Goto(c, "welcome")
    /\ UNCHANGED <<tokens, arg, history, alone>>

BeginRemove(c) ==
    /\ Begin(c)
    /\ OnwardIf(c, user.status # "REVOKED", "remove")
    /\ UNCHANGED <<user, aged, tokens, arg, history>>

\* hashedRefreshToken and the reset tokens are left as they are
Remove(c) ==
    /\ pc[c] = "remove"
    /\ LET removed == [user EXCEPT !.status = "REVOKED", !.active = FALSE,
                                   !.email = "scrubbed", !.password = "scrubbed"]
       IN  \/ user.password # "scrubbed" /\ StoreNewPassword(removed)
           \/ user.password = "scrubbed" /\ Store(removed)
    /\ gone' = (Reviving = {})
    /\ Goto(c, "over")
    /\ UNCHANGED <<tokens, arg, signedOut, edited, alone>>

\* changeRole writes nothing of the row that is modelled, but fires the trigger
ChangeRole ==
    /\ user.status # "REVOKED"
    /\ Store(user)
    /\ UNCHANGED <<tokens, pc, arg, history, alone>>

\* update: PATCH /users/:id asks for no session and no role, and writes any of
\* these fields without a read
UpdateUser ==
    /\ \/ \E s \in Statuses, a \in BOOLEAN, e \in {user.email, "own"} :
             Store([user EXCEPT !.status = s, !.active = a, !.email = e])
       \/ StoreNewPassword([user EXCEPT !.password = "known", !.status = "ACTIVE",
                                        !.active = TRUE])
    /\ edited' = TRUE
    /\ gone' = FALSE
    /\ UNCHANGED <<tokens, pc, arg, signedOut, alone>>

-----------------------------------------------------------------------------
(* Password rotation, and failures: whatever throws or stops the process,   *)
(* what was committed stays, an open transaction is rolled back.            *)

PasswordAges ==
    /\ ~aged
    /\ aged' = TRUE
    /\ UNCHANGED <<user, tokens, pc, arg, history, alone>>

\* enforce_password_rotation_daily, where pg_cron is installed
EnforceRotation ==
    /\ aged /\ user.status # "PASSBLOCK"
    /\ Store(user)
    /\ UNCHANGED <<tokens, pc, arg, history, alone>>

Fail(c) ==
    /\ pc[c] \in Running
    /\ Goto(c, "over")
    /\ seen' = [seen EXCEPT ![c] = {}]
    /\ UNCHANGED <<user, aged, token, arg, history, alone>>

SessionCall(c) ==
    BeginLogin(c) \/ BeginRefresh(c) \/ WriteRefreshHash(c) \/ AnswerSignIn(c)
        \/ SignOut(c)

RecoveryCall(c) ==
    \/ BeginRecover(c) \/ CloseTokens(c) \/ IssueToken(c) \/ MailLink(c)
    \/ \E t \in Calls : BeginReset(c, t)
    \/ ResetReadsOwner(c) \/ ConsumeToken(c)

AdminCall(c) == BeginApprove(c) \/ Approve(c) \/ BeginRemove(c) \/ Remove(c)

Next ==
    \/ \E c \in Calls :
          SessionCall(c) \/ RecoveryCall(c) \/ AdminCall(c) \/ Fail(c) \/ TokenExpires(c)
    \/ ChangeRole \/ UpdateUser \/ PasswordAges \/ EnforceRotation

Spec == Init /\ [][Next]_vars

-----------------------------------------------------------------------------
(* Properties.                                                              *)

\* A link resets the password once, however many calls present it at the same
\* time: the conditional update in the transaction of
\* consumePasswordResetToken lets one of them through.
TokenResetsOnce ==
    \A c, d \in Calls :
        pc[c] = "changed" /\ pc[d] = "changed" /\ arg[c] = arg[d] => c = d

\* An account that a recovery has blocked has a link that is not used up: the
\* user was blocked in the transaction that issued one, and whatever closes it
\* issues another or unblocks the account.
BlockedHasLink ==
    ~edited /\ user.status = "PASSBLOCK" /\ user.active => Unused # {}

\* A logout or a reset of the password that no sign-in has raced with ends the
\* session: no refresh token is valid until somebody logs in again.
SignedOutStaysOut == signedOut => user.refresh = None

\* A removal that no approval and no reset has raced with is final: whatever
\* is called afterwards, rotation included, the account is never active again
\* unless it is PATCHed.
GoneStaysGone ==
    gone => ~user.active /\ user.status \in {"REVOKED", "PASSBLOCK"}

\* An ACTIVE account has a key pair to sign its actions with: no path to
\* ACTIVE goes around an approval, except a PATCH.
ActiveHasIdentity ==
    ~edited /\ user.status = "ACTIVE" => user.identity # None

\* While calls do not overlap, at most one link works at a time.
OneLinkAtATime == alone => \A s, t \in Unused : s = t

\* While calls do not overlap, an account keeps the key pair it was approved
\* with: what it has signed can be verified with the key it has.
IdentityKept == [][edited \/ ~alone' \/ user.identity \in {None, user'.identity}]_vars

\* docs/ALIGNMENT.md: "Los usuarios revocados tienen acceso denegado".
RemovedStaysOut ==
    user.email = "scrubbed" /\ ~edited => user.status # "ACTIVE"

\* docs/PATTERNS_AND_SECURITY.md: "El servidor puede revocar el refreshToken
\* en cualquier momento (logout, cambio de contrasena, usuario revocado)".  While
\* calls do not overlap, a refresh renews a session, it never opens one.
RefreshOnlyRenews ==
    [][\A c \in Calls : alone' /\ pc[c] = "rotate" /\ pc'[c] = "signingIn" =>
          user.refresh # None]_vars
=============================================================================
