----------------------- MODULE AccountLifecycleProofs -----------------------
(***************************************************************************)
(* Proofs about AccountLifecycle for every set of calls and every number   *)
(* of calls in flight.                                                     *)
(***************************************************************************)
EXTENDS AccountLifecycle, FiniteSetTheorems, TLAPS

-----------------------------------------------------------------------------
(* The inductive invariant.                                                 *)

\* A token is issued once, and a reset that has changed the password has used
\* its token up.
Tokens(c) ==
    /\ pc[c] \in {"idle", "recover", "recovering", "welcome", "welcoming", "approve"} =>
          token[c] = "none"
    /\ pc[c] = "changed" => token[arg[c]] = "used"

\* After a quiet sign-out no call holds the permission to store a hash.
SignedOutInv == signedOut => user.refresh = None /\ SigningIn = {}

\* After a quiet removal no call is past the reads that would turn it away.
GoneInv ==
    gone => /\ ~user.active
            /\ user.status \in {"REVOKED", "PASSBLOCK"}
            /\ Reviving = {}

\* Before its first approval the account can neither sign in nor be reset.
Unapproved ==
    ~edited /\ user.identity = None =>
        /\ ~user.active /\ user.status # "ACTIVE"
        /\ \A c \in Calls : pc[c] # "consume"

\* While calls do not overlap, at most one of them is in flight.
Serial == alone => \A c, d \in InFlight : c = d

\* Between the two steps that issue a token, a call that is alone has seen
\* every token that is not used.
LinksInv ==
    alone => /\ OneLinkAtATime
             /\ \A c \in Calls : pc[c] \in {"recovering", "welcoming"} => Unused \subseteq seen[c]

\* What a call that is alone has read of the row still holds.
ReadsInv ==
    /\ ~edited /\ user.status = "PENDING" => user.identity = None
    /\ alone =>
          \A c \in Calls :
             /\ pc[c] = "rotate" => user.refresh # None
             /\ pc[c] = "approve" => edited \/ user.identity = None

IInv ==
    /\ TypeOK
    /\ \A c \in Calls : Tokens(c)
    /\ TokenResetsOnce
    /\ BlockedHasLink
    /\ SignedOutInv
    /\ GoneInv
    /\ Unapproved
    /\ Serial
    /\ LinksInv
    /\ ReadsInv

-----------------------------------------------------------------------------
\* The initial state satisfies the invariant.
LEMMA InitIInv == Init => IInv
<1> SUFFICES ASSUME Init PROVE IInv
  OBVIOUS
<1> USE DEF Init
<1>1. user \in Users
  BY DEF Users, Statuses
<1>2. TypeOK
  BY <1>1 DEF TypeOK
<1>3. \A c \in Calls : Tokens(c)
  BY DEF Tokens
<1>4. TokenResetsOnce /\ BlockedHasLink
  BY DEF TokenResetsOnce, BlockedHasLink
<1>5. SignedOutInv /\ GoneInv /\ Unapproved
  BY DEF SignedOutInv, GoneInv, Unapproved
<1>6. Serial /\ LinksInv /\ ReadsInv
  BY DEF Serial, LinksInv, ReadsInv, OneLinkAtATime, InFlight, Running, Unused
<1> QED BY <1>2, <1>3, <1>4, <1>5, <1>6 DEF IInv

\* Every step keeps the types.
LEMMA StepType == TypeOK /\ [Next]_vars => TypeOK'
<1> SUFFICES ASSUME TypeOK, [Next]_vars PROVE TypeOK'
  OBVIOUS
<1> USE DEF TypeOK, Users, Statuses, Running, SigningIn, Reviving, Unused, Close, Goto, Store, Rotated, StoreNewPassword, tokens, history
<1>1. CASE UNCHANGED vars
  BY <1>1 DEF vars
<1>2. ASSUME NEW c \in Calls, SessionCall(c) PROVE TypeOK'
  <2>1. CASE BeginLogin(c)
    BY <2>1 DEF BeginLogin, MayLogIn, Begin, OnwardIf
  <2>2. CASE BeginRefresh(c)
    BY <2>2 DEF BeginRefresh, Begin, OnwardIf
  <2>3. CASE WriteRefreshHash(c)
    BY <2>3 DEF WriteRefreshHash
  <2>4. CASE AnswerSignIn(c)
    BY <2>4 DEF AnswerSignIn
  <2>5. CASE SignOut(c)
    BY <2>5 DEF SignOut, Begin
  <2> QED BY <1>2, <2>1, <2>2, <2>3, <2>4, <2>5 DEF SessionCall
<1>3. ASSUME NEW c \in Calls, RecoveryCall(c) PROVE TypeOK'
  <2>1. CASE BeginRecover(c)
    BY <2>1 DEF BeginRecover, Begin, OnwardIf
  <2>2. CASE CloseTokens(c)
    BY <2>2 DEF CloseTokens
  <2>3. CASE IssueToken(c)
    BY <2>3 DEF IssueToken
  <2>4. CASE MailLink(c)
    BY <2>4 DEF MailLink
  <2>5. CASE ResetReadsOwner(c)
    BY <2>5 DEF ResetReadsOwner, OnwardIf
  <2>6. CASE ConsumeToken(c)
    <3>1. user' \in Users /\ aged' \in BOOLEAN
      BY <2>6 DEF ConsumeToken
    <3>2. token' \in [Calls -> {"none", "open", "expired", "used"}]
      BY <2>6 DEF ConsumeToken
    <3>3. pc' \in [Calls -> Running \cup {"idle", "over", "signedIn", "mailed", "changed"}]
      BY <2>6 DEF ConsumeToken
    <3>4. signedOut' \in BOOLEAN
      BY <2>6 DEF ConsumeToken
    <3> QED BY <2>6, <3>1, <3>2, <3>3, <3>4 DEF ConsumeToken
  <2>7. ASSUME NEW t \in Calls, BeginReset(c, t) PROVE TypeOK'
    BY <2>7 DEF BeginReset, Begin, OnwardIf
  <2> QED BY <1>3, <2>1, <2>2, <2>3, <2>4, <2>5, <2>6, <2>7 DEF RecoveryCall
<1>4. ASSUME NEW c \in Calls, AdminCall(c) PROVE TypeOK'
  <2>1. CASE BeginApprove(c)
    BY <2>1 DEF BeginApprove, Begin, OnwardIf
  <2>2. CASE Approve(c)
    BY <2>2 DEF Approve
  <2>3. CASE BeginRemove(c)
    BY <2>3 DEF BeginRemove, Begin, OnwardIf
  <2>4. CASE Remove(c)
    <3> DEFINE removed == [user EXCEPT !.status = "REVOKED", !.active = FALSE,
                                       !.email = "scrubbed", !.password = "scrubbed"]
    <3>1. removed \in Users /\ Rotated(removed) \in Users
      OBVIOUS
    <3>2. user' \in {removed, Rotated(removed)} /\ aged' \in BOOLEAN
      BY <2>4 DEF Remove
    <3>3. user' \in Users /\ aged' \in BOOLEAN
      BY <3>1, <3>2
    <3> QED BY <2>4, <3>3 DEF Remove
  <2> QED BY <1>4, <2>1, <2>2, <2>3, <2>4 DEF AdminCall
<1>5. ASSUME NEW c \in Calls, Fail(c) PROVE TypeOK'
  BY <1>5 DEF Fail
<1>6. ASSUME NEW c \in Calls, TokenExpires(c) PROVE TypeOK'
  BY <1>6 DEF TokenExpires
<1>7. CASE ChangeRole
  BY <1>7 DEF ChangeRole
<1>8. CASE UpdateUser
  <2>1. user' \in Users /\ aged' \in BOOLEAN
    <3>1. ASSUME NEW x \in Statuses, NEW a \in BOOLEAN, NEW e \in {user.email, "own"},
                 Store([user EXCEPT !.status = x, !.active = a, !.email = e])
          PROVE  user' \in Users /\ aged' \in BOOLEAN
      BY <3>1
    <3>2. CASE StoreNewPassword([user EXCEPT !.password = "known", !.status = "ACTIVE",
                                             !.active = TRUE])
      BY <3>2
    <3> QED BY <1>8, <3>1, <3>2 DEF UpdateUser
  <2> QED BY <1>8, <2>1 DEF UpdateUser
<1>9. CASE PasswordAges
  BY <1>9 DEF PasswordAges
<1>10. CASE EnforceRotation
  BY <1>10 DEF EnforceRotation
<1> QED BY <1>1, <1>2, <1>3, <1>4, <1>5, <1>6, <1>7, <1>8, <1>9, <1>10 DEF Next

\* Every step keeps what is known of the tokens.
LEMMA StepTokens == IInv /\ [Next]_vars => (\A d \in Calls : Tokens(d))' /\ TokenResetsOnce'
<1> DEFINE Good == (\A d \in Calls : Tokens(d))' /\ TokenResetsOnce'
<1> SUFFICES ASSUME IInv, [Next]_vars PROVE Good
  OBVIOUS
<1> USE DEF IInv, TypeOK, Running, SigningIn, Tokens, TokenResetsOnce, Unused, Close, Goto, tokens
<1>1. CASE UNCHANGED vars
  BY <1>1 DEF vars
<1>2. ASSUME NEW c \in Calls, SessionCall(c) PROVE Good
  <2>1. CASE BeginLogin(c)
    BY <2>1 DEF BeginLogin, MayLogIn, Begin, OnwardIf
  <2>2. CASE BeginRefresh(c)
    BY <2>2 DEF BeginRefresh, Begin, OnwardIf
  <2>3. CASE WriteRefreshHash(c)
    BY <2>3 DEF WriteRefreshHash
  <2>4. CASE AnswerSignIn(c)
    BY <2>4 DEF AnswerSignIn
  <2>5. CASE SignOut(c)
    BY <2>5 DEF SignOut, Begin
  <2> QED BY <1>2, <2>1, <2>2, <2>3, <2>4, <2>5 DEF SessionCall
<1>3. ASSUME NEW c \in Calls, RecoveryCall(c) PROVE Good
  <2>1. CASE BeginRecover(c)
    BY <2>1 DEF BeginRecover, Begin, OnwardIf
  <2>2. CASE CloseTokens(c)
    BY <2>2 DEF CloseTokens
  <2>3. CASE IssueToken(c)
    BY <2>3 DEF IssueToken
  <2>4. CASE MailLink(c)
    BY <2>4 DEF MailLink
  <2>5. CASE ResetReadsOwner(c)
    BY <2>5 DEF ResetReadsOwner, OnwardIf
  <2>6. CASE ConsumeToken(c)
    BY <2>6 DEF ConsumeToken
  <2>7. ASSUME NEW t \in Calls, BeginReset(c, t) PROVE Good
    BY <2>7 DEF BeginReset, Begin, OnwardIf
  <2> QED BY <1>3, <2>1, <2>2, <2>3, <2>4, <2>5, <2>6, <2>7 DEF RecoveryCall
<1>4. ASSUME NEW c \in Calls, AdminCall(c) PROVE Good
  <2>1. CASE BeginApprove(c)
    BY <2>1 DEF BeginApprove, Begin, OnwardIf
  <2>2. CASE Approve(c)
    BY <2>2 DEF Approve
  <2>3. CASE BeginRemove(c)
    BY <2>3 DEF BeginRemove, Begin, OnwardIf
  <2>4. CASE Remove(c)
    BY <2>4 DEF Remove
  <2> QED BY <1>4, <2>1, <2>2, <2>3, <2>4 DEF AdminCall
<1>5. ASSUME NEW c \in Calls, Fail(c) PROVE Good
  BY <1>5 DEF Fail
<1>6. ASSUME NEW c \in Calls, TokenExpires(c) PROVE Good
  BY <1>6 DEF TokenExpires
<1>7. CASE ChangeRole
  BY <1>7 DEF ChangeRole
<1>8. CASE UpdateUser
  BY <1>8 DEF UpdateUser
<1>9. CASE PasswordAges
  BY <1>9 DEF PasswordAges
<1>10. CASE EnforceRotation
  BY <1>10 DEF EnforceRotation
<1> QED BY <1>1, <1>2, <1>3, <1>4, <1>5, <1>6, <1>7, <1>8, <1>9, <1>10 DEF Next

\* Every step that leaves a blocked account leaves it a link.
LEMMA StepLink == IInv /\ [Next]_vars => BlockedHasLink'
<1> SUFFICES ASSUME IInv, [Next]_vars PROVE BlockedHasLink'
  OBVIOUS
<1> USE DEF IInv, TypeOK, Users, BlockedHasLink, Unused, Close, Store, Rotated, StoreNewPassword, tokens, history
<1>1. CASE UNCHANGED vars
  BY <1>1 DEF vars
<1>2. ASSUME NEW c \in Calls, SessionCall(c) PROVE BlockedHasLink'
  <2>1. CASE BeginLogin(c)
    BY <2>1 DEF BeginLogin, MayLogIn, Begin, OnwardIf
  <2>2. CASE BeginRefresh(c)
    BY <2>2 DEF BeginRefresh, Begin, OnwardIf
  <2>3. CASE WriteRefreshHash(c)
    BY <2>3 DEF WriteRefreshHash
  <2>4. CASE AnswerSignIn(c)
    BY <2>4 DEF AnswerSignIn
  <2>5. CASE SignOut(c)
    BY <2>5 DEF SignOut, Begin
  <2> QED BY <1>2, <2>1, <2>2, <2>3, <2>4, <2>5 DEF SessionCall
<1>3. ASSUME NEW c \in Calls, RecoveryCall(c) PROVE BlockedHasLink'
  <2>1. CASE BeginRecover(c)
    BY <2>1 DEF BeginRecover, Begin, OnwardIf
  <2>2. CASE CloseTokens(c)
    BY <2>2 DEF CloseTokens
  <2>3. CASE IssueToken(c)
    BY <2>3 DEF IssueToken
  <2>4. CASE MailLink(c)
    BY <2>4 DEF MailLink
  <2>5. CASE ResetReadsOwner(c)
    BY <2>5 DEF ResetReadsOwner, OnwardIf
  <2>6. CASE ConsumeToken(c)
    BY <2>6 DEF ConsumeToken
  <2>7. ASSUME NEW t \in Calls, BeginReset(c, t) PROVE BlockedHasLink'
    BY <2>7 DEF BeginReset, Begin, OnwardIf
  <2> QED BY <1>3, <2>1, <2>2, <2>3, <2>4, <2>5, <2>6, <2>7 DEF RecoveryCall
<1>4. ASSUME NEW c \in Calls, AdminCall(c) PROVE BlockedHasLink'
  <2>1. CASE BeginApprove(c)
    BY <2>1 DEF BeginApprove, Begin, OnwardIf
  <2>2. CASE Approve(c)
    BY <2>2 DEF Approve
  <2>3. CASE BeginRemove(c)
    BY <2>3 DEF BeginRemove, Begin, OnwardIf
  <2>4. CASE Remove(c)
    BY <2>4 DEF Remove
  <2> QED BY <1>4, <2>1, <2>2, <2>3, <2>4 DEF AdminCall
<1>5. ASSUME NEW c \in Calls, Fail(c) PROVE BlockedHasLink'
  BY <1>5 DEF Fail
<1>6. ASSUME NEW c \in Calls, TokenExpires(c) PROVE BlockedHasLink'
  BY <1>6 DEF TokenExpires
<1>7. CASE ChangeRole
  BY <1>7 DEF ChangeRole
<1>8. CASE UpdateUser
  BY <1>8 DEF UpdateUser
<1>9. CASE PasswordAges
  BY <1>9 DEF PasswordAges
<1>10. CASE EnforceRotation
  BY <1>10 DEF EnforceRotation
<1> QED BY <1>1, <1>2, <1>3, <1>4, <1>5, <1>6, <1>7, <1>8, <1>9, <1>10 DEF Next

\* Every step keeps an ended session ended, or is a login.
LEMMA StepSignedOut == IInv /\ [Next]_vars => SignedOutInv'
<1> SUFFICES ASSUME IInv, [Next]_vars PROVE SignedOutInv'
  OBVIOUS
<1> USE CallsAssumption
<1> USE DEF IInv, TypeOK, Users, SignedOutInv, SigningIn, Running, Goto, Store, Rotated, StoreNewPassword, tokens, history
<1>1. CASE UNCHANGED vars
  BY <1>1 DEF vars
<1>2. ASSUME NEW c \in Calls, SessionCall(c) PROVE SignedOutInv'
  <2>1. CASE BeginLogin(c)
    BY <2>1 DEF BeginLogin, MayLogIn, Begin, OnwardIf
  <2>2. CASE BeginRefresh(c)
    BY <2>2 DEF BeginRefresh, Begin, OnwardIf
  <2>3. CASE WriteRefreshHash(c)
    BY <2>3 DEF WriteRefreshHash
  <2>4. CASE AnswerSignIn(c)
    BY <2>4 DEF AnswerSignIn
  <2>5. CASE SignOut(c)
    BY <2>5 DEF SignOut, Begin
  <2> QED BY <1>2, <2>1, <2>2, <2>3, <2>4, <2>5 DEF SessionCall
<1>3. ASSUME NEW c \in Calls, RecoveryCall(c) PROVE SignedOutInv'
  <2>1. CASE BeginRecover(c)
    BY <2>1 DEF BeginRecover, Begin, OnwardIf
  <2>2. CASE CloseTokens(c)
    BY <2>2 DEF CloseTokens
  <2>3. CASE IssueToken(c)
    <3>1. user'.refresh = user.refresh /\ signedOut' = signedOut
      BY <2>3 DEF IssueToken
    <3>2. SigningIn = {} => SigningIn' = {}
      BY <2>3 DEF IssueToken
    <3> QED BY <3>1, <3>2
  <2>4. CASE MailLink(c)
    BY <2>4 DEF MailLink
  <2>5. CASE ResetReadsOwner(c)
    BY <2>5 DEF ResetReadsOwner, OnwardIf
  <2>6. CASE ConsumeToken(c)
    BY <2>6 DEF ConsumeToken
  <2>7. ASSUME NEW t \in Calls, BeginReset(c, t) PROVE SignedOutInv'
    BY <2>7 DEF BeginReset, Begin, OnwardIf
  <2> QED BY <1>3, <2>1, <2>2, <2>3, <2>4, <2>5, <2>6, <2>7 DEF RecoveryCall
<1>4. ASSUME NEW c \in Calls, AdminCall(c) PROVE SignedOutInv'
  <2>1. CASE BeginApprove(c)
    BY <2>1 DEF BeginApprove, Begin, OnwardIf
  <2>2. CASE Approve(c)
    BY <2>2 DEF Approve
  <2>3. CASE BeginRemove(c)
    BY <2>3 DEF BeginRemove, Begin, OnwardIf
  <2>4. CASE Remove(c)
    <3>1. user'.refresh = user.refresh /\ signedOut' = signedOut
      BY <2>4 DEF Remove
    <3>2. SigningIn = {} => SigningIn' = {}
      BY <2>4 DEF Remove
    <3> QED BY <3>1, <3>2
  <2> QED BY <1>4, <2>1, <2>2, <2>3, <2>4 DEF AdminCall
<1>5. ASSUME NEW c \in Calls, Fail(c) PROVE SignedOutInv'
  BY <1>5 DEF Fail
<1>6. ASSUME NEW c \in Calls, TokenExpires(c) PROVE SignedOutInv'
  BY <1>6 DEF TokenExpires
<1>7. CASE ChangeRole
  BY <1>7 DEF ChangeRole
<1>8. CASE UpdateUser
  BY <1>8 DEF UpdateUser
<1>9. CASE PasswordAges
  BY <1>9 DEF PasswordAges
<1>10. CASE EnforceRotation
  BY <1>10 DEF EnforceRotation
<1> QED BY <1>1, <1>2, <1>3, <1>4, <1>5, <1>6, <1>7, <1>8, <1>9, <1>10 DEF Next

\* Every step keeps a removed account inactive, or is a PATCH.
LEMMA StepGone == IInv /\ [Next]_vars => GoneInv'
<1> SUFFICES ASSUME IInv, [Next]_vars PROVE GoneInv'
  OBVIOUS
<1> USE DEF IInv, TypeOK, Users, GoneInv, Reviving, SigningIn, Running, Goto, Store, Rotated, StoreNewPassword, tokens, history
<1>1. CASE UNCHANGED vars
  BY <1>1 DEF vars
<1>2. ASSUME NEW c \in Calls, SessionCall(c) PROVE GoneInv'
  <2>1. CASE BeginLogin(c)
    BY <2>1 DEF BeginLogin, MayLogIn, Begin, OnwardIf
  <2>2. CASE BeginRefresh(c)
    BY <2>2 DEF BeginRefresh, Begin, OnwardIf
  <2>3. CASE WriteRefreshHash(c)
    BY <2>3 DEF WriteRefreshHash
  <2>4. CASE AnswerSignIn(c)
    BY <2>4 DEF AnswerSignIn
  <2>5. CASE SignOut(c)
    BY <2>5 DEF SignOut, Begin
  <2> QED BY <1>2, <2>1, <2>2, <2>3, <2>4, <2>5 DEF SessionCall
<1>3. ASSUME NEW c \in Calls, RecoveryCall(c) PROVE GoneInv'
  <2>1. CASE BeginRecover(c)
    BY <2>1 DEF BeginRecover, Begin, OnwardIf
  <2>2. CASE CloseTokens(c)
    BY <2>2 DEF CloseTokens
  <2>3. CASE IssueToken(c)
    BY <2>3 DEF IssueToken
  <2>4. CASE MailLink(c)
    BY <2>4 DEF MailLink
  <2>5. CASE ResetReadsOwner(c)
    BY <2>5 DEF ResetReadsOwner, OnwardIf
  <2>6. CASE ConsumeToken(c)
    BY <2>6 DEF ConsumeToken
  <2>7. ASSUME NEW t \in Calls, BeginReset(c, t) PROVE GoneInv'
    BY <2>7 DEF BeginReset, Begin, OnwardIf
  <2> QED BY <1>3, <2>1, <2>2, <2>3, <2>4, <2>5, <2>6, <2>7 DEF RecoveryCall
<1>4. ASSUME NEW c \in Calls, AdminCall(c) PROVE GoneInv'
  <2>1. CASE BeginApprove(c)
    BY <2>1 DEF BeginApprove, Begin, OnwardIf
  <2>2. CASE Approve(c)
    BY <2>2 DEF Approve
  <2>3. CASE BeginRemove(c)
    BY <2>3 DEF BeginRemove, Begin, OnwardIf
  <2>4. CASE Remove(c)
    <3> DEFINE removed == [user EXCEPT !.status = "REVOKED", !.active = FALSE,
                                       !.email = "scrubbed", !.password = "scrubbed"]
    <3>1. user' \in {removed, Rotated(removed)} /\ gone' = (Reviving = {})
      BY <2>4 DEF Remove
    <3>2. ~user'.active /\ user'.status \in {"REVOKED", "PASSBLOCK"}
      BY <3>1
    <3>3. Reviving = {} => Reviving' = {}
      BY <2>4 DEF Remove
    <3> QED BY <3>1, <3>2, <3>3
  <2> QED BY <1>4, <2>1, <2>2, <2>3, <2>4 DEF AdminCall
<1>5. ASSUME NEW c \in Calls, Fail(c) PROVE GoneInv'
  BY <1>5 DEF Fail
<1>6. ASSUME NEW c \in Calls, TokenExpires(c) PROVE GoneInv'
  BY <1>6 DEF TokenExpires
<1>7. CASE ChangeRole
  BY <1>7 DEF ChangeRole
<1>8. CASE UpdateUser
  BY <1>8 DEF UpdateUser
<1>9. CASE PasswordAges
  BY <1>9 DEF PasswordAges
<1>10. CASE EnforceRotation
  BY <1>10 DEF EnforceRotation
<1> QED BY <1>1, <1>2, <1>3, <1>4, <1>5, <1>6, <1>7, <1>8, <1>9, <1>10 DEF Next

\* Every step keeps an account without identity out, or is a PATCH.
LEMMA StepUnapproved == IInv /\ [Next]_vars => Unapproved'
<1> SUFFICES ASSUME IInv, [Next]_vars PROVE Unapproved'
  OBVIOUS
<1> USE CallsAssumption
<1> USE DEF IInv, TypeOK, Users, Unapproved, SigningIn, Running, Goto, Store, Rotated, StoreNewPassword, tokens, history
<1>1. CASE UNCHANGED vars
  BY <1>1 DEF vars
<1>2. ASSUME NEW c \in Calls, SessionCall(c) PROVE Unapproved'
  <2>1. CASE BeginLogin(c)
    BY <2>1 DEF BeginLogin, MayLogIn, Begin, OnwardIf
  <2>2. CASE BeginRefresh(c)
    BY <2>2 DEF BeginRefresh, Begin, OnwardIf
  <2>3. CASE WriteRefreshHash(c)
    BY <2>3 DEF WriteRefreshHash
  <2>4. CASE AnswerSignIn(c)
    BY <2>4 DEF AnswerSignIn
  <2>5. CASE SignOut(c)
    BY <2>5 DEF SignOut, Begin
  <2> QED BY <1>2, <2>1, <2>2, <2>3, <2>4, <2>5 DEF SessionCall
<1>3. ASSUME NEW c \in Calls, RecoveryCall(c) PROVE Unapproved'
  <2>1. CASE BeginRecover(c)
    BY <2>1 DEF BeginRecover, Begin, OnwardIf
  <2>2. CASE CloseTokens(c)
    BY <2>2 DEF CloseTokens
  <2>3. CASE IssueToken(c)
    BY <2>3 DEF IssueToken
  <2>4. CASE MailLink(c)
    BY <2>4 DEF MailLink
  <2>5. CASE ResetReadsOwner(c)
    BY <2>5 DEF ResetReadsOwner, OnwardIf
  <2>6. CASE ConsumeToken(c)
    BY <2>6 DEF ConsumeToken
  <2>7. ASSUME NEW t \in Calls, BeginReset(c, t) PROVE Unapproved'
    BY <2>7 DEF BeginReset, Begin, OnwardIf
  <2> QED BY <1>3, <2>1, <2>2, <2>3, <2>4, <2>5, <2>6, <2>7 DEF RecoveryCall
<1>4. ASSUME NEW c \in Calls, AdminCall(c) PROVE Unapproved'
  <2>1. CASE BeginApprove(c)
    BY <2>1 DEF BeginApprove, Begin, OnwardIf
  <2>2. CASE Approve(c)
    BY <2>2 DEF Approve
  <2>3. CASE BeginRemove(c)
    BY <2>3 DEF BeginRemove, Begin, OnwardIf
  <2>4. CASE Remove(c)
    BY <2>4 DEF Remove
  <2> QED BY <1>4, <2>1, <2>2, <2>3, <2>4 DEF AdminCall
<1>5. ASSUME NEW c \in Calls, Fail(c) PROVE Unapproved'
  BY <1>5 DEF Fail
<1>6. ASSUME NEW c \in Calls, TokenExpires(c) PROVE Unapproved'
  BY <1>6 DEF TokenExpires
<1>7. CASE ChangeRole
  BY <1>7 DEF ChangeRole
<1>8. CASE UpdateUser
  BY <1>8 DEF UpdateUser
<1>9. CASE PasswordAges
  BY <1>9 DEF PasswordAges
<1>10. CASE EnforceRotation
  BY <1>10 DEF EnforceRotation
<1> QED BY <1>1, <1>2, <1>3, <1>4, <1>5, <1>6, <1>7, <1>8, <1>9, <1>10 DEF Next

\* A call begins while no other is in flight, or they overlap.
LEMMA StepSerial == TypeOK /\ Serial /\ [Next]_vars => Serial'
<1> SUFFICES ASSUME TypeOK, Serial, [Next]_vars PROVE Serial'
  OBVIOUS
<1> USE DEF TypeOK, Goto
<1> DEFINE Moves(c) == \E l : pc' = [pc EXCEPT ![c] = l]
<1>a. ASSUME NEW c \in Calls, Moves(c), Begin(c) PROVE Serial'
  BY <1>a DEF Begin, Serial, InFlight
<1>b. ASSUME NEW c \in InFlight, Moves(c), alone' = alone PROVE Serial'
  BY <1>b DEF Serial, InFlight
<1>c. ASSUME pc' = pc, alone' = alone PROVE Serial'
  BY <1>c DEF Serial, InFlight
<1>1. CASE UNCHANGED vars
  BY <1>1, <1>c DEF vars
<1>2. ASSUME NEW c \in Calls, SessionCall(c) PROVE Serial'
  <2>1. CASE BeginLogin(c)
    BY <2>1, <1>a DEF BeginLogin, OnwardIf
  <2>2. CASE BeginRefresh(c)
    BY <2>2, <1>a DEF BeginRefresh, OnwardIf
  <2>3. CASE WriteRefreshHash(c)
    BY <2>3, <1>b DEF WriteRefreshHash, InFlight, Running, SigningIn
  <2>4. CASE AnswerSignIn(c)
    BY <2>4, <1>b DEF AnswerSignIn, InFlight, Running
  <2>5. CASE SignOut(c)
    BY <2>5, <1>a DEF SignOut
  <2> QED BY <1>2, <2>1, <2>2, <2>3, <2>4, <2>5 DEF SessionCall
<1>3. ASSUME NEW c \in Calls, RecoveryCall(c) PROVE Serial'
  <2>1. CASE BeginRecover(c)
    BY <2>1, <1>a DEF BeginRecover, OnwardIf
  <2>2. CASE CloseTokens(c)
    BY <2>2, <1>b DEF CloseTokens, InFlight, Running
  <2>3. CASE IssueToken(c)
    BY <2>3, <1>b DEF IssueToken, InFlight, Running
  <2>4. CASE MailLink(c)
    BY <2>4, <1>b DEF MailLink, InFlight, Running
  <2>5. CASE ResetReadsOwner(c)
    BY <2>5, <1>b DEF ResetReadsOwner, InFlight, Running, OnwardIf
  <2>6. CASE ConsumeToken(c)
    BY <2>6, <1>b DEF ConsumeToken, InFlight, Running
  <2>7. ASSUME NEW t \in Calls, BeginReset(c, t) PROVE Serial'
    BY <2>7, <1>a DEF BeginReset, OnwardIf
  <2> QED BY <1>3, <2>1, <2>2, <2>3, <2>4, <2>5, <2>6, <2>7 DEF RecoveryCall
<1>4. ASSUME NEW c \in Calls, AdminCall(c) PROVE Serial'
  <2>1. CASE BeginApprove(c)
    BY <2>1, <1>a DEF BeginApprove, OnwardIf
  <2>2. CASE Approve(c)
    BY <2>2, <1>b DEF Approve, InFlight, Running
  <2>3. CASE BeginRemove(c)
    BY <2>3, <1>a DEF BeginRemove, OnwardIf
  <2>4. CASE Remove(c)
    BY <2>4, <1>b DEF Remove, InFlight, Running
  <2> QED BY <1>4, <2>1, <2>2, <2>3, <2>4 DEF AdminCall
<1>5. ASSUME NEW c \in Calls, Fail(c) PROVE Serial'
  BY <1>5, <1>b DEF Fail, InFlight, Running
<1>6. ASSUME NEW c \in Calls, TokenExpires(c) PROVE Serial'
  BY <1>6, <1>c DEF TokenExpires
<1>7. CASE ChangeRole
  BY <1>7, <1>c DEF ChangeRole
<1>8. CASE UpdateUser
  BY <1>8, <1>c DEF UpdateUser
<1>9. CASE PasswordAges
  BY <1>9, <1>c DEF PasswordAges
<1>10. CASE EnforceRotation
  BY <1>10, <1>c DEF EnforceRotation
<1> QED BY <1>1, <1>2, <1>3, <1>4, <1>5, <1>6, <1>7, <1>8, <1>9, <1>10 DEF Next

\* A call that is alone closes every token before it issues its own.
LEMMA StepLinks == IInv /\ [Next]_vars => LinksInv'
<1> SUFFICES ASSUME IInv, [Next]_vars PROVE LinksInv'
  OBVIOUS
<1> USE DEF IInv, TypeOK, LinksInv, OneLinkAtATime, Unused, Close, Goto, tokens
<1>1. CASE UNCHANGED vars
  BY <1>1 DEF vars
<1>2. ASSUME NEW c \in Calls, SessionCall(c) PROVE LinksInv'
  <2>1. CASE BeginLogin(c)
    BY <2>1 DEF BeginLogin, MayLogIn, Begin, OnwardIf
  <2>2. CASE BeginRefresh(c)
    BY <2>2 DEF BeginRefresh, Begin, OnwardIf
  <2>3. CASE WriteRefreshHash(c)
    BY <2>3 DEF WriteRefreshHash
  <2>4. CASE AnswerSignIn(c)
    BY <2>4 DEF AnswerSignIn
  <2>5. CASE SignOut(c)
    BY <2>5 DEF SignOut, Begin
  <2> QED BY <1>2, <2>1, <2>2, <2>3, <2>4, <2>5 DEF SessionCall
<1>3. ASSUME NEW c \in Calls, RecoveryCall(c) PROVE LinksInv'
  <2>1. CASE BeginRecover(c)
    BY <2>1 DEF BeginRecover, Begin, OnwardIf
  <2>2. CASE CloseTokens(c)
    BY <2>2 DEF CloseTokens
  <2>3. CASE IssueToken(c)
    <3>1. c \in InFlight /\ alone' = alone
      BY <2>3 DEF IssueToken, InFlight, Running
    <3>2. ASSUME alone PROVE \A t \in Unused' : t = c
      BY <2>3, <3>2 DEF IssueToken
    <3>3. ASSUME alone, NEW d \in Calls, pc'[d] \in {"recovering", "welcoming"} PROVE FALSE
      <4>1. d # c /\ pc[d] = pc'[d]
        BY <2>3, <3>3 DEF IssueToken
      <4>2. d \in InFlight
        BY <3>3, <4>1 DEF InFlight, Running
      <4> QED BY <3>1, <3>3, <4>1, <4>2 DEF Serial
    <3> QED BY <3>1, <3>2, <3>3
  <2>4. CASE MailLink(c)
    BY <2>4 DEF MailLink
  <2>5. CASE ResetReadsOwner(c)
    BY <2>5 DEF ResetReadsOwner, OnwardIf
  <2>6. CASE ConsumeToken(c)
    BY <2>6 DEF ConsumeToken
  <2>7. ASSUME NEW t \in Calls, BeginReset(c, t) PROVE LinksInv'
    BY <2>7 DEF BeginReset, Begin, OnwardIf
  <2> QED BY <1>3, <2>1, <2>2, <2>3, <2>4, <2>5, <2>6, <2>7 DEF RecoveryCall
<1>4. ASSUME NEW c \in Calls, AdminCall(c) PROVE LinksInv'
  <2>1. CASE BeginApprove(c)
    BY <2>1 DEF BeginApprove, Begin, OnwardIf
  <2>2. CASE Approve(c)
    BY <2>2 DEF Approve
  <2>3. CASE BeginRemove(c)
    BY <2>3 DEF BeginRemove, Begin, OnwardIf
  <2>4. CASE Remove(c)
    BY <2>4 DEF Remove
  <2> QED BY <1>4, <2>1, <2>2, <2>3, <2>4 DEF AdminCall
<1>5. ASSUME NEW c \in Calls, Fail(c) PROVE LinksInv'
  BY <1>5 DEF Fail
<1>6. ASSUME NEW c \in Calls, TokenExpires(c) PROVE LinksInv'
  BY <1>6 DEF TokenExpires
<1>7. CASE ChangeRole
  BY <1>7 DEF ChangeRole
<1>8. CASE UpdateUser
  BY <1>8 DEF UpdateUser
<1>9. CASE PasswordAges
  BY <1>9 DEF PasswordAges
<1>10. CASE EnforceRotation
  BY <1>10 DEF EnforceRotation
<1> QED BY <1>1, <1>2, <1>3, <1>4, <1>5, <1>6, <1>7, <1>8, <1>9, <1>10 DEF Next

\* Nothing changes what a call that is alone has read.
LEMMA StepReads == IInv /\ [Next]_vars => ReadsInv'
<1> SUFFICES ASSUME IInv, [Next]_vars PROVE ReadsInv'
  OBVIOUS
<1> USE CallsAssumption
<1> USE DEF IInv, TypeOK, Users, ReadsInv, Store, Rotated, StoreNewPassword, Goto, history
<1>1. CASE UNCHANGED vars
  BY <1>1 DEF vars
<1>2. ASSUME NEW c \in Calls, SessionCall(c) PROVE ReadsInv'
  <2>1. CASE BeginLogin(c)
    BY <2>1 DEF BeginLogin, MayLogIn, Begin, OnwardIf
  <2>2. CASE BeginRefresh(c)
    BY <2>2 DEF BeginRefresh, Begin, OnwardIf
  <2>3. CASE WriteRefreshHash(c)
    BY <2>3 DEF WriteRefreshHash
  <2>4. CASE AnswerSignIn(c)
    BY <2>4 DEF AnswerSignIn
  <2>5. CASE SignOut(c)
    BY <2>5 DEF SignOut, Begin, InFlight, Running
  <2> QED BY <1>2, <2>1, <2>2, <2>3, <2>4, <2>5 DEF SessionCall
<1>3. ASSUME NEW c \in Calls, RecoveryCall(c) PROVE ReadsInv'
  <2>1. CASE BeginRecover(c)
    BY <2>1 DEF BeginRecover, Begin, OnwardIf
  <2>2. CASE CloseTokens(c)
    BY <2>2 DEF CloseTokens
  <2>3. CASE IssueToken(c)
    BY <2>3 DEF IssueToken
  <2>4. CASE MailLink(c)
    BY <2>4 DEF MailLink
  <2>5. CASE ResetReadsOwner(c)
    BY <2>5 DEF ResetReadsOwner, OnwardIf
  <2>6. CASE ConsumeToken(c)
    <3>1. c \in InFlight /\ alone' = alone
      BY <2>6 DEF ConsumeToken, InFlight, Running
    <3>2. ASSUME alone, NEW d \in Calls, pc'[d] \in {"rotate", "approve"} PROVE FALSE
      <4>1. d # c /\ pc[d] = pc'[d]
        BY <2>6, <3>2 DEF ConsumeToken
      <4>2. d \in InFlight
        BY <3>2, <4>1 DEF InFlight, Running
      <4> QED BY <3>1, <3>2, <4>1, <4>2 DEF Serial
    <3>3. edited' = edited /\ user'.identity = user.identity
          /\ (user'.status = "PENDING" => user.status = "PENDING")
      BY <2>6 DEF ConsumeToken
    <3> QED BY <3>1, <3>2, <3>3
  <2>7. ASSUME NEW t \in Calls, BeginReset(c, t) PROVE ReadsInv'
    BY <2>7 DEF BeginReset, Begin, OnwardIf
  <2> QED BY <1>3, <2>1, <2>2, <2>3, <2>4, <2>5, <2>6, <2>7 DEF RecoveryCall
<1>4. ASSUME NEW c \in Calls, AdminCall(c) PROVE ReadsInv'
  <2>1. CASE BeginApprove(c)
    BY <2>1 DEF BeginApprove, Begin, OnwardIf
  <2>2. CASE Approve(c)
    <3>1. c \in InFlight /\ alone' = alone
      BY <2>2 DEF Approve, InFlight, Running
    <3>2. ASSUME alone, NEW d \in Calls, pc'[d] \in {"rotate", "approve"} PROVE FALSE
      <4>1. d # c /\ pc[d] = pc'[d]
        BY <2>2, <3>2 DEF Approve
      <4>2. d \in InFlight
        BY <3>2, <4>1 DEF InFlight, Running
      <4> QED BY <3>1, <3>2, <4>1, <4>2 DEF Serial
    <3>3. user'.status # "PENDING"
      BY <2>2 DEF Approve
    <3> QED BY <3>1, <3>2, <3>3
  <2>3. CASE BeginRemove(c)
    BY <2>3 DEF BeginRemove, Begin, OnwardIf
  <2>4. CASE Remove(c)
    BY <2>4 DEF Remove
  <2> QED BY <1>4, <2>1, <2>2, <2>3, <2>4 DEF AdminCall
<1>5. ASSUME NEW c \in Calls, Fail(c) PROVE ReadsInv'
  BY <1>5 DEF Fail
<1>6. ASSUME NEW c \in Calls, TokenExpires(c) PROVE ReadsInv'
  BY <1>6 DEF TokenExpires
<1>7. CASE ChangeRole
  BY <1>7 DEF ChangeRole
<1>8. CASE UpdateUser
  BY <1>8 DEF UpdateUser
<1>9. CASE PasswordAges
  BY <1>9 DEF PasswordAges
<1>10. CASE EnforceRotation
  BY <1>10 DEF EnforceRotation
<1> QED BY <1>1, <1>2, <1>3, <1>4, <1>5, <1>6, <1>7, <1>8, <1>9, <1>10 DEF Next

-----------------------------------------------------------------------------
\* The invariant holds in every reachable state.
THEOREM Invariance == Spec => []IInv
<1>1. IInv /\ [Next]_vars => IInv'
  BY StepType, StepTokens, StepLink, StepSignedOut, StepGone, StepUnapproved,
     StepSerial, StepLinks, StepReads DEF IInv
<1> QED BY InitIInv, <1>1, PTL DEF Spec

\* Type correctness of the account.
THEOREM TypeCorrect == Spec => []TypeOK
<1>1. IInv => TypeOK
  BY DEF IInv
<1> QED BY <1>1, Invariance, PTL

\* A link resets the password once, however many calls present it.
THEOREM TokenOnce == Spec => []TokenResetsOnce
<1>1. IInv => TokenResetsOnce
  BY DEF IInv
<1> QED BY <1>1, Invariance, PTL

\* A recovery never leaves the account blocked without a link.
THEOREM LinkSafe == Spec => []BlockedHasLink
<1>1. IInv => BlockedHasLink
  BY DEF IInv
<1> QED BY <1>1, Invariance, PTL

\* A session ended while nobody was signing in stays ended until a login.
THEOREM SignedOutSafe == Spec => []SignedOutStaysOut
<1>1. IInv => SignedOutStaysOut
  BY DEF IInv, SignedOutInv, SignedOutStaysOut
<1> QED BY <1>1, Invariance, PTL

\* A removal that nothing races with is final.
THEOREM GoneSafe == Spec => []GoneStaysGone
<1>1. IInv => GoneStaysGone
  BY DEF IInv, GoneInv, GoneStaysGone
<1> QED BY <1>1, Invariance, PTL

\* Nobody signs in without the key pair of an approval.
THEOREM IdentitySafe == Spec => []ActiveHasIdentity
<1>1. IInv => ActiveHasIdentity
  BY DEF IInv, Unapproved, ActiveHasIdentity
<1> QED BY <1>1, Invariance, PTL

\* While calls do not overlap, at most one link works.
THEOREM OneLinkSafe == Spec => []OneLinkAtATime
<1>1. IInv => OneLinkAtATime
  BY DEF IInv, LinksInv, OneLinkAtATime
<1> QED BY <1>1, Invariance, PTL

\* While calls do not overlap, the key pair of an account is never replaced.
THEOREM IdentityKeptSafe == Spec => IdentityKept
<1> DEFINE Kept == edited \/ ~alone' \/ user.identity \in {None, user'.identity}
<1>1. IInv /\ [Next]_vars => [Kept]_vars
  <2> SUFFICES ASSUME IInv, Next PROVE Kept
    BY DEF vars
  <2> USE DEF IInv, TypeOK, Users, Store, Rotated, StoreNewPassword, tokens, history
  <2>1. ASSUME NEW c \in Calls, SessionCall(c) PROVE Kept
    BY <2>1 DEF SessionCall, BeginLogin, BeginRefresh, WriteRefreshHash, AnswerSignIn, SignOut
  <2>2. ASSUME NEW c \in Calls, RecoveryCall(c) PROVE Kept
    BY <2>2 DEF RecoveryCall, BeginRecover, CloseTokens, IssueToken, MailLink, BeginReset,
                ResetReadsOwner, ConsumeToken
  <2>3. ASSUME NEW c \in Calls, AdminCall(c) PROVE Kept
    <3>1. CASE Approve(c)
      BY <3>1 DEF Approve, ReadsInv
    <3>2. CASE Remove(c)
      BY <3>2 DEF Remove
    <3>3. CASE BeginApprove(c) \/ BeginRemove(c)
      BY <3>3 DEF BeginApprove, BeginRemove
    <3> QED BY <2>3, <3>1, <3>2, <3>3 DEF AdminCall
  <2>4. ASSUME NEW c \in Calls, Fail(c) \/ TokenExpires(c) PROVE Kept
    BY <2>4 DEF Fail, TokenExpires
  <2>5. CASE ChangeRole \/ PasswordAges \/ EnforceRotation
    BY <2>5 DEF ChangeRole, PasswordAges, EnforceRotation
  <2>6. CASE UpdateUser
    BY <2>6 DEF UpdateUser
  <2> QED BY <2>1, <2>2, <2>3, <2>4, <2>5, <2>6 DEF Next
<1> QED BY <1>1, Invariance, PTL DEF Spec, IdentityKept

\* While calls do not overlap, a refresh never opens a session.
THEOREM RefreshSafe == Spec => RefreshOnlyRenews
<1> DEFINE Renews == \A c \in Calls : alone' /\ pc[c] = "rotate" /\ pc'[c] = "signingIn" =>
                        user.refresh # None
<1>1. IInv /\ [Next]_vars => [Renews]_vars
  <2> SUFFICES ASSUME IInv, Next, NEW c \in Calls, alone', pc[c] = "rotate" PROVE user.refresh # None
    BY DEF vars
  <2>1. alone' => alone
    BY DEF Next, SessionCall, BeginLogin, BeginRefresh, WriteRefreshHash, AnswerSignIn, SignOut,
           RecoveryCall, BeginRecover, CloseTokens, IssueToken, MailLink, BeginReset,
           ResetReadsOwner, ConsumeToken, AdminCall, BeginApprove, Approve, BeginRemove, Remove,
           Fail, TokenExpires, ChangeRole, UpdateUser, PasswordAges, EnforceRotation, Begin
  <2> QED BY <2>1 DEF IInv, ReadsInv
<1> QED BY <1>1, Invariance, PTL DEF Spec, RefreshOnlyRenews
=============================================================================
