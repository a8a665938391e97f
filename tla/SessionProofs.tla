---------------------------- MODULE SessionProofs ----------------------------
(***************************************************************************)
(* Proofs about Session for every set of clients, calls and roles, every   *)
(* lifetime of a token and of the entry that follows a removal, and that   *)
(* the browser of SessionRefresh is one of its clients.                    *)
(***************************************************************************)
EXTENDS SessionRefresh, TLAPS

-----------------------------------------------------------------------------
(* The inductive invariant.                                                 *)

\* At second t the account was not removed yet, or it was active again.
Standing(t) == removedAt # None => t <= removedAt \/ (revivedAt # None /\ revivedAt <= t)

\* The account is active in role r, or was so until second t or later.
HeldSince(r, t) ==
    /\ InRole(account, r) \/ (had[r] # None /\ t <= had[r])
    /\ Standing(t)

\* What an access token says: its role was the account's when it was read.
Genuine(token) ==
    token # None => /\ token.read <= token.iat /\ token.iat <= clock
                    /\ HeldSince(token.role, token.read)

Signed == {"storing", "anchoring", "ok"}

\* What a call knows: nothing before its read, then the role and the second
\* of the read, then the second it signed its tokens in.
Informed(c) ==
    /\ call[c].pc \in {"free", "sent"} => call[c].role = None
    /\ call[c].pc \in {"minting", "storing"} => call[c].role # None
    /\ call[c].pc \in {"anchoring", "ok"} /\ call[c].kind # "logout" => call[c].role # None
    /\ call[c].role # None =>
          /\ call[c].read <= clock
          /\ HeldSince(call[c].role, call[c].read)
          /\ call[c].pc \in Signed => call[c].read <= call[c].iat /\ call[c].iat <= clock

TokensGenuine ==
    /\ \A c \in Calls : Informed(c)
    /\ \A t \in Tabs : Genuine(accessToken[t])
    /\ \A q \in Requests : Genuine(request[q].token)

\* From a removal to the second the row is active again nobody can be found
\* active, and the entry lasts as long as it should.
Removed ==
    /\ \A r \in Roles : had[r] # None => had[r] <= clock
    /\ removal # "none" => removedAt # None
    /\ removedAt # None =>
          /\ removedAt <= clock
          /\ IF revivedAt = None THEN ~Active(account) ELSE revivedAt <= clock
    /\ removal = "listed" => removedAt + BlacklistLife <= blackUntil

\* While calls have not overlapped, the hash is that of the youngest token.
OneAtATime ==
    /\ newest # None => newest <= clock
    /\ alone =>
          /\ \A c, d \in Open : c = d
          /\ account.hash # None => account.hash = newest
          /\ \A c \in Calls : call[c].pc = "storing" /\ newest # None =>
                                  newest <= call[c].iat

IInv == TypeOK /\ TokensGenuine /\ Removed /\ OneAtATime

CallType == [kind : {"login", "refresh", "logout"},
             pc : Executing \cup Ended \cup {"free"},
             token : RefreshTokens \cup {None},
             role : Roles \cup {None}, read : Seconds, iat : Seconds]

-----------------------------------------------------------------------------
\* The initial state satisfies the invariant.
LEMMA InitIInv == Init => IInv
<1> SUFFICES ASSUME Init PROVE IInv
  OBVIOUS
<1> USE SessionAssumption DEF SessionAssumption, Init
<1>1. TypeOK
  BY DEF TypeOK, Seconds, RefreshTokens, AccessTokens, NoCall, NoRequest, Executing, Ended,
         Statuses
<1>2. TokensGenuine
  BY DEF TokensGenuine, Informed, Genuine, NoCall, NoRequest
<1>3. Removed
  BY DEF Removed
<1>4. OneAtATime
  BY DEF OneAtATime, Open, NoCall
<1> QED BY <1>1, <1>2, <1>3, <1>4 DEF IInv

-----------------------------------------------------------------------------
(* The types.                                                               *)

\* What a client does keeps the types: it copies tokens that exist.
LEMMA ClientsType == IInv /\ Clients => TypeOK'
<1> SUFFICES ASSUME IInv, Clients PROVE TypeOK'
  OBVIOUS
<1> USE SessionAssumption DEF SessionAssumption
<1>0. TypeOK /\ TokensGenuine
  BY DEF IInv
<1>1. \A t \in 0 .. clock : t \in Seconds
  BY <1>0 DEF TypeOK, Seconds
<1>2. ASSUME NEW c \in Calls, call[c].pc = "ok", call[c].kind # "logout"
      PROVE  Issued(c) \in AccessTokens
  BY <1>0, <1>2 DEF TypeOK, TokensGenuine, Informed, Issued, AccessTokens
<1>3. ASSUME NEW c \in Calls
      PROVE  call'[c] \in [kind : {"login", "refresh", "logout"},
                           pc : Executing \cup Ended \cup {"free"},
                           token : RefreshTokens \cup {None},
                           role : Roles \cup {None}, read : Seconds, iat : Seconds]
  BY <1>0, <1>1 DEF Clients, TypeOK, NoCall, Executing, Ended, RefreshTokens, Seconds
<1>4. ASSUME NEW t \in Tabs
      PROVE  accessToken'[t] \in AccessTokens \cup {None}
  BY <1>0, <1>2 DEF Clients, TypeOK
<1>5. ASSUME NEW q \in Requests
      PROVE  request'[q] \in [pc : {"free", "sent", "served", "unauthorized"},
                              token : AccessTokens \cup {None}]
  BY <1>0, <1>4 DEF Clients, TypeOK, NoRequest
<1>6. /\ call' \in [Calls -> [kind : {"login", "refresh", "logout"},
                              pc : Executing \cup Ended \cup {"free"},
                              token : RefreshTokens \cup {None},
                              role : Roles \cup {None}, read : Seconds, iat : Seconds]]
      /\ accessToken' \in [Tabs -> AccessTokens \cup {None}]
      /\ request' \in [Requests -> [pc : {"free", "sent", "served", "unauthorized"},
                                    token : AccessTokens \cup {None}]]
  BY <1>3, <1>4, <1>5 DEF Clients
<1> QED BY <1>0, <1>6 DEF Clients, TypeOK, row, admin

\* a row
RowType == [status : Statuses, role : Roles, hash : RefreshTokens \cup {None}]

\* A write keeps the types of the row and of its history.
LEMMA BecomesType ==
    ASSUME TypeOK, NEW u \in RowType, Becomes(u)
    PROVE  account' \in RowType /\ had' \in [Roles -> Seconds \cup {None}]
BY DEF TypeOK, Becomes

LEMMA WriteType ==
    ASSUME TypeOK, NEW u \in RowType, Write(u)
    PROVE  /\ account' \in RowType /\ had' \in [Roles -> Seconds \cup {None}]
           /\ revivedAt' \in Seconds \cup {None}
<1>1. Becomes(u) /\ revivedAt' \in {clock, revivedAt}
  BY DEF Write
<1> QED BY <1>1, BecomesType DEF TypeOK

\* What becomes of the row when somebody else writes it: any change, a removal,
\* or the loss of its hash.
Written(u) ==
    /\ u.hash \in {account.hash, None}
    /\ \/ Write(u) /\ UNCHANGED <<removal, removedAt>>
       \/ Becomes(u) /\ ~Active(u) /\ removal' = "row" /\ removedAt' = clock /\ revivedAt' = None
       \/ /\ account' = u /\ UNCHANGED <<had, admin>>
          /\ u.status = account.status /\ u.role = account.role

LEMMA RowWritten ==
    ASSUME TypeOK, Administer
    PROVE  \E u \in RowType : Written(u)
<1>0. account \in RowType
  BY DEF TypeOK, RowType
<1> DEFINE Row(s, r, h) == [account EXCEPT !.status = s, !.role = r, !.hash = h]
<1>r. ASSUME NEW s \in Statuses, NEW r \in Roles, NEW h \in {account.hash, None}
      PROVE  /\ Row(s, r, h) \in RowType /\ Row(s, r, h).hash = h
             /\ Row(s, r, h).status = s /\ Row(s, r, h).role = r
  BY <1>0 DEF RowType
<1>f. account.status \in Statuses /\ account.role \in Roles
  BY <1>0 DEF RowType
<1>w. ASSUME NEW s \in Statuses, NEW r \in Roles, NEW h \in {account.hash, None},
             Write(Row(s, r, h)), UNCHANGED <<removal, removedAt>>
      PROVE  \E u \in RowType : Written(u)
  <2> HIDE DEF Row
  <2> QED BY <1>r, <1>w DEF Written
<1>1. CASE UpdateUser
  <2>1. PICK s \in Statuses, r \in Roles : Write([account EXCEPT !.status = s, !.role = r])
    BY <1>1 DEF UpdateUser
  <2>2. [account EXCEPT !.status = s, !.role = r] = Row(s, r, account.hash)
    BY <1>0 DEF RowType
  <2> QED BY <1>1, <1>w, <2>1, <2>2 DEF UpdateUser
<1>2. ASSUME NEW r \in Roles, ChangeRole(r) PROVE \E u \in RowType : Written(u)
  <2>1. [account EXCEPT !.role = r] = Row(account.status, r, account.hash)
    BY <1>0 DEF RowType
  <2> QED BY <1>2, <1>f, <1>w, <2>1 DEF ChangeRole
<1>3. CASE BlockPassword
  <2>1. [account EXCEPT !.status = "PASSBLOCK"] = Row("PASSBLOCK", account.role, account.hash)
    BY <1>0 DEF RowType
  <2> QED BY <1>3, <1>f, <1>w, <2>1 DEF BlockPassword, Statuses
<1>4. CASE ResetPassword
  <2>1. [account EXCEPT !.status = "ACTIVE", !.hash = None] = Row("ACTIVE", account.role, None)
    BY <1>0 DEF RowType
  <2> QED BY <1>4, <1>f, <1>w, <2>1 DEF ResetPassword, Statuses
<1>5. CASE RemoveRow
  <2>1. [account EXCEPT !.status = "REVOKED"] = Row("REVOKED", account.role, account.hash)
    BY <1>0 DEF RowType
  <2>2. "REVOKED" \in Statuses
    BY DEF Statuses
  <2>3. ~Active(Row("REVOKED", account.role, account.hash))
    BY <1>f, <1>r, <2>2 DEF Active
  <2> QED BY <1>5, <1>f, <1>r, <2>1, <2>2, <2>3 DEF RemoveRow, Written
<1>6. CASE LogoutById
  <2>1. [account EXCEPT !.hash = None] = Row(account.status, account.role, None)
    BY <1>0 DEF RowType
  <2>2. account' = Row(account.status, account.role, None) /\ UNCHANGED <<had, admin>>
    BY <1>6, <2>1 DEF LogoutById
  <2> HIDE DEF Row
  <2> QED BY <1>f, <1>r, <2>2 DEF Written
<1> QED BY <1>1, <1>2, <1>3, <1>4, <1>5, <1>6 DEF Administer

\* Whoever writes the row leaves everything else alone.
LEMMA OthersKept ==
    Administer => UNCHANGED <<clock, accessLife, newest, blackUntil, call, request, accessToken,
                              alone>>
BY DEF Administer, UpdateUser, RemoveRow, BlockPassword, ResetPassword, LogoutById, ChangeRole,
       admin

\* The hash of the row is lost, or as it was.
LEMMA HashKept == TypeOK /\ Administer => account'.hash \in {account.hash, None}
BY RowWritten DEF Written, Write, Becomes

LEMMA StepType == IInv /\ [Next]_vars => TypeOK'
<1> SUFFICES ASSUME IInv, [Next]_vars PROVE TypeOK'
  OBVIOUS
<1>0. TypeOK
  BY DEF IInv
<1> USE SessionAssumption DEF SessionAssumption, TypeOK, Seconds, RefreshTokens, Executing,
        Ended, Statuses, RowType, row, admin
<1>1. CASE UNCHANGED vars
  BY <1>0, <1>1 DEF vars
<1>2. CASE Tick
  BY <1>0, <1>2 DEF Tick
<1>3. CASE Clients
  BY <1>3, ClientsType
<1>4. CASE Administer
  <2>1. PICK u \in RowType : Written(u)
    BY <1>0, <1>4, RowWritten
  <2>2. UNCHANGED <<clock, accessLife, newest, blackUntil, call, request, accessToken, alone>>
    BY <1>4, OthersKept
  <2>3. CASE Write(u) /\ UNCHANGED <<removal, removedAt>>
    BY <1>0, <2>2, <2>3, WriteType
  <2>4. CASE Becomes(u) /\ removal' = "row" /\ removedAt' = clock /\ revivedAt' = None
    BY <1>0, <2>2, <2>4, BecomesType
  <2>5. CASE account' = u /\ UNCHANGED <<had, admin>>
    BY <1>0, <2>2, <2>5
  <2> QED BY <2>1, <2>3, <2>4, <2>5 DEF Written
<1>n. NoCall \in CallType
  BY DEF CallType, NoCall
<1>5. ASSUME NEW c \in Calls, Serve(c) \/ Fail(c) PROVE TypeOK'
  <2>1. CASE Read(c)
    <3>1. call' = [call EXCEPT ![c] =
                     [call[c] EXCEPT !.pc = "minting", !.token = None, !.role = account.role, !.read = clock]]
      BY <2>1 DEF Read
    <3>2. call[c] \in CallType
      BY <1>0 DEF CallType
    <3>3. [call[c] EXCEPT !.pc = "minting", !.token = None, !.role = account.role, !.read = clock] \in CallType
      BY <1>0, <3>2 DEF CallType
    <3>4. call' \in [Calls -> CallType]
      BY <1>0, <3>1, <3>3 DEF CallType
    <3> QED BY <1>0, <2>1, <3>4 DEF Read, CallType
  <2>2. CASE Refuse(c)
    <3>1. call' = [call EXCEPT ![c] =
                     [NoCall EXCEPT !.kind = call[c].kind, !.pc = "refused"]]
      BY <2>2 DEF Refuse, GiveUp
    <3>2. call[c] \in CallType
      BY <1>0 DEF CallType
    <3>3. [NoCall EXCEPT !.kind = call[c].kind, !.pc = "refused"] \in CallType
      BY <1>n, <3>2 DEF CallType
    <3>4. call' \in [Calls -> CallType]
      BY <1>0, <3>1, <3>3 DEF CallType
    <3> QED BY <1>0, <2>2, <3>4 DEF Refuse, CallType
  <2>3. CASE Mint(c)
    <3>1. call' = [call EXCEPT ![c] =
                     [call[c] EXCEPT !.pc = "storing", !.iat = clock]]
      BY <2>3 DEF Mint
    <3>2. call[c] \in CallType
      BY <1>0 DEF CallType
    <3>3. [call[c] EXCEPT !.pc = "storing", !.iat = clock] \in CallType
      BY <1>0, <3>2 DEF CallType
    <3>4. call' \in [Calls -> CallType]
      BY <1>0, <3>1, <3>3 DEF CallType
    <3> QED BY <1>0, <2>3, <3>4 DEF Mint, CallType
  <2>4. CASE StoreHash(c)
    BY <1>0, <2>4 DEF StoreHash, Goto
  <2>5. CASE ClearHash(c)
    <3>1. call' = [call EXCEPT ![c].pc = "anchoring"]
      BY <2>5 DEF ClearHash, Goto
    <3>2. call[c] \in CallType
      BY <1>0 DEF CallType
    <3>3. [call[c] EXCEPT !.pc = "anchoring"] \in CallType
      BY <1>0, <3>2 DEF CallType
    <3>4. call' \in [Calls -> CallType]
      BY <1>0, <3>1, <3>3 DEF CallType
    <3>5. account' \in RowType
      BY <1>0, <2>5 DEF ClearHash, RowType
    <3> QED BY <1>0, <2>5, <3>4, <3>5 DEF ClearHash, CallType
  <2>6. CASE Anchored(c)
    <3>1. call' = [call EXCEPT ![c].pc = "ok"]
      BY <2>6 DEF Anchored, Goto
    <3>2. call[c] \in CallType
      BY <1>0 DEF CallType
    <3>3. [call[c] EXCEPT !.pc = "ok"] \in CallType
      BY <1>0, <3>2 DEF CallType
    <3>4. call' \in [Calls -> CallType]
      BY <1>0, <3>1, <3>3 DEF CallType
    <3> QED BY <1>0, <2>6, <3>4 DEF Anchored, CallType
  <2>7. CASE Fail(c)
    <3>1. call' = [call EXCEPT ![c] =
                     [NoCall EXCEPT !.kind = call[c].kind, !.pc = "failed"]]
      BY <2>7 DEF Fail, GiveUp
    <3>2. call[c] \in CallType
      BY <1>0 DEF CallType
    <3>3. [NoCall EXCEPT !.kind = call[c].kind, !.pc = "failed"] \in CallType
      BY <1>n, <3>2 DEF CallType
    <3>4. call' \in [Calls -> CallType]
      BY <1>0, <3>1, <3>3 DEF CallType
    <3> QED BY <1>0, <2>7, <3>4 DEF Fail, CallType
  <2> QED BY <1>5, <2>1, <2>2, <2>3, <2>4, <2>5, <2>6, <2>7 DEF Serve
<1>6. ASSUME NEW q \in Requests, Check(q) PROVE TypeOK'
  BY <1>0, <1>6 DEF Check
<1>7. CASE Blacklist
  BY <1>0, <1>7 DEF Blacklist
<1> QED BY <1>1, <1>2, <1>3, <1>4, <1>5, <1>6, <1>7 DEF Next

-----------------------------------------------------------------------------
(* Tokens.                                                                  *)

\* Time goes on.
LEMMA ClockGrows == IInv /\ [Next]_vars => clock \in Nat /\ clock' \in Nat /\ clock <= clock'
<1> SUFFICES ASSUME IInv, [Next]_vars PROVE clock \in Nat /\ clock' \in Nat /\ clock <= clock'
  OBVIOUS
<1>1. clock \in Nat
  BY SessionAssumption DEF IInv, TypeOK, Seconds, SessionAssumption
<1>2. clock' = clock \/ clock' = clock + 1
  BY OthersKept DEF Next, vars, Tick, Clients, Blacklist, Serve, Read, Refuse, Mint, StoreHash,
     ClearHash, Anchored, Fail, Check
<1> QED BY <1>1, <1>2

\* Whoever had a role at some second still has it or lost it no earlier, and
\* that second stays one at which the account was not removed.
LEMMA HeldKept ==
    ASSUME IInv, [Next]_vars, NEW r \in Roles, NEW t \in Seconds, t <= clock, HeldSince(r, t)
    PROVE  HeldSince(r, t)'
<1> USE SessionAssumption DEF SessionAssumption
<1>0. TypeOK /\ clock \in Nat /\ t \in Nat
  BY DEF IInv, TypeOK, Seconds
<1>r. /\ had \in [Roles -> Seconds \cup {None}] /\ clock # None
      /\ removedAt \in Nat \cup {None}
  BY <1>0 DEF TypeOK, Seconds
<1>1. CASE /\ account'.status = account.status /\ account'.role = account.role
           /\ UNCHANGED <<had, removedAt, revivedAt>>
  BY <1>1 DEF HeldSince, InRole, Active, Standing
<1>2. ASSUME NEW u, Becomes(u)
      PROVE  InRole(account', r) \/ (had'[r] # None /\ t <= had'[r])
  <2>1. CASE InRole(account, r) /\ ~InRole(u, r)
    <3>1. had'[r] = clock
      BY <1>2, <2>1 DEF Becomes
    <3> QED BY <3>1, <1>0, <1>r
  <2>2. CASE ~(InRole(account, r) /\ ~InRole(u, r))
    <3>1. had'[r] = had[r] /\ account' = u
      BY <1>2, <2>2 DEF Becomes
    <3> QED BY <3>1, <2>2 DEF HeldSince
  <2> QED BY <2>1, <2>2
<1>3. CASE Administer
  <2>1. PICK u \in RowType : Written(u)
    BY <1>0, <1>3, RowWritten
  <2>2. CASE Write(u) /\ UNCHANGED <<removal, removedAt>>
    <3>1. Becomes(u) /\ (revivedAt' = revivedAt \/ (revivedAt = None /\ revivedAt' = clock))
      BY <2>2 DEF Write
    <3>2. Standing(t)'
      BY <1>0, <1>r, <2>2, <3>1 DEF HeldSince, Standing
    <3>3. InRole(account', r) \/ (had'[r] # None /\ t <= had'[r])
      BY <1>2, <3>1
    <3> QED BY <3>2, <3>3 DEF HeldSince, InRole, Active
  <2>3. CASE Becomes(u) /\ removedAt' = clock
    <3>1. Standing(t)'
      BY <2>3 DEF Standing
    <3>2. InRole(account', r) \/ (had'[r] # None /\ t <= had'[r])
      BY <1>2, <2>3
    <3> QED BY <3>1, <3>2 DEF HeldSince, InRole, Active
  <2>4. CASE /\ account' = u /\ UNCHANGED <<had, admin>>
             /\ u.status = account.status /\ u.role = account.role
    BY <1>1, <2>4 DEF admin
  <2> QED BY <2>1, <2>2, <2>3, <2>4 DEF Written
<1>4. CASE \E c \in Calls : StoreHash(c) \/ ClearHash(c)
  <2>1. /\ UNCHANGED <<had, admin>>
        /\ account'.status = account.status /\ account'.role = account.role
    BY <1>0, <1>4 DEF StoreHash, ClearHash, TypeOK
  <2> QED BY <2>1, <1>1 DEF admin
<1> QED
  BY <1>1, <1>3, <1>4
  DEF Next, vars, row, admin, Tick, Blacklist, Clients, Serve, Read, Refuse, Mint, Anchored,
      Fail, Check

\* A genuine token stays genuine.
LEMMA GenuineKept ==
    ASSUME IInv, [Next]_vars, NEW token \in AccessTokens \cup {None}, Genuine(token)
    PROVE  Genuine(token)'
<1> SUFFICES ASSUME token # None PROVE Genuine(token)'
  BY DEF Genuine
<1>0. token.role \in Roles /\ token.read \in Seconds /\ token.iat \in Seconds
  BY DEF AccessTokens
<1>1. token.read \in Nat /\ token.iat \in Nat
  BY <1>0, SessionAssumption DEF Seconds, SessionAssumption
<1>2. clock \in Nat /\ clock' \in Nat /\ clock <= clock'
  BY ClockGrows
<1>3. token.read <= token.iat /\ token.iat <= clock /\ HeldSince(token.role, token.read)
  BY DEF Genuine
<1>4. token.read <= clock /\ token.iat <= clock'
  BY <1>1, <1>2, <1>3
<1>5. HeldSince(token.role, token.read)'
  BY <1>0, <1>3, <1>4, HeldKept
<1> QED BY <1>3, <1>4, <1>5 DEF Genuine

\* A call that does not change still knows what it knew.
LEMMA InformedKept ==
    ASSUME IInv, [Next]_vars, NEW c \in Calls, call'[c] = call[c]
    PROVE  Informed(c)'
<1>1. clock \in Nat /\ clock' \in Nat /\ clock <= clock'
  BY ClockGrows
<1>2. call[c] \in CallType /\ Informed(c)
  BY DEF IInv, TypeOK, TokensGenuine, CallType
<1>3. call[c].read \in Seconds /\ call[c].iat \in Seconds /\ call[c].read \in Nat
      /\ call[c].iat \in Nat
  BY <1>2, SessionAssumption DEF CallType, Seconds, SessionAssumption
<1>4. ASSUME call[c].role # None
      PROVE  HeldSince(call[c].role, call[c].read)'
  <2>1. call[c].role \in Roles /\ call[c].read <= clock
        /\ HeldSince(call[c].role, call[c].read)
    BY <1>2, <1>4 DEF Informed, CallType
  <2>2. \A r \in Roles : \A t \in Seconds :
            t <= clock /\ HeldSince(r, t) => HeldSince(r, t)'
    BY HeldKept
  <2>3. PICK r \in Roles, t \in Seconds : r = call[c].role /\ t = call[c].read
    BY <1>3, <2>1
  <2>4. HeldSince(r, t)'
    BY <2>1, <2>2, <2>3
  <2> QED BY <2>3, <2>4 DEF HeldSince, InRole, Active, Standing
<1>5. /\ call[c].role # None => call[c].read <= clock'
      /\ call[c].role # None /\ call[c].pc \in Signed =>
            call[c].read <= call[c].iat /\ call[c].iat <= clock'
  BY <1>1, <1>2, <1>3 DEF Informed
<1> QED BY <1>2, <1>4, <1>5 DEF Informed

\* A step of call c alone leaves the tokens genuine if it leaves c informed.
LEMMA ServedTokens ==
    ASSUME IInv, [Next]_vars, NEW c \in Calls, Informed(c)',
           \A d \in Calls \ {c} : call'[d] = call[d],
           UNCHANGED <<accessToken, request>>
    PROVE  TokensGenuine'
<1>0. TypeOK /\ TokensGenuine
  BY DEF IInv
<1>1. \A d \in Calls : Informed(d)'
  BY InformedKept
<1>2. ASSUME NEW t \in Tabs PROVE Genuine(accessToken[t])'
  <2>1. accessToken[t] \in AccessTokens \cup {None} /\ Genuine(accessToken[t])
    BY <1>0 DEF TypeOK, TokensGenuine
  <2>2. \A k \in AccessTokens \cup {None} : Genuine(k) => Genuine(k)'
    BY GenuineKept
  <2> QED BY <2>1, <2>2 DEF Genuine, HeldSince, InRole, Active, Standing
<1>3. ASSUME NEW q \in Requests PROVE Genuine(request[q].token)'
  <2>1. request[q].token \in AccessTokens \cup {None} /\ Genuine(request[q].token)
    BY <1>0 DEF TypeOK, TokensGenuine
  <2>2. \A k \in AccessTokens \cup {None} : Genuine(k) => Genuine(k)'
    BY GenuineKept
  <2> QED BY <2>1, <2>2 DEF Genuine, HeldSince, InRole, Active, Standing
<1> QED BY <1>1, <1>2, <1>3 DEF TokensGenuine

\* What a client puts in its memory and in its requests is genuine.
LEMMA ClientsTokens == IInv /\ Clients => TokensGenuine'
<1> SUFFICES ASSUME IInv, Clients PROVE TokensGenuine'
  OBVIOUS
<1>0. TypeOK /\ TokensGenuine /\ [Next]_vars
  BY DEF IInv, Next
<1>1. ASSUME NEW c \in Calls PROVE Informed(c)'
  <2>1. CASE call'[c] = call[c]
    BY <1>0, <2>1, InformedKept
  <2>2. CASE call'[c] # call[c]
    <3>1. call'[c].role = None /\ call'[c].pc \in {"free", "sent"}
      BY <1>0, <2>2 DEF Clients, TokensGenuine, Informed, NoCall, Ended
    <3> QED BY <3>1 DEF Informed
  <2> QED BY <2>1, <2>2
<1>2. \A k \in AccessTokens \cup {None} : Genuine(k) => Genuine(k)'
  BY <1>0, GenuineKept
<1>3. ASSUME NEW c \in Calls, call[c].pc = "ok", call[c].kind # "logout"
      PROVE  Issued(c) \in AccessTokens /\ Genuine(Issued(c))
  <2>1. call[c] \in CallType /\ call[c].role # None /\ Informed(c)
    BY <1>0, <1>3 DEF TypeOK, CallType, TokensGenuine, Informed
  <2>2. Issued(c) \in AccessTokens
    BY <2>1 DEF CallType, Issued, AccessTokens
  <2>3. /\ Issued(c).role = call[c].role /\ Issued(c).read = call[c].read
        /\ Issued(c).iat = call[c].iat
    BY DEF Issued
  <2> QED BY <1>3, <2>1, <2>2, <2>3 DEF Genuine, Informed, Signed
<1>4. ASSUME NEW t \in Tabs
      PROVE  \E k \in AccessTokens \cup {None} : accessToken'[t] = k /\ Genuine(k)
  <2>1. CASE \E u \in Tabs : accessToken'[t] = accessToken[u]
    BY <1>0, <2>1 DEF TypeOK, TokensGenuine
  <2>2. CASE accessToken'[t] = None
    BY <2>2 DEF Genuine
  <2>3. CASE \E c \in Calls : call[c].pc = "ok" /\ call[c].kind # "logout"
                                /\ accessToken'[t] = Issued(c)
    BY <1>3, <2>3
  <2>4. accessToken' \in [Tabs -> {accessToken[u] : u \in Tabs} \cup {None} \cup
                                  {Issued(c) : c \in {d \in Calls : call[d].pc = "ok"
                                                            /\ call[d].kind # "logout"}}]
    BY DEF Clients
  <2>5. accessToken'[t] \in {accessToken[u] : u \in Tabs} \cup {None} \cup
                                  {Issued(c) : c \in {d \in Calls : call[d].pc = "ok"
                                                            /\ call[d].kind # "logout"}}
    BY <2>4
  <2> QED BY <2>1, <2>2, <2>3, <2>5
<1>5. ASSUME NEW q \in Requests
      PROVE  \E k \in AccessTokens \cup {None} : request'[q].token = k /\ Genuine(k)
  <2>1. CASE \E p \in Requests : request'[q] = request[p]
    BY <1>0, <2>1 DEF TypeOK, TokensGenuine
  <2>2. CASE request'[q] = NoRequest
    BY <2>2 DEF Genuine, NoRequest
  <2>3. CASE \E t \in Tabs : request'[q].token = accessToken'[t]
    BY <1>4, <2>3
  <2>4. request' \in [Requests -> {request[p] : p \in Requests} \cup
                  [pc : {"sent"}, token : {accessToken'[t] : t \in Tabs}] \cup {NoRequest}]
    BY DEF Clients
  <2>5. request'[q] \in {request[p] : p \in Requests} \cup
                  [pc : {"sent"}, token : {accessToken'[t] : t \in Tabs}] \cup {NoRequest}
    BY <2>4
  <2> QED BY <2>1, <2>2, <2>3, <2>5
<1>6. \A t \in Tabs : Genuine(accessToken[t])'
  BY <1>2, <1>4 DEF Genuine, HeldSince, InRole, Active, Standing
<1>7. \A q \in Requests : Genuine(request[q].token)'
  BY <1>2, <1>5 DEF Genuine, HeldSince, InRole, Active, Standing
<1> QED BY <1>1, <1>6, <1>7 DEF TokensGenuine

LEMMA StepTokens == IInv /\ [Next]_vars => TokensGenuine'
<1> SUFFICES ASSUME IInv, [Next]_vars PROVE TokensGenuine'
  OBVIOUS
<1> USE SessionAssumption DEF SessionAssumption
<1>0. TypeOK /\ TokensGenuine /\ Removed
  BY DEF IInv
<1>c. ASSUME NEW c \in Calls PROVE call[c] \in CallType /\ Informed(c)
  BY <1>0 DEF TypeOK, CallType, TokensGenuine
<1>t. clock \in Nat /\ clock \in Seconds /\ account.role \in Roles
  BY <1>0 DEF TypeOK, Seconds
<1>1. CASE UNCHANGED <<call, accessToken, request>>
  <2>1. \A c \in Calls : Informed(c)'
    BY <1>1, InformedKept
  <2>2. \A k \in AccessTokens \cup {None} : Genuine(k) => Genuine(k)'
    BY GenuineKept
  <2>3. \A t \in Tabs : accessToken[t] \in AccessTokens \cup {None} /\ Genuine(accessToken[t])
    BY <1>0 DEF TypeOK, TokensGenuine
  <2>4. \A q \in Requests : request[q].token \in AccessTokens \cup {None}
                              /\ Genuine(request[q].token)
    BY <1>0 DEF TypeOK, TokensGenuine
  <2>5. \A t \in Tabs : Genuine(accessToken[t])'
    BY <1>1, <2>2, <2>3 DEF Genuine, HeldSince, InRole, Active, Standing
  <2>6. \A q \in Requests : Genuine(request[q].token)'
    BY <1>1, <2>2, <2>4 DEF Genuine, HeldSince, InRole, Active, Standing
  <2> QED BY <2>1, <2>5, <2>6 DEF TokensGenuine
<1>2. CASE Clients
  BY <1>2, ClientsTokens
<1>3. ASSUME NEW c \in Calls, Serve(c) \/ Fail(c) PROVE TokensGenuine'
  <2>u. UNCHANGED <<accessToken, request, clock>> /\ \A d \in Calls \ {c} : call'[d] = call[d]
    BY <1>0, <1>3 DEF Serve, Read, Refuse, Mint, StoreHash, ClearHash, Anchored, Fail,
       GiveUp, Goto, TypeOK
  <2>1. CASE Read(c)
    <3>1. /\ call'[c].pc = "minting" /\ call'[c].role = account.role /\ call'[c].read = clock
          /\ Active(account) /\ UNCHANGED <<account, had, admin>>
      BY <1>0, <2>1 DEF Read, MaySignIn, MayRefresh, TypeOK, row
    <3>2. Standing(clock)
      BY <1>0, <3>1 DEF Removed, Standing
    <3>3. HeldSince(account.role, clock)'
      BY <2>u, <3>1, <3>2 DEF HeldSince, InRole, Active, Standing, admin
    <3>4. HeldSince(call[c].role, call[c].read)'
      BY <2>u, <3>1, <3>3 DEF HeldSince, InRole, Active, Standing
    <3> QED BY <1>t, <2>u, <3>1, <3>4, ServedTokens DEF Informed, HeldSince, InRole, Active,
            Standing, Signed
  <2>2. CASE Refuse(c)
    <3>1. call'[c].role = None /\ call'[c].pc = "refused"
      BY <1>0, <2>2 DEF Refuse, GiveUp, NoCall, TypeOK
    <3> QED BY <2>u, <3>1, ServedTokens DEF Informed
  <2>3. CASE Mint(c)
    <3>1. /\ call[c].pc = "minting" /\ call'[c].pc = "storing" /\ call'[c].role = call[c].role
          /\ call'[c].read = call[c].read /\ call'[c].iat = clock /\ UNCHANGED <<account, had, admin>>
      BY <1>0, <2>3 DEF Mint, TypeOK, row
    <3>2. Informed(c)'
      BY <1>c, <1>t, <2>u, <3>1 DEF Informed, HeldSince, InRole, Active, Standing, Signed, admin
    <3> QED BY <2>u, <3>2, ServedTokens
  <2>4. CASE StoreHash(c)
    <3>1. /\ call[c].pc = "storing" /\ call'[c].pc \in {"anchoring", "ok"}
          /\ call'[c].role = call[c].role /\ call'[c].read = call[c].read
          /\ call'[c].iat = call[c].iat /\ UNCHANGED <<had, admin>>
          /\ account'.status = account.status /\ account'.role = account.role
      BY <1>0, <2>4 DEF StoreHash, Goto, TypeOK
    <3>2. Informed(c)'
      BY <1>c, <1>t, <2>u, <3>1 DEF Informed, HeldSince, InRole, Active, Standing, Signed, admin
    <3> QED BY <2>u, <3>2, ServedTokens
  <2>5. CASE ClearHash(c)
    <3>1. /\ call[c].pc = "sent" /\ call[c].kind = "logout" /\ call'[c].pc = "anchoring"
          /\ call'[c].role = call[c].role /\ call'[c].kind = "logout"
      BY <1>0, <2>5 DEF ClearHash, Goto, TypeOK
    <3>2. Informed(c)'
      BY <1>c, <3>1 DEF Informed
    <3> QED BY <2>u, <3>2, ServedTokens
  <2>6. CASE Anchored(c)
    <3>1. /\ call[c].pc = "anchoring" /\ call'[c].pc = "ok" /\ call'[c].kind = call[c].kind
          /\ call'[c].role = call[c].role /\ call'[c].read = call[c].read
          /\ call'[c].iat = call[c].iat /\ UNCHANGED <<account, had, admin>>
      BY <1>0, <2>6 DEF Anchored, Goto, TypeOK, row
    <3>2. Informed(c)'
      BY <1>c, <1>t, <2>u, <3>1 DEF Informed, HeldSince, InRole, Active, Standing, Signed, admin
    <3> QED BY <2>u, <3>2, ServedTokens
  <2>7. CASE Fail(c)
    <3>1. call'[c].role = None /\ call'[c].pc = "failed"
      BY <1>0, <2>7 DEF Fail, GiveUp, NoCall, TypeOK
    <3> QED BY <2>u, <3>1, ServedTokens DEF Informed
  <2> QED BY <1>3, <2>1, <2>2, <2>3, <2>4, <2>5, <2>6, <2>7 DEF Serve
<1>4. ASSUME NEW q \in Requests, Check(q) PROVE TokensGenuine'
  <2>1. \A c \in Calls : Informed(c)'
    BY <1>4, InformedKept DEF Check
  <2>2. \A k \in AccessTokens \cup {None} : Genuine(k) => Genuine(k)'
    BY GenuineKept
  <2>3. \A t \in Tabs : accessToken'[t] = accessToken[t]
            /\ accessToken[t] \in AccessTokens \cup {None} /\ Genuine(accessToken[t])
    BY <1>0, <1>4 DEF TypeOK, TokensGenuine, Check
  <2>4. \A p \in Requests : request'[p].token = request[p].token
            /\ request[p].token \in AccessTokens \cup {None} /\ Genuine(request[p].token)
    BY <1>0, <1>4 DEF TypeOK, TokensGenuine, Check
  <2>5. \A t \in Tabs : Genuine(accessToken[t])'
    BY <2>2, <2>3 DEF Genuine, HeldSince, InRole, Active, Standing
  <2>6. \A p \in Requests : Genuine(request[p].token)'
    BY <2>2, <2>4 DEF Genuine, HeldSince, InRole, Active, Standing
  <2> QED BY <2>1, <2>5, <2>6 DEF TokensGenuine
<1>5. Tick \/ Administer \/ Blacklist => UNCHANGED <<call, accessToken, request>>
  BY OthersKept DEF Tick, Blacklist
<1> QED BY <1>1, <1>2, <1>3, <1>4, <1>5 DEF Next, vars

-----------------------------------------------------------------------------
(* Removals.                                                                *)

LEMMA StepRemoved == IInv /\ [Next]_vars => Removed'
<1> SUFFICES ASSUME IInv, [Next]_vars PROVE Removed'
  OBVIOUS
<1> USE SessionAssumption DEF SessionAssumption
<1>0. TypeOK /\ Removed
  BY DEF IInv
<1>t. /\ had \in [Roles -> Seconds \cup {None}] /\ blackUntil \in Nat /\ Seconds \subseteq Nat
      /\ removedAt \in Seconds \cup {None} /\ revivedAt \in Seconds \cup {None} /\ clock # None
  BY <1>0 DEF TypeOK, Seconds
<1>c. clock \in Nat /\ clock' \in Nat /\ clock <= clock'
  BY ClockGrows
<1>v. /\ \A r \in Roles : had[r] # None => had[r] \in Nat /\ had[r] <= clock'
      /\ removedAt # None => removedAt \in Nat /\ removedAt <= clock'
      /\ removedAt # None /\ revivedAt # None => revivedAt <= clock'
  <2>1. ASSUME NEW r \in Roles, had[r] # None PROVE had[r] \in Nat /\ had[r] <= clock'
    <3>1. had[r] \in Seconds
      BY <1>t, <2>1
    <3>2. had[r] \in Nat
      BY <1>t, <3>1
    <3>3. had[r] <= clock
      BY <1>0, <2>1 DEF Removed
    <3> QED BY <1>c, <3>2, <3>3
  <2>2. removedAt # None => removedAt \in Nat /\ removedAt <= clock'
    BY <1>0, <1>c, <1>t DEF Removed
  <2>3. removedAt # None /\ revivedAt # None => revivedAt \in Nat /\ revivedAt <= clock'
    BY <1>0, <1>c, <1>t DEF Removed
  <2> QED BY <2>1, <2>2, <2>3
<1>1. CASE UNCHANGED <<had, admin>> /\ account'.status = account.status
  BY <1>0, <1>1, <1>v DEF Removed, admin, Active
<1>2. CASE Blacklist
  <2>1. /\ removal = "row" /\ UNCHANGED <<clock, account, had, removedAt, revivedAt>>
        /\ \/ removal' = "listed" /\ blackUntil' = clock + BlacklistLife
           \/ removal' = "failed"
    BY <1>2 DEF Blacklist, row
  <2>2. removedAt # None /\ removedAt <= clock /\ removedAt \in Nat
    BY <1>0, <1>t, <2>1 DEF Removed
  <2>3. removal' = "listed" => removedAt' + BlacklistLife <= blackUntil'
    BY <1>c, <2>1, <2>2
  <2> QED BY <1>0, <2>1, <2>2, <2>3 DEF Removed
<1>3. CASE Administer
  <2>1. PICK u \in RowType : Written(u)
    BY <1>0, <1>3, RowWritten
  <2>2. clock' = clock /\ blackUntil' = blackUntil
    BY <1>3, OthersKept
  <2>3. ASSUME Becomes(u)
        PROVE  account' = u /\ \A r \in Roles : had'[r] # None => had'[r] <= clock'
    BY <1>0, <1>c, <1>v, <2>2, <2>3 DEF Becomes
  <2>4. CASE Write(u) /\ UNCHANGED <<removal, removedAt>>
    <3>1. /\ account' = u /\ \A r \in Roles : had'[r] # None => had'[r] <= clock'
          /\ revivedAt' = IF removedAt # None /\ revivedAt = None /\ Active(u) THEN clock
                          ELSE revivedAt
      BY <2>3, <2>4 DEF Write
    <3>2. ASSUME removedAt # None
          PROVE  IF revivedAt' = None THEN ~Active(account') ELSE revivedAt' <= clock'
      BY <1>c, <1>t, <1>v, <2>2, <3>1, <3>2
    <3> QED BY <1>0, <1>v, <2>2, <2>4, <3>1, <3>2 DEF Removed, Active
  <2>5. CASE /\ Becomes(u) /\ ~Active(u) /\ removal' = "row" /\ removedAt' = clock
             /\ revivedAt' = None
    BY <1>c, <1>t, <2>2, <2>3, <2>5 DEF Removed, Active
  <2>6. CASE UNCHANGED <<had, admin>> /\ account' = u /\ u.status = account.status
    BY <1>1, <2>6
  <2> QED BY <2>1, <2>4, <2>5, <2>6 DEF Written
<1>4. CASE \E c \in Calls : StoreHash(c) \/ ClearHash(c)
  <2>1. UNCHANGED <<had, admin>> /\ account'.status = account.status
    BY <1>0, <1>4 DEF StoreHash, ClearHash, TypeOK
  <2> QED BY <2>1, <1>1
<1> QED
  BY <1>1, <1>2, <1>3, <1>4
  DEF Next, vars, row, Tick, Clients, Serve, Read, Refuse, Mint, Anchored, Fail, Check

-----------------------------------------------------------------------------
(* One call at a time.                                                      *)

LEMMA StepOneAtATime == IInv /\ [Next]_vars => OneAtATime'
<1> SUFFICES ASSUME IInv, [Next]_vars PROVE OneAtATime'
  OBVIOUS
<1> USE SessionAssumption DEF SessionAssumption
<1>0. TypeOK /\ TokensGenuine /\ OneAtATime
  BY DEF IInv
<1>t. /\ newest \in Nat \cup {None}
      /\ \A c \in Calls : call[c] \in CallType /\ call[c].iat \in Nat
  BY <1>0 DEF TypeOK, Seconds, RefreshTokens, CallType
<1>c. clock \in Nat /\ clock' \in Nat /\ clock <= clock'
  BY ClockGrows
<1>n. newest # None => newest <= clock'
  BY <1>0, <1>c, <1>t DEF OneAtATime
\* A step that writes no hash, and opens no call.
<1>1. ASSUME /\ UNCHANGED newest
             /\ account'.hash \in {account.hash, None}
             /\ alone' => alone
             /\ \A c \in Calls : call'[c].pc # "free" => call[c].pc # "free"
             /\ \A c \in Calls : call'[c].pc = "storing" => call'[c] = call[c]
      PROVE  OneAtATime'
  BY <1>0, <1>1, <1>n DEF OneAtATime, Open
<1>2. CASE UNCHANGED <<call, newest, alone>> /\ account'.hash \in {account.hash, None}
  BY <1>1, <1>2
<1>3. CASE Clients
  <2>1. UNCHANGED <<newest, account>> /\ (alone' => alone)
    BY <1>3 DEF Clients, row
  <2>2. \A c \in Calls : call'[c].pc = "storing" => call'[c] = call[c]
    BY <1>3 DEF Clients, NoCall
  <2>3. ASSUME alone', NEW c \in Open', NEW d \in Open' PROVE c = d
    <3>1. CASE call'[c] = call[c] /\ call'[d] = call[d]
      BY <1>0, <2>1, <2>3, <3>1 DEF OneAtATime, Open
    <3>2. ASSUME NEW e \in Calls, call'[e] # call[e], call'[e].pc # "free"
          PROVE  \A x \in Calls : x # e => call'[x].pc = "free"
      <4>1. call'[e].pc = "sent"
        BY <1>3, <3>2 DEF Clients, NoCall
      <4> QED BY <1>3, <2>3, <3>2, <4>1 DEF Clients
    <3> QED BY <3>1, <3>2, <2>3 DEF Open
  <2> QED BY <1>0, <1>n, <2>1, <2>2, <2>3 DEF OneAtATime
<1>4. ASSUME NEW c \in Calls, Serve(c) \/ Fail(c) PROVE OneAtATime'
  <2>u. /\ alone' = alone /\ \A d \in Calls \ {c} : call'[d] = call[d]
        /\ call[c].pc # "free" /\ clock' = clock
    BY <1>0, <1>4 DEF Serve, Read, Refuse, Mint, StoreHash, ClearHash, Anchored, Fail,
       GiveUp, Goto, TypeOK, Executing
  <2>1. CASE Read(c) \/ Refuse(c) \/ Anchored(c) \/ Fail(c)
    <3>1. UNCHANGED <<newest, account>>
      BY <2>1 DEF Read, Refuse, Anchored, Fail, row
    <3>2. call'[c].pc # "storing"
      <4>1. Read(c) => call'[c].pc = "minting"
        BY <1>0 DEF Read, TypeOK
      <4>2. ASSUME NEW l, GiveUp(c, l) PROVE call'[c].pc = l
        BY <1>0, <4>2 DEF GiveUp, NoCall, TypeOK
      <4>3. Anchored(c) => call'[c].pc = "ok"
        BY <1>0 DEF Anchored, Goto, TypeOK
      <4> QED BY <2>1, <4>1, <4>2, <4>3 DEF Refuse, Fail
    <3> QED BY <1>1, <2>u, <3>1, <3>2
  <2>2. CASE Mint(c)
    <3>1. UNCHANGED <<newest, account>> /\ call'[c].iat = clock
      BY <1>0, <2>2 DEF Mint, TypeOK, row
    <3>2. \A d \in Open' : d \in Open
      BY <2>u DEF Open
    <3> QED BY <1>0, <1>n, <2>u, <3>1, <3>2 DEF OneAtATime
  <2>3. CASE StoreHash(c)
    <3>1. /\ account'.hash = call[c].iat /\ call[c].pc = "storing"
          /\ newest' = IF newest = None \/ newest < call[c].iat THEN call[c].iat ELSE newest
          /\ call'[c].pc # "storing"
      BY <1>0, <2>3 DEF StoreHash, Goto, TypeOK
    <3>2. call[c].iat <= clock
      BY <1>0, <3>1 DEF TokensGenuine, Informed, Signed
    <3>3. newest' # None => newest' <= clock'
      BY <1>c, <1>n, <1>t, <2>u, <3>1, <3>2
    <3>4. ASSUME alone' PROVE account'.hash = newest'
      <4>1. newest # None => newest <= call[c].iat
        BY <1>0, <2>u, <3>1, <3>4 DEF OneAtATime
      <4> QED BY <1>t, <3>1, <4>1
    <3>5. \A d \in Open' : d \in Open
      BY <2>u DEF Open
    <3>6. ASSUME alone', NEW d \in Calls PROVE call'[d].pc # "storing"
      BY <1>0, <2>u, <3>1, <3>6 DEF OneAtATime, Open
    <3> QED BY <1>0, <2>u, <3>3, <3>4, <3>5, <3>6 DEF OneAtATime
  <2>4. CASE ClearHash(c)
    <3>1. UNCHANGED newest /\ account'.hash = None /\ call'[c].pc # "storing"
      BY <1>0, <2>4 DEF ClearHash, Goto, TypeOK
    <3> QED BY <1>1, <2>u, <3>1
  <2> QED BY <1>4, <2>1, <2>2, <2>3, <2>4 DEF Serve
<1>5. ASSUME NEW q \in Requests, Check(q) PROVE OneAtATime'
  BY <1>2, <1>5 DEF Check, row
<1>6. CASE Tick \/ Blacklist \/ Administer
  <2>1. Tick \/ Blacklist => UNCHANGED <<account, call, newest, alone>>
    BY DEF Tick, Blacklist, row
  <2>2. Administer => UNCHANGED <<call, newest, alone>> /\ account'.hash \in {account.hash, None}
    BY <1>0, OthersKept, HashKept
  <2> QED BY <1>2, <1>6, <2>1, <2>2
<1>7. CASE UNCHANGED vars
  BY <1>2, <1>7 DEF vars, row
<1> QED BY <1>3, <1>4, <1>5, <1>6, <1>7 DEF Next

-----------------------------------------------------------------------------
(* Theorems of Session.                                                     *)

\* The invariant holds in every reachable state.
THEOREM Invariant == Spec => []IInv
<1>1. Init => IInv
  BY InitIInv
<1>2. IInv /\ [Next]_vars => IInv'
  BY StepType, StepTokens, StepRemoved, StepOneAtATime DEF IInv
<1> QED BY <1>1, <1>2, PTL DEF Spec

\* Every variable keeps its type, whatever clients, administrators and time do.
THEOREM TypeCorrect == Spec => []TypeOK
<1>1. IInv => TypeOK
  BY DEF IInv
<1> QED BY <1>1, Invariant, PTL

\* Only JwtStrategy serves a request, and only with a valid token.
LEMMA AcceptedIsValid ==
    ASSUME IInv, [Next]_vars, NEW q \in Requests, Accepted(q)
    PROVE  Valid(request[q].token)
<1>0. TypeOK
  BY DEF IInv
<1>1. request[q].pc = "sent" /\ request'[q].pc = "served" /\ request' # request
  BY DEF Accepted
<1>2. ~ Clients
  BY <1>0, <1>1 DEF Clients, NoRequest, TypeOK
<1>3. \A p \in Requests : Check(p) => p = q
  BY <1>0, <1>1 DEF Check, TypeOK
<1>4. Check(q)
  BY <1>1, <1>2, <1>3, OthersKept
  DEF Next, vars, Tick, Blacklist, Serve, Read, Refuse, Mint, StoreHash, ClearHash, Anchored, Fail
<1> QED BY <1>0, <1>1, <1>4 DEF Check, TypeOK

\* For every lifetime a deployment may choose, JwtStrategy and RolesGuard let a
\* role be used no longer after its loss than a token lives and its issue took.
THEOREM StaleRoleSafe == Spec => StaleRoleEnds
<1>1. ASSUME IInv, [Next]_vars, NEW q \in Requests, Accepted(q)
      PROVE  LET t == request[q].token IN
                \/ InRole(account, t.role)
                \/ /\ had[t.role] # None
                   /\ clock < had[t.role] + accessLife + (t.iat - t.read)
  <2> DEFINE t == request[q].token
  <2>0. TypeOK /\ Genuine(t)
    BY <1>1 DEF IInv, TokensGenuine
  <2>2. Valid(t)
    BY <1>1, AcceptedIsValid
  <2>3. t \in AccessTokens /\ t.role \in Roles /\ t.read \in Nat /\ t.iat \in Nat
    BY <2>0, <2>2, SessionAssumption
    DEF Valid, TypeOK, AccessTokens, Seconds, SessionAssumption
  <2>4. clock \in Nat /\ accessLife \in Nat /\ had[t.role] \in Nat \cup {None}
    BY <2>0, <2>3, SessionAssumption DEF TypeOK, Seconds, SessionAssumption
  <2>5. clock < t.iat + accessLife /\ HeldSince(t.role, t.read)
    BY <2>0, <2>2 DEF Valid, Alive, Genuine
  <2>6. CASE InRole(account, t.role)
    BY <2>6
  <2>7. CASE had[t.role] # None /\ t.read <= had[t.role]
    BY <2>3, <2>4, <2>5, <2>7
  <2> QED BY <2>5, <2>6, <2>7 DEF HeldSince
<1>2. IInv /\ [Next]_vars =>
        [\A q \in Requests : Accepted(q) =>
            LET t == request[q].token IN
                \/ InRole(account, t.role)
                \/ /\ had[t.role] # None
                   /\ clock < had[t.role] + accessLife + (t.iat - t.read)]_vars
  BY <1>1
<1> QED BY <1>2, Invariant, PTL DEF Spec, StaleRoleEnds

\* After a removal has written its Redis entry, and when tokens live no longer
\* than the entry, the account is let in only with a token that a call signed
\* after the removal, from a row read before it or once something had made the
\* row active again: for any lifetimes, and however often that happens.
THEOREM RemovalSafe == Spec => RemovalCoversTokens
<1>1. ASSUME IInv, [Next]_vars, NEW q \in Requests,
             Accepted(q), removal = "listed", accessLife <= BlacklistLife
      PROVE  LET t == request[q].token IN
                /\ t.iat > removedAt
                /\ t.read <= removedAt \/ (revivedAt # None /\ revivedAt <= t.read)
  <2> DEFINE t == request[q].token
  <2>0. TypeOK /\ Genuine(t) /\ Removed
    BY <1>1 DEF IInv, TokensGenuine
  <2>1. Valid(t)
    BY <1>1, AcceptedIsValid
  <2>2. t.role \in Roles /\ t.read \in Nat /\ t.iat \in Nat
    BY <2>0, <2>1, SessionAssumption
    DEF Valid, TypeOK, AccessTokens, Seconds, SessionAssumption
  <2>3. /\ clock \in Nat /\ accessLife \in Nat /\ blackUntil \in Nat /\ BlacklistLife \in Nat
        /\ removedAt \in Nat /\ removedAt # None
    BY <1>1, <2>0, <2>2, SessionAssumption DEF TypeOK, Seconds, SessionAssumption, Removed
  <2>4. clock < t.iat + accessLife /\ ~(clock < blackUntil) /\ HeldSince(t.role, t.read)
    BY <2>0, <2>1 DEF Valid, Alive, Genuine, Blacklisted
  <2>5. removedAt + BlacklistLife <= blackUntil
    BY <1>1, <2>0 DEF Removed
  <2>6. t.iat > removedAt
    BY <1>1, <2>2, <2>3, <2>4, <2>5
  <2>7. t.read <= removedAt \/ (revivedAt # None /\ revivedAt <= t.read)
    BY <2>3, <2>4 DEF HeldSince, Standing
  <2> QED BY <2>6, <2>7
<1>2. IInv /\ [Next]_vars =>
        [\A q \in Requests :
            Accepted(q) /\ removal = "listed" /\ accessLife <= BlacklistLife =>
                LET t == request[q].token IN
                    /\ t.iat > removedAt
                    /\ t.read <= removedAt \/ (revivedAt # None /\ revivedAt <= t.read)]_vars
  BY <1>1
<1> QED BY <1>2, Invariant, PTL DEF Spec, RemovalCoversTokens

\* While logins, refreshes and logouts have not overlapped, a refresh is served
\* with the youngest refresh token only, however many have been issued.
THEOREM OnlyNewestSafe == Spec => OnlyNewestRefreshes
<1>1. ASSUME IInv, [Next]_vars, NEW c \in Calls, alone, call[c].kind = "refresh",
             call[c].pc = "sent", call'[c].pc = "minting"
      PROVE  call[c].token = newest
  <2>0. TypeOK /\ OneAtATime
    BY <1>1 DEF IInv
  <2>1. Read(c)
    <3>1. call' # call
      BY <1>1
    <3>2. ~ Clients
      BY <1>1, <2>0 DEF Clients, NoCall, Ended, TypeOK
    <3>3. \A d \in Calls : Serve(d) \/ Fail(d) => call'[c] = call[c] \/ d = c
      BY <2>0 DEF Serve, Fail, Read, Refuse, Mint, StoreHash, ClearHash, Anchored, GiveUp,
         Goto, TypeOK
    <3>4. ASSUME Serve(c) \/ Fail(c) PROVE Read(c)
      <4>1. ASSUME NEW l, GiveUp(c, l) PROVE call'[c].pc = l
        BY <2>0, <4>1 DEF GiveUp, NoCall, TypeOK
      <4>2. ~ Refuse(c) /\ ~ Fail(c)
        BY <1>1, <4>1 DEF Refuse, Fail
      <4> QED
        BY <1>1, <3>4, <4>2 DEF Serve, Mint, StoreHash, ClearHash, Anchored
    <3> QED
      BY <1>1, <3>1, <3>2, <3>3, <3>4, OthersKept DEF Next, vars, Tick, Blacklist, Check
  <2>2. call[c].token # None /\ account.hash = call[c].token
    BY <1>1, <2>1 DEF Read, MayRefresh, Resolves
  <2> QED BY <1>1, <2>0, <2>2 DEF OneAtATime
<1>2. IInv /\ [Next]_vars =>
        [\A c \in Calls :
            alone /\ call[c].kind = "refresh" /\ call[c].pc = "sent" /\ call'[c].pc = "minting"
                => call[c].token = newest]_vars
  BY <1>1
<1> QED BY <1>2, Invariant, PTL DEF Spec, OnlyNewestRefreshes

-----------------------------------------------------------------------------
(* The browser is a client of Session.                                      *)

\* calls as a client makes them
Started == [kind : {"login", "refresh", "logout"}, pc : {"sent"}, token : 0 .. clock \cup {None},
            role : {None}, read : {0}, iat : {0}]

\* What the browser keeps is a refresh token that exists; a slot that is free
\* is blank; a request that waits is its tab's, and has no answer to come.
CookieInv == cookie \in Seconds \cup {None} /\ (cookie # None => cookie <= clock)

SlotInv ==
    /\ boot \subseteq Refreshes
    /\ \A c \in Calls : call[c].pc = "free" => call[c] = NoCall
    /\ \A c \in Refreshes : call[c].pc # "free" => call[c].kind = "refresh"

WaitInv ==
    /\ owner \in [Calls \cup Requests -> Tabs \cup {None}]
    /\ failedQueue \in [Tabs -> SUBSET Requests]
    /\ origin \in [Tabs -> Requests \cup {None}]
    /\ \A t \in Tabs : \A q \in Waiting(t) : request[q].pc = "free" /\ owner[q] = t

BrowserInv == CookieInv /\ SlotInv /\ WaitInv

\* What a step of the browser must be to be one of Clients.
LEMMA IsClients ==
    ASSUME TypeOK, UNCHANGED <<clock, accessLife, row, admin>>, alone' \in BOOLEAN,
           call' = [c \in Calls |-> call'[c]],
           accessToken' = [t \in Tabs |-> accessToken'[t]],
           request' = [q \in Requests |-> request'[q]],
           \A c \in Calls :
              \/ call'[c] = call[c]
              \/ call[c].pc \in Ended /\ call'[c] = NoCall
              \/ call[c].pc = "free" /\ call'[c] \in Started,
           alone' => alone,
           \A c, d \in Calls : alone' /\ call'[c] # call[c] /\ call'[c].pc = "sent" /\ d # c =>
                                   call[d].pc = "free" /\ call'[d].pc = "free",
           \A t \in Tabs :
              \/ accessToken'[t] \in {accessToken[t], None}
              \/ \E c \in Calls : call[c].pc = "ok" /\ call[c].kind # "logout"
                                    /\ accessToken'[t] = Issued(c),
           \A q \in Requests :
              \/ request'[q] = request[q]
              \/ request[q].pc \in {"served", "unauthorized"} /\ request'[q] = NoRequest
              \/ request[q].pc = "free" /\ \E t \in Tabs :
                       request'[q] = [pc |-> "sent", token |-> accessToken'[t]]
    PROVE  Clients
<1>1. call' \in [Calls -> {call[c] : c \in Calls} \cup {NoCall} \cup
                           [kind : {"login", "refresh", "logout"}, pc : {"sent"},
                            token : 0 .. clock \cup {None}, role : {None}, read : {0}, iat : {0}]]
  <2>1. ASSUME NEW c \in Calls
        PROVE  call'[c] \in {call[d] : d \in Calls} \cup {NoCall} \cup
                   [kind : {"login", "refresh", "logout"}, pc : {"sent"},
                    token : 0 .. clock \cup {None}, role : {None}, read : {0}, iat : {0}]
    BY DEF Started
  <2> QED BY <2>1
<1>2. \A c \in Calls : \/ call'[c] = call[c]
                       \/ call[c].pc \in Ended /\ call'[c] = NoCall
                       \/ call[c].pc = "free" /\ call'[c].pc = "sent"
  BY DEF Started
<1>3. accessToken' \in [Tabs -> {accessToken[t] : t \in Tabs} \cup {None} \cup
                                {Issued(c) : c \in {d \in Calls : call[d].pc = "ok"
                                                          /\ call[d].kind # "logout"}}]
  <2>1. ASSUME NEW t \in Tabs
        PROVE  accessToken'[t] \in {accessToken[u] : u \in Tabs} \cup {None} \cup
                   {Issued(c) : c \in {d \in Calls : call[d].pc = "ok"
                                             /\ call[d].kind # "logout"}}
    OBVIOUS
  <2> QED BY <2>1
<1>4. request' \in [Requests -> {request[q] : q \in Requests} \cup
                  [pc : {"sent"}, token : {accessToken'[t] : t \in Tabs}] \cup {NoRequest}]
  <2>1. ASSUME NEW q \in Requests
        PROVE  request'[q] \in {request[p] : p \in Requests} \cup
                   [pc : {"sent"}, token : {accessToken'[t] : t \in Tabs}] \cup {NoRequest}
    OBVIOUS
  <2> QED BY <2>1
<1>5. \A q \in Requests : \/ request'[q] = request[q]
                          \/ request[q].pc \in {"served", "unauthorized"}
                               /\ request'[q] = NoRequest
                          \/ request[q].pc = "free" /\ request'[q].pc = "sent"
  OBVIOUS
<1> QED BY <1>1, <1>2, <1>3, <1>4, <1>5 DEF Clients

\* A call begins: OpenPage, Submit and StartRefresh.
LEMMA BeginIsClients ==
    ASSUME TypeOK, BrowserInv, NEW c \in Calls, NEW k \in {"login", "refresh", "logout"},
           call[c].pc = "free",
           call' = [call EXCEPT ![c] = [@ EXCEPT !.kind = k, !.pc = "sent", !.token = cookie]],
           alone' = (alone /\ Open = {}),
           UNCHANGED <<clock, accessLife, row, admin, accessToken>>,
           request' = [q \in Requests |-> request'[q]],
           \A q \in Requests :
              \/ request'[q] = request[q]
              \/ request[q].pc \in {"served", "unauthorized"} /\ request'[q] = NoRequest
    PROVE  Clients
<1>1. call[c] = NoCall
  BY DEF BrowserInv, CookieInv, SlotInv, WaitInv
<1>2. NoCall \in [kind : {"login"}, pc : {"free"}, token : {None}, role : {None},
                  read : {0}, iat : {0}]
  BY DEF NoCall
<1>3. cookie \in 0 .. clock \cup {None}
  BY SessionAssumption DEF BrowserInv, CookieInv, SlotInv, WaitInv, Seconds, TypeOK, SessionAssumption
<1>4. /\ call'[c] = [call[c] EXCEPT !.kind = k, !.pc = "sent", !.token = cookie]
      /\ \A d \in Calls \ {c} : call'[d] = call[d]
  <2>1. DOMAIN call = Calls
    BY DEF TypeOK
  <2> QED BY <2>1
<1>s. call'[c] \in Started
  <2>1. [NoCall EXCEPT !.kind = k, !.pc = "sent", !.token = cookie] \in Started
    <3> DEFINE S == 0 .. clock \cup {None}
    <3>1. cookie \in S
      BY <1>3
    <3> HIDE DEF S
    <3>2. [NoCall EXCEPT !.kind = k, !.pc = "sent", !.token = cookie] \in
             [kind : {"login", "refresh", "logout"}, pc : {"sent"}, token : S, role : {None},
              read : {0}, iat : {0}]
      BY <1>2, <3>1
    <3> QED BY <3>2 DEF Started, S
  <2> QED BY <1>1, <1>4, <2>1
<1>5. \A d \in Calls : alone' /\ d # c => call[d].pc = "free" /\ call'[d].pc = "free"
  BY <1>4 DEF Open
<1>6. \A d, e \in Calls : alone' /\ call'[d] # call[d] /\ call'[d].pc = "sent" /\ e # d =>
                              call[e].pc = "free" /\ call'[e].pc = "free"
  BY <1>4, <1>5
<1>7. \A d \in Calls : \/ call'[d] = call[d]
                       \/ call[d].pc = "free" /\ call'[d] \in Started
  BY <1>4, <1>s
<1>8. /\ call' = [d \in Calls |-> call'[d]] /\ accessToken' = [t \in Tabs |-> accessToken'[t]]
      /\ alone' \in BOOLEAN /\ (alone' => alone)
      /\ \A t \in Tabs : accessToken'[t] \in {accessToken[t], None}
  BY DEF TypeOK
<1> QED BY <1>6, <1>7, <1>8, IsClients

\* A call ends and a client takes its tokens, or forgets those it had: the
\* answers of AuthProvider, of the interceptor and of the forms.
LEMMA EndIsClients ==
    ASSUME TypeOK, NEW c \in Calls, NEW t, Free(c),
           \/ Take(c, t) /\ call[c].kind # "logout"
           \/ Forget(t)
           \/ UNCHANGED accessToken
    PROVE  Clients
<1>1. call[c].pc \in Ended /\ call'[c] = NoCall /\ \A d \in Calls \ {c} : call'[d] = call[d]
  BY DEF Free, TypeOK
<1>2. call'[c].pc = "free"
  BY <1>1 DEF NoCall
<1>3. /\ call' = [d \in Calls |-> call'[d]] /\ accessToken' = [u \in Tabs |-> accessToken'[u]]
      /\ request' = [q \in Requests |-> request'[q]]
  BY DEF Free, Take, Forget, TypeOK
<1>4. \A u \in Tabs :
         \/ accessToken'[u] \in {accessToken[u], None}
         \/ \E d \in Calls : call[d].pc = "ok" /\ call[d].kind # "logout"
                               /\ accessToken'[u] = Issued(d)
  BY DEF Take, Forget, TypeOK
<1>5. \A d, e \in Calls : alone' /\ call'[d] # call[d] /\ call'[d].pc = "sent" /\ e # d =>
                              call[e].pc = "free" /\ call'[e].pc = "free"
  BY <1>1, <1>2
<1>6. /\ UNCHANGED <<clock, accessLife, row, admin, request, alone>> /\ alone' \in BOOLEAN
  BY DEF Free, TypeOK
<1> QED BY <1>1, <1>3, <1>4, <1>5, <1>6, IsClients

\* Requests begin and end while calls stay as they are.
LEMMA RequestIsClients ==
    ASSUME TypeOK,
           UNCHANGED <<clock, accessLife, row, admin, call, accessToken, alone>>,
           request' = [q \in Requests |-> request'[q]],
           \A q \in Requests :
              \/ request'[q] = request[q]
              \/ request[q].pc \in {"served", "unauthorized"} /\ request'[q] = NoRequest
              \/ request[q].pc = "free" /\ \E t \in Tabs :
                       request'[q] = [pc |-> "sent", token |-> accessToken'[t]]
    PROVE  Clients
<1>1. /\ call' = [d \in Calls |-> call'[d]] /\ accessToken' = [u \in Tabs |-> accessToken'[u]]
      /\ \A d \in Calls : call'[d] = call[d]
      /\ \A u \in Tabs : accessToken'[u] \in {accessToken[u], None}
      /\ alone' \in BOOLEAN
  BY DEF TypeOK
<1> QED BY <1>1, IsClients

\* Every step of the browser is a step of Session.
LEMMA BrowserStep == TypeOK /\ BrowserInv /\ [BrowserNext]_allVars => [Next]_vars
<1> SUFFICES ASSUME TypeOK, BrowserInv, [BrowserNext]_allVars PROVE [Next]_vars
  OBVIOUS
<1> USE RefreshAssumption DEF RefreshAssumption
<1>1. CASE UNCHANGED allVars
  BY <1>1 DEF allVars, vars
<1>2. CASE Service
  BY <1>2 DEF Service, Next
<1>3. CASE Administrator
  BY <1>3 DEF Administrator, Next
<1>4. ASSUME NEW t \in Tabs, ClosePage(t) PROVE Clients
  <2>1. /\ UNCHANGED <<clock, accessLife, row, admin, call, request, alone>> /\ Forget(t)
    BY <1>4 DEF ClosePage
  <2>2. /\ call' = [d \in Calls |-> call'[d]] /\ accessToken' = [u \in Tabs |-> accessToken'[u]]
        /\ request' = [q \in Requests |-> request'[q]] /\ alone' \in BOOLEAN
        /\ \A d \in Calls : call'[d] = call[d]
        /\ \A q \in Requests : request'[q] = request[q]
        /\ \A u \in Tabs : accessToken'[u] \in {accessToken[u], None}
    BY <2>1 DEF Forget, TypeOK
  <2> QED BY <2>1, <2>2, IsClients
<1>5. ASSUME NEW t \in Tabs, NEW c \in Refreshes, OpenPage(t, c) PROVE Clients
  <2>1. c \in Calls /\ Send(c, "refresh", cookie)
    BY <1>5 DEF OpenPage
  <2>2. request' = [q \in Requests |-> request'[q]]
        /\ \A q \in Requests : request'[q] = request[q]
    BY <2>1 DEF Send, TypeOK
  <2> QED BY <2>1, <2>2, BeginIsClients DEF Send
<1>6. ASSUME NEW t \in Tabs, NEW c \in Forms, NEW k \in {"login", "logout"}, Submit(t, c, k)
      PROVE  Clients
  <2>1. c \in Calls /\ Send(c, k, cookie)
    BY <1>6 DEF Submit
  <2>2. request' = [q \in Requests |-> request'[q]]
        /\ \A q \in Requests : request'[q] = request[q]
    BY <2>1 DEF Send, TypeOK
  <2> QED BY <2>1, <2>2, BeginIsClients DEF Send
<1>7. ASSUME NEW t \in Tabs, NEW q \in Requests, Ask(q, t) PROVE Clients
  <2>1. SendRequest(q, t)
    BY <1>7 DEF Ask
  <2>2. /\ request[q].pc = "free" /\ request'[q] = [pc |-> "sent", token |-> accessToken'[t]]
        /\ \A p \in Requests \ {q} : request'[p] = request[p]
        /\ request' = [p \in Requests |-> request'[p]]
    BY <2>1 DEF SendRequest, TypeOK
  <2>3. \A p \in Requests : \/ request'[p] = request[p]
                            \/ request[p].pc = "free" /\ \E u \in Tabs :
                                   request'[p] = [pc |-> "sent", token |-> accessToken'[u]]
    BY <2>2
  <2> QED BY <2>1, <2>2, <2>3, RequestIsClients DEF SendRequest
<1>8. ASSUME NEW q \in Requests, ReceiveRequest(q), UNCHANGED accessToken PROVE Clients
  <2>1. /\ request[q].pc \in {"served", "unauthorized"} /\ request'[q] = NoRequest
        /\ \A p \in Requests \ {q} : request'[p] = request[p]
        /\ request' = [p \in Requests |-> request'[p]]
    BY <1>8 DEF ReceiveRequest, TypeOK
  <2>2. \A p \in Requests : \/ request'[p] = request[p]
                            \/ request[p].pc \in {"served", "unauthorized"}
                                 /\ request'[p] = NoRequest
    BY <2>1
  <2> QED BY <1>8, <2>1, <2>2, RequestIsClients DEF ReceiveRequest
<1>9. ASSUME NEW t \in Tabs, NEW q \in Requests, NEW c \in Refreshes, StartRefresh(q, t, c)
      PROVE  Clients
  <2>1. /\ request[q].pc \in {"served", "unauthorized"} /\ request'[q] = NoRequest
        /\ \A p \in Requests \ {q} : request'[p] = request[p]
        /\ request' = [p \in Requests |-> request'[p]]
    BY <1>9 DEF StartRefresh, FirstUnauthorized, TypeOK
  <2>2. \A p \in Requests : \/ request'[p] = request[p]
                            \/ request[p].pc \in {"served", "unauthorized"}
                                 /\ request'[p] = NoRequest
    BY <2>1
  <2>3. /\ c \in Calls /\ call[c].pc = "free"
        /\ call' = [call EXCEPT ![c] = [@ EXCEPT !.kind = "refresh", !.pc = "sent",
                                                 !.token = cookie]]
        /\ alone' = (alone /\ Open = {})
        /\ UNCHANGED <<clock, accessLife, row, admin, accessToken>>
    BY <1>9 DEF StartRefresh
  <2> QED BY <2>1, <2>2, <2>3, BeginIsClients
<1>10. ASSUME NEW t \in Tabs, NEW c \in Calls, BootAnswer(c, t) PROVE Clients
  <2>1. c \in Refreshes /\ Free(c)
    BY <1>10 DEF BootAnswer, BrowserInv, CookieInv, SlotInv, WaitInv
  <2>2. call[c].kind # "logout"
    BY <2>1 DEF Free, BrowserInv, CookieInv, SlotInv, WaitInv, Ended
  <2> QED BY <1>10, <2>1, <2>2, EndIsClients DEF BootAnswer
<1>11. ASSUME NEW t \in Tabs, NEW c \in Calls, NotRefreshed(c, t) PROVE Clients
  BY <1>11, EndIsClients DEF NotRefreshed
<1>12. ASSUME NEW t \in Tabs, NEW c \in Calls, SignedIn(c, t) \/ SignedOut(c, t) PROVE Clients
  <2>1. CASE SignedIn(c, t)
    <3>1. Free(c) /\ call[c].kind # "logout" /\ (Take(c, t) \/ UNCHANGED accessToken)
      BY <2>1 DEF SignedIn
    <3> QED BY <3>1, EndIsClients
  <2>2. CASE SignedOut(c, t)
    BY <2>2, EndIsClients DEF SignedOut
  <2> QED BY <1>12, <2>1, <2>2
<1>13. ASSUME NEW x \in Calls \cup Requests, Drop(x) PROVE Clients
  <2>1. CASE x \in Calls /\ Free(x) /\ UNCHANGED accessToken
    BY <2>1, EndIsClients
  <2>2. CASE x \in Requests /\ ReceiveRequest(x)
    BY <2>2, <1>8 DEF ReceiveRequest
  <2> QED BY <1>13, <2>1, <2>2 DEF Drop
<1>14. ASSUME NEW t \in Tabs, NEW c \in Calls, Refreshed(c, t) PROVE Clients
  <2>1. /\ c \in Refreshes /\ call[c].pc = "ok" /\ accessToken'[t] = Issued(c)
        /\ \A u \in Tabs \ {t} : accessToken'[u] = accessToken[u]
        /\ call'[c] = NoCall /\ \A d \in Calls \ {c} : call'[d] = call[d]
        /\ call' = [d \in Calls |-> call'[d]] /\ accessToken' = [u \in Tabs |-> accessToken'[u]]
    BY <1>14 DEF Refreshed, Take, TypeOK
  <2>2. call[c].kind # "logout"
    BY <2>1 DEF BrowserInv, CookieInv, SlotInv, WaitInv
  <2>3. \A q \in Requests :
           IF q \in Waiting(t) THEN /\ request[q].pc = "free"
                                    /\ request'[q] = [pc |-> "sent", token |-> accessToken'[t]]
                               ELSE request'[q] = request[q]
    BY <1>14, <2>1 DEF Refreshed, BrowserInv, CookieInv, SlotInv, WaitInv
  <2>4. \A q \in Requests : \/ request'[q] = request[q]
                            \/ request[q].pc = "free" /\ \E u \in Tabs :
                                   request'[q] = [pc |-> "sent", token |-> accessToken'[u]]
    BY <2>3
  <2>5. \A u \in Tabs : \/ accessToken'[u] \in {accessToken[u], None}
                        \/ \E d \in Calls : call[d].pc = "ok" /\ call[d].kind # "logout"
                                              /\ accessToken'[u] = Issued(d)
    BY <2>1, <2>2
  <2>6. \A d \in Calls : \/ call'[d] = call[d]
                         \/ call[d].pc \in Ended /\ call'[d] = NoCall
    BY <2>1 DEF Ended
  <2>7. \A d, e \in Calls : alone' /\ call'[d] # call[d] /\ call'[d].pc = "sent" /\ e # d =>
                                call[e].pc = "free" /\ call'[e].pc = "free"
    BY <2>6 DEF NoCall
  <2>8. /\ UNCHANGED <<clock, accessLife, row, admin, alone>> /\ alone' \in BOOLEAN
        /\ request' = [q \in Requests |-> request'[q]]
    BY <1>14 DEF Refreshed, TypeOK
  <2> QED BY <2>1, <2>4, <2>5, <2>6, <2>7, <2>8, IsClients
<1>15. ASSUME NEW c \in Calls, Answer(c) PROVE Clients
  BY <1>10, <1>11, <1>12, <1>13, <1>14, <1>15 DEF Answer
<1>16. ASSUME NEW q \in Requests, AnswerRequest(q) \/ LoseRequest(q) PROVE Clients
  <2>1. ASSUME NEW t \in Tabs, Settle(q, t) \/ Enqueue(q, t) PROVE Clients
    BY <1>8, <2>1 DEF Settle, Enqueue, ReceiveRequest
  <2> QED BY <1>9, <1>13, <1>16, <2>1 DEF AnswerRequest, LoseRequest
<1>17. Clients => [Next]_vars
  BY DEF Next
<1> QED
  BY <1>1, <1>2, <1>3, <1>4, <1>5, <1>6, <1>7, <1>15, <1>16, <1>17 DEF BrowserNext

\* The cookie is a token that a call has issued.
LEMMA CookieStep == IInv /\ BrowserInv /\ [BrowserNext]_allVars => CookieInv'
<1> SUFFICES ASSUME IInv, BrowserInv, [BrowserNext]_allVars PROVE CookieInv'
  OBVIOUS
<1> USE SessionAssumption DEF SessionAssumption
<1>0. TypeOK /\ CookieInv /\ [Next]_vars
  BY BrowserStep DEF IInv, BrowserInv
<1>1. clock \in Nat /\ clock' \in Nat /\ clock <= clock'
  BY <1>0, ClockGrows
<1>2. CASE UNCHANGED cookie \/ cookie' = None
  BY <1>0, <1>1, <1>2 DEF CookieInv, Seconds
<1>3. ASSUME NEW c \in Calls, SetRefreshCookie(c), call[c].pc = "ok", call[c].kind # "logout"
      PROVE  CookieInv'
  <2>1. call[c].iat \in Seconds /\ call[c].iat <= clock
    BY <1>0, <1>3 DEF IInv, TypeOK, TokensGenuine, Informed, Signed
  <2> QED BY <1>1, <1>3, <2>1 DEF CookieInv, SetRefreshCookie, Seconds
<1>4. ASSUME NEW c \in Calls, Answer(c) PROVE CookieInv'
  <2>1. ASSUME NEW t \in Tabs, BootAnswer(c, t) PROVE CookieInv'
    <3>1. c \in Refreshes /\ call[c].pc # "free"
      BY <2>1 DEF BootAnswer, Free, Ended, BrowserInv, SlotInv
    <3>2. call[c].kind # "logout"
      BY <3>1 DEF BrowserInv, SlotInv
    <3> QED BY <1>2, <1>3, <2>1, <3>2 DEF BootAnswer, Take
  <2>2. ASSUME NEW t \in Tabs, Refreshed(c, t) PROVE CookieInv'
    <3>1. c \in Refreshes /\ call[c].pc = "ok" /\ SetRefreshCookie(c)
      BY <2>2 DEF Refreshed, Take
    <3>2. call[c].kind # "logout"
      BY <3>1 DEF BrowserInv, SlotInv
    <3> QED BY <1>3, <3>1, <3>2
  <2>3. ASSUME NEW t \in Tabs, SignedIn(c, t) PROVE CookieInv'
    BY <1>2, <1>3, <2>3 DEF SignedIn, Take
  <2>4. ASSUME NEW t \in Tabs, SignedOut(c, t) \/ NotRefreshed(c, t) PROVE CookieInv'
    BY <1>2, <2>4 DEF SignedOut, ClearSessionCookies, NotRefreshed
  <2>5. CASE Drop(c)
    <3>1. c \notin Requests
      BY RefreshAssumption DEF RefreshAssumption
    <3>2. \/ UNCHANGED cookie \/ cookie' = None
          \/ call[c].kind # "logout" /\ call[c].pc = "ok" /\ SetRefreshCookie(c)
      BY <2>5, <3>1 DEF Drop, ClearSessionCookies
    <3> QED BY <1>2, <1>3, <3>2
  <2> QED BY <1>4, <2>1, <2>2, <2>3, <2>4, <2>5 DEF Answer
<1>5. UNCHANGED allVars \/ Service \/ Administrator => UNCHANGED cookie
  BY DEF allVars, Service, Administrator, browser
<1>6. ASSUME NEW t \in Tabs,
             \/ ClosePage(t)
             \/ \E c \in Refreshes : OpenPage(t, c)
             \/ \E c \in Forms, k \in {"login", "logout"} : Submit(t, c, k)
             \/ \E q \in Requests : Ask(q, t)
      PROVE  UNCHANGED cookie
  BY <1>6 DEF ClosePage, OpenPage, Submit, Ask
<1>7. ASSUME NEW q \in Requests, AnswerRequest(q) \/ LoseRequest(q)
      PROVE  UNCHANGED cookie
  BY <1>7, RefreshAssumption
  DEF AnswerRequest, LoseRequest, Settle, Enqueue, StartRefresh, Drop, RefreshAssumption
<1> QED BY <1>2, <1>4, <1>5, <1>6, <1>7 DEF BrowserNext

\* The service moves a call on, or gives it up; it frees none.
LEMMA ServeMoves ==
    ASSUME TypeOK, NEW c \in Calls, Serve(c) \/ Fail(c)
    PROVE  /\ call[c].pc \in Executing
           /\ call'[c].pc # "free" /\ call'[c].kind = call[c].kind
           /\ \A d \in Calls \ {c} : call'[d] = call[d]
<1>1. call[c].pc \in Executing
  BY DEF Serve, Fail, Read, Refuse, Mint, StoreHash, ClearHash, Anchored, Executing
<1>2. \A d \in Calls \ {c} : call'[d] = call[d]
  BY DEF Serve, Fail, Read, Refuse, Mint, StoreHash, ClearHash, Anchored, GiveUp, Goto, TypeOK
<1>3. ASSUME NEW l \in {"refused", "failed"}, GiveUp(c, l)
      PROVE  call'[c].pc # "free" /\ call'[c].kind = call[c].kind
  BY <1>3 DEF GiveUp, NoCall, TypeOK
<1>4. Refuse(c) \/ Fail(c) => call'[c].pc # "free" /\ call'[c].kind = call[c].kind
  BY <1>3 DEF Refuse, Fail
<1>5. Read(c) \/ Mint(c) => call'[c].pc # "free" /\ call'[c].kind = call[c].kind
  <2>1. DOMAIN call = Calls /\ call[c] \in CallType
    BY DEF TypeOK, CallType
  <2>2. Read(c) => call'[c].pc = "minting" /\ call'[c].kind = call[c].kind
    BY <2>1 DEF Read, CallType
  <2>3. Mint(c) => call'[c].pc = "storing" /\ call'[c].kind = call[c].kind
    BY <2>1 DEF Mint, CallType
  <2> QED BY <2>2, <2>3
<1>6. StoreHash(c) \/ ClearHash(c) \/ Anchored(c) =>
          call'[c].pc # "free" /\ call'[c].kind = call[c].kind
  BY DEF StoreHash, ClearHash, Anchored, Goto, TypeOK
<1> QED BY <1>1, <1>2, <1>4, <1>5, <1>6 DEF Serve

\* A slot is blank until a call begins, and a refresh in the slot of one.
LEMMA SlotStep == IInv /\ BrowserInv /\ [BrowserNext]_allVars => SlotInv'
<1> SUFFICES ASSUME IInv, BrowserInv, [BrowserNext]_allVars PROVE SlotInv'
  OBVIOUS
<1> USE RefreshAssumption DEF RefreshAssumption
<1>0. TypeOK /\ SlotInv
  BY DEF IInv, BrowserInv
<1>1. ASSUME UNCHANGED call, boot' \subseteq boot PROVE SlotInv'
  BY <1>0, <1>1 DEF SlotInv
<1>2. ASSUME NEW c \in Calls, call'[c] = NoCall, boot' \subseteq boot,
             \A d \in Calls \ {c} : call'[d] = call[d]
      PROVE  SlotInv'
  BY <1>0, <1>2 DEF SlotInv, NoCall
<1>3. ASSUME NEW c \in Calls, call'[c].pc # "free", call'[c].kind = call[c].kind,
             call[c].pc # "free", \A d \in Calls \ {c} : call'[d] = call[d], boot' \subseteq boot
      PROVE  SlotInv'
  BY <1>0, <1>3 DEF SlotInv
<1>4. ASSUME NEW c \in Calls, NEW k,
             call' = [call EXCEPT ![c] = [@ EXCEPT !.kind = k, !.pc = "sent", !.token = cookie]],
             c \in Refreshes => k = "refresh", boot' \subseteq Refreshes
      PROVE  SlotInv'
  <2>1. call'[c].pc = "sent" /\ call'[c].kind = k /\ \A d \in Calls \ {c} : call'[d] = call[d]
    BY <1>0, <1>4 DEF TypeOK
  <2> QED BY <1>0, <1>4, <2>1 DEF SlotInv
<1>5. CASE Service
  <2>1. UNCHANGED boot
    BY <1>5 DEF Service, browser
  <2>2. ASSUME NEW c \in Calls, Serve(c) \/ Fail(c) PROVE SlotInv'
    <3>1. /\ call[c].pc # "free" /\ call'[c].pc # "free" /\ call'[c].kind = call[c].kind
          /\ \A d \in Calls \ {c} : call'[d] = call[d]
      BY <1>0, <2>2, ServeMoves DEF Executing
    <3> QED BY <1>3, <2>1, <3>1
  <2>3. Tick \/ Blacklist \/ (\E q \in Requests : Check(q)) => UNCHANGED call
    BY DEF Tick, Blacklist, Check
  <2> QED BY <1>1, <1>5, <2>1, <2>2, <2>3 DEF Service
<1>6. CASE Administrator
  <2>1. UNCHANGED <<call, boot>>
    BY <1>6, OthersKept DEF Administrator
  <2> QED BY <1>1, <2>1
<1>7. ASSUME NEW c \in Calls, Free(c)
      PROVE  call'[c] = NoCall /\ \A d \in Calls \ {c} : call'[d] = call[d]
  BY <1>0, <1>7 DEF Free, TypeOK
<1>8. ASSUME NEW c \in Calls, Answer(c) PROVE SlotInv'
  <2>1. ASSUME NEW t \in Tabs, BootAnswer(c, t) \/ NotRefreshed(c, t) PROVE SlotInv'
    BY <1>2, <1>7, <2>1 DEF BootAnswer, NotRefreshed
  <2>2. ASSUME NEW t \in Tabs, Refreshed(c, t) PROVE SlotInv'
    <3>1. call' = [call EXCEPT ![c] = NoCall] /\ UNCHANGED boot
      BY <2>2 DEF Refreshed
    <3>2. call'[c] = NoCall /\ (\A d \in Calls \ {c} : call'[d] = call[d])
      BY <1>0, <3>1 DEF TypeOK
    <3> QED BY <1>2, <3>1, <3>2
  <2>3. ASSUME NEW t \in Tabs, SignedIn(c, t) \/ SignedOut(c, t) PROVE SlotInv'
    BY <1>2, <1>7, <2>3 DEF SignedIn, SignedOut
  <2>4. CASE Drop(c)
    <3>1. boot' \subseteq boot /\ Free(c)
      BY <2>4 DEF Drop
    <3> QED BY <1>2, <1>7, <3>1
  <2> QED BY <1>8, <2>1, <2>2, <2>3, <2>4 DEF Answer
<1>9. ASSUME NEW t \in Tabs, ClosePage(t) PROVE SlotInv'
  BY <1>1, <1>9 DEF ClosePage
<1>10. ASSUME NEW t \in Tabs, NEW c \in Refreshes, OpenPage(t, c) PROVE SlotInv'
  <2>1. boot' \subseteq Refreshes
    BY <1>0, <1>10 DEF OpenPage, SlotInv
  <2> QED BY <1>4, <1>10, <2>1 DEF OpenPage, Send
<1>11. ASSUME NEW t \in Tabs, NEW c \in Forms, NEW k, Submit(t, c, k) PROVE SlotInv'
  <2>1. c \in Calls /\ c \notin Refreshes /\ boot' \subseteq Refreshes
    BY <1>0, <1>11 DEF Submit, SlotInv
  <2> QED BY <1>4, <1>11, <2>1 DEF Submit, Send
<1>12. ASSUME NEW t \in Tabs, NEW q \in Requests, Ask(q, t) PROVE SlotInv'
  BY <1>1, <1>12 DEF Ask, SendRequest
<1>13. ASSUME NEW q \in Requests, AnswerRequest(q) \/ LoseRequest(q) PROVE SlotInv'
  <2>1. ASSUME NEW t \in Tabs, Settle(q, t) \/ Enqueue(q, t) PROVE SlotInv'
    BY <1>1, <2>1 DEF Settle, Enqueue, ReceiveRequest
  <2>2. ASSUME NEW t \in Tabs, NEW c \in Refreshes, StartRefresh(q, t, c) PROVE SlotInv'
    <3>1. boot' \subseteq Refreshes /\ c \in Calls
      BY <1>0, <2>2 DEF StartRefresh, SlotInv
    <3> QED BY <1>4, <2>2, <3>1 DEF StartRefresh
  <2>3. CASE Drop(q)
    <3>1. boot' \subseteq boot /\ ReceiveRequest(q)
      BY <2>3 DEF Drop
    <3> QED BY <1>1, <3>1 DEF ReceiveRequest
  <2> QED BY <1>13, <2>1, <2>2, <2>3 DEF AnswerRequest, LoseRequest
<1>14. UNCHANGED allVars => SlotInv'
  BY <1>1 DEF allVars, vars, browser
<1> QED
  BY <1>5, <1>6, <1>8, <1>9, <1>10, <1>11, <1>12, <1>13, <1>14 DEF BrowserNext

\* A request waits in one tab, which owns it, and has no answer to come.
LEMMA WaitStep == IInv /\ BrowserInv /\ [BrowserNext]_allVars => WaitInv'
<1> SUFFICES ASSUME IInv, BrowserInv, [BrowserNext]_allVars PROVE WaitInv'
  OBVIOUS
<1> USE RefreshAssumption DEF RefreshAssumption
<1>0. TypeOK /\ WaitInv
  BY DEF IInv, BrowserInv
<1>f. DOMAIN request = Requests /\ DOMAIN call = Calls
  BY <1>0 DEF TypeOK
\* Calls come and go, and their owners.
<1>1. ASSUME UNCHANGED <<failedQueue, origin>>,
             \A q \in Requests : request[q].pc = "free" => request'[q].pc = "free",
             \/ UNCHANGED owner
             \/ \E c \in Calls, t \in Tabs \cup {None} : Own(c, t)
      PROVE  WaitInv'
  <2>1. owner' \in [Calls \cup Requests -> Tabs \cup {None}]
        /\ \A q \in Requests : owner'[q] = owner[q]
    BY <1>0, <1>1 DEF WaitInv, Own
  <2>2. \A t \in Tabs : Waiting(t)' = Waiting(t) /\ Waiting(t) \subseteq Requests
    BY <1>0, <1>1 DEF Waiting, WaitInv
  <2> QED BY <1>0, <1>1, <2>1, <2>2 DEF WaitInv
\* A request that does not wait changes hands.
<1>2. ASSUME UNCHANGED <<failedQueue, origin>>, NEW q \in Requests, NEW t \in Tabs \cup {None},
             Own(q, t), \A u \in Tabs : q \notin Waiting(u),
             \A p \in Requests \ {q} : request'[p] = request[p]
      PROVE  WaitInv'
  <2>1. owner' \in [Calls \cup Requests -> Tabs \cup {None}]
        /\ \A p \in Requests \ {q} : owner'[p] = owner[p]
    BY <1>0, <1>2 DEF WaitInv, Own
  <2>2. \A u \in Tabs : Waiting(u)' = Waiting(u) /\ Waiting(u) \subseteq Requests
    BY <1>0, <1>2 DEF Waiting, WaitInv
  <2> QED BY <1>0, <1>2, <2>1, <2>2 DEF WaitInv
\* A tab begins to keep a request of its own whose answer it has got.
<1>3. ASSUME NEW t \in Tabs, NEW q \in Requests, owner[q] = t, owner'[q] = t,
             request'[q].pc = "free", \A p \in Requests \ {q} : request'[p] = request[p],
             owner' \in [Calls \cup Requests -> Tabs \cup {None}],
             \A p \in Requests : owner'[p] = owner[p],
             \/ failedQueue' = [failedQueue EXCEPT ![t] = @ \cup {q}] /\ UNCHANGED origin
             \/ origin' = [origin EXCEPT ![t] = q] /\ UNCHANGED failedQueue
      PROVE  WaitInv'
  <2>1. \A u \in Tabs : \A p \in Waiting(u)' : p \in Waiting(u) \/ (u = t /\ p = q)
    BY <1>0, <1>3 DEF Waiting, WaitInv
  <2>2. /\ failedQueue' \in [Tabs -> SUBSET Requests]
        /\ origin' \in [Tabs -> Requests \cup {None}]
    BY <1>0, <1>3 DEF WaitInv
  <2>3. \A u \in Tabs : Waiting(u) \subseteq Requests
    BY <1>0 DEF Waiting, WaitInv
  <2> QED BY <1>0, <1>3, <2>1, <2>2, <2>3 DEF WaitInv
\* A tab lets go of all that waits in it.
<1>4. ASSUME NEW t \in Tabs, failedQueue' = [failedQueue EXCEPT ![t] = {}],
             origin' = [origin EXCEPT ![t] = None],
             owner' \in [Calls \cup Requests -> Tabs \cup {None}],
             \A u \in Tabs \ {t} : \A q \in Waiting(u) :
                 owner'[q] = owner[q] /\ request'[q].pc = request[q].pc
      PROVE  WaitInv'
  <2>1. Waiting(t)' = {} /\ \A u \in Tabs \ {t} : Waiting(u)' = Waiting(u)
    BY <1>0, <1>4 DEF Waiting, WaitInv
  <2>2. /\ failedQueue' \in [Tabs -> SUBSET Requests]
        /\ origin' \in [Tabs -> Requests \cup {None}]
    BY <1>0, <1>4 DEF WaitInv
  <2>3. \A u \in Tabs : \A q \in Waiting(u)' : request'[q].pc = "free" /\ owner'[q] = u
    BY <1>0, <1>4, <2>1 DEF WaitInv
  <2> QED BY <1>4, <2>2, <2>3 DEF WaitInv
\* Nobody waits twice.
<1>5. \A t, u \in Tabs : \A q \in Waiting(u) : q \in Waiting(t) => t = u
  BY <1>0 DEF WaitInv
<1>w. \A u \in Tabs : Waiting(u) \subseteq Requests
  BY <1>0 DEF Waiting, WaitInv
<1>6. ASSUME NEW q \in Requests, ReceiveRequest(q)
      PROVE  /\ request'[q].pc = "free" /\ \A p \in Requests \ {q} : request'[p] = request[p]
             /\ \A u \in Tabs : q \notin Waiting(u)
  BY <1>0, <1>f, <1>6 DEF ReceiveRequest, NoRequest, WaitInv
<1>7. CASE Service
  <2>1. UNCHANGED <<failedQueue, origin, owner>>
    BY <1>7 DEF Service, browser, tabVars
  <2>2. \A q \in Requests : request[q].pc = "free" => request'[q].pc = "free"
    BY <1>f, <1>7 DEF Service, Tick, Blacklist, Serve, Fail, Read, Refuse, Mint, StoreHash,
       ClearHash, Anchored, Check
  <2> QED BY <1>1, <2>1, <2>2
<1>8. CASE Administrator
  <2>1. UNCHANGED <<failedQueue, origin, owner, request>>
    BY <1>8, OthersKept DEF Administrator, tabVars
  <2> QED BY <1>1, <2>1
<1>9. ASSUME NEW c \in Calls, Answer(c) PROVE WaitInv'
  <2>1. ASSUME NEW t \in Tabs, BootAnswer(c, t) \/ SignedIn(c, t) \/ SignedOut(c, t)
        PROVE  WaitInv'
    <3>1. UNCHANGED <<failedQueue, origin, request>> /\ Own(c, None)
      BY <2>1 DEF BootAnswer, SignedIn, SignedOut, Free, tabVars
    <3> QED BY <1>1, <3>1
  <2>2. ASSUME NEW t \in Tabs, NotRefreshed(c, t) PROVE WaitInv'
    <3>1. /\ failedQueue' = [failedQueue EXCEPT ![t] = {}]
          /\ origin' = [origin EXCEPT ![t] = None]
          /\ owner' = [x \in DOMAIN owner |->
                         IF x = c \/ x \in Waiting(t) THEN None ELSE owner[x]]
          /\ UNCHANGED request
      BY <2>2 DEF NotRefreshed, ProcessQueue, Free
    <3>2. owner' \in [Calls \cup Requests -> Tabs \cup {None}]
      BY <1>0, <3>1 DEF WaitInv
    <3>3. \A u \in Tabs \ {t} : \A q \in Waiting(u) : owner'[q] = owner[q]
      BY <1>0, <1>5, <1>w, <3>1 DEF WaitInv
    <3> QED BY <1>4, <3>1, <3>2, <3>3
  <2>3. ASSUME NEW t \in Tabs, Refreshed(c, t) PROVE WaitInv'
    <3>1. /\ failedQueue' = [failedQueue EXCEPT ![t] = {}]
          /\ origin' = [origin EXCEPT ![t] = None]
          /\ Own(c, None)
      BY <2>3 DEF Refreshed, ProcessQueue
    <3>2. owner' \in [Calls \cup Requests -> Tabs \cup {None}]
          /\ \A q \in Requests : owner'[q] = owner[q]
      BY <1>0, <3>1 DEF WaitInv, Own
    <3>3. \A u \in Tabs \ {t} : \A q \in Waiting(u) : request'[q] = request[q]
      BY <1>5, <1>w, <2>3 DEF Refreshed
    <3> QED BY <1>4, <1>w, <3>1, <3>2, <3>3
  <2>4. CASE Drop(c)
    <3>1. UNCHANGED <<failedQueue, origin, owner, request>>
      BY <2>4 DEF Drop, Free, tabVars
    <3> QED BY <1>1, <3>1
  <2> QED BY <1>9, <2>1, <2>2, <2>3, <2>4 DEF Answer
<1>10. ASSUME NEW t \in Tabs, ClosePage(t) PROVE WaitInv'
  <2>1. /\ failedQueue' = [failedQueue EXCEPT ![t] = {}]
        /\ origin' = [origin EXCEPT ![t] = None]
        /\ owner' = [x \in DOMAIN owner |-> IF owner[x] = t THEN None ELSE owner[x]]
        /\ UNCHANGED request
    BY <1>10 DEF ClosePage
  <2>2. owner' \in [Calls \cup Requests -> Tabs \cup {None}]
    BY <1>0, <2>1 DEF WaitInv
  <2>3. \A u \in Tabs \ {t} : \A q \in Waiting(u) : owner'[q] = owner[q]
    BY <1>0, <1>w, <2>1 DEF WaitInv
  <2> QED BY <1>4, <2>1, <2>2, <2>3
<1>11. ASSUME NEW t \in Tabs, NEW c \in Calls,
              \/ OpenPage(t, c) \/ \E k \in {"login", "logout"} : Submit(t, c, k)
       PROVE  WaitInv'
  <2>1. UNCHANGED <<failedQueue, origin, request>> /\ Own(c, t)
    BY <1>11 DEF OpenPage, Submit, Send, tabVars
  <2> QED BY <1>1, <2>1
<1>12. ASSUME NEW t \in Tabs, NEW q \in Requests, Ask(q, t) PROVE WaitInv'
  <2>1. /\ UNCHANGED <<failedQueue, origin>> /\ Own(q, t)
        /\ \A u \in Tabs : q \notin Waiting(u)
    BY <1>12 DEF Ask, tabVars, Busy
  <2>2. \A p \in Requests \ {q} : request'[p] = request[p]
    BY <1>f, <1>12 DEF Ask, SendRequest
  <2> QED BY <1>2, <2>1, <2>2
<1>13. ASSUME NEW q \in Requests, AnswerRequest(q) \/ LoseRequest(q) PROVE WaitInv'
  <2>1. ASSUME NEW t \in Tabs, Settle(q, t) PROVE WaitInv'
    <3>1. UNCHANGED <<failedQueue, origin>> /\ Own(q, None) /\ ReceiveRequest(q)
      BY <2>1 DEF Settle, tabVars
    <3> QED BY <1>2, <1>6, <3>1
  <2>2. ASSUME NEW t \in Tabs, Enqueue(q, t) PROVE WaitInv'
    <3>1. /\ owner[q] = t /\ UNCHANGED <<owner, origin>> /\ ReceiveRequest(q)
          /\ failedQueue' = [failedQueue EXCEPT ![t] = @ \cup {q}]
      BY <2>2 DEF Enqueue, FirstUnauthorized
    <3>2. owner' \in [Calls \cup Requests -> Tabs \cup {None}]
      BY <1>0, <3>1 DEF WaitInv
    <3> QED BY <1>3, <1>6, <3>1, <3>2
  <2>3. ASSUME NEW t \in Tabs, NEW c \in Refreshes, StartRefresh(q, t, c) PROVE WaitInv'
    <3>1. /\ owner[q] = t /\ Own(c, t) /\ UNCHANGED failedQueue
          /\ origin' = [origin EXCEPT ![t] = q]
          /\ request' = [request EXCEPT ![q] = NoRequest]
      BY <2>3 DEF StartRefresh, FirstUnauthorized
    <3>2. /\ owner' \in [Calls \cup Requests -> Tabs \cup {None}]
          /\ \A p \in Requests : owner'[p] = owner[p]
      BY <1>0, <3>1 DEF WaitInv, Own
    <3>3. request'[q].pc = "free" /\ \A p \in Requests \ {q} : request'[p] = request[p]
      BY <1>f, <3>1 DEF NoRequest
    <3> QED BY <1>3, <3>1, <3>2, <3>3
  <2>4. CASE Drop(q)
    <3>1. UNCHANGED <<failedQueue, origin, owner>> /\ ReceiveRequest(q)
      BY <2>4 DEF Drop, tabVars
    <3>2. \A p \in Requests : request[p].pc = "free" => request'[p].pc = "free"
      BY <1>6, <3>1
    <3> QED BY <1>1, <3>1, <3>2
  <2> QED BY <1>13, <2>1, <2>2, <2>3, <2>4 DEF AnswerRequest, LoseRequest
<1>14. ASSUME UNCHANGED allVars PROVE WaitInv'
  <2>1. UNCHANGED <<failedQueue, origin, owner, request>>
    BY <1>14 DEF allVars, vars, browser, tabVars
  <2> QED BY <1>1, <2>1
<1> QED
  BY <1>7, <1>8, <1>9, <1>10, <1>11, <1>12, <1>13, <1>14 DEF BrowserNext

LEMMA BrowserInitInv == BrowserInit => IInv /\ BrowserInv
<1> SUFFICES ASSUME BrowserInit PROVE IInv /\ BrowserInv
  OBVIOUS
<1>1. Init
  BY DEF BrowserInit
<1>2. CookieInv
  BY DEF BrowserInit, CookieInv
<1>3. SlotInv
  BY <1>1, RefreshAssumption DEF BrowserInit, SlotInv, Init, NoCall, RefreshAssumption
<1>4. WaitInv
  BY <1>1 DEF BrowserInit, WaitInv, Waiting
<1> QED BY <1>1, <1>2, <1>3, <1>4, InitIInv DEF BrowserInv

LEMMA BrowserInvariant == BrowserSpec => [](IInv /\ BrowserInv)
<1>1. BrowserInit => IInv /\ BrowserInv
  BY BrowserInitInv
<1>2. IInv /\ BrowserInv /\ [BrowserNext]_allVars => (IInv /\ BrowserInv)'
  <2> SUFFICES ASSUME IInv, BrowserInv, [BrowserNext]_allVars PROVE IInv' /\ BrowserInv'
    OBVIOUS
  <2>1. [Next]_vars
    BY BrowserStep DEF IInv
  <2>2. IInv'
    BY <2>1, StepType, StepTokens, StepRemoved, StepOneAtATime DEF IInv
  <2>3. BrowserInv'
    BY CookieStep, SlotStep, WaitStep DEF BrowserInv
  <2> QED BY <2>2, <2>3
<1> QED BY <1>1, <1>2, PTL DEF BrowserSpec

\* Tabs that share a cookie and nothing else, with the interceptor of axios.ts,
\* AuthProvider and the forms, do to the sessions nothing but what Session
\* allows its clients.
THEOREM BrowserImplementsSession == BrowserSpec => Spec
<1>1. BrowserInit => Init
  BY DEF BrowserInit
<1>2. IInv /\ BrowserInv /\ [BrowserNext]_allVars => [Next]_vars
  BY BrowserStep DEF IInv
<1> QED BY <1>1, <1>2, BrowserInvariant, PTL DEF BrowserSpec, Spec

\* What is proved of Session holds of the browser: for any number of tabs,
\* requests and refreshes under way.
COROLLARY BrowserIsSafe ==
    BrowserSpec => StaleRoleEnds /\ RemovalCoversTokens /\ OnlyNewestRefreshes
BY BrowserImplementsSession, StaleRoleSafe, RemovalSafe, OnlyNewestSafe, PTL
-----------------------------------------------------------------------------
(* What the tabs of the browser keep of their refreshes.                    *)

\* A tab that hydrates or refreshes has a page, and so does whoever waits for
\* an answer; a page asks for nothing before its first refresh has ended.
PageInv ==
    /\ open \subseteq Tabs /\ isHydrating \subseteq open /\ isRefreshing \subseteq open
    /\ \A x \in Calls \cup Requests : owner[x] # None => owner[x] \in open
    /\ \A q \in Requests : owner[q] \notin isHydrating

\* The flag of a tab and the refresh it stands for: isHydrating for the one
\* AuthProvider makes, isRefreshing for the interceptor's, never both.
FlagInv ==
    /\ \A c \in Calls : call[c].pc = "free" => owner[c] = None /\ c \notin boot
    /\ \A c \in Refreshes : owner[c] # None =>
          \/ c \in boot /\ owner[c] \in isHydrating
          \/ c \notin boot /\ owner[c] \in isRefreshing
    /\ \A t \in isHydrating : \E c \in boot : owner[c] = t
    /\ \A t \in isRefreshing : \E c \in Refreshes \ boot : owner[c] = t
    /\ \A c, d \in Refreshes : owner[c] = owner[d] /\ owner[c] # None => c = d
    /\ \A t \in Tabs : Waiting(t) # {} => t \in isRefreshing

TabInv == PageInv /\ FlagInv

\* Neither a lost answer nor a closed page leaves a flag without its refresh.
LEMMA TabStep == IInv /\ BrowserInv /\ TabInv /\ [BrowserNext]_allVars => TabInv'
<1> SUFFICES ASSUME IInv, BrowserInv, TabInv, [BrowserNext]_allVars PROVE TabInv'
  OBVIOUS
<1> USE RefreshAssumption DEF RefreshAssumption
<1>0. /\ PageInv /\ FlagInv /\ TypeOK /\ SlotInv /\ WaitInv
      /\ DOMAIN call = Calls /\ DOMAIN request = Requests
      /\ DOMAIN owner = Calls \cup Requests
      /\ DOMAIN failedQueue = Tabs /\ DOMAIN origin = Tabs
  BY DEF IInv, BrowserInv, TabInv, TypeOK, WaitInv
\* Nothing a tab keeps changes, and no call ends.
<1>1. ASSUME UNCHANGED <<tabVars, owner, boot>>,
             \A c \in Calls : call'[c].pc = "free" => call[c].pc = "free"
      PROVE  TabInv'
  <2>1. PageInv'
    BY <1>0, <1>1 DEF PageInv, tabVars
  <2>2. \A t \in Tabs : Waiting(t)' = Waiting(t)
    BY <1>1 DEF Waiting, tabVars
  <2>3. FlagInv'
    BY <1>0, <1>1, <2>2 DEF FlagInv, tabVars
  <2> QED BY <2>1, <2>3 DEF TabInv
\* A request begins in a page, or ends.
<1>2. ASSUME NEW q \in Requests, NEW u \in (open \ isHydrating) \cup {None}, Own(q, u),
             UNCHANGED <<tabVars, boot, call>>
      PROVE  TabInv'
  <2>1. owner'[q] = u /\ \A x \in (Calls \cup Requests) \ {q} : owner'[x] = owner[x]
    BY <1>0, <1>2 DEF Own
  <2>2. None \notin isHydrating
    BY <1>0 DEF PageInv
  <2>3. PageInv'
    BY <1>0, <1>2, <2>1, <2>2 DEF PageInv, tabVars
  <2>4. \A t \in Tabs : Waiting(t)' = Waiting(t)
    BY <1>2 DEF Waiting, tabVars
  <2>5. \A c \in Calls : owner'[c] = owner[c]
    BY <2>1
  <2>6. FlagInv'
    BY <1>0, <1>2, <2>4, <2>5 DEF FlagInv, SlotInv, tabVars
  <2> QED BY <2>3, <2>6 DEF TabInv
\* A call that belongs to no refresh of a tab begins or ends.
<1>3. ASSUME NEW c \in Calls, NEW u \in open \cup {None}, Own(c, u), u # None => c \in Forms,
             UNCHANGED tabVars, boot' = boot \ {c}, owner[c] = None \/ c \in Forms,
             call'[c].pc = "free" => u = None,
             \A d \in Calls \ {c} : call'[d] = call[d]
      PROVE  TabInv'
  <2>1. owner'[c] = u /\ \A x \in (Calls \cup Requests) \ {c} : owner'[x] = owner[x]
    BY <1>0, <1>3 DEF Own
  <2>2. PageInv'
    BY <1>0, <1>3, <2>1 DEF PageInv, tabVars
  <2>3. \A t \in Tabs : Waiting(t)' = Waiting(t)
    BY <1>3 DEF Waiting, tabVars
  <2>4. \A d \in Refreshes : owner'[d] = owner[d]
    BY <1>3, <2>1
  <2>5. \A d \in Refreshes : owner[d] # None => (d \in boot' <=> d \in boot)
    BY <1>3
  <2>6. \A t \in isHydrating' : \E d \in boot' : owner'[d] = t
    <3>1. ASSUME NEW t \in isHydrating PROVE \E d \in boot' : owner'[d] = t
      <4>1. PICK d \in boot : owner[d] = t
        BY <1>0 DEF FlagInv
      <4>2. d \in Refreshes /\ owner[d] # None
        BY <1>0, <4>1 DEF SlotInv, PageInv
      <4> QED BY <2>4, <2>5, <4>1, <4>2
    <3> QED BY <1>3, <3>1 DEF tabVars
  <2>7. \A t \in isRefreshing' : \E d \in Refreshes \ boot' : owner'[d] = t
    <3>1. ASSUME NEW t \in isRefreshing PROVE \E d \in Refreshes \ boot' : owner'[d] = t
      <4>1. PICK d \in Refreshes \ boot : owner[d] = t
        BY <1>0 DEF FlagInv
      <4>2. owner[d] # None
        BY <1>0, <4>1 DEF PageInv
      <4> QED BY <2>4, <2>5, <4>1, <4>2
    <3> QED BY <1>3, <3>1 DEF tabVars
  <2>8. \A d \in Calls : call'[d].pc = "free" => owner'[d] = None /\ d \notin boot'
    BY <1>0, <1>3, <2>1 DEF FlagInv
  <2>9. /\ \A d \in Refreshes : owner'[d] # None =>
              \/ d \in boot' /\ owner'[d] \in isHydrating'
              \/ d \notin boot' /\ owner'[d] \in isRefreshing'
        /\ \A d, e \in Refreshes : owner'[d] = owner'[e] /\ owner'[d] # None => d = e
        /\ \A t \in Tabs : Waiting(t)' # {} => t \in isRefreshing'
    BY <1>0, <1>3, <2>3, <2>4, <2>5 DEF FlagInv, tabVars
  <2> QED BY <2>2, <2>6, <2>7, <2>8, <2>9 DEF TabInv, FlagInv
\* A refresh begins in a tab that has none, and a flag says so.
<1>4. ASSUME NEW c \in Refreshes, NEW t \in Tabs, Own(c, t), call[c].pc = "free",
             call'[c].pc # "free", \A d \in Calls \ {c} : call'[d] = call[d],
             t \in open', open \subseteq open', open' \subseteq Tabs,
             t \notin isHydrating, t \notin isRefreshing,
             \/ /\ isHydrating' = isHydrating \cup {t} /\ boot' = boot \cup {c}
                /\ UNCHANGED <<isRefreshing, failedQueue, origin>> /\ t \notin open
             \/ /\ isRefreshing' = isRefreshing \cup {t} /\ UNCHANGED <<isHydrating, boot>>
                /\ \A u \in Tabs : u # t => Waiting(u)' = Waiting(u)
      PROVE  TabInv'
  <2>1. owner'[c] = t /\ \A x \in (Calls \cup Requests) \ {c} : owner'[x] = owner[x]
    BY <1>0, <1>4 DEF Own
  <2>2. owner[c] = None /\ c \notin boot
    BY <1>0, <1>4 DEF FlagInv
  <2>3. PageInv'
    BY <1>0, <1>4, <2>1 DEF PageInv
  <2>4. \A d \in Calls : call'[d].pc = "free" => owner'[d] = None /\ d \notin boot'
    BY <1>0, <1>4, <2>1 DEF FlagInv
  <2>5. \A d \in Refreshes \ {c} : owner'[d] = owner[d] /\ owner[d] # t
    <3>1. ASSUME NEW d \in Refreshes \ {c} PROVE owner[d] # t
      BY <1>0, <1>4 DEF FlagInv
    <3> QED BY <2>1, <3>1
  <2>6. \A d \in Refreshes \ {c} : d \in boot' <=> d \in boot
    BY <1>4
  <2>7. \A d \in Refreshes : owner'[d] # None =>
              \/ d \in boot' /\ owner'[d] \in isHydrating'
              \/ d \notin boot' /\ owner'[d] \in isRefreshing'
    <3>1. ASSUME NEW d \in Refreshes \ {c}, owner'[d] # None
          PROVE  \/ d \in boot' /\ owner'[d] \in isHydrating'
                 \/ d \notin boot' /\ owner'[d] \in isRefreshing'
      BY <1>0, <1>4, <2>5, <2>6, <3>1 DEF FlagInv
    <3>2. \/ c \in boot' /\ owner'[c] \in isHydrating'
          \/ c \notin boot' /\ owner'[c] \in isRefreshing'
      BY <1>4, <2>1, <2>2
    <3> QED BY <3>1, <3>2
  <2>8. ASSUME NEW u \in isHydrating' PROVE \E d \in boot' : owner'[d] = u
    <3>1. CASE u \in isHydrating
      <4>1. PICK d \in boot : owner[d] = u
        BY <1>0, <3>1 DEF FlagInv
      <4> QED BY <1>0, <1>4, <2>2, <2>5, <4>1 DEF SlotInv
    <3>2. CASE u \notin isHydrating
      BY <1>4, <2>1, <2>8, <3>2
    <3> QED BY <3>1, <3>2
  <2>9. ASSUME NEW u \in isRefreshing' PROVE \E d \in Refreshes \ boot' : owner'[d] = u
    <3>1. CASE u \in isRefreshing
      <4>1. PICK d \in Refreshes \ boot : owner[d] = u
        BY <1>0, <3>1 DEF FlagInv
      <4>2. d # c
        BY <1>0, <2>2, <3>1, <4>1 DEF PageInv
      <4> QED BY <2>5, <2>6, <4>1, <4>2
    <3>2. CASE u \notin isRefreshing
      BY <1>4, <2>1, <2>2, <2>9, <3>2
    <3> QED BY <3>1, <3>2
  <2>10. \A d, e \in Refreshes : owner'[d] = owner'[e] /\ owner'[d] # None => d = e
    BY <1>0, <2>1, <2>5 DEF FlagInv
  <2>11. \A u \in Tabs : Waiting(u)' # {} => u \in isRefreshing'
    <3>1. ASSUME NEW u \in Tabs, u # t PROVE Waiting(u)' = Waiting(u)
      BY <1>4, <3>1 DEF Waiting
    <3>2. CASE UNCHANGED <<isRefreshing, failedQueue, origin>>
      BY <1>0, <3>2 DEF FlagInv, Waiting
    <3>3. CASE isRefreshing' = isRefreshing \cup {t}
      BY <1>0, <3>1, <3>3 DEF FlagInv
    <3> QED BY <1>4, <3>2, <3>3
  <2> QED BY <2>3, <2>4, <2>7, <2>8, <2>9, <2>10, <2>11 DEF TabInv, FlagInv
\* The refresh of a tab ends, and its flag with it.
<1>5. ASSUME NEW c \in Refreshes, NEW t \in Tabs, owner[c] = t, call'[c].pc = "free",
             \A d \in Calls \ {c} : call'[d] = call[d] /\ owner'[d] = owner[d],
             owner'[c] = None, \A q \in Requests : owner'[q] \in {owner[q], None},
             UNCHANGED open,
             \/ /\ c \in boot /\ boot' = boot \ {c} /\ isHydrating' = isHydrating \ {t}
                /\ UNCHANGED <<isRefreshing, failedQueue, origin>>
             \/ /\ c \notin boot /\ UNCHANGED <<boot, isHydrating>>
                /\ isRefreshing' = isRefreshing \ {t}
                /\ \A u \in Tabs : Waiting(u)' = IF u = t THEN {} ELSE Waiting(u)
      PROVE  TabInv'
  <2>1. c \in Calls /\ t # None
    BY <1>5
  <2>2. PageInv'
    BY <1>0, <1>5 DEF PageInv
  <2>3. \A d \in Calls : call'[d].pc = "free" => owner'[d] = None /\ d \notin boot'
    BY <1>0, <1>5 DEF FlagInv
  <2>4. \A d \in Refreshes \ {c} : owner'[d] = owner[d] /\ owner[d] # t
                                     /\ (d \in boot' <=> d \in boot)
    BY <1>0, <1>5, <2>1 DEF FlagInv
  <2>5. \A d \in Refreshes : owner'[d] # None =>
              \/ d \in boot' /\ owner'[d] \in isHydrating'
              \/ d \notin boot' /\ owner'[d] \in isRefreshing'
    BY <1>0, <1>5, <2>4 DEF FlagInv
  <2>6. ASSUME NEW u \in isHydrating' PROVE \E d \in boot' : owner'[d] = u
    <3>1. PICK d \in boot : owner[d] = u
      BY <1>0, <1>5, <2>6 DEF FlagInv
    <3>2. d # c
      BY <1>0, <1>5, <2>6, <3>1 DEF PageInv
    <3> QED BY <1>0, <2>4, <3>1, <3>2 DEF SlotInv
  <2>7. ASSUME NEW u \in isRefreshing' PROVE \E d \in Refreshes \ boot' : owner'[d] = u
    <3>1. PICK d \in Refreshes \ boot : owner[d] = u
      BY <1>0, <1>5, <2>7 DEF FlagInv
    <3>2. d # c
      BY <1>5, <2>7, <3>1
    <3> QED BY <2>4, <3>1, <3>2
  <2>8. \A d, e \in Refreshes : owner'[d] = owner'[e] /\ owner'[d] # None => d = e
    BY <1>0, <1>5, <2>4 DEF FlagInv
  <2>9. \A u \in Tabs : Waiting(u)' # {} => u \in isRefreshing'
    <3>1. CASE UNCHANGED <<isRefreshing, failedQueue, origin>>
      BY <1>0, <3>1 DEF FlagInv, Waiting
    <3>2. CASE /\ isRefreshing' = isRefreshing \ {t}
               /\ \A u \in Tabs : Waiting(u)' = IF u = t THEN {} ELSE Waiting(u)
      BY <1>0, <3>2 DEF FlagInv
    <3> QED BY <1>5, <3>1, <3>2
  <2> QED BY <2>2, <2>3, <2>5, <2>6, <2>7, <2>8, <2>9 DEF TabInv, FlagInv
<1>6. ASSUME NEW t \in Tabs, ProcessQueue(t), origin' = [origin EXCEPT ![t] = None]
      PROVE  \A u \in Tabs : Waiting(u)' = IF u = t THEN {} ELSE Waiting(u)
  BY <1>0, <1>6 DEF ProcessQueue, Waiting
<1>7. ASSUME NEW c \in Calls, Free(c)
      PROVE  call'[c].pc = "free" /\ \A d \in Calls \ {c} : call'[d] = call[d]
  BY <1>0, <1>7 DEF Free, NoCall
<1>8. ASSUME NEW c \in Calls, Own(c, None)
      PROVE  /\ owner'[c] = None
             /\ \A x \in (Calls \cup Requests) \ {c} : owner'[x] = owner[x]
  BY <1>0, <1>8 DEF Own
<1>9. CASE Service
  <2>1. UNCHANGED <<tabVars, owner, boot>>
    BY <1>9 DEF Service, browser
  <2>2. Tick \/ Blacklist \/ (\E q \in Requests : Check(q)) => UNCHANGED call
    BY DEF Tick, Blacklist, Check
  <2>3. \A c \in Calls : call'[c].pc = "free" => call[c].pc = "free"
    BY <1>0, <1>9, <2>2, ServeMoves DEF Service
  <2> QED BY <1>1, <2>1, <2>3
<1>10. CASE Administrator
  <2>1. UNCHANGED <<call, tabVars, owner, boot>>
    BY <1>10, OthersKept DEF Administrator
  <2> QED BY <1>1, <2>1
<1>11. ASSUME NEW c \in Calls, Answer(c) PROVE TabInv'
  <2>1. ASSUME NEW t \in Tabs, BootAnswer(c, t) PROVE TabInv'
    <3>1. /\ c \in boot /\ owner[c] = t /\ Free(c) /\ boot' = boot \ {c} /\ Own(c, None)
          /\ isHydrating' = isHydrating \ {t}
          /\ UNCHANGED <<open, isRefreshing, failedQueue, origin>>
      BY <2>1 DEF BootAnswer
    <3>2. c \in Refreshes
      BY <1>0, <3>1 DEF SlotInv
    <3> QED BY <1>5, <1>7, <1>8, <3>1, <3>2
  <2>2. ASSUME NEW t \in Tabs, Refreshed(c, t) PROVE TabInv'
    <3>1. /\ c \in Refreshes \ boot /\ owner[c] = t /\ Own(c, None)
          /\ ProcessQueue(t) /\ origin' = [origin EXCEPT ![t] = None]
          /\ isRefreshing' = isRefreshing \ {t} /\ UNCHANGED <<open, isHydrating, boot>>
          /\ call' = [call EXCEPT ![c] = NoCall]
      BY <2>2 DEF Refreshed
    <3>2. call'[c].pc = "free" /\ \A d \in Calls \ {c} : call'[d] = call[d]
      BY <1>0, <3>1 DEF NoCall
    <3>3. \A u \in Tabs : Waiting(u)' = IF u = t THEN {} ELSE Waiting(u)
      BY <1>6, <3>1
    <3>4. /\ owner'[c] = None
          /\ \A x \in (Calls \cup Requests) \ {c} : owner'[x] = owner[x]
      BY <1>8, <3>1
    <3>5. \A q \in Requests : owner'[q] \in {owner[q], None}
      BY <3>4
    <3> QED BY <1>5, <3>1, <3>2, <3>3, <3>4, <3>5
  <2>3. ASSUME NEW t \in Tabs, NotRefreshed(c, t) PROVE TabInv'
    <3>1. /\ c \in Refreshes \ boot /\ owner[c] = t /\ Free(c)
          /\ owner' = [x \in DOMAIN owner |->
                         IF x = c \/ x \in Waiting(t) THEN None ELSE owner[x]]
          /\ ProcessQueue(t) /\ origin' = [origin EXCEPT ![t] = None]
          /\ isRefreshing' = isRefreshing \ {t} /\ UNCHANGED <<open, isHydrating, boot>>
      BY <2>3 DEF NotRefreshed
    <3>2. Waiting(t) \subseteq Requests
      BY <1>0 DEF Waiting, WaitInv
    <3>3. /\ owner'[c] = None /\ \A d \in Calls \ {c} : owner'[d] = owner[d]
          /\ \A q \in Requests : owner'[q] \in {owner[q], None}
      BY <1>0, <3>1, <3>2
    <3>4. \A u \in Tabs : Waiting(u)' = IF u = t THEN {} ELSE Waiting(u)
      BY <1>6, <3>1
    <3>5. call'[c].pc = "free" /\ \A d \in Calls \ {c} : call'[d] = call[d]
      BY <1>7, <3>1
    <3> QED BY <1>5, <3>1, <3>3, <3>4, <3>5
  <2>4. ASSUME NEW t \in Tabs, SignedIn(c, t) \/ SignedOut(c, t) PROVE TabInv'
    <3>1. c \in Forms /\ Own(c, None) /\ Free(c) /\ UNCHANGED <<tabVars, boot>>
      BY <2>4 DEF SignedIn, SignedOut, tabVars
    <3>2. boot' = boot \ {c}
      BY <1>0, <3>1 DEF SlotInv
    <3> QED BY <1>3, <1>7, <3>1, <3>2
  <2>5. CASE Drop(c)
    <3>1. /\ owner[c] = None /\ Free(c) /\ boot' = boot \ {c} /\ UNCHANGED <<tabVars, owner>>
      BY <2>5 DEF Drop, ReceiveRequest
    <3>2. Own(c, None)
      BY <1>0, <3>1 DEF Own, WaitInv
    <3> QED BY <1>3, <1>7, <3>1, <3>2
  <2> QED BY <1>11, <2>1, <2>2, <2>3, <2>4, <2>5 DEF Answer
<1>12. ASSUME NEW t \in Tabs, ClosePage(t) PROVE TabInv'
  <2>1. /\ open' = open \ {t} /\ isHydrating' = isHydrating \ {t}
        /\ isRefreshing' = isRefreshing \ {t}
        /\ failedQueue' = [failedQueue EXCEPT ![t] = {}]
        /\ origin' = [origin EXCEPT ![t] = None]
        /\ owner' = [x \in DOMAIN owner |-> IF owner[x] = t THEN None ELSE owner[x]]
        /\ UNCHANGED <<call, boot>>
    BY <1>12 DEF ClosePage
  <2>2. \A x \in Calls \cup Requests : owner'[x] = IF owner[x] = t THEN None ELSE owner[x]
    BY <1>0, <2>1
  <2>3. PageInv'
    BY <1>0, <2>1, <2>2 DEF PageInv
  <2>4. ASSUME NEW u \in isHydrating' PROVE \E c \in boot' : owner'[c] = u
    <3>1. PICK c \in boot : owner[c] = u
      BY <1>0, <2>1, <2>4 DEF FlagInv
    <3> QED BY <1>0, <2>1, <2>2, <2>4, <3>1 DEF SlotInv
  <2>5. ASSUME NEW u \in isRefreshing' PROVE \E c \in Refreshes \ boot' : owner'[c] = u
    <3>1. PICK c \in Refreshes \ boot : owner[c] = u
      BY <1>0, <2>1, <2>5 DEF FlagInv
    <3> QED BY <1>0, <2>1, <2>2, <2>5, <3>1
  <2>6. \A u \in Tabs : Waiting(u)' = IF u = t THEN {} ELSE Waiting(u)
    BY <1>6, <2>1 DEF ProcessQueue
  <2>7. /\ \A c \in Calls : call'[c].pc = "free" => owner'[c] = None /\ c \notin boot'
        /\ \A c \in Refreshes : owner'[c] # None =>
              \/ c \in boot' /\ owner'[c] \in isHydrating'
              \/ c \notin boot' /\ owner'[c] \in isRefreshing'
        /\ \A c, d \in Refreshes : owner'[c] = owner'[d] /\ owner'[c] # None => c = d
        /\ \A u \in Tabs : Waiting(u)' # {} => u \in isRefreshing'
    BY <1>0, <2>1, <2>2, <2>6 DEF FlagInv
  <2> QED BY <2>3, <2>4, <2>5, <2>7 DEF TabInv, FlagInv
<1>b. ASSUME NEW c \in Calls, NEW k, call[c].pc = "free",
             call' = [call EXCEPT ![c] = [@ EXCEPT !.kind = k, !.pc = "sent", !.token = cookie]]
      PROVE  call'[c].pc # "free" /\ \A d \in Calls \ {c} : call'[d] = call[d]
  BY <1>0, <1>b DEF SlotInv, NoCall
<1>13. ASSUME NEW t \in Tabs, NEW c \in Refreshes, OpenPage(t, c) PROVE TabInv'
  <2>1. /\ t \notin open /\ call[c].pc = "free"
        /\ call' = [call EXCEPT ![c] = [@ EXCEPT !.kind = "refresh", !.pc = "sent",
                                                 !.token = cookie]]
        /\ open' = open \cup {t} /\ isHydrating' = isHydrating \cup {t}
        /\ Own(c, t) /\ boot' = boot \cup {c}
        /\ UNCHANGED <<isRefreshing, failedQueue, origin>>
    BY <1>13 DEF OpenPage, Send
  <2>2. /\ open' \subseteq Tabs /\ open \subseteq open' /\ t \in open'
        /\ t \notin isHydrating /\ t \notin isRefreshing
    BY <1>0, <2>1 DEF PageInv
  <2> QED BY <1>4, <1>b, <2>1, <2>2
<1>14. ASSUME NEW t \in Tabs, NEW c \in Forms, NEW k, Submit(t, c, k) PROVE TabInv'
  <2>1. /\ t \in open /\ call[c].pc = "free" /\ Own(c, t) /\ UNCHANGED <<tabVars, boot>>
        /\ call' = [call EXCEPT ![c] = [@ EXCEPT !.kind = k, !.pc = "sent", !.token = cookie]]
    BY <1>14 DEF Submit, Send
  <2>2. boot' = boot \ {c}
    BY <1>0, <2>1 DEF SlotInv
  <2> QED BY <1>3, <1>b, <2>1, <2>2
<1>15. ASSUME NEW t \in Tabs, NEW q \in Requests, Ask(q, t) PROVE TabInv'
  <2>1. t \in open \ isHydrating /\ Own(q, t) /\ UNCHANGED <<tabVars, boot, call>>
    BY <1>15 DEF Ask, SendRequest
  <2> QED BY <1>2, <2>1
<1>16. ASSUME NEW q \in Requests, AnswerRequest(q) \/ LoseRequest(q) PROVE TabInv'
  <2>1. ASSUME NEW t \in Tabs, Settle(q, t) PROVE TabInv'
    <3>1. Own(q, None) /\ UNCHANGED <<tabVars, boot, call>>
      BY <2>1 DEF Settle, ReceiveRequest
    <3> QED BY <1>2, <3>1
  <2>2. ASSUME NEW t \in Tabs, Enqueue(q, t) PROVE TabInv'
    <3>1. /\ t \in isRefreshing /\ failedQueue' = [failedQueue EXCEPT ![t] = @ \cup {q}]
          /\ UNCHANGED <<open, isHydrating, isRefreshing, origin, owner, boot, call>>
      BY <2>2 DEF Enqueue, ReceiveRequest
    <3>2. \A u \in Tabs : u # t => Waiting(u)' = Waiting(u)
      BY <1>0, <3>1 DEF Waiting
    <3>3. PageInv'
      BY <1>0, <3>1 DEF PageInv
    <3>4. FlagInv'
      BY <1>0, <3>1, <3>2 DEF FlagInv
    <3> QED BY <3>3, <3>4 DEF TabInv
  <2>3. ASSUME NEW t \in Tabs, NEW c \in Refreshes, StartRefresh(q, t, c) PROVE TabInv'
    <3>1. /\ owner[q] = t /\ t \notin isRefreshing /\ call[c].pc = "free"
          /\ call' = [call EXCEPT ![c] = [@ EXCEPT !.kind = "refresh", !.pc = "sent",
                                                   !.token = cookie]]
          /\ isRefreshing' = isRefreshing \cup {t} /\ origin' = [origin EXCEPT ![t] = q]
          /\ Own(c, t) /\ UNCHANGED <<open, isHydrating, failedQueue, boot>>
      BY <2>3 DEF StartRefresh, FirstUnauthorized
    <3>2. /\ t \in open' /\ open \subseteq open' /\ open' \subseteq Tabs /\ t \notin isHydrating
      BY <1>0, <3>1 DEF PageInv
    <3>3. \A u \in Tabs : u # t => Waiting(u)' = Waiting(u)
      BY <1>0, <3>1 DEF Waiting
    <3> QED BY <1>4, <1>b, <3>1, <3>2, <3>3
  <2>4. CASE Drop(q)
    <3>1. /\ ReceiveRequest(q) /\ boot' = boot \ {q} /\ UNCHANGED <<tabVars, owner>>
      BY <2>4 DEF Drop
    <3>2. UNCHANGED <<boot, call>>
      BY <1>0, <3>1 DEF ReceiveRequest, SlotInv
    <3> QED BY <1>1, <3>1, <3>2
  <2> QED BY <1>16, <2>1, <2>2, <2>3, <2>4 DEF AnswerRequest, LoseRequest
<1>17. ASSUME UNCHANGED allVars PROVE TabInv'
  <2>1. UNCHANGED <<tabVars, owner, boot, call>>
    BY <1>17 DEF allVars, vars, browser
  <2> QED BY <1>1, <2>1
<1> QED
  BY <1>9, <1>10, <1>11, <1>12, <1>13, <1>14, <1>15, <1>16, <1>17 DEF BrowserNext

-----------------------------------------------------------------------------
(* The cookie follows the hash of the row.                                  *)

\* The account has a session and nothing went wrong: calls have not
\* overlapped, and every answer that changed something has arrived.
Undisturbed == alone /\ ~troubled /\ account.hash # None

\* The cookie is the session's until a call stores another hash; then it is
\* that call's answer which brings the cookie.  A form that failed may have
\* stored a hash or not.
Follows(c) ==
    \/ call[c].pc \notin {"anchoring", "ok"} /\ cookie = account.hash
    \/ /\ call[c].pc \in {"anchoring", "ok"} /\ call[c].kind # "logout"
       /\ account.hash = call[c].iat
    \/ call[c].pc = "failed" /\ c \in Forms

FollowInv ==
    /\ \A c \in Calls : call[c].pc \in {"minting", "storing"} => call[c].kind # "logout"
    /\ \A c \in Refreshes : call[c].pc # "anchoring"
    /\ Undisturbed => IF Open = {} THEN cookie = account.hash ELSE \A c \in Open : Follows(c)

\* One call of its own, from the request to the answer.
LEMMA FollowStep == IInv /\ BrowserInv /\ FollowInv /\ [BrowserNext]_allVars => FollowInv'
<1> SUFFICES ASSUME IInv, BrowserInv, FollowInv, [BrowserNext]_allVars PROVE FollowInv'
  OBVIOUS
<1> USE RefreshAssumption DEF RefreshAssumption
<1>0. /\ TypeOK /\ SlotInv /\ DOMAIN call = Calls
      /\ \A c \in Calls : call[c] \in CallType
      /\ alone => \A c, d \in Open : c = d
  BY DEF IInv, BrowserInv, OneAtATime, TypeOK, CallType
\* No call moves, and the hash stays or goes.
<1>1. ASSUME UNCHANGED <<call, cookie>>, account'.hash \in {account.hash, None},
             alone' => alone, troubled => troubled'
      PROVE  FollowInv'
  <2>1. Open' = Open
    BY <1>1 DEF Open
  <2>2. Undisturbed' => Undisturbed /\ account'.hash = account.hash
    BY <1>1 DEF Undisturbed
  <2>3. \A c \in Open : account'.hash = account.hash /\ Follows(c) => Follows(c)'
    BY <1>1 DEF Follows
  <2> QED BY <1>1, <2>1, <2>2, <2>3 DEF FollowInv
\* A call begins.
<1>2. ASSUME NEW c \in Calls, call'[c].pc = "sent", \A d \in Calls \ {c} : call'[d] = call[d],
             alone' = (alone /\ Open = {}), UNCHANGED <<account, cookie, troubled>>
      PROVE  FollowInv'
  <2>1. /\ \A d \in Calls : call'[d].pc \in {"minting", "storing"} => call'[d].kind # "logout"
        /\ \A d \in Refreshes : call'[d].pc # "anchoring"
    BY <1>2 DEF FollowInv
  <2>2. ASSUME Undisturbed' PROVE Open' = {c} /\ Follows(c)'
    <3>1. Undisturbed /\ Open = {}
      BY <1>2, <2>2 DEF Undisturbed
    <3>2. Open' = {c}
      BY <1>2, <3>1 DEF Open
    <3>3. cookie = account.hash
      BY <3>1 DEF FollowInv
    <3> QED BY <1>2, <3>2, <3>3 DEF Follows
  <2> QED BY <2>1, <2>2 DEF FollowInv
\* A call that is under way moves on.
<1>3. ASSUME NEW c \in Open, call'[c].pc # "free", \A d \in Calls \ {c} : call'[d] = call[d],
             UNCHANGED <<alone, cookie, troubled>>, c \in Refreshes => call'[c].pc # "anchoring",
             call'[c].pc \in {"minting", "storing"} => call'[c].kind # "logout",
             Undisturbed' /\ account'.hash = account.hash /\ Follows(c) => Follows(c)',
             Undisturbed' /\ account'.hash # account.hash => Follows(c)'
      PROVE  FollowInv'
  <2>1. /\ \A d \in Calls : call'[d].pc \in {"minting", "storing"} => call'[d].kind # "logout"
        /\ \A d \in Refreshes : call'[d].pc # "anchoring"
    BY <1>3 DEF FollowInv
  <2>2. ASSUME Undisturbed' PROVE Open' = {c} /\ Follows(c)'
    <3>1. \A d \in Open : d = c
      BY <1>0, <1>3, <2>2 DEF Undisturbed
    <3>2. Open' = {c}
      BY <1>3, <3>1 DEF Open
    <3>3. account'.hash = account.hash => Undisturbed /\ Follows(c)
      BY <1>3, <2>2 DEF Undisturbed, FollowInv
    <3> QED BY <1>3, <2>2, <3>2, <3>3
  <2> QED BY <2>1, <2>2 DEF FollowInv
\* A call ends with its answer.
<1>4. ASSUME NEW c \in Open, call'[c].pc = "free", \A d \in Calls \ {c} : call'[d] = call[d],
             UNCHANGED <<alone, account>>, troubled => troubled',
             Undisturbed' /\ Follows(c) => cookie' = account.hash
      PROVE  FollowInv'
  <2>1. /\ \A d \in Calls : call'[d].pc \in {"minting", "storing"} => call'[d].kind # "logout"
        /\ \A d \in Refreshes : call'[d].pc # "anchoring"
    BY <1>4 DEF FollowInv
  <2>2. ASSUME Undisturbed' PROVE Open' = {} /\ cookie' = account'.hash
    <3>1. Undisturbed
      BY <1>4, <2>2 DEF Undisturbed
    <3>2. \A d \in Open : d = c
      BY <1>0, <1>4, <3>1 DEF Undisturbed
    <3>3. Open' = {}
      BY <1>4, <3>2 DEF Open
    <3>4. Follows(c)
      BY <1>4, <3>1 DEF FollowInv
    <3> QED BY <1>4, <2>2, <3>3, <3>4
  <2> QED BY <2>1, <2>2 DEF FollowInv
<1>5. ASSUME NEW c \in Calls, Free(c)
      PROVE  /\ c \in Open /\ call'[c].pc = "free" /\ \A d \in Calls \ {c} : call'[d] = call[d]
             /\ UNCHANGED <<alone, account>> /\ call[c].pc \in Ended
  BY <1>0, <1>5 DEF Free, NoCall, Open, Ended, row
<1>6. ASSUME NEW c \in Calls, Serve(c) \/ Fail(c), UNCHANGED <<alone, cookie, troubled>>
      PROVE  FollowInv'
  <2>1. /\ c \in Open /\ call'[c].pc # "free" /\ \A d \in Calls \ {c} : call'[d] = call[d]
        /\ call'[c].kind = call[c].kind
    BY <1>0, <1>6, ServeMoves DEF Open, Executing
  <2>2. CASE Read(c) \/ Mint(c) \/ Refuse(c) \/ Anchored(c) \/ Fail(c)
    <3>1. UNCHANGED account
      BY <2>2 DEF Read, Mint, Refuse, Anchored, Fail, row
    <3>2. CASE Read(c) \/ Mint(c)
      <4>1. Read(c) => /\ call[c].pc = "sent" /\ call'[c].pc = "minting"
                       /\ call[c].kind # "logout"
        BY <1>0 DEF Read, CallType
      <4>2. Mint(c) => /\ call[c].pc = "minting" /\ call'[c].pc = "storing"
                       /\ call[c].kind # "logout"
        BY <1>0 DEF Mint, CallType, FollowInv
      <4> QED BY <1>3, <1>6, <2>1, <3>1, <3>2, <4>1, <4>2 DEF Follows
    <3>3. CASE Refuse(c)
      <4>1. call[c].pc = "sent" /\ call'[c].pc = "refused"
        BY <1>0, <3>3 DEF Refuse, GiveUp, NoCall
      <4> QED BY <1>3, <1>6, <2>1, <3>1, <4>1 DEF Follows
    <3>4. CASE Anchored(c)
      <4>1. /\ call[c].pc = "anchoring" /\ call'[c].pc = "ok" /\ call'[c].iat = call[c].iat
        BY <1>0, <3>4 DEF Anchored, Goto, CallType
      <4> QED BY <1>3, <1>6, <2>1, <3>1, <4>1 DEF Follows
    <3>5. CASE Fail(c)
      <4>1. call[c].pc # "ok" /\ call'[c].pc = "failed"
        BY <1>0, <3>5 DEF Fail, GiveUp, NoCall, Executing
      <4>2. c \in Refreshes => call[c].pc # "anchoring"
        BY DEF FollowInv
      <4> QED BY <1>3, <1>6, <2>1, <3>1, <4>1, <4>2 DEF Follows
    <3> QED BY <2>2, <3>2, <3>3, <3>4, <3>5
  <2>3. CASE StoreHash(c)
    <3>1. /\ account'.hash = call[c].iat /\ call'[c].iat = call[c].iat
          /\ call'[c].pc = IF call[c].kind = "login" THEN "anchoring" ELSE "ok"
      BY <1>0, <2>3 DEF StoreHash, Goto, CallType, TypeOK
    <3>2. call[c].kind # "logout"
      BY <2>3 DEF StoreHash, FollowInv
    <3>3. c \in Refreshes => call[c].kind = "refresh"
      BY <1>0, <2>1 DEF SlotInv, Open
    <3> QED BY <1>3, <1>6, <2>1, <3>1, <3>2, <3>3 DEF Follows
  <2>4. CASE ClearHash(c)
    <3>1. account'.hash = None /\ call[c].kind = "logout" /\ call'[c].pc = "anchoring"
      BY <1>0, <2>4 DEF ClearHash, Goto, TypeOK
    <3>2. ~Undisturbed' /\ c \notin Refreshes
      BY <1>0, <2>1, <3>1 DEF Undisturbed, SlotInv, Open
    <3>3. c \in Refreshes => call'[c].pc # "anchoring"
      BY <3>2
    <3>4. call'[c].pc \in {"minting", "storing"} => call'[c].kind # "logout"
      BY <3>1
    <3> QED BY <1>3, <1>6, <2>1, <3>2, <3>3, <3>4
  <2> QED BY <1>6, <2>2, <2>3, <2>4 DEF Serve
<1>7. CASE Service
  <2>1. UNCHANGED <<cookie, troubled>>
    BY <1>7 DEF Service, browser
  <2>2. Tick \/ Blacklist \/ (\E q \in Requests : Check(q)) =>
            UNCHANGED <<call, account, alone>>
    BY DEF Tick, Blacklist, Check, row
  <2>3. (\E c \in Calls : Serve(c) \/ Fail(c)) => UNCHANGED alone
    BY DEF Serve, Fail, Read, Refuse, Mint, StoreHash, ClearHash, Anchored
  <2> QED BY <1>1, <1>6, <1>7, <2>1, <2>2, <2>3 DEF Service
<1>8. CASE Administrator
  <2>1. UNCHANGED <<call, cookie, alone, troubled>>
    BY <1>8, OthersKept DEF Administrator
  <2>2. account'.hash \in {account.hash, None}
    BY <1>0, <1>8, HashKept DEF Administrator
  <2> QED BY <1>1, <2>1, <2>2
<1>9. ASSUME NEW c \in Calls, Answer(c) PROVE FollowInv'
  <2>1. ASSUME NEW t \in Tabs, BootAnswer(c, t) PROVE FollowInv'
    <3>1. c \in Refreshes /\ Free(c)
      BY <1>0, <2>1 DEF BootAnswer, SlotInv
    <3>2. \/ call[c].pc = "ok" /\ SetRefreshCookie(c) /\ UNCHANGED troubled
          \/ UNCHANGED cookie /\ troubled' = (troubled \/ call[c].pc = "ok")
      BY <2>1 DEF BootAnswer, Take
    <3>3. troubled => troubled'
      BY <3>2
    <3>4. Follows(c) /\ ~troubled' => cookie' = account.hash
      BY <1>5, <3>1, <3>2 DEF Follows, SetRefreshCookie, Ended, FollowInv
    <3> QED BY <1>4, <1>5, <3>1, <3>4, <3>3 DEF Undisturbed
  <2>2. ASSUME NEW t \in Tabs, Refreshed(c, t) PROVE FollowInv'
    <3>1. /\ c \in Refreshes /\ call[c].pc = "ok" /\ SetRefreshCookie(c)
          /\ call' = [call EXCEPT ![c] = NoCall] /\ UNCHANGED <<account, alone, troubled>>
      BY <2>2 DEF Refreshed, Take, row
    <3>2. c \in Open /\ call'[c].pc = "free" /\ \A d \in Calls \ {c} : call'[d] = call[d]
      BY <1>0, <3>1 DEF Open, NoCall
    <3>3. Follows(c) => cookie' = account.hash
      BY <3>1 DEF Follows, SetRefreshCookie
    <3> QED BY <1>4, <3>1, <3>2, <3>3
  <2>3. ASSUME NEW t \in Tabs, NotRefreshed(c, t) PROVE FollowInv'
    <3>1. /\ c \in Refreshes /\ Free(c) /\ UNCHANGED cookie
          /\ troubled' = (troubled \/ call[c].pc = "ok")
      BY <2>3 DEF NotRefreshed
    <3>2. Follows(c) /\ ~troubled' => cookie' = account.hash
      BY <1>5, <3>1 DEF Follows, Ended, FollowInv
    <3> QED BY <1>4, <1>5, <3>1, <3>2 DEF Undisturbed
  <2>4. ASSUME NEW t \in Tabs, SignedIn(c, t) PROVE FollowInv'
    <3>1. /\ Free(c) /\ call[c].kind = "login"
          /\ \/ call[c].pc = "ok" /\ SetRefreshCookie(c) /\ UNCHANGED troubled
             \/ UNCHANGED cookie /\ troubled' = (troubled \/ call[c].pc # "refused")
      BY <2>4 DEF SignedIn, Take
    <3>2. Follows(c) /\ ~troubled' => cookie' = account.hash
      BY <3>1 DEF Follows, SetRefreshCookie
    <3>3. troubled => troubled'
      BY <3>1
    <3> QED BY <1>4, <1>5, <3>1, <3>2, <3>3 DEF Undisturbed
  <2>5. ASSUME NEW t \in Tabs, SignedOut(c, t) PROVE FollowInv'
    <3>1. /\ Free(c) /\ call[c].kind = "logout"
          /\ \/ call[c].pc = "ok"
             \/ call[c].pc = "failed" /\ troubled'
             \/ UNCHANGED cookie /\ troubled' = (troubled \/ call[c].pc # "refused")
          /\ troubled => troubled'
      BY <2>5 DEF SignedOut, ClearSessionCookies
    <3>2. Follows(c) /\ ~troubled' => cookie' = account.hash
      BY <3>1 DEF Follows
    <3> QED BY <1>4, <1>5, <3>1, <3>2 DEF Undisturbed
  <2>6. CASE Drop(c)
    <3>1. /\ Free(c)
          /\ \/ /\ call[c].kind # "logout" /\ call[c].pc = "ok"
                /\ SetRefreshCookie(c) /\ UNCHANGED troubled
             \/ ClearSessionCookies(c)
             \/ /\ UNCHANGED cookie
                /\ troubled' = (troubled \/ call[c].pc = "ok"
                                  \/ (c \in Forms /\ call[c].pc = "failed"))
      BY <2>6 DEF Drop
    <3>2. ASSUME Follows(c), ~troubled' PROVE cookie' = account.hash
      <4>1. CASE /\ call[c].kind # "logout" /\ call[c].pc = "ok" /\ SetRefreshCookie(c)
        BY <3>2, <4>1 DEF Follows, SetRefreshCookie
      <4>2. CASE ClearSessionCookies(c)
        BY <3>2, <4>2 DEF Follows, ClearSessionCookies
      <4>3. CASE /\ UNCHANGED cookie /\ call[c].pc # "ok"
                 /\ ~(c \in Forms /\ call[c].pc = "failed")
        BY <1>5, <3>1, <3>2, <4>3 DEF Follows, Ended
      <4> QED BY <3>1, <3>2, <4>1, <4>2, <4>3
    <3>3. troubled => troubled'
      BY <3>1 DEF ClearSessionCookies
    <3> QED BY <1>4, <1>5, <3>1, <3>2, <3>3 DEF Undisturbed
  <2> QED BY <1>9, <2>1, <2>2, <2>3, <2>4, <2>5, <2>6 DEF Answer
<1>b. ASSUME NEW c \in Calls, NEW k, call[c].pc = "free",
             call' = [call EXCEPT ![c] = [@ EXCEPT !.kind = k, !.pc = "sent", !.token = cookie]]
      PROVE  call'[c].pc = "sent" /\ \A d \in Calls \ {c} : call'[d] = call[d]
  BY <1>0, <1>b DEF SlotInv, NoCall
<1>10. ASSUME NEW t \in Tabs, NEW c \in Calls,
              OpenPage(t, c) \/ \E k \in {"login", "logout"} : Submit(t, c, k)
       PROVE  FollowInv'
  <2>1. PICK k \in {"login", "logout", "refresh"} :
           Send(c, k, cookie) /\ UNCHANGED <<cookie, troubled>>
    BY <1>10 DEF OpenPage, Submit
  <2>2. /\ alone' = (alone /\ Open = {}) /\ UNCHANGED account /\ call[c].pc = "free"
        /\ call' = [call EXCEPT ![c] = [@ EXCEPT !.kind = k, !.pc = "sent", !.token = cookie]]
    BY <2>1 DEF Send, row
  <2> QED BY <1>2, <1>b, <2>1, <2>2
<1>11. ASSUME NEW t \in Tabs, ClosePage(t) PROVE FollowInv'
  <2>1. UNCHANGED <<call, cookie, account, alone, troubled>>
    BY <1>11 DEF ClosePage, row
  <2> QED BY <1>1, <2>1
<1>12. ASSUME NEW t \in Tabs, NEW q \in Requests, Ask(q, t) PROVE FollowInv'
  <2>1. UNCHANGED <<call, cookie, account, alone, troubled>>
    BY <1>12 DEF Ask, SendRequest, row
  <2> QED BY <1>1, <2>1
<1>13. ASSUME NEW q \in Requests, AnswerRequest(q) \/ LoseRequest(q) PROVE FollowInv'
  <2>1. ASSUME NEW t \in Tabs, Settle(q, t) \/ Enqueue(q, t) PROVE FollowInv'
    <3>1. UNCHANGED <<call, cookie, account, alone, troubled>>
      BY <2>1 DEF Settle, Enqueue, ReceiveRequest, row
    <3> QED BY <1>1, <3>1
  <2>2. ASSUME NEW t \in Tabs, NEW c \in Refreshes, StartRefresh(q, t, c) PROVE FollowInv'
    <3>1. /\ c \in Calls /\ call[c].pc = "free"
          /\ call' = [call EXCEPT ![c] = [@ EXCEPT !.kind = "refresh", !.pc = "sent",
                                                   !.token = cookie]]
          /\ alone' = (alone /\ Open = {}) /\ UNCHANGED <<account, cookie, troubled>>
      BY <2>2 DEF StartRefresh, row
    <3>2. call'[c].pc = "sent" /\ \A d \in Calls \ {c} : call'[d] = call[d]
      BY <1>b, <3>1
    <3> QED BY <1>2, <3>1, <3>2
  <2>3. CASE Drop(q)
    <3>1. UNCHANGED <<call, cookie, account, alone, troubled>>
      BY <1>0, <2>3 DEF Drop, ReceiveRequest, row
    <3> QED BY <1>1, <3>1
  <2> QED BY <1>13, <2>1, <2>2, <2>3 DEF AnswerRequest, LoseRequest
<1>14. ASSUME UNCHANGED allVars PROVE FollowInv'
  <2>1. UNCHANGED <<call, cookie, account, alone, troubled>>
    BY <1>14 DEF allVars, vars, browser, row
  <2> QED BY <1>1, <2>1
<1> QED
  BY <1>7, <1>8, <1>9, <1>10, <1>11, <1>12, <1>13, <1>14 DEF BrowserNext

LEMMA TabInitInv == BrowserInit => TabInv /\ FollowInv
<1> SUFFICES ASSUME BrowserInit PROVE TabInv /\ FollowInv
  OBVIOUS
<1>1. \A c \in Calls : call[c].pc = "free" /\ call[c].kind = "login"
  BY DEF BrowserInit, Init, NoCall
<1>2. PageInv
  BY DEF BrowserInit, PageInv
<1>3. FlagInv
  BY RefreshAssumption DEF BrowserInit, FlagInv, Waiting, RefreshAssumption
<1>4. FollowInv
  BY <1>1, RefreshAssumption DEF BrowserInit, Init, FollowInv, Undisturbed, RefreshAssumption
<1> QED BY <1>2, <1>3, <1>4 DEF TabInv

\* Everything above at once: what the service knows, what the browser keeps,
\* and the one refresh of every tab.
THEOREM TabInvariant == BrowserSpec => [](BrowserInv /\ TabInv /\ FollowInv)
<1>1. BrowserInit => TabInv /\ FollowInv
  BY TabInitInv
<1>2. (IInv /\ BrowserInv) /\ TabInv /\ FollowInv /\ [BrowserNext]_allVars
        => (TabInv /\ FollowInv)'
  BY TabStep, FollowStep
<1> QED BY <1>1, <1>2, BrowserInvariant, PTL DEF BrowserSpec

\* A tab has one refresh under way exactly when its interceptor or its
\* provider says so (axios.ts:133, AuthProvider.tsx:31), and no request waits
\* for a refresh that cannot answer it: for any number of tabs and requests,
\* pages closed and answers lost at any time.
THEOREM WaitersSafe == BrowserSpec => []WaitersHaveARefresh
<1>1. BrowserInv /\ TabInv => WaitersHaveARefresh
  <2> SUFFICES ASSUME BrowserInv, TabInv, NEW t \in Tabs
               PROVE  /\ RefreshesOf(t) # {} <=> t \in isRefreshing \cup isHydrating
                      /\ \A c, d \in RefreshesOf(t) : c = d
                      /\ Waiting(t) # {} => t \in isRefreshing
    BY DEF WaitersHaveARefresh
  <2>0. t # None /\ boot \subseteq Refreshes /\ Refreshes \subseteq Calls
    BY RefreshAssumption DEF BrowserInv, SlotInv, RefreshAssumption
  <2>1. RefreshesOf(t) = {c \in Refreshes : owner[c] = t}
    BY <2>0 DEF RefreshesOf, TabInv, FlagInv
  <2>2. RefreshesOf(t) # {} => t \in isRefreshing \cup isHydrating
    BY <2>0, <2>1 DEF TabInv, FlagInv
  <2>3. t \in isRefreshing \cup isHydrating => RefreshesOf(t) # {}
    BY <2>0, <2>1 DEF TabInv, FlagInv
  <2>4. \A c, d \in RefreshesOf(t) : c = d
    BY <2>0, <2>1 DEF TabInv, FlagInv
  <2> QED BY <2>2, <2>3, <2>4 DEF TabInv, FlagInv
<1> QED BY <1>1, TabInvariant, PTL

\* The session in the row is the browser's (auth.service.ts:161) whenever
\* nothing is under way, calls have not overlapped and no answer that changed
\* something was lost: however many tabs share the cookie.
THEOREM CookieSafe == BrowserSpec => []CookieIsCurrent
<1>1. FollowInv => CookieIsCurrent
  BY DEF FollowInv, Undisturbed, CookieIsCurrent
<1> QED BY <1>1, TabInvariant, PTL

=============================================================================
