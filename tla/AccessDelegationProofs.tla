----------------------- MODULE AccessDelegationProofs -----------------------
(***************************************************************************)
(* Proofs about AccessDelegation for every set of calls, every set of      *)
(* roles and every number of calls in flight.                              *)
(***************************************************************************)
EXTENDS AccessDelegation, FiniteSetTheorems, TLAPS

-----------------------------------------------------------------------------
(* The inductive invariants.                                                *)

\* After a quiet revocation nothing is left that could open the access: no
\* invitation to answer, no call past the reads that turn it away.
Shut ==
    quiet =>
        /\ access.status = "REVOKED"
        /\ Open = {}
        /\ \A c \in Calls : pc[c] \in Running => pc[c] \in {"grant", "regrant", "closing"}

\* The call that inserted the row, until a revocation.
Creator(c) == pc[c] = "invite" \/ invite[c].status # "NONE"

Fresh ==
    ~everRevoked =>
        /\ access.status # "REVOKED"
        /\ \A c \in Calls : pc[c] # "regrant"
        /\ \A c, d \in Calls : Creator(c) /\ Creator(d) => c = d
        /\ access.status = "NONE" => \A c \in Calls : ~Creator(c)

\* An answer is written to an invitation that exists.
Addressed(c) ==
    pc[c] \in {"accept", "reject"} => invite[arg[c].invite].status # "NONE"

IInv == TypeOK /\ Shut /\ Fresh /\ \A c \in Calls : Addressed(c)

-----------------------------------------------------------------------------
\* The initial states satisfy the invariant.
LEMMA InitIInv == Init => IInv
<1> SUFFICES ASSUME NEW role \in Roles, Init!(role) PROVE IInv
  BY DEF Init
<1>1. TypeOK
  BY DEF TypeOK, Running
<1>2. Shut
  BY DEF Shut
<1>3. Fresh
  BY DEF Fresh, Creator
<1>4. \A c \in Calls : Addressed(c)
  BY DEF Addressed
<1> QED BY <1>1, <1>2, <1>3, <1>4 DEF IInv

\* What an answer does to the invitations and to its call.
LEMMA AnswerWrites ==
    ASSUME TypeOK, NEW c \in Calls, WriteAnswer(c)
    PROVE  /\ \E s \in {"ACCEPTED", "REJECTED"} :
                 invite' = [invite EXCEPT ![arg[c].invite].status = s]
           /\ \E l \in {"acceptAccess", "rejectRead"} : Goto(c, l)
           /\ pc[c] \in {"accept", "reject"}
           /\ UNCHANGED <<ecosystem, access, arg, history, alone>>
  BY DEF WriteAnswer, Query

\* Every step keeps the types.
LEMMA StepType == TypeOK /\ [Next]_vars => TypeOK'
<1> SUFFICES ASSUME TypeOK, [Next]_vars PROVE TypeOK'
  OBVIOUS
<1> USE DEF TypeOK, Running, Goto, Query, history, tables
<1>1. CASE UNCHANGED vars
  BY <1>1 DEF vars
<1>2. ASSUME NEW c \in Calls, OwnerCall(c)
      PROVE  TypeOK'
  <2>1. ASSUME NEW role \in Roles, BeginGrant(c, role)
        PROVE  TypeOK'
    BY <2>1 DEF BeginGrant, Begin, OnwardIf
  <2>2. ASSUME NEW role \in Roles, BeginUpdateRole(c, role)
        PROVE  TypeOK'
    BY <2>2 DEF BeginUpdateRole, Begin, OnwardIf
  <2>3. CASE GrantReadsAccess(c)
    BY <2>3 DEF GrantReadsAccess
  <2>4. CASE Regrant(c)
    BY <2>4 DEF Regrant
  <2>5. CASE CreateAccess(c)
    BY <2>5 DEF CreateAccess
  <2>6. CASE SendInvitation(c)
    BY <2>6 DEF SendInvitation
  <2>7. CASE BeginRevoke(c)
    BY <2>7 DEF BeginRevoke, Begin
  <2>8. CASE CancelInvitations(c)
    BY <2>8 DEF CancelInvitations, Open
  <2>9. CASE SetRole(c)
    BY <2>9 DEF SetRole
  <2> QED BY <1>2, <2>1, <2>2, <2>3, <2>4, <2>5, <2>6, <2>7, <2>8, <2>9
          DEF OwnerCall
<1>3. ASSUME NEW c \in Calls, UserCall(c)
      PROVE  TypeOK'
  <2>1. ASSUME NEW i \in Calls, NEW answer \in {"accept", "reject"},
               BeginRespond(c, i, answer)
        PROVE  TypeOK'
    BY <2>1 DEF BeginRespond, Begin, OnwardIf
  <2>2. CASE WriteAnswer(c)
    <3>1. PICK s \in {"ACCEPTED", "REJECTED"} :
             invite' = [invite EXCEPT ![arg[c].invite].status = s]
      BY <2>2, AnswerWrites
    <3> QED BY <2>2, <3>1, AnswerWrites
  <2>3. CASE AcceptAccess(c)
    BY <2>3 DEF AcceptAccess
  <2>4. CASE RejectReadsAccess(c)
    BY <2>4 DEF RejectReadsAccess
  <2>5. CASE BeginLeave(c)
    BY <2>5 DEF BeginLeave, Begin, OnwardIf
  <2> QED BY <1>3, <2>1, <2>2, <2>3, <2>4, <2>5 DEF UserCall
<1>4. ASSUME NEW c \in Calls, RevokeAccess(c)
      PROVE  TypeOK'
  BY <1>4 DEF RevokeAccess, SetStatus
<1>5. ASSUME NEW c \in Calls, Close(c) \/ Fail(c)
      PROVE  TypeOK'
  BY <1>5 DEF Close, Fail
<1>6. CASE RemoveEcosystem
  BY <1>6 DEF RemoveEcosystem
<1> QED BY <1>1, <1>2, <1>3, <1>4, <1>5, <1>6 DEF Next

\* Every step keeps a shut access shut, or is the step of a new grant.
LEMMA StepShut == IInv /\ [Next]_vars => Shut'
<1> SUFFICES ASSUME IInv, [Next]_vars, quiet'
             PROVE  /\ access'.status = "REVOKED"
                    /\ Open' = {}
                    /\ \A d \in Calls : pc'[d] \in Running =>
                          pc'[d] \in {"grant", "regrant", "closing"}
  BY DEF Shut
<1> USE DEF IInv, TypeOK, Shut, Running, Goto, Query, Open, history, tables
<1>1. CASE UNCHANGED vars
  BY <1>1 DEF vars
<1>2. ASSUME NEW c \in Calls, RevokeAccess(c)
      PROVE  /\ access'.status = "REVOKED"
             /\ Open' = {}
             /\ \A d \in Calls : pc'[d] \in Running =>
                   pc'[d] \in {"grant", "regrant", "closing"}
  BY <1>2 DEF RevokeAccess, SetStatus, InFlight
<1>3. ASSUME NEW c \in Calls, OwnerCall(c)
      PROVE  /\ access'.status = "REVOKED"
             /\ Open' = {}
             /\ \A d \in Calls : pc'[d] \in Running =>
                   pc'[d] \in {"grant", "regrant", "closing"}
  <2>1. ASSUME NEW role \in Roles, BeginGrant(c, role) \/ BeginUpdateRole(c, role)
        PROVE  /\ UNCHANGED tables /\ quiet
               /\ \E l \in {"grant", "refused"} : Goto(c, l)
    BY <2>1 DEF BeginGrant, BeginUpdateRole, Begin, OnwardIf
  <2>2. CASE GrantReadsAccess(c)
    BY <2>2 DEF GrantReadsAccess
  <2>3. CASE BeginRevoke(c)
    BY <2>3 DEF BeginRevoke, Begin
  <2>4. ~Regrant(c)
    BY DEF Regrant
  <2>5. ~(CreateAccess(c) \/ SendInvitation(c) \/ CancelInvitations(c) \/ SetRole(c))
    BY DEF CreateAccess, SendInvitation, CancelInvitations, SetRole
  <2> QED BY <1>3, <2>1, <2>2, <2>3, <2>4, <2>5 DEF OwnerCall
<1>4. ASSUME NEW c \in Calls, UserCall(c)
      PROVE  /\ access'.status = "REVOKED"
             /\ Open' = {}
             /\ \A d \in Calls : pc'[d] \in Running =>
                   pc'[d] \in {"grant", "regrant", "closing"}
  <2>1. ASSUME NEW i \in Calls, NEW answer \in {"accept", "reject"},
               BeginRespond(c, i, answer)
        PROVE  UNCHANGED tables /\ quiet /\ Goto(c, "refused")
    BY <2>1 DEF BeginRespond, Begin, OnwardIf
  <2>2. CASE BeginLeave(c)
    BY <2>2 DEF BeginLeave, Begin, OnwardIf
  <2>3. ~(WriteAnswer(c) \/ AcceptAccess(c) \/ RejectReadsAccess(c))
    BY DEF WriteAnswer, AcceptAccess, RejectReadsAccess
  <2> QED BY <1>4, <2>1, <2>2, <2>3 DEF UserCall
<1>5. ASSUME NEW c \in Calls, Close(c) \/ Fail(c)
      PROVE  /\ access'.status = "REVOKED"
             /\ Open' = {}
             /\ \A d \in Calls : pc'[d] \in Running =>
                   pc'[d] \in {"grant", "regrant", "closing"}
  BY <1>5 DEF Close, Fail
<1>6. CASE RemoveEcosystem
  BY <1>6 DEF RemoveEcosystem
<1> QED BY <1>1, <1>2, <1>3, <1>4, <1>5, <1>6 DEF Next

\* Before the first revocation only one call gets past the insert.
LEMMA StepFresh == IInv /\ [Next]_vars => Fresh'
<1> SUFFICES ASSUME IInv, [Next]_vars, ~everRevoked' PROVE Fresh'
  BY DEF Fresh
<1> USE DEF IInv, TypeOK, Fresh, Creator, Running, Goto, Query, history, tables
<1>1. CASE UNCHANGED vars
  BY <1>1 DEF vars
<1>2. ASSUME NEW c \in Calls, RevokeAccess(c)
      PROVE  Fresh'
  BY <1>2 DEF RevokeAccess
<1>3. ASSUME NEW c \in Calls, OwnerCall(c)
      PROVE  Fresh'
  <2>1. ASSUME NEW role \in Roles, BeginGrant(c, role) \/ BeginUpdateRole(c, role)
        PROVE  /\ UNCHANGED <<tables, everRevoked>>
               /\ \E l \in {"grant", "setRole", "refused"} : Goto(c, l)
    BY <2>1 DEF BeginGrant, BeginUpdateRole, Begin, OnwardIf
  <2>2. CASE GrantReadsAccess(c)
    BY <2>2 DEF GrantReadsAccess
  <2>3. CASE BeginRevoke(c)
    BY <2>3 DEF BeginRevoke, Begin
  <2>4. CASE Regrant(c)
    BY <2>4 DEF Regrant
  <2>5. CASE CreateAccess(c)
    BY <2>5 DEF CreateAccess
  <2>6. CASE SendInvitation(c)
    BY <2>6 DEF SendInvitation
  <2>7. CASE CancelInvitations(c)
    BY <2>7 DEF CancelInvitations, Open
  <2>8. CASE SetRole(c)
    BY <2>8 DEF SetRole
  <2>9. ASSUME NEW role \in Roles, BeginGrant(c, role) \/ BeginUpdateRole(c, role)
        PROVE  Fresh'
    BY <2>1, <2>9
  <2> QED BY <1>3, <2>2, <2>3, <2>4, <2>5, <2>6, <2>7, <2>8, <2>9 DEF OwnerCall
<1>4. ASSUME NEW c \in Calls, UserCall(c)
      PROVE  Fresh'
  <2>1. ASSUME NEW i \in Calls, NEW answer \in {"accept", "reject"},
               BeginRespond(c, i, answer)
        PROVE  Fresh'
    BY <2>1 DEF BeginRespond, Begin, OnwardIf
  <2>2. CASE BeginLeave(c)
    BY <2>2 DEF BeginLeave, Begin, OnwardIf
  <2>3. CASE WriteAnswer(c)
    <3>1. PICK s \in {"ACCEPTED", "REJECTED"} :
             invite' = [invite EXCEPT ![arg[c].invite].status = s]
      BY <2>3, AnswerWrites
    <3>2. PICK l \in {"acceptAccess", "rejectRead"} : Goto(c, l)
      BY <2>3, AnswerWrites
    <3>3. access' = access /\ everRevoked' = everRevoked
      BY <2>3, AnswerWrites
    <3>4. \A d \in Calls : Creator(d)' => Creator(d) \/ d = arg[c].invite
      BY <3>1, <3>2
    <3>5. \A d \in Calls : Creator(d)' => Creator(d)
      BY <3>1, <3>2, <2>3, AnswerWrites DEF Addressed
    <3>6. \A d \in Calls : pc'[d] # "regrant"
      BY <3>2, <3>3
    <3> QED BY <3>3, <3>5, <3>6
  <2>4. CASE AcceptAccess(c)
    BY <2>4 DEF AcceptAccess
  <2>5. CASE RejectReadsAccess(c)
    BY <2>5 DEF RejectReadsAccess
  <2> QED BY <1>4, <2>1, <2>2, <2>3, <2>4, <2>5 DEF UserCall
<1>5. ASSUME NEW c \in Calls, Close(c) \/ Fail(c)
      PROVE  Fresh'
  BY <1>5 DEF Close, Fail
<1>6. CASE RemoveEcosystem
  BY <1>6 DEF RemoveEcosystem
<1> QED BY <1>1, <1>2, <1>3, <1>4, <1>5, <1>6 DEF Next

\* Invitations are never deleted, and a call keeps its arguments.
LEMMA StepAddressed == IInv /\ [Next]_vars => (\A d \in Calls : Addressed(d))'
<1> SUFFICES ASSUME IInv, [Next]_vars, NEW d \in Calls PROVE Addressed(d)'
  OBVIOUS
<1> USE DEF IInv, TypeOK, Addressed, Goto, Query, history, tables
<1>1. CASE UNCHANGED vars
  BY <1>1 DEF vars
<1>2. ASSUME NEW c \in Calls, OwnerCall(c)
      PROVE  Addressed(d)'
  <2>1. ASSUME NEW role \in Roles, BeginGrant(c, role) \/ BeginUpdateRole(c, role)
        PROVE  Addressed(d)'
    <3>1. pc'[c] \in {"grant", "setRole", "refused"}
      BY <2>1 DEF BeginGrant, BeginUpdateRole, Begin, OnwardIf
    <3>2. /\ UNCHANGED invite
          /\ d # c => pc'[d] = pc[d] /\ arg'[d] = arg[d]
      BY <2>1 DEF BeginGrant, BeginUpdateRole, Begin, OnwardIf
    <3> QED BY <3>1, <3>2
  <2>2. CASE GrantReadsAccess(c)
    BY <2>2 DEF GrantReadsAccess
  <2>3. CASE Regrant(c)
    BY <2>3 DEF Regrant
  <2>4. CASE CreateAccess(c)
    BY <2>4 DEF CreateAccess
  <2>5. CASE SendInvitation(c)
    BY <2>5 DEF SendInvitation
  <2>6. CASE BeginRevoke(c)
    BY <2>6 DEF BeginRevoke, Begin
  <2>7. CASE CancelInvitations(c)
    BY <2>7 DEF CancelInvitations, Open
  <2>8. CASE SetRole(c)
    BY <2>8 DEF SetRole
  <2> QED BY <1>2, <2>1, <2>2, <2>3, <2>4, <2>5, <2>6, <2>7, <2>8 DEF OwnerCall
<1>3. ASSUME NEW c \in Calls, UserCall(c)
      PROVE  Addressed(d)'
  <2>1. ASSUME NEW i \in Calls, NEW answer \in {"accept", "reject"},
               BeginRespond(c, i, answer)
        PROVE  Addressed(d)'
    BY <2>1 DEF BeginRespond, Begin, OnwardIf
  <2>2. CASE WriteAnswer(c)
    <3>1. PICK s \in {"ACCEPTED", "REJECTED"} :
             invite' = [invite EXCEPT ![arg[c].invite].status = s]
      BY <2>2, AnswerWrites
    <3>2. PICK l \in {"acceptAccess", "rejectRead"} : Goto(c, l)
      BY <2>2, AnswerWrites
    <3>3. arg[c].invite \in Calls /\ arg[d].invite \in Calls
      OBVIOUS
    <3>4. invite[arg[d].invite].status # "NONE" => invite'[arg[d].invite].status # "NONE"
      BY <3>1, <3>3
    <3>5. pc'[d] \in {"accept", "reject"} => pc[d] \in {"accept", "reject"}
      BY <3>2
    <3>6. arg' = arg
      BY <2>2, AnswerWrites
    <3> QED BY <3>4, <3>5, <3>6
  <2>3. CASE AcceptAccess(c) \/ RejectReadsAccess(c)
    BY <2>3 DEF AcceptAccess, RejectReadsAccess
  <2>4. CASE BeginLeave(c)
    BY <2>4 DEF BeginLeave, Begin, OnwardIf
  <2> QED BY <1>3, <2>1, <2>2, <2>3, <2>4 DEF UserCall
<1>4. ASSUME NEW c \in Calls, RevokeAccess(c)
      PROVE  Addressed(d)'
  BY <1>4 DEF RevokeAccess
<1>5. ASSUME NEW c \in Calls, Close(c) \/ Fail(c)
      PROVE  Addressed(d)'
  BY <1>5 DEF Close, Fail
<1>6. CASE RemoveEcosystem
  BY <1>6 DEF RemoveEcosystem
<1> QED BY <1>1, <1>2, <1>3, <1>4, <1>5, <1>6 DEF Next

-----------------------------------------------------------------------------
\* The invariant holds in every reachable state.
THEOREM Invariance == Spec => []IInv
<1>1. IInv /\ [Next]_vars => IInv'
  BY StepType, StepShut, StepFresh, StepAddressed DEF IInv
<1> QED BY InitIInv, <1>1, PTL DEF Spec

\* Type correctness of the delegation of accesses.
THEOREM TypeCorrect == Spec => []TypeOK
<1>1. IInv => TypeOK
  BY DEF IInv
<1> QED BY <1>1, Invariance, PTL

\* A revocation that nothing races with is final until the next grant.
THEOREM QuietRevocationSafe == Spec => []QuietRevocationHolds
<1>1. IInv => QuietRevocationHolds
  BY DEF IInv, Shut, QuietRevocationHolds
<1> QED BY <1>1, Invariance, PTL

\* Concurrent first grants send one invitation.
THEOREM FirstGrantSafe == Spec => []FirstGrantInvitesOnce
<1>1. IInv => FirstGrantInvitesOnce
  BY DEF IInv, Fresh, Creator, FirstGrantInvitesOnce
<1> QED BY <1>1, Invariance, PTL

-----------------------------------------------------------------------------
(* While calls have not overlapped.                                         *)

\* What the place of the only running call says about the tables.
Place(c) ==
    /\ pc[c] = "create" => access.status = "NONE"
    /\ pc[c] = "regrant" => access.status = "REVOKED"
    /\ pc[c] \in {"cancel", "rejectAccess"} => access.status = "PENDING"
    /\ pc[c] \in {"leave", "setRole"} => access.status = "VALID"
    /\ pc[c] \in {"invite", "revoke", "acceptAccess", "rejectRead", "rejectAccess"} =>
          Open = {}
    /\ pc[c] \in {"invite", "acceptAccess"} =>
          access = [status |-> "PENDING", role |-> arg[c].role]
    /\ pc[c] \in {"accept", "reject"} =>
          /\ invite[arg[c].invite].status = "PENDING"
          /\ invite[arg[c].invite].role = arg[c].role

\* A grant sends its invitation once.
Unsent(c) ==
    pc[c] \in {"idle", "grant", "create", "regrant", "invite"} =>
        invite[c].status = "NONE"

Matched == \A i \in Open : Open = {i} /\ access = [status |-> "PENDING", role |-> invite[i].role]

Ordered ==
    /\ \A c \in Calls : Unsent(c)
    /\ \A c, d \in Calls : pc[c] \in Running /\ pc[d] \in Running => c = d
    /\ \A c \in Calls : Place(c)
    /\ Matched

Serial == TypeOK /\ (alone => Ordered)

\* While calls have not overlapped, a call begins when none is running.
LEMMA BeginsAlone ==
    ASSUME alone', NEW c \in Calls, NEW a, Begin(c, a)
    PROVE  \A d \in Calls : pc[d] \notin Running
  BY DEF Begin, InFlight

\* Calls that have overlapped have done so for ever.
LEMMA StaysOverlapped == [Next]_vars /\ alone' => alone
<1> SUFFICES ASSUME [Next]_vars, alone' PROVE alone
  OBVIOUS
<1>1. CASE UNCHANGED vars
  BY <1>1 DEF vars
<1>2. ASSUME NEW c \in Calls, OwnerCall(c)
      PROVE  alone
  BY <1>2 DEF OwnerCall, BeginGrant, BeginUpdateRole, GrantReadsAccess, Regrant, CreateAccess,
              SendInvitation, BeginRevoke, CancelInvitations, SetRole, Begin, Query
<1>3. ASSUME NEW c \in Calls, UserCall(c)
      PROVE  alone
  BY <1>3 DEF UserCall, BeginRespond, WriteAnswer, AcceptAccess, RejectReadsAccess, BeginLeave,
              Begin, Query
<1>4. ASSUME NEW c \in Calls, RevokeAccess(c) \/ Close(c) \/ Fail(c)
      PROVE  alone
  BY <1>4 DEF RevokeAccess, Close, Fail, Query
<1>5. CASE RemoveEcosystem
  BY <1>5 DEF RemoveEcosystem
<1> QED BY <1>1, <1>2, <1>3, <1>4, <1>5 DEF Next
\* A step of a call that is alone keeps the invariant, and treats invitations
\* and the row as the two action properties ask.
LEMMA StepOrdered ==
    ASSUME TypeOK, Ordered, alone', [Next]_vars
    PROVE  /\ Ordered'
           /\ \A i \in Calls : Answered(i) => invite'[i] = invite[i]
           /\ access.status # "VALID" /\ access'.status = "VALID" =>
                 access.status = "PENDING" /\ access'.role = access.role
<1> DEFINE Good ==
      /\ \A c, d \in Calls : (pc[c] \in Running /\ pc[d] \in Running => c = d)'
      /\ \A c \in Calls : Place(c)' /\ Unsent(c)'
      /\ Matched'
      /\ \A i \in Calls :
            invite[i].status \in {"ACCEPTED", "REJECTED", "CANCELLED"} =>
                invite'[i] = invite[i]
      /\ access.status # "VALID" /\ access'.status = "VALID" =>
            access.status = "PENDING" /\ access'.role = access.role
<1> SUFFICES Good
  BY DEF Ordered, Answered
<1>0. TypeOK'
  BY StepType
<1> USE DEF Ordered, TypeOK, Running, Place, Unsent, Matched, Open,
            Goto, Query, history, tables
<1>1. CASE UNCHANGED vars
  BY <1>1 DEF vars
<1>2. ASSUME NEW c \in Calls, NEW a, Begin(c, a), NEW l, Goto(c, l),
             a \in [role : Roles, invite : Calls],
             l \in {"grant", "cancel", "revoke", "setRole", "leave", "refused",
                    "accept", "reject"},
             l = "cancel" => access.status = "PENDING",
             l \in {"revoke", "leave", "setRole"} => access.status = "VALID",
             l \in {"accept", "reject"} => /\ invite[a.invite].status = "PENDING"
                                         /\ invite[a.invite].role = a.role
      PROVE  Good
  <2>1. \A d \in Calls : pc[d] \notin Running
    BY <1>2, BeginsAlone
  <2>2. arg'[c] = a /\ pc'[c] = l /\ UNCHANGED <<invite, access>>
    BY <1>2 DEF Begin
  <2>3. \A d \in Calls : d # c => pc'[d] = pc[d]
    BY <1>2
  <2>4. \A d \in Calls : pc'[d] \in Running => d = c
    BY <2>1, <2>3
  <2>5. \A d \in Calls : Place(d)'
    BY <1>2, <2>2, <2>4
  <2>6. \A d \in Calls : Unsent(d)'
    BY <1>2, <2>2, <2>3 DEF Begin
  <2> QED BY <2>2, <2>4, <2>5, <2>6
<1>3. ASSUME NEW c \in Calls, OwnerCall(c)
      PROVE  Good
  <2>1. ASSUME NEW role \in Roles, BeginGrant(c, role) PROVE Good
    <3> DEFINE a == [role |-> role, invite |-> c]
    <3>1. Begin(c, a) /\ a \in [role : Roles, invite : Calls]
      BY <2>1 DEF BeginGrant
    <3>2. PICK l \in {"grant", "refused"} : Goto(c, l)
      BY <2>1 DEF BeginGrant, OnwardIf
    <3> HIDE DEF a, Good
    <3> QED BY <1>2, <3>1, <3>2
  <2>2. ASSUME NEW role \in Roles, BeginUpdateRole(c, role) PROVE Good
    <3> DEFINE a == [role |-> role, invite |-> c]
    <3>1. Begin(c, a) /\ a \in [role : Roles, invite : Calls]
      BY <2>2 DEF BeginUpdateRole
    <3>2. PICK l \in {"setRole", "refused"} :
             Goto(c, l) /\ (l = "setRole" => access.status = "VALID")
      BY <2>2 DEF BeginUpdateRole, OnwardIf
    <3> HIDE DEF a, Good
    <3> QED BY <1>2, <3>1, <3>2
  <2>3. CASE GrantReadsAccess(c)
    BY <2>3 DEF GrantReadsAccess
  <2>4. CASE Regrant(c)
    BY <2>4 DEF Regrant
  <2>5. CASE CreateAccess(c)
    <3>1. /\ access.status = "NONE" /\ Open = {} /\ arg' = arg /\ invite' = invite
          /\ access' = [status |-> "PENDING", role |-> arg[c].role]
          /\ Goto(c, "invite")
      BY <2>5 DEF CreateAccess
    <3>2. \A d \in Calls : pc'[d] \in Running => d = c /\ pc'[d] = "invite"
      BY <2>5, <3>1 DEF CreateAccess
    <3>3. \A d \in Calls : Place(d)'
      BY <3>1, <3>2
    <3>4. \A d \in Calls : Unsent(d)'
      BY <2>5, <3>1 DEF CreateAccess
    <3> QED BY <3>1, <3>2, <3>3, <3>4
  <2>6. CASE SendInvitation(c)
    <3>1. invite' = [invite EXCEPT ![c] = [status |-> "PENDING", role |-> arg[c].role]]
      BY <2>6 DEF SendInvitation
    <3>2. /\ Open = {} /\ access = [status |-> "PENDING", role |-> arg[c].role]
          /\ access' = access /\ arg' = arg
      BY <2>6 DEF SendInvitation
    <3>3. Open' = {c} /\ invite'[c].role = arg[c].role
      BY <3>1, <3>2
    <3>4. \A d \in Calls : pc'[d] \in Running => d = c /\ pc'[d] = "closing"
      BY <2>6 DEF SendInvitation
    <3>5. \A d \in Calls : Place(d)'
      BY <3>4
    <3>6. \A i \in Calls :
            invite[i].status \in {"ACCEPTED", "REJECTED", "CANCELLED"} =>
                invite'[i] = invite[i]
      BY <2>6, <3>1 DEF SendInvitation
    <3>7. \A d \in Calls : Unsent(d)'
      BY <2>6, <3>1 DEF SendInvitation
    <3> QED BY <3>2, <3>3, <3>4, <3>5, <3>6, <3>7
  <2>7. CASE BeginRevoke(c)
    <3>1. Begin(c, arg[c]) /\ arg[c] \in [role : Roles, invite : Calls]
      BY <2>7 DEF BeginRevoke
    <3>2. PICK l \in {"cancel", "revoke", "refused"} :
             /\ Goto(c, l)
             /\ l = "cancel" => access.status = "PENDING"
             /\ l = "revoke" => access.status = "VALID"
      BY <2>7 DEF BeginRevoke
    <3> HIDE DEF Good
    <3> QED BY <1>2, <3>1, <3>2
  <2>8. CASE CancelInvitations(c)
    BY <2>8 DEF CancelInvitations
  <2>9. CASE SetRole(c)
    BY <2>9 DEF SetRole
  <2> QED BY <1>3, <2>1, <2>2, <2>3, <2>4, <2>5, <2>6, <2>7, <2>8, <2>9
          DEF OwnerCall
<1>4. ASSUME NEW c \in Calls, UserCall(c)
      PROVE  Good
  <2>1. ASSUME NEW i \in Calls, NEW answer \in {"accept", "reject"},
               BeginRespond(c, i, answer)
        PROVE  Good
    <3> DEFINE a == [role |-> invite[i].role, invite |-> i]
    <3>1. Begin(c, a) /\ a \in [role : Roles, invite : Calls]
      BY <2>1 DEF BeginRespond
    <3>2. PICK l \in {"accept", "reject", "refused"} :
             /\ Goto(c, l)
             /\ l # "refused" => invite[i].status = "PENDING"
      BY <2>1 DEF BeginRespond, OnwardIf
    <3>3. a.invite = i /\ a.role = invite[i].role
      OBVIOUS
    <3> HIDE DEF a, Good
    <3> QED BY <1>2, <3>1, <3>2, <3>3
  <2>2. CASE WriteAnswer(c)
    <3>1. PICK s \in {"ACCEPTED", "REJECTED"} :
             invite' = [invite EXCEPT ![arg[c].invite].status = s]
      BY <2>2, AnswerWrites
    <3>2. PICK l \in {"acceptAccess", "rejectRead"} : Goto(c, l)
      BY <2>2, AnswerWrites
    <3> DEFINE i == arg[c].invite
    <3>3. /\ pc[c] \in {"accept", "reject"} /\ i \in Calls
          /\ access' = access /\ arg' = arg
      BY <2>2, AnswerWrites
    <3>4. Open = {i} /\ access = [status |-> "PENDING", role |-> arg[c].role]
      BY <3>3
    <3>5. Open' = {}
      BY <3>1, <3>3, <3>4
    <3>6. \A d \in Calls : pc'[d] \in Running => d = c /\ pc'[d] = l
      BY <3>2, <3>3
    <3>7. \A d \in Calls : Place(d)'
      BY <3>3, <3>4, <3>5, <3>6
    <3>8. \A j \in Calls :
            invite[j].status \in {"ACCEPTED", "REJECTED", "CANCELLED"} =>
                invite'[j] = invite[j]
      BY <3>1, <3>3
    <3>9. \A d \in Calls : Unsent(d)'
      BY <3>1, <3>2, <3>3
    <3> QED BY <3>3, <3>5, <3>6, <3>7, <3>8, <3>9
  <2>3. CASE AcceptAccess(c)
    BY <2>3 DEF AcceptAccess
  <2>4. CASE RejectReadsAccess(c)
    BY <2>4 DEF RejectReadsAccess
  <2>5. CASE BeginLeave(c)
    <3>1. Begin(c, arg[c]) /\ arg[c] \in [role : Roles, invite : Calls]
      BY <2>5 DEF BeginLeave
    <3>2. PICK l \in {"leave", "refused"} :
             Goto(c, l) /\ (l = "leave" => access.status = "VALID")
      BY <2>5 DEF BeginLeave, OnwardIf
    <3> HIDE DEF Good
    <3> QED BY <1>2, <3>1, <3>2
  <2> QED BY <1>4, <2>1, <2>2, <2>3, <2>4, <2>5 DEF UserCall
<1>5. ASSUME NEW c \in Calls, RevokeAccess(c)
      PROVE  Good
  BY <1>5 DEF RevokeAccess, SetStatus
<1>6. ASSUME NEW c \in Calls, Close(c) \/ Fail(c)
      PROVE  Good
  <2>1. UNCHANGED <<access, invite, arg>>
    BY <1>6 DEF Close, Fail
  <2>2. PICK l \in {"done", "failed"} : Goto(c, l)
    BY <1>6 DEF Close, Fail
  <2>3. \A d \in Calls : pc'[d] \in Running \cup {"idle"} => pc'[d] = pc[d]
    BY <2>2
  <2>4. \A d \in Calls : Place(d)' /\ Unsent(d)'
    BY <2>1, <2>3
  <2> QED BY <2>1, <2>3, <2>4
<1>7. CASE RemoveEcosystem
  BY <1>7 DEF RemoveEcosystem
<1> QED BY <1>1, <1>3, <1>4, <1>5, <1>6, <1>7 DEF Next

\* Initially no call runs and nothing is open.
LEMMA InitSerial == Init => Serial
<1> SUFFICES ASSUME NEW role \in Roles, Init!(role) PROVE Serial
  BY DEF Init
<1>1. TypeOK
  BY InitIInv DEF IInv, Init
<1>2. \A c \in Calls : pc[c] = "idle" /\ invite[c].status = "NONE"
  OBVIOUS
<1> QED BY <1>1, <1>2 DEF Serial, Ordered, Running, Place, Unsent, Matched, Open

LEMMA StepSerial == Serial /\ [Next]_vars => Serial'
  BY StepType, StaysOverlapped, StepOrdered DEF Serial

\* While calls have not overlapped, however many of them failed on their way,
\* the open invitation is the only one and says what the row says.
THEOREM OpenInvitationSafe == Spec => []OpenInvitationMatchesAccess
<1>1. Serial => OpenInvitationMatchesAccess
  BY DEF Serial, Ordered, Matched, OpenInvitationMatchesAccess
<1> QED BY InitSerial, StepSerial, <1>1, PTL DEF Spec

\* While calls have not overlapped, an answer is final.
THEOREM AnsweredOnceSafe == Spec => AnsweredOnceAlone
<1>1. Serial /\ [Next]_vars =>
        [alone' => \A i \in Calls : Answered(i) => invite'[i] = invite[i]]_vars
  BY StaysOverlapped, StepOrdered DEF Serial
<1> QED BY InitSerial, StepSerial, <1>1, PTL DEF Spec, AnsweredOnceAlone

\* While calls have not overlapped, an access opens from a pending row only.
THEOREM AccessOpensSafe == Spec => AccessOpensFromPending
<1>1. Serial /\ [Next]_vars =>
        [alone' /\ access.status # "VALID" /\ access'.status = "VALID" =>
            access.status = "PENDING" /\ access'.role = access.role]_vars
  BY StaysOverlapped, StepOrdered DEF Serial
<1> QED BY InitSerial, StepSerial, <1>1, PTL DEF Spec, AccessOpensFromPending
=============================================================================
