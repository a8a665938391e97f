-------------------------- MODULE AccessDelegation --------------------------
(***************************************************************************)
(* Sharing one ecosystem with one user: the EcosystemAccess row of the     *)
(* pair, the invitations (notifications of type                            *)
(* ECOSYSTEM_DELEGATION_REQUEST) sent for it, and the calls of the owner   *)
(* (grantAccess, revokeAccess, updateAccessRole, remove) and of the user   *)
(* (respondToNotification, leaveSharedEcosystem).  Rows of other pairs are *)
(* independent of this one.                                                *)
(*                                                                         *)
(* None of these calls runs in a database transaction: every query is an   *)
(* action, and what a call has read may be stale when it writes.           *)
(***************************************************************************)
EXTENDS FiniteSets, Naturals

CONSTANTS
    Calls,        \* calls of the API; a grant names the invitation it creates
    Roles,        \* AccessRole
    MaxInFlight   \* bound: how many calls may be executing at the same time

ASSUME CallsAssumption == IsFiniteSet(Calls) /\ MaxInFlight \in Nat \ {0}

VARIABLES
    ecosystem,    \* status of the ecosystem
    access,       \* the row of the pair: status and role
    invite,       \* status and role of the invitation of each grant call
    pc,           \* where each call stands
    arg,          \* its arguments: a role, an invitation
    quiet,        \* history: nothing was left open at the last revocation
    everRevoked,  \* history: the row was REVOKED at some time
    alone         \* history: calls have never overlapped

tables == <<ecosystem, access, invite>>
history == <<quiet, everRevoked>>
vars == <<tables, pc, arg, history, alone>>

Running == {"grant", "regrant", "create", "invite", "cancel", "revoke",
            "setRole", "leave", "accept", "reject", "acceptAccess",
            "rejectRead", "rejectAccess", "closing"}

TypeOK ==
    /\ ecosystem \in {"ACTIVE", "REVOKED"}
    /\ access \in [status : {"NONE", "PENDING", "VALID", "REVOKED"}, role : Roles]
    /\ invite \in [Calls ->
          [status : {"NONE", "PENDING", "ACCEPTED", "REJECTED", "CANCELLED"},
           role : Roles]]
    /\ pc \in [Calls -> Running \cup {"idle", "done", "refused", "failed"}]
    /\ arg \in [Calls -> [role : Roles, invite : Calls]]
    /\ quiet \in BOOLEAN
    /\ everRevoked \in BOOLEAN
    /\ alone \in BOOLEAN

\* roles of absent rows and arguments of idle calls are arbitrary
Init ==
    \E role \in Roles :
        /\ ecosystem = "ACTIVE"
        /\ access = [status |-> "NONE", role |-> role]
        /\ invite = [c \in Calls |-> [status |-> "NONE", role |-> role]]
        /\ pc = [c \in Calls |-> "idle"]
        /\ arg = [c \in Calls |-> [role |-> role, invite |-> c]]
        /\ quiet = FALSE
        /\ everRevoked = FALSE
        /\ alone = TRUE

InFlight == {c \in Calls : pc[c] \in Running}
Open == {i \in Calls : invite[i].status = "PENDING"}

Goto(c, l) == pc' = [pc EXCEPT ![c] = l]
SetStatus(s) == access' = [access EXCEPT !.status = s]

\* A call begins with its first query, which sends it on to l or turns it away.
Begin(c, a) ==
    /\ pc[c] = "idle"
    /\ Cardinality(InFlight) < MaxInFlight
    /\ arg' = [arg EXCEPT ![c] = a]
    /\ alone' = (alone /\ InFlight = {})
    /\ UNCHANGED <<tables, history>>

OnwardIf(c, ok, l) == Goto(c, IF ok THEN l ELSE "refused")

\* A query of a call that has begun.
Query(c, l) == pc[c] = l /\ UNCHANGED <<arg, alone>>

-----------------------------------------------------------------------------
(* Variants with a bug the code could have, no part of Next.                *)

\* the row is updated with the status of an accepted access
RegrantValid(c) ==
    /\ Query(c, "regrant")
    /\ access' = [status |-> "VALID", role |-> arg[c].role]
    /\ quiet' = FALSE
    /\ Goto(c, "invite")
    /\ UNCHANGED <<ecosystem, invite, everRevoked>>

\* an upsert takes the place of the insert
CreateAccessUpsert(c) ==
    /\ Query(c, "create")
    /\ access' = [status |-> "PENDING", role |-> arg[c].role]
    /\ Goto(c, "invite")
    /\ UNCHANGED <<ecosystem, invite, history>>

\* the role of the invitation is not the requested one but the default
SendInvitationDefaultRole(c) ==
    /\ Query(c, "invite")
    /\ \E role \in Roles :
          invite' = [invite EXCEPT ![c] = [status |-> "PENDING", role |-> role]]
    /\ Goto(c, "closing")
    /\ UNCHANGED <<ecosystem, access, history>>

\* all invitations of the pair are cancelled, the answered ones too
CancelAllInvitations(c) ==
    /\ Query(c, "cancel")
    /\ invite' = [i \in Calls |->
                     IF invite[i].status = "NONE" THEN invite[i]
                     ELSE [invite[i] EXCEPT !.status = "CANCELLED"]]
    /\ Goto(c, "revoke")
    /\ UNCHANGED <<ecosystem, access, history>>

\* an invitation is answered whatever its status
BeginRespondAny(c, i, answer) ==
    /\ invite[i].status # "NONE"
    /\ Begin(c, [role |-> invite[i].role, invite |-> i])
    /\ Goto(c, answer)

-----------------------------------------------------------------------------
(* grantAccess.  The user, its account and its role are checked as well:     *)
(* they are not part of this model.                                          *)

BeginGrant(c, role) ==
    /\ Begin(c, [role |-> role, invite |-> c])
    /\ OnwardIf(c, ecosystem = "ACTIVE", "grant")

GrantReadsAccess(c) ==
    /\ Query(c, "grant")
    /\ Goto(c, CASE access.status = "NONE" -> "create"
                 [] access.status = "REVOKED" -> "regrant"
                 [] access.status \in {"VALID", "PENDING"} -> "refused")
    /\ UNCHANGED <<tables, history>>

\* the row was REVOKED when it was read: it is updated whatever it is now
Regrant(c) ==
    /\ Query(c, "regrant")
    /\ access' = [status |-> "PENDING", role |-> arg[c].role]
    /\ quiet' = FALSE
    /\ Goto(c, "invite")
    /\ UNCHANGED <<ecosystem, invite, everRevoked>>

\* @@unique([ecosystemId, userId]): only one insert succeeds
CreateAccess(c) ==
    /\ Query(c, "create")
    /\ IF access.status = "NONE"
          THEN /\ access' = [status |-> "PENDING", role |-> arg[c].role]
               /\ Goto(c, "invite")
          ELSE UNCHANGED access /\ Goto(c, "failed")
    /\ UNCHANGED <<ecosystem, invite, history>>

SendInvitation(c) ==
    /\ Query(c, "invite")
    /\ invite' = [invite EXCEPT ![c] = [status |-> "PENDING", role |-> arg[c].role]]
    /\ Goto(c, "closing")
    /\ UNCHANGED <<ecosystem, access, history>>

-----------------------------------------------------------------------------
(* revokeAccess, updateAccessRole and remove                                *)

BeginRevoke(c) ==
    /\ Begin(c, arg[c])
    /\ Goto(c, CASE access.status = "PENDING" -> "cancel"
                 [] access.status = "VALID" -> "revoke"
                 [] access.status \in {"NONE", "REVOKED"} -> "refused")

CancelInvitations(c) ==
    /\ Query(c, "cancel")
    /\ invite' = [i \in Calls |->
                     IF i \in Open THEN [invite[i] EXCEPT !.status = "CANCELLED"]
                                   ELSE invite[i]]
    /\ Goto(c, "revoke")
    /\ UNCHANGED <<ecosystem, access, history>>

\* the last write of a revocation, a departure or a rejection
RevokeAccess(c) ==
    /\ \E l \in {"revoke", "leave", "rejectAccess"} : Query(c, l)
    /\ SetStatus("REVOKED")
    /\ everRevoked' = TRUE
    /\ quiet' = (InFlight = {c} /\ Open = {})
    /\ Goto(c, "closing")
    /\ UNCHANGED <<ecosystem, invite>>

BeginUpdateRole(c, role) ==
    /\ Begin(c, [role |-> role, invite |-> c])
    /\ OnwardIf(c, access.status = "VALID", "setRole")

SetRole(c) ==
    /\ Query(c, "setRole")
    /\ access' = [access EXCEPT !.role = arg[c].role]
    /\ Goto(c, "closing")
    /\ UNCHANGED <<ecosystem, invite, history>>

\* accesses and invitations of a removed ecosystem are left as they are
RemoveEcosystem ==
    /\ ecosystem = "ACTIVE"
    /\ ecosystem' = "REVOKED"
    /\ UNCHANGED <<access, invite, pc, arg, history, alone>>

-----------------------------------------------------------------------------
(* respondToNotification and leaveSharedEcosystem                           *)

BeginRespond(c, i, answer) ==
    /\ invite[i].status # "NONE"
    /\ Begin(c, [role |-> invite[i].role, invite |-> i])
    /\ OnwardIf(c, invite[i].status = "PENDING", answer)

\* the answer is written without looking at the status again
WriteAnswer(c) ==
    LET i == arg[c].invite IN
    /\ \/ /\ Query(c, "accept")
          /\ invite' = [invite EXCEPT ![i].status = "ACCEPTED"]
          /\ Goto(c, "acceptAccess")
       \/ /\ Query(c, "reject")
          /\ invite' = [invite EXCEPT ![i].status = "REJECTED"]
          /\ Goto(c, "rejectRead")
    /\ UNCHANGED <<ecosystem, access, history>>

\* the row is looked up first, but rows are never deleted and its status is
\* not looked at
AcceptAccess(c) ==
    /\ Query(c, "acceptAccess")
    /\ access' = [status |-> "VALID", role |-> arg[c].role]
    /\ Goto(c, "closing")
    /\ UNCHANGED <<ecosystem, invite, history>>

RejectReadsAccess(c) ==
    /\ Query(c, "rejectRead")
    /\ Goto(c, IF access.status = "PENDING" THEN "rejectAccess" ELSE "closing")
    /\ UNCHANGED <<tables, history>>

BeginLeave(c) ==
    /\ Begin(c, arg[c])
    /\ OnwardIf(c, access.status = "VALID", "leave")

-----------------------------------------------------------------------------
(* What follows the last write (anchoring, notification of the other party, *)
(* mail) changes nothing here.  A query, the mail server or the process may *)
(* fail at any point: what was written stays written.                       *)

Close(c) ==
    /\ Query(c, "closing")
    /\ Goto(c, "done")
    /\ UNCHANGED <<tables, history>>

Fail(c) ==
    /\ \E l \in Running : Query(c, l)
    /\ Goto(c, "failed")
    /\ UNCHANGED <<tables, history>>

OwnerCall(c) ==
    \/ \E role \in Roles : BeginGrant(c, role) \/ BeginUpdateRole(c, role)
    \/ GrantReadsAccess(c) \/ Regrant(c) \/ CreateAccess(c) \/ SendInvitation(c)
    \/ BeginRevoke(c) \/ CancelInvitations(c) \/ SetRole(c)

UserCall(c) ==
    \/ \E i \in Calls, answer \in {"accept", "reject"} : BeginRespond(c, i, answer)
    \/ WriteAnswer(c) \/ AcceptAccess(c) \/ RejectReadsAccess(c)
    \/ BeginLeave(c)

Next ==
    \/ \E c \in Calls :
          OwnerCall(c) \/ UserCall(c) \/ RevokeAccess(c) \/ Close(c) \/ Fail(c)
    \/ RemoveEcosystem

Spec == Init /\ [][Next]_vars

-----------------------------------------------------------------------------
(* Properties.                                                              *)

\* While calls have not overlapped, and wherever they failed: an invitation the
\* user can still answer is the only one, the row is PENDING, and what the user
\* accepts is the role the row announces (grantAccess refuses a second
\* invitation; revokeAccess cancels the open one before it revokes the row).
OpenInvitationMatchesAccess ==
    alone => \A i \in Open :
                /\ Open = {i}
                /\ access = [status |-> "PENDING", role |-> invite[i].role]

Answered(i) == invite[i].status \in {"ACCEPTED", "REJECTED", "CANCELLED"}

\* notifications.service.ts refuses an answer to a notification that is not
\* PENDING: "Esta notificación ya ha sido respondida".  An invitation that was
\* answered or cancelled keeps its status.
AnsweredOnce == [][\A i \in Calls : Answered(i) => invite'[i] = invite[i]]_vars

\* The same while calls have not overlapped, wherever they failed.
AnsweredOnceAlone ==
    [][alone' => \A i \in Calls : Answered(i) => invite'[i] = invite[i]]_vars

\* Once the owner has revoked an access, or the user has left, only a new
\* grant followed by its acceptance opens it again, while calls have not
\* overlapped.
AccessOpensFromPending ==
    [][alone' /\ access.status # "VALID" /\ access'.status = "VALID" =>
          access.status = "PENDING" /\ access'.role = access.role]_vars

\* However calls have overlapped before: a revocation written while no other
\* call is in flight and no invitation is open is final.  Nothing but a new
\* grant, which makes the row PENDING, takes the row out of REVOKED.
QuietRevocationHolds == quiet => access.status = "REVOKED"

\* However two first grants of the pair overlap, one of them fails before it
\* sends an invitation: the unique key of EcosystemAccess decides.
FirstGrantInvitesOnce ==
    ~everRevoked =>
        \A i, j \in Calls :
            invite[i].status # "NONE" /\ invite[j].status # "NONE" => i = j
=============================================================================
