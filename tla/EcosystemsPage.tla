--------------------------- MODULE EcosystemsPage ---------------------------
(***************************************************************************)
(* EcosystemsManagementPage for a USER, with useEcosystemsController: the  *)
(* two lists, the modal where an owner shares an ecosystem, the dialogs    *)
(* that take access away or change its role, the creation of an ecosystem  *)
(* and leaving one.  The modal of an ecosystem is DevicesModal.            *)
(*                                                                         *)
(* The calls of auth are single steps here: AccessDelegation has their     *)
(* races.  getMyEcosystems and getSharedWithMe return an empty list when   *)
(* they fail.                                                              *)
(***************************************************************************)
EXTENDS PageRequests, FiniteSets

CONSTANTS
    Owned,     \* ecosystems the user owns or may create
    Lent,      \* an ecosystem of another user, shared with this one
    Guests     \* users they are shared with

VARIABLES
    access,        \* the rows of Owned: [Guests -> Accesses]; None, not created
    lentToMe,      \* the access to Lent is VALID
    activeTab,
    mine, shared,  \* myEcosystems, sharedWithMe: what the controller has
    visibleEcosystems,
    shareModal,    \* the ecosystem of the share modal
    sharedUsers,   \* the ecosystem and the accesses that are listed in it
    confirm,       \* confirmRevoke or confirmRoleChange
    creating,      \* createStep with its modal, and the ecosystem that is made
    busy,          \* isSharing and isCreating: "share", "create"
    revoking,      \* revokingEcosystemId, an ecosystem
    updating,      \* updatingAccessRole, a guest
    overlapped,    \* history: the share modal was opened while an action was under way,
                   \* or Lent was left while the list with it was
    others         \* history: a guest has accepted, an owner has taken Lent back

rowsOfService == <<access, lentToMe>>
disabled == <<busy, revoking, updating>>
lists == <<mine, shared, visibleEcosystems>>
sharing == <<shareModal, sharedUsers, confirm>>
ecosystemsVars == <<rowsOfService, activeTab, lists, sharing, creating, disabled, overlapped, others>>

AccessRoles == {"VIEWER", "EDITOR"}
Accesses == {"none", "PENDING"} \cup AccessRoles

ForList(after) == Ask("mine", after)
ForUsers(e, after) == Ask("users", [eco |-> e, after |-> after])

EcosystemsInit ==
    /\ RequestsInit(<<ForList(None)>>)
    /\ \E e \in Owned, row \in [Guests -> Accesses] :
          access = [o \in Owned |-> IF o = e THEN row ELSE None]
    /\ lentToMe = TRUE
    /\ activeTab = "my-ecosystems"
    /\ mine = {} /\ shared = {} /\ visibleEcosystems = {}
    /\ shareModal = None /\ sharedUsers = None /\ confirm = None
    /\ creating = None
    /\ busy = {} /\ revoking = None /\ updating = None
    /\ overlapped = FALSE /\ others = FALSE

Existing == {e \in Owned : access[e] # None}
SharedBy(e) == \E g \in Guests : access[e][g] \in AccessRoles

\* getEcosystemsWithAccessType and getUserAccesses
MyEcosystems ==
    {[eco |-> e, isShared |-> SharedBy(e)] : e \in Existing}
      \cup (IF lentToMe THEN {[eco |-> Lent, isShared |-> TRUE]} ELSE {})
SharedWithMe == IF lentToMe THEN {[eco |-> Lent, isShared |-> TRUE]} ELSE {}

-----------------------------------------------------------------------------
(* Variants with a bug the code could have, no part of Next.                *)

\* the page does not load the list again after a revocation
AfterRevokeNoList(e) == <<ForUsers(e, "revoke")>>

\* the users of the modal are not loaded again after a change of role
AfterRoleChangeNothing(e) == <<>>

-----------------------------------------------------------------------------
(* ecosystems.service of auth                                               *)

Grant(e, g) ==
    access[e][g] = "none" /\ access' = [access EXCEPT ![e][g] = "PENDING"]
Revoke(e, g) ==
    access[e][g] # "none" /\ access' = [access EXCEPT ![e][g] = "none"]
SetAccessRole(e, g, r) ==
    access[e][g] \in AccessRoles /\ access' = [access EXCEPT ![e][g] = r]
Create(e) ==
    access[e] = None /\ access' = [access EXCEPT ![e] = [g \in Guests |-> "none"]]

\* what a call writes; what follows the write may throw
EcosystemsWrite(i) ==
    LET arg == pending[i].arg
    IN  /\ \/ Waiting(i, "share") /\ Grant(arg.eco, arg.guest)
           \/ Waiting(i, "revoke") /\ Revoke(arg.eco, arg.guest)
           \/ Waiting(i, "role") /\ SetAccessRole(arg.eco, arg.guest, arg.action)
           \/ Waiting(i, "create") /\ Create(arg.eco)
        /\ Done(i, None) \/ Fails(i)
        /\ UNCHANGED lentToMe

\* an owner has no access row to give up
Leave(i) ==
    /\ Waiting(i, "leave") /\ pending[i].arg.eco = Lent /\ lentToMe
    /\ lentToMe' = FALSE
    /\ Done(i, None) \/ Fails(i)
    /\ UNCHANGED access

EcosystemsRead(i) ==
    /\ \/ Waiting(i, "mine") /\ (Done(i, MyEcosystems) \/ Fails(i))
       \/ Waiting(i, "shared") /\ (Done(i, SharedWithMe) \/ Fails(i))
       \/ Waiting(i, "users") /\ (Done(i, access[pending[i].arg.eco]) \/ Fails(i))
       \/ pending[i].stage = "sent" /\ pending[i].op \in {"share", "revoke", "role", "create", "leave"}
            /\ Fails(i)
    /\ UNCHANGED rowsOfService

EcosystemsServed(i) ==
    /\ EcosystemsWrite(i) \/ Leave(i) \/ EcosystemsRead(i)
    /\ UNCHANGED <<activeTab, lists, sharing, creating, disabled, overlapped, others>>

\* A guest accepts an invitation, or the owner of Lent revokes it.
ByOtherUsers ==
    /\ \/ /\ \E e \in Existing, g \in Guests :
                access[e][g] = "PENDING" /\ access' = [access EXCEPT ![e][g] = "VIEWER"]
          /\ UNCHANGED lentToMe
       \/ lentToMe /\ lentToMe' = FALSE /\ UNCHANGED access
    /\ others' = TRUE
    /\ Move
    /\ UNCHANGED <<pending, inOrder, failures, activeTab, lists, sharing, creating, disabled, overlapped>>

-----------------------------------------------------------------------------
(* The lists                                                                *)

\* Modals and dialogs cover the page, a dialog also when its modal has been closed.
Uncovered == shareModal = None /\ creating = None /\ confirm = None

\* the two effects of activeTab: the other copy is shown and loaded again
setActiveTab(tab) ==
    /\ activeTab # tab /\ Uncovered
    /\ activeTab' = tab
    /\ visibleEcosystems' = IF tab = "my-ecosystems" THEN mine ELSE shared
    /\ Send(<<IF tab = "my-ecosystems" THEN ForList(None) ELSE Ask("shared", None)>>)
    /\ Move
    /\ UNCHANGED <<rowsOfService, mine, shared, sharing, creating, disabled, overlapped, others>>

Reply(i) == IF Failed(i) THEN {} ELSE pending[i].reply

\* what an action does when the list it has asked for is there
MineArrives(i) ==
    LET after == pending[i].arg
    IN  /\ pending[i].op = "mine"
        /\ mine' = Reply(i)
        /\ visibleEcosystems' = IF activeTab = "my-ecosystems" THEN Reply(i) ELSE visibleEcosystems
        /\ Receive(i, IF after \in Owned THEN <<ForUsers(after, "revoke")>> ELSE <<>>)
        /\ busy' = IF after \in {"share", "create"} THEN busy \ {after} ELSE busy
        /\ creating' = IF after = "create" /\ creating # None
                       THEN [creating EXCEPT !.step = "result"] ELSE creating
        /\ UNCHANGED <<rowsOfService, activeTab, shared, sharing, revoking, updating, overlapped, others>>

SharedArrives(i) ==
    /\ pending[i].op = "shared"
    /\ shared' = Reply(i)
    /\ visibleEcosystems' = IF activeTab = "shared-with-me" THEN Reply(i) ELSE visibleEcosystems
    /\ Receive(i, <<>>)
    /\ UNCHANGED <<rowsOfService, activeTab, mine, sharing, creating, disabled, overlapped, others>>

\* handleLeaveSharedEcosystem takes an ecosystem from the list at once, and for
\* good.  The button is there for whatever is shared, for its owner as well; it is
\* one of the ecosystem's modal (DevicesModal), which may be open for any of the
\* list: that it is, is not asked here.
leaveShared(e) ==
    /\ [eco |-> e, isShared |-> TRUE] \in visibleEcosystems
    /\ Uncovered
    /\ visibleEcosystems' = {v \in visibleEcosystems : v.eco # e}
    /\ Send(<<Ask("leave", [eco |-> e])>>)
    /\ overlapped' = (overlapped \/ AskedFor("mine") # {})
    /\ Move
    /\ UNCHANGED <<rowsOfService, activeTab, mine, shared, sharing, creating, disabled, others>>

LeaveArrives(i) ==
    /\ pending[i].op = "leave"
    /\ Receive(i, IF Failed(i) THEN <<>> ELSE <<Ask("shared", None)>>)
    /\ UNCHANGED ecosystemsVars

-----------------------------------------------------------------------------
(* The share modal                                                          *)

ActionUnderWay ==
    \E i \in DOMAIN pending :
        \/ pending[i].op \in {"share", "create", "revoke", "role"}
        \/ pending[i].op = "mine" /\ pending[i].arg # None
        \/ pending[i].op = "users" /\ pending[i].arg.after # None

\* the users that were listed before stay until those of this one come
openShareModal(e) ==
    /\ Uncovered
    /\ \E v \in visibleEcosystems : v.eco = e
    /\ shareModal' = e
    /\ Send(<<ForUsers(e, None)>>)
    /\ overlapped' = (overlapped \/ ActionUnderWay)
    /\ Move
    /\ UNCHANGED <<rowsOfService, activeTab, lists, sharedUsers, confirm, creating, disabled, others>>

closeShareModal ==
    /\ shareModal # None /\ confirm = None
    /\ shareModal' = None /\ sharedUsers' = None
    /\ UNCHANGED <<requestVars, rowsOfService, activeTab, lists, confirm, creating, disabled,
                   overlapped, others>>

handleShareEcosystem(g) ==
    /\ shareModal # None /\ confirm = None /\ "share" \notin busy
    /\ busy' = busy \cup {"share"}
    /\ Send(<<Ask("share", [eco |-> shareModal, guest |-> g])>>)
    /\ Move
    /\ UNCHANGED <<rowsOfService, activeTab, lists, sharing, creating, revoking, updating, overlapped, others>>

\* promptRevoke and promptRoleChange: the ecosystem of the modal, a user of the list
Prompt(action, g) ==
    /\ shareModal # None /\ confirm = None /\ sharedUsers # None
    /\ IF action = "revoke" THEN sharedUsers.users[g] # "none"
       ELSE /\ sharedUsers.users[g] \in AccessRoles \ {action}
            /\ updating # g
    /\ confirm' = [eco |-> shareModal, guest |-> g, action |-> action]
    /\ UNCHANGED <<requestVars, rowsOfService, activeTab, lists, shareModal,
                   sharedUsers, creating, disabled, overlapped, others>>

CancelPrompt ==
    /\ confirm # None
    /\ confirm' = None
    /\ UNCHANGED <<requestVars, rowsOfService, activeTab, lists, shareModal, sharedUsers,
                   creating, disabled, overlapped, others>>

\* A revocation is compared with the ecosystem, a change of role with the user.
executeRevoke ==
    /\ confirm # None /\ confirm.action = "revoke"
    /\ revoking # confirm.eco
    /\ confirm' = None
    /\ revoking' = confirm.eco
    /\ Send(<<Ask("revoke", confirm)>>)
    /\ Move
    /\ UNCHANGED <<rowsOfService, activeTab, lists, shareModal, sharedUsers, creating, busy,
                   updating, overlapped, others>>

executeRoleChange ==
    /\ confirm # None /\ confirm.action # "revoke"
    /\ updating # confirm.guest
    /\ confirm' = None
    /\ updating' = confirm.guest
    /\ Send(<<Ask("role", confirm)>>)
    /\ Move
    /\ UNCHANGED <<rowsOfService, activeTab, lists, shareModal, sharedUsers, creating, busy,
                   revoking, overlapped, others>>

\* what the page asks for when access was taken away: its list, then the users
AfterRevoke(e) == <<ForList(e)>>
AfterRoleChange(e) == <<ForUsers(e, "role")>>

\* The share modal that is open now is closed, whichever it is.
ShareArrives(i) ==
    /\ pending[i].op = "share"
    /\ IF Failed(i)
       THEN /\ Receive(i, <<>>)
            /\ busy' = busy \ {"share"}
            /\ UNCHANGED sharing
       ELSE /\ Receive(i, <<ForList("share")>>)
            /\ shareModal' = None /\ sharedUsers' = None
            /\ UNCHANGED <<busy, confirm>>
    /\ UNCHANGED <<rowsOfService, activeTab, lists, creating, revoking, updating, overlapped, others>>

Released(action) ==
    /\ revoking' = IF action = "revoke" THEN None ELSE revoking
    /\ updating' = IF action = "role" THEN None ELSE updating

ChangeArrives(i) ==
    LET op == pending[i].op
        e == pending[i].arg.eco
    IN  /\ op \in {"revoke", "role"}
        /\ Receive(i, IF Failed(i) THEN <<>>
                      ELSE IF op = "revoke" THEN AfterRevoke(e) ELSE AfterRoleChange(e))
        /\ IF Failed(i) THEN Released(op) ELSE UNCHANGED <<revoking, updating>>
        /\ UNCHANGED <<rowsOfService, activeTab, lists, sharing, creating, busy, overlapped, others>>

\* Only the one that opens the modal empties the list when it fails.
AccessesArrive(i) ==
    LET arg == pending[i].arg
    IN  /\ pending[i].op = "users"
        /\ Receive(i, <<>>)
        /\ sharedUsers' = IF ~Failed(i) THEN [of |-> arg.eco, users |-> pending[i].reply]
                          ELSE IF arg.after = None THEN None ELSE sharedUsers
        /\ Released(arg.after)
        /\ UNCHANGED <<rowsOfService, activeTab, lists, shareModal, confirm, creating, busy, overlapped, others>>

-----------------------------------------------------------------------------
(* The create modal                                                         *)

openCreateModal ==
    /\ Uncovered /\ activeTab = "my-ecosystems"
    /\ Owned \ Existing # {}
    /\ creating' = [step |-> "form"]
    /\ Move
    /\ UNCHANGED <<pending, inOrder, failures, rowsOfService, activeTab, lists, sharing, disabled,
                   overlapped, others>>

closeCreateModal ==
    /\ creating # None
    /\ creating' = None
    /\ UNCHANGED <<requestVars, rowsOfService, activeTab, lists, sharing, disabled, overlapped, others>>

\* "form" is also the step "confirm", which asks for the name that was entered.
handleCreateEcosystem ==
    /\ creating # None /\ creating.step = "form" /\ "create" \notin busy
    /\ busy' = busy \cup {"create"}
    /\ \E e \in Owned \ Existing : Send(<<Ask("create", [eco |-> e])>>)
    /\ UNCHANGED <<moves, rowsOfService, activeTab, lists, sharing, creating, revoking, updating, overlapped, others>>

CreateArrives(i) ==
    /\ pending[i].op = "create"
    /\ IF Failed(i) THEN Receive(i, <<>>) /\ busy' = busy \ {"create"}
       ELSE Receive(i, <<ForList("create")>>) /\ UNCHANGED busy
    /\ UNCHANGED <<rowsOfService, activeTab, lists, sharing, creating, revoking, updating, overlapped, others>>

EcosystemsNext ==
    \/ \E i \in DOMAIN pending :
          \/ EcosystemsServed(i)
          \/ MineArrives(i) \/ SharedArrives(i) \/ LeaveArrives(i) \/ ShareArrives(i)
          \/ ChangeArrives(i) \/ AccessesArrive(i) \/ CreateArrives(i)
    \/ ByOtherUsers
    \/ \E tab \in {"my-ecosystems", "shared-with-me"} : setActiveTab(tab)
    \/ \E e \in Owned \cup {Lent} : leaveShared(e)
    \/ \E e \in Owned : openShareModal(e)
    \/ \E g \in Guests : handleShareEcosystem(g)
    \/ \E g \in Guests, action \in {"revoke"} \cup AccessRoles : Prompt(action, g)
    \/ closeShareModal \/ CancelPrompt \/ executeRevoke \/ executeRoleChange
    \/ openCreateModal \/ closeCreateModal \/ handleCreateEcosystem

-----------------------------------------------------------------------------
(* Properties                                                               *)

\* When nothing is under way and answers came in order, the tab shows what the
\* service has, with its badges: each action loads the list it has changed.  Not
\* so when a shared ecosystem is left from a list that is being loaded: that
\* list brings it back, and only the other one is loaded again.
TabAgrees ==
    Quiet /\ inOrder /\ ~failures /\ ~others /\ ~overlapped =>
        visibleEcosystems = IF activeTab = "my-ecosystems" THEN MyEcosystems ELSE SharedWithMe

\* When nothing is under way and answers came in order, the share modal lists
\* the accesses of its own ecosystem, unless it was opened while an action of
\* another one was under way: that action lists its own when it ends.
UsersAreTheirs ==
    Quiet /\ inOrder /\ ~failures /\ ~others /\ ~overlapped /\ shareModal # None =>
        sharedUsers = [of |-> shareModal, users |-> access[shareModal]]

=============================================================================
