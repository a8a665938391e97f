----------------------------- MODULE UsersPage ------------------------------
(***************************************************************************)
(* The page where administrators approve and revoke accounts, change       *)
(* roles and look at an account's ecosystems, with its controller          *)
(* useUsersController.  What they send from here arrives in                *)
(* NotificationsPage.                                                      *)
(*                                                                         *)
(* The calls of auth are single steps here: AccountLifecycle and Session   *)
(* have their races.                                                       *)
(***************************************************************************)
EXTENDS PageRequests, FiniteSets

CONSTANTS
    People,      \* accounts
    UserRoles

VARIABLES
    account,          \* the rows: [People -> Rows]
    users,            \* the page's copies of them, None while there are none
    actionLoading,    \* an action of the controller is under way
    dialog,           \* pendingUserAction, pendingRoleChange, roleChangeConfirmation
    selectedUserInfo, \* the account whose panel is open
    ecosystemsOf,     \* the account whose ecosystems the panel shows
    loadingEcosystems,
    elsewhere         \* history: someone else has written a row

panel == <<selectedUserInfo, ecosystemsOf, loadingEcosystems>>
usersVars == <<account, users, actionLoading, dialog, panel, elsewhere>>

Rows == [status : {"PENDING", "ACTIVE", "REVOKED"}, role : UserRoles]

UsersInit ==
    /\ RequestsInit(<<Ask("getUsers", None)>>)
    /\ account \in [People -> [status : {"PENDING", "ACTIVE"}, role : {"USER"}]]
    /\ users = None /\ actionLoading = FALSE /\ dialog = None
    /\ selectedUserInfo = None /\ ecosystemsOf = None
    /\ loadingEcosystems = FALSE
    /\ elsewhere = FALSE

isLoading == AskedFor("getUsers") # {}

\* the table, hidden while the list is loaded or a dialog is before it
Listed == IF isLoading \/ users = None \/ dialog # None THEN {} ELSE People

\* remove() writes another email, and dialogs know accounts by their emails
Email(u, status) == <<u, status = "REVOKED">>
Named(email) ==
    IF users = None THEN {} ELSE {u \in People : Email(u, users[u].status) = email}

-----------------------------------------------------------------------------
(* Variants with a bug the code could have, no part of Next.                *)

\* while a panel loads, another one does not
ShowUserInfoOnce(u) ==
    IF loadingEcosystems THEN <<>> ELSE <<Ask("ecosystems", u)>>

-----------------------------------------------------------------------------
(* users.service of auth                                                    *)

UsersServed(i) ==
    /\ \/ Waiting(i, "getUsers") /\ (Done(i, account) \/ Fails(i))
       \/ Waiting(i, "ecosystems") /\ (Done(i, None) \/ Fails(i))
       \/ Waiting(i, "details") /\ Done(i, None)     \* a failure is caught
    /\ UNCHANGED usersVars

\* what an action writes: approveUser, remove, changeRole
Effect(a) ==
    LET row == account[a.user]
    IN  CASE a.action = "approve" -> [row EXCEPT !.status = "ACTIVE"]
          [] a.action = "revoke"  -> [row EXCEPT !.status = "REVOKED"]
          [] a.action = "role"    -> [row EXCEPT !.role = a.next]

Allowed(a) ==
    /\ account[a.user].status # "REVOKED"
    /\ a.action = "approve" => account[a.user].status = "PENDING"

\* Anchoring and mail come after the write and may throw.
ActionServed(i) ==
    /\ Waiting(i, "act")
    /\ \/ /\ Allowed(pending[i].arg)
          /\ account' = [account EXCEPT ![pending[i].arg.user] = Effect(pending[i].arg)]
          /\ Done(i, None) \/ Fails(i)
       \/ Fails(i) /\ UNCHANGED account
    /\ UNCHANGED <<users, actionLoading, dialog, panel, elsewhere>>

\* another administrator; bound: removes an account, once
ByOthers(u) ==
    /\ ~elsewhere
    /\ account' = [account EXCEPT ![u].status = "REVOKED"]
    /\ elsewhere' = TRUE
    /\ Move
    /\ UNCHANGED <<pending, inOrder, failures, users, actionLoading, dialog, panel>>

-----------------------------------------------------------------------------
(* Actions on an account                                                    *)

Dialog(u, action, next) ==
    [email |-> Email(u, users[u].status), action |-> action, next |-> next, confirmed |-> FALSE]

\* handleUserAction and handleOpenRoleChange, with the buttons that lead there
OpenDialog(u, action, next) ==
    /\ u \in Listed
    /\ CASE action = "approve" -> users[u].status = "PENDING"
         [] action = "revoke"  -> users[u].status # "REVOKED"
         [] action = "role"    -> users[u].status = "ACTIVE"
    /\ dialog' = Dialog(u, action, next)
    /\ UNCHANGED <<requestVars, account, users, actionLoading, panel, elsewhere>>

CancelDialog ==
    /\ dialog # None
    /\ dialog' = None
    /\ UNCHANGED <<requestVars, account, users, actionLoading, panel,
                   elsewhere>>

Confirmable == dialog # None /\ ~actionLoading

\* A change of role is confirmed in a second dialog.
handleConfirmRoleChange ==
    /\ Confirmable
    /\ dialog.action = "role" /\ ~dialog.confirmed
    /\ dialog' = [dialog EXCEPT !.confirmed = TRUE]
    /\ UNCHANGED <<requestVars, account, users, actionLoading, panel,
                   elsewhere>>

\* handleConfirmUserAction and handleExecuteRoleChange
Execute ==
    /\ Confirmable
    /\ dialog.action = "role" => dialog.confirmed
    /\ Move
    /\ \/ /\ Named(dialog.email) = {}
          /\ dialog' = None
          /\ UNCHANGED <<pending, inOrder, failures, actionLoading>>
       \/ /\ \E u \in Named(dialog.email) :
                Send(<<Ask("act", [user |-> u, action |-> dialog.action, next |-> dialog.next])>>)
          /\ actionLoading' = TRUE
          /\ UNCHANGED dialog
    /\ UNCHANGED <<account, users, panel, elsewhere>>

\* The action was taken: refreshUsers.  If not, the error is swallowed.
ActionArrives(i) ==
    /\ pending[i].op = "act"
    /\ IF Failed(i)
       THEN /\ Receive(i, <<>>)
            /\ actionLoading' = FALSE /\ dialog' = None
       ELSE /\ Receive(i, <<Ask("getUsers", "action")>>)
            /\ UNCHANGED <<actionLoading, dialog>>
    /\ UNCHANGED <<account, users, panel, elsewhere>>

\* refreshUsers; when an action waits for it, the finally of the action and of
\* the handler follow
UsersArrive(i) ==
    /\ pending[i].op = "getUsers"
    /\ Receive(i, <<>>)
    /\ users' = IF Failed(i) THEN None ELSE pending[i].reply
    /\ IF pending[i].arg = "action"
       THEN actionLoading' = FALSE /\ dialog' = None
       ELSE UNCHANGED <<actionLoading, dialog>>
    /\ UNCHANGED <<account, panel, elsewhere>>

-----------------------------------------------------------------------------
(* The panel of an account: handleShowUserInfo                              *)

ShowUserInfo(u) == <<Ask("ecosystems", u)>>

\* From the table, or from the owner of an ecosystem in the panel itself.
OpenPanel(u) ==
    /\ u \in Listed /\ users[u].status \in {"ACTIVE", "PENDING"}
    /\ selectedUserInfo' = u
    /\ ecosystemsOf' = None
    /\ loadingEcosystems' = TRUE
    /\ Send(ShowUserInfo(u))
    /\ Move
    /\ UNCHANGED <<account, users, actionLoading, dialog, elsewhere>>

ClosePanel ==
    /\ selectedUserInfo # None
    /\ selectedUserInfo' = None
    /\ UNCHANGED <<requestVars, account, users, actionLoading, dialog,
                   ecosystemsOf, loadingEcosystems, elsewhere>>

\* The telemetry volume is asked for if the account owns ecosystems, the emails
\* of the owners of those it shares; then the panel is no longer loading.
PanelArrives(i) ==
    LET u == pending[i].arg
    IN  /\ \/ /\ pending[i].op = "ecosystems" /\ Failed(i)
              /\ Receive(i, <<>>) /\ loadingEcosystems' = FALSE
              /\ UNCHANGED ecosystemsOf
           \/ /\ pending[i].op = "ecosystems" /\ ~Failed(i)
              /\ Receive(i, <<Ask("details", u)>>)
              /\ ecosystemsOf' = u /\ UNCHANGED loadingEcosystems
           \/ /\ pending[i].op = "details"
              /\ Receive(i, <<>>) /\ loadingEcosystems' = FALSE
              /\ UNCHANGED ecosystemsOf
        /\ UNCHANGED <<account, users, actionLoading, dialog, selectedUserInfo, elsewhere>>

UsersNext ==
    \/ \E i \in DOMAIN pending :
          \/ UsersServed(i) \/ ActionServed(i)
          \/ UsersArrive(i) \/ ActionArrives(i) \/ PanelArrives(i)
    \/ \E u \in People :
          \/ ByOthers(u) \/ OpenPanel(u)
          \/ \E action \in {"approve", "revoke"} : OpenDialog(u, action, None)
          \/ \E next \in UserRoles : OpenDialog(u, "role", next)
    \/ CancelDialog \/ handleConfirmRoleChange \/ Execute \/ ClosePanel

-----------------------------------------------------------------------------
(* Properties                                                               *)

\* When nothing is under way, the list says what the rows say, in whatever
\* order the answers came: no list that was asked for before an action arrives
\* after the one that follows it.  Not so when a request failed, perhaps after
\* its write, since the list is then not loaded again.
UsersAgree == Quiet /\ ~failures /\ ~elsewhere => users = account

\* When nothing is under way and answers came in order, the ecosystems in the
\* panel are those of the account it is about.
PanelIsTheirs ==
    Quiet /\ inOrder /\ ~failures /\ selectedUserInfo # None =>
        ecosystemsOf = selectedUserInfo

=============================================================================
