------------------------------- MODULE Webapp -------------------------------
(***************************************************************************)
(* The pages of the webapp behind the routes of App.tsx.  One page is      *)
(* mounted at a time; its state, and the answers it waits for, are lost    *)
(* when it is left, so a behaviour stays on the route it begins with.  The *)
(* modal of an ecosystem and the dialogs of a notification cover their     *)
(* pages, and have a route of their own here.                              *)
(* Whom App.tsx lets in is in SessionRefresh; a page is the one that the   *)
(* most privileged of its users sees.                                      *)
(*                                                                         *)
(* A page sends its requests while others change what it shows, and has    *)
(* nothing but the order of its awaits to bring the two together.          *)
(***************************************************************************)
EXTENDS PageRequests, FiniteSets

CONSTANTS
    FewMoves,                    \* MaxMoves of UsersPage and BlockchainPage
    Notes, ActionNotes,          \* NotificationsPage
    People, UserRoles,           \* UsersPage
    Owned, Lent, Guests,         \* EcosystemsPage
    Devices, FirstDevice,        \* DevicesModal
    Apis,                        \* BlockchainPage
    Readings, Actions, Limit,    \* AuditPage
    Sender, Recipients, Texts    \* NotificationSender

VARIABLES
    route,
    actionLoading,    \* of NotificationsPage and of useUsersController
    status, listed, selected, pendingCount, touched, twice,
    account, users, dialog, selectedUserInfo, ecosystemsOf, loadingEcosystems, elsewhere,
    access, lentToMe, activeTab, mine, shared, visibleEcosystems, shareModal,
    sharedUsers, confirm, creating, busy, revoking, updating, overlapped, others,
    row, visible, ecosystem, selectedDeviceId, selectedDevice, edited, saving, crossed,
    registered, listeners, smartContracts, selectedContract, interfaceOf, formOpen,
    submitting, confirmDelete, raced, stopped,
    chain, record, events, filters, cards, stale, moved,
    roleOf, active, inbox, notificationModal, form, notificationConfirm,
    notificationSending, chosen, typed, failed

Bell == INSTANCE NotificationsPage
Accounts == INSTANCE UsersPage WITH MaxMoves <- FewMoves
Ecosystems == INSTANCE EcosystemsPage
Modal == INSTANCE DevicesModal
Chaincodes == INSTANCE BlockchainPage WITH MaxMoves <- FewMoves
Audit == INSTANCE AuditPage
Notices == INSTANCE NotificationSender

\* No reading is an administrative action.
ASSUME EventsAssumption == Limit \in Nat /\ Readings \cap Actions = {}

\* null is no text, and no word of the pages.
ASSUME NullAssumption == None \notin Texts \cup {"action"}

\* The ecosystem of another user is not one's own; null is no ecosystem and no
\* row of accesses, nor are the words for what a list is loaded after.
ASSUME EcosystemsAssumption ==
    /\ Lent \notin Owned
    /\ Owned \cap {None, "share", "create"} = {}
    /\ None \notin [Guests -> Ecosystems!Accesses]

\* A plan shows its first device.
ASSUME DevicesAssumption == FirstDevice \in Devices

notes == <<status, listed, selected, pendingCount, touched, twice>>
people == <<account, users, dialog, selectedUserInfo, ecosystemsOf, loadingEcosystems, elsewhere>>
sharings == <<access, lentToMe, activeTab, mine, shared, visibleEcosystems, shareModal,
              sharedUsers, confirm, creating, busy, revoking, updating, overlapped, others>>
modal == <<row, visible, ecosystem, selectedDeviceId, selectedDevice, edited, saving, crossed>>
chaincodes == <<registered, listeners, smartContracts, selectedContract, interfaceOf, formOpen,
                submitting, confirmDelete, raced, stopped>>

timeline == <<chain, record, events, filters, cards, stale, moved>>
sendings == <<roleOf, active, inbox, notificationModal, form, notificationConfirm,
              notificationSending, chosen, typed, failed>>

vars == <<route, actionLoading, requestVars, notes, people, sharings, modal, chaincodes,
          timeline, sendings>>

-----------------------------------------------------------------------------
(* The routes                                                               *)

NotesUnmounted ==
    /\ status = None /\ listed = None /\ selected = None /\ pendingCount = None
    /\ touched = None /\ twice = None

UsersUnmounted ==
    /\ account = None /\ users = None /\ dialog = None /\ selectedUserInfo = None
    /\ ecosystemsOf = None /\ loadingEcosystems = None /\ elsewhere = None

EcosystemsUnmounted ==
    /\ access = None /\ lentToMe = None /\ activeTab = None /\ mine = None /\ shared = None
    /\ visibleEcosystems = None /\ shareModal = None /\ sharedUsers = None /\ confirm = None
    /\ creating = None /\ busy = None /\ revoking = None /\ updating = None
    /\ overlapped = None /\ others = None

ModalUnmounted ==
    /\ row = None /\ visible = None /\ ecosystem = None /\ selectedDeviceId = None
    /\ selectedDevice = None /\ edited = None /\ saving = None /\ crossed = None

BlockchainUnmounted ==
    /\ registered = None /\ listeners = None /\ smartContracts = None /\ selectedContract = None
    /\ interfaceOf = None /\ formOpen = None /\ submitting = None /\ confirmDelete = None
    /\ raced = None /\ stopped = None

AuditUnmounted ==
    /\ chain = None /\ record = None /\ events = None /\ filters = None /\ cards = None
    /\ stale = None /\ moved = None

SenderUnmounted ==
    /\ roleOf = None /\ active = None /\ inbox = None /\ notificationModal = None
    /\ form = None /\ notificationConfirm = None /\ notificationSending = None
    /\ chosen = None /\ typed = None /\ failed = None

Init ==
    /\ \/ route = "notifications" /\ Bell!NotesInit
       \/ route = "users" /\ Accounts!UsersInit
       \/ route = "ecosystems" /\ Ecosystems!EcosystemsInit
       \/ route = "ecosystem" /\ Modal!DevicesInit
       \/ route = "blockchain" /\ Chaincodes!BlockchainInit
       \/ route = "audit" /\ Audit!AuditInit
       \/ route = "sending" /\ Notices!SenderInit
    /\ route # "notifications" => NotesUnmounted
    /\ route # "users" => UsersUnmounted
    /\ route \notin {"notifications", "users"} => actionLoading = None
    /\ route # "ecosystems" => EcosystemsUnmounted
    /\ route # "ecosystem" => ModalUnmounted
    /\ route # "blockchain" => BlockchainUnmounted
    /\ route # "audit" => AuditUnmounted
    /\ route # "sending" => SenderUnmounted

Next ==
    /\ \/ /\ route = "notifications" /\ Bell!NotesNext
          /\ UNCHANGED <<people, sharings, modal, chaincodes, timeline, sendings>>
       \/ /\ route = "users" /\ Accounts!UsersNext
          /\ UNCHANGED <<notes, sharings, modal, chaincodes, timeline, sendings>>
       \/ /\ route = "ecosystems" /\ Ecosystems!EcosystemsNext
          /\ UNCHANGED <<notes, people, modal, chaincodes, timeline, sendings, actionLoading>>
       \/ /\ route = "ecosystem" /\ Modal!DevicesNext
          /\ UNCHANGED <<notes, people, sharings, chaincodes, timeline, sendings, actionLoading>>
       \/ /\ route = "blockchain" /\ Chaincodes!BlockchainNext
          /\ UNCHANGED <<notes, people, sharings, modal, timeline, sendings, actionLoading>>
       \/ /\ route = "audit" /\ Audit!AuditNext
          /\ UNCHANGED <<notes, people, sharings, modal, chaincodes, sendings, actionLoading>>
       \/ /\ route = "sending" /\ Notices!SenderNext
          /\ UNCHANGED <<notes, people, sharings, modal, chaincodes, timeline, actionLoading>>
    /\ UNCHANGED route

Spec == Init /\ [][Next]_vars

-----------------------------------------------------------------------------
(* Properties                                                               *)

\* When a page rests and its answers came in order, its list is what the
\* services have: every action that changes the rows shown loads them again, or
\* writes the same into the copy.  NotesAgree, UsersAgree, TabAgrees, ListAgrees,
\* ContractsAgree and TimelineAgrees say of which rows, and what the page must not
\* have done.
ListsAgree ==
    CASE route = "notifications" -> Bell!NotesAgree
      [] route = "users"         -> Accounts!UsersAgree
      [] route = "ecosystems"    -> Ecosystems!TabAgrees
      [] route = "ecosystem"     -> Modal!ListAgrees
      [] route = "blockchain"    -> Chaincodes!ContractsAgree
      [] route = "audit"         -> Audit!TimelineAgrees
      [] OTHER                   -> TRUE

\* When a page rests and its answers came in order, the panel or modal that is
\* open shows the details of what it was opened for: PanelIsTheirs,
\* UsersAreTheirs, ModalSettles and InterfaceIsTheirs.
DetailsAreTheirs ==
    CASE route = "users"      -> Accounts!PanelIsTheirs
      [] route = "ecosystems" -> Ecosystems!UsersAreTheirs
      [] route = "ecosystem"  -> Modal!ModalSettles
      [] route = "blockchain" -> Chaincodes!InterfaceIsTheirs
      [] OTHER                -> TRUE

\* The count beside the bell: BellAgrees of NotificationsPage.
BellAgrees == route = "notifications" => Bell!BellAgrees

\* One listener for a chaincode: OneListener of BlockchainPage.
OneListener == route = "blockchain" => Chaincodes!OneListener

\* The audit calls a document altered if and only if it is: VerdictsAreRight of
\* AuditPage.
VerdictsAreRight == route = "audit" => Audit!VerdictsAreRight

\* A text reaches those it was confirmed for, once: SentAsChosen of
\* NotificationSender.
SentAsChosen == route = "sending" => Notices!SentAsChosen

=============================================================================
