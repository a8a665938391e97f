------------------------- MODULE NotificationSender --------------------------
(***************************************************************************)
(* An administrator writes to a user, or to the users of some roles: the   *)
(* two dialogs of UsersManagementPage, and sendToUser and sendToRoles of   *)
(* auth.  A draft outlives its dialog, which may be closed and opened for  *)
(* somebody else while the draft is being sent.                            *)
(***************************************************************************)
EXTENDS PageRequests, FiniteSets

CONSTANTS
    Sender,      \* the administrator
    Recipients,  \* the other users
    Texts        \* titles and messages the administrator types, each once

VARIABLES
    roleOf,      \* of each user
    active,      \* users whose status is ACTIVE
    inbox,       \* the rows of Notification: how many of each text a user has
    notificationModal, form, notificationConfirm, notificationSending,
    chosen,      \* history: per text the users it was confirmed for
    typed,       \* history: the texts typed
    failed       \* history: texts a request for which has failed

sendVars == <<roleOf, active, inbox, notificationModal, form, notificationConfirm,
              notificationSending, chosen, typed, failed>>
rows == <<roleOf, active, inbox>>

Everybody == Recipients \cup {Sender}
Offered == {"USER", "ADMIN"}   \* and AUDITOR, which is treated as USER is

Blank == [text |-> None, roles |-> {}]

SenderInit ==
    /\ RequestsInit(<<>>)
    /\ roleOf \in [Everybody -> {"USER", "ADMIN", "GLOBAL_ADMIN"}]
    /\ roleOf[Sender] # "USER"
    /\ active = Everybody
    /\ inbox = [u \in Everybody |-> [t \in Texts |-> 0]]
    /\ notificationModal = None /\ form = Blank
    /\ notificationConfirm = FALSE /\ notificationSending = FALSE
    /\ chosen = [t \in Texts |-> {}] /\ typed = {} /\ failed = {}

-----------------------------------------------------------------------------
(* notifications.service                                                    *)

Refused(i) ==
    /\ Fails(i)
    /\ failed' = failed \cup {pending[i].arg.text}
    /\ UNCHANGED <<rows, notificationModal, form, notificationConfirm, notificationSending,
                   chosen, typed>>

\* sendToUser of the controller and of the service: the row.  Whether the user is
\* active is not asked.
sendToUser(i) ==
    LET to == pending[i].arg.to
    IN  /\ Waiting(i, "user")
        /\ IF to = Sender
           THEN Refused(i)
           ELSE /\ inbox' = [inbox EXCEPT ![to][pending[i].arg.text] = @ + 1]
                /\ pending' = [pending EXCEPT ![i].stage = "created"]
                /\ UNCHANGED <<moves, inOrder, failures, roleOf, active, notificationModal, form,
                               notificationConfirm, notificationSending, chosen, typed, failed>>

\* Variants with a bug the code could have, no part of Next.

\* the roles are taken as they were sent
RolesToSendAll(roles) == roles

\* the role of the sender is left out
RolesToSend(roles) == roles \ {roleOf[Sender]}

\* sendToRoles: the users of the roles that are left
FindUsers(i) ==
    LET roles == RolesToSend(pending[i].arg.roles)
    IN  /\ Waiting(i, "roles")
        /\ IF roles = {}
           THEN Refused(i)
           ELSE /\ pending' = [pending EXCEPT
                     ![i].stage = "found",
                     ![i].reply = {u \in active : roleOf[u] \in roles}]
                /\ UNCHANGED <<moves, inOrder, failures, sendVars>>

\* createMany
CreateRows(i) ==
    /\ pending[i].stage = "found"
    /\ inbox' = [u \in Everybody |-> [t \in Texts |->
         inbox[u][t] + IF u \in pending[i].reply /\ t = pending[i].arg.text THEN 1 ELSE 0]]
    /\ pending' = [pending EXCEPT ![i].stage = "created"]
    /\ UNCHANGED <<moves, inOrder, failures, roleOf, active, notificationModal, form,
                   notificationConfirm, notificationSending, chosen, typed, failed>>

\* the mails and the anchoring that follow
Sent(i) ==
    /\ pending[i].stage = "created"
    /\ Done(i, None)
    /\ UNCHANGED sendVars

SendFails(i) == ~Over(i) /\ Refused(i)

SendServed == \E i \in DOMAIN pending :
    sendToUser(i) \/ FindUsers(i) \/ CreateRows(i) \/ Sent(i) \/ SendFails(i)

\* a user is blocked or removed
Deactivate(u) ==
    /\ Move
    /\ active' = active \ {u}
    /\ UNCHANGED <<pending, inOrder, failures, roleOf, inbox, notificationModal, form,
                   notificationConfirm, notificationSending, chosen, typed, failed>>

-----------------------------------------------------------------------------
(* The dialogs                                                              *)

Dialog(modal, draft, confirming) ==
    /\ notificationModal' = modal /\ form' = draft /\ notificationConfirm' = confirming
    /\ UNCHANGED <<requestVars, rows, notificationSending, chosen, failed>>

\* the buttons of the page, and of each user that is listed
OpenDialog ==
    /\ notificationModal = None
    /\ \E to \in Everybody \cup {"global"} : Dialog(to, form, FALSE)
    /\ UNCHANGED typed

FormShown == notificationModal # None /\ ~notificationConfirm

Type(t) ==
    /\ FormShown /\ t \notin typed
    /\ Dialog(notificationModal, [form EXCEPT !.text = t], FALSE)
    /\ typed' = typed \cup {t}

ToggleRole(r) ==
    /\ FormShown /\ notificationModal = "global"
    /\ Dialog("global",
              [form EXCEPT !.roles = IF r \in @ THEN @ \ {r} ELSE @ \cup {r}], FALSE)
    /\ UNCHANGED typed

CloseDialog == FormShown /\ Dialog(None, form, FALSE) /\ UNCHANGED typed

Continue ==
    /\ FormShown /\ form.text # None
    /\ notificationModal = "global" => form.roles # {}
    /\ Dialog(notificationModal, form, TRUE)
    /\ UNCHANGED typed

\* not disabled while the notification is being sent
Back ==
    /\ notificationModal # None /\ notificationConfirm
    /\ Dialog(notificationModal, form, FALSE)
    /\ UNCHANGED typed

\* whoever chooses ADMIN writes to GLOBAL_ADMIN as well
RolesSent == form.roles \cup IF "ADMIN" \in form.roles THEN {"GLOBAL_ADMIN"} ELSE {}

Chosen ==
    IF notificationModal = "global"
    THEN {u \in Recipients : roleOf[u] \in RolesSent \ {roleOf[Sender]}}
    ELSE {notificationModal} \ {Sender}

\* Variants with a bug the code could have, no part of Next.

\* the button is not disabled
ConfirmEnabledAlways == notificationModal # None /\ notificationConfirm

ConfirmEnabled == notificationModal # None /\ notificationConfirm /\ ~notificationSending

Confirm ==
    /\ ConfirmEnabled
    /\ Move
    /\ Send(<<IF notificationModal = "global"
              THEN Ask("roles", [roles |-> RolesSent, text |-> form.text])
              ELSE Ask("user", [to |-> notificationModal, text |-> form.text])>>)
    /\ notificationSending' = TRUE
    /\ chosen' = [chosen EXCEPT ![form.text] = @ \cup Chosen]
    /\ UNCHANGED <<rows, notificationModal, form, notificationConfirm, typed, failed>>

\* A success closes the dialog that is open by then and clears what it holds,
\* whoever and whatever it is about; a failure leaves both.
SendArrives(i) ==
    /\ Receive(i, <<>>)
    /\ notificationSending' = FALSE
    /\ IF Failed(i)
       THEN UNCHANGED <<notificationModal, form, notificationConfirm>>
       ELSE notificationModal' = None /\ form' = Blank /\ notificationConfirm' = FALSE
    /\ UNCHANGED <<rows, chosen, typed, failed>>

SenderNext ==
    \/ SendServed
    \/ \E i \in DOMAIN pending : SendArrives(i)
    \/ \E u \in Recipients \intersect active : Deactivate(u)
    \/ OpenDialog \/ CloseDialog \/ Continue \/ Back \/ Confirm
    \/ \E t \in Texts : Type(t)
    \/ \E r \in Offered : ToggleRole(r)

-----------------------------------------------------------------------------
(* Properties                                                               *)

\* A text reaches nobody but those it was confirmed for, and each of them once
\* unless a request for it failed, which may have been after its rows; when
\* nothing is under way it has reached all of them that are still active.  Not
\* even a dialog opened for somebody else during the request, with the draft
\* still in it, sends it to more people.
SentAsChosen ==
    \A t \in Texts : \A u \in Everybody :
        /\ u \notin chosen[t] => inbox[u][t] = 0
        /\ t \notin failed => inbox[u][t] <= 1
        /\ Quiet /\ t \notin failed /\ u \in chosen[t] \cap active => inbox[u][t] = 1

=============================================================================
