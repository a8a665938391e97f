------------------------- MODULE NotificationsPage --------------------------
(***************************************************************************)
(* A user's notifications: their rows and the calls of auth's              *)
(* notifications.service, the page that lists and answers them, and the    *)
(* count MainLayout shows beside the bell.                                 *)
(***************************************************************************)
EXTENDS PageRequests, FiniteSets

CONSTANTS
    Notes,       \* notifications of this user, there may be
    ActionNotes  \* those that expect an action; the others are to be read

VARIABLES
    status,      \* the rows: [Notes -> Statuses]
    listed,      \* notifications of the page: the status it shows of each
    selected,    \* the notification whose modal is open, as it was when opened
    actionLoading,
    pendingCount,
    touched,     \* history: rows others have written since the page was mounted
    twice        \* history: rows with two requests of the page at once

Statuses == {"ABSENT", "PENDING", "READ", "ACCEPTED", "REJECTED", "CANCELLED"}

noteVars == <<status, listed, selected, actionLoading, pendingCount, touched, twice>>
noteHistory == <<touched, twice>>

\* NotificationsPage and MainLayout load when the route is shown.
NotesInit ==
    /\ RequestsInit(<<Ask("list", None), Ask("count", None)>>)
    /\ status \in [Notes -> {"ABSENT", "PENDING"}]
    /\ listed = [n \in Notes |-> "ABSENT"]
    /\ selected = None /\ actionLoading = None /\ pendingCount = 0
    /\ touched = {} /\ twice = {}

Category(n) == IF n \in ActionNotes THEN "ACTION_EXPECTED" ELSE "READ_ONLY"
Open(s) == {n \in Notes : s[n] = "PENDING"}
isLoading == AskedFor("list") # {}
About(n) ==
    {i \in DOMAIN pending : pending[i].op \in {"read", "answer"} /\ pending[i].arg.note = n}

-----------------------------------------------------------------------------
(* Variants with a bug the code could have, no part of Next.                *)

\* the count is not asked for again
AfterAnswerNoCount == <<>>

\* the count is asked for, the list is left as it is
ReadArrivesUnlisted(i) ==
    /\ pending[i].op = "read"
    /\ Receive(i, IF Failed(i) THEN <<>> ELSE <<Ask("count", None)>>)
    /\ actionLoading' = None
    /\ UNCHANGED <<status, listed, selected, pendingCount, noteHistory>>

-----------------------------------------------------------------------------
(* notifications.service                                                    *)

Write(n, s) == status' = [status EXCEPT ![n] = s]

ListServed(i) ==
    /\ Waiting(i, "list")
    /\ Done(i, status) \/ Fails(i)
    /\ UNCHANGED noteVars

getPendingCount(i) ==
    /\ Waiting(i, "count")
    /\ Done(i, Cardinality(Open(status))) \/ Fails(i)
    /\ UNCHANGED noteVars

\* One read and one write by id; nothing comes between them that changes what
\* the write does.  Anchoring may throw when the row is written.
markAsRead(i) ==
    /\ Waiting(i, "read")
    /\ LET n == pending[i].arg.note
       IN  \/ /\ status[n] # "READ"
              /\ Write(n, "READ")
              /\ Done(i, "READ") \/ Fails(i)
           \/ /\ status[n] = "READ"
              /\ Done(i, "READ")
              /\ UNCHANGED status
           \/ Fails(i) /\ UNCHANGED status
    /\ UNCHANGED <<listed, selected, actionLoading, pendingCount, noteHistory>>

\* respondToNotification: findOne and the three tests
RespondReads(i) ==
    /\ Waiting(i, "answer")
    /\ \/ status[pending[i].arg.note] = "PENDING" /\ Serve(i, "checked", None)
       \/ Fails(i)
    /\ UNCHANGED noteVars

\* The update; the access, the notice to the owner and the mail that follow
\* may throw.
RespondWrites(i) ==
    /\ pending[i].op = "answer" /\ pending[i].stage = "checked"
    /\ Write(pending[i].arg.note, pending[i].arg.answer)
    /\ Done(i, pending[i].arg.answer) \/ Fails(i)
    /\ UNCHANGED <<listed, selected, actionLoading, pendingCount, noteHistory>>

NotesServed == \E i \in DOMAIN pending :
    ListServed(i) \/ getPendingCount(i) \/ markAsRead(i) \/ RespondReads(i) \/ RespondWrites(i)

\* sendToUser, sendToRoles, and the notifications other services create
Arrive(n) ==
    /\ status[n] = "ABSENT"
    /\ Write(n, "PENDING")
    /\ touched' = touched \cup {n}
    /\ Move
    /\ UNCHANGED <<pending, inOrder, failures, listed, selected, actionLoading, pendingCount,
                   twice>>

\* revokeAccess of the owner who sent the invitation
CancelledByOwner(n) ==
    /\ n \in ActionNotes /\ status[n] = "PENDING"
    /\ Write(n, "CANCELLED")
    /\ touched' = touched \cup {n}
    /\ Move
    /\ UNCHANGED <<pending, inOrder, failures, listed, selected, actionLoading, pendingCount,
                   twice>>

-----------------------------------------------------------------------------
(* The page                                                                 *)

AskAbout(op, arg) ==
    /\ Send(<<Ask(op, arg)>>)
    /\ actionLoading' = arg.note
    /\ twice' = IF About(arg.note) = {} THEN twice ELSE twice \cup {arg.note}

Select(n) ==
    /\ ~isLoading /\ selected = None
    /\ listed[n] # "ABSENT"
    /\ selected' = [note |-> n, status |-> listed[n]]
    /\ Move
    /\ UNCHANGED <<pending, inOrder, failures, status, listed, actionLoading, pendingCount,
                   noteHistory>>

\* the id of the notification is all a request for READ carries
handleCloseModal ==
    /\ selected # None
    /\ selected' = None
    /\ Move
    /\ IF Category(selected.note) = "READ_ONLY" /\ selected.status = "PENDING"
       THEN AskAbout("read", [note |-> selected.note])
       ELSE UNCHANGED <<pending, inOrder, failures, actionLoading, twice>>
    /\ UNCHANGED <<status, listed, pendingCount, touched>>

\* handleModalAccept and handleModalReject
Answer(answer) ==
    /\ selected # None
    /\ Category(selected.note) = "ACTION_EXPECTED" /\ selected.status = "PENDING"
    /\ actionLoading # selected.note
    /\ AskAbout("answer", [note |-> selected.note, answer |-> answer])
    /\ Move
    /\ UNCHANGED <<status, listed, selected, pendingCount, touched>>

\* what the page does when an answer was taken: refreshNotificationCount
AfterAnswer == <<Ask("count", None)>>

ListArrives(i) ==
    /\ pending[i].op = "list"
    /\ Receive(i, <<>>)
    /\ listed' = IF Failed(i) THEN [n \in Notes |-> "ABSENT"]
                 ELSE pending[i].reply
    /\ UNCHANGED <<status, selected, actionLoading, pendingCount, noteHistory>>

CountArrives(i) ==
    /\ pending[i].op = "count"
    /\ Receive(i, <<>>)
    /\ pendingCount' = IF Failed(i) THEN 0 ELSE pending[i].reply
    /\ UNCHANGED <<status, listed, selected, actionLoading, noteHistory>>

\* handleMarkAsRead: a failure is null
ReadArrives(i) ==
    LET n == pending[i].arg.note
        ok == ~Failed(i)
    IN  /\ pending[i].op = "read"
        /\ Receive(i, IF ok THEN AfterAnswer ELSE <<>>)
        /\ listed' = IF ok THEN [listed EXCEPT ![n] = "READ"] ELSE listed
        /\ actionLoading' = None
        /\ UNCHANGED <<status, selected, pendingCount, noteHistory>>

\* handleAccept and handleReject; the modal that is open now is closed,
\* whichever it is
AnswerArrives(i) ==
    LET n == pending[i].arg.note
        ok == ~Failed(i)
    IN  /\ pending[i].op = "answer"
        /\ Receive(i, IF ok THEN AfterAnswer ELSE <<>>)
        /\ listed' = IF ok THEN [listed EXCEPT ![n] = pending[i].reply] ELSE listed
        /\ actionLoading' = None /\ selected' = None
        /\ UNCHANGED <<status, pendingCount, noteHistory>>

NotesArrive == \E i \in DOMAIN pending :
    ListArrives(i) \/ CountArrives(i) \/ ReadArrives(i) \/ AnswerArrives(i)

NotesNext ==
    \/ NotesServed \/ NotesArrive
    \/ \E n \in Notes : Arrive(n) \/ CancelledByOwner(n) \/ Select(n)
    \/ handleCloseModal
    \/ \E answer \in {"ACCEPTED", "REJECTED"} : Answer(answer)

-----------------------------------------------------------------------------
(* Properties                                                               *)

\* When nothing is under way, the page shows of a notification what its row
\* says: unless someone else has written it, the page asked twice at once
\* about it, or a request failed, which may have been after its write.
NotesAgree ==
    Quiet /\ ~failures =>
        \A n \in Notes \ (touched \cup twice) : listed[n] = status[n]

\* The number beside the bell is the number of notifications that are open,
\* under the same conditions, and if answers came in the order of requests:
\* counts are asked for with each answer and are not numbered.
BellAgrees ==
    Quiet /\ ~failures /\ inOrder /\ touched = {} => pendingCount = Cardinality(Open(status))

=============================================================================
