---------------------------- MODULE DevicesModal ----------------------------
(***************************************************************************)
(* EcosystemDevicesModal over the list of EcosystemsManagementPage: one    *)
(* ecosystem, its name, its devices, and the requests of the modal.        *)
(*                                                                         *)
(* What a user may edit of a device (name, category, room) is one value,   *)
(* and every save writes a new one.  A save and a renaming are one step    *)
(* from typing to request: what was typed before a reload is lost.         *)
(***************************************************************************)
EXTENDS PageRequests

CONSTANTS Devices, FirstDevice   \* the first of them, which a modal shows

VARIABLES
    row,              \* the service: [name, devices]
    visible,          \* the page's copy in visibleEcosystems; None when removed
    ecosystem,        \* selectedEcosystem, the modal's copy; None when closed
    selectedDeviceId,
    selectedDevice,   \* the details shown: [id, value], or None
    edited,           \* the device whose values are in the form
    saving,           \* the buttons of the modal that are disabled
    crossed           \* history: a change was asked for while another was under way

shown == <<selectedDeviceId, selectedDevice, edited>>
modal == <<shown, saving>>

Changes == {"save", "rename", "revoke"}

DevicesInit ==
    /\ RequestsInit(<<>>)
    /\ row = [name |-> 0, devices |-> [d \in Devices |-> 0]]
    /\ visible = row
    /\ ecosystem = None
    /\ selectedDeviceId = None /\ selectedDevice = None /\ edited = None
    /\ saving = {}
    /\ crossed = FALSE

isOpen == ecosystem # None
displayedDevice == IF selectedDevice # None THEN selectedDevice.id ELSE selectedDeviceId

Loading(d, copy) == Ask("device", [id |-> d, fallback |-> copy.devices[d]])

-----------------------------------------------------------------------------
(* Variants with a bug the code could have, no part of Next.                *)

\* the effect that loads details depends on selectedDeviceId alone
ReloadsOnSelection(id, copy) ==
    IF id # selectedDeviceId THEN <<Loading(id, copy)>> ELSE <<>>

\* the list is left as it was when the modal was opened
UpdatedNotInList(d, value) == visible

-----------------------------------------------------------------------------
\* The effect of the modal: details are loaded again when another device is
\* selected or the array of devices is another one.
Reloads(id, copy) ==
    IF id # selectedDeviceId \/ copy.devices # ecosystem.devices
    THEN <<Loading(id, copy)>> ELSE <<>>

-----------------------------------------------------------------------------
(* devices.service and ecosystems.service                                   *)

DevicesServed(i) ==
    LET arg == pending[i].arg
    IN  /\ \/ /\ Waiting(i, "device")
              /\ Done(i, row.devices[arg.id]) \/ Fails(i)
              /\ UNCHANGED row
           \/ /\ Waiting(i, "revoke")
              /\ Done(i, None) \/ Fails(i)
              /\ UNCHANGED row
           \/ /\ Waiting(i, "save")
              /\ row' = [row EXCEPT !.devices[arg.id] = arg.value]
              /\ Done(i, None) \/ Fails(i)
           \/ /\ Waiting(i, "rename")
              /\ row' = [row EXCEPT !.name = arg.value]
              /\ Done(i, None) \/ Fails(i)
           \/ /\ Waiting(i, "save") \/ Waiting(i, "rename")
              /\ Fails(i)
              /\ UNCHANGED row
        /\ UNCHANGED <<visible, ecosystem, modal, crossed>>

-----------------------------------------------------------------------------
(* The modal is mounted and closed                                          *)

\* The effect of the first render loads the first device of the list, that of
\* the next one the device the modal was opened for.
Mounts(copy, d) ==
    <<Loading(FirstDevice, copy)>> \o (IF d = FirstDevice THEN <<>> ELSE <<Loading(d, copy)>>)

Mounted(copy, d) ==
    /\ ecosystem' = copy
    /\ selectedDeviceId' = d /\ edited' = d
    /\ selectedDevice' = [id |-> d, value |-> copy.devices[d]]
    /\ saving' = {}

\* Nothing that is loaded reaches a modal that is no longer mounted; a change
\* still reaches the page.
Unmounted ==
    /\ ecosystem' = None
    /\ selectedDeviceId' = None /\ selectedDevice' = None /\ edited' = None
    /\ saving' = {}

\* The changes among the requests go on, in their order, for a modal that is gone.
StillWanted(requests) ==
    LET wanted == {i \in DOMAIN requests : requests[i].op \in Changes}
    IN  \E n \in 0..Len(requests) : \E place \in [1..n -> wanted] :
          /\ wanted = {place[k] : k \in 1..n}
          /\ \A j, k \in 1..n : j < k => place[j] < place[k]
          /\ pending' = [k \in 1..n |-> [requests[place[k]] EXCEPT !.arg.mounted = FALSE]]

\* handleOpenEcosystemModal; d is the device clicked in the plan, or the first
OpenModal(d) ==
    /\ ~isOpen /\ visible # None
    /\ Mounted(visible, d)
    /\ Send(Mounts(visible, d))
    /\ Move
    /\ UNCHANGED <<row, visible, crossed>>

handleCloseEcosystemModal ==
    /\ isOpen
    /\ Unmounted
    /\ StillWanted(pending)
    /\ UNCHANGED <<moves, inOrder, failures, row, visible, crossed>>

-----------------------------------------------------------------------------
(* What the user does in it                                                 *)

handleSelectDevice(d) ==
    /\ isOpen /\ d # selectedDeviceId
    /\ selectedDeviceId' = d
    /\ Send(Reloads(d, ecosystem))
    /\ Move
    /\ UNCHANGED <<row, visible, ecosystem, selectedDevice, edited, saving, crossed>>

\* A change is asked for; its button is disabled until it is answered.
Change(op, arg) ==
    /\ isOpen /\ op \notin saving
    /\ Send(<<Ask(op, arg)>>)
    /\ saving' = saving \cup {op}
    /\ crossed' = (crossed \/ \E o \in Changes : AskedFor(o) # {})
    /\ Move
    /\ UNCHANGED <<row, visible, ecosystem, shown>>

\* The form goes to the device displayed.
handleSaveDeviceName ==
    Change("save", [mounted |-> TRUE, id |-> displayedDevice, form |-> edited,
                    value |-> moves + 1])

\* The copy of the moment of the click goes with it.
handleSaveEcosystemName ==
    Change("rename", [mounted |-> TRUE, copy |-> ecosystem, value |-> moves + 1])

handleConfirmRevoke == Change("revoke", [mounted |-> TRUE])

-----------------------------------------------------------------------------
(* Answers                                                                  *)

\* loadDeviceDetails: the form is filled with what came, or with the copy.  The
\* payload, which it asks for in between and can do without, is part of the wait.
DetailsArrive(i) ==
    LET arg == pending[i].arg
    IN  /\ pending[i].op = "device"
        /\ Receive(i, <<>>)
        /\ selectedDevice' = [id |-> arg.id,
                              value |-> IF Failed(i) THEN arg.fallback ELSE pending[i].reply]
        /\ edited' = arg.id
        /\ UNCHANGED <<row, visible, ecosystem, selectedDeviceId, saving, crossed>>

Released(i) == IF pending[i].arg.mounted THEN saving \ {pending[i].op} ELSE saving

Displays(device) ==
    selectedDevice' = device /\ UNCHANGED <<selectedDeviceId, edited>>

\* handleDeviceUpdated of the page, for its list
Updated(d, value) == IF visible = None THEN None ELSE [visible EXCEPT !.devices[d] = value]

\* The details are the answer, the form stays as it is; and since the array of
\* devices of the modal is another one, the selected device is loaded again.
SaveArrives(i) ==
    LET d == pending[i].arg.id
        value == pending[i].arg.value
        copy == [ecosystem EXCEPT !.devices[d] = value]
    IN  /\ pending[i].op = "save" /\ ~Failed(i)
        /\ visible' = Updated(d, value)
        /\ IF pending[i].arg.mounted
           THEN Displays([id |-> d, value |-> value])
           ELSE UNCHANGED shown
        /\ IF isOpen
           THEN ecosystem' = copy /\ Receive(i, Reloads(selectedDeviceId, copy))
           ELSE UNCHANGED ecosystem /\ Receive(i, <<>>)
        /\ saving' = Released(i)
        /\ UNCHANGED <<row, crossed>>

\* handleEcosystemUpdated gets the copy of the click with the new name.  It
\* shows that copy even when the modal has been closed, which opens it again.
RenameArrives(i) ==
    LET copy == [pending[i].arg.copy EXCEPT !.name = pending[i].arg.value]
    IN  /\ pending[i].op = "rename" /\ ~Failed(i)
        /\ visible' = IF visible = None THEN None ELSE copy
        /\ IF isOpen
           THEN /\ ecosystem' = copy
                /\ Receive(i, Reloads(selectedDeviceId, copy))
                /\ saving' = Released(i)
                /\ UNCHANGED shown
           ELSE Mounted(copy, FirstDevice) /\ Receive(i, Mounts(copy, FirstDevice))
        /\ UNCHANGED <<row, crossed>>

\* handleEcosystemRevoked and onClose
RevokeArrives(i) ==
    /\ pending[i].op = "revoke" /\ ~Failed(i) /\ Over(i)
    /\ visible' = None
    /\ Unmounted
    /\ StillWanted(Without(i))
    /\ inOrder' = (inOrder /\ i = 1)
    /\ UNCHANGED <<moves, failures, row, crossed>>

ChangeFails(i) ==
    /\ pending[i].op \in Changes /\ Failed(i)
    /\ Receive(i, <<>>)
    /\ saving' = Released(i)
    /\ UNCHANGED <<row, visible, ecosystem, shown, crossed>>

DevicesNext ==
    \/ \E i \in DOMAIN pending :
          \/ DevicesServed(i) \/ DetailsArrive(i)
          \/ SaveArrives(i) \/ RenameArrives(i) \/ RevokeArrives(i) \/ ChangeFails(i)
    \/ \E d \in Devices : OpenModal(d) \/ handleSelectDevice(d)
    \/ handleSaveDeviceName \/ handleSaveEcosystemName \/ handleConfirmRevoke
    \/ handleCloseEcosystemModal

-----------------------------------------------------------------------------
(* Properties                                                               *)

\* When nothing is under way and answers came in order, the modal shows the
\* device that is selected, with the values the service has, and its own
\* values in the form: what a save displays is replaced by the reload that
\* follows it.
ModalSettles ==
    Quiet /\ inOrder /\ ~failures /\ isOpen =>
        /\ selectedDevice = [id |-> selectedDeviceId, value |-> row.devices[selectedDeviceId]]
        /\ edited = selectedDeviceId

\* When nothing is under way, the list has what the service has, unless two
\* changes were under way at once: a renaming brings back the devices of the
\* moment it was asked for.
ListAgrees == Quiet /\ ~failures /\ ~crossed /\ visible # None => visible = row

=============================================================================
