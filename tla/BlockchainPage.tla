--------------------------- MODULE BlockchainPage ---------------------------
(***************************************************************************)
(* BlockchainManagementPage for a GLOBAL_ADMIN, with useBlockchainController *)
(* and RegisterChaincodeModal, over blockchain.controller of the           *)
(* blockchain-manager: registering a chaincode, replacing its listener and *)
(* deleting it are each several calls of FireFly, any of which may fail.   *)
(*                                                                         *)
(* FireFly is external: it keeps APIs by name and listeners by location.   *)
(* The APIs here are of one location: they speak to the same chaincode.    *)
(***************************************************************************)
EXTENDS PageRequests, FiniteSets

CONSTANTS Apis   \* names of APIs

VARIABLES
    registered,       \* FireFly: APIs
    listeners,        \* FireFly: listeners of the location, each by its registration
    smartContracts,   \* the page's copy of the APIs
    selectedContract, \* the one whose details are shown
    interfaceOf,      \* the one whose interface is shown with them
    formOpen,         \* "register" or "upgrade": the RegisterChaincodeModal that is open
    submitting,       \* isLoading of the two of them
    confirmDelete,    \* the API of the dialog that deletes
    raced,            \* history: two calls that write in FireFly overlapped
    stopped           \* history: FireFly has refused a step of one

firefly == <<registered, listeners>>
dialogs == <<selectedContract, interfaceOf, formOpen, submitting, confirmDelete>>

\* refreshNetworkData; the other seven requests of the page only display
ForContracts == <<Ask("contracts", None)>>

\* an API that is there has a listener
BlockchainInit ==
    /\ RequestsInit(ForContracts)
    /\ registered \in SUBSET Apis
    /\ listeners = IF registered = {} THEN {} ELSE {0}
    /\ smartContracts = {}
    /\ selectedContract = None /\ interfaceOf = None
    /\ formOpen = None /\ submitting = {} /\ confirmDelete = None
    /\ raced = FALSE /\ stopped = FALSE

-----------------------------------------------------------------------------
(* Variants with a bug the code could have, no part of Next.                *)

\* a registration leaves the listeners that are there
ToClearNothing == {}

\* the page does not load the contracts again after a registration
AfterFormNothing == <<>>

\* an interface is asked for only while none is there
FetchOnce(a) == IF interfaceOf = None THEN <<Ask("interface", a)>> ELSE <<>>

-----------------------------------------------------------------------------
(* blockchain.controller                                                    *)

Running(i) == pending[i].stage \in {"list", "clear"}

\* a call of FireFly for request i
Step(i) ==
    /\ raced' = (raced \/ \E j \in DOMAIN pending \ {i} : Running(j))
    /\ UNCHANGED <<smartContracts, dialogs>>

Refused(i) == Fails(i) /\ stopped' = TRUE

\* registerContractInterface and registerApi, when there is a definition
RegisterApi(i) ==
    LET arg == pending[i].arg
    IN  /\ Waiting(i, "register")
        /\ \/ /\ Serve(i, "list", None)
              /\ registered' = IF arg.ffi THEN registered \cup {arg.api} ELSE registered
              /\ UNCHANGED stopped
           \/ Refused(i) /\ UNCHANGED registered
        /\ UNCHANGED listeners
        /\ Step(i)

\* deleteChaincode looks for the API first
FindApi(i) ==
    /\ Waiting(i, "delete")
    /\ \/ pending[i].arg.api \in registered /\ Serve(i, "list", None) /\ UNCHANGED stopped
       \/ Refused(i)
    /\ UNCHANGED firefly
    /\ Step(i)

\* what a call is going to delete of what getContractListenersByLocation returns
ToClear == listeners

ListListeners(i) ==
    /\ pending[i].stage = "list"
    /\ \/ Serve(i, "clear", ToClear) /\ UNCHANGED stopped
       \/ Refused(i)
    /\ UNCHANGED firefly
    /\ Step(i)

\* a round of the loop of deleteContractListener, which swallows its failure
ClearListener(i) ==
    /\ pending[i].stage = "clear"
    /\ \E l \in pending[i].reply :
          /\ Serve(i, "clear", pending[i].reply \ {l})
          /\ \/ listeners' = listeners \ {l} /\ UNCHANGED stopped
             \/ UNCHANGED listeners /\ stopped' = TRUE
    /\ UNCHANGED registered
    /\ Step(i)

\* registerEventListener, or deleteContractApi
FinishCall(i) ==
    LET arg == pending[i].arg
    IN  /\ pending[i].stage = "clear" /\ pending[i].reply = {}
        /\ \/ /\ Done(i, None)
              /\ IF pending[i].op = "register"
                 THEN listeners' = listeners \cup {arg.id} /\ UNCHANGED registered
                 ELSE registered' = registered \ {arg.api} /\ UNCHANGED listeners
              /\ UNCHANGED stopped
           \/ Refused(i) /\ UNCHANGED firefly
        /\ Step(i)

\* getContracts and getContractInterface
BlockchainRead(i) ==
    /\ \/ Waiting(i, "contracts") /\ Done(i, registered)
       \/ Waiting(i, "interface") /\ pending[i].arg \in registered /\ Done(i, None)
       \/ pending[i].op \in {"contracts", "interface"} /\ ~Over(i) /\ Fails(i)
    /\ UNCHANGED <<firefly, stopped>>
    /\ Step(i)

BlockchainServed(i) ==
    \/ RegisterApi(i) \/ FindApi(i) \/ ListListeners(i) \/ ClearListener(i) \/ FinishCall(i)
    \/ BlockchainRead(i)

-----------------------------------------------------------------------------
(* The contracts and their details                                          *)

Page == UNCHANGED <<firefly, raced, stopped>>

\* getSmartContracts returns an empty list when it fails
ContractsArrive(i) ==
    /\ pending[i].op = "contracts"
    /\ smartContracts' = IF Failed(i) THEN {} ELSE pending[i].reply
    /\ Receive(i, <<>>)
    /\ Page /\ UNCHANGED dialogs

Fetch(a) == <<Ask("interface", a)>>

\* A row: the details cover the page until they are closed.
handleContractClick(a) ==
    /\ a \in smartContracts
    /\ selectedContract = None /\ formOpen = None
    /\ selectedContract' = a /\ interfaceOf' = None
    /\ Send(Fetch(a))
    /\ Move
    /\ Page /\ UNCHANGED <<smartContracts, formOpen, submitting, confirmDelete>>

\* The interface that arrives is shown, whichever contract is open.
InterfaceArrives(i) ==
    /\ pending[i].op = "interface"
    /\ interfaceOf' = IF Failed(i) THEN None ELSE pending[i].arg
    /\ Receive(i, <<>>)
    /\ Page /\ UNCHANGED <<smartContracts, selectedContract, formOpen, submitting, confirmDelete>>

CloseDetails ==
    /\ selectedContract # None /\ formOpen = None /\ confirmDelete = None
    /\ selectedContract' = None
    /\ Page /\ UNCHANGED <<requestVars, smartContracts, interfaceOf, formOpen, submitting, confirmDelete>>

-----------------------------------------------------------------------------
(* RegisterChaincodeModal                                                   *)

OpenForm ==
    /\ formOpen = None /\ confirmDelete = None
    /\ formOpen' = IF selectedContract = None THEN "register" ELSE "upgrade"
    /\ Page /\ UNCHANGED <<requestVars, smartContracts, selectedContract, interfaceOf, submitting,
                           confirmDelete>>

\* handleClose; the timer that follows a success closes it as well, even when it
\* has been opened again
CloseForm ==
    /\ formOpen # None
    /\ formOpen' = None
    /\ Page /\ UNCHANGED <<requestVars, smartContracts, selectedContract, interfaceOf, submitting,
                           confirmDelete>>

\* A new API comes with a definition, an update may leave it out.  The id is of
\* the listener that is registered.
handleSubmit(a, ffi) ==
    /\ formOpen # None /\ formOpen \notin submitting
    /\ IF formOpen = "register" THEN ffi ELSE a = selectedContract
    /\ submitting' = submitting \cup {formOpen}
    /\ Send(<<Ask("register", [form |-> formOpen, api |-> a, ffi |-> ffi, id |-> moves + 1])>>)
    /\ Move
    /\ Page /\ UNCHANGED <<smartContracts, selectedContract, interfaceOf, formOpen, confirmDelete>>

\* onSuccess of the page
AfterForm == ForContracts

RegisterArrives(i) ==
    LET form == pending[i].arg.form
    IN  /\ pending[i].op = "register"
        /\ submitting' = submitting \ {form}
        /\ Receive(i, IF Failed(i) THEN <<>> ELSE AfterForm)
        /\ IF form = "upgrade" /\ ~Failed(i)
           THEN /\ selectedContract' = None
                /\ formOpen' = IF formOpen = "upgrade" THEN None ELSE formOpen
           ELSE UNCHANGED <<selectedContract, formOpen>>
        /\ Page /\ UNCHANGED <<smartContracts, interfaceOf, confirmDelete>>

-----------------------------------------------------------------------------
(* The dialog that deletes                                                  *)

PromptDelete ==
    /\ selectedContract # None /\ formOpen = None /\ confirmDelete = None
    /\ confirmDelete' = selectedContract
    /\ Page /\ UNCHANGED <<requestVars, smartContracts, selectedContract, interfaceOf, formOpen, submitting>>

CancelDelete ==
    /\ confirmDelete # None
    /\ confirmDelete' = None
    /\ Page /\ UNCHANGED <<requestVars, smartContracts, selectedContract, interfaceOf, formOpen, submitting>>

\* The button stays: nothing tells that a deletion is under way.
ConfirmDelete ==
    /\ confirmDelete # None
    /\ Send(<<Ask("delete", [api |-> confirmDelete])>>)
    /\ Move
    /\ Page /\ UNCHANGED <<smartContracts, dialogs>>

\* A failure is not told; a success closes whatever details are open.
DeleteArrives(i) ==
    /\ pending[i].op = "delete"
    /\ confirmDelete' = None
    /\ selectedContract' = IF Failed(i) THEN selectedContract ELSE None
    /\ Receive(i, IF Failed(i) THEN <<>> ELSE ForContracts)
    /\ Page /\ UNCHANGED <<smartContracts, interfaceOf, formOpen, submitting>>

BlockchainNext ==
    \/ \E i \in DOMAIN pending :
          \/ BlockchainServed(i)
          \/ ContractsArrive(i) \/ InterfaceArrives(i) \/ RegisterArrives(i) \/ DeleteArrives(i)
    \/ \E a \in Apis : handleContractClick(a) \/ \E ffi \in BOOLEAN : handleSubmit(a, ffi)
    \/ CloseDetails \/ OpenForm \/ CloseForm \/ PromptDelete \/ CancelDelete \/ ConfirmDelete

-----------------------------------------------------------------------------
(* Properties                                                               *)

\* The events of a chaincode are listened to at most once, unless two calls
\* overlapped or FireFly has refused a step of one: what is there is deleted
\* before a listener is added.
OneListener == ~raced /\ ~stopped => Cardinality(listeners) <= 1

\* When nothing is under way and answers came in order, the page lists the APIs
\* FireFly has: every call that changes them loads the list again.
ContractsAgree == Quiet /\ inOrder /\ ~failures => smartContracts = registered

\* When nothing is under way and answers came in order, the interface that is
\* shown is that of the contract it is shown with.
InterfaceIsTheirs ==
    Quiet /\ inOrder /\ ~failures /\ selectedContract # None => interfaceOf = selectedContract

=============================================================================
