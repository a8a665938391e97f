--------------------------- MODULE TelemetryIngest ---------------------------
(***************************************************************************)
(* One telemetry record on its way from a device to the Fabric ledger:     *)
(* the POST /v1/ingest handler of iot-manager, the signing endpoint of the *)
(* auth service, FireFly, and the telemetry chaincode.  Every await of the *)
(* handler separates two actions, so handlers of different requests, the   *)
(* revocation of an ecosystem, the ledger and a crash interleave freely.   *)
(*                                                                         *)
(* A request stands for the one document its handler inserts: the handler  *)
(* draws a fresh telemetryId, so a device that retries makes a new request *)
(* and two requests may carry the same payload (HashOf).                   *)
(***************************************************************************)
EXTENDS FiniteSets

CONSTANTS
    Requests,     \* executions of the ingest handler, and their telemetryIds
    Ecosystems,
    Hashes,       \* SHA-256 of payload and GPS position
    EcoOf,        \* the ecosystem whose API key a request carries
    HashOf,       \* the hash of a request's payload
    TxIds,        \* Fabric transactions: bounds the executions of the chaincode
    None          \* '' in a document, an absent key in the world state

ASSUME BodyAssumption ==
    /\ EcoOf \in [Requests -> Ecosystems]
    /\ HashOf \in [Requests -> Hashes]

\* auth signs a hash with the private key of the ecosystem's identity
Signatures == [key : Ecosystems, hash : Hashes]

ASSUME NoneAssumption ==
    /\ None \notin Requests
    /\ None \notin TxIds
    /\ None \notin Signatures

VARIABLES
    ecoStatus,    \* auth database: status of each ecosystem
    keyCache,     \* Redis: ecosystems whose API key has a positive entry
    pc,           \* where each handler stands
    signature,    \* the handler's local signature
    reply,        \* what the device was told
    doc,          \* MongoDB: anchor metadata of the document of each request
    op,           \* FireFly: the invoke operation of each request
    txs,          \* Fabric: transactions between endorsement and commit
    ledger,       \* world state of the telemetry chaincode, keyed by ingestId
    index,        \* its ecosystem.Anchor composite keys
    late          \* history: requests let in after their ecosystem was revoked

iotVars == <<pc, signature, reply, doc>>
fabricVars == <<txs, ledger, index>>
vars == <<ecoStatus, keyCache, iotVars, op, fabricVars, late>>

Sign(r) == [key |-> EcoOf[r], hash |-> HashOf[r]]

Waiting == {"saving", "signing", "anchoring", "awaiting", "recording",
            "signFailed", "broadcastFailed"}
Replies == {"none", "202", "401", "503", "SIGNING_FAILED", "BROADCAST_FAILED",
            "500"}

TypeOK ==
    /\ ecoStatus \in [Ecosystems -> {"ACTIVE", "REVOKED"}]
    /\ keyCache \subseteq Ecosystems
    /\ pc \in [Requests -> Waiting \cup {"idle", "done", "crashed"}]
    /\ signature \in [Requests -> Signatures \cup {None}]
    /\ reply \in [Requests -> Replies]
    /\ doc \in [Requests ->
          [status : {"ABSENT", "PENDING_ANCHOR", "ANCHORED", "FAILED"},
           sig : Signatures \cup {None}]]
    /\ op \in [Requests -> [state : {"none", "sent", "accepted", "refused"},
                            sig : Signatures \cup {None}]]
    /\ txs \in [TxIds -> [state : {"unused", "endorsed", "valid", "invalid"},
                          ingest : Requests \cup {None},
                          read : TxIds \cup {None}]]
    /\ ledger \in [Requests -> [tx : TxIds \cup {None},
                                sig : Signatures \cup {None}]]
    /\ index \subseteq Ecosystems \X TxIds \X Requests
    /\ late \subseteq Requests

Init ==
    /\ ecoStatus = [e \in Ecosystems |-> "ACTIVE"]
    /\ keyCache = {}
    /\ pc = [r \in Requests |-> "idle"]
    /\ signature = [r \in Requests |-> None]
    /\ reply = [r \in Requests |-> "none"]
    /\ doc = [r \in Requests |-> [status |-> "ABSENT", sig |-> None]]
    /\ op = [r \in Requests |-> [state |-> "none", sig |-> None]]
    /\ txs = [t \in TxIds |-> [state |-> "unused", ingest |-> None, read |-> None]]
    /\ ledger = [r \in Requests |-> [tx |-> None, sig |-> None]]
    /\ index = {}
    /\ late = {}

Goto(r, l) == pc' = [pc EXCEPT ![r] = l]
Answer(r, a) == Goto(r, "done") /\ reply' = [reply EXCEPT ![r] = a]
SetDoc(r, s, g) == doc' = [doc EXCEPT ![r] = [status |-> s, sig |-> g]]

-----------------------------------------------------------------------------
(* Variants of the actions below, each with a bug its code could have.  They *)
(* are no part of Next: a run with one of them in place of its action shows  *)
(* that a property would catch the bug.                                      *)

\* an error of the insert is logged and the handler goes on
SaveErrorSwallowed(r) ==
    /\ pc[r] = "saving"
    /\ UNCHANGED doc \/ SetDoc(r, "PENDING_ANCHOR", None)
    /\ Goto(r, "signing")
    /\ UNCHANGED <<ecoStatus, keyCache, signature, reply, op, fabricVars, late>>

\* signHash does not look at the status of the ecosystem
SignHashUnchecked(r) ==
    /\ pc[r] = "signing"
    /\ signature' = [signature EXCEPT ![r] = Sign(r)]
    /\ Goto(r, "anchoring")
    /\ UNCHANGED <<ecoStatus, keyCache, reply, doc, op, fabricVars, late>>

\* the invoke is sent without awaiting its answer
SendInvokeUnawaited(r) ==
    /\ pc[r] = "anchoring"
    /\ op' = [op EXCEPT ![r] = [state |-> "sent", sig |-> signature[r]]]
    /\ Goto(r, "recording")
    /\ UNCHANGED <<ecoStatus, keyCache, signature, reply, doc, fabricVars, late>>

\* response.ok is not tested
InvokeAnsweredUnchecked(r) ==
    /\ pc[r] = "awaiting"
    /\ op[r].state \in {"accepted", "refused"}
    /\ Goto(r, "recording")
    /\ UNCHANGED <<ecoStatus, keyCache, signature, reply, doc, op, fabricVars, late>>

\* the request to FireFly has no time limit
InvokeFailsOnRefusalOnly(r) ==
    /\ pc[r] = "awaiting"
    /\ op[r].state = "refused"
    /\ Goto(r, "broadcastFailed")
    /\ UNCHANGED <<ecoStatus, keyCache, signature, reply, doc, op, fabricVars, late>>

\* the chaincode does not look for an anchor with the same ingestId
AnchorTelemetryUnchecked(r, t) ==
    /\ op[r].state = "accepted"
    /\ op[r].sig # None
    /\ txs[t].state = "unused"
    /\ txs' = [txs EXCEPT ![t] = [state |-> "endorsed", ingest |-> r,
                                  read |-> ledger[r].tx]]
    /\ UNCHANGED <<ecoStatus, keyCache, iotVars, op, ledger, index, late>>

-----------------------------------------------------------------------------
(* The preHandler.  A positive cache entry lets a request in without asking *)
(* auth, whatever has happened to the ecosystem since; Redis may be down,   *)
(* in which case auth decides.  The time to live is a step of its own.      *)

RevokeEcosystem(e) ==
    /\ ecoStatus[e] = "ACTIVE"
    /\ ecoStatus' = [ecoStatus EXCEPT ![e] = "REVOKED"]
    /\ UNCHANGED <<keyCache, iotVars, op, fabricVars, late>>

KeyExpires(e) ==
    /\ e \in keyCache
    /\ keyCache' = keyCache \ {e}
    /\ UNCHANGED <<ecoStatus, iotVars, op, fabricVars, late>>

LetIn(r) ==
    /\ pc[r] = "idle"
    /\ \/ EcoOf[r] \in keyCache /\ UNCHANGED keyCache
       \/ /\ ecoStatus[EcoOf[r]] = "ACTIVE"
          /\ keyCache' \in {keyCache, keyCache \cup {EcoOf[r]}}
    /\ Goto(r, "saving")
    /\ late' = IF ecoStatus[EcoOf[r]] = "REVOKED" THEN late \cup {r} ELSE late
    /\ UNCHANGED <<ecoStatus, signature, reply, doc, op, fabricVars>>

TurnAway(r) ==
    /\ pc[r] = "idle"
    /\ \/ ecoStatus[EcoOf[r]] = "REVOKED" /\ Answer(r, "401")
       \/ Answer(r, "503")
    /\ UNCHANGED <<ecoStatus, keyCache, signature, doc, op, fabricVars, late>>

-----------------------------------------------------------------------------
(* The handler.  A database write that throws may or may not have been      *)
(* applied; nothing catches it, so the device gets a plain 500.             *)

Save(r) ==
    /\ pc[r] = "saving"
    /\ SetDoc(r, "PENDING_ANCHOR", None)
    /\ Goto(r, "signing")
    /\ UNCHANGED <<ecoStatus, keyCache, signature, reply, op, fabricVars, late>>

SaveFails(r) ==
    /\ pc[r] = "saving"
    /\ UNCHANGED doc \/ SetDoc(r, "PENDING_ANCHOR", None)
    /\ Answer(r, "500")
    /\ UNCHANGED <<ecoStatus, keyCache, signature, op, fabricVars, late>>

\* signHash: only the identity of an ACTIVE ecosystem signs
SignHash(r) ==
    /\ pc[r] = "signing"
    /\ ecoStatus[EcoOf[r]] = "ACTIVE"
    /\ signature' = [signature EXCEPT ![r] = Sign(r)]
    /\ Goto(r, "anchoring")
    /\ UNCHANGED <<ecoStatus, keyCache, reply, doc, op, fabricVars, late>>

\* auth refuses, fails, or its answer is lost
SignFails(r) ==
    /\ pc[r] = "signing"
    /\ Goto(r, "signFailed")
    /\ UNCHANGED <<ecoStatus, keyCache, signature, reply, doc, op, fabricVars, late>>

SendInvoke(r) ==
    /\ pc[r] = "anchoring"
    /\ op' = [op EXCEPT ![r] = [state |-> "sent", sig |-> signature[r]]]
    /\ Goto(r, "awaiting")
    /\ UNCHANGED <<ecoStatus, keyCache, signature, reply, doc, fabricVars, late>>

\* FireFly answers with the id of an operation it has only queued
InvokeAnswered(r) ==
    /\ pc[r] = "awaiting"
    /\ op[r].state = "accepted"
    /\ Goto(r, "recording")
    /\ UNCHANGED <<ecoStatus, keyCache, signature, reply, doc, op, fabricVars, late>>

\* refused, unreachable, or accepted with the answer lost: never retried
InvokeFails(r) ==
    /\ pc[r] = "awaiting"
    /\ Goto(r, "broadcastFailed")
    /\ UNCHANGED <<ecoStatus, keyCache, signature, reply, doc, op, fabricVars, late>>

MarkAnchored(r) ==
    /\ pc[r] = "recording"
    /\ SetDoc(r, "ANCHORED", signature[r])
    /\ Answer(r, "202")
    /\ UNCHANGED <<ecoStatus, keyCache, signature, op, fabricVars, late>>

MarkFailed(r) ==
    /\ \/ pc[r] = "signFailed" /\ Answer(r, "SIGNING_FAILED")
       \/ pc[r] = "broadcastFailed" /\ Answer(r, "BROADCAST_FAILED")
    /\ SetDoc(r, "FAILED", None)
    /\ UNCHANGED <<ecoStatus, keyCache, signature, op, fabricVars, late>>

\* updateAnchorStatus throws
MarkThrows(r) ==
    /\ pc[r] \in {"recording", "signFailed", "broadcastFailed"}
    /\ \/ UNCHANGED doc
       \/ pc[r] = "recording" /\ SetDoc(r, "ANCHORED", signature[r])
       \/ pc[r] # "recording" /\ SetDoc(r, "FAILED", None)
    /\ Answer(r, "500")
    /\ UNCHANGED <<ecoStatus, keyCache, signature, op, fabricVars, late>>

\* iot-manager restarts: nothing looks for documents left PENDING_ANCHOR
Crash ==
    /\ \E r \in Requests : pc[r] \in Waiting
    /\ pc' = [r \in Requests |-> IF pc[r] \in Waiting THEN "crashed" ELSE pc[r]]
    /\ signature' = [r \in Requests |->
                        IF pc[r] \in Waiting THEN None ELSE signature[r]]
    /\ UNCHANGED <<ecoStatus, keyCache, reply, doc, op, fabricVars, late>>

-----------------------------------------------------------------------------
(* FireFly and Fabric.  An accepted operation may be submitted again, so the *)
(* chaincode can run several times for one ingestId, and each run reads the  *)
(* world state at endorsement but writes at commit, if no other transaction  *)
(* wrote what it read.                                                       *)

FireFlyAccepts(r) ==
    /\ op[r].state = "sent"
    /\ op' = [op EXCEPT ![r].state = "accepted"]
    /\ UNCHANGED <<ecoStatus, keyCache, iotVars, fabricVars, late>>

FireFlyRefuses(r) ==
    /\ op[r].state = "sent"
    /\ op' = [op EXCEPT ![r].state = "refused"]
    /\ UNCHANGED <<ecoStatus, keyCache, iotVars, fabricVars, late>>

\* AnchorTelemetry: a signature is mandatory, an existing ingestId an error
AnchorTelemetry(r, t) ==
    /\ op[r].state = "accepted"
    /\ op[r].sig # None
    /\ ledger[r].tx = None
    /\ txs[t].state = "unused"
    /\ txs' = [txs EXCEPT ![t] = [state |-> "endorsed", ingest |-> r,
                                  read |-> ledger[r].tx]]
    /\ UNCHANGED <<ecoStatus, keyCache, iotVars, op, ledger, index, late>>

Commit(t) ==
    /\ txs[t].state = "endorsed"
    /\ \E r \in Requests :
        /\ r = txs[t].ingest
        /\ \/ /\ ledger[r].tx = txs[t].read
              /\ txs' = [txs EXCEPT ![t].state = "valid"]
              /\ ledger' = [ledger EXCEPT ![r] = [tx |-> t, sig |-> op[r].sig]]
              /\ index' = index \cup {<<EcoOf[r], t, r>>}
           \/ /\ ledger[r].tx # txs[t].read
              /\ txs' = [txs EXCEPT ![t].state = "invalid"]
              /\ UNCHANGED <<ledger, index>>
    /\ UNCHANGED <<ecoStatus, keyCache, iotVars, op, late>>

\* endorsers disagree (each stamps its own time.Now) or the orderer drops it
Discard(t) ==
    /\ txs[t].state = "endorsed"
    /\ txs' = [txs EXCEPT ![t].state = "invalid"]
    /\ UNCHANGED <<ecoStatus, keyCache, iotVars, op, ledger, index, late>>

-----------------------------------------------------------------------------
Handler(r) ==
    \/ Save(r) \/ SaveFails(r) \/ SignHash(r) \/ SignFails(r)
    \/ SendInvoke(r) \/ InvokeAnswered(r) \/ InvokeFails(r)
    \/ MarkAnchored(r) \/ MarkFailed(r) \/ MarkThrows(r)

Next ==
    \/ \E e \in Ecosystems : RevokeEcosystem(e) \/ KeyExpires(e)
    \/ \E r \in Requests :
          \/ LetIn(r) \/ TurnAway(r) \/ Handler(r)
          \/ FireFlyAccepts(r) \/ FireFlyRefuses(r)
          \/ \E t \in TxIds : AnchorTelemetry(r, t)
    \/ \E t \in TxIds : Commit(t) \/ Discard(t)
    \/ Crash

Spec == Init /\ [][Next]_vars

\* A handler that is waiting settles: Node runs its continuation, and every
\* await it makes ends in an answer or an exception (connection error, the
\* HTTP client's and the MongoDB driver's default timeouts).  Nothing is
\* assumed of FireFly, Fabric, the devices or the ecosystem's owner.
FairSpec == Spec /\ \A r \in Requests : WF_vars(Handler(r))

-----------------------------------------------------------------------------
(* Properties.                                                              *)

OnLedger(r) == ledger[r].tx # None

\* A 202 is only sent when the document is ANCHORED with a signature and
\* FireFly holds an operation carrying that same signature (the handler's
\* last update comes before its reply, index.ts).
AckImpliesAnchored ==
    \A r \in Requests : reply[r] = "202" =>
        /\ doc[r].status = "ANCHORED"
        /\ op[r].state = "accepted"
        /\ doc[r].sig = op[r].sig

\* What is on the ledger was stored before, under the same ingestId, and is
\* signed with the key of the document's own ecosystem over its own hash; a
\* document that is ANCHORED carries the same signature: an auditor can match
\* every anchor with a document.
LedgerMatchesStore ==
    \A r \in Requests : OnLedger(r) =>
        /\ doc[r].status # "ABSENT"
        /\ ledger[r].sig = Sign(r)
        /\ doc[r].status = "ANCHORED" => doc[r].sig = ledger[r].sig

\* An API key kept in the cache after its ecosystem was revoked still lets
\* requests in, but none of them is ever marked ANCHORED or reaches Fabric:
\* the status check of signHash is the only thing that stops them.
StaleKeyNeverAnchors ==
    \A r \in late : doc[r].status # "ANCHORED" /\ op[r].state = "none"

\* SIGNING_FAILED tells the device that nothing was broadcast: sending the
\* reading again cannot put it on the ledger twice because of this request.
SigningFailureIsClean ==
    \A r \in Requests : reply[r] = "SIGNING_FAILED" =>
        op[r].state = "none" /\ ~OnLedger(r)

\* The composite keys QueryByEcosystem walks are exactly those of the anchors
\* in the world state: one per anchor, under the ecosystem that owns it.
IndexMatchesWorldState ==
    index = {<<EcoOf[r], ledger[r].tx, r>> : r \in {q \in Requests : OnLedger(q)}}

\* A document that is ANCHORED or FAILED never changes again, and an anchor is
\* never overwritten, however often FireFly submits the operation.
SettledForGood ==
    [][\A r \in Requests :
        /\ doc[r].status \in {"ANCHORED", "FAILED"} => doc'[r] = doc[r]
        /\ OnLedger(r) => ledger'[r] = ledger[r]]_vars

\* Whatever the other services do, a request that was let in is answered,
\* unless iot-manager stops first.
LetInIsAnswered ==
    \A r \in Requests : pc[r] \in Waiting ~> pc[r] \in {"done", "crashed"}

\* The pipeline implements its abstract specification.
RecordAt(r) ==
    CASE doc[r].status = "ABSENT" -> "absent"
      [] doc[r].status = "PENDING_ANCHOR" -> "pending"
      [] doc[r].status = "ANCHORED" -> "anchored"
      [] doc[r].status = "FAILED" -> "failed"

ChainAt(r) ==
    CASE OnLedger(r) -> "anchored"
      [] ~OnLedger(r) /\ op[r].state = "accepted" -> "taken"
      [] ~OnLedger(r) /\ op[r].state \in {"sent", "refused"} -> "submitted"
      [] ~OnLedger(r) /\ op[r].state = "none" -> "none"

A == INSTANCE TelemetryAnchoring
        WITH Ingests <- Requests,
             record <- [r \in Requests |-> RecordAt(r)],
             chain <- [r \in Requests |-> ChainAt(r)]

\* Every step of the pipeline is a step of TelemetryAnchoring or changes
\* nothing it can see.
ImplementsAnchoring == A!ASpec

=============================================================================
