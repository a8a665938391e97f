-------------------------- MODULE AnchoringProofs --------------------------
(***************************************************************************)
(* Proofs about the two ways to the ledger: TelemetryIngest, for every set *)
(* of requests, ecosystems, hashes and transactions, and ActionsAnchor,    *)
(* for every set of actions, every number of retries and both settings of  *)
(* BLOCKCHAIN_ANCHOR_BLOCKING.                                             *)
(***************************************************************************)
EXTENDS TelemetryIngest, ActionsAnchor, TLAPS

-----------------------------------------------------------------------------
(* The telemetry: the inductive invariant.                                  *)

\* What the place of a handler says about the rest: documents are pending
\* exactly while it works, the operation exists once it was sent.
Control(r) ==
    /\ pc[r] \in {"idle", "saving"} => doc[r].status = "ABSENT"
    /\ pc[r] \in Waiting \ {"saving"} => doc[r].status = "PENDING_ANCHOR"
    /\ doc[r].status \in {"ANCHORED", "FAILED"} => pc[r] = "done"
    /\ pc[r] \in {"idle", "saving", "signing", "anchoring", "signFailed"} =>
          op[r].state = "none"
    /\ pc[r] \in {"anchoring", "awaiting", "recording"} => signature[r] = Sign(r)
    /\ pc[r] = "recording" => op[r].state = "accepted"

\* What was told to the device still holds.
Told(r) ==
    /\ reply[r] # "none" => pc[r] = "done"
    /\ reply[r] = "202" => doc[r].status = "ANCHORED"
    /\ reply[r] = "SIGNING_FAILED" => op[r].state = "none"

\* Signatures are the request's own, wherever they have got to.
Signed(r) ==
    /\ op[r].state # "none" => op[r].sig = Sign(r) /\ doc[r].status # "ABSENT"
    /\ doc[r].status = "ANCHORED" => op[r].state = "accepted" /\ doc[r].sig = Sign(r)
    /\ OnLedger(r) => op[r].state = "accepted" /\ ledger[r].sig = Sign(r)

\* A request let in late never passes the signing step.
Late(r) ==
    r \in late =>
        /\ ecoStatus[EcoOf[r]] = "REVOKED"
        /\ op[r].state = "none"
        /\ pc[r] \notin {"idle", "anchoring", "awaiting", "recording"}

\* A transaction between endorsement and commit read an absent key.
InFlight(t) ==
    txs[t].state = "endorsed" =>
        /\ txs[t].ingest \in Requests
        /\ txs[t].read = None
        /\ op[txs[t].ingest].state = "accepted"

IInv ==
    /\ TypeOK
    /\ \A r \in Requests : Control(r) /\ Told(r) /\ Signed(r) /\ Late(r)
    /\ \A t \in TxIds : InFlight(t)
    /\ IndexMatchesWorldState

-----------------------------------------------------------------------------
\* What signHash returns is a signature.
LEMMA SignTyped == \A r \in Requests : Sign(r) \in Signatures /\ Sign(r) # None
  BY BodyAssumption, NoneAssumption DEF Sign, Signatures

\* The initial state satisfies the invariant.
LEMMA InitIInv == Init => IInv
  BY DEF Init, IInv, TypeOK, Control, Told, Signed, Late, InFlight,
         IndexMatchesWorldState, OnLedger, Waiting, Replies

\* The types of a transaction and of an operation whose state changes.
LEMMA TxState ==
    ASSUME TypeOK, NEW t \in TxIds, NEW s \in {"valid", "invalid"}
    PROVE  [txs EXCEPT ![t].state = s] \in
               [TxIds -> [state : {"unused", "endorsed", "valid", "invalid"},
                          ingest : Requests \cup {None}, read : TxIds \cup {None}]]
<1>1. /\ txs[t] \in [state : {"unused", "endorsed", "valid", "invalid"},
                      ingest : Requests \cup {None}, read : TxIds \cup {None}]
      /\ txs \in [TxIds -> [state : {"unused", "endorsed", "valid", "invalid"},
                            ingest : Requests \cup {None}, read : TxIds \cup {None}]]
  BY DEF TypeOK
<1>2. [txs[t] EXCEPT !.state = s] \in
          [state : {"unused", "endorsed", "valid", "invalid"},
           ingest : Requests \cup {None}, read : TxIds \cup {None}]
  BY <1>1
<1> QED BY <1>1, <1>2

LEMMA OpState ==
    ASSUME TypeOK, NEW r \in Requests, NEW s \in {"accepted", "refused"}
    PROVE  [op EXCEPT ![r].state = s] \in
               [Requests -> [state : {"none", "sent", "accepted", "refused"},
                             sig : Signatures \cup {None}]]
<1>1. /\ op[r] \in [state : {"none", "sent", "accepted", "refused"},
                     sig : Signatures \cup {None}]
      /\ op \in [Requests -> [state : {"none", "sent", "accepted", "refused"},
                              sig : Signatures \cup {None}]]
  BY DEF TypeOK
<1>2. [op[r] EXCEPT !.state = s] \in
          [state : {"none", "sent", "accepted", "refused"}, sig : Signatures \cup {None}]
  BY <1>1
<1> QED BY <1>1, <1>2

\* Every step keeps the types.
LEMMA StepType == TypeOK /\ [Next]_vars => TypeOK'
<1> SUFFICES ASSUME TypeOK, [Next]_vars PROVE TypeOK'
  OBVIOUS
<1> USE DEF TypeOK
<1>1. CASE UNCHANGED vars
  BY <1>1 DEF vars, iotVars, fabricVars
<1>2. ASSUME NEW e \in Ecosystems, RevokeEcosystem(e) \/ KeyExpires(e)
      PROVE  TypeOK'
  BY <1>2 DEF RevokeEcosystem, KeyExpires, iotVars, fabricVars
<1>3. ASSUME NEW r \in Requests, LetIn(r)
      PROVE  TypeOK'
  <2>1. keyCache' \subseteq Ecosystems /\ late' \subseteq Requests
    BY <1>3, BodyAssumption DEF LetIn
  <2> QED BY <1>3, <2>1 DEF LetIn, Goto, fabricVars, Waiting
<1>4. ASSUME NEW r \in Requests, TurnAway(r)
      PROVE  TypeOK'
  BY <1>4 DEF TurnAway, Goto, Answer, iotVars, fabricVars, Replies
<1>5. ASSUME NEW r \in Requests, Handler(r)
      PROVE  TypeOK'
  <2> USE DEF Goto, SetDoc, fabricVars
  <2>1. CASE Save(r)
    BY <2>1 DEF Save, Waiting
  <2>2. CASE SaveFails(r)
    <3>1. CASE UNCHANGED doc
      BY <2>2, <3>1 DEF SaveFails, Answer, Replies
    <3>2. CASE SetDoc(r, "PENDING_ANCHOR", None)
      <4>1. [status |-> "PENDING_ANCHOR", sig |-> None] \in
                [status : {"ABSENT", "PENDING_ANCHOR", "ANCHORED", "FAILED"},
                 sig : Signatures \cup {None}]
        OBVIOUS
      <4> QED BY <2>2, <3>2, <4>1 DEF SaveFails, Answer, Replies
    <3> QED BY <2>2, <3>1, <3>2 DEF SaveFails
  <2>3. CASE SignHash(r)
    BY <2>3, SignTyped DEF SignHash, Waiting
  <2>4. CASE SignFails(r)
    BY <2>4 DEF SignFails, Waiting
  <2>5. CASE SendInvoke(r)
    BY <2>5 DEF SendInvoke, Waiting
  <2>6. CASE InvokeAnswered(r)
    BY <2>6 DEF InvokeAnswered, Waiting
  <2>7. CASE InvokeFails(r)
    BY <2>7 DEF InvokeFails, Waiting
  <2>8. CASE MarkAnchored(r)
    BY <2>8 DEF MarkAnchored, Answer, Replies
  <2>9. CASE MarkFailed(r)
    BY <2>9 DEF MarkFailed, Answer, Replies
  <2>10. CASE MarkThrows(r)
    BY <2>10 DEF MarkThrows, Answer, Replies
  <2> QED BY <1>5, <2>1, <2>2, <2>3, <2>4, <2>5, <2>6, <2>7, <2>8, <2>9, <2>10
          DEF Handler
<1>6. ASSUME NEW r \in Requests, FireFlyAccepts(r) \/ FireFlyRefuses(r)
      PROVE  TypeOK'
  <2>1. CASE FireFlyAccepts(r)
    BY <2>1, OpState DEF FireFlyAccepts, iotVars, fabricVars
  <2>2. CASE FireFlyRefuses(r)
    BY <2>2, OpState DEF FireFlyRefuses, iotVars, fabricVars
  <2> QED BY <1>6, <2>1, <2>2
<1>7. ASSUME NEW r \in Requests, NEW t \in TxIds, AnchorTelemetry(r, t)
      PROVE  TypeOK'
  BY <1>7 DEF AnchorTelemetry, iotVars
<1>8. ASSUME NEW t \in TxIds, Commit(t)
      PROVE  TypeOK'
  <2>1. PICK r \in Requests : Commit(t)!2!(r)
    BY <1>8 DEF Commit
  <2>2. <<EcoOf[r], t, r>> \in Ecosystems \X TxIds \X Requests
    BY BodyAssumption
  <2>3. index' \subseteq Ecosystems \X TxIds \X Requests
    BY <2>1, <2>2
  <2>4. txs' \in [TxIds -> [state : {"unused", "endorsed", "valid", "invalid"},
                            ingest : Requests \cup {None},
                            read : TxIds \cup {None}]]
    <3>1. \/ txs' = [txs EXCEPT ![t].state = "valid"]
          \/ txs' = [txs EXCEPT ![t].state = "invalid"]
      BY <2>1
    <3>2. /\ [txs EXCEPT ![t].state = "valid"] \in
                [TxIds -> [state : {"unused", "endorsed", "valid", "invalid"},
                           ingest : Requests \cup {None}, read : TxIds \cup {None}]]
          /\ [txs EXCEPT ![t].state = "invalid"] \in
                [TxIds -> [state : {"unused", "endorsed", "valid", "invalid"},
                           ingest : Requests \cup {None}, read : TxIds \cup {None}]]
      BY TxState
    <3> HIDE DEF TypeOK
    <3> QED BY <3>1, <3>2
  <2>5. ledger' \in [Requests -> [tx : TxIds \cup {None},
                                  sig : Signatures \cup {None}]]
    <3>1. \/ ledger' = [ledger EXCEPT ![r] = [tx |-> t, sig |-> op[r].sig]]
          \/ ledger' = ledger
      BY <2>1
    <3>2. [tx |-> t, sig |-> op[r].sig] \in
              [tx : TxIds \cup {None}, sig : Signatures \cup {None}]
      OBVIOUS
    <3> QED BY <3>1, <3>2
  <2> QED BY <1>8, <2>3, <2>4, <2>5 DEF Commit, iotVars
<1>9. ASSUME NEW t \in TxIds, Discard(t)
      PROVE  TypeOK'
  <2>1. txs' \in [TxIds -> [state : {"unused", "endorsed", "valid", "invalid"},
                            ingest : Requests \cup {None},
                            read : TxIds \cup {None}]]
    <3>1. txs' = [txs EXCEPT ![t].state = "invalid"]
      BY <1>9 DEF Discard
    <3>2. [txs EXCEPT ![t].state = "invalid"] \in
              [TxIds -> [state : {"unused", "endorsed", "valid", "invalid"},
                         ingest : Requests \cup {None}, read : TxIds \cup {None}]]
      BY TxState
    <3> HIDE DEF TypeOK
    <3> QED BY <3>1, <3>2
  <2>2. UNCHANGED <<ecoStatus, keyCache, iotVars, op, ledger, index, late>>
    BY <1>9 DEF Discard
  <2> HIDE DEF TypeOK
  <2>3. TypeOK
    OBVIOUS
  <2> QED BY <2>1, <2>2, <2>3 DEF iotVars, TypeOK
<1>10. CASE Crash
  BY <1>10 DEF Crash, fabricVars
<1> QED BY <1>1, <1>2, <1>3, <1>4, <1>5, <1>6, <1>7, <1>8, <1>9, <1>10 DEF Next

\* Type correctness of the ingestion pipeline.
THEOREM TypeCorrect == Spec => []TypeOK
<1>1. Init => TypeOK
  BY InitIInv DEF IInv
<1> QED BY <1>1, StepType, PTL DEF Spec

-----------------------------------------------------------------------------
\* Every step keeps what the places of the handlers say.
LEMMA StepRequests ==
    IInv /\ [Next]_vars => (\A r \in Requests : Control(r) /\ Told(r) /\ Signed(r) /\ Late(r))'
<1> SUFFICES ASSUME IInv, [Next]_vars, NEW q \in Requests
             PROVE  (Control(q) /\ Told(q) /\ Signed(q) /\ Late(q))'
  OBVIOUS
<1> USE NoneAssumption DEF IInv, TypeOK, Control, Told, Signed, Late, OnLedger, Waiting
<1>0. Sign(q) # None /\ EcoOf[q] \in Ecosystems
  BY SignTyped, BodyAssumption
<1>1. CASE UNCHANGED vars
  BY <1>1 DEF vars, iotVars, fabricVars
<1>2. ASSUME NEW e \in Ecosystems, RevokeEcosystem(e) \/ KeyExpires(e)
      PROVE  (Control(q) /\ Told(q) /\ Signed(q) /\ Late(q))'
  <2>1. CASE RevokeEcosystem(e)
    BY <2>1 DEF RevokeEcosystem, iotVars, fabricVars
  <2>2. CASE KeyExpires(e)
    BY <2>2 DEF KeyExpires, iotVars, fabricVars
  <2> QED BY <1>2, <2>1, <2>2
<1>3. ASSUME NEW r \in Requests, LetIn(r)
      PROVE  (Control(q) /\ Told(q) /\ Signed(q) /\ Late(q))'
  <2>1. /\ \A x \in Requests : pc'[x] = IF x = r THEN "saving" ELSE pc[x]
        /\ UNCHANGED <<ecoStatus, signature, reply, doc, op, ledger>>
    BY <1>3 DEF LetIn, Goto, fabricVars
  <2>2. q \in late' => q \in late \/ (q = r /\ ecoStatus[EcoOf[r]] = "REVOKED")
    BY <1>3 DEF LetIn
  <2>3. CASE q = r
    BY <1>3, <2>1, <2>2, <2>3 DEF LetIn
  <2>4. CASE q # r
    BY <2>1, <2>2, <2>4
  <2> QED BY <2>3, <2>4
<1>4. ASSUME NEW r \in Requests, TurnAway(r)
      PROVE  (Control(q) /\ Told(q) /\ Signed(q) /\ Late(q))'
  BY <1>4 DEF TurnAway, Goto, Answer, iotVars, fabricVars
<1>5. ASSUME NEW r \in Requests, Handler(r)
      PROVE  (Control(q) /\ Told(q) /\ Signed(q) /\ Late(q))'
  <2> USE DEF Goto, SetDoc, Answer, fabricVars
  <2>1. CASE Save(r)
    BY <2>1 DEF Save
  <2>2. CASE SaveFails(r)
    BY <2>2 DEF SaveFails
  <2>3. CASE SignHash(r)
    BY <2>3, <1>0 DEF SignHash
  <2>4. CASE SignFails(r)
    BY <2>4 DEF SignFails
  <2>5. CASE SendInvoke(r)
    BY <2>5, <1>0 DEF SendInvoke
  <2>6. CASE InvokeAnswered(r)
    BY <2>6 DEF InvokeAnswered
  <2>7. CASE InvokeFails(r)
    BY <2>7 DEF InvokeFails
  <2>8. CASE MarkAnchored(r)
    BY <2>8 DEF MarkAnchored
  <2>9. CASE MarkFailed(r)
    BY <2>9 DEF MarkFailed
  <2>10. CASE MarkThrows(r)
    BY <2>10 DEF MarkThrows
  <2> QED BY <1>5, <2>1, <2>2, <2>3, <2>4, <2>5, <2>6, <2>7, <2>8, <2>9, <2>10
          DEF Handler
<1>6. ASSUME NEW r \in Requests, FireFlyAccepts(r) \/ FireFlyRefuses(r)
      PROVE  (Control(q) /\ Told(q) /\ Signed(q) /\ Late(q))'
  <2>1. CASE FireFlyAccepts(r)
    BY <2>1, OpState DEF FireFlyAccepts, iotVars, fabricVars
  <2>2. CASE FireFlyRefuses(r)
    BY <2>2, OpState DEF FireFlyRefuses, iotVars, fabricVars
  <2> QED BY <1>6, <2>1, <2>2
<1>7. ASSUME NEW r \in Requests, NEW t \in TxIds, AnchorTelemetry(r, t)
      PROVE  (Control(q) /\ Told(q) /\ Signed(q) /\ Late(q))'
  BY <1>7 DEF AnchorTelemetry, iotVars
<1>8. ASSUME NEW t \in TxIds, Commit(t)
      PROVE  (Control(q) /\ Told(q) /\ Signed(q) /\ Late(q))'
  <2>1. PICK r \in Requests : Commit(t)!2!(r)
    BY <1>8 DEF Commit
  <2>2. UNCHANGED <<ecoStatus, pc, signature, reply, doc, op, late>>
    BY <1>8 DEF Commit, iotVars
  <2>3. op[r].state = "accepted" /\ op[r].sig = Sign(r)
    BY <1>8, <2>1 DEF Commit, InFlight
  <2>4. \/ ledger' = [ledger EXCEPT ![r] = [tx |-> t, sig |-> op[r].sig]]
        \/ ledger' = ledger
    BY <2>1
  <2>5. OnLedger(q)' => op[q].state = "accepted" /\ ledger'[q].sig = Sign(q)
    <3>1. CASE ledger' = ledger
      BY <3>1
    <3>2. CASE ledger' = [ledger EXCEPT ![r] = [tx |-> t, sig |-> op[r].sig]]
      BY <2>3, <3>2
    <3> QED BY <2>4, <3>1, <3>2
  <2> QED BY <2>2, <2>5
<1>9. ASSUME NEW t \in TxIds, Discard(t)
      PROVE  (Control(q) /\ Told(q) /\ Signed(q) /\ Late(q))'
  <2>1. txs' \in [TxIds -> [state : {"unused", "endorsed", "valid", "invalid"},
                            ingest : Requests \cup {None},
                            read : TxIds \cup {None}]]
    <3>1. txs' = [txs EXCEPT ![t].state = "invalid"]
      BY <1>9 DEF Discard
    <3>2. [txs EXCEPT ![t].state = "invalid"] \in
              [TxIds -> [state : {"unused", "endorsed", "valid", "invalid"},
                         ingest : Requests \cup {None}, read : TxIds \cup {None}]]
      BY TxState
    <3> HIDE DEF TypeOK
    <3> QED BY <3>1, <3>2
  <2>2. UNCHANGED <<ecoStatus, keyCache, iotVars, op, ledger, index, late>>
    BY <1>9 DEF Discard
  <2> HIDE DEF TypeOK
  <2>3. TypeOK
    OBVIOUS
  <2> QED BY <2>1, <2>2, <2>3 DEF iotVars, TypeOK
<1>10. CASE Crash
  BY <1>10 DEF Crash, fabricVars
<1> QED BY <1>1, <1>2, <1>3, <1>4, <1>5, <1>6, <1>7, <1>8, <1>9, <1>10 DEF Next

\* FireFly never takes an operation back, and only the chaincode endorses.
LEMMA StepTxs == IInv /\ [Next]_vars => (\A t \in TxIds : InFlight(t))'
<1> SUFFICES ASSUME IInv, [Next]_vars, NEW u \in TxIds PROVE InFlight(u)'
  OBVIOUS
<1> USE NoneAssumption DEF IInv, InFlight
<1>1. ASSUME UNCHANGED txs,
             \A r \in Requests : op[r].state = "accepted" => op'[r] = op[r]
      PROVE  InFlight(u)'
  BY <1>1
<1>2. CASE UNCHANGED <<txs, op>>
  BY <1>1, <1>2
<1>3. ASSUME NEW r \in Requests, SendInvoke(r)
      PROVE  InFlight(u)'
  <2>1. op[r].state = "none"
    BY <1>3 DEF SendInvoke, Control
  <2> QED BY <1>1, <1>3, <2>1 DEF SendInvoke, fabricVars, TypeOK
<1>4. ASSUME NEW r \in Requests, FireFlyAccepts(r) \/ FireFlyRefuses(r)
      PROVE  InFlight(u)'
  <2>1. \A q \in Requests : q # r => op'[q] = op[q]
    BY <1>4 DEF FireFlyAccepts, FireFlyRefuses, TypeOK
  <2> QED BY <1>1, <1>4, <2>1 DEF FireFlyAccepts, FireFlyRefuses, fabricVars
<1>5. ASSUME NEW r \in Requests, NEW t \in TxIds, AnchorTelemetry(r, t)
      PROVE  InFlight(u)'
  BY <1>5 DEF AnchorTelemetry, TypeOK
<1>6. ASSUME NEW t \in TxIds, Commit(t) \/ Discard(t)
      PROVE  InFlight(u)'
  <2>1. UNCHANGED op
    BY <1>6 DEF Commit, Discard
  <2>2. \/ txs' = [txs EXCEPT ![t].state = "valid"]
        \/ txs' = [txs EXCEPT ![t].state = "invalid"]
    BY <1>6 DEF Commit, Discard
  <2>3. txs'[t].state # "endorsed" /\ (u # t => txs'[u] = txs[u])
    BY <2>2 DEF TypeOK
  <2> QED BY <2>1, <2>3
<1> QED
  BY <1>2, <1>3, <1>4, <1>5, <1>6
     DEF Next, Handler, vars, iotVars, fabricVars, RevokeEcosystem, KeyExpires,
         LetIn, TurnAway, Save, SaveFails, SignHash, SignFails, InvokeAnswered,
         InvokeFails, MarkAnchored, MarkFailed, MarkThrows, Crash

\* Only Commit writes the world state, and it writes both keys or neither.
LEMMA StepLedger ==
    IInv /\ [Next]_vars =>
        \/ UNCHANGED <<ledger, index>>
        \/ \E r \in Requests, t \in TxIds :
              /\ ~OnLedger(r) /\ op[r].state = "accepted"
              /\ ledger' = [ledger EXCEPT ![r] = [tx |-> t, sig |-> op[r].sig]]
              /\ index' = index \cup {<<EcoOf[r], t, r>>}
              /\ UNCHANGED <<op, doc>>
<1> SUFFICES ASSUME IInv, [Next]_vars, ~UNCHANGED <<ledger, index>>
             PROVE  \E r \in Requests, t \in TxIds :
                       /\ ~OnLedger(r) /\ op[r].state = "accepted"
                       /\ ledger' = [ledger EXCEPT ![r] = [tx |-> t, sig |-> op[r].sig]]
                       /\ index' = index \cup {<<EcoOf[r], t, r>>}
                       /\ UNCHANGED <<op, doc>>
  OBVIOUS
<1>1. PICK t \in TxIds : Commit(t)
  BY DEF Next, Handler, vars, iotVars, fabricVars, RevokeEcosystem, KeyExpires,
         LetIn, TurnAway, Save, SaveFails, SignHash, SignFails, SendInvoke,
         InvokeAnswered, InvokeFails, MarkAnchored, MarkFailed, MarkThrows,
         FireFlyAccepts, FireFlyRefuses, AnchorTelemetry, Discard, Crash
<1>2. PICK r \in Requests : Commit(t)!2!(r)
  BY <1>1 DEF Commit
<1>3. ledger[r].tx = None /\ op[r].state = "accepted"
  BY <1>1, <1>2 DEF Commit, IInv, InFlight
<1> QED BY <1>1, <1>2, <1>3 DEF Commit, iotVars, OnLedger

\* Every step keeps the composite keys those of the anchors.
LEMMA StepIndex == IInv /\ [Next]_vars => IndexMatchesWorldState'
<1> SUFFICES ASSUME IInv, [Next]_vars PROVE IndexMatchesWorldState'
  OBVIOUS
<1> USE DEF IInv, IndexMatchesWorldState, OnLedger
<1>1. CASE UNCHANGED <<ledger, index>>
  BY <1>1
<1>2. ASSUME NEW r \in Requests, NEW t \in TxIds, ledger[r].tx = None,
             ledger' = [ledger EXCEPT ![r] = [tx |-> t, sig |-> op[r].sig]],
             index' = index \cup {<<EcoOf[r], t, r>>}
      PROVE  IndexMatchesWorldState'
  <2>1. /\ ledger'[r].tx = t /\ t # None
        /\ \A q \in Requests : q # r => ledger'[q] = ledger[q]
    BY <1>2, NoneAssumption DEF TypeOK
  <2> QED BY <1>2, <2>1
<1> QED BY <1>1, <1>2, StepLedger

-----------------------------------------------------------------------------
\* Every step keeps the invariant.
LEMMA StepIInv == IInv /\ [Next]_vars => IInv'
  BY StepType, StepRequests, StepTxs, StepIndex DEF IInv

\* The invariant everything below rests on.
THEOREM Invariance == Spec => []IInv
  BY InitIInv, StepIInv, PTL DEF Spec

\* A 202 is never sent for a record FireFly has not taken.
THEOREM AckSafe == Spec => []AckImpliesAnchored
<1>1. IInv => AckImpliesAnchored
  BY DEF IInv, AckImpliesAnchored, Told, Signed
<1> QED BY <1>1, Invariance, PTL

\* The ledger only holds what the store holds, signed by its owner, and an
\* ANCHORED document agrees with it.
THEOREM LedgerSafe == Spec => []LedgerMatchesStore
<1>1. IInv => LedgerMatchesStore
  BY DEF IInv, LedgerMatchesStore, Signed
<1> QED BY <1>1, Invariance, PTL

\* A key cached beyond the life of its ecosystem never leads to an anchor.
THEOREM StaleKeySafe == Spec => []StaleKeyNeverAnchors
<1>1. IInv => StaleKeyNeverAnchors
  BY DEF IInv, StaleKeyNeverAnchors, Signed, Late, TypeOK
<1> QED BY <1>1, Invariance, PTL

\* A request answered SIGNING_FAILED has left nothing on its way to Fabric.
THEOREM SigningFailureSafe == Spec => []SigningFailureIsClean
<1>1. IInv => SigningFailureIsClean
  BY DEF IInv, SigningFailureIsClean, Told, Signed
<1> QED BY <1>1, Invariance, PTL

\* The chaincode's secondary index and its world state stay consistent.
THEOREM IndexSafe == Spec => []IndexMatchesWorldState
<1>1. IInv => IndexMatchesWorldState
  BY DEF IInv
<1> QED BY <1>1, Invariance, PTL

-----------------------------------------------------------------------------
\* A document is only written by its own handler, while it is pending or
\* about to be stored.
LEMMA StepDoc ==
    IInv /\ [Next]_vars =>
        \/ UNCHANGED doc
        \/ /\ UNCHANGED <<op, ledger>>
           /\ \E r \in Requests :
                 \/ /\ doc[r].status = "ABSENT"
                    /\ SetDoc(r, "PENDING_ANCHOR", None)
                 \/ /\ doc[r].status = "PENDING_ANCHOR"
                    /\ SetDoc(r, "FAILED", None)
                 \/ /\ doc[r].status = "PENDING_ANCHOR"
                    /\ op[r].state = "accepted"
                    /\ SetDoc(r, "ANCHORED", signature[r])
<1> SUFFICES ASSUME IInv, [Next]_vars, ~UNCHANGED doc
             PROVE  /\ UNCHANGED <<op, ledger>>
                    /\ \E r \in Requests :
                         \/ /\ doc[r].status = "ABSENT"
                            /\ SetDoc(r, "PENDING_ANCHOR", None)
                         \/ /\ doc[r].status = "PENDING_ANCHOR"
                            /\ SetDoc(r, "FAILED", None)
                         \/ /\ doc[r].status = "PENDING_ANCHOR"
                            /\ op[r].state = "accepted"
                            /\ SetDoc(r, "ANCHORED", signature[r])
  OBVIOUS
<1>1. PICK r \in Requests : \/ Save(r) \/ SaveFails(r) \/ MarkAnchored(r)
                            \/ MarkFailed(r) \/ MarkThrows(r)
  BY DEF Next, Handler, vars, iotVars, fabricVars, RevokeEcosystem, KeyExpires,
         LetIn, TurnAway, SignHash, SignFails, SendInvoke, InvokeAnswered,
         InvokeFails, FireFlyAccepts, FireFlyRefuses, AnchorTelemetry, Commit,
         Discard, Crash
<1>2. Control(r)
  BY DEF IInv
<1>3. UNCHANGED <<op, ledger>>
  BY <1>1 DEF Save, SaveFails, MarkAnchored, MarkFailed, MarkThrows, fabricVars
<1>4. CASE Save(r) \/ SaveFails(r)
  BY <1>2, <1>3, <1>4 DEF Save, SaveFails, Control
<1>5. CASE MarkAnchored(r) \/ MarkFailed(r) \/ MarkThrows(r)
  BY <1>2, <1>3, <1>5 DEF MarkAnchored, MarkFailed, MarkThrows, Control, Waiting
<1> QED BY <1>1, <1>4, <1>5

\* Documents are settled once, and anchors are never overwritten.
THEOREM SettledSafe == Spec => SettledForGood
<1>1. ASSUME IInv, [Next]_vars, NEW r \in Requests
      PROVE  /\ doc[r].status \in {"ANCHORED", "FAILED"} => doc'[r] = doc[r]
             /\ OnLedger(r) => ledger'[r] = ledger[r]
  <2>1. doc[r].status \in {"ANCHORED", "FAILED"} => doc'[r] = doc[r]
    BY <1>1, StepDoc DEF SetDoc, IInv, TypeOK
  <2>2. OnLedger(r) => ledger'[r] = ledger[r]
    BY <1>1, StepLedger DEF IInv, TypeOK
  <2> QED BY <2>1, <2>2
<1>2. IInv /\ [Next]_vars =>
        [\A r \in Requests :
            /\ doc[r].status \in {"ANCHORED", "FAILED"} => doc'[r] = doc[r]
            /\ OnLedger(r) => ledger'[r] = ledger[r]]_vars
  BY <1>1
<1> QED BY <1>2, Invariance, PTL DEF Spec, SettledForGood

-----------------------------------------------------------------------------
(* Refinement.                                                              *)

\* The refinement mapping of TelemetryIngest, as functions.
recordOf == [r \in Requests |-> RecordAt(r)]
chainOf == [r \in Requests |-> ChainAt(r)]

\* The initial state maps to that of the abstract specification.
LEMMA InitRefines == Init => A!AInit
  BY DEF Init, A!AInit, RecordAt, ChainAt, OnLedger

\* Every step maps to an abstract step or to a stutter: writes of documents
\* are Store and Settle steps, commits Anchor steps, operations Submit and Take.
LEMMA StepRefines == IInv /\ [Next]_vars => [A!ANext]_<<recordOf, chainOf>>
<1> SUFFICES ASSUME IInv, [Next]_vars, ~UNCHANGED <<recordOf, chainOf>>
             PROVE  A!ANext
  OBVIOUS
<1> USE DEF IInv, TypeOK, recordOf, chainOf
<1>1. CASE ~UNCHANGED doc
  <2>1. UNCHANGED chainOf
    BY <1>1, StepDoc DEF ChainAt, OnLedger
  <2>2. PICK r \in Requests :
           \/ /\ doc[r].status = "ABSENT"
              /\ SetDoc(r, "PENDING_ANCHOR", None)
           \/ /\ doc[r].status = "PENDING_ANCHOR"
              /\ SetDoc(r, "FAILED", None)
           \/ /\ doc[r].status = "PENDING_ANCHOR"
              /\ op[r].state = "accepted"
              /\ SetDoc(r, "ANCHORED", signature[r])
    BY <1>1, StepDoc
  <2>3. \A q \in Requests : q # r => RecordAt(q)' = RecordAt(q)
    BY <2>2 DEF RecordAt, SetDoc
  <2>4. CASE doc[r].status = "ABSENT" /\ SetDoc(r, "PENDING_ANCHOR", None)
    <3>1. RecordAt(r) = "absent" /\ RecordAt(r)' = "pending"
      BY <2>4 DEF RecordAt, SetDoc
    <3> HIDE DEF IInv, TypeOK
    <3> QED BY <2>1, <2>3, <3>1 DEF A!ANext, A!Store
  <2>5. CASE doc[r].status = "PENDING_ANCHOR" /\ SetDoc(r, "FAILED", None)
    <3>1. RecordAt(r) = "pending" /\ RecordAt(r)' = "failed"
      BY <2>5 DEF RecordAt, SetDoc
    <3> HIDE DEF IInv, TypeOK
    <3> QED BY <2>1, <2>3, <3>1 DEF A!ANext, A!SettleFailed
  <2>6. CASE /\ doc[r].status = "PENDING_ANCHOR" /\ op[r].state = "accepted"
             /\ SetDoc(r, "ANCHORED", signature[r])
    <3>1. RecordAt(r) = "pending" /\ RecordAt(r)' = "anchored"
      BY <2>6 DEF RecordAt, SetDoc
    <3>2. ChainAt(r) \in {"taken", "anchored"}
      BY <2>6 DEF ChainAt
    <3> HIDE DEF IInv, TypeOK
    <3> QED BY <2>1, <2>3, <3>1, <3>2 DEF A!ANext, A!SettleAnchored
  <2> QED BY <2>2, <2>4, <2>5, <2>6
<1>2. CASE UNCHANGED doc /\ ~UNCHANGED <<ledger, index>>
  <2>1. UNCHANGED recordOf
    BY <1>2 DEF RecordAt
  <2>2. PICK r \in Requests, t \in TxIds :
           /\ ~OnLedger(r) /\ op[r].state = "accepted"
           /\ ledger' = [ledger EXCEPT ![r] = [tx |-> t, sig |-> op[r].sig]]
           /\ UNCHANGED op
    BY <1>2, StepLedger
  <2>3. OnLedger(r)' /\ \A q \in Requests : q # r => ledger'[q] = ledger[q]
    BY <2>2, NoneAssumption DEF OnLedger
  <2>4. ChainAt(r) = "taken" /\ ChainAt(r)' = "anchored"
    BY <2>2, <2>3 DEF ChainAt
  <2>5. \A q \in Requests : q # r => ChainAt(q)' = ChainAt(q)
    BY <2>2, <2>3 DEF ChainAt, OnLedger
  <2> HIDE DEF IInv, TypeOK
  <2> QED BY <2>1, <2>4, <2>5 DEF A!ANext, A!Anchor
<1>3. CASE UNCHANGED <<doc, ledger, index>>
  <2>1. UNCHANGED recordOf
    BY <1>3 DEF RecordAt
  <2>2. ~UNCHANGED op
    BY <1>3, <2>1 DEF ChainAt, OnLedger
  <2>3. PICK r \in Requests : SendInvoke(r) \/ FireFlyAccepts(r) \/ FireFlyRefuses(r)
    BY <2>2 DEF Next, Handler, vars, iotVars, fabricVars, RevokeEcosystem, KeyExpires,
         LetIn, TurnAway, Save, SaveFails, SignHash, SignFails,
         InvokeAnswered, InvokeFails, MarkAnchored, MarkFailed, MarkThrows,
         AnchorTelemetry, Commit, Discard, Crash
  <2>4. /\ ~OnLedger(r) /\ ~OnLedger(r)'
        /\ \A q \in Requests : OnLedger(q)' <=> OnLedger(q)
    BY <1>3, <2>3 DEF SendInvoke, FireFlyAccepts, FireFlyRefuses, Control, Signed,
                      OnLedger
  <2>5. \A q \in Requests : q # r => op'[q] = op[q]
    BY <2>3 DEF SendInvoke, FireFlyAccepts, FireFlyRefuses
  <2>6. \A q \in Requests : q # r => ChainAt(q)' = ChainAt(q)
    BY <2>4, <2>5 DEF ChainAt
  <2>7. CASE SendInvoke(r)
    <3>1. /\ doc[r].status = "PENDING_ANCHOR" /\ op[r].state = "none"
          /\ op'[r].state = "sent"
      BY <2>7 DEF SendInvoke, Control, Waiting
    <3>2. /\ RecordAt(r) = "pending"
          /\ ChainAt(r) = "none" /\ ChainAt(r)' = "submitted"
      BY <2>4, <3>1 DEF RecordAt, ChainAt
    <3> HIDE DEF IInv, TypeOK
    <3> QED BY <2>1, <2>6, <3>2 DEF A!ANext, A!Submit
  <2>8. CASE FireFlyAccepts(r)
    <3>1. op[r].state = "sent" /\ op'[r].state = "accepted"
      BY <2>8 DEF FireFlyAccepts
    <3>2. ChainAt(r) = "submitted" /\ ChainAt(r)' = "taken"
      BY <2>4, <3>1 DEF ChainAt
    <3> HIDE DEF IInv, TypeOK
    <3> QED BY <2>1, <2>6, <3>2 DEF A!ANext, A!Take
  <2>9. CASE FireFlyRefuses(r)
    <3>1. op[r].state = "sent" /\ op'[r].state = "refused"
      BY <2>9 DEF FireFlyRefuses
    <3>2. ChainAt(r)' = ChainAt(r)
      BY <2>4, <3>1 DEF ChainAt
    <3> QED BY <2>1, <2>6, <3>2
  <2> QED BY <2>3, <2>7, <2>8, <2>9
<1> QED BY <1>1, <1>2, <1>3

\* The pipeline implements the abstract specification of what it promises.
THEOREM Refinement == Spec => ImplementsAnchoring
<1>1. IInv /\ [Next]_vars => [A!ANext]_(A!avars)
  BY StepRefines DEF A!avars, recordOf, chainOf
<1> QED BY InitRefines, <1>1, Invariance, PTL DEF Spec, ImplementsAnchoring, A!ASpec

-----------------------------------------------------------------------------
(* The administrative actions: the inductive invariant.                     *)

\* What the place of a run means: its change is written once it has begun,
\* only a run with keys posts, and it has posted no more than it counts.
RunControl(a) ==
    /\ a \in changed <=> place[a] # "idle"
    /\ place[a] \in {"idle", "keys"} => tries[a] = 0
    /\ place[a] \in {"post", "wait", "anchored"} \/ tries[a] > 0 => a \in Keyed
    /\ place[a] = "post" => tries[a] <= MaxRetries
    /\ place[a] = "wait" => tries[a] > 0
    /\ place[a] = "anchored" => \E n \in Attempts : Confirmed(a, n)
    /\ result[a] # "none" => place[a] = "done"
    /\ \A n \in Attempts : n > tries[a] => operation[a][n].state = "none"

\* What the world state has of an action: both keys or none, and a valid
\* transaction of the attempt that wrote them.  An endorsed transaction has
\* read the absent key, so that it fails once the key is there.
Recorded(a) ==
    /\ a \in nonces <=> OnTrail(a)
    /\ \A n \in Attempts :
          /\ operation[a][n].state = "endorsed" => operation[a][n].read = Nothing
          /\ operation[a][n].state = "valid" <=> records[a] = n

ActionsInv ==
    /\ ActionsTypeOK
    /\ \A a \in Actions : RunControl(a) /\ Recorded(a)
    /\ IdIsBacked

-----------------------------------------------------------------------------
\* The initial state satisfies the invariant.
LEMMA InitActions == ActionsInit => ActionsInv
<1> SUFFICES ASSUME ActionsInit PROVE ActionsInv
  OBVIOUS
<1> USE ActionsAssumption DEF ActionsInit, ActionsAssumption
<1>1. ActionsTypeOK
  BY DEF ActionsTypeOK, Operations, Attempts, Nothing
<1>2. ASSUME NEW a \in Actions PROVE RunControl(a) /\ Recorded(a)
  <2>1. \A n \in Attempts : operation[a][n] = [state |-> "none", read |-> Nothing]
    OBVIOUS
  <2>2. /\ a \notin changed /\ place[a] = "idle" /\ tries[a] = 0 /\ result[a] = "none"
        /\ records[a] = Nothing /\ a \notin nonces
    OBVIOUS
  <2>3. RunControl(a)
    BY <2>1, <2>2 DEF RunControl
  <2>4. Recorded(a)
    BY <2>1, <2>2 DEF Recorded, OnTrail, Attempts, Nothing
  <2> QED BY <2>3, <2>4
<1>3. IdIsBacked
  BY DEF IdIsBacked
<1> QED BY <1>1, <1>2, <1>3 DEF ActionsInv

\* Every step keeps the types.
LEMMA StepActionsType == ActionsInv /\ [ActionsNext]_actionsVars => ActionsTypeOK'
<1> SUFFICES ASSUME ActionsInv, [ActionsNext]_actionsVars PROVE ActionsTypeOK'
  OBVIOUS
<1>b. blocking' = blocking
  BY DEF ActionsNext, actionsVars
<1> USE <1>b
<1>0. ActionsTypeOK /\ \A a \in Actions : RunControl(a)
  BY DEF ActionsInv
<1> USE ActionsAssumption DEF ActionsAssumption, ActionsTypeOK, Operations, Running,
   Proceed, SetState, chainVars
<1>1. CASE UNCHANGED actionsVars
  BY <1>0, <1>1 DEF actionsVars
<1>2. ASSUME NEW a \in Actions, Run(a) PROVE ActionsTypeOK'
  <2>1. CASE Change(a)
    BY <1>0, <2>1 DEF Change
  <2>2. CASE ResolveKeys(a)
    BY <1>0, <2>2 DEF ResolveKeys
  <2>3. CASE KeysFail(a)
    BY <1>0, <2>3 DEF KeysFail
  <2>4. CASE Post(a)
    <3>1. tries[a] + 1 \in Attempts /\ tries[a] \in 0 .. MaxRetries
      BY <1>0, <2>4 DEF Post, Attempts, RunControl
    <3>2. tries' \in [Actions -> 0 .. MaxRetries + 1]
      BY <1>0, <2>4, <3>1 DEF Post
    <3> QED BY <1>0, <2>4, <3>1, <3>2 DEF Post
  <2>5. CASE Answered(a)
    BY <1>0, <2>5 DEF Answered
  <2>6. CASE AttemptFails(a)
    BY <1>0, <2>6 DEF AttemptFails
  <2>7. CASE ReturnId(a)
    BY <1>0, <2>7 DEF ReturnId
  <2>8. CASE GiveUp(a)
    BY <1>0, <2>8 DEF GiveUp
  <2> QED BY <1>2, <2>1, <2>2, <2>3, <2>4, <2>5, <2>6, <2>7, <2>8 DEF Run
<1>3. ASSUME NEW a \in Actions, NEW n \in Attempts, Fabric(a, n) PROVE ActionsTypeOK'
  <2>1. CASE TakePost(a, n)
    <3>1. PICK s \in {"queued", "refused"} :
             operation' = [operation EXCEPT ![a][n].state = s]
      BY <2>1 DEF TakePost
    <3>2. operation[a][n] \in Operations
      BY <1>0
    <3>3. [operation[a][n] EXCEPT !.state = s] \in Operations
      BY <3>2
    <3> QED BY <1>0, <2>1, <3>1, <3>3 DEF TakePost
  <2>2. CASE Endorse(a, n)
    <3>1. [state |-> "endorsed", read |-> records[a]] \in Operations
      BY <1>0
    <3> QED BY <1>0, <2>2, <3>1 DEF Endorse
  <2>3. CASE Reject(a, n)
    <3>1. operation[a][n] \in Operations
      BY <1>0
    <3>2. [operation[a][n] EXCEPT !.state = "failed"] \in Operations
      BY <3>1
    <3> QED BY <1>0, <2>3, <3>2 DEF Reject
  <2>4. CASE CommitAction(a, n)
    <3>1. operation' \in [Actions -> [Attempts -> Operations]]
      <4>1. operation[a][n] \in Operations
        BY <1>0
      <4>2. /\ [operation[a][n] EXCEPT !.state = "valid"] \in Operations
            /\ [operation[a][n] EXCEPT !.state = "failed"] \in Operations
        BY <4>1
      <4>3. CASE operation' = [operation EXCEPT ![a][n].state = "valid"]
        BY <1>0, <4>2, <4>3
      <4>4. CASE operation' = [operation EXCEPT ![a][n].state = "failed"]
        BY <1>0, <4>2, <4>4
      <4> QED BY <2>4, <4>3, <4>4 DEF CommitAction
    <3>2. records' \in [Actions -> Attempts \cup {Nothing}] /\ nonces' \subseteq Actions
      BY <1>0, <2>4 DEF CommitAction
    <3> QED BY <1>0, <2>4, <3>1, <3>2 DEF CommitAction
  <2> QED BY <1>3, <2>1, <2>2, <2>3, <2>4 DEF Fabric
<1>4. CASE Restart
  BY <1>0, <1>4 DEF Restart
<1> QED BY <1>1, <1>2, <1>3, <1>4 DEF ActionsNext

\* What FireFly has confirmed it never takes back.
LEMMA ConfirmedStays ==
    ASSUME ActionsInv, [ActionsNext]_actionsVars, NEW b \in Actions, NEW m \in Attempts,
           Confirmed(b, m)
    PROVE  Confirmed(b, m)'
<1>b. blocking' = blocking
  BY DEF ActionsNext, actionsVars
<1> USE <1>b
<1>0. ActionsTypeOK /\ \A a \in Actions : RunControl(a)
  BY DEF ActionsInv
<1>1. CASE operation' = operation
  BY <1>1 DEF Confirmed
<1>2. ASSUME NEW a \in Actions, Post(a) PROVE Confirmed(b, m)'
  <2>1. operation[a][tries[a] + 1].state = "none" \/ tries[a] + 1 \notin Attempts
    BY <1>0, <1>2, ActionsAssumption DEF RunControl, ActionsTypeOK, Attempts,
       ActionsAssumption
  <2>2. operation'[b][m] = operation[b][m]
    BY <1>0, <1>2, <2>1 DEF Post, SetState, Confirmed, ActionsTypeOK
  <2> QED BY <2>2 DEF Confirmed
<1>3. ASSUME NEW a \in Actions, NEW n \in Attempts, Fabric(a, n) PROVE Confirmed(b, m)'
  <2> USE <1>0 DEF Confirmed, SetState, ActionsTypeOK, Operations
  <2>0. CASE b # a \/ m # n
    BY <1>3, <2>0 DEF Fabric, TakePost, Endorse, Reject, CommitAction
  <2>1. CASE b = a /\ m = n /\ TakePost(a, n)
    BY <2>1 DEF TakePost
  <2>2. CASE b = a /\ m = n /\ Endorse(a, n)
    BY <2>2 DEF Endorse
  <2>3. CASE b = a /\ m = n /\ Reject(a, n)
    BY <2>3 DEF Reject
  <2>4. CASE b = a /\ m = n /\ CommitAction(a, n)
    BY <2>4 DEF CommitAction
  <2> QED BY <1>3, <2>0, <2>1, <2>2, <2>3, <2>4 DEF Fabric
<1> QED
  BY <1>1, <1>2, <1>3
     DEF ActionsNext, actionsVars, Run, Change, ResolveKeys, KeysFail, Answered,
        AttemptFails, ReturnId, GiveUp, Restart

\* Every step keeps what the place of a run means.
LEMMA StepControl ==
    ASSUME ActionsInv, [ActionsNext]_actionsVars, NEW b \in Actions
    PROVE  RunControl(b)'
<1>b. blocking' = blocking
  BY DEF ActionsNext, actionsVars
<1> USE <1>b
<1>0. ActionsTypeOK /\ RunControl(b) /\ \A a \in Actions : RunControl(a)
  BY DEF ActionsInv
<1>1. ASSUME \E n \in Attempts : Confirmed(b, n) PROVE \E n \in Attempts : Confirmed(b, n)'
  BY <1>1, ConfirmedStays
<1>2. CASE UNCHANGED <<changed, place, tries, result, operation>>
  BY <1>0, <1>2 DEF RunControl, Confirmed
<1>3. ASSUME NEW a \in Actions, Run(a) PROVE RunControl(b)'
  <2>1. CASE b # a
    <3>1. /\ b \in changed' <=> b \in changed
          /\ place'[b] = place[b] /\ tries'[b] = tries[b] /\ result'[b] = result[b]
          /\ operation'[b] = operation[b]
      BY <1>0, <1>3, <2>1
         DEF ActionsTypeOK, Run, Change, ResolveKeys, KeysFail, Post, Answered,
            AttemptFails,
             ReturnId, GiveUp, Proceed, SetState
    <3> QED BY <1>0, <3>1 DEF RunControl, Confirmed
  <2>2. CASE b = a
    <3> USE <1>0, <2>2, ActionsAssumption DEF ActionsAssumption, RunControl, ActionsTypeOK,
       Proceed
    <3>1. CASE Change(a)
      BY <3>1 DEF Change
    <3>2. CASE ResolveKeys(a)
      BY <3>2 DEF ResolveKeys
    <3>3. CASE KeysFail(a)
      BY <3>3 DEF KeysFail
    <3>4. CASE Post(a)
      <4>1. tries'[a] = tries[a] + 1 /\ tries[a] \in Nat /\ tries[a] <= MaxRetries
        BY <3>4 DEF Post
      <4>2. place'[a] = "wait" /\ a \in Keyed /\ a \in changed' /\ result'[a] = "none"
        BY <3>4 DEF Post
      <4>3. \A n \in Attempts : n > tries[a] + 1 => operation'[a][n] = operation[a][n]
        BY <3>4, <4>1 DEF Post, SetState, Attempts
      <4>4. \A n \in Attempts : n > tries[a] + 1 => operation'[a][n].state = "none"
        BY <4>1, <4>3 DEF Attempts
      <4> QED BY <4>1, <4>2, <4>4
    <3>5. CASE Answered(a)
      <4>1. tries[a] \in Attempts /\ Confirmed(a, tries[a])
        BY <3>5 DEF Answered, Attempts
      <4>2. \E n \in Attempts : Confirmed(a, n)'
        BY <1>1, <4>1
      <4> QED BY <3>5, <4>2 DEF Answered
    <3>6. CASE AttemptFails(a)
      BY <3>6 DEF AttemptFails
    <3>7. CASE ReturnId(a)
      BY <3>7 DEF ReturnId
    <3>8. CASE GiveUp(a)
      BY <3>8 DEF GiveUp
    <3> QED BY <1>3, <3>1, <3>2, <3>3, <3>4, <3>5, <3>6, <3>7, <3>8 DEF Run
  <2> QED BY <2>1, <2>2
<1>4. ASSUME NEW a \in Actions, NEW n \in Attempts, Fabric(a, n) PROVE RunControl(b)'
  <2>1. UNCHANGED <<changed, place, tries, result>>
    BY <1>4 DEF Fabric, TakePost, Endorse, Reject, CommitAction
  <2>2. operation[a][n].state # "none"
    BY <1>4 DEF Fabric, TakePost, Endorse, Reject, CommitAction
  <2>3. \A m \in Attempts : b # a \/ m # n => operation'[b][m] = operation[b][m]
    BY <1>0, <1>4 DEF ActionsTypeOK, Fabric, TakePost, Endorse, Reject, CommitAction,
       SetState
  <2>4. \A m \in Attempts : m > tries[b] => operation'[b][m].state = "none"
    BY <1>0, <2>2, <2>3 DEF RunControl
  <2> QED BY <1>0, <1>1, <2>1, <2>4 DEF RunControl
<1>5. CASE Restart
  <2>1. /\ place'[b] = place[b] \/ (place[b] \in Running /\ place'[b] = "crashed")
        /\ UNCHANGED <<changed, tries, result, operation>>
    BY <1>0, <1>5 DEF Restart, ActionsTypeOK
  <2> QED BY <1>0, <2>1 DEF RunControl, Confirmed, Running
<1> QED BY <1>2, <1>3, <1>4, <1>5 DEF ActionsNext, actionsVars

\* Every step keeps what the world state has of an action.  A commit that
\* writes has read the absent key, so no attempt was recorded before it.
LEMMA StepRecorded ==
    ASSUME ActionsInv, [ActionsNext]_actionsVars, NEW b \in Actions
    PROVE  Recorded(b)'
<1>0. ActionsTypeOK /\ Recorded(b) /\ \A a \in Actions : RunControl(a) /\ Recorded(a)
  BY DEF ActionsInv
<1>1. CASE UNCHANGED <<operation, chainVars>>
  BY <1>0, <1>1 DEF Recorded, OnTrail, chainVars
<1>2. ASSUME NEW a \in Actions, Post(a) PROVE Recorded(b)'
  <2>1. operation[a][tries[a] + 1].state = "none" /\ tries[a] + 1 \in Attempts
    BY <1>0, <1>2, ActionsAssumption DEF RunControl, Post, ActionsTypeOK, Attempts,
       ActionsAssumption
  <2>2. \A m \in Attempts : b # a \/ m # tries[a] + 1 => operation'[b][m] = operation[b][m]
    BY <1>0, <1>2 DEF Post, SetState, ActionsTypeOK
  <2>3. operation'[a][tries[a] + 1].state = "sent"
    BY <1>0, <1>2, <2>1 DEF Post, SetState, ActionsTypeOK, Operations
  <2> QED BY <1>0, <1>2, <2>1, <2>2, <2>3 DEF Post, Recorded, OnTrail, chainVars
<1>3. ASSUME NEW a \in Actions, NEW n \in Attempts, Fabric(a, n) PROVE Recorded(b)'
  <2>1. \A m \in Attempts : b # a \/ m # n => operation'[b][m] = operation[b][m]
    BY <1>0, <1>3 DEF ActionsTypeOK, Fabric, TakePost, Endorse, Reject, CommitAction,
       SetState
  <2>2. CASE b # a
    <3>1. records'[b] = records[b] /\ (b \in nonces' <=> b \in nonces)
      BY <1>0, <1>3, <2>2 DEF ActionsTypeOK, Fabric, TakePost, Endorse, Reject,
         CommitAction, chainVars
    <3> QED BY <1>0, <2>1, <2>2, <3>1 DEF Recorded, OnTrail
  <2>3. CASE b = a /\ UNCHANGED chainVars
    <3>1. operation[a][n].state # "valid"
      BY <1>3 DEF Fabric, TakePost, Endorse, Reject, CommitAction
    <3>2. CASE Endorse(a, n)
      <4>1. operation'[a][n] = [state |-> "endorsed", read |-> Nothing]
        BY <1>0, <3>2 DEF Endorse, OnTrail, ActionsTypeOK
      <4> QED BY <1>0, <2>1, <2>3, <3>1, <4>1 DEF Recorded, OnTrail, chainVars
    <3>3. CASE ~Endorse(a, n)
      <4>1. operation'[a][n].state \in {"queued", "refused", "failed"} \/ records'[a] = n
        BY <1>0, <1>3, <3>3 DEF ActionsTypeOK, Operations, Fabric, TakePost, Reject,
           CommitAction, SetState
      <4>2. records'[a] = records[a] /\ records[a] # n
        BY <1>0, <2>3, <3>1 DEF Recorded, chainVars
      <4> QED BY <1>0, <2>1, <2>3, <3>1, <4>1, <4>2 DEF Recorded, OnTrail, chainVars
    <3> QED BY <3>2, <3>3
  <2>4. CASE b = a /\ CommitAction(a, n) /\ ~UNCHANGED chainVars
    <3>1. /\ records[a] = Nothing
          /\ records' = [records EXCEPT ![a] = n] /\ nonces' = nonces \cup {a}
          /\ SetState(a, n, "valid")
      BY <1>0, <2>4 DEF CommitAction, Recorded
    <3>2. \A m \in Attempts : operation[a][m].state # "valid"
      BY <1>0, <3>1 DEF Recorded, Nothing, Attempts
    <3>3. operation'[a][n].state = "valid" /\ records'[a] = n
      BY <1>0, <3>1 DEF SetState, ActionsTypeOK, Operations
    <3> QED BY <1>0, <2>1, <2>4, <3>1, <3>2, <3>3 DEF Recorded, OnTrail, Nothing, Attempts
  <2>5. UNCHANGED chainVars \/ CommitAction(a, n)
    BY <1>3 DEF Fabric, TakePost, Endorse, Reject, CommitAction
  <2> QED BY <2>2, <2>3, <2>4, <2>5
<1> QED
  BY <1>1, <1>2, <1>3
     DEF ActionsNext, actionsVars, Run, Change, ResolveKeys, KeysFail, Answered,
        AttemptFails, ReturnId, GiveUp, Restart

\* Every step keeps the backing of the ids that were returned.
LEMMA StepIdIsBacked ==
    ASSUME ActionsInv, [ActionsNext]_actionsVars
    PROVE  IdIsBacked'
<1> SUFFICES ASSUME NEW b \in Actions, result'[b] = "id"
             PROVE  \E n \in Attempts : Confirmed(b, n)'
  BY DEF IdIsBacked
<1>1. ActionsTypeOK /\ RunControl(b) /\ IdIsBacked
  BY DEF ActionsInv
<1>2. result[b] = "id" \/ place[b] = "anchored"
  BY <1>1
     DEF ActionsTypeOK, ActionsNext, actionsVars, Run, Change, ResolveKeys, KeysFail, Post,
        Answered, AttemptFails,
         ReturnId, GiveUp, Restart, Fabric, TakePost, Endorse, Reject, CommitAction
<1>3. \E n \in Attempts : Confirmed(b, n)
  BY <1>1, <1>2 DEF RunControl, IdIsBacked
<1> QED BY <1>3, ConfirmedStays

\* The invariant is inductive.
LEMMA StepActions == ActionsInv /\ [ActionsNext]_actionsVars => ActionsInv'
BY StepActionsType, StepControl, StepRecorded, StepIdIsBacked DEF ActionsInv

\* The invariant holds in every reachable state.
LEMMA ActionsInvariant == ActionsSpec => []ActionsInv
<1> QED BY InitActions, StepActions, PTL DEF ActionsSpec

-----------------------------------------------------------------------------
(* Theorems.                                                                *)

\* The anchoring of actions is well typed; four attempts are the most.
THEOREM ActionsTypeCorrect == ActionsSpec => []ActionsTypeOK
<1>1. ActionsInv => ActionsTypeOK
  BY DEF ActionsInv
<1> QED BY <1>1, ActionsInvariant, PTL

\* However many attempts of a run are under way, one is recorded at most, and
\* its record is never written again (AnchorAction's test of the action id).
THEOREM RecordedOnce == ActionsSpec => []OneRecord
<1>1. ActionsInv => OneRecord
  BY DEF ActionsInv, OneRecord, Recorded
<1> QED BY <1>1, ActionsInvariant, PTL

\* An id that anchorAction returns is that of a recorded action, if the service
\* waits for the chain, and of one FireFly has taken, if not.
THEOREM IdSafe == ActionsSpec => []IdIsBacked
<1>1. ActionsInv => IdIsBacked
  BY DEF ActionsInv
<1> QED BY <1>1, ActionsInvariant, PTL

\* A recorded action tells of a change that was made, by an actor with keys.
THEOREM RecordSafe == ActionsSpec => []RecordIsTrue
<1>1. ActionsInv => RecordIsTrue
  <2> SUFFICES ASSUME ActionsInv, NEW a \in Actions, OnTrail(a)
               PROVE  a \in changed \cap Keyed /\ a \in nonces
    BY DEF RecordIsTrue
  <2>1. ActionsTypeOK /\ RunControl(a) /\ Recorded(a)
    BY DEF ActionsInv
  <2>2. PICK n \in Attempts : records[a] = n
    BY <2>1 DEF ActionsTypeOK, OnTrail
  <2>3. operation[a][n].state = "valid"
    BY <2>1, <2>2 DEF Recorded
  <2>4. tries[a] > 0
    BY <2>1, <2>3, ActionsAssumption DEF RunControl, ActionsTypeOK, Attempts,
       ActionsAssumption
  <2> QED BY <2>1, <2>4 DEF RunControl, Recorded
<1> QED BY <1>1, ActionsInvariant, PTL

-----------------------------------------------------------------------------
(* The refinement of ActionTrail.                                           *)

\* The refinement mapping of ActionsAnchor, as functions.
trailOf == [a \in Actions |-> TrailAt(a)]
toldOf == [a \in Actions |-> ToldAt(a)]

\* The initial state maps to that of the abstract specification.
LEMMA InitTrail == ActionsInit => Trail!TInit
  BY ActionsAssumption DEF ActionsInit, Trail!TInit, TrailAt, ToldAt, OnTrail, Nothing

\* Every step maps to a step of the trail or to a stutter: the change is Make,
\* the first post Submit, the commit that writes Record.
LEMMA StepTrail ==
    ActionsInv /\ [ActionsNext]_actionsVars
        => [Trail!TNext]_<<changed, trailOf, toldOf, blocking>>
<1> SUFFICES ASSUME ActionsInv, [ActionsNext]_actionsVars,
                    ~UNCHANGED <<changed, trailOf, toldOf, blocking>>
             PROVE  Trail!TNext
  OBVIOUS
<1> USE DEF trailOf, toldOf
<1>b. blocking' = blocking
  BY DEF ActionsNext, actionsVars
<1> USE <1>b
<1>0. /\ ActionsTypeOK
      /\ \A a \in Actions : RunControl(a) /\ Recorded(a)
  BY DEF ActionsInv
<1>1. CASE UNCHANGED actionsVars
  <2>1. UNCHANGED changed
    BY <1>1 DEF actionsVars
  <2>2. UNCHANGED trailOf
    BY <1>1 DEF actionsVars, chainVars, TrailAt, OnTrail
  <2>3. UNCHANGED toldOf
    BY <1>1 DEF actionsVars, ToldAt
  <2> QED BY <2>1, <2>2, <2>3
<1>2. ASSUME NEW a \in Actions, Run(a) PROVE Trail!TNext
  <2>1. CASE Change(a)
    <3>1. a \notin changed /\ changed' = changed \cup {a}
      BY <1>0, <2>1 DEF Change, RunControl
    <3>2. UNCHANGED <<trailOf, toldOf>>
      BY <2>1 DEF Change, chainVars, TrailAt, OnTrail, ToldAt
    <3> QED BY <3>1, <3>2 DEF Trail!TNext, Trail!Make
  <2>2. CASE Post(a)
    <3>1. UNCHANGED <<changed, toldOf>>
      BY <2>2 DEF Post, ToldAt
    <3>2. /\ tries[a] \in Nat /\ tries' = [tries EXCEPT ![a] = tries[a] + 1]
          /\ UNCHANGED records /\ a \in changed
      BY <1>0, <2>2 DEF Post, ActionsTypeOK, RunControl, chainVars
    <3>3. \A b \in Actions : b # a => TrailAt(b)' = TrailAt(b)
      BY <1>0, <3>2 DEF TrailAt, OnTrail, ActionsTypeOK
    <3>4. tries[a] = 0
      <4>1. CASE tries[a] # 0
        <5>1. tries[a] > 0 /\ tries'[a] > 0
          BY <1>0, <3>2, <4>1 DEF ActionsTypeOK
        <5>2. TrailAt(a)' = TrailAt(a)
          BY <3>2, <5>1 DEF TrailAt, OnTrail
        <5> QED BY <3>1, <3>3, <5>2
      <4> QED BY <4>1
    <3>5. ~OnTrail(a)
      <4>1. \A n \in Attempts : operation[a][n].state = "none"
        BY <1>0, <3>4 DEF RunControl, Attempts
      <4>2. records[a] \in Attempts \cup {Nothing}
        BY <1>0 DEF ActionsTypeOK
      <4> QED BY <1>0, <4>1, <4>2 DEF Recorded, OnTrail
    <3>6. TrailAt(a) = "absent" /\ TrailAt(a)' = "submitted"
      BY <1>0, <3>2, <3>4, <3>5 DEF TrailAt, OnTrail, ActionsTypeOK
    <3> QED BY <3>1, <3>2, <3>3, <3>6 DEF Trail!TNext, Trail!Submit
  <2>3. CASE ReturnId(a)
    <3>1. UNCHANGED <<changed, trailOf>>
      BY <2>3 DEF ReturnId, chainVars, TrailAt, OnTrail
    <3>2. a \in changed /\ result[a] = "none" /\ result' = [result EXCEPT ![a] = "id"]
      BY <1>0, <2>3 DEF ReturnId, RunControl
    <3>3. toldOf' = [toldOf EXCEPT ![a] = "success"] /\ toldOf[a] = "nothing"
      BY <1>0, <3>2 DEF ToldAt, ActionsTypeOK
    <3>4. ASSUME blocking PROVE OnTrail(a)
      <4>1. PICK n \in Attempts : operation[a][n].state = "valid"
        BY <1>0, <2>3, <3>4 DEF ReturnId, RunControl, Confirmed
      <4> QED BY <1>0, <4>1, ActionsAssumption
              DEF Recorded, OnTrail, Attempts, Nothing, ActionsAssumption
    <3>5. blocking => trailOf[a] = "recorded"
      BY <3>4 DEF TrailAt
    <3> QED BY <3>1, <3>2, <3>3, <3>5 DEF Trail!TNext, Trail!TellSuccess
  <2>4. CASE GiveUp(a)
    <3>1. UNCHANGED <<changed, trailOf>>
      BY <2>4 DEF GiveUp, chainVars, TrailAt, OnTrail
    <3>2. a \in changed /\ result[a] = "none"
      BY <1>0, <2>4 DEF GiveUp, RunControl
    <3>3. toldOf[a] = "nothing"
      BY <3>2 DEF ToldAt
    <3>4. CASE blocking
      <4>1. toldOf' = [toldOf EXCEPT ![a] = "error"]
        BY <1>0, <2>4, <3>4 DEF GiveUp, ToldAt, ActionsTypeOK
      <4> QED BY <3>1, <3>2, <3>3, <3>4, <4>1 DEF Trail!TNext, Trail!TellError
    <3>5. CASE ~blocking
      <4>1. toldOf' = [toldOf EXCEPT ![a] = "success"]
        BY <1>0, <2>4, <3>5 DEF GiveUp, ToldAt, ActionsTypeOK
      <4> QED BY <3>1, <3>2, <3>3, <3>5, <4>1 DEF Trail!TNext, Trail!TellSuccess
    <3> QED BY <3>4, <3>5
  <2>5. CASE ResolveKeys(a) \/ KeysFail(a) \/ Answered(a) \/ AttemptFails(a)
    <3>1. UNCHANGED <<changed, tries, result, records>>
      BY <2>5 DEF ResolveKeys, KeysFail, Answered, AttemptFails, chainVars
    <3> QED BY <3>1 DEF TrailAt, OnTrail, ToldAt
  <2> QED BY <1>2, <2>1, <2>2, <2>3, <2>4, <2>5 DEF Run
<1>3. ASSUME NEW a \in Actions, NEW n \in Attempts, Fabric(a, n) PROVE Trail!TNext
  <2>1. UNCHANGED <<changed, tries, result>>
    BY <1>3 DEF Fabric, TakePost, Endorse, Reject, CommitAction
  <2>2. UNCHANGED toldOf
    BY <2>1 DEF ToldAt
  <2>3. CASE UNCHANGED records
    BY <2>1, <2>2, <2>3 DEF TrailAt, OnTrail
  <2>4. CASE ~UNCHANGED records
    <3>1. operation[a][n].state = "endorsed" /\ operation[a][n].read = records[a]
          /\ records' = [records EXCEPT ![a] = n]
      BY <1>3, <2>4 DEF Fabric, TakePost, Endorse, Reject, CommitAction, chainVars
    <3>2. records[a] = Nothing /\ tries[a] > 0
      BY <1>0, <3>1, ActionsAssumption
         DEF Recorded, RunControl, ActionsTypeOK, Attempts, ActionsAssumption
    <3>3. a \in changed
      BY <1>0, <3>2 DEF RunControl
    <3>4. TrailAt(a) = "submitted" /\ TrailAt(a)' = "recorded"
      BY <1>0, <2>1, <3>1, <3>2, ActionsAssumption
         DEF TrailAt, OnTrail, ActionsTypeOK, Attempts, Nothing, ActionsAssumption
    <3>5. \A b \in Actions : b # a => TrailAt(b)' = TrailAt(b)
      BY <1>0, <2>1, <3>1 DEF TrailAt, OnTrail, ActionsTypeOK
    <3> QED BY <2>1, <2>2, <3>4, <3>5 DEF Trail!TNext, Trail!Record
  <2> QED BY <2>3, <2>4
<1>4. CASE Restart
  <2>1. UNCHANGED <<changed, tries, result, records>>
    BY <1>4 DEF Restart, chainVars
  <2> QED BY <2>1 DEF TrailAt, OnTrail, ToldAt
<1> QED BY <1>1, <1>2, <1>3, <1>4 DEF ActionsNext

\* The service implements the abstract trail of actions.
THEOREM TrailRefinement == ActionsSpec => ImplementsTrail
<1>1. ActionsInv /\ [ActionsNext]_actionsVars => [Trail!TNext]_(Trail!tvars)
  BY StepTrail DEF Trail!tvars, trailOf, toldOf
<1> QED BY InitTrail, <1>1, ActionsInvariant, PTL DEF ActionsSpec, ImplementsTrail,
   Trail!TSpec
=============================================================================
