---------------------------- MODULE ApiKeysProofs ----------------------------
(***************************************************************************)
(* Proofs about ApiKeys for every set of ecosystems, readings and owners'  *)
(* requests, and every lifetime of the entries of both caches.             *)
(***************************************************************************)
EXTENDS ApiKeys, TLAPS

-----------------------------------------------------------------------------
(* The inductive invariant.                                                 *)

EcosystemType == [status : {"none", "ACTIVE", "REVOKED"}, key : BOOLEAN,
                  named : BOOLEAN, located : BOOLEAN, online : BOOLEAN]
EntryType == [until : Ends, took : Seconds]
RequestType == [pc : {"free", "cache", "validating", "locating", "valid",
                      "invalid", "in", "refused"},
                key : Ecosystems \cup {None}, at : Seconds, read : Seconds, took : Seconds,
                gone : BOOLEAN]
OperationType == [kind : {"create", "update", "remove", "key"},
                  pc : {"free", "reading", "identity", "writing", "anchoring"},
                  eco : Ecosystems \cup {None}]

Removed(e) == ecosystem[e].status = "REVOKED"

\* An ecosystem has its key while it is active.  It is created once, nothing
\* but its creation is under way before it exists, and nobody has its key.
OnceCreated ==
    /\ \A e \in Ecosystems : ecosystem[e].key = Active(e)
    /\ \A e \in known : ecosystem[e].status # "none"
    /\ \A e \in Ecosystems : ecosystem[e].status = "none" => valid[e] = NoEntry /\ invalid[e] = 0
    /\ \A r \in Requests : request[r].pc \notin {"free", "refused"} =>
          request[r].key \in Ecosystems /\ ecosystem[request[r].key].status # "none"
    /\ \A o \in Operations : operation[o].pc # "free" =>
          /\ operation[o].eco \in Ecosystems
          /\ (operation[o].kind = "create" /\ operation[o].pc # "anchoring")
                <=> ecosystem[operation[o].eco].status = "none"
          /\ operation[o].pc = "identity" => operation[o].kind = "create"
          /\ operation[o].pc \in {"writing", "anchoring"} => operation[o].kind # "key"
    /\ \A o \in Operations : operation[o].pc = "free" => operation[o].eco = None
    /\ \A o, p \in Operations :
          /\ operation[o].eco # None /\ operation[o].eco = operation[p].eco
          /\ operation[o].kind = "create" /\ operation[p].kind = "create"
          => o = p

\* What was read of a removed ecosystem was read before it was removed, and
\* the entry of its key is not younger than that.
EntriesAge ==
    /\ \A e \in Ecosystems : revokedAt[e] <= clock
    /\ \A e \in Ecosystems : valid[e].until <= clock + PositiveTtl
    /\ \A e \in Ecosystems : Removed(e) => valid[e].until <= revokedAt[e] + PositiveTtl + valid[e].took
    /\ \A r \in Requests : request[r].at <= clock /\ request[r].read <= clock
    /\ \A r \in Requests : request[r].pc \in {"locating", "valid"} /\ Removed(request[r].key) =>
                              request[r].read <= revokedAt[request[r].key]

\* A key of an active ecosystem is taken for a bad one only by a fault, and
\* remembered from there.
FaultsOnly ==
    /\ \A e \in Ecosystems : faultAt[e] # None => faultAt[e] <= clock
    /\ \A r \in Requests : request[r].pc = "invalid" /\ ~request[r].gone /\ Active(request[r].key) =>
          faultAt[request[r].key] # None /\ request[r].at <= faultAt[request[r].key]
    /\ \A e \in Ecosystems : Active(e) /\ invalid[e] # 0 =>
          faultAt[e] # None /\ invalid[e] <= faultAt[e] + NegativeTtl

\* Whoever may still write a removed ecosystem had read it before.
LateWriters ==
    /\ \A r \in Requests : request[r].pc = "locating" /\ Removed(request[r].key) =>
                              request[r].key \in raced
    /\ \A o \in Operations : operation[o].pc = "writing" /\ operation[o].kind = "update"
                                /\ Removed(operation[o].eco) => operation[o].eco \in raced

IInv == TypeOK /\ OnceCreated /\ EntriesAge /\ FaultsOnly /\ LateWriters /\ RemovedIsBlank

-----------------------------------------------------------------------------
\* The initial state satisfies the invariant.
LEMMA InitIInv == Init => IInv
<1> SUFFICES ASSUME Init PROVE IInv
  OBVIOUS
<1> USE KeysAssumption DEF KeysAssumption, Init
<1>1. TypeOK
  BY DEF TypeOK, Seconds, Ends, Missing, NoEntry, NoRequest, NoOperation
<1>2. OnceCreated
  BY DEF OnceCreated, Active, Missing, NoEntry, NoRequest, NoOperation
<1>3. EntriesAge
  BY DEF EntriesAge, Removed, Missing, NoEntry, NoRequest
<1>4. FaultsOnly
  BY DEF FaultsOnly, Active, Missing, NoRequest
<1>5. LateWriters /\ RemovedIsBlank
  BY DEF LateWriters, RemovedIsBlank, Removed, Missing, NoRequest, NoOperation
<1> QED BY <1>1, <1>2, <1>3, <1>4, <1>5 DEF IInv

-----------------------------------------------------------------------------
(* The types.                                                               *)

\* TypeOK by the names of the record sets.
LEMMA Types ==
    TypeOK <=>
    /\ clock \in Seconds /\ redis \in BOOLEAN
    /\ ecosystem \in [Ecosystems -> EcosystemType] /\ known \subseteq Ecosystems
    /\ valid \in [Ecosystems -> EntryType] /\ invalid \in [Ecosystems -> Ends]
    /\ request \in [Requests -> RequestType] /\ operation \in [Operations -> OperationType]
    /\ moves \in 0..MaxMoves /\ revokedAt \in [Ecosystems -> Seconds]
    /\ faultAt \in [Ecosystems -> Seconds \cup {None}] /\ raced \subseteq Ecosystems
BY DEF TypeOK, EcosystemType, EntryType, RequestType, OperationType

\* A request that moves on keeps the type of its record.
LEMMA RequestMoves ==
    ASSUME NEW q \in RequestType,
           NEW l \in {"free", "cache", "validating", "locating", "valid", "invalid", "in", "refused"},
           NEW k \in Ecosystems \cup {None}, NEW s \in Seconds
    PROVE  /\ [q EXCEPT !.pc = l] \in RequestType
           /\ [q EXCEPT !.read = s, !.pc = l] \in RequestType
           /\ [q EXCEPT !.pc = l, !.key = k, !.at = s] \in RequestType
           /\ [q EXCEPT !.pc = l, !.took = s, !.key = k] \in RequestType
BY DEF RequestType

\* A row that is marked keeps the type of its record.
LEMMA RowMarked ==
    ASSUME NEW x \in EcosystemType
    PROVE  /\ [x EXCEPT !.named = TRUE] \in EcosystemType
           /\ [x EXCEPT !.located = TRUE] \in EcosystemType
           /\ [x EXCEPT !.online = TRUE] \in EcosystemType
BY DEF EcosystemType

LEMMA NoRequestType == NoRequest \in RequestType
BY KeysAssumption DEF NoRequest, RequestType, Seconds, KeysAssumption

LEMMA StepType == IInv /\ [Next]_vars => TypeOK'
<1> SUFFICES ASSUME IInv, [Next]_vars PROVE TypeOK'
  OBVIOUS
<1> USE KeysAssumption DEF KeysAssumption
<1>0. /\ clock \in Seconds /\ redis \in BOOLEAN
      /\ ecosystem \in [Ecosystems -> EcosystemType] /\ known \subseteq Ecosystems
      /\ valid \in [Ecosystems -> EntryType] /\ invalid \in [Ecosystems -> Ends]
      /\ request \in [Requests -> RequestType] /\ operation \in [Operations -> OperationType]
      /\ moves \in 0..MaxMoves /\ revokedAt \in [Ecosystems -> Seconds]
      /\ faultAt \in [Ecosystems -> Seconds \cup {None}] /\ raced \subseteq Ecosystems
      /\ OnceCreated /\ EntriesAge
  BY Types DEF IInv
<1> SUFFICES /\ clock' \in Seconds /\ redis' \in BOOLEAN
             /\ ecosystem' \in [Ecosystems -> EcosystemType] /\ known' \subseteq Ecosystems
             /\ valid' \in [Ecosystems -> EntryType] /\ invalid' \in [Ecosystems -> Ends]
             /\ request' \in [Requests -> RequestType] /\ operation' \in [Operations -> OperationType]
             /\ moves' \in 0..MaxMoves /\ revokedAt' \in [Ecosystems -> Seconds]
             /\ faultAt' \in [Ecosystems -> Seconds \cup {None}] /\ raced' \subseteq Ecosystems
  BY DEF TypeOK, EcosystemType, EntryType, RequestType, OperationType
<1>m. ASSUME Move PROVE moves' \in 0..MaxMoves
  BY <1>0, <1>m DEF Move
<1>z. 0 \in Ends /\ 0 \in Seconds
  BY DEF Ends, Seconds
<1>1. CASE UNCHANGED vars
  BY <1>0, <1>1 DEF vars, auth, iot
<1>2. CASE Tick
  BY <1>0, <1>2 DEF Tick, auth, iot, Seconds
<1>3. CASE Restart
  <2>1. [e \in Ecosystems |-> NoEntry] \in [Ecosystems -> EntryType]
    BY <1>z DEF NoEntry, EntryType
  <2>2. ASSUME NEW r \in Requests
        PROVE  [NoRequest EXCEPT !.pc = request[r].pc, !.key = request[r].key, !.gone = TRUE]
                   \in RequestType
    <3>1. request[r].pc \in {"free", "cache", "validating", "locating", "valid", "invalid", "in",
                             "refused"}
          /\ request[r].key \in Ecosystems \cup {None}
      BY <1>0 DEF RequestType
    <3> QED BY <1>z, <3>1 DEF NoRequest, RequestType
  <2>3. request' \in [Requests -> RequestType]
    BY <1>3, <2>2, NoRequestType DEF Restart
  <2> QED BY <1>0, <1>3, <1>m, <1>z, <2>1, <2>3 DEF Restart, auth
<1>4. ASSUME NEW r \in Requests, NEW k \in Ecosystems, Send(r, k) PROVE clock' \in Seconds /\ request' \in [Requests -> RequestType] /\ moves' \in 0..MaxMoves
  BY <1>0, <1>4, <1>m, NoRequestType, RequestMoves DEF Send
<1>5. ASSUME NEW r \in Requests, ReadCaches(r)
      PROVE  request' \in [Requests -> RequestType] /\ invalid' \in [Ecosystems -> Ends]
  <2>1. request[r] \in RequestType /\ request[r].key \in Ecosystems
    BY <1>0, <1>5 DEF ReadCaches, OnceCreated
  <2>2. valid[request[r].key].took \in Seconds
    BY <1>0, <2>1 DEF EntryType
  <2>3. CASE Enter(r, valid[request[r].key].took) /\ UNCHANGED invalid
    BY <1>0, <2>1, <2>2, <2>3, NoRequestType, RequestMoves DEF Enter
  <2>4. CASE Turn(r) /\ UNCHANGED invalid
    BY <1>0, <2>4, NoRequestType, RequestMoves DEF Turn
  <2>5. CASE Goto(r, "validating") /\ invalid' = [invalid EXCEPT ![request[r].key] = 0]
    BY <1>0, <1>z, <2>1, <2>5, RequestMoves DEF Goto
  <2> QED BY <1>5, <2>3, <2>4, <2>5 DEF ReadCaches
<1>6. ASSUME NEW r \in Requests, FindKey(r) PROVE request' \in [Requests -> RequestType]
  <2>1. PICK l \in {"locating", "invalid"} :
           request' = [request EXCEPT ![r] = [request[r] EXCEPT !.read = clock, !.pc = l]]
    BY <1>0, <1>6 DEF FindKey
  <2> QED BY <1>0, <2>1, RequestMoves
<1>7. ASSUME NEW r \in Requests, Locate(r)
      PROVE  /\ request' \in [Requests -> RequestType]
             /\ ecosystem' \in [Ecosystems -> EcosystemType]
             /\ faultAt' \in [Ecosystems -> Seconds \cup {None}]
  <2>1. request[r] \in RequestType /\ request[r].key \in Ecosystems
    BY <1>0, <1>7 DEF Locate, OnceCreated
  <2>2. [ecosystem[request[r].key] EXCEPT !.located = TRUE] \in EcosystemType
    BY <1>0, <2>1, RowMarked
  <2>3. PICK l \in {"valid", "invalid"} : request' = [request EXCEPT ![r] = [request[r] EXCEPT !.pc = l]]
    BY <1>7 DEF Locate, Goto
  <2>4. request' \in [Requests -> RequestType]
    BY <1>0, <2>1, <2>3, RequestMoves
  <2>5. \/ UNCHANGED ecosystem
        \/ ecosystem' = [ecosystem EXCEPT ![request[r].key] =
                            [ecosystem[request[r].key] EXCEPT !.located = TRUE]]
    BY <1>7 DEF Locate
  <2>6. ecosystem' \in [Ecosystems -> EcosystemType]
    BY <1>0, <2>1, <2>2, <2>5
  <2> QED BY <1>0, <1>7, <2>1, <2>4, <2>6 DEF Locate
<1>8. ASSUME NEW r \in Requests, Admit(r)
      PROVE  /\ request' \in [Requests -> RequestType]
             /\ valid' \in [Ecosystems -> EntryType]
             /\ invalid' \in [Ecosystems -> Ends]
  <2>1. request[r] \in RequestType /\ request[r].key \in Ecosystems
    BY <1>0, <1>8 DEF Admit, OnceCreated
  <2>2. clock - request[r].read \in Seconds
    BY <1>0, <2>1 DEF EntriesAge, RequestType, Seconds
  <2>3. Entry(clock - request[r].read) \in EntryType
    BY <1>0, <2>2 DEF Entry, EntryType, Ends, Seconds
  <2>4. request' \in [Requests -> RequestType]
    BY <1>0, <1>8, <2>1, <2>2, NoRequestType, RequestMoves DEF Admit, Enter
  <2> QED BY <1>0, <1>8, <1>z, <2>1, <2>3, <2>4 DEF Admit
<1>9. ASSUME NEW r \in Requests, Refuse(r)
      PROVE  request' \in [Requests -> RequestType] /\ invalid' \in [Ecosystems -> Ends]
  <2>1. request[r] \in RequestType /\ request[r].key \in Ecosystems
    BY <1>0, <1>9 DEF Refuse, OnceCreated
  <2>2. request[r].at + NegativeTtl \in Ends
    BY <2>1 DEF RequestType, Ends, Seconds
  <2> QED BY <1>0, <1>9, <2>1, <2>2, NoRequestType, RequestMoves DEF Refuse, Turn
<1>10. ASSUME NEW r \in Requests, ValidatorFails(r) \/ Done(r)
       PROVE  request' \in [Requests -> RequestType]
  BY <1>0, <1>10, NoRequestType DEF ValidatorFails, Done
<1>n. NoOperation \in OperationType
  BY DEF NoOperation, OperationType
<1>11. ASSUME NEW o \in Operations, NEW kind \in {"create", "update", "remove", "key"},
              NEW e \in Ecosystems, Begin(o, kind, e)
       PROVE  operation' \in [Operations -> OperationType]
  <2>1. [kind |-> kind, pc |-> "reading", eco |-> e] \in OperationType
    BY DEF OperationType
  <2> QED BY <1>0, <1>11, <2>1 DEF Begin
<1>12. ASSUME NEW o \in Operations, NEW l \in {"identity", "writing", "anchoring"}
       PROVE  /\ Step(o, l) => operation' \in [Operations -> OperationType]
              /\ End(o) => operation' \in [Operations -> OperationType]
  <2>1. [operation[o] EXCEPT !.pc = l] \in OperationType
    BY <1>0 DEF OperationType
  <2> QED BY <1>0, <1>n, <2>1 DEF Step, End
<1>13. ASSUME NEW o \in Operations, Write(o)
       PROVE  /\ ecosystem' \in [Ecosystems -> EcosystemType]
              /\ revokedAt' \in [Ecosystems -> Seconds] /\ raced' \subseteq Ecosystems
  <2>1. operation[o].eco \in Ecosystems
    BY <1>0, <1>13 DEF Write, OnceCreated
  <2>2. Blank(operation[o].eco) \in EcosystemType
    BY DEF Blank, Missing, EcosystemType
  <2>3. \A l \in BOOLEAN : [status |-> "ACTIVE", key |-> TRUE, named |-> TRUE, located |-> l,
                            online |-> FALSE] \in EcosystemType
    BY DEF EcosystemType
  <2>4. /\ [ecosystem[operation[o].eco] EXCEPT !.named = TRUE] \in EcosystemType
        /\ [ecosystem[operation[o].eco] EXCEPT !.located = TRUE] \in EcosystemType
    BY <1>0, <2>1, RowMarked
  <2>5. PICK x \in EcosystemType : ecosystem' = [ecosystem EXCEPT ![operation[o].eco] = x]
    BY <1>13, <2>2, <2>3, <2>4 DEF Write
  <2>6. ecosystem' \in [Ecosystems -> EcosystemType]
    BY <1>0, <2>1, <2>5
  <2>7. revokedAt' \in [Ecosystems -> Seconds] /\ raced' \subseteq Ecosystems
    BY <1>0, <1>13, <2>1 DEF Write
  <2> QED BY <2>6, <2>7
<1>14. ASSUME NEW e \in Ecosystems, Heartbeat(e) PROVE ecosystem' \in [Ecosystems -> EcosystemType]
  <2>1. [ecosystem[e] EXCEPT !.online = TRUE] \in EcosystemType
    BY <1>0, RowMarked
  <2> QED BY <1>0, <1>14, <2>1 DEF Heartbeat
<1>15. CASE \E r \in Requests : \E k \in Ecosystems : Send(r, k)
  BY <1>0, <1>4, <1>15 DEF Send, auth
<1>16. CASE \E r \in Requests : ReadCaches(r) \/ FindKey(r) \/ Locate(r)
  BY <1>0, <1>5, <1>6, <1>7, <1>16 DEF ReadCaches, FindKey, Locate, auth
<1>17. CASE \E r \in Requests : Admit(r) \/ Refuse(r) \/ ValidatorFails(r) \/ Done(r)
  BY <1>0, <1>8, <1>9, <1>10, <1>17 DEF Admit, Refuse, ValidatorFails, Done, auth
<1>18. CASE \E o \in Operations : \E kind \in {"create", "update", "remove", "key"}, e \in Ecosystems :
                Begin(o, kind, e)
  <2>1. PICK o \in Operations, kind \in {"create", "update", "remove", "key"}, e \in Ecosystems :
             Begin(o, kind, e)
    BY <1>18
  <2>2. operation' \in [Operations -> OperationType]
    BY <1>11, <2>1
  <2> QED BY <1>0, <1>m, <2>1, <2>2 DEF Begin, iot
<1>19. CASE \E o \in Operations : Read(o) \/ CreateIdentity(o)
  BY <1>0, <1>12, <1>19 DEF Read, GetApiKey, CreateIdentity, OnceCreated, iot
<1>20. CASE \E o \in Operations : Write(o)
  BY <1>0, <1>12, <1>13, <1>20 DEF Write, iot
<1>21. CASE \E o \in Operations : Anchor(o) \/ Fail(o)
  BY <1>0, <1>12, <1>21 DEF Anchor, Fail, OnceCreated, iot
<1>22. CASE \E e \in Ecosystems : Heartbeat(e)
  BY <1>0, <1>m, <1>14, <1>22 DEF Heartbeat, iot
<1> QED BY <1>1, <1>2, <1>3, <1>15, <1>16, <1>17, <1>18, <1>19, <1>20, <1>21, <1>22 DEF Next

-----------------------------------------------------------------------------
(* One lemma for each part of the invariant.  The types they need:          *)

Typed ==
    /\ clock \in Nat
    /\ \A e \in Ecosystems : valid[e].until \in Nat /\ valid[e].took \in Nat
                             /\ invalid[e] \in Nat /\ revokedAt[e] \in Nat
                             /\ (faultAt[e] # None => faultAt[e] \in Nat)
                             /\ ecosystem[e].status \in {"none", "ACTIVE", "REVOKED"}
    /\ \A r \in Requests : request[r].at \in Nat /\ request[r].read \in Nat
                           /\ request[r].key \in Ecosystems \cup {None}
                           /\ request[r].pc \in {"free", "cache", "validating", "locating", "valid",
                                                 "invalid", "in", "refused"}
    /\ \A o \in Operations : operation[o].eco \in Ecosystems \cup {None}
                             /\ operation[o].kind \in {"create", "update", "remove", "key"}
                             /\ operation[o].pc \in {"free", "reading", "identity", "writing", "anchoring"}
    /\ DOMAIN ecosystem = Ecosystems /\ DOMAIN valid = Ecosystems /\ DOMAIN invalid = Ecosystems
    /\ DOMAIN revokedAt = Ecosystems /\ DOMAIN faultAt = Ecosystems
    /\ DOMAIN request = Requests /\ DOMAIN operation = Operations
    /\ known \subseteq Ecosystems /\ raced \subseteq Ecosystems

LEMMA TypedHolds == TypeOK => Typed
<1> SUFFICES ASSUME TypeOK PROVE Typed
  OBVIOUS
<1> USE KeysAssumption DEF KeysAssumption, TypeOK
<1>1. \A s \in Seconds : s \in Nat
  BY DEF Seconds
<1>2. \A s \in Ends : s \in Nat
  BY DEF Ends
<1>3. \A e \in Ecosystems : /\ valid[e].until \in Nat /\ valid[e].took \in Nat
                            /\ invalid[e] \in Nat /\ revokedAt[e] \in Nat
                            /\ (faultAt[e] # None => faultAt[e] \in Nat)
                            /\ ecosystem[e].status \in {"none", "ACTIVE", "REVOKED"}
  BY <1>1, <1>2
<1>4. \A r \in Requests : /\ request[r].at \in Nat /\ request[r].read \in Nat
                          /\ request[r].key \in Ecosystems \cup {None}
                          /\ request[r].pc \in {"free", "cache", "validating", "locating", "valid",
                                                "invalid", "in", "refused"}
  BY <1>1
<1>5. \A o \in Operations : /\ operation[o].eco \in Ecosystems \cup {None}
                            /\ operation[o].kind \in {"create", "update", "remove", "key"}
                            /\ operation[o].pc \in {"free", "reading", "identity", "writing", "anchoring"}
  OBVIOUS
<1> QED BY <1>1, <1>3, <1>4, <1>5 DEF Typed

\* Rows: an ecosystem is created where none was and removed where one was, and
\* has its key while it is active.
LEMMA RowsStep ==
    ASSUME IInv, [Next]_vars, NEW e \in Ecosystems
    PROVE  /\ \/ ecosystem'[e].status = ecosystem[e].status
              \/ /\ ecosystem[e].status = "none" /\ Active(e)'
                 /\ \E o \in Operations : Write(o) /\ operation[o].eco = e /\ operation[o].kind = "create"
              \/ ecosystem[e].status # "none" /\ Removed(e)'
           /\ ecosystem'[e].key = Active(e)'
<1> USE KeysAssumption DEF KeysAssumption
<1>0. Typed /\ OnceCreated
  BY TypedHolds DEF IInv
<1>x. ecosystem \in [Ecosystems -> EcosystemType]
  BY Types DEF IInv
<1>1. CASE UNCHANGED ecosystem
  BY <1>0, <1>1 DEF OnceCreated, Active
<1>2. ASSUME NEW r \in Requests, Locate(r) PROVE ecosystem'[e].status = ecosystem[e].status
                                                 /\ ecosystem'[e].key = ecosystem[e].key
  BY <1>0, <1>x, <1>2 DEF Locate, EcosystemType
<1>3. ASSUME NEW k \in Ecosystems, Heartbeat(k) PROVE ecosystem'[e].status = ecosystem[e].status
                                                 /\ ecosystem'[e].key = ecosystem[e].key
  BY <1>0, <1>x, <1>3 DEF Heartbeat, EcosystemType
<1>4. ASSUME NEW o \in Operations, Write(o)
      PROVE  /\ \/ ecosystem'[e].status = ecosystem[e].status
                \/ /\ ecosystem[e].status = "none" /\ Active(e)'
                   /\ operation[o].eco = e /\ operation[o].kind = "create"
                \/ ecosystem[e].status # "none" /\ Removed(e)'
             /\ ecosystem'[e].key = Active(e)'
  <2>1. CASE operation[o].eco # e
    <3>1. ecosystem'[e] = ecosystem[e]
      BY <1>x, <1>4, <2>1 DEF Write
    <3> QED BY <1>0, <3>1 DEF OnceCreated, Active
  <2>2. CASE operation[o].eco = e
    <3>1. CASE operation[o].kind = "create"
      <4>1. PICK l \in BOOLEAN : ecosystem' = [ecosystem EXCEPT ![e] =
                     [status |-> "ACTIVE", key |-> TRUE, named |-> TRUE, located |-> l, online |-> FALSE]]
        BY <1>4, <2>2, <3>1 DEF Write
      <4> QED BY <1>0, <1>4, <2>2, <3>1, <4>1 DEF Write, Typed, OnceCreated, Active
    <3>2. CASE operation[o].kind = "update"
      <4>1. \/ ecosystem' = [ecosystem EXCEPT ![e] = [ecosystem[e] EXCEPT !.named = TRUE]]
            \/ ecosystem' = [ecosystem EXCEPT ![e] = [ecosystem[e] EXCEPT !.located = TRUE]]
        BY <1>4, <2>2, <3>2 DEF Write
      <4>2. ecosystem'[e].status = ecosystem[e].status /\ ecosystem'[e].key = ecosystem[e].key
        BY <1>x, <4>1 DEF EcosystemType
      <4> QED BY <1>0, <4>2 DEF OnceCreated, Active
    <3>3. CASE operation[o].kind = "remove"
      <4>1. ecosystem' = [ecosystem EXCEPT ![e] = Blank(e)]
        BY <1>4, <2>2, <3>3 DEF Write
      <4>2. Removed(e)' /\ ecosystem'[e].key = FALSE
        BY <1>x, <4>1 DEF Blank, Missing, Removed
      <4> QED BY <1>0, <1>4, <2>2, <3>3, <4>2 DEF Write, OnceCreated, Active, Removed
    <3> QED BY <1>4, <3>1, <3>2, <3>3 DEF Write
  <2> QED BY <2>1, <2>2
<1>5. \/ UNCHANGED ecosystem
      \/ \E r \in Requests : Locate(r)
      \/ \E k \in Ecosystems : Heartbeat(k)
      \/ \E o \in Operations : Write(o)
  BY DEF Next, vars, auth, iot, Tick, Restart, Send, ReadCaches, FindKey, Admit, Refuse,
         ValidatorFails, Done, Begin, Read, GetApiKey, CreateIdentity, Anchor, Fail
<1> QED BY <1>0, <1>1, <1>2, <1>3, <1>4, <1>5 DEF OnceCreated, Active

\* What a step does to one reading: nothing, its end, its beginning, or the
\* next step of authenticateApiKey, with the same key.
LEMMA RequestStep ==
    ASSUME IInv, [Next]_vars, NEW r \in Requests
    PROVE  LET q == request[r]
               p == request'[r]
               same == p.key = q.key /\ p.at = q.at /\ p.gone = q.gone
           IN  \/ p = q
               \/ /\ q.pc \in {"validating", "locating"} /\ p.pc = q.pc /\ p.key = q.key
                  /\ p.at = 0 /\ p.read = 0 /\ p.gone /\ Restart
               \/ p.pc \in {"free", "refused"} /\ p.at = 0 /\ p.read = 0
               \/ p.pc = "in" /\ p.key = q.key /\ p.at = 0 /\ p.read = 0
                  /\ q.pc \in {"cache", "valid"}
               \/ p.pc = "cache" /\ p.key \in known /\ p.at = clock /\ p.read = 0 /\ UNCHANGED clock
               \/ ReadCaches(r) /\ same /\ p.pc = "validating" /\ p.read = q.read
               \/ /\ FindKey(r) /\ same /\ p.read = clock
                  /\ p.pc = IF ecosystem[q.key].key THEN "locating" ELSE "invalid"
               \/ Locate(r) /\ same /\ p.pc \in {"valid", "invalid"} /\ p.read = q.read
<1> USE KeysAssumption DEF KeysAssumption
<1>0. request \in [Requests -> RequestType]
  BY Types DEF IInv
<1>1. CASE UNCHANGED request
  BY <1>0, <1>1
<1>2. ASSUME NEW x \in Requests, x # r,
             \/ \E k \in Ecosystems : Send(x, k)
             \/ ReadCaches(x) \/ FindKey(x) \/ Locate(x) \/ Admit(x) \/ Refuse(x)
             \/ ValidatorFails(x) \/ Done(x)
      PROVE  request'[r] = request[r]
  BY <1>0, <1>2 DEF Send, ReadCaches, FindKey, Locate, Admit, Refuse, ValidatorFails, Done,
                    Goto, Enter, Turn
<1>3. ASSUME NEW k \in Ecosystems, Send(r, k)
      PROVE  request'[r].pc = "cache" /\ request'[r].key \in known /\ request'[r].at = clock
             /\ request'[r].read = 0 /\ UNCHANGED clock
  BY <1>0, <1>3 DEF Send, NoRequest
<1>4. ASSUME NEW took, Enter(r, took)
      PROVE  request'[r].pc = "in" /\ request'[r].key = request[r].key /\ request'[r].at = 0
             /\ request'[r].read = 0
  BY <1>0, <1>4 DEF Enter, NoRequest
<1>5. ASSUME Turn(r)
      PROVE  request'[r].pc = "refused" /\ request'[r].at = 0 /\ request'[r].read = 0
  BY <1>0, <1>5 DEF Turn, NoRequest
<1>6. ASSUME NEW l, Goto(r, l)
      PROVE  request'[r].pc = l /\ request'[r].key = request[r].key /\ request'[r].at = request[r].at
             /\ request'[r].read = request[r].read /\ request'[r].gone = request[r].gone
  BY <1>0, <1>6 DEF Goto, RequestType
<1>7. ASSUME FindKey(r)
      PROVE  /\ request'[r].key = request[r].key /\ request'[r].at = request[r].at
             /\ request'[r].read = clock /\ request'[r].gone = request[r].gone
             /\ request'[r].pc = IF ecosystem[request[r].key].key THEN "locating" ELSE "invalid"
  BY <1>0, <1>7 DEF FindKey, RequestType
<1>8. CASE ReadCaches(r)
  BY <1>8, <1>4, <1>5, <1>6 DEF ReadCaches
<1>9. CASE Locate(r)
  BY <1>9, <1>6 DEF Locate
<1>10. CASE Admit(r)
  BY <1>10, <1>4 DEF Admit
<1>11. CASE Refuse(r)
  BY <1>11, <1>5 DEF Refuse
<1>12. CASE ValidatorFails(r) \/ Done(r)
  BY <1>0, <1>12 DEF ValidatorFails, Done, NoRequest
<1>17. CASE Restart
  <2>1. request'[r] = IF request[r].pc \in {"validating", "locating"}
                      THEN [NoRequest EXCEPT !.pc = request[r].pc, !.key = request[r].key,
                                             !.gone = TRUE]
                      ELSE NoRequest
    BY <1>17 DEF Restart
  <2>2. CASE request[r].pc \in {"validating", "locating"}
    <3>1. /\ request'[r].pc = request[r].pc /\ request'[r].key = request[r].key
          /\ request'[r].at = 0 /\ request'[r].read = 0 /\ request'[r].gone
      BY <2>1, <2>2 DEF NoRequest
    <3> QED BY <1>17, <2>2, <3>1
  <2>3. CASE request[r].pc \notin {"validating", "locating"}
    BY <2>1, <2>3 DEF NoRequest
  <2> QED BY <2>2, <2>3
<1>13. \/ UNCHANGED request
       \/ Restart
       \/ \E x \in Requests :
             \/ \E k \in Ecosystems : Send(x, k)
             \/ ReadCaches(x) \/ FindKey(x) \/ Locate(x) \/ Admit(x) \/ Refuse(x)
             \/ ValidatorFails(x) \/ Done(x)
  BY DEF Next, vars, auth, iot, Tick, Begin, Read, GetApiKey, CreateIdentity, Write, Anchor, Fail, Heartbeat
<1>14. CASE \E x \in Requests \ {r} :
             \/ \E k \in Ecosystems : Send(x, k)
             \/ ReadCaches(x) \/ FindKey(x) \/ Locate(x) \/ Admit(x) \/ Refuse(x)
             \/ ValidatorFails(x) \/ Done(x)
  BY <1>2, <1>14
<1>15. CASE \E k \in Ecosystems : Send(r, k)
  BY <1>3, <1>15
<1> QED BY <1>1, <1>7, <1>8, <1>9, <1>10, <1>11, <1>12, <1>13, <1>14, <1>15, <1>17

\* What a step does to one request of an owner: nothing, its end, its
\* beginning, or its next step.
LEMMA OperationStep ==
    ASSUME IInv, [Next]_vars, NEW o \in Operations
    PROVE  LET q == operation[o]
               p == operation'[o]
               same == p.kind = q.kind /\ p.eco = q.eco
           IN  \/ p = q
               \/ p = NoOperation
               \/ \E kind \in {"create", "update", "remove", "key"}, e \in Ecosystems :
                     Begin(o, kind, e) /\ p.kind = kind /\ p.eco = e /\ p.pc = "reading"
               \/ Read(o) /\ same /\ p.pc = "identity" /\ q.kind = "create"
               \/ Read(o) /\ same /\ p.pc = "writing" /\ q.kind \in {"update", "remove"} /\ Active(q.eco)
               \/ CreateIdentity(o) /\ same /\ p.pc = "writing"
               \/ Write(o) /\ same /\ p.pc = "anchoring"
<1> USE KeysAssumption DEF KeysAssumption
<1>0. operation \in [Operations -> OperationType]
  BY Types DEF IInv
<1>1. CASE UNCHANGED operation
  BY <1>0, <1>1
<1>2. ASSUME NEW x \in Operations, x # o,
             \/ \E kind \in {"create", "update", "remove", "key"}, e \in Ecosystems : Begin(x, kind, e)
             \/ Read(x) \/ CreateIdentity(x) \/ Write(x) \/ Anchor(x) \/ Fail(x)
      PROVE  operation'[o] = operation[o]
  BY <1>0, <1>2 DEF Begin, Read, GetApiKey, CreateIdentity, Write, Anchor, Fail, Step, End
<1>3. ASSUME NEW kind \in {"create", "update", "remove", "key"}, NEW e \in Ecosystems, Begin(o, kind, e)
      PROVE  operation'[o].kind = kind /\ operation'[o].eco = e /\ operation'[o].pc = "reading"
  BY <1>0, <1>3 DEF Begin
<1>4. ASSUME NEW l, Step(o, l)
      PROVE  operation'[o].pc = l /\ operation'[o].kind = operation[o].kind
             /\ operation'[o].eco = operation[o].eco
  BY <1>0, <1>4 DEF Step, OperationType
<1>5. ASSUME End(o) PROVE operation'[o] = NoOperation
  BY <1>0, <1>5 DEF End
<1>6. CASE Read(o)
  BY <1>6, <1>4, <1>5 DEF Read, GetApiKey
<1>7. CASE CreateIdentity(o) \/ Write(o)
  BY <1>7, <1>4 DEF CreateIdentity, Write
<1>8. CASE Anchor(o) \/ Fail(o)
  BY <1>8, <1>5 DEF Anchor, Fail
<1>9. \/ UNCHANGED operation
      \/ \E x \in Operations :
            \/ \E kind \in {"create", "update", "remove", "key"}, e \in Ecosystems : Begin(x, kind, e)
            \/ Read(x) \/ CreateIdentity(x) \/ Write(x) \/ Anchor(x) \/ Fail(x)
  BY DEF Next, vars, auth, iot, Tick, Restart, Send, ReadCaches, FindKey, Locate, Admit, Refuse,
         ValidatorFails, Done, Heartbeat
<1>10. CASE \E x \in Operations \ {o} :
             \/ \E kind \in {"create", "update", "remove", "key"}, e \in Ecosystems : Begin(x, kind, e)
             \/ Read(x) \/ CreateIdentity(x) \/ Write(x) \/ Anchor(x) \/ Fail(x)
  BY <1>2, <1>10
<1>11. CASE \E kind \in {"create", "update", "remove", "key"}, e \in Ecosystems : Begin(o, kind, e)
  BY <1>3, <1>11
<1> QED BY <1>1, <1>6, <1>7, <1>8, <1>9, <1>10, <1>11

\* What a step does to the entries of both caches and to the times on record.
LEMMA EntriesStep ==
    ASSUME IInv, [Next]_vars, NEW e \in Ecosystems
    PROVE  /\ \/ valid'[e] = valid[e]
              \/ valid'[e] = NoEntry
              \/ \E r \in Requests : Admit(r) /\ request[r].key = e
                                     /\ valid'[e] = Entry(clock - request[r].read)
           /\ \/ invalid'[e] = invalid[e]
              \/ invalid'[e] = 0
              \/ \E r \in Requests : Refuse(r) /\ request[r].key = e
                                     /\ invalid'[e] = request[r].at + NegativeTtl
           /\ faultAt'[e] = faultAt[e] \/ faultAt'[e] = clock
           /\ revokedAt'[e] = IF Removed(e)' /\ Active(e) THEN clock ELSE revokedAt[e]
           /\ clock' = clock \/ clock' = clock + 1
<1>0. /\ valid \in [Ecosystems -> EntryType] /\ invalid \in [Ecosystems -> Ends]
      /\ faultAt \in [Ecosystems -> Seconds \cup {None}]
      /\ revokedAt \in [Ecosystems -> Seconds]
      /\ ecosystem \in [Ecosystems -> EcosystemType]
      /\ OnceCreated
  BY Types DEF IInv
<1>1. \/ valid'[e] = valid[e]
      \/ valid'[e] = NoEntry
      \/ \E r \in Requests : Admit(r) /\ request[r].key = e
                             /\ valid'[e] = Entry(clock - request[r].read)
  <2>1. CASE UNCHANGED valid
    BY <2>1
  <2>2. CASE Restart
    BY <2>2 DEF Restart
  <2>3. CASE \E r \in Requests : Admit(r)
    BY <1>0, <2>3 DEF Admit
  <2> QED BY <2>1, <2>2, <2>3 DEF Next, vars, auth, iot, Tick, Send, ReadCaches, FindKey, Locate, Refuse,
         ValidatorFails, Done, Begin, Read, GetApiKey, CreateIdentity, Write, Anchor, Fail, Heartbeat
<1>2. \/ invalid'[e] = invalid[e]
      \/ invalid'[e] = 0
      \/ \E r \in Requests : Refuse(r) /\ request[r].key = e
                             /\ invalid'[e] = request[r].at + NegativeTtl
  <2>1. CASE UNCHANGED invalid
    BY <2>1
  <2>2. CASE Restart
    BY <2>2 DEF Restart
  <2>3. CASE \E r \in Requests : Admit(r) \/ ReadCaches(r)
    BY <1>0, <2>3 DEF Admit, ReadCaches
  <2>4. CASE \E r \in Requests : Refuse(r)
    BY <1>0, <2>4 DEF Refuse
  <2> QED BY <2>1, <2>2, <2>3, <2>4 DEF Next, vars, auth, iot, Tick, Send, FindKey, Locate,
         ValidatorFails, Done, Begin, Read, GetApiKey, CreateIdentity, Write, Anchor, Fail, Heartbeat
<1>3. faultAt'[e] = faultAt[e] \/ faultAt'[e] = clock
  <2>1. CASE \E r \in Requests : Locate(r)
    BY <1>0, <2>1 DEF Locate
  <2> QED BY <2>1 DEF Next, vars, auth, iot, Tick, Restart, Send, ReadCaches, FindKey, Admit, Refuse,
         ValidatorFails, Done, Begin, Read, GetApiKey, CreateIdentity, Write, Anchor, Fail, Heartbeat
<1>4. revokedAt'[e] = IF Removed(e)' /\ Active(e) THEN clock ELSE revokedAt[e]
  <2>x. ecosystem \in [Ecosystems -> EcosystemType]
    BY <1>0
  <2>1. ASSUME NEW r \in Requests, Locate(r) PROVE ecosystem'[e].status = ecosystem[e].status
    BY <2>x, <2>1 DEF Locate, EcosystemType
  <2>2. ASSUME NEW k \in Ecosystems, Heartbeat(k) PROVE ecosystem'[e].status = ecosystem[e].status
    BY <1>0, <2>2 DEF Heartbeat, EcosystemType
  <2>3. ASSUME NEW o \in Operations, Write(o)
        PROVE  revokedAt'[e] = IF Removed(e)' /\ Active(e) THEN clock ELSE revokedAt[e]
    <3>1. operation[o].eco \in Ecosystems
      BY <1>0, <2>3 DEF Write, OnceCreated
    <3>2. CASE operation[o].eco # e
      BY <1>0, <2>3, <3>1, <3>2 DEF Write, Removed, Active
    <3>3. CASE operation[o].eco = e /\ operation[o].kind = "remove"
      <4>1. ecosystem'[e].status = "REVOKED"
        BY <1>0, <2>3, <3>3 DEF Write, Blank, Missing
      <4> QED BY <1>0, <2>3, <3>3, <4>1 DEF Write, Removed, Active
    <3>4. CASE operation[o].eco = e /\ operation[o].kind = "update"
      <4>1. \/ ecosystem' = [ecosystem EXCEPT ![e] = [ecosystem[e] EXCEPT !.named = TRUE]]
            \/ ecosystem' = [ecosystem EXCEPT ![e] = [ecosystem[e] EXCEPT !.located = TRUE]]
        BY <2>3, <3>4 DEF Write
      <4>2. ecosystem'[e].status = ecosystem[e].status
        BY <1>0, <4>1 DEF EcosystemType
      <4> QED BY <1>0, <2>3, <3>4, <4>2 DEF Write, Removed, Active
    <3>5. CASE operation[o].eco = e /\ operation[o].kind = "create"
      <4>1. ecosystem[e].status = "none"
        BY <1>0, <2>3, <3>5 DEF Write, OnceCreated
      <4> QED BY <1>0, <2>3, <3>5, <4>1 DEF Write, Removed, Active
    <3> QED BY <2>3, <3>2, <3>3, <3>4, <3>5 DEF Write
  <2>4. CASE UNCHANGED <<ecosystem, revokedAt>>
    BY <2>4 DEF Removed, Active
  <2>5. CASE \E r \in Requests : Locate(r)
    BY <2>1, <2>5 DEF Locate, Removed, Active
  <2>6. CASE \E k \in Ecosystems : Heartbeat(k)
    BY <2>2, <2>6 DEF Heartbeat, Removed, Active
  <2> QED BY <2>3, <2>4, <2>5, <2>6 DEF Next, vars, auth, iot, Tick, Restart, Send, ReadCaches, FindKey,
         Admit, Refuse, ValidatorFails, Done, Begin, Read, GetApiKey, CreateIdentity, Anchor, Fail
<1>5. clock' = clock \/ clock' = clock + 1
  BY DEF Next, vars, auth, iot, Tick, Restart, Send, ReadCaches, FindKey, Locate, Admit, Refuse,
         ValidatorFails, Done, Begin, Read, GetApiKey, CreateIdentity, Write, Anchor, Fail, Heartbeat
<1> QED BY <1>1, <1>2, <1>3, <1>4, <1>5

\* Creation happens once and everything else after it.
LEMMA OnceStep == IInv /\ [Next]_vars => OnceCreated'
<1> SUFFICES ASSUME IInv, [Next]_vars PROVE OnceCreated'
  OBVIOUS
<1> USE KeysAssumption DEF KeysAssumption
<1>0. Typed /\ OnceCreated
  BY TypedHolds DEF IInv
<1>t. operation \in [Operations -> OperationType]
  BY Types DEF IInv
<1>1. \A e \in Ecosystems : ecosystem'[e].key = Active(e)'
  BY RowsStep
<1>2. \A e \in Ecosystems : ecosystem'[e].status = "none" => ecosystem[e].status = "none"
  BY <1>0, RowsStep DEF Active, Removed
<1>3. \A e \in known' : ecosystem'[e].status # "none"
  <2>1. \A e \in known' : e \in known \/ (\E o \in Operations : Read(o) /\ operation[o].eco = e
                                             /\ ecosystem[e].key)
                                      \/ (\E o \in Operations : Anchor(o) /\ operation[o].eco = e)
    BY <1>0 DEF Next, vars, auth, iot, Tick, Restart, Send, ReadCaches, FindKey, Locate, Admit,
         Refuse, ValidatorFails, Done, Begin, Read, GetApiKey, CreateIdentity, Write, Anchor, Fail, Heartbeat
  <2>2. \A e \in known' : e \in Ecosystems /\ ecosystem[e].status # "none"
    BY <1>0, <2>1 DEF OnceCreated, Typed, Active, Read, GetApiKey, Anchor
  <2> QED BY <1>2, <2>2
<1>4. \A e \in Ecosystems : ecosystem'[e].status = "none" => valid'[e] = NoEntry /\ invalid'[e] = 0
  BY <1>0, <1>2, EntriesStep DEF OnceCreated, Admit, Refuse
<1>5. \A r \in Requests : request'[r].pc \notin {"free", "refused"} =>
          request'[r].key \in Ecosystems /\ ecosystem'[request'[r].key].status # "none"
  <2> SUFFICES ASSUME NEW r \in Requests, request'[r].pc \notin {"free", "refused"}
               PROVE  request'[r].key \in Ecosystems /\ ecosystem[request'[r].key].status # "none"
    BY <1>2
  <2>1. \/ request'[r].key = request[r].key /\ request[r].pc \notin {"free", "refused"}
        \/ request'[r].key \in known
    BY RequestStep DEF ReadCaches, FindKey, Locate
  <2> QED BY <1>0, <2>1 DEF OnceCreated, Typed
<1>6. ASSUME NEW o \in Operations, operation'[o].pc # "free"
      PROVE  /\ operation'[o].eco \in Ecosystems
             /\ operation'[o].pc = "identity" => operation'[o].kind = "create"
             /\ operation'[o].pc \in {"writing", "anchoring"} => operation'[o].kind # "key"
             /\ (operation'[o].kind = "create" /\ operation'[o].pc # "anchoring")
                  <=> ecosystem'[operation'[o].eco].status = "none"
  <2>a. CASE operation'[o] = operation[o]
    <3>1. ASSUME NEW w \in Operations, Write(w), operation[w].kind = "create",
                 operation[w].eco = operation[o].eco, operation[o].kind = "create"
          PROVE  operation[o].pc = "anchoring"
      <4>1. w = o
        <5>1. operation[o].eco # None
          BY <1>0, <1>6, <2>a DEF OnceCreated
        <5> QED BY <1>0, <3>1, <5>1 DEF OnceCreated
      <4> QED BY <1>t, <2>a, <3>1, <4>1 DEF Write, Step, OperationType
    <3>2. ecosystem[operation[o].eco].status = "none" => ecosystem'[operation[o].eco].status = "none"
      BY <1>0, <1>6, <2>a, <3>1, RowsStep DEF OnceCreated, Active, Removed
    <3> QED BY <1>0, <1>2, <1>6, <2>a, <3>2 DEF OnceCreated
  <2>b. CASE operation'[o] = NoOperation
    BY <1>6, <2>b DEF NoOperation
  <2>c. ASSUME NEW kind \in {"create", "update", "remove", "key"}, NEW e \in Ecosystems,
               Begin(o, kind, e), operation'[o].kind = kind, operation'[o].eco = e,
               operation'[o].pc = "reading"
        PROVE  /\ operation'[o].eco \in Ecosystems
               /\ (operation'[o].kind = "create") <=> ecosystem'[operation'[o].eco].status = "none"
    BY <2>c DEF Begin
  <2>d. ASSUME UNCHANGED ecosystem, operation[o].pc \in {"reading", "identity"},
               operation'[o].kind = operation[o].kind, operation'[o].eco = operation[o].eco,
               \/ operation'[o].pc = "identity" /\ operation[o].kind = "create"
               \/ operation'[o].pc = "writing" /\ operation[o].kind # "key"
        PROVE  /\ operation'[o].eco \in Ecosystems
               /\ operation'[o].pc = "identity" => operation'[o].kind = "create"
               /\ operation'[o].pc \in {"writing", "anchoring"} => operation'[o].kind # "key"
               /\ (operation'[o].kind = "create" /\ operation'[o].pc # "anchoring")
                    <=> ecosystem'[operation'[o].eco].status = "none"
    BY <1>0, <2>d DEF OnceCreated
  <2>f. CASE Read(o) /\ operation'[o].pc \in {"identity", "writing"}
             /\ operation'[o].kind = operation[o].kind /\ operation'[o].eco = operation[o].eco
             /\ (operation'[o].pc = "identity" => operation[o].kind = "create")
             /\ (operation'[o].pc = "writing" => operation[o].kind \in {"update", "remove"})
    BY <2>d, <2>f DEF Read, GetApiKey
  <2>g. CASE CreateIdentity(o) /\ operation'[o].pc = "writing"
             /\ operation'[o].kind = operation[o].kind /\ operation'[o].eco = operation[o].eco
    BY <1>0, <2>d, <2>g DEF CreateIdentity, OnceCreated
  <2>e. CASE Write(o)
    <3>1. ecosystem'[operation[o].eco].status # "none"
      <4>1. CASE operation[o].kind = "create"
        <5>1. PICK l \in BOOLEAN : ecosystem' = [ecosystem EXCEPT ![operation[o].eco] =
                     [status |-> "ACTIVE", key |-> TRUE, named |-> TRUE, located |-> l, online |-> FALSE]]
          BY <2>e, <4>1 DEF Write
        <5> QED BY <1>0, <2>e, <5>1 DEF Write, OnceCreated, Typed
      <4>2. CASE operation[o].kind # "create"
        BY <1>0, <1>2, <2>e, <4>2 DEF Write, OnceCreated
      <4> QED BY <4>1, <4>2
    <3>2. operation'[o].kind = operation[o].kind /\ operation'[o].eco = operation[o].eco
          /\ operation'[o].pc = "anchoring"
      BY <1>t, <2>e DEF Write, Step, OperationType
    <3> QED BY <1>0, <2>e, <3>1, <3>2 DEF Write, OnceCreated
  <2> QED BY <1>6, <2>a, <2>b, <2>c, <2>e, <2>f, <2>g, OperationStep
<1>7. \A o \in Operations : operation'[o].pc = "free" => operation'[o].eco = None
  BY <1>0, OperationStep DEF OnceCreated, NoOperation
<1>8. ASSUME NEW o \in Operations, NEW p \in Operations,
             operation'[o].eco # None, operation'[o].eco = operation'[p].eco,
             operation'[o].kind = "create", operation'[p].kind = "create"
      PROVE  o = p
  <2>1. ASSUME NEW x \in Operations, operation'[x].eco # None
        PROVE  \/ operation'[x].kind = operation[x].kind /\ operation'[x].eco = operation[x].eco
               \/ \E e \in Ecosystems : Begin(x, operation'[x].kind, e) /\ operation'[x].eco = e
    BY <2>1, OperationStep DEF NoOperation
  <2>2. ASSUME NEW x \in Operations, NEW y \in Operations, NEW e \in Ecosystems,
               Begin(x, "create", e), operation'[y].eco = e, operation'[y].kind = "create"
        PROVE  x = y
    BY <1>0, <2>2 DEF Begin, Typed
  <2> QED BY <1>0, <1>8, <2>1, <2>2 DEF OnceCreated
<1> QED BY <1>1, <1>3, <1>4, <1>5, <1>6, <1>7, <1>8 DEF OnceCreated, Active

\* The entry of a key is not younger than the last time the key was read.
LEMMA AgeStep == IInv /\ [Next]_vars => EntriesAge'
<1> SUFFICES ASSUME IInv, [Next]_vars PROVE EntriesAge'
  OBVIOUS
<1> USE KeysAssumption DEF KeysAssumption
<1>0. Typed /\ OnceCreated /\ EntriesAge
  BY TypedHolds DEF IInv
<1>1. clock' = clock \/ clock' = clock + 1
  <2>1. CASE Ecosystems = {}
    BY DEF Next, vars, auth, iot, Tick, Restart, Send, ReadCaches, FindKey, Locate, Admit, Refuse,
           ValidatorFails, Done, Begin, Read, GetApiKey, CreateIdentity, Write, Anchor, Fail, Heartbeat
  <2>2. CASE Ecosystems # {}
    BY <2>2, EntriesStep
  <2> QED BY <2>1, <2>2
<1>2. \A e \in Ecosystems : revokedAt'[e] <= clock'
  BY <1>0, <1>1, EntriesStep DEF EntriesAge, Typed
<1>3. ASSUME NEW e \in Ecosystems PROVE valid'[e].until <= clock' + PositiveTtl
  <2>1. CASE valid'[e] = valid[e]
    BY <1>0, <1>1, <1>3, <2>1 DEF EntriesAge, Typed
  <2>2. CASE valid'[e] = NoEntry
    BY <1>0, <1>1, <2>2 DEF NoEntry, Typed
  <2>3. ASSUME NEW r \in Requests, valid'[e] = Entry(clock - request[r].read)
        PROVE  valid'[e].until <= clock' + PositiveTtl
    BY <1>0, <1>1, <2>3 DEF Entry, Typed
  <2> QED BY <2>1, <2>2, <2>3, EntriesStep
<1>4. ASSUME NEW e \in Ecosystems, Removed(e)'
      PROVE  valid'[e].until <= revokedAt'[e] + PositiveTtl + valid'[e].took
  <2>0. ecosystem[e].status # "none"
    BY <1>0, <1>4, RowsStep DEF Active, Removed
  <2>1. CASE valid'[e] = valid[e]
    <3>1. CASE Active(e)
      <4>1. revokedAt'[e] = clock
        BY <1>4, <3>1, EntriesStep
      <4> QED BY <1>0, <2>1, <4>1 DEF EntriesAge, Typed
    <3>2. CASE ~Active(e)
      <4>1. revokedAt'[e] = revokedAt[e]
        BY <3>2, EntriesStep
      <4>2. Removed(e)
        BY <1>0, <2>0, <3>2 DEF Typed, Active, Removed
      <4> QED BY <1>0, <2>1, <4>1, <4>2 DEF EntriesAge, Typed
    <3> QED BY <3>1, <3>2
  <2>2. CASE valid'[e] = NoEntry
    <3>1. revokedAt'[e] \in Nat
      BY <1>0, EntriesStep DEF Typed
    <3> QED BY <2>2, <3>1 DEF NoEntry
  <2>3. ASSUME NEW r \in Requests, Admit(r), request[r].key = e, valid'[e] = Entry(clock - request[r].read)
        PROVE  valid'[e].until <= revokedAt'[e] + PositiveTtl + valid'[e].took
    <3>1. UNCHANGED ecosystem /\ UNCHANGED revokedAt /\ request[r].pc = "valid"
      BY <2>3 DEF Admit, auth
    <3>2. request[r].read <= revokedAt[e]
      BY <1>0, <1>4, <2>3, <3>1 DEF EntriesAge, Removed
    <3> QED BY <1>0, <2>3, <3>1, <3>2 DEF Entry, Typed
  <2> QED BY <2>1, <2>2, <2>3, EntriesStep
<1>5. \A r \in Requests : request'[r].at <= clock' /\ request'[r].read <= clock'
  <2> SUFFICES ASSUME NEW r \in Requests PROVE request'[r].at <= clock' /\ request'[r].read <= clock'
    OBVIOUS
  <2>1. /\ request'[r].at = request[r].at \/ request'[r].at = 0 \/ request'[r].at = clock
        /\ request'[r].read = request[r].read \/ request'[r].read = 0 \/ request'[r].read = clock
    BY RequestStep
  <2> QED BY <1>0, <1>1, <2>1 DEF EntriesAge, Typed
<1>6. ASSUME NEW r \in Requests, request'[r].pc \in {"locating", "valid"}, ecosystem'[request'[r].key].status = "REVOKED"
      PROVE  request'[r].read <= revokedAt'[request'[r].key]
  <2>1. /\ request'[r].key = request[r].key
        /\ \/ request'[r].pc = request[r].pc /\ request'[r].read = request[r].read
           \/ request'[r].pc = request[r].pc /\ request'[r].read = 0 /\ Restart
           \/ FindKey(r) /\ ecosystem[request[r].key].key
           \/ Locate(r) /\ request'[r].read = request[r].read
    BY <1>6, RequestStep
  <2>2. request[r].key \in Ecosystems
    BY <1>0, <1>6, <2>1 DEF OnceCreated, FindKey, Locate
  <2>3. ~(FindKey(r) /\ ecosystem[request[r].key].key)
    BY <1>0, <1>6, <2>1, <2>2 DEF FindKey, auth, OnceCreated, Active, Removed
  <2>r. CASE Restart /\ request'[r].read = 0
    <3>1. revokedAt'[request[r].key] \in Nat
      BY <1>0, <2>r, <2>2 DEF Restart, auth, Typed
    <3> QED BY <2>1, <2>r, <3>1
  <2> SUFFICES ASSUME ~(Restart /\ request'[r].read = 0)
               PROVE  request'[r].read <= revokedAt'[request'[r].key]
    BY <2>r
  <2>4. request[r].pc \in {"locating", "valid"} /\ request'[r].read = request[r].read
    BY <1>6, <2>1, <2>3 DEF Locate
  <2>5. CASE Active(request[r].key)
    <3>1. revokedAt'[request[r].key] = clock
      BY <1>6, <2>1, <2>2, <2>5, EntriesStep DEF Active, Removed
    <3> QED BY <1>0, <2>1, <2>4, <3>1 DEF EntriesAge
  <2>6. CASE ~Active(request[r].key)
    <3>1. revokedAt'[request[r].key] = revokedAt[request[r].key]
      BY <2>2, <2>6, EntriesStep
    <3>2. Removed(request[r].key)
      BY <1>0, <2>2, <2>4, <2>6 DEF OnceCreated, Active, Removed, Typed
    <3> QED BY <1>0, <2>1, <2>4, <3>1, <3>2 DEF EntriesAge
  <2> QED BY <2>5, <2>6
<1> QED BY <1>2, <1>3, <1>4, <1>5, <1>6 DEF EntriesAge, Removed

\* A key that is taken for a bad one had a fault not before that request came.
LEMMA FaultsStep == IInv /\ [Next]_vars => FaultsOnly'
<1> SUFFICES ASSUME IInv, [Next]_vars PROVE FaultsOnly'
  OBVIOUS
<1> USE KeysAssumption DEF KeysAssumption
<1>0. Typed /\ OnceCreated /\ EntriesAge /\ FaultsOnly
  BY TypedHolds DEF IInv
<1>1. \A e \in Ecosystems : /\ clock' = clock \/ clock' = clock + 1
                            /\ faultAt'[e] = faultAt[e] \/ faultAt'[e] = clock
  BY EntriesStep
<1>2. \A e \in Ecosystems : faultAt'[e] # None => faultAt'[e] <= clock'
  BY <1>0, <1>1 DEF FaultsOnly, Typed
<1>3. \A e \in Ecosystems : Active(e)' => ecosystem[e].status \in {"none", "ACTIVE"}
  BY <1>0, RowsStep DEF Active, Removed, Typed
<1>4. ASSUME NEW r \in Requests, request'[r].pc = "invalid", ~request'[r].gone, ecosystem'[request'[r].key].status = "ACTIVE"
      PROVE  faultAt'[request'[r].key] # None /\ request'[r].at <= faultAt'[request'[r].key]
  <2>1. /\ request'[r].key = request[r].key /\ request'[r].at = request[r].at
        /\ request'[r].gone = request[r].gone
        /\ \/ request[r].pc = "invalid"
           \/ FindKey(r) /\ ~ecosystem[request[r].key].key
           \/ Locate(r)
    BY <1>4, RequestStep
  <2>2. request[r].key \in Ecosystems /\ ecosystem[request[r].key].status # "none"
    BY <1>0, <2>1 DEF OnceCreated, FindKey, Locate
  <2>3. Active(request[r].key)
    BY <1>3, <1>4, <2>1, <2>2 DEF Active
  <2>4. CASE request[r].pc = "invalid"
    BY <1>0, <1>1, <1>4, <2>1, <2>2, <2>3, <2>4 DEF FaultsOnly, EntriesAge, Typed
  <2>5. CASE Locate(r)
    <3>1. faultAt'[request[r].key] = clock
      BY <1>0, <1>4, <2>2, <2>5, Types DEF Locate, Goto, Typed, IInv, RequestType
    <3> QED BY <1>0, <2>1, <3>1 DEF EntriesAge, Typed
  <2> QED BY <1>0, <2>1, <2>2, <2>3, <2>4, <2>5 DEF OnceCreated
<1>5. ASSUME NEW e \in Ecosystems, Active(e)', invalid'[e] # 0
      PROVE  faultAt'[e] # None /\ invalid'[e] <= faultAt'[e] + NegativeTtl
  <2>1. CASE invalid'[e] = invalid[e]
    <3>1. Active(e)
      BY <1>0, <1>3, <1>5, <2>1 DEF OnceCreated, Active
    <3> QED BY <1>0, <1>1, <1>5, <2>1, <3>1 DEF FaultsOnly, Typed
  <2>2. ASSUME NEW r \in Requests, Refuse(r), request[r].key = e, invalid'[e] = request[r].at + NegativeTtl
        PROVE  faultAt'[e] # None /\ invalid'[e] <= faultAt'[e] + NegativeTtl
    <3>1. UNCHANGED ecosystem /\ UNCHANGED faultAt /\ request[r].pc = "invalid" /\ ~request[r].gone
      BY <2>2 DEF Refuse, auth
    <3>2. faultAt[e] # None /\ request[r].at <= faultAt[e]
      BY <1>0, <1>5, <2>2, <3>1 DEF FaultsOnly, Active
    <3> QED BY <1>0, <2>2, <3>1, <3>2 DEF Typed
  <2> QED BY <1>5, <2>1, <2>2, EntriesStep
<1> QED BY <1>2, <1>4, <1>5 DEF FaultsOnly, Active

\* Nothing is written into a removed row by who read it after.
LEMMA LateStep == IInv /\ [Next]_vars => LateWriters' /\ RemovedIsBlank'
<1> SUFFICES ASSUME IInv, [Next]_vars PROVE LateWriters' /\ RemovedIsBlank'
  OBVIOUS
<1> USE KeysAssumption DEF KeysAssumption
<1>0. Typed /\ OnceCreated /\ LateWriters /\ RemovedIsBlank
  BY TypedHolds DEF IInv
<1>x. /\ ecosystem \in [Ecosystems -> EcosystemType] /\ operation \in [Operations -> OperationType]
      /\ raced \subseteq Ecosystems
  BY Types DEF IInv
<1>1. raced \subseteq raced'
  BY DEF Next, vars, auth, iot, Tick, Restart, Send, ReadCaches, FindKey, Locate, Admit, Refuse,
         ValidatorFails, Done, Begin, Read, GetApiKey, CreateIdentity, Write, Anchor, Fail, Heartbeat
\* a row that is removed now was removed before, or whoever had read it is noted
<1>2. ASSUME NEW e \in Ecosystems, Removed(e)', ~Removed(e)
      PROVE  /\ Readers(e) # {} => e \in raced'
             /\ ecosystem'[e] = Blank(e)
             /\ \E o \in Operations : Write(o)
  <2>1. ASSUME NEW o \in Operations, Write(o)
        PROVE  ecosystem'[e] = Blank(e) /\ (Readers(e) # {} => e \in raced')
    <3>1. operation[o].eco \in Ecosystems
      BY <1>0, <2>1 DEF Write, OnceCreated
    <3>2. operation[o].eco = e
      BY <1>2, <1>x, <2>1, <3>1 DEF Write, Removed
    <3>3. operation[o].kind # "create"
      <4>1. SUFFICES ASSUME operation[o].kind = "create" PROVE FALSE
        OBVIOUS
      <4>2. ecosystem[e].status = "none"
        BY <1>0, <2>1, <3>2, <4>1 DEF Write, OnceCreated
      <4>3. PICK l \in BOOLEAN : ecosystem' = [ecosystem EXCEPT ![e] =
               [status |-> "ACTIVE", key |-> TRUE, named |-> TRUE, located |-> l, online |-> FALSE]]
        BY <2>1, <3>2, <4>1 DEF Write
      <4> QED BY <1>2, <1>x, <4>3 DEF Removed
    <3>4. operation[o].kind # "update"
      <4>1. SUFFICES ASSUME operation[o].kind = "update" PROVE FALSE
        OBVIOUS
      <4>2. \/ ecosystem' = [ecosystem EXCEPT ![e] = [ecosystem[e] EXCEPT !.named = TRUE]]
            \/ ecosystem' = [ecosystem EXCEPT ![e] = [ecosystem[e] EXCEPT !.located = TRUE]]
        BY <2>1, <3>2, <4>1 DEF Write
      <4>3. ecosystem'[e].status = ecosystem[e].status
        BY <1>x, <4>2 DEF EcosystemType
      <4> QED BY <1>2, <4>3 DEF Removed
    <3> QED BY <1>x, <2>1, <3>2, <3>3, <3>4 DEF Write
  <2>2. ASSUME NEW r \in Requests, Locate(r) PROVE FALSE
    BY <1>x, <1>2, <2>2 DEF Locate, EcosystemType, Removed
  <2>3. ASSUME NEW k \in Ecosystems, Heartbeat(k) PROVE FALSE
    BY <1>x, <1>2, <2>3 DEF Heartbeat, EcosystemType, Removed
  <2>4. ~UNCHANGED ecosystem
    BY <1>2 DEF Removed
  <2> QED BY <2>1, <2>2, <2>3, <2>4 DEF Next, vars, auth, iot, Tick, Restart, Send, ReadCaches, FindKey,
         Admit, Refuse, ValidatorFails, Done, Begin, Read, GetApiKey, CreateIdentity, Anchor, Fail
<1>3. ASSUME NEW r \in Requests, request'[r].pc = "locating", ecosystem'[request'[r].key].status = "REVOKED"
      PROVE  request'[r].key \in raced'
  <2>1. /\ request'[r].key = request[r].key
        /\ \/ request[r].pc = "locating"
           \/ FindKey(r) /\ ecosystem[request[r].key].key
    BY <1>3, RequestStep
  <2>2. request[r].key \in Ecosystems
    BY <1>0, <2>1 DEF OnceCreated, FindKey
  <2>3. request[r].pc = "locating"
    BY <1>0, <1>3, <2>1, <2>2 DEF FindKey, auth, OnceCreated, Active, Removed
  <2>4. CASE Removed(request[r].key)
    BY <1>0, <1>1, <2>1, <2>3, <2>4 DEF LateWriters
  <2>5. CASE ~Removed(request[r].key)
    BY <1>2, <1>3, <2>1, <2>2, <2>3, <2>5 DEF Readers, Removed
  <2> QED BY <2>4, <2>5
<1>4. ASSUME NEW o \in Operations, operation'[o].pc = "writing", operation'[o].kind = "update",
             ecosystem'[operation'[o].eco].status = "REVOKED"
      PROVE  operation'[o].eco \in raced'
  <2>1. \/ operation'[o] = operation[o]
        \/ Read(o) /\ operation'[o].eco = operation[o].eco /\ Active(operation[o].eco)
        \/ CreateIdentity(o) /\ operation'[o].kind = operation[o].kind
    BY <1>4, OperationStep DEF NoOperation
  <2>2. operation'[o] = operation[o]
    BY <1>0, <1>4, <2>1 DEF Read, GetApiKey, CreateIdentity, OnceCreated, Active, Removed
  <2>3. operation[o].eco \in Ecosystems
    BY <1>0, <1>4, <2>2 DEF OnceCreated
  <2>4. CASE Removed(operation[o].eco)
    BY <1>0, <1>1, <1>4, <2>2, <2>4 DEF LateWriters
  <2>5. CASE ~Removed(operation[o].eco)
    BY <1>2, <1>4, <2>2, <2>3, <2>5 DEF Readers, Removed
  <2> QED BY <2>4, <2>5
<1>5. ASSUME NEW e \in Ecosystems, Removed(e)'
      PROVE  ~ecosystem'[e].key /\ (ecosystem'[e].named \/ ecosystem'[e].located => e \in raced')
  <2>1. ~ecosystem'[e].key
    BY <1>5, RowsStep DEF Active, Removed
  <2>2. CASE ~Removed(e)
    BY <1>2, <1>5, <2>1, <2>2 DEF Blank, Missing
  <2>3. CASE Removed(e) /\ e \in raced
    BY <1>1, <2>1, <2>3
  <2>4. CASE Removed(e) /\ e \notin raced
    <3>0. ~ecosystem[e].named /\ ~ecosystem[e].located
      BY <1>0, <2>4 DEF RemovedIsBlank, Removed
    <3>1. ASSUME NEW r \in Requests, Locate(r) PROVE ecosystem'[e] = ecosystem[e]
      BY <1>0, <1>x, <2>4, <3>1 DEF Locate, LateWriters
    <3>2. ASSUME NEW k \in Ecosystems, Heartbeat(k)
          PROVE  ecosystem'[e].named = ecosystem[e].named /\ ecosystem'[e].located = ecosystem[e].located
      BY <1>x, <3>2 DEF Heartbeat, EcosystemType
    <3>3. ASSUME NEW o \in Operations, Write(o)
          PROVE  ecosystem'[e] = ecosystem[e] \/ ecosystem'[e] = Blank(e)
      <4>1. CASE operation[o].eco = e
        <5>1. operation[o].kind # "create"
          BY <1>0, <2>4, <3>3, <4>1 DEF Write, OnceCreated, Removed
        <5>2. operation[o].kind # "update"
          BY <1>0, <2>4, <3>3, <4>1 DEF Write, LateWriters
        <5> QED BY <1>x, <3>3, <4>1, <5>1, <5>2 DEF Write
      <4>2. CASE operation[o].eco # e
        BY <1>x, <3>3, <4>2 DEF Write
      <4> QED BY <4>1, <4>2
    <3>4. \/ ecosystem'[e].named = ecosystem[e].named /\ ecosystem'[e].located = ecosystem[e].located
          \/ ecosystem'[e] = Blank(e)
      <4>1. CASE UNCHANGED ecosystem
        BY <4>1
      <4> QED BY <3>1, <3>2, <3>3, <4>1 DEF Next, vars, auth, iot, Tick, Restart, Send, ReadCaches,
               FindKey, Admit, Refuse, ValidatorFails, Done, Begin, Read, GetApiKey, CreateIdentity, Anchor, Fail
    <3> QED BY <2>1, <3>0, <3>4 DEF Blank, Missing
  <2> QED BY <2>2, <2>3, <2>4
<1> QED BY <1>3, <1>4, <1>5 DEF LateWriters, RemovedIsBlank, Removed

-----------------------------------------------------------------------------
(* The theorems.                                                            *)

\* The inductive invariant holds of every behaviour.
THEOREM Invariant == Spec => []IInv
<1>1. IInv /\ [Next]_vars => IInv'
  BY StepType, OnceStep, AgeStep, FaultsStep, LateStep DEF IInv
<1> QED BY <1>1, InitIInv, PTL DEF Spec

\* Every variable keeps its type, whatever devices, owners and restarts do.
THEOREM TypeCorrect == Spec => []TypeOK
<1>1. IInv => TypeOK
  BY DEF IInv
<1> QED BY <1>1, Invariant, PTL

\* A removed ecosystem keeps nothing but its status, and what a validation or
\* an update writes that had read the row before it was removed.
THEOREM RemovedStaysBlank == Spec => []RemovedIsBlank
<1>1. IInv => RemovedIsBlank
  BY DEF IInv
<1> QED BY <1>1, Invariant, PTL

\* How a reading comes to be let in or refused.
LEMMA Reaches ==
    ASSUME [Next]_vars, NEW r \in Requests, request \in [Requests -> RequestType]
    PROVE  /\ request[r].pc # "in" /\ request'[r].pc = "in" =>
                \/ ReadCaches(r) /\ clock < valid[request[r].key].until
                      /\ Enter(r, valid[request[r].key].took)
                \/ Admit(r) /\ Enter(r, clock - request[r].read)
           /\ request[r].pc # "refused" /\ request'[r].pc = "refused" =>
                (ReadCaches(r) /\ IsBad(r)) \/ Refuse(r)
<1>1. CASE UNCHANGED request
  BY <1>1
<1>2. CASE Restart
  <2>1. request'[r] = IF request[r].pc \in {"validating", "locating"}
                      THEN [NoRequest EXCEPT !.pc = request[r].pc, !.key = request[r].key,
                                             !.gone = TRUE]
                      ELSE NoRequest
    BY <1>2 DEF Restart
  <2> QED BY <2>1 DEF NoRequest
<1>3. ASSUME NEW x \in Requests, x # r,
             \/ \E k \in Ecosystems : Send(x, k)
             \/ ReadCaches(x) \/ FindKey(x) \/ Locate(x) \/ Admit(x) \/ Refuse(x)
             \/ ValidatorFails(x) \/ Done(x)
      PROVE  request'[r] = request[r]
  BY <1>3 DEF Send, ReadCaches, FindKey, Locate, Admit, Refuse, ValidatorFails, Done, Goto, Enter, Turn
<1>4. ASSUME NEW k \in Ecosystems, Send(r, k) PROVE request'[r].pc = "cache"
  BY <1>4 DEF Send, NoRequest
<1>5. ASSUME NEW l, Goto(r, l) PROVE request'[r].pc = l
  BY <1>5 DEF Goto, RequestType
<1>6. ASSUME Turn(r) PROVE request'[r].pc = "refused"
  BY <1>6 DEF Turn, NoRequest
<1>7. ASSUME NEW took, Enter(r, took) PROVE request'[r].pc = "in"
  BY <1>7 DEF Enter, NoRequest
<1>8. CASE ReadCaches(r)
  BY <1>8, <1>5, <1>6, <1>7 DEF ReadCaches
<1>9. CASE FindKey(r)
  BY <1>9 DEF FindKey, RequestType
<1>10. CASE Locate(r)
  BY <1>10, <1>5 DEF Locate
<1>11. CASE Admit(r)
  BY <1>11, <1>7 DEF Admit
<1>12. CASE Refuse(r)
  BY <1>12, <1>6 DEF Refuse
<1>13. CASE ValidatorFails(r) \/ Done(r)
  BY <1>13 DEF ValidatorFails, Done, NoRequest
<1>14. \/ UNCHANGED request
       \/ Restart
       \/ \E x \in Requests :
             \/ \E k \in Ecosystems : Send(x, k)
             \/ ReadCaches(x) \/ FindKey(x) \/ Locate(x) \/ Admit(x) \/ Refuse(x)
             \/ ValidatorFails(x) \/ Done(x)
  BY DEF Next, vars, auth, iot, Tick, Begin, Read, GetApiKey, CreateIdentity, Write, Anchor, Fail, Heartbeat
<1>15. CASE \E x \in Requests \ {r} :
             \/ \E k \in Ecosystems : Send(x, k)
             \/ ReadCaches(x) \/ FindKey(x) \/ Locate(x) \/ Admit(x) \/ Refuse(x)
             \/ ValidatorFails(x) \/ Done(x)
  BY <1>3, <1>15
<1>16. CASE \E k \in Ecosystems : Send(r, k)
  BY <1>4, <1>16
<1> QED BY <1>1, <1>2, <1>8, <1>9, <1>10, <1>11, <1>12, <1>13, <1>14, <1>15, <1>16

\* A removed ecosystem's key opens the door for no longer than an entry lives
\* and the validation that made the entry took.
THEOREM RemovedKeySafe == Spec => RemovedKeyEnds
<1> USE KeysAssumption DEF KeysAssumption
<1>1. ASSUME IInv, [Next]_vars, NEW r \in Requests, request[r].pc # "in", request'[r].pc = "in"
      PROVE  \/ Active(request[r].key)
             \/ clock < revokedAt[request[r].key] + PositiveTtl + request'[r].took
  <2>0. Typed /\ OnceCreated /\ EntriesAge
    BY <1>1, TypedHolds DEF IInv
  <2>x. request \in [Requests -> RequestType]
    BY <1>1, Types DEF IInv
  <2>1. SUFFICES ASSUME ~Active(request[r].key)
                 PROVE  clock < revokedAt[request[r].key] + PositiveTtl + request'[r].took
    OBVIOUS
  <2>2. \/ ReadCaches(r) /\ clock < valid[request[r].key].until /\ Enter(r, valid[request[r].key].took)
        \/ Admit(r) /\ Enter(r, clock - request[r].read)
    BY <1>1, <2>x, Reaches
  <2>3. request[r].key \in Ecosystems /\ Removed(request[r].key)
    BY <2>0, <2>1, <2>2 DEF ReadCaches, Admit, OnceCreated, Active, Removed, Typed
  <2>4. CASE ReadCaches(r) /\ clock < valid[request[r].key].until /\ Enter(r, valid[request[r].key].took)
    <3>1. request'[r].took = valid[request[r].key].took
      BY <2>x, <2>4 DEF Enter, NoRequest
    <3> QED BY <2>0, <2>3, <2>4, <3>1 DEF EntriesAge, Typed
  <2>5. CASE Admit(r) /\ Enter(r, clock - request[r].read)
    <3>1. request'[r].took = clock - request[r].read
      BY <2>x, <2>5 DEF Enter, NoRequest
    <3>2. request[r].read <= revokedAt[request[r].key]
      BY <2>0, <2>3, <2>5 DEF EntriesAge, Admit
    <3> QED BY <2>0, <2>3, <3>1, <3>2 DEF Typed
  <2> QED BY <2>2, <2>4, <2>5
<1>2. IInv /\ [Next]_vars =>
        [\A r \in Requests :
            request[r].pc # "in" /\ request'[r].pc = "in" =>
                \/ Active(request[r].key)
                \/ clock < revokedAt[request[r].key] + PositiveTtl + request'[r].took]_vars
  BY <1>1
<1> QED BY <1>2, Invariant, PTL DEF Spec, RemovedKeyEnds

\* An active ecosystem's device is refused for a fault and nothing else.
THEOREM RefusalSafe == Spec => RefusalHasCause
<1> USE KeysAssumption DEF KeysAssumption
<1>1. ASSUME IInv, [Next]_vars, NEW r \in Requests, request[r].pc # "refused",
             request'[r].pc = "refused", Active(request[r].key)
      PROVE  /\ faultAt[request[r].key] # None
             /\ request[r].at < faultAt[request[r].key] + NegativeTtl
  <2>0. Typed /\ OnceCreated /\ FaultsOnly
    BY <1>1, TypedHolds DEF IInv
  <2>x. request \in [Requests -> RequestType]
    BY <1>1, Types DEF IInv
  <2>2. (ReadCaches(r) /\ IsBad(r)) \/ Refuse(r)
    BY <1>1, <2>x, Reaches
  <2>3. request[r].key \in Ecosystems
    BY <2>0, <2>2 DEF ReadCaches, Refuse, OnceCreated
  <2>4. CASE ReadCaches(r) /\ IsBad(r)
    BY <1>1, <2>0, <2>3, <2>4 DEF IsBad, FaultsOnly, Typed
  <2>5. CASE Refuse(r)
    BY <1>1, <2>0, <2>3, <2>5 DEF Refuse, FaultsOnly, Typed
  <2> QED BY <2>2, <2>4, <2>5
<1>2. IInv /\ [Next]_vars =>
        [\A r \in Requests :
            LET k == request[r].key IN
            request[r].pc # "refused" /\ request'[r].pc = "refused" /\ Active(k) =>
                /\ faultAt[k] # None
                /\ request[r].at < faultAt[k] + NegativeTtl]_vars
  BY <1>1
<1> QED BY <1>2, Invariant, PTL DEF Spec, RefusalHasCause

==============================================================================
