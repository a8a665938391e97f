------------------------ MODULE DeviceDiscoveryProofs ------------------------
(***************************************************************************)
(* Proofs about DeviceDiscovery for every set of ecosystems, addresses,    *)
(* vendors, batches and edits, and any number of rows.                     *)
(***************************************************************************)
EXTENDS DeviceDiscovery, FiniteSetTheorems, WellFoundedInduction, TLAPS

-----------------------------------------------------------------------------
(* The inductive invariant.                                                 *)

BatchType == [pc : Working \cup {"idle", "next"}, eco : Ecosystems \cup {None},
              seen : SUBSET Macs, mac : Macs \cup {None},
              vendor : Vendors, name : Names \cup {None},
              exists : BOOLEAN, id : Ids \cup {None}]
EditType == [pc : {"idle", "reading", "writing", "anchoring", "ok", "failed"},
             kind : {"create", "update", "remove"}, id : Ids \cup {None}]

\* A turn knows whose device it is about, and a row's id is given out once.
TurnsKnow ==
    /\ \A i \in Ids : device[i] # None => i \in used
    /\ \A b \in Batches :
          /\ batch[b].pc # "idle" => batch[b].eco \in Ecosystems
          /\ batch[b].pc \in Working => batch[b].mac \in Macs
          /\ batch[b].pc = "updating" => batch[b].id \in used
          /\ batch[b].pc # "updating" => batch[b].id = None
          /\ batch[b].pc = "creating" => batch[b].name # None
          /\ batch[b].pc # "creating" => batch[b].name \in {0, None}

\* No name is larger than the number of rows there have been.
NamesBounded ==
    /\ \A i \in Ids : device[i] # None => device[i].name <= Cardinality(used)
    /\ \A b \in Batches : batch[b].name # None => batch[b].name <= Cardinality(used) + 1

\* While names are generated one at a time, the next one is above all there are.
NamesApart ==
    ~overlapped =>
        /\ \A b, c \in Batches : Naming(b) /\ Naming(c) => b = c
        /\ \A b \in Batches, i \in Ids : Naming(b) /\ device[i] # None => device[i].name < batch[b].name
        /\ \A i, j \in Ids : device[i] # None /\ device[j] # None /\ i # j /\ device[i].name # 0
                                => device[i].name # device[j].name

\* What a turn has read of its row is so, unless someone wrote the row after.
ReadIsSo ==
    \A b \in Batches :
        batch[b].pc = "updating" /\ b \notin raced /\ device[batch[b].id] # None =>
            /\ device[batch[b].id].eco = batch[b].eco
            /\ device[batch[b].id].mac = batch[b].mac
            /\ MissingVendor(batch[b].id)

\* A device that was found is there, unless a person removed or moved it.
FoundIsThere ==
    \A b \in Batches :
        b \notin lost /\ (\/ batch[b].pc = "resolve" /\ batch[b].exists
                          \/ batch[b].pc \in {"vendor", "updating"})
            => \E i \in Ids : device[i] # None /\ device[i].eco = batch[b].eco
                                               /\ device[i].mac = batch[b].mac

IInv == TypeOK /\ TurnsKnow /\ NamesBounded /\ NamesApart /\ ReadIsSo /\ FoundIsThere

-----------------------------------------------------------------------------
(* Names.                                                                   *)

\* A bounded set of numbers has a largest one, and Max is it.
LEMMA MaxOfBounded ==
    ASSUME NEW S \in SUBSET Nat, S # {}, NEW n \in Nat, \A s \in S : s <= n
    PROVE  Max(S) \in S /\ \A s \in S : s <= Max(S)
<1> DEFINE R == OpToRel(<, Nat)
<1> DEFINE T == {n - s : s \in S}
<1>1. T \subseteq Nat /\ T # {}
  <2>1. \A s \in S : n - s \in Nat
    OBVIOUS
  <2>2. PICK s \in S : TRUE
    OBVIOUS
  <2>3. n - s \in T
    OBVIOUS
  <2> QED BY <2>1, <2>3
<1>2. PICK t \in T : \A u \in T : ~(<<u, t>> \in R)
  <2>1. IsWellFoundedOn(R, Nat)
    BY NatLessThanWellFounded
  <2> HIDE DEF R, T
  <2> QED BY <1>1, <2>1, WFMin
<1>3. \A u \in T : ~(u < t)
  BY <1>1, <1>2 DEF OpToRel
<1>4. PICK s \in S : t = n - s
  OBVIOUS
<1>5. \A u \in S : s >= u
  <2>1. ASSUME NEW u \in S PROVE s >= u
    <3>1. ~(n - u < n - s)
      BY <1>3, <1>4
    <3> QED BY <3>1
  <2> QED BY <2>1
<1>6. Max(S) \in S /\ \A u \in S : Max(S) >= u
  BY <1>5 DEF Max
<1> QED BY <1>6

\* The number of rows is a number, and grows by one with each row.
LEMMA UsedCounts ==
    ASSUME TypeOK
    PROVE  /\ IsFiniteSet(used) /\ Cardinality(used) \in Nat
           /\ Cardinality(Ids) \in Nat /\ Cardinality(used) <= Cardinality(Ids)
           /\ \A i \in Ids \ used : Cardinality(used \cup {i}) = Cardinality(used) + 1
<1>1. used \subseteq Ids /\ IsFiniteSet(Ids)
  BY DiscoveryAssumption DEF TypeOK, DiscoveryAssumption
<1>2. IsFiniteSet(used) /\ Cardinality(used) <= Cardinality(Ids)
  BY <1>1, FS_Subset
<1>3. Cardinality(used) \in Nat /\ Cardinality(Ids) \in Nat
  BY <1>1, <1>2, FS_CardinalityType
<1>4. \A i \in Ids \ used : Cardinality(used \cup {i}) = Cardinality(used) + 1
  BY <1>2, FS_AddElement
<1> QED BY <1>2, <1>3, <1>4

\* The next number is above every name, and at most one above the rows' number.
LEMMA NextNumberIsNext ==
    ASSUME TypeOK, NamesBounded
    PROVE  /\ NextNumber \in Nat \ {0} /\ NextNumber <= Cardinality(used) + 1
           /\ \A i \in Ids : device[i] # None => device[i].name < NextNumber
<1> DEFINE S == {device[i].name : i \in Existing} \cup {0}
<1>1. /\ \A i \in Ids : device[i] # None => device[i].name \in Nat
      /\ Cardinality(used) \in Nat
  <2>1. Cardinality(used) \in Nat /\ Cardinality(Ids) \in Nat
    BY UsedCounts
  <2> QED BY <2>1 DEF TypeOK, Rows, Names
<1>2. S \in SUBSET Nat /\ S # {} /\ \A s \in S : s <= Cardinality(used)
  BY <1>1 DEF NamesBounded, Existing
<1>3. Max(S) \in S /\ \A s \in S : s <= Max(S)
  <2> HIDE DEF S
  <2> QED BY <1>1, <1>2, MaxOfBounded
<1>4. \A i \in Ids : device[i] # None => device[i].name \in S
  BY DEF Existing
<1>5. NextNumber = Max(S) + 1
  BY DEF NextNumber
<1> HIDE DEF S
<1> QED BY <1>1, <1>2, <1>3, <1>4, <1>5

-----------------------------------------------------------------------------
(* What a step does.                                                        *)

\* To one batch: nothing, the end of its turn, or the turn's next step.
LEMMA BatchStep ==
    ASSUME TypeOK, TurnsKnow, [Next]_vars, NEW b \in Batches
    PROVE  LET q == batch[b]
               p == batch'[b]
               same == p.eco = q.eco /\ p.mac = q.mac
           IN  \/ p = q
               \/ p.pc = "idle" /\ p.name = None /\ p.id = None
               \/ p.pc = "next" /\ p.name = None /\ p.id = None /\ p.eco \in Ecosystems
               \/ /\ q.pc = "next" /\ p.pc = "lookup" /\ p.eco = q.eco /\ p.mac \in Macs
                  /\ p.id = None /\ p.name \in {0, None}
               \/ Lookup(b) /\ same /\ p.pc = "resolve" /\ p.id = None /\ p.name = q.name
                  /\ (p.exists => Holding(q.eco, q.mac) # {})
               \/ Resolve(b) /\ same /\ p.id = None /\ p.name = q.name
                  /\ p.pc = IF q.exists THEN "vendor" ELSE "register"
               \/ ReadDevice(b) /\ same /\ p.pc = "updating" /\ p.name = q.name
                  /\ p.id \in Holding(q.eco, q.mac) /\ MissingVendor(p.id)
               \/ ReadDevice(b) /\ same /\ p.id = None /\ p.name = q.name
                  /\ p.pc = IF q.name = None THEN "naming" ELSE "creating"
               \/ GenerateName(b) /\ same /\ p.id = None /\ p.name = NextNumber /\ p.pc = "creating"
<1> USE DiscoveryAssumption DEF DiscoveryAssumption
<1>0. batch \in [Batches -> BatchType]
  BY DEF TypeOK, BatchType
<1>1. CASE UNCHANGED batch
  BY <1>1
<1>2. ASSUME NEW c \in Batches, c # b,
             \/ Discover(c) \/ EndBatch(c)
             \/ \E eco \in Ecosystems : StartBatch(c, eco)
             \/ \E mac \in Macs \cup {None}, vendor \in KnownVendors \cup {""}, name \in {0, None} :
                   NextDevice(c, mac, vendor, name)
      PROVE  batch'[b] = batch[b]
  BY <1>0, <1>2 DEF Discover, EndBatch, StartBatch, NextDevice, Lookup, Resolve, ReadDevice, WriteVendor,
                    GenerateName, CreateDevice, FailDevice, Step, NextTurn
<1>3. ASSUME NextTurn(b)
      PROVE  batch'[b].pc = "next" /\ batch'[b].name = None /\ batch'[b].id = None
             /\ batch'[b].eco = batch[b].eco
  BY <1>0, <1>3 DEF NextTurn, NoBatch
<1>4. CASE EndBatch(b)
  BY <1>0, <1>4 DEF EndBatch, NoBatch
<1>5. ASSUME NEW eco \in Ecosystems, StartBatch(b, eco)
      PROVE  batch'[b].pc = "next" /\ batch'[b].name = None /\ batch'[b].id = None
             /\ batch'[b].eco \in Ecosystems
  BY <1>0, <1>5 DEF StartBatch, NoBatch
<1>6. ASSUME NEW mac \in Macs \cup {None}, NEW vendor \in KnownVendors \cup {""}, NEW name \in {0, None},
             NextDevice(b, mac, vendor, name)
      PROVE  \/ batch'[b] = batch[b]
             \/ /\ batch[b].pc = "next" /\ batch'[b].pc = "lookup" /\ batch'[b].eco = batch[b].eco
                /\ batch'[b].mac \in Macs
                /\ batch'[b].id = None /\ batch'[b].name \in {0, None}
  <2>1. batch[b].pc = "next" /\ batch[b].id = None
    BY <1>6 DEF NextDevice, TurnsKnow
  <2>2. CASE mac \in {None} \cup batch[b].seen
    BY <1>6, <2>2 DEF NextDevice
  <2>3. CASE mac \notin {None} \cup batch[b].seen
    <3>1. mac \in Macs
      BY <2>3
    <3>2. batch' = [batch EXCEPT ![b] =
                        [NoBatch EXCEPT !.eco = batch[b].eco, !.seen = batch[b].seen \cup {mac},
                            !.pc = "lookup", !.mac = mac, !.vendor = vendor, !.name = name]]
      BY <1>6, <2>3 DEF NextDevice
    <3> QED BY <1>0, <2>1, <3>1, <3>2 DEF NoBatch
  <2> QED BY <2>2, <2>3
<1>7. CASE Lookup(b)
  <2>1. batch[b].id = None
    BY <1>7 DEF Lookup, TurnsKnow
  <2>2. /\ batch'[b].pc = "resolve" /\ batch'[b].eco = batch[b].eco /\ batch'[b].mac = batch[b].mac
        /\ batch'[b].id = batch[b].id /\ batch'[b].name = batch[b].name
        /\ batch'[b].exists = (Holding(batch[b].eco, batch[b].mac) # {})
    BY <1>0, <1>7 DEF Lookup, BatchType
  <2> QED BY <1>7, <2>1, <2>2
<1>8. CASE Resolve(b)
  <2>1. batch[b].id = None
    BY <1>8 DEF Resolve, TurnsKnow
  <2>2. ASSUME NEW v, NEW l, batch' = [batch EXCEPT ![b].vendor = v, ![b].exists = FALSE, ![b].pc = l]
        PROVE  /\ batch'[b].pc = l /\ batch'[b].eco = batch[b].eco /\ batch'[b].mac = batch[b].mac
               /\ batch'[b].id = batch[b].id /\ batch'[b].name = batch[b].name
    <3>1. batch[b] \in BatchType /\ batch'[b] = [batch[b] EXCEPT !.vendor = v, !.exists = FALSE, !.pc = l]
      BY <1>0, <2>2
    <3> QED BY <3>1 DEF BatchType
  <2>3. PICK v : batch' = [batch EXCEPT ![b].vendor = v, ![b].exists = FALSE,
                               ![b].pc = IF batch[b].exists THEN "vendor" ELSE "register"]
    BY <1>8 DEF Resolve
  <2>4. /\ batch'[b].pc = IF batch[b].exists THEN "vendor" ELSE "register"
        /\ batch'[b].eco = batch[b].eco /\ batch'[b].mac = batch[b].mac
        /\ batch'[b].id = batch[b].id /\ batch'[b].name = batch[b].name
    BY <2>2, <2>3
  <2> QED BY <1>8, <2>1, <2>4
<1>9. CASE ReadDevice(b)
  <2>1. batch[b].eco \in Ecosystems /\ batch[b].id = None
    BY <1>9 DEF ReadDevice, TurnsKnow
  <2>2. CASE NextTurn(b)
    BY <1>3, <2>1, <2>2
  <2>3. ASSUME NEW l, Step(b, l)
        PROVE  /\ batch'[b].pc = l /\ batch'[b].eco = batch[b].eco /\ batch'[b].mac = batch[b].mac
               /\ batch'[b].id = None /\ batch'[b].name = batch[b].name
    <3>1. batch[b] \in BatchType /\ batch'[b] = [batch[b] EXCEPT !.pc = l]
      BY <1>0, <2>3 DEF Step
    <3> QED BY <2>1, <3>1 DEF BatchType
  <2>4. ASSUME NEW i, batch' = [batch EXCEPT ![b].id = i, ![b].pc = "updating"]
        PROVE  /\ batch'[b].pc = "updating" /\ batch'[b].eco = batch[b].eco
               /\ batch'[b].mac = batch[b].mac /\ batch'[b].id = i /\ batch'[b].name = batch[b].name
    <3>1. batch[b] \in BatchType /\ batch'[b] = [batch[b] EXCEPT !.id = i, !.pc = "updating"]
      BY <1>0, <2>4
    <3> QED BY <3>1 DEF BatchType
  <2>5. CASE \E i \in Holding(batch[b].eco, batch[b].mac) :
                MissingVendor(i) /\ batch' = [batch EXCEPT ![b].id = i, ![b].pc = "updating"]
    BY <1>9, <2>4, <2>5
  <2>6. CASE Step(b, IF batch[b].name = None THEN "naming" ELSE "creating")
    BY <1>9, <2>3, <2>6
  <2> QED BY <1>9, <2>2, <2>5, <2>6 DEF ReadDevice
<1>10. CASE WriteVendor(b) \/ CreateDevice(b) \/ FailDevice(b)
  <2>1. NextTurn(b) /\ batch[b].pc \in Working
    BY <1>10 DEF WriteVendor, CreateDevice, FailDevice, Working
  <2>2. batch[b].eco \in Ecosystems
    BY <2>1 DEF TurnsKnow, Working
  <2> QED BY <1>3, <2>1, <2>2
<1>11. CASE GenerateName(b)
  <2>1. batch[b].pc = "naming" /\ batch[b].id = None /\ batch[b].eco \in Ecosystems
    BY <1>11 DEF GenerateName, TurnsKnow
  <2>2. /\ batch[b] \in BatchType
        /\ batch'[b] = [batch[b] EXCEPT !.name = NextNumber, !.pc = "creating"]
    BY <1>0, <1>11 DEF GenerateName
  <2>3. /\ batch'[b].pc = "creating" /\ batch'[b].eco = batch[b].eco /\ batch'[b].mac = batch[b].mac
        /\ batch'[b].id = batch[b].id /\ batch'[b].name = NextNumber
    BY <2>2 DEF BatchType
  <2> QED BY <1>11, <2>1, <2>3
<1>12. \/ UNCHANGED batch
       \/ \E c \in Batches :
             \/ Discover(c) \/ EndBatch(c)
             \/ \E eco \in Ecosystems : StartBatch(c, eco)
             \/ \E mac \in Macs \cup {None}, vendor \in KnownVendors \cup {""}, name \in {0, None} :
                   NextDevice(c, mac, vendor, name)
  BY DEF Next, vars, WriteEdit, AnchorEdit, FailEdit, AnswerEdit, Authorize, StartEdit, ChangeEditors
<1>13. CASE \E c \in Batches \ {b} :
             \/ Discover(c) \/ EndBatch(c)
             \/ \E eco \in Ecosystems : StartBatch(c, eco)
             \/ \E mac \in Macs \cup {None}, vendor \in KnownVendors \cup {""}, name \in {0, None} :
                   NextDevice(c, mac, vendor, name)
  BY <1>2, <1>13
<1>14. CASE \/ \E eco \in Ecosystems : StartBatch(b, eco)
            \/ \E mac \in Macs \cup {None}, vendor \in KnownVendors \cup {""}, name \in {0, None} :
                   NextDevice(b, mac, vendor, name)
  BY <1>5, <1>6, <1>14
<1>15. CASE Discover(b)
  BY <1>7, <1>8, <1>9, <1>10, <1>11, <1>15 DEF Discover
<1>16. \/ UNCHANGED batch
       \/ \E c \in Batches \ {b} :
             \/ Discover(c) \/ EndBatch(c)
             \/ \E eco \in Ecosystems : StartBatch(c, eco)
             \/ \E mac \in Macs \cup {None}, vendor \in KnownVendors \cup {""}, name \in {0, None} :
                   NextDevice(c, mac, vendor, name)
       \/ Discover(b) \/ EndBatch(b)
       \/ \E eco \in Ecosystems : StartBatch(b, eco)
       \/ \E mac \in Macs \cup {None}, vendor \in KnownVendors \cup {""}, name \in {0, None} :
             NextDevice(b, mac, vendor, name)
  BY <1>12
<1> QED BY <1>1, <1>4, <1>13, <1>14, <1>15, <1>16

\* A person's create inserts a row with a name of its own.
LEMMA CreatedByHand ==
    ASSUME NEW e \in Edits, WriteEdit(e), edit[e].kind = "create"
    PROVE  \E eco \in Ecosystems, mac \in Macs \cup {None}, vendor \in Vendors \ {"Generic Device"} :
              Insert([eco |-> eco, mac |-> mac, vendor |-> vendor, name |-> 0])
<1>1. edit[e].kind # "update" /\ edit[e].kind # "remove"
  OBVIOUS
<1> QED BY <1>1 DEF WriteEdit

\* To the table: nothing, a new row under a new id, or a change or the removal
\* of a row by a batch or an edit that notes whom it overtakes.
LEMMA TableStep ==
    ASSUME TypeOK, TurnsKnow, [Next]_vars
    PROVE  \/ UNCHANGED <<device, used>>
           \/ \E b \in Batches, i \in Ids \ used : \E row \in Rows :
                 /\ CreateDevice(b) /\ UniqueWith(None, batch[b].eco, batch[b].mac)
                 /\ row.eco = batch[b].eco /\ row.mac = batch[b].mac /\ row.name = batch[b].name
                 /\ device' = [device EXCEPT ![i] = row] /\ used' = used \cup {i}
           \/ \E e \in Edits, i \in Ids \ used : \E row \in Rows :
                 /\ WriteEdit(e) /\ row.name = 0 /\ UNCHANGED batch
                 /\ device' = [device EXCEPT ![i] = row] /\ used' = used \cup {i}
           \/ \E b \in Batches :
                 /\ WriteVendor(b) /\ batch[b].id \in Existing /\ UNCHANGED used
                 /\ device' = [device EXCEPT ![batch[b].id].vendor = batch[b].vendor]
                 /\ Touch(batch[b].id, b)
           \/ \E e \in Edits, i \in Existing : \E row \in Rows :
                 /\ WriteEdit(e) /\ UNCHANGED batch /\ UNCHANGED used
                 /\ row.eco = device[i].eco /\ row.name \in {0, device[i].name}
                 /\ device' = [device EXCEPT ![i] = row]
                 /\ Touch(i, e)
                 /\ row.mac # device[i].mac => Leave(i)
                 /\ row.mac = device[i].mac => UNCHANGED lost
           \/ \E e \in Edits, i \in Existing :
                 /\ WriteEdit(e) /\ UNCHANGED batch /\ UNCHANGED used
                 /\ device' = [device EXCEPT ![i] = None]
                 /\ Touch(i, e) /\ Leave(i)
<1>u. 0 \in Names
  <2>1. Cardinality(Ids) \in Nat
    BY UsedCounts
  <2> DEFINE n == Cardinality(Ids)
  <2>2. n \in Nat => 0 \in 0..(n + 1)
    <3> HIDE DEF n
    <3> QED OBVIOUS
  <2> QED BY <2>1, <2>2 DEF Names
<1> USE DiscoveryAssumption DEF DiscoveryAssumption
<1>0. batch \in [Batches -> BatchType]
  BY DEF TypeOK, BatchType
<1>1. ASSUME NEW b \in Batches, CreateDevice(b)
      PROVE  \/ UNCHANGED <<device, used>>
             \/ \E i \in Ids \ used : \E row \in Rows :
                 /\ UniqueWith(None, batch[b].eco, batch[b].mac)
                 /\ row.eco = batch[b].eco /\ row.mac = batch[b].mac /\ row.name = batch[b].name
                 /\ device' = [device EXCEPT ![i] = row] /\ used' = used \cup {i}
  <2> DEFINE row == [eco |-> batch[b].eco, mac |-> batch[b].mac,
                     vendor |-> batch[b].vendor, name |-> batch[b].name]
  <2>1. CASE ~UniqueWith(None, batch[b].eco, batch[b].mac)
    BY <1>1, <2>1 DEF CreateDevice
  <2>2. CASE UniqueWith(None, batch[b].eco, batch[b].mac)
    <3>1. batch[b].eco \in Ecosystems /\ batch[b].mac \in Macs /\ batch[b].name \in Names
          /\ batch[b].vendor \in Vendors
      BY <1>0, <1>1 DEF CreateDevice, TurnsKnow, BatchType, Working
    <3>2. row \in Rows /\ row.eco = batch[b].eco /\ row.mac = batch[b].mac /\ row.name = batch[b].name
      BY <3>1 DEF Rows
    <3>3. Insert(row)
      BY <1>1, <2>2 DEF CreateDevice
    <3> HIDE DEF row
    <3> QED BY <2>2, <3>2, <3>3 DEF Insert
  <2> QED BY <2>1, <2>2
<1>2. ASSUME NEW b \in Batches, WriteVendor(b)
      PROVE  \/ UNCHANGED <<device, used>>
             \/ /\ batch[b].id \in Existing /\ UNCHANGED used
                /\ device' = [device EXCEPT ![batch[b].id].vendor = batch[b].vendor]
                /\ Touch(batch[b].id, b)
  BY <1>2 DEF WriteVendor
<1>3. ASSUME NEW e \in Edits, WriteEdit(e)
      PROVE  \/ \E i \in Ids \ used : \E row \in Rows :
                 /\ row.name = 0 /\ UNCHANGED batch
                 /\ device' = [device EXCEPT ![i] = row] /\ used' = used \cup {i}
             \/ \E i \in Existing : \E row \in Rows :
                 /\ UNCHANGED batch /\ UNCHANGED used
                 /\ row.eco = device[i].eco /\ row.name \in {0, device[i].name}
                 /\ device' = [device EXCEPT ![i] = row]
                 /\ Touch(i, e)
                 /\ row.mac # device[i].mac => Leave(i)
                 /\ row.mac = device[i].mac => UNCHANGED lost
             \/ \E i \in Existing :
                 /\ UNCHANGED batch /\ UNCHANGED used
                 /\ device' = [device EXCEPT ![i] = None]
                 /\ Touch(i, e) /\ Leave(i)
  <2>0. UNCHANGED batch
    BY <1>3 DEF WriteEdit
  <2>1. CASE edit[e].kind = "create"
    <3>1. PICK eco \in Ecosystems, mac \in Macs \cup {None}, vendor \in Vendors :
               Insert([eco |-> eco, mac |-> mac, vendor |-> vendor, name |-> 0])
      BY <1>3, <2>1, CreatedByHand
    <3> DEFINE row == [eco |-> eco, mac |-> mac, vendor |-> vendor, name |-> 0]
    <3>3. row \in Rows /\ row.name = 0
      BY <1>u DEF Rows
    <3>4. Insert(row)
      BY <3>1
    <3> HIDE DEF row
    <3> QED BY <2>0, <3>3, <3>4 DEF Insert
  <2>2. CASE edit[e].kind = "update"
    <3> DEFINE i == edit[e].id
    <3>1. i \in Existing /\ Touch(i, e) /\ UNCHANGED used
      BY <1>3, <2>2 DEF WriteEdit
    <3>2. PICK row \in Rows :
              /\ row.eco = device[i].eco /\ row.name \in {0, device[i].name}
              /\ device' = [device EXCEPT ![i] = row]
              /\ IF row.mac # device[i].mac THEN Leave(i) ELSE UNCHANGED lost
      BY <1>3, <2>2 DEF WriteEdit
    <3> HIDE DEF i
    <3> QED BY <2>0, <3>1, <3>2
  <2>3. CASE edit[e].kind = "remove"
    BY <1>3, <2>0, <2>3 DEF WriteEdit
  <2> QED BY <1>3, <2>1, <2>2, <2>3 DEF WriteEdit
<1>4. \/ UNCHANGED <<device, used>>
      \/ \E b \in Batches : CreateDevice(b) \/ WriteVendor(b)
      \/ \E e \in Edits : WriteEdit(e)
  <2>1. ASSUME NEW b \in Batches, Discover(b), ~CreateDevice(b), ~WriteVendor(b)
        PROVE  UNCHANGED <<device, used>>
    BY <2>1 DEF Discover, Lookup, Resolve, ReadDevice, GenerateName, FailDevice
  <2>2. ASSUME NEW b \in Batches,
               \/ EndBatch(b)
               \/ \E eco \in Ecosystems : StartBatch(b, eco)
               \/ \E mac \in Macs \cup {None}, vendor \in KnownVendors \cup {""}, name \in {0, None} :
                     NextDevice(b, mac, vendor, name)
        PROVE  UNCHANGED <<device, used>>
    BY <2>2 DEF EndBatch, StartBatch, NextDevice
  <2>3. ASSUME NEW e \in Edits,
               \/ AnchorEdit(e) \/ FailEdit(e) \/ AnswerEdit(e)
               \/ \E isAdmin \in BOOLEAN : Authorize(e, isAdmin)
               \/ \E kind \in {"create", "update", "remove"}, i \in used \cup {None} : StartEdit(e, kind, i)
        PROVE  UNCHANGED <<device, used>>
    BY <2>3 DEF AnchorEdit, FailEdit, AnswerEdit, Authorize, StartEdit
  <2>4. ASSUME NEW eco \in Ecosystems, ChangeEditors(eco)
        PROVE  UNCHANGED <<device, used>>
    BY <2>4 DEF ChangeEditors
  <2>5. CASE UNCHANGED vars
    BY <2>5 DEF vars
  <2> QED BY <2>1, <2>2, <2>3, <2>4, <2>5 DEF Next
<1>5. CASE \E b \in Batches : CreateDevice(b)
  BY <1>1, <1>5
<1>6. CASE \E b \in Batches : WriteVendor(b)
  BY <1>2, <1>6
<1>7. CASE \E e \in Edits : WriteEdit(e)
  BY <1>3, <1>7
<1> QED BY <1>4, <1>5, <1>6, <1>7
\* To one row: nothing, its creation, a vendor, a person's change, its removal.
LEMMA RowStep ==
    ASSUME TypeOK, TurnsKnow, [Next]_vars, NEW i \in Ids
    PROVE  \/ device'[i] = device[i]
           \/ \E b \in Batches :
                 /\ CreateDevice(b) /\ UniqueWith(None, batch[b].eco, batch[b].mac)
                 /\ i \notin used /\ used' = used \cup {i}
                 /\ \A j \in Ids \ {i} : device'[j] = device[j]
                 /\ device'[i] # None /\ device'[i].eco = batch[b].eco /\ device'[i].mac = batch[b].mac
                 /\ device'[i].name = batch[b].name
           \/ i \notin used /\ device'[i] # None /\ device'[i].name = 0 /\ UNCHANGED batch
           \/ \E b \in Batches :
                 /\ WriteVendor(b) /\ batch[b].id = i /\ Touch(i, b)
                 /\ device[i] # None /\ device'[i] # None /\ device'[i].eco = device[i].eco
                 /\ device'[i].mac = device[i].mac /\ device'[i].name = device[i].name
           \/ \E e \in Edits :
                 /\ device[i] # None /\ device'[i] # None /\ device'[i].eco = device[i].eco
                 /\ device'[i].name \in {0, device[i].name}
                 /\ Touch(i, e) /\ UNCHANGED batch
                 /\ device'[i].mac # device[i].mac => Leave(i)
                 /\ device'[i].mac = device[i].mac => UNCHANGED lost
           \/ \E e \in Edits : device[i] # None /\ device'[i] = None /\ Touch(i, e) /\ Leave(i) /\ UNCHANGED batch
<1>0. device \in [Ids -> Rows \cup {None}] /\ Existing \subseteq Ids
  BY DEF TypeOK, Existing
<1>n. None \notin Rows
  BY RowsAssumption
<1>a. ASSUME NEW j \in Ids, NEW row, device' = [device EXCEPT ![j] = row]
      PROVE  device'[j] = row /\ \A k \in Ids \ {j} : device'[k] = device[k]
  BY <1>0, <1>a
<1>1. CASE UNCHANGED <<device, used>>
  BY <1>1
<1>2. CASE \E b \in Batches, j \in Ids \ used : \E row \in Rows :
                 /\ CreateDevice(b) /\ UniqueWith(None, batch[b].eco, batch[b].mac)
                 /\ row.eco = batch[b].eco /\ row.mac = batch[b].mac /\ row.name = batch[b].name
                 /\ device' = [device EXCEPT ![j] = row] /\ used' = used \cup {j}
  <2>1. PICK b \in Batches, j \in Ids \ used : \E row \in Rows :
                 /\ CreateDevice(b) /\ UniqueWith(None, batch[b].eco, batch[b].mac)
                 /\ row.eco = batch[b].eco /\ row.mac = batch[b].mac /\ row.name = batch[b].name
                 /\ device' = [device EXCEPT ![j] = row] /\ used' = used \cup {j}
    BY <1>2
  <2>2. PICK row \in Rows :
                 /\ CreateDevice(b) /\ UniqueWith(None, batch[b].eco, batch[b].mac)
                 /\ row.eco = batch[b].eco /\ row.mac = batch[b].mac /\ row.name = batch[b].name
                 /\ device' = [device EXCEPT ![j] = row] /\ used' = used \cup {j}
    BY <2>1
  <2>3. CASE i = j
    BY <1>n, <1>a, <2>2, <2>3
  <2>4. CASE i # j
    BY <1>a, <2>2, <2>4
  <2> QED BY <2>3, <2>4
<1>3. CASE \E e \in Edits, j \in Ids \ used : \E row \in Rows :
                 /\ WriteEdit(e) /\ row.name = 0 /\ UNCHANGED batch
                 /\ device' = [device EXCEPT ![j] = row] /\ used' = used \cup {j}
  <2>1. PICK j \in Ids \ used, row \in Rows :
                 /\ row.name = 0 /\ UNCHANGED batch
                 /\ device' = [device EXCEPT ![j] = row]
    BY <1>3
  <2>2. CASE i = j
    BY <1>n, <1>a, <2>1, <2>2
  <2>3. CASE i # j
    BY <1>a, <2>1, <2>3
  <2> QED BY <2>2, <2>3
<1>4. CASE \E b \in Batches :
                 /\ WriteVendor(b) /\ batch[b].id \in Existing /\ UNCHANGED used
                 /\ device' = [device EXCEPT ![batch[b].id].vendor = batch[b].vendor]
                 /\ Touch(batch[b].id, b)
  <2>1. PICK b \in Batches :
                 /\ WriteVendor(b) /\ batch[b].id \in Existing
                 /\ device' = [device EXCEPT ![batch[b].id].vendor = batch[b].vendor]
                 /\ Touch(batch[b].id, b)
    BY <1>4
  <2> DEFINE j == batch[b].id
             v == batch[b].vendor
             row == [device[j] EXCEPT !.vendor = v]
  <2>2. device' = [device EXCEPT ![j] = row]
    BY <2>1
  <2>3. device[j] \in Rows /\ j \in Ids
    BY <1>0, <2>1 DEF Existing
  <2>4. row # None
    <3>1. v \in Vendors
      BY DEF TypeOK
    <3>2. row \in Rows
      <4> HIDE DEF v, j
      <4> QED BY <2>3, <3>1 DEF Rows
    <3> HIDE DEF row
    <3> QED BY <1>n, <3>2
  <2>5. row.eco = device[j].eco /\ row.mac = device[j].mac /\ row.name = device[j].name
    <3> HIDE DEF v, j
    <3> QED BY <2>3 DEF Rows
  <2>6. CASE i = j
    <3>1. device'[i] = row /\ device[i] # None /\ Touch(i, b)
      <4> HIDE DEF row
      <4> QED BY <1>a, <1>n, <2>1, <2>2, <2>3, <2>6
    <3> HIDE DEF row
    <3> QED BY <2>1, <2>4, <2>5, <2>6, <3>1
  <2>7. CASE i # j
    <3> HIDE DEF row, j
    <3> QED BY <1>a, <2>2, <2>3, <2>7
  <2> QED BY <2>6, <2>7
<1>5. CASE \E e \in Edits, j \in Existing : \E row \in Rows :
                 /\ WriteEdit(e) /\ UNCHANGED batch /\ UNCHANGED used
                 /\ row.eco = device[j].eco /\ row.name \in {0, device[j].name}
                 /\ device' = [device EXCEPT ![j] = row]
                 /\ Touch(j, e)
                 /\ row.mac # device[j].mac => Leave(j)
                 /\ row.mac = device[j].mac => UNCHANGED lost
  <2>1. PICK e \in Edits, j \in Existing : \E row \in Rows :
                 /\ UNCHANGED batch
                 /\ row.eco = device[j].eco /\ row.name \in {0, device[j].name}
                 /\ device' = [device EXCEPT ![j] = row]
                 /\ Touch(j, e)
                 /\ row.mac # device[j].mac => Leave(j)
                 /\ row.mac = device[j].mac => UNCHANGED lost
    BY <1>5
  <2>2. PICK row \in Rows :
                 /\ UNCHANGED batch
                 /\ row.eco = device[j].eco /\ row.name \in {0, device[j].name}
                 /\ device' = [device EXCEPT ![j] = row]
                 /\ Touch(j, e)
                 /\ row.mac # device[j].mac => Leave(j)
                 /\ row.mac = device[j].mac => UNCHANGED lost
    BY <2>1
  <2>3. j \in Ids /\ device[j] # None
    BY DEF Existing
  <2>4. device'[j] = row /\ row # None /\ (i # j => device'[i] = device[i])
    BY <1>a, <1>n, <2>2, <2>3
  <2>5. CASE i = j
    BY <2>2, <2>3, <2>4, <2>5
  <2> QED BY <2>4, <2>5
<1>6. CASE \E e \in Edits, j \in Existing :
                 /\ WriteEdit(e) /\ UNCHANGED batch /\ UNCHANGED used
                 /\ device' = [device EXCEPT ![j] = None]
                 /\ Touch(j, e) /\ Leave(j)
  <2>1. PICK e \in Edits, j \in Existing :
                 /\ UNCHANGED batch
                 /\ device' = [device EXCEPT ![j] = None]
                 /\ Touch(j, e) /\ Leave(j)
    BY <1>6
  <2>2. j \in Ids /\ device[j] # None
    BY DEF Existing
  <2>3. device'[j] = None /\ (i # j => device'[i] = device[i])
    BY <1>a, <2>1, <2>2
  <2>4. CASE i = j
    BY <2>1, <2>2, <2>3, <2>4
  <2> QED BY <2>3, <2>4
<1> QED BY <1>1, <1>2, <1>3, <1>4, <1>5, <1>6, TableStep

\* What the histories say of a batch is only taken back between its turns.
LEMMA HistoryStep ==
    ASSUME TypeOK, [Next]_vars, NEW b \in Batches, batch[b].pc # "next"
    PROVE  /\ b \in raced => b \in raced'
           /\ b \in lost => b \in lost'
<1>1. ASSUME NEW c \in Batches, NEW mac, NEW vendor, NEW name, NextDevice(c, mac, vendor, name)
      PROVE  (b \in raced => b \in raced') /\ (b \in lost => b \in lost')
  BY <1>1 DEF NextDevice
<1>2. ASSUME NEW c \in Batches, WriteVendor(c)
      PROVE  (b \in raced => b \in raced') /\ (b \in lost => b \in lost')
  BY <1>2 DEF WriteVendor, Touch
<1>3. ASSUME NEW e \in Edits, WriteEdit(e)
      PROVE  (b \in raced => b \in raced') /\ (b \in lost => b \in lost')
  BY <1>3 DEF WriteEdit, Touch, Leave
<1>4. \/ UNCHANGED <<raced, lost>>
      \/ \E c \in Batches : WriteVendor(c)
      \/ \E c \in Batches, mac \in Macs \cup {None}, vendor \in KnownVendors \cup {""}, name \in {0, None} :
             NextDevice(c, mac, vendor, name)
      \/ \E e \in Edits : WriteEdit(e)
  <2>1. ASSUME NEW c \in Batches, Discover(c), ~WriteVendor(c)
        PROVE  UNCHANGED <<raced, lost>>
    BY <2>1 DEF Discover, Lookup, Resolve, ReadDevice, GenerateName, CreateDevice, FailDevice
  <2>2. ASSUME NEW c \in Batches, EndBatch(c) \/ \E eco \in Ecosystems : StartBatch(c, eco)
        PROVE  UNCHANGED <<raced, lost>>
    BY <2>2 DEF EndBatch, StartBatch
  <2>3. ASSUME NEW e \in Edits,
               \/ AnchorEdit(e) \/ FailEdit(e) \/ AnswerEdit(e)
               \/ \E isAdmin \in BOOLEAN : Authorize(e, isAdmin)
               \/ \E kind \in {"create", "update", "remove"}, i \in used \cup {None} : StartEdit(e, kind, i)
        PROVE  UNCHANGED <<raced, lost>>
    BY <2>3 DEF AnchorEdit, FailEdit, AnswerEdit, Authorize, StartEdit
  <2>4. ASSUME NEW eco \in Ecosystems, ChangeEditors(eco)
        PROVE  UNCHANGED <<raced, lost>>
    BY <2>4 DEF ChangeEditors
  <2>5. CASE UNCHANGED vars
    BY <2>5 DEF vars
  <2> QED BY <2>1, <2>2, <2>3, <2>4, <2>5 DEF Next
<1> QED BY <1>1, <1>2, <1>3, <1>4

-----------------------------------------------------------------------------
(* The parts of the invariant, one at a time.                               *)

\* Numbers that are in the range of the names.
LEMMA NamesAre ==
    ASSUME TypeOK
    PROVE  /\ Names \subseteq Nat /\ 0 \in Names
           /\ \A k \in Nat : k <= Cardinality(used) + 1 => k \in Names
<1> DEFINE n == Cardinality(Ids)
           m == Cardinality(used)
<1>1. n \in Nat /\ m \in Nat /\ m <= n
  BY UsedCounts
<1>2. Names = 0..(n + 1)
  BY DEF Names
<1> HIDE DEF n, m
<1>3. /\ Names \subseteq Nat /\ 0 \in Names
      /\ \A k \in Nat : k <= m + 1 => k \in Names
  BY <1>1, <1>2
<1> QED BY <1>3 DEF m

LEMMA InitIInv == Init => IInv
<1>1. SUFFICES ASSUME Init PROVE IInv
  OBVIOUS
<1>2. /\ batch = [b \in Batches |-> NoBatch] /\ device = [i \in Ids |-> None]
      /\ edit = [e \in Edits |-> NoEdit] /\ moves = 0 /\ overlapped = FALSE
      /\ used = {} /\ raced = {} /\ lost = {} /\ editors \subseteq Ecosystems
  BY <1>1 DEF Init
<1>3. \A b \in Batches : /\ batch[b].pc = "idle" /\ batch[b].name = None /\ batch[b].id = None
  BY <1>2 DEF NoBatch
<1>5. \A i \in Ids : device[i] = None
  BY <1>2
<1>6. TypeOK
  <2>1. NoBatch \in BatchType
    BY DEF NoBatch, BatchType, Vendors
  <2>2. NoEdit \in EditType
    BY DEF NoEdit, EditType
  <2>3. batch \in [Batches -> BatchType]
    BY <1>2, <2>1
  <2>4. edit \in [Edits -> EditType]
    BY <1>2, <2>2
  <2>5. moves \in 0..MaxMoves
    <3>1. MaxMoves \in Nat
      BY DiscoveryAssumption DEF DiscoveryAssumption
    <3> QED BY <1>2, <3>1
  <2>6. device \in [Ids -> Rows \cup {None}]
    BY <1>2
  <2> QED BY <1>2, <2>3, <2>4, <2>5, <2>6 DEF TypeOK, BatchType, EditType
<1>7. TurnsKnow
  BY <1>3, <1>5 DEF TurnsKnow, Working
<1>8. NamesBounded
  BY <1>3, <1>5 DEF NamesBounded
<1>9. NamesApart
  BY <1>3, <1>5 DEF NamesApart, Naming
<1>10. ReadIsSo /\ FoundIsThere
  BY <1>3 DEF ReadIsSo, FoundIsThere
<1> QED BY <1>6, <1>7, <1>8, <1>9, <1>10 DEF IInv

LEMMA BatchTypeStep ==
    ASSUME TypeOK, TurnsKnow, NamesBounded, [Next]_vars
    PROVE  batch' \in [Batches -> BatchType]
<1> USE DiscoveryAssumption DEF DiscoveryAssumption
<1>0. batch \in [Batches -> BatchType]
  BY DEF TypeOK, BatchType
<1>a. Vendors \ {""} \subseteq Vendors /\ "" \in Vendors /\ KnownVendors \subseteq Vendors
  BY DEF Vendors
<1>b. 0 \in Names /\ NextNumber \in Names
  BY NamesAre, NextNumberIsNext
<1>c. ASSUME NEW q \in BatchType, NEW l \in Working
      PROVE  [q EXCEPT !.pc = l] \in BatchType
  BY DEF BatchType
<1>1. ASSUME NEW b \in Batches, NextTurn(b)
      PROVE  batch' \in [Batches -> BatchType]
  <2> DEFINE r == [NoBatch EXCEPT !.pc = "next", !.eco = batch[b].eco, !.seen = batch[b].seen]
  <2>1. batch[b].eco \in Ecosystems \cup {None} /\ batch[b].seen \in SUBSET Macs
    BY <1>0 DEF BatchType
  <2>2. r \in BatchType
    BY <1>a, <2>1 DEF BatchType, NoBatch
  <2>3. batch' = [batch EXCEPT ![b] = r]
    BY <1>1 DEF NextTurn
  <2> HIDE DEF r
  <2> QED BY <1>0, <2>2, <2>3
<1>2. ASSUME NEW b \in Batches, NEW l \in Working, Step(b, l)
      PROVE  batch' \in [Batches -> BatchType]
  <2>1. batch' = [batch EXCEPT ![b] = [batch[b] EXCEPT !.pc = l]]
    BY <1>2 DEF Step
  <2> QED BY <1>0, <1>c, <2>1
<1>3. ASSUME NEW b \in Batches, EndBatch(b)
      PROVE  batch' \in [Batches -> BatchType]
  <2>1. NoBatch \in BatchType
    BY <1>a DEF BatchType, NoBatch
  <2> QED BY <1>0, <1>3, <2>1 DEF EndBatch
<1>4. ASSUME NEW b \in Batches, NEW eco \in Ecosystems, StartBatch(b, eco)
      PROVE  batch' \in [Batches -> BatchType]
  <2>1. [NoBatch EXCEPT !.pc = "next", !.eco = eco] \in BatchType
    BY <1>a DEF BatchType, NoBatch
  <2> QED BY <1>0, <1>4, <2>1 DEF StartBatch
<1>5. CASE \E c \in Batches : \E mac \in Macs \cup {None}, vendor \in KnownVendors \cup {""}, name \in {0, None} :
                   NextDevice(c, mac, vendor, name)
  <2>0. PICK b \in Batches, mac \in Macs \cup {None}, vendor \in KnownVendors \cup {""}, name \in {0, None} :
             NextDevice(b, mac, vendor, name)
    BY <1>5
  <2> DEFINE r == [NoBatch EXCEPT !.eco = batch[b].eco, !.seen = batch[b].seen \cup {mac},
                            !.pc = "lookup", !.mac = mac, !.vendor = vendor, !.name = name]
  <2>1. CASE mac \in {None} \cup batch[b].seen
    BY <1>0, <2>0, <2>1 DEF NextDevice
  <2>2. CASE mac \notin {None} \cup batch[b].seen
    <3>1. batch[b].eco \in Ecosystems \cup {None} /\ batch[b].seen \cup {mac} \in SUBSET Macs
      BY <1>0, <2>2 DEF BatchType
    <3>2. vendor \in Vendors /\ name \in Names \cup {None} /\ mac \in Macs \cup {None}
      BY <1>a, <1>b, <2>0
    <3>3. ASSUME NEW q \in BatchType, NEW k \in Names \cup {None}
          PROVE  [q EXCEPT !.name = k] \in BatchType
      BY DEF BatchType
    <3>4. ASSUME NEW q \in BatchType, NEW x \in Ecosystems \cup {None}, NEW y \in SUBSET Macs
          PROVE  [q EXCEPT !.eco = x, !.seen = y] \in BatchType
      BY DEF BatchType
    <3>6. ASSUME NEW q \in BatchType, NEW m \in Macs \cup {None}, NEW v \in Vendors
          PROVE  [q EXCEPT !.pc = "lookup", !.mac = m, !.vendor = v] \in BatchType
      BY DEF BatchType, Working
    <3>7. NoBatch \in BatchType
      BY <1>a DEF BatchType, NoBatch
    <3> DEFINE n1 == [NoBatch EXCEPT !.eco = batch[b].eco, !.seen = batch[b].seen \cup {mac}]
               n2 == [n1 EXCEPT !.pc = "lookup", !.mac = mac, !.vendor = vendor]
    <3>8. n1 \in BatchType
      BY <3>1, <3>4, <3>7
    <3>9. n2 \in BatchType
      <4> HIDE DEF n1
      <4> QED BY <3>2, <3>6, <3>8
    <3>10. [n2 EXCEPT !.name = name] \in BatchType
      <4> HIDE DEF n2
      <4> QED BY <3>2, <3>3, <3>9
    <3>11. r = [n2 EXCEPT !.name = name]
      OBVIOUS
    <3>12. r \in BatchType
      <4> HIDE DEF r, n2
      <4> QED BY <3>10, <3>11
    <3>5. batch' = [batch EXCEPT ![b] = r]
      BY <2>0, <2>2 DEF NextDevice
    <3> HIDE DEF r
    <3> QED BY <1>0, <3>12, <3>5
  <2> QED BY <2>1, <2>2
<1>6. ASSUME NEW b \in Batches, Lookup(b)
      PROVE  batch' \in [Batches -> BatchType]
  <2> DEFINE x == Holding(batch[b].eco, batch[b].mac) # {}
  <2>1. batch' = [batch EXCEPT ![b] = [batch[b] EXCEPT !.exists = x, !.pc = "resolve"]]
    BY <1>6 DEF Lookup
  <2>2. x \in BOOLEAN
    OBVIOUS
  <2> HIDE DEF x
  <2>3. ASSUME NEW q \in BatchType PROVE [q EXCEPT !.exists = x, !.pc = "resolve"] \in BatchType
    BY <2>2 DEF BatchType, Working
  <2> QED BY <1>0, <2>1, <2>3
<1>7. ASSUME NEW b \in Batches, Resolve(b)
      PROVE  batch' \in [Batches -> BatchType]
  <2> DEFINE l == IF batch[b].exists THEN "vendor" ELSE "register"
  <2>1. PICK v \in IF batch[b].vendor # "" THEN {batch[b].vendor} ELSE Vendors \ {""} :
            batch' = [batch EXCEPT ![b].vendor = v, ![b].exists = FALSE, ![b].pc = l]
    BY <1>7 DEF Resolve
  <2>2. v \in Vendors
    BY <1>0, <1>a DEF BatchType
  <2>3. l \in Working
    BY DEF Working
  <2> HIDE DEF l
  <2>4. ASSUME NEW q \in BatchType
        PROVE  [q EXCEPT !.vendor = v, !.exists = FALSE, !.pc = l] \in BatchType
    BY <2>2, <2>3 DEF BatchType
  <2>5. batch' = [batch EXCEPT ![b] = [batch[b] EXCEPT !.vendor = v, !.exists = FALSE, !.pc = l]]
    BY <2>1
  <2> QED BY <1>0, <2>4, <2>5
<1>8. ASSUME NEW b \in Batches, ReadDevice(b)
      PROVE  batch' \in [Batches -> BatchType]
  <2>1. ASSUME NEW i \in Ids, batch' = [batch EXCEPT ![b].id = i, ![b].pc = "updating"]
        PROVE  batch' \in [Batches -> BatchType]
    <3>1. batch' = [batch EXCEPT ![b] = [batch[b] EXCEPT !.id = i, !.pc = "updating"]]
      BY <2>1
    <3>2. ASSUME NEW q \in BatchType PROVE [q EXCEPT !.id = i, !.pc = "updating"] \in BatchType
      BY DEF BatchType, Working
    <3> QED BY <1>0, <3>1, <3>2
  <2>2. Holding(batch[b].eco, batch[b].mac) \subseteq Ids
    BY DEF Holding, Existing
  <2>3. \/ NextTurn(b)
        \/ \E l \in Working : Step(b, l)
        \/ \E i \in Ids : batch' = [batch EXCEPT ![b].id = i, ![b].pc = "updating"]
    <3>1. "naming" \in Working /\ "creating" \in Working
      BY DEF Working
    <3> QED BY <1>8, <2>2, <3>1 DEF ReadDevice
  <2> QED BY <1>1, <1>2, <2>1, <2>3
<1>9. ASSUME NEW b \in Batches, WriteVendor(b) \/ CreateDevice(b) \/ FailDevice(b)
      PROVE  batch' \in [Batches -> BatchType]
  <2>1. NextTurn(b)
    BY <1>9 DEF WriteVendor, CreateDevice, FailDevice
  <2> QED BY <1>1, <2>1
<1>10. ASSUME NEW b \in Batches, GenerateName(b)
       PROVE  batch' \in [Batches -> BatchType]
  <2>1. batch' = [batch EXCEPT ![b] = [batch[b] EXCEPT !.name = NextNumber, !.pc = "creating"]]
    BY <1>10 DEF GenerateName
  <2>2. ASSUME NEW q \in BatchType, NEW k \in Names PROVE [q EXCEPT !.name = k, !.pc = "creating"] \in BatchType
    BY DEF BatchType, Working
  <2> QED BY <1>0, <1>b, <2>1, <2>2
<1>11. ASSUME NEW b \in Batches, Discover(b)
       PROVE  batch' \in [Batches -> BatchType]
  BY <1>6, <1>7, <1>8, <1>9, <1>10, <1>11 DEF Discover
<1>12. \/ UNCHANGED batch
       \/ \E c \in Batches :
             \/ Discover(c) \/ EndBatch(c)
             \/ \E eco \in Ecosystems : StartBatch(c, eco)
             \/ \E mac \in Macs \cup {None}, vendor \in KnownVendors \cup {""}, name \in {0, None} :
                   NextDevice(c, mac, vendor, name)
  BY DEF Next, vars, WriteEdit, AnchorEdit, FailEdit, AnswerEdit, Authorize, StartEdit, ChangeEditors
<1>13. CASE UNCHANGED batch
  BY <1>0, <1>13
<1>14. CASE \E c \in Batches : Discover(c) \/ EndBatch(c)
  BY <1>3, <1>11, <1>14
<1>15. CASE \E c \in Batches : \E eco \in Ecosystems : StartBatch(c, eco)
  BY <1>4, <1>15
<1> QED BY <1>5, <1>12, <1>13, <1>14, <1>15

LEMMA TableTypeStep ==
    ASSUME TypeOK, TurnsKnow, [Next]_vars
    PROVE  device' \in [Ids -> Rows \cup {None}] /\ used' \subseteq Ids
<1>0. device \in [Ids -> Rows \cup {None}] /\ used \subseteq Ids /\ batch \in [Batches -> BatchType]
  BY DEF TypeOK, BatchType
<1>1. ASSUME NEW b \in Batches, batch[b].id \in Existing,
             device' = [device EXCEPT ![batch[b].id].vendor = batch[b].vendor]
      PROVE  device' \in [Ids -> Rows \cup {None}]
  <2> DEFINE i == batch[b].id
             v == batch[b].vendor
  <2>1. i \in Ids /\ device[i] \in Rows /\ v \in Vendors
    BY <1>0, <1>1 DEF Existing, BatchType
  <2>2. device' = [device EXCEPT ![i] = [device[i] EXCEPT !.vendor = v]]
    BY <1>1
  <2> HIDE DEF i, v
  <2>3. ASSUME NEW r \in Rows PROVE [r EXCEPT !.vendor = v] \in Rows
    BY <2>1 DEF Rows
  <2> QED BY <1>0, <2>1, <2>2, <2>3
<1>2. ASSUME NEW i \in Ids, NEW row \in Rows \cup {None}, device' = [device EXCEPT ![i] = row]
      PROVE  device' \in [Ids -> Rows \cup {None}]
  BY <1>0, <1>2
<1>3. Existing \subseteq Ids
  BY DEF Existing
<1>4. device' \in [Ids -> Rows \cup {None}]
  BY <1>0, <1>1, <1>2, <1>3, TableStep
<1>5. used' \subseteq Ids
  BY <1>0, TableStep
<1> QED BY <1>4, <1>5

LEMMA EditTypeStep ==
    ASSUME TypeOK, [Next]_vars
    PROVE  edit' \in [Edits -> EditType]
<1>0. edit \in [Edits -> EditType] /\ used \subseteq Ids
  BY DEF TypeOK, EditType
<1>1. ASSUME NEW e \in Edits, NEW l \in {"writing", "anchoring", "ok", "failed"},
             edit' = [edit EXCEPT ![e].pc = l]
      PROVE  edit' \in [Edits -> EditType]
  <2>1. edit' = [edit EXCEPT ![e] = [edit[e] EXCEPT !.pc = l]]
    BY <1>1
  <2>2. ASSUME NEW q \in EditType PROVE [q EXCEPT !.pc = l] \in EditType
    BY DEF EditType
  <2> QED BY <1>0, <2>1, <2>2
<1>2. ASSUME NEW e \in Edits, NEW kind \in {"create", "update", "remove"}, NEW i \in used \cup {None},
             StartEdit(e, kind, i)
      PROVE  edit' \in [Edits -> EditType]
  <2> DEFINE r == [pc |-> IF kind = "create" THEN "writing" ELSE "reading", kind |-> kind, id |-> i]
  <2>1. r \in EditType
    BY <1>0 DEF EditType
  <2>2. edit' = [edit EXCEPT ![e] = r]
    BY <1>2 DEF StartEdit
  <2> HIDE DEF r
  <2> QED BY <1>0, <2>1, <2>2
<1>3. ASSUME NEW e \in Edits, AnswerEdit(e)
      PROVE  edit' \in [Edits -> EditType]
  <2>1. NoEdit \in EditType
    BY DEF EditType, NoEdit
  <2> QED BY <1>0, <1>3, <2>1 DEF AnswerEdit
<1>4. ASSUME NEW e \in Edits, NEW isAdmin \in BOOLEAN, Authorize(e, isAdmin)
      PROVE  \E l \in {"writing", "anchoring", "ok", "failed"} : edit' = [edit EXCEPT ![e].pc = l]
  BY <1>4 DEF Authorize
<1>5. ASSUME NEW e \in Edits, WriteEdit(e) \/ AnchorEdit(e) \/ FailEdit(e)
      PROVE  \E l \in {"writing", "anchoring", "ok", "failed"} : edit' = [edit EXCEPT ![e].pc = l]
  BY <1>5 DEF WriteEdit, AnchorEdit, FailEdit
<1>6. \/ UNCHANGED edit
      \/ \E e \in Edits :
          \/ WriteEdit(e) \/ AnchorEdit(e) \/ FailEdit(e) \/ AnswerEdit(e)
          \/ \E isAdmin \in BOOLEAN : Authorize(e, isAdmin)
          \/ \E kind \in {"create", "update", "remove"}, i \in used \cup {None} : StartEdit(e, kind, i)
  BY DEF Next, Discover, vars, EndBatch, StartBatch, NextDevice, Lookup, Resolve, ReadDevice, GenerateName,
         FailDevice, CreateDevice, WriteVendor, ChangeEditors
<1> QED BY <1>0, <1>1, <1>2, <1>3, <1>4, <1>5, <1>6

LEMMA StepType ==
    ASSUME TypeOK, TurnsKnow, NamesBounded, [Next]_vars
    PROVE  TypeOK'
<1>1. editors' \subseteq Ecosystems
  <2>1. ASSUME NEW eco \in Ecosystems, ChangeEditors(eco) PROVE editors' \subseteq Ecosystems
    BY <2>1 DEF ChangeEditors, TypeOK
  <2> QED BY <2>1 DEF TypeOK, Next, Discover, vars, EndBatch, StartBatch, NextDevice, Lookup, Resolve,
        ReadDevice, GenerateName, FailDevice, CreateDevice, WriteVendor, WriteEdit, AnchorEdit, FailEdit,
        AnswerEdit, Authorize, StartEdit
<1>2. moves' \in 0..MaxMoves
  <2>1. UNCHANGED moves \/ Move
    BY DEF Next, Discover, vars, EndBatch, StartBatch, NextDevice, Lookup, Resolve,
        ReadDevice, GenerateName, FailDevice, CreateDevice, WriteVendor, WriteEdit, AnchorEdit, FailEdit,
        AnswerEdit, Authorize, StartEdit, ChangeEditors
  <2>2. MaxMoves \in Nat /\ moves \in 0..MaxMoves
    BY DiscoveryAssumption DEF TypeOK, DiscoveryAssumption
  <2>3. CASE Move
    BY <2>2, <2>3 DEF Move
  <2> QED BY <2>1, <2>2, <2>3
<1>3. raced' \subseteq Batches /\ lost' \subseteq Batches
  <2>1. ASSUME NEW c \in Batches, NEW mac, NEW vendor, NEW name, NextDevice(c, mac, vendor, name)
        PROVE  raced' \subseteq Batches /\ lost' \subseteq Batches
    BY <2>1 DEF NextDevice, TypeOK
  <2>2. ASSUME NEW c \in Batches, WriteVendor(c)
        PROVE  raced' \subseteq Batches /\ lost' \subseteq Batches
    BY <2>2 DEF WriteVendor, Touch, TypeOK
  <2>3. ASSUME NEW e \in Edits, WriteEdit(e)
        PROVE  raced' \subseteq Batches /\ lost' \subseteq Batches
    BY <2>3 DEF WriteEdit, Touch, Leave, TypeOK
  <2>4. \/ UNCHANGED <<raced, lost>>
        \/ \E c \in Batches : WriteVendor(c)
        \/ \E c \in Batches, mac \in Macs \cup {None}, vendor \in KnownVendors \cup {""}, name \in {0, None} :
               NextDevice(c, mac, vendor, name)
        \/ \E e \in Edits : WriteEdit(e)
    BY DEF Next, Discover, vars, EndBatch, StartBatch, Lookup, Resolve, ReadDevice, GenerateName, CreateDevice,
           FailDevice, AnchorEdit, FailEdit, AnswerEdit, Authorize, StartEdit, ChangeEditors
  <2> QED BY <2>1, <2>2, <2>3, <2>4 DEF TypeOK
<1>4. overlapped' \in BOOLEAN
  <2>1. ASSUME NEW c \in Batches, GenerateName(c) PROVE overlapped' \in BOOLEAN
    BY <2>1, Zenon DEF GenerateName
  <2>2. UNCHANGED overlapped \/ \E c \in Batches : GenerateName(c)
    BY DEF Next, Discover, vars, EndBatch, StartBatch, NextDevice, Lookup, Resolve,
        ReadDevice, FailDevice, CreateDevice, WriteVendor, WriteEdit, AnchorEdit, FailEdit,
        AnswerEdit, Authorize, StartEdit, ChangeEditors
  <2> QED BY <2>1, <2>2 DEF TypeOK
<1> QED BY <1>1, <1>2, <1>3, <1>4, BatchTypeStep, TableTypeStep, EditTypeStep DEF TypeOK, BatchType, EditType
\* Where a step leaves a batch, with where it was.
LEMMA TurnStep ==
    ASSUME TypeOK, TurnsKnow, [Next]_vars, NEW b \in Batches
    PROVE  LET q == batch[b]
               p == batch'[b]
               same == p.eco = q.eco /\ p.mac = q.mac
           IN  \/ p = q
               \/ p.pc = "idle" /\ p.name = None /\ p.id = None
               \/ p.pc = "next" /\ p.name = None /\ p.id = None /\ p.eco \in Ecosystems
               \/ /\ q.pc = "next" /\ p.pc = "lookup" /\ p.eco = q.eco /\ p.mac \in Macs
                  /\ p.id = None /\ p.name \in {0, None}
               \/ /\ q.pc = "lookup" /\ same /\ p.pc = "resolve" /\ p.id = None /\ p.name = q.name
                  /\ (p.exists => Holding(q.eco, q.mac) # {})
                  /\ UNCHANGED <<device, lost>>
               \/ /\ q.pc = "resolve" /\ same /\ p.id = None /\ p.name = q.name
                  /\ p.pc = (IF q.exists THEN "vendor" ELSE "register") /\ UNCHANGED device
               \/ /\ q.pc \in {"register", "vendor"} /\ same /\ p.pc = "updating" /\ p.name = q.name
                  /\ p.id \in Holding(q.eco, q.mac) /\ MissingVendor(p.id)
                  /\ UNCHANGED device
               \/ /\ q.pc \in {"register", "vendor"} /\ same /\ p.id = None /\ p.name = q.name
                  /\ p.pc = IF q.name = None THEN "naming" ELSE "creating"
               \/ /\ q.pc = "naming" /\ same /\ p.id = None /\ p.name = NextNumber /\ p.pc = "creating"
                  /\ UNCHANGED device /\ (overlapped' = (overlapped \/ \E c \in Batches \ {b} : Naming(c)))
                  /\ \A c \in Batches \ {b} : batch'[c] = batch[c]
<1> DEFINE q == batch[b]
           p == batch'[b]
           same == p.eco = q.eco /\ p.mac = q.mac
<1>1. Lookup(b) => q.pc = "lookup" /\ UNCHANGED <<device, lost>>
  BY DEF Lookup
<1>2. Resolve(b) => q.pc = "resolve" /\ UNCHANGED device
  BY DEF Resolve
<1>3. ReadDevice(b) => q.pc \in {"register", "vendor"} /\ UNCHANGED device
  BY DEF ReadDevice
<1>4. GenerateName(b) => /\ q.pc = "naming" /\ UNCHANGED device
                         /\ (overlapped' = (overlapped \/ \E c \in Batches \ {b} : Naming(c)))
  BY Zenon DEF GenerateName
<1>7. GenerateName(b) => \A c \in Batches \ {b} : batch'[c] = batch[c]
  <2>1. batch \in [Batches -> BatchType]
    BY DEF TypeOK, BatchType
  <2> QED BY <2>1 DEF GenerateName
<1>5. \/ p = q
      \/ p.pc = "idle" /\ p.name = None /\ p.id = None
      \/ p.pc = "next" /\ p.name = None /\ p.id = None /\ p.eco \in Ecosystems
      \/ /\ q.pc = "next" /\ p.pc = "lookup" /\ p.eco = q.eco /\ p.mac \in Macs
         /\ p.id = None /\ p.name \in {0, None}
      \/ Lookup(b) /\ same /\ p.pc = "resolve" /\ p.id = None /\ p.name = q.name
         /\ (p.exists => Holding(q.eco, q.mac) # {})
      \/ Resolve(b) /\ same /\ p.id = None /\ p.name = q.name
         /\ p.pc = IF q.exists THEN "vendor" ELSE "register"
      \/ ReadDevice(b) /\ same /\ p.pc = "updating" /\ p.name = q.name
         /\ p.id \in Holding(q.eco, q.mac) /\ MissingVendor(p.id)
      \/ ReadDevice(b) /\ same /\ p.id = None /\ p.name = q.name
         /\ p.pc = IF q.name = None THEN "naming" ELSE "creating"
      \/ GenerateName(b) /\ same /\ p.id = None /\ p.name = NextNumber /\ p.pc = "creating"
  BY BatchStep
<1> HIDE DEF p, q
<1>6. \/ p = q
      \/ p.pc = "idle" /\ p.name = None /\ p.id = None
      \/ p.pc = "next" /\ p.name = None /\ p.id = None /\ p.eco \in Ecosystems
      \/ /\ q.pc = "next" /\ p.pc = "lookup" /\ p.eco = q.eco /\ p.mac \in Macs
         /\ p.id = None /\ p.name \in {0, None}
      \/ /\ q.pc = "lookup" /\ same /\ p.pc = "resolve" /\ p.id = None /\ p.name = q.name
         /\ (p.exists => Holding(q.eco, q.mac) # {})
         /\ UNCHANGED <<device, lost>>
      \/ /\ q.pc = "resolve" /\ same /\ p.id = None /\ p.name = q.name
         /\ p.pc = (IF q.exists THEN "vendor" ELSE "register") /\ UNCHANGED device
      \/ /\ q.pc \in {"register", "vendor"} /\ same /\ p.pc = "updating" /\ p.name = q.name
         /\ p.id \in Holding(q.eco, q.mac) /\ MissingVendor(p.id)
         /\ UNCHANGED device
      \/ /\ q.pc \in {"register", "vendor"} /\ same /\ p.id = None /\ p.name = q.name
         /\ p.pc = IF q.name = None THEN "naming" ELSE "creating"
      \/ /\ q.pc = "naming" /\ same /\ p.id = None /\ p.name = NextNumber /\ p.pc = "creating"
         /\ UNCHANGED device /\ (overlapped' = (overlapped \/ \E c \in Batches \ {b} : Naming(c)))
         /\ \A c \in Batches \ {b} : batch'[c] = batch[c]
  BY <1>1, <1>2, <1>3, <1>4, <1>5, <1>7, Zenon
<1> QED BY <1>6 DEF p, q

LEMMA StepKnows ==
    ASSUME TypeOK, TurnsKnow, NamesBounded, [Next]_vars
    PROVE  TurnsKnow'
<1>1. used \subseteq used' /\ \A i \in Ids : device'[i] # None => i \in used'
  <2>0. device \in [Ids -> Rows \cup {None}]
    BY DEF TypeOK
  <2> QED BY <2>0, TableStep DEF TurnsKnow, Existing
<1>2. ASSUME NEW b \in Batches
      PROVE  /\ batch'[b].pc # "idle" => batch'[b].eco \in Ecosystems
             /\ batch'[b].pc \in Working => batch'[b].mac \in Macs
             /\ batch'[b].pc = "updating" => batch'[b].id \in used'
             /\ batch'[b].pc # "updating" => batch'[b].id = None
             /\ batch'[b].pc = "creating" => batch'[b].name # None
             /\ batch'[b].pc # "creating" => batch'[b].name \in {0, None}
  <2> DEFINE q == batch[b]
             p == batch'[b]
  <2>1. /\ q.pc # "idle" => q.eco \in Ecosystems
        /\ q.pc \in Working => q.mac \in Macs
        /\ q.pc = "updating" => q.id \in used
        /\ q.pc # "updating" => q.id = None
        /\ q.pc = "creating" => q.name # None
        /\ q.pc # "creating" => q.name \in {0, None}
    BY DEF TurnsKnow
  <2>2. \A i : i \in Holding(q.eco, q.mac) => i \in used
    BY DEF Holding, Existing, TurnsKnow
  <2>3. \/ p = q
        \/ p.pc = "idle" /\ p.id = None /\ p.name = None
        \/ p.pc = "next" /\ p.id = None /\ p.eco \in Ecosystems /\ p.name = None
        \/ /\ q.pc = "next" /\ p.pc = "lookup" /\ p.eco = q.eco /\ p.mac \in Macs /\ p.id = None
           /\ p.name \in {0, None}
        \/ /\ q.pc \in {"lookup", "resolve"} /\ p.pc \in {"resolve", "vendor", "register"}
           /\ p.eco = q.eco /\ p.mac = q.mac /\ p.id = None /\ p.name = q.name
        \/ /\ q.pc \in {"register", "vendor"} /\ p.pc = "updating" /\ p.id \in Holding(q.eco, q.mac)
           /\ p.eco = q.eco /\ p.mac = q.mac /\ p.name = q.name
        \/ /\ q.pc \in {"register", "vendor"} /\ p.pc = (IF q.name = None THEN "naming" ELSE "creating")
           /\ p.eco = q.eco /\ p.mac = q.mac /\ p.id = None /\ p.name = q.name
        \/ /\ q.pc = "naming" /\ p.pc = "creating" /\ p.name = NextNumber
           /\ p.eco = q.eco /\ p.mac = q.mac /\ p.id = None
    BY TurnStep
  <2>4. NextNumber # None
    BY NextNumberIsNext, DiscoveryAssumption DEF DiscoveryAssumption
  <2> HIDE DEF p, q
  <2> QED BY <1>1, <2>1, <2>2, <2>3, <2>4 DEF p, q, Working
<1> QED BY <1>1, <1>2 DEF TurnsKnow
LEMMA StepBounded ==
    ASSUME TypeOK, TurnsKnow, NamesBounded, [Next]_vars
    PROVE  NamesBounded'
<1> DEFINE n == Cardinality(used)
           m == Cardinality(used')
<1>0. /\ device \in [Ids -> Rows \cup {None}]
      /\ \A i \in Ids : device[i] # None => device[i].name \in Nat
      /\ \A b \in Batches : batch[b].name # None => batch[b].name \in Nat
  <2>1. Names \subseteq Nat
    BY NamesAre
  <2> QED BY <2>1 DEF TypeOK, Rows
<1>1. n \in Nat /\ m \in Nat /\ n <= m /\ (used' = used => m = n)
      /\ \A i \in Ids \ used : used' = used \cup {i} => m = n + 1
  <2>1. \/ used' = used
        \/ \E i \in Ids \ used : used' = used \cup {i}
    BY TableStep
  <2>2. n \in Nat /\ \A i \in Ids \ used : Cardinality(used \cup {i}) = n + 1
    BY UsedCounts
  <2>3. CASE used' = used
    BY <2>2, <2>3
  <2>4. CASE \E i \in Ids \ used : used' = used \cup {i}
    <3>1. m = n + 1
      BY <2>2, <2>4
    <3> HIDE DEF n, m
    <3> QED BY <2>2, <2>4, <3>1
  <2> QED BY <2>1, <2>3, <2>4
<1>2. /\ \A i \in Ids : device[i] # None => device[i].name <= n
      /\ \A b \in Batches : batch[b].name # None => batch[b].name <= n + 1
  BY DEF NamesBounded
<1>3. NextNumber \in Nat /\ NextNumber <= n + 1
  BY NextNumberIsNext
<1> HIDE DEF n, m
<1>4. ASSUME NEW b \in Batches, batch'[b].name # None
      PROVE  batch'[b].name <= m + 1
  <2>1. \/ batch'[b].name = batch[b].name
        \/ batch'[b].name = 0
        \/ batch'[b].name = NextNumber
    BY <1>4, TurnStep
  <2>2. CASE batch'[b].name = batch[b].name
    BY <1>0, <1>1, <1>2, <1>4, <2>2
  <2>3. CASE batch'[b].name = 0
    BY <1>1, <2>3
  <2>4. CASE batch'[b].name = NextNumber
    BY <1>1, <1>3, <2>4
  <2> QED BY <2>1, <2>2, <2>3, <2>4
<1>5. ASSUME NEW i \in Ids, device'[i] # None
      PROVE  device'[i].name <= m
  <2>1. \/ device'[i] = device[i]
        \/ device[i] # None /\ device'[i].name \in {0, device[i].name}
        \/ \E j \in Ids \ used, b \in Batches :
              CreateDevice(b) /\ used' = used \cup {j} /\ device'[i].name = batch[b].name
        \/ device'[i].name = 0
    BY <1>5, RowStep
  <2>2. CASE device'[i] = device[i] \/ (device[i] # None /\ device'[i].name \in {0, device[i].name})
    <3>1. device[i] # None /\ device'[i].name \in {0, device[i].name}
      BY <1>5, <2>2
    <3> QED BY <1>0, <1>1, <1>2, <3>1
  <2>3. CASE \E j \in Ids \ used, b \in Batches :
              CreateDevice(b) /\ used' = used \cup {j} /\ device'[i].name = batch[b].name
    <3>1. PICK j \in Ids \ used, b \in Batches :
              CreateDevice(b) /\ used' = used \cup {j} /\ device'[i].name = batch[b].name
      BY <2>3
    <3>2. batch[b].name # None
      BY <3>1 DEF CreateDevice, TurnsKnow
    <3>3. m = n + 1 /\ batch[b].name <= n + 1
      BY <1>1, <1>2, <3>1, <3>2
    <3> QED BY <3>1, <3>3
  <2>4. CASE device'[i].name = 0
    BY <1>1, <2>4
  <2> QED BY <2>1, <2>2, <2>3, <2>4
<1> QED BY <1>4, <1>5 DEF NamesBounded, m

\* Who holds a generated name after a step held it, or has just generated it.
LEMMA NamingStep ==
    ASSUME TypeOK, TurnsKnow, [Next]_vars, NEW b \in Batches,
           batch'[b].pc = "creating", batch'[b].name # 0
    PROVE  \/ Naming(b) /\ batch'[b] = batch[b]
           \/ /\ batch[b].pc = "naming" /\ batch'[b].name = NextNumber /\ UNCHANGED device
              /\ (overlapped' = (overlapped \/ \E c \in Batches \ {b} : Naming(c)))
              /\ \A c \in Batches \ {b} : batch'[c] = batch[c]
<1> DEFINE q == batch[b]
           p == batch'[b]
<1>1. q.pc # "creating" => q.name \in {0, None}
  BY DEF TurnsKnow
<1>2. \/ p = q
      \/ q.pc \in {"register", "vendor"} /\ p.name = q.name
         /\ p.pc = IF q.name = None THEN "naming" ELSE "creating"
      \/ /\ q.pc = "naming" /\ p.name = NextNumber
         /\ UNCHANGED device /\ (overlapped' = (overlapped \/ \E c \in Batches \ {b} : Naming(c)))
         /\ \A c \in Batches \ {b} : batch'[c] = batch[c]
  BY TurnStep
<1>3. CASE p = q
  BY <1>3 DEF Naming
<1>4. CASE q.pc \in {"register", "vendor"} /\ p.name = q.name
           /\ p.pc = IF q.name = None THEN "naming" ELSE "creating"
  BY <1>1, <1>4
<1> QED BY <1>2, <1>3, <1>4

LEMMA StepApart ==
    ASSUME TypeOK, TurnsKnow, NamesBounded, NamesApart, [Next]_vars
    PROVE  NamesApart'
<1>1. SUFFICES ASSUME ~overlapped'
               PROVE  /\ \A b, c \in Batches : Naming(b)' /\ Naming(c)' => b = c
                      /\ \A b \in Batches, i \in Ids :
                            Naming(b)' /\ device'[i] # None => device'[i].name < batch'[b].name
                      /\ \A i, j \in Ids : device'[i] # None /\ device'[j] # None /\ i # j
                                           /\ device'[i].name # 0 => device'[i].name # device'[j].name
  BY DEF NamesApart
<1>2. ~overlapped
  <2>1. ASSUME NEW c \in Batches, GenerateName(c) PROVE ~overlapped
    BY <1>1, <2>1, Zenon DEF GenerateName
  <2>2. UNCHANGED overlapped \/ \E c \in Batches : GenerateName(c)
    BY DEF Next, Discover, vars, EndBatch, StartBatch, NextDevice, Lookup, Resolve,
        ReadDevice, FailDevice, CreateDevice, WriteVendor, WriteEdit, AnchorEdit, FailEdit,
        AnswerEdit, Authorize, StartEdit, ChangeEditors
  <2> QED BY <1>1, <2>1, <2>2
<1>3. /\ \A b, c \in Batches : Naming(b) /\ Naming(c) => b = c
      /\ \A b \in Batches, i \in Ids : Naming(b) /\ device[i] # None => device[i].name < batch[b].name
      /\ \A i, j \in Ids : device[i] # None /\ device[j] # None /\ i # j /\ device[i].name # 0
                              => device[i].name # device[j].name
  BY <1>2 DEF NamesApart
<1>4. /\ \A i \in Ids : device[i] # None => device[i].name \in Nat
      /\ \A b \in Batches : batch[b].pc = "creating" => batch[b].name \in Nat
  <2>1. Names \subseteq Nat
    BY NamesAre
  <2> QED BY <2>1 DEF TypeOK, Rows, TurnsKnow
<1>5. ASSUME NEW b \in Batches, Naming(b)'
      PROVE  \/ Naming(b) /\ batch'[b] = batch[b]
             \/ /\ batch[b].pc = "naming" /\ batch'[b].name = NextNumber /\ UNCHANGED device
                /\ \A c \in Batches \ {b} : ~Naming(c) /\ batch'[c] = batch[c]
  <2>1. batch'[b].pc = "creating" /\ batch'[b].name # 0
    BY <1>5 DEF Naming
  <2>2. \/ Naming(b) /\ batch'[b] = batch[b]
        \/ /\ batch[b].pc = "naming" /\ batch'[b].name = NextNumber /\ UNCHANGED device
           /\ (overlapped' = (overlapped \/ \E c \in Batches \ {b} : Naming(c)))
           /\ \A c \in Batches \ {b} : batch'[c] = batch[c]
    BY <2>1, NamingStep
  <2> QED BY <1>1, <2>2, Zenon
<1>6. ASSUME NEW b \in Batches, NEW c \in Batches, Naming(b)', Naming(c)'
      PROVE  b = c
  <2>1. CASE Naming(b) /\ Naming(c)
    BY <1>3, <2>1
  <2>2. ASSUME b # c, batch[b].pc = "naming", ~Naming(c), batch'[c] = batch[c]
        PROVE  FALSE
    BY <1>6, <2>2 DEF Naming
  <2>3. ASSUME b # c, batch[c].pc = "naming", ~Naming(b), batch'[b] = batch[b]
        PROVE  FALSE
    BY <1>6, <2>3 DEF Naming
  <2> QED BY <1>5, <1>6, <2>1, <2>2, <2>3
<1>7. ASSUME NEW b \in Batches, NEW i \in Ids, Naming(b)', device'[i] # None
      PROVE  device'[i].name < batch'[b].name
  <2>1. CASE batch'[b].name = NextNumber /\ UNCHANGED device
    BY <1>7, <2>1, NextNumberIsNext
  <2>2. CASE Naming(b) /\ batch'[b] = batch[b]
    <3>1. batch[b].name \in Nat /\ batch[b].name # 0 /\ 0 < batch[b].name
      BY <1>4, <2>2 DEF Naming
    <3>2. ASSUME NEW c \in Batches, CreateDevice(c) PROVE batch[c].name = 0
      <4>1. batch[c].pc = "creating" /\ batch'[c].pc # "creating"
        BY <3>2 DEF CreateDevice, NextTurn, TypeOK, NoBatch
      <4>2. c # b
        BY <2>2, <4>1
      <4> QED BY <1>3, <2>2, <4>1, <4>2 DEF Naming
    <3>3. \/ device'[i].name = 0
          \/ device[i] # None /\ device'[i].name = device[i].name
      BY <1>7, <3>2, RowStep
    <3>4. CASE device'[i].name = 0
      BY <2>2, <3>1, <3>4
    <3>5. CASE device[i] # None /\ device'[i].name = device[i].name
      BY <1>3, <2>2, <3>5
    <3> QED BY <3>3, <3>4, <3>5
  <2> QED BY <1>5, <1>7, <2>1, <2>2
<1>8. ASSUME NEW i \in Ids, NEW j \in Ids, device'[i] # None, device'[j] # None, i # j, device'[i].name # 0
      PROVE  device'[i].name # device'[j].name
  <2>1. ASSUME NEW k \in Ids, device'[k] # None
        PROVE  \/ device[k] # None /\ device'[k].name = device[k].name
               \/ device'[k].name = 0
               \/ \E b \in Batches : /\ CreateDevice(b) /\ device'[k].name = batch[b].name
                                     /\ \A l \in Ids \ {k} : device'[l] = device[l]
    BY <2>1, RowStep
  <2>2. ASSUME NEW k \in Ids, NEW l \in Ids \ {k}, NEW b \in Batches, device'[k] # None, device'[l] # None,
               device'[k].name # 0, CreateDevice(b),
               device'[k].name = batch[b].name, device'[l] = device[l]
        PROVE  device'[k].name # device'[l].name
    <3>1. Naming(b) /\ batch[b].pc = "creating"
      BY <2>2 DEF CreateDevice, Naming
    <3>2. device[l].name < batch[b].name /\ device[l].name \in Nat /\ batch[b].name \in Nat
      BY <1>3, <1>4, <2>2, <3>1
    <3>3. device[l].name # batch[b].name
      BY <3>2
    <3> QED BY <2>2, <3>3
  <2>3. CASE device'[j].name = 0
    BY <1>8, <2>3
  <2>4. CASE device'[j].name # 0 /\ \E b \in Batches : /\ CreateDevice(b) /\ device'[i].name = batch[b].name
                                 /\ \A l \in Ids \ {i} : device'[l] = device[l]
    BY <1>8, <2>2, <2>4
  <2>5. CASE device'[j].name # 0 /\ \E b \in Batches : /\ CreateDevice(b) /\ device'[j].name = batch[b].name
                                 /\ \A l \in Ids \ {j} : device'[l] = device[l]
    BY <1>8, <2>2, <2>5
  <2>6. CASE /\ device[i] # None /\ device'[i].name = device[i].name
             /\ device[j] # None /\ device'[j].name = device[j].name
    BY <1>3, <1>8, <2>6
  <2> QED BY <1>8, <2>1, <2>3, <2>4, <2>5, <2>6
<1> QED BY <1>6, <1>7, <1>8

LEMMA StepReadIsSo ==
    ASSUME TypeOK, TurnsKnow, ReadIsSo, [Next]_vars
    PROVE  ReadIsSo'
<1>0. batch \in [Batches -> BatchType]
  BY DEF TypeOK, BatchType
<1>1. SUFFICES ASSUME NEW b \in Batches, batch'[b].pc = "updating", b \notin raced',
                      device'[batch'[b].id] # None
               PROVE  /\ device'[batch'[b].id].eco = batch'[b].eco
                      /\ device'[batch'[b].id].mac = batch'[b].mac
                      /\ device'[batch'[b].id].vendor \in {"", "Generic Device"}
  BY DEF ReadIsSo, MissingVendor
<1>2. CASE batch'[b] = batch[b]
  <2> DEFINE i == batch[b].id
  <2>1. batch[b].pc = "updating" /\ i \in used /\ i \in Ids
    BY <1>1, <1>2 DEF TurnsKnow, TypeOK
  <2>2. b \notin raced
    BY <1>1, <2>1, HistoryStep
  <2>3. ASSUME NEW x, x # b PROVE ~Touch(i, x)
    BY <1>1, <2>3 DEF Touch
  <2>4. ASSUME NEW c \in Batches, WriteVendor(c) PROVE c # b
    BY <1>0, <1>1, <2>4 DEF WriteVendor, NextTurn, NoBatch
  <2>5. \A e \in Edits : e # b
    BY DiscoveryAssumption DEF DiscoveryAssumption
  <2>6. device'[i] = device[i]
    <3> HIDE DEF i
    <3> QED BY <1>1, <1>2, <2>1, <2>3, <2>4, <2>5, RowStep DEF i
  <2> QED BY <1>1, <1>2, <2>1, <2>2, <2>6 DEF ReadIsSo, MissingVendor
<1>3. CASE batch'[b].id \in Holding(batch[b].eco, batch[b].mac) /\ MissingVendor(batch'[b].id)
           /\ batch'[b].eco = batch[b].eco /\ batch'[b].mac = batch[b].mac /\ UNCHANGED device
  BY <1>3 DEF Holding, MissingVendor
<1> QED BY <1>1, <1>2, <1>3, TurnStep

LEMMA StepFound ==
    ASSUME TypeOK, TurnsKnow, FoundIsThere, [Next]_vars
    PROVE  FoundIsThere'
<1>1. SUFFICES ASSUME NEW b \in Batches, b \notin lost',
                      \/ batch'[b].pc = "resolve" /\ batch'[b].exists
                      \/ batch'[b].pc \in {"vendor", "updating"}
               PROVE  \E i \in Ids : device'[i] # None /\ device'[i].eco = batch'[b].eco
                                                       /\ device'[i].mac = batch'[b].mac
  BY DEF FoundIsThere
<1>2. batch[b].pc # "next" => b \notin lost
  BY <1>1, HistoryStep
<1>3. CASE batch'[b] = batch[b]
  <2>1. PICK i \in Ids : device[i] # None /\ device[i].eco = batch[b].eco /\ device[i].mac = batch[b].mac
    BY <1>1, <1>2, <1>3 DEF FoundIsThere
  <2>2. i \in used
    BY <2>1 DEF TurnsKnow
  <2>3. ~Leave(i)
    BY <1>1, <2>1 DEF Leave
  <2>4. device'[i] # None /\ device'[i].eco = device[i].eco /\ device'[i].mac = device[i].mac
    BY <2>1, <2>2, <2>3, RowStep
  <2> QED BY <1>3, <2>1, <2>4
<1>4. CASE Holding(batch[b].eco, batch[b].mac) # {} /\ UNCHANGED device
           /\ batch'[b].eco = batch[b].eco /\ batch'[b].mac = batch[b].mac
  BY <1>4 DEF Holding, Existing
<1>5. CASE /\ batch[b].pc = "resolve" /\ batch[b].exists /\ UNCHANGED device
           /\ batch'[b].eco = batch[b].eco /\ batch'[b].mac = batch[b].mac
  BY <1>2, <1>5 DEF FoundIsThere
<1> QED BY <1>1, <1>3, <1>4, <1>5, TurnStep

-----------------------------------------------------------------------------
(* The theorems.                                                            *)

LEMMA Inductive == IInv /\ [Next]_vars => IInv'
<1>1. SUFFICES ASSUME IInv, [Next]_vars PROVE IInv'
  OBVIOUS
<1> QED BY <1>1, StepType, StepKnows, StepBounded, StepApart, StepReadIsSo, StepFound DEF IInv

\* The inductive invariant holds in every reachable state.
THEOREM Invariant == Spec => []IInv
<1> QED BY InitIInv, Inductive, PTL DEF Spec

\* The state always has its types, and no generated name leaves the numbers
\* that as many rows can need.
THEOREM TypeCorrect == Spec => []TypeOK
<1>1. IInv => TypeOK
  BY DEF IInv
<1> QED BY <1>1, Invariant, PTL

\* generateNextDefaultName: unless two names were being generated at once, two
\* devices of an owner never have the same generated name.
THEOREM NamesDiffer == Spec => []DefaultNamesDiffer
<1>1. IInv => DefaultNamesDiffer
  BY DEF IInv, NamesApart, DefaultNamesDiffer, Existing
<1> QED BY <1>1, Invariant, PTL

\* updateVendorIfMissing: a vendor goes to the device that was read, and over
\* none that was known, unless the row was written in between.
THEOREM VendorSafe == Spec => VendorIsRight
<1>1. ASSUME IInv, [Next]_vars, NEW b \in Batches, NEW i \in Existing,
             batch[b].pc = "updating", batch'[b].pc = "next",
             device'[i] # None, device'[i].vendor # device[i].vendor, b \notin raced
      PROVE  /\ device[i].vendor \notin KnownVendors
             /\ device[i].eco = batch[b].eco /\ device[i].mac = batch[b].mac
  <2>1. i \in Ids /\ device[i] # None /\ i \in used /\ TypeOK /\ TurnsKnow
    BY <1>1 DEF Existing, IInv, TurnsKnow
  <2>2. batch' # batch
    BY <1>1
  <2>3. ASSUME NEW c \in Batches, WriteVendor(c) PROVE c = b
    BY <1>1, <2>1, <2>3 DEF WriteVendor, NextTurn, TypeOK
  <2>4. batch[b].id = i
    BY <1>1, <2>1, <2>2, <2>3, RowStep
  <2>5. device[i].eco = batch[b].eco /\ device[i].mac = batch[b].mac /\ MissingVendor(i)
    BY <1>1, <2>1, <2>4 DEF IInv, ReadIsSo
  <2> QED BY <2>5, DiscoveryAssumption DEF MissingVendor, DiscoveryAssumption
<1>2. IInv /\ [Next]_vars
        => [\A b \in Batches : \A i \in Existing :
              /\ batch[b].pc = "updating" /\ batch'[b].pc = "next"
              /\ i \in Existing' /\ device'[i].vendor # device[i].vendor
              => \/ b \in raced
                 \/ /\ device[i].vendor \notin KnownVendors
                    /\ device[i].eco = batch[b].eco /\ device[i].mac = batch[b].mac]_vars
  BY <1>1 DEF Existing
<1> QED BY <1>2, Invariant, PTL DEF Spec, VendorIsRight

\* discoverAndSync: a turn in which no call failed ends with its device
\* registered, unless a person removed or moved it meanwhile.
THEOREM DevicesSynced == Spec => EveryDeviceSynced
<1>1. ASSUME IInv, NEW b \in Batches, batch'[b].pc = "next", b \notin lost,
             ReadDevice(b) \/ WriteVendor(b) \/ CreateDevice(b)
      PROVE  \E i \in Ids : /\ device'[i] # None /\ device'[i].eco = batch[b].eco
                            /\ device'[i].mac = batch[b].mac
  <2>0. /\ batch \in [Batches -> BatchType] /\ device \in [Ids -> Rows \cup {None}]
        /\ TypeOK /\ TurnsKnow /\ FoundIsThere
    BY <1>1 DEF IInv, TypeOK, BatchType
  <2>1. batch[b].pc \in {"vendor", "updating"}
            => \E i \in Ids : /\ device[i] # None /\ device[i].eco = batch[b].eco
                              /\ device[i].mac = batch[b].mac
    BY <1>1, <2>0 DEF FoundIsThere
  <2>2. Holding(batch[b].eco, batch[b].mac) # {}
            <=> \E i \in Ids : /\ device[i] # None /\ device[i].eco = batch[b].eco
                               /\ device[i].mac = batch[b].mac
    BY DEF Holding, Existing
  <2>3. CASE ReadDevice(b)
    <3>1. UNCHANGED device
      BY <2>3 DEF ReadDevice
    <3>2. ~(batch' = [batch EXCEPT ![b].pc = IF batch[b].name = None THEN "naming" ELSE "creating"])
      BY <1>1, <2>0 DEF BatchType
    <3>3. Holding(batch[b].eco, batch[b].mac) # {}
      BY <2>1, <2>2, <2>3, <3>2 DEF ReadDevice, Step
    <3> QED BY <2>2, <3>1, <3>3
  <2>4. CASE WriteVendor(b)
    <3>1. PICK i \in Ids : /\ device[i] # None /\ device[i].eco = batch[b].eco
                           /\ device[i].mac = batch[b].mac
      BY <2>1, <2>4 DEF WriteVendor
    <3>2. [Next]_vars
      BY <2>4 DEF Next, Discover
    <3>3. i \in used /\ batch' # batch
      BY <1>1, <2>0, <2>4, <3>1 DEF TurnsKnow, WriteVendor
    <3>4. device'[i] # None /\ device'[i].eco = device[i].eco /\ device'[i].mac = device[i].mac
      BY <2>0, <3>1, <3>2, <3>3, RowStep
    <3> QED BY <3>1, <3>4
  <2>5. CASE CreateDevice(b)
    <3>1. CASE ~UniqueWith(None, batch[b].eco, batch[b].mac)
      BY <2>2, <2>5, <3>1 DEF CreateDevice, UniqueWith
    <3>2. CASE UniqueWith(None, batch[b].eco, batch[b].mac)
      <4> DEFINE row == [eco |-> batch[b].eco, mac |-> batch[b].mac,
                         vendor |-> batch[b].vendor, name |-> batch[b].name]
      <4>1. Insert(row)
        BY <2>5, <3>2 DEF CreateDevice
      <4>2. row.eco = batch[b].eco /\ row.mac = batch[b].mac
        OBVIOUS
      <4>3. row # None
        <5>1. /\ batch[b].eco \in Ecosystems /\ batch[b].mac \in Macs /\ batch[b].name \in Names
              /\ batch[b].vendor \in Vendors
          BY <2>0, <2>5 DEF CreateDevice, TurnsKnow, BatchType, Working
        <5>2. row \in Rows
          BY <5>1 DEF Rows
        <5> HIDE DEF row
        <5> QED BY <5>2, RowsAssumption
      <4> HIDE DEF row
      <4>4. PICK i \in Ids : device' = [device EXCEPT ![i] = row]
        BY <4>1 DEF Insert
      <4>5. device'[i] = row
        BY <2>0, <4>4
      <4> QED BY <4>2, <4>3, <4>5
    <3> QED BY <3>1, <3>2
  <2> QED BY <1>1, <2>3, <2>4, <2>5
<1>2. IInv /\ [Next]_vars
        => [\A b \in Batches :
              (ReadDevice(b) \/ WriteVendor(b) \/ CreateDevice(b)) /\ batch'[b].pc = "next"
              => \/ b \in lost
                 \/ \E i \in Ids : /\ device'[i] # None /\ device'[i].eco = batch[b].eco
                                   /\ device'[i].mac = batch[b].mac]_vars
  BY <1>1
<1> QED BY <1>2, Invariant, PTL DEF Spec, EveryDeviceSynced
==============================================================================
