--------------------------- MODULE DeviceDiscovery ---------------------------
(***************************************************************************)
(* The devices of one owner's ecosystems.  After an accepted reading       *)
(* iot-manager goes through the devices it names, one at a time and in the *)
(* background, and asks the auth service to look each one up and then to   *)
(* register it or to complete its vendor.  Batches of several readings     *)
(* overlap, and people create, change and remove devices meanwhile.        *)
(*                                                                         *)
(* Every database access is a step.  A name is a number when it is the     *)
(* generated "Nuevo dispositivo <n>", and 0 when a person or the device    *)
(* chose it.                                                               *)
(***************************************************************************)
EXTENDS Naturals, FiniteSetsExt

CONSTANTS
    Ecosystems,   \* those of one owner, by which names are numbered
    Macs,
    Ids,          \* bound: the rows that will ever be created
    Batches,      \* readings whose devices are being synchronised
    Edits,        \* requests of people
    KnownVendors,
    MaxMoves,     \* bound: devices named in readings, edits and changes of access
    None

ASSUME DiscoveryAssumption ==
    /\ IsFiniteSet(Ids)
    /\ MaxMoves \in Nat
    /\ None \notin Ids /\ None \notin Macs /\ None \notin Ecosystems /\ None \notin Nat
    /\ Batches \cap Edits = {}
    /\ KnownVendors \cap {"", "Generic Device"} = {}

VARIABLES
    device,     \* the table: id to row
    used,       \* ids that were given out
    batch,      \* DeviceDiscoveryService.discoverAndSync and what it calls
    edit,       \* DevicesController's create, update and remove
    editors,    \* ecosystems the person who edits owns or has an EDITOR access to
    moves,      \* how many of those there have been
    raced,      \* history: batches whose row was written by another after they read it
    lost,       \* history: batches whose device was removed or moved during its turn
    overlapped  \* history: two names were being generated at the same time

vars == <<device, used, batch, edit, editors, moves, raced, lost, overlapped>>

Vendors == KnownVendors \cup {"", "Generic Device"}
Names == 0..(Cardinality(Ids) + 1)
Rows == [eco : Ecosystems, mac : Macs \cup {None}, vendor : Vendors, name : Names]

ASSUME RowsAssumption == None \notin Rows

Working == {"lookup", "resolve", "register", "naming", "creating", "vendor", "updating"}

TypeOK ==
    /\ device \in [Ids -> Rows \cup {None}]
    /\ used \subseteq Ids
    /\ batch \in [Batches -> [pc : Working \cup {"idle", "next"}, eco : Ecosystems \cup {None},
                              seen : SUBSET Macs, mac : Macs \cup {None},
                              vendor : Vendors, name : Names \cup {None},
                              exists : BOOLEAN, id : Ids \cup {None}]]
    /\ edit \in [Edits -> [pc : {"idle", "reading", "writing", "anchoring", "ok", "failed"},
                           kind : {"create", "update", "remove"}, id : Ids \cup {None}]]
    /\ editors \subseteq Ecosystems
    /\ moves \in 0..MaxMoves
    /\ raced \subseteq Batches /\ lost \subseteq Batches
    /\ overlapped \in BOOLEAN

NoBatch == [pc |-> "idle", eco |-> None, seen |-> {}, mac |-> None,
            vendor |-> "", name |-> None, exists |-> FALSE, id |-> None]
NoEdit == [pc |-> "idle", kind |-> "update", id |-> None]

Init ==
    /\ device = [i \in Ids |-> None]
    /\ used = {}
    /\ batch = [b \in Batches |-> NoBatch]
    /\ edit = [e \in Edits |-> NoEdit]
    /\ editors \in SUBSET Ecosystems
    /\ moves = 0
    /\ raced = {} /\ lost = {}
    /\ overlapped = FALSE

Existing == {i \in Ids : device[i] # None}
Holding(eco, mac) == {i \in Existing : device[i].eco = eco /\ device[i].mac = mac}
Move == moves < MaxMoves /\ moves' = moves + 1

\* The row of id i is changed by batch or edit x: every other batch that has
\* read it acts on what was there before.
Touch(i, x) == raced' = raced \cup {b \in Batches \ {x} : batch[b].id = i}
Leave(i) == lost' = lost \cup {b \in Batches : batch[b].eco = device[i].eco
                                                /\ batch[b].mac = device[i].mac}

-----------------------------------------------------------------------------
(* Variants with a bug the code could have, no part of Next.                *)

\* the MAC is looked for in every ecosystem
LookupAnywhere(b) ==
    /\ batch[b].pc = "lookup"
    /\ batch' = [batch EXCEPT ![b].exists = \E i \in Existing : device[i].mac = batch[b].mac,
                              ![b].pc = "resolve"]
    /\ UNCHANGED <<device, used, edit, editors, moves, raced, lost, overlapped>>

\* the branch on the current vendor is forgotten
MissingVendorAlways(i) == i \in Existing

\* the names are numbered in the device's ecosystem
GenerateNameLocally(b) ==
    /\ batch[b].pc = "naming"
    /\ LET names == {device[i].name : i \in {j \in Existing : device[j].eco = batch[b].eco}}
       IN  batch' = [batch EXCEPT ![b].name = Max(names \cup {0}) + 1, ![b].pc = "creating"]
    /\ UNCHANGED <<device, used, edit, editors, moves, raced, lost, overlapped>>

-----------------------------------------------------------------------------

\* @@unique([ecosystemId, macAddress]); a row may have no MAC
UniqueWith(i, eco, mac) == mac = None \/ Holding(eco, mac) \subseteq {i}

Insert(row) ==
    \E i \in Ids \ used :
        /\ device' = [device EXCEPT ![i] = row]
        /\ used' = used \cup {i}

Step(b, l) == batch' = [batch EXCEPT ![b].pc = l]
\* continue, or the catch of the loop: the next device of the reading
NextTurn(b) == batch' = [batch EXCEPT ![b] = [NoBatch EXCEPT !.pc = "next", !.eco = batch[b].eco,
                                              !.seen = batch[b].seen]]

-----------------------------------------------------------------------------
(* discoverAndSync                                                          *)

StartBatch(b, eco) ==
    /\ batch[b].pc = "idle"
    /\ batch' = [batch EXCEPT ![b] = [NoBatch EXCEPT !.pc = "next", !.eco = eco]]
    /\ UNCHANGED <<device, used, edit, editors, moves, raced, lost, overlapped>>

\* An address that is no MAC, or one the reading named already, is skipped.
NextDevice(b, mac, vendor, name) ==
    /\ batch[b].pc = "next"
    /\ IF mac \in {None} \cup batch[b].seen THEN UNCHANGED batch
       ELSE batch' = [batch EXCEPT ![b] =
                        [NoBatch EXCEPT !.eco = batch[b].eco, !.seen = batch[b].seen \cup {mac},
                            !.pc = "lookup", !.mac = mac, !.vendor = vendor, !.name = name]]
    /\ Move
    /\ raced' = raced \ {b} /\ lost' = lost \ {b}
    /\ UNCHANGED <<device, used, edit, editors, overlapped>>

\* the end of the list, and of iot-manager
EndBatch(b) ==
    /\ batch[b].pc = "next"
    /\ batch' = [batch EXCEPT ![b] = NoBatch]
    /\ UNCHANGED <<device, used, edit, editors, moves, raced, lost, overlapped>>

\* existsByMacAddress
Lookup(b) ==
    /\ batch[b].pc = "lookup"
    /\ batch' = [batch EXCEPT ![b].exists = Holding(batch[b].eco, batch[b].mac) # {},
                              ![b].pc = "resolve"]
    /\ UNCHANGED <<device, used, edit, editors, moves, raced, lost, overlapped>>

\* the vendor the device gave, or what the service of vendors answers
Resolve(b) ==
    /\ batch[b].pc = "resolve"
    /\ \E v \in IF batch[b].vendor # "" THEN {batch[b].vendor} ELSE Vendors \ {""} :
           batch' = [batch EXCEPT ![b].vendor = v, ![b].exists = FALSE,
                                  ![b].pc = IF batch[b].exists THEN "vendor" ELSE "register"]
    /\ UNCHANGED <<device, used, edit, editors, moves, raced, lost, overlapped>>

\* A call fails: logged, and the next device.  When only its answer is lost, the
\* auth service works on: that call is this batch until it ends, and the rest of
\* the reading is another of the Batches, which may start at any time.
FailDevice(b) ==
    /\ batch[b].pc \in Working
    /\ NextTurn(b)
    /\ UNCHANGED <<device, used, edit, editors, moves, raced, lost, overlapped>>

-----------------------------------------------------------------------------
(* registerFromDiscovery and updateVendorIfMissing                          *)

MissingVendor(i) == device[i].vendor \in {"", "Generic Device"}

\* findUnique, with the branch on what it found
ReadDevice(b) ==
    /\ batch[b].pc \in {"register", "vendor"}
    /\ LET found == Holding(batch[b].eco, batch[b].mac) IN
       \/ \E i \in found : /\ MissingVendor(i)
                           /\ batch' = [batch EXCEPT ![b].id = i, ![b].pc = "updating"]
       \/ /\ \E i \in found : ~MissingVendor(i)
          /\ NextTurn(b)
       \/ /\ found = {} /\ batch[b].pc = "register"
          /\ Step(b, IF batch[b].name = None THEN "naming" ELSE "creating")
       \/ /\ found = {} /\ batch[b].pc = "vendor"
          /\ NextTurn(b)
    /\ UNCHANGED <<device, used, edit, editors, moves, raced, lost, overlapped>>

WriteVendor(b) ==
    /\ batch[b].pc = "updating"
    /\ IF batch[b].id \in Existing
       THEN /\ device' = [device EXCEPT ![batch[b].id].vendor = batch[b].vendor]
            /\ Touch(batch[b].id, b)
       ELSE UNCHANGED <<device, raced>>
    /\ NextTurn(b)
    /\ UNCHANGED <<used, edit, editors, moves, lost, overlapped>>

\* generateNextDefaultName, over every ecosystem of the owner
NextNumber == Max({device[i].name : i \in Existing} \cup {0}) + 1

Naming(b) == batch[b].pc = "creating" /\ batch[b].name # 0

GenerateName(b) ==
    /\ batch[b].pc = "naming"
    /\ batch' = [batch EXCEPT ![b].name = NextNumber, ![b].pc = "creating"]
    /\ overlapped' = (overlapped \/ \E c \in Batches \ {b} : Naming(c))
    /\ UNCHANGED <<device, used, edit, editors, moves, raced, lost>>

CreateDevice(b) ==
    /\ batch[b].pc = "creating"
    /\ IF UniqueWith(None, batch[b].eco, batch[b].mac)
       THEN Insert([eco |-> batch[b].eco, mac |-> batch[b].mac,
                    vendor |-> batch[b].vendor, name |-> batch[b].name])
       ELSE UNCHANGED <<device, used>>
    /\ NextTurn(b)
    /\ UNCHANGED <<edit, editors, moves, raced, lost, overlapped>>

Discover(b) ==
    \/ Lookup(b) \/ Resolve(b) \/ ReadDevice(b) \/ WriteVendor(b)
    \/ GenerateName(b) \/ CreateDevice(b) \/ FailDevice(b)

-----------------------------------------------------------------------------
(* create, update and remove                                                *)

StartEdit(e, kind, i) ==
    /\ edit[e].pc = "idle"
    /\ (i = None) <=> (kind = "create")
    /\ edit' = [edit EXCEPT ![e] = [pc |-> IF kind = "create" THEN "writing" ELSE "reading",
                                    kind |-> kind, id |-> i]]
    /\ Move
    /\ UNCHANGED <<device, used, batch, editors, raced, lost, overlapped>>

\* Administrators pass; others own the ecosystem or have an EDITOR access,
\* whatever its status.  A device that is not there is a 404 for them now.
Authorize(e, isAdmin) ==
    /\ edit[e].pc = "reading"
    /\ LET may == isAdmin \/ (edit[e].id \in Existing /\ device[edit[e].id].eco \in editors)
       IN  edit' = [edit EXCEPT ![e].pc = IF may THEN "writing" ELSE "failed"]
    /\ UNCHANGED <<device, used, batch, editors, moves, raced, lost, overlapped>>

\* The body's fields go into the row as they are: an update may also clear the
\* address, or the vendor, for which "" stands whatever it is that a person enters.
WriteEdit(e) ==
    /\ edit[e].pc = "writing"
    /\ \/ /\ edit[e].kind = "create"
          /\ \E eco \in Ecosystems, mac \in Macs \cup {None}, vendor \in Vendors \ {"Generic Device"} :
                /\ UniqueWith(None, eco, mac)
                /\ Insert([eco |-> eco, mac |-> mac, vendor |-> vendor, name |-> 0])
          /\ UNCHANGED <<raced, lost>>
       \/ /\ edit[e].kind = "update" /\ edit[e].id \in Existing
          /\ \E row \in Rows :
                /\ row.eco = device[edit[e].id].eco
                /\ row.vendor \in KnownVendors \cup {"", device[edit[e].id].vendor}
                /\ row.name \in {0, device[edit[e].id].name}
                /\ UniqueWith(edit[e].id, row.eco, row.mac)
                /\ device' = [device EXCEPT ![edit[e].id] = row]
                /\ IF row.mac # device[edit[e].id].mac THEN Leave(edit[e].id)
                   ELSE UNCHANGED lost
          /\ Touch(edit[e].id, e)
          /\ UNCHANGED used
       \/ /\ edit[e].kind = "remove" /\ edit[e].id \in Existing
          /\ device' = [device EXCEPT ![edit[e].id] = None]
          /\ Touch(edit[e].id, e) /\ Leave(edit[e].id)
          /\ UNCHANGED used
    /\ edit' = [edit EXCEPT ![e].pc = "anchoring"]
    /\ UNCHANGED <<batch, editors, moves, overlapped>>

\* anchorAction; when it throws the change stays and the answer is a 500
AnchorEdit(e) ==
    /\ edit[e].pc = "anchoring"
    /\ \E l \in {"ok", "failed"} : edit' = [edit EXCEPT ![e].pc = l]
    /\ UNCHANGED <<device, used, batch, editors, moves, raced, lost, overlapped>>

\* A 404, a duplicate MAC, or the database: nothing is written.
FailEdit(e) ==
    /\ edit[e].pc \in {"reading", "writing"}
    /\ edit' = [edit EXCEPT ![e].pc = "failed"]
    /\ UNCHANGED <<device, used, batch, editors, moves, raced, lost, overlapped>>

AnswerEdit(e) ==
    /\ edit[e].pc \in {"ok", "failed"}
    /\ edit' = [edit EXCEPT ![e] = NoEdit]
    /\ UNCHANGED <<device, used, batch, editors, moves, raced, lost, overlapped>>

\* Ecosystem accesses come and go (AccessDelegation).
ChangeEditors(eco) ==
    /\ editors' = IF eco \in editors THEN editors \ {eco} ELSE editors \cup {eco}
    /\ Move
    /\ UNCHANGED <<device, used, batch, edit, raced, lost, overlapped>>

Next ==
    \/ \E b \in Batches :
          \/ Discover(b) \/ EndBatch(b)
          \/ \E eco \in Ecosystems : StartBatch(b, eco)
          \/ \E mac \in Macs \cup {None}, vendor \in KnownVendors \cup {""}, name \in {0, None} :
                NextDevice(b, mac, vendor, name)
    \/ \E e \in Edits :
          \/ WriteEdit(e) \/ AnchorEdit(e) \/ FailEdit(e) \/ AnswerEdit(e)
          \/ \E isAdmin \in BOOLEAN : Authorize(e, isAdmin)
          \/ \E kind \in {"create", "update", "remove"}, i \in used \cup {None} : StartEdit(e, kind, i)
    \/ \E eco \in Ecosystems : ChangeEditors(eco)

Spec == Init /\ [][Next]_vars

-----------------------------------------------------------------------------
(* Properties                                                               *)

\* devices.service.ts:164: unless two names were generated at the same time,
\* no two devices of an owner have the same generated name, in whichever of
\* the ecosystems they are and however many were removed or renamed.
DefaultNamesDiffer ==
    ~overlapped => \A i, j \in Existing : i # j /\ device[i].name # 0
                                            => device[i].name # device[j].name

\* devices.service.ts:133 and 218 decide on the vendor that was read and then
\* write by id: unless the row was written in between, the vendor goes to the
\* device the reading named, and never over one that is known.
VendorIsRight ==
    [][\A b \in Batches : \A i \in Existing :
        /\ batch[b].pc = "updating" /\ batch'[b].pc = "next"
        /\ i \in Existing' /\ device'[i].vendor # device[i].vendor
        => \/ b \in raced
           \/ /\ device[i].vendor \notin KnownVendors
              /\ device[i].eco = batch[b].eco /\ device[i].mac = batch[b].mac]_vars

\* device-discovery.ts:306 and devices.service.ts:118: a turn that ends with no
\* call failing leaves its device registered, also when another batch registers
\* it at the same time, unless a person removed or moved it during the turn.
EveryDeviceSynced ==
    [][\A b \in Batches :
        (ReadDevice(b) \/ WriteVendor(b) \/ CreateDevice(b)) /\ batch'[b].pc = "next"
        => \/ b \in lost
           \/ \E i \in Ids : /\ device'[i] # None /\ device'[i].eco = batch[b].eco
                             /\ device'[i].mac = batch[b].mac]_vars
=============================================================================
