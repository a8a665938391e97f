------------------------- MODULE TelemetryAnchoring -------------------------
(***************************************************************************)
(* What the ingestion pipeline promises, without requests, services or     *)
(* failures: each ingest has a record in the telemetry store and a place   *)
(* on the chain.  Nothing goes to the chain that was not stored first, a   *)
(* record is settled once, it is settled as anchored only when the chain's *)
(* gateway has taken the anchor, and the chain keeps one anchor for ever.  *)
(* A record may stay pending, and a failed one may still reach the chain.  *)
(***************************************************************************)
CONSTANT Ingests

VARIABLES record, chain

avars == <<record, chain>>

AInit ==
    /\ record = [i \in Ingests |-> "absent"]
    /\ chain = [i \in Ingests |-> "none"]

Store(i) ==
    /\ record[i] = "absent"
    /\ record' = [record EXCEPT ![i] = "pending"]
    /\ UNCHANGED chain

Submit(i) ==
    /\ record[i] = "pending"
    /\ chain[i] = "none"
    /\ chain' = [chain EXCEPT ![i] = "submitted"]
    /\ UNCHANGED record

Take(i) ==
    /\ chain[i] = "submitted"
    /\ chain' = [chain EXCEPT ![i] = "taken"]
    /\ UNCHANGED record

Anchor(i) ==
    /\ chain[i] = "taken"
    /\ chain' = [chain EXCEPT ![i] = "anchored"]
    /\ UNCHANGED record

SettleAnchored(i) ==
    /\ record[i] = "pending"
    /\ chain[i] \in {"taken", "anchored"}
    /\ record' = [record EXCEPT ![i] = "anchored"]
    /\ UNCHANGED chain

SettleFailed(i) ==
    /\ record[i] = "pending"
    /\ record' = [record EXCEPT ![i] = "failed"]
    /\ UNCHANGED chain

ANext ==
    \E i \in Ingests :
        \/ Store(i) \/ Submit(i) \/ Take(i) \/ Anchor(i)
        \/ SettleAnchored(i) \/ SettleFailed(i)

ASpec == AInit /\ [][ANext]_avars
=============================================================================
