------------------------- MODULE MCTelemetryIngest -------------------------
(* Small instances of TelemetryIngest.                                      *)
EXTENDS TelemetryIngest, TLC

CONSTANTS r1, r2, e1, h1, h2, t1, t2, t3

\* two different readings of one ecosystem: they share its cached API key
SharedEco == [r \in {r1, r2} |-> e1]
TwoHashes == (r1 :> h1) @@ (r2 :> h2)

============================================================================
