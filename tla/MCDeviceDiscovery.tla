------------------------- MODULE MCDeviceDiscovery -------------------------
(* Small instances of DeviceDiscovery.                                     *)
EXTENDS DeviceDiscovery, TLC

CONSTANTS e1, e2, m1, m2, i1, i2, i3, b1, b2, p1

RowSymmetry == Permutations(Ids) \cup Permutations(Macs) \cup Permutations(Ecosystems)
                   \cup Permutations(Batches)
============================================================================
