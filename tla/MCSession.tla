----------------------------- MODULE MCSession -----------------------------
(* Small instances of Session and SessionRefresh.                          *)
EXTENDS SessionRefresh, TLC

CONSTANTS r1, r2, f1, q1, q2, t1, t2, member, administrator

SlotSymmetry == Permutations(Refreshes) \cup Permutations(Requests) \cup Permutations(Tabs)
                    \cup Permutations(Roles)
============================================================================
