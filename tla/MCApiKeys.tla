----------------------------- MODULE MCApiKeys -----------------------------
(* Small instances of ApiKeys.                                             *)
EXTENDS ApiKeys, TLC

CONSTANTS e1, r1, r2, o1, o2

SlotSymmetry == Permutations(Requests) \cup Permutations(Operations)
============================================================================
