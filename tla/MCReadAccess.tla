---------------------------- MODULE MCReadAccess ----------------------------
(* An instance of ReadAccess for TLC: one ecosystem of the reader's, one of *)
(* somebody else's, two requests at a time.                                 *)
EXTENDS ReadAccess, TLC

CONSTANTS mine, theirs, r1, r2

RequestSymmetry == Permutations(Requests)

=============================================================================
