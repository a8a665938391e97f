------------------------ MODULE MCAccessDelegation ------------------------
(* Small instances of AccessDelegation.                                    *)
EXTENDS AccessDelegation, TLC

CONSTANTS c1, c2, c3, c4, c5, viewer, editor

\* calls differ only in the invitations they create, roles only in their names
Symmetry == Permutations(Calls) \cup Permutations(Roles)
===========================================================================
