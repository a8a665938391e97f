------------------------ MODULE MCAccountLifecycle ------------------------
(* Small instances of AccountLifecycle.                                    *)
EXTENDS AccountLifecycle, TLC

CONSTANTS c1, c2, c3, c4, c5

\* calls differ only in the tokens they issue
CallSymmetry == Permutations(Calls)
===========================================================================
