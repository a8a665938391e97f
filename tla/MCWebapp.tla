------------------------------ MODULE MCWebapp ------------------------------
(* Instances of Webapp for TLC: two of what a page lists, one ecosystem     *)
(* that was lent and one guest.                                             *)
EXTENDS Webapp, TLC

CONSTANTS n1, n2, u1, u2, e1, e2, x1, g1, d1, d2, a1, a2, r1, t1, me, p1, p2, m1, m2

\* The texts and the recipients of notices are only compared with each other.
Symmetry == Permutations(Texts) \cup Permutations(Recipients)

=============================================================================
