---------------------------- MODULE MCRunCompile ----------------------------
(* A small instance of RunCompile: two users, one of whom copies from the    *)
(* other, and two tests, one of which may point to the other.                *)
EXTENDS RunCompile

CONSTANTS u1, u2, k1, k2, t1, t2, open, s1

Symmetry == Permutations({u1, u2}) \cup Permutations({t1, t2}) \cup Permutations({k1, k2})
=============================================================================
