----------------------------- MODULE MCTestSteps -----------------------------
(* A small instance of TestSteps: three tests, so that pointers may form the *)
(* longest circle the code looks for, and three steps.                       *)
EXTENDS TestSteps, TLC

CONSTANTS c1, t1, t2, t3, a, b, c, s1, s2

\* a rearrangement of three, a number beyond the last, the same one for all, blanks
TypedLists == {<<2, 3, 1>>, <<0, 4>>, <<0, 0, 0>>}

Symmetry == Permutations(Testsets) \cup Permutations(Rows) \cup Permutations(Sessions)
=============================================================================
