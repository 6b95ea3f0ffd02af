----------------------------- MODULE MCOrderSync -----------------------------
(* Small instances of OrderSync for TLC. *)
EXTENDS OrderSync, TLC

CONSTANTS r1, r2, chrome, firefox

\* the browsers of a run are interchangeable only if both or none is archivable
Symmetry == Permutations(Browsers)
=============================================================================
