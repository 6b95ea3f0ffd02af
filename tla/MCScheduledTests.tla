-------------------------- MODULE MCScheduledTests --------------------------
(* Small instances of ScheduledTests: one or two schedules and workers.     *)
EXTENDS ScheduledTests

CONSTANTS s1, s2, w1, w2, r1
=============================================================================
