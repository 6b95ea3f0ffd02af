----------------------------- MODULE MCJobChains -----------------------------
(* Small instances of JobChains: one queue of each kind, one or two workers.  *)
EXTENDS JobChains

CONSTANTS actions, backup, runs, w1, w2, r1, r2

\* two workers of rake jobs:work, which serves every queue: a successor may run
\* before the row of its predecessor is destroyed
TwoWorkers == [w \in {w1, w2} |-> Queues]
OneWorker == [w \in {w1} |-> Queues]
=============================================================================
