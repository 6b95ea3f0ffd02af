---------------------------- MODULE TestLifecycle ----------------------------
(***************************************************************************)
(* What the submission of tests promises the users of a run, who see a     *)
(* verdict for each test and browser: a row is executed at most once, by   *)
(* an order that holds the whole test; its verdict is the one the          *)
(* execution reached, once, or a failure when the row has become too old.  *)
(* How often a pass fails, dies or repeats itself on the way is no part of *)
(* it, nor are the orders that were abandoned before they were executed.   *)
(***************************************************************************)
CONSTANTS
    Rows        \* test statuses: a test on a browser

VARIABLES
    execution,  \* row -> waiting, pending (the API may execute it), its verdict
    shown,      \* row -> the verdict users see
    old         \* the rows that may be given up

vars == <<execution, shown, old>>

Init ==
    /\ execution = [t \in Rows |-> "waiting"]
    /\ shown = [t \in Rows |-> "pending"]
    /\ old = {}

\* the complete order is unlocked
Release(t) ==
    /\ execution[t] = "waiting"
    /\ execution' = [execution EXCEPT ![t] = "pending"]
    /\ UNCHANGED <<shown, old>>

\* the API reaches a verdict
Decide(t, v) ==
    /\ execution[t] = "pending"
    /\ execution' = [execution EXCEPT ![t] = v]
    /\ UNCHANGED <<shown, old>>

\* a poll records it
Show(t) ==
    /\ shown[t] = "pending" /\ execution[t] \in {"passed", "failed"}
    /\ shown' = [shown EXCEPT ![t] = execution[t]]
    /\ UNCHANGED <<execution, old>>

\* an old row fails, whether or not it has a verdict or was ever executed
GiveUp(t) ==
    /\ t \in old
    /\ shown' = [shown EXCEPT ![t] = "failed"]
    /\ UNCHANGED <<execution, old>>

Age ==
    /\ old' \in SUBSET Rows /\ old \subseteq old'
    /\ UNCHANGED <<execution, shown>>

Next ==
    \/ \E t \in Rows :
          \/ Release(t) \/ Show(t) \/ GiveUp(t)
          \/ \E v \in {"passed", "failed"} : Decide(t, v)
    \/ Age

Spec == Init /\ [][Next]_vars
=============================================================================
