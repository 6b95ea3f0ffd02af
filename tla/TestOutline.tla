----------------------------- MODULE TestOutline -----------------------------
(***************************************************************************)
(* What the editor promises its users: a collection holds tests, a test is *)
(* a list of steps, some of which point to other tests, and an edit is one *)
(* change of one of these, made at a moment at which it is allowed.  Rows, *)
(* positions, requests and transactions are no part of it.                 *)
(*                                                                         *)
(* Nothing is promised to users whose requests race, and not the order of  *)
(* the steps of a test that is unsettled.                                  *)
(***************************************************************************)
EXTENDS Integers, SequencesExt

CONSTANTS
    Collections,
    Testsets,
    Rows,       \* the steps that may ever be written
    None,       \* no test, no pointer
    Gone        \* the collection of a destroyed test

VARIABLES
    collections,    \* the collections that exist
    home,           \* test -> its collection, None before and Gone after its life
    steps,          \* test -> its steps in their order
    pointer,        \* step -> the test it points to, or None
    unsettled,      \* tests of which the order of the steps is open
    raced           \* requests have raced

outline == <<collections, home, steps, pointer, unsettled>>

Exists(t) == home[t] \in Collections

\* step r belongs to a test among T
Within(r, T) == \E t \in T : r \in ToSet(steps[t])

Leads(t, p) == \E r \in ToSet(steps[t]) : pointer[r] = p

\* a step of t may point to p: to another test, which does not lead back to t
\* directly or by one more
MayPoint(t, p) ==
    p # None => /\ Exists(p) /\ p # t
                /\ ~Leads(p, t) /\ \A m \in Testsets : ~(Leads(p, m) /\ Leads(m, t))

Init ==
    /\ collections = Collections
    /\ home = [t \in Testsets |-> None]
    /\ steps = [t \in Testsets |-> << >>]
    /\ pointer = [r \in Rows |-> None]
    /\ unsettled = {} /\ raced = FALSE

\* the lists become these, but for the order where that is open
Become(lists) ==
    \A t \in Testsets :
        \/ steps'[t] = lists[t]
        \/ /\ t \in unsettled \cup unsettled'
           /\ Len(steps'[t]) = Len(lists[t]) /\ ToSet(steps'[t]) = ToSet(lists[t])

AddTest(t, c) ==
    /\ home[t] = None /\ c \in collections
    /\ home' = [home EXCEPT ![t] = c]
    /\ Become(steps) /\ UNCHANGED <<collections, pointer, unsettled>>

\* collections C and tests T, with their steps: all tests of C, and none that
\* a test which stays points to
RemoveTests(C, T) ==
    /\ \A t \in Testsets : home[t] \in C => t \in T
    /\ \A t \in T : Exists(t)
    /\ \A t \in Testsets \ T, p \in T : ~Leads(t, p)
    /\ collections' = collections \ C
    /\ home' = [t \in Testsets |-> IF t \in T THEN Gone ELSE home[t]]
    /\ Become([t \in Testsets |-> IF t \in T THEN << >> ELSE steps[t]])
    /\ pointer' = [r \in Rows |-> IF Within(r, T) THEN None ELSE pointer[r]]
    /\ UNCHANGED unsettled

\* a new step comes last
AddStep(t, r, p) ==
    /\ Exists(t) /\ ~Within(r, Testsets) /\ MayPoint(t, p)
    /\ Become([steps EXCEPT ![t] = Append(@, r)])
    /\ pointer' = [pointer EXCEPT ![r] = p]
    /\ UNCHANGED <<collections, home, unsettled>>

RemoveStep(t, i) ==
    /\ i \in DOMAIN steps[t]
    /\ Become([steps EXCEPT ![t] = RemoveAt(@, i)])
    /\ pointer' = [pointer EXCEPT ![steps[t][i]] = None]
    /\ UNCHANGED <<collections, home, unsettled>>

Point(t, i, p) ==
    /\ i \in DOMAIN steps[t] /\ MayPoint(t, p)
    /\ pointer' = [pointer EXCEPT ![steps[t][i]] = p]
    /\ UNCHANGED <<collections, home, unsettled>> /\ Become(steps)

\* the others keep their order
MoveStep(t, i, j) ==
    /\ i \in DOMAIN steps[t] /\ j \in DOMAIN steps[t]
    /\ UNCHANGED <<collections, home, pointer, unsettled>>
    /\ Become([steps EXCEPT ![t] = InsertAt(RemoveAt(@, i), j, @[i])])

\* the order of t is lost, or found again
Unsettle(t) ==
    /\ \/ unsettled' = unsettled \cup {t}
       \/ unsettled' = unsettled \ {t}
    /\ UNCHANGED <<collections, home, pointer>> /\ Become(steps)

Edit ==
    \/ UNCHANGED outline    \* which Unsettle allows too, but TLC finds it sooner
    \/ \E t \in Testsets :
          \/ Unsettle(t)
          \/ \E i \in DOMAIN steps[t] :
                \/ \E j \in DOMAIN steps[t] : MoveStep(t, i, j)
                \/ \E p \in Testsets \cup {None} : Point(t, i, p)
                \/ RemoveStep(t, i)
          \/ \E c \in Collections : AddTest(t, c)
          \/ \E r \in Rows, p \in Testsets \cup {None} : AddStep(t, r, p)
    \/ \E C \in SUBSET collections, T \in SUBSET Testsets : RemoveTests(C, T)

Next == raced' \/ (Edit /\ UNCHANGED raced)

Spec == Init /\ [][Next]_<<outline, raced>>
=============================================================================
