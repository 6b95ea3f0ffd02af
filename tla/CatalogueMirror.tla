--------------------------- MODULE CatalogueMirror ---------------------------
(***************************************************************************)
(* What a catalogue (of activities, browsers, selectors, ...) promises to  *)
(* its readers, who see the names that are not archived: a name appears    *)
(* because the Web Action API listed it when some sync last asked, and     *)
(* disappears because the API did not.                                     *)
(***************************************************************************)
CONSTANTS
    Names,      \* names the API may list
    Syncs       \* processes that synchronise the catalogue

VARIABLES
    source,     \* the names the API lists
    snapshot,   \* sync -> the names it was told last
    names       \* the names readers see

vars == <<source, snapshot, names>>

Init == /\ source \in SUBSET Names
        /\ snapshot = [p \in Syncs |-> {}]
        /\ names = {}

ApiChange == /\ source' \in SUBSET Names
             /\ UNCHANGED <<snapshot, names>>

Ask(p) == /\ snapshot' = [snapshot EXCEPT ![p] = source]
          /\ UNCHANGED <<source, names>>

Appear(p, n) == /\ n \in snapshot[p]
                /\ names' = names \cup {n}
                /\ UNCHANGED <<source, snapshot>>

Disappear(p, n) == /\ n \notin snapshot[p]
                   /\ names' = names \ {n}
                   /\ UNCHANGED <<source, snapshot>>

Next == \/ ApiChange
        \/ \E p \in Syncs : Ask(p) \/ \E n \in Names : Appear(p, n) \/ Disappear(p, n)

Spec == Init /\ [][Next]_vars
=============================================================================
