--------------------------- MODULE CatalogueProofs ---------------------------
(***************************************************************************)
(* Proofs about CatalogueSync, for any names, bounds and kind of catalogue:*)
(* the types, that any number of concurrent passes implement the mirror    *)
(* and show a name no more often than there are syncs, and what a single   *)
(* one leaves behind.                                                      *)
(***************************************************************************)
EXTENDS CatalogueSync, Counting

\* What a pass is about to do agrees with the list it was told.
ListInv ==
    \A p \in Syncs :
        /\ unsaved[p] \subseteq snapshot[p]
        /\ at[p] = "inserting" => cur[p] \in snapshot[p]
        /\ \A id \in invalids[p] : rows[id].name \notin snapshot[p]
        /\ at[p] # "archiving" => invalids[p] = {}

PassInv == TypeOK /\ ListInv

\* A row that exists keeps its name for ever.
NamesStay ==
    \A id \in Ids : rows[id] # NoRow => /\ rows'[id] # NoRow
                                        /\ rows'[id].name = rows[id].name

-----------------------------------------------------------------------------
(* Types and lists. *)

\* A pass that stops keeps the types and has nothing left to do.
LEMMA StopKeeps ==
    ASSUME PassInv, NEW p \in Syncs, Stop(p), UNCHANGED <<source, rows, changes>>,
           aborts' \in Nat
    PROVE  PassInv'
<1>1. TypeOK'
  BY DEF PassInv, TypeOK, Stop
<1>2. ListInv'
  BY DEF PassInv, TypeOK, ListInv, Stop
<1> QED BY <1>1, <1>2 DEF PassInv

\* Insert adds a row under a free id and changes no other one.
LEMMA InsertedRow ==
    ASSUME PassInv, NEW p \in Syncs, at[p] = "inserting", NEW id \in Ids,
           rows[id] = NoRow,
           rows' = [rows EXCEPT ![id] = [name |-> cur[p], archived |-> FALSE]]
    PROVE  /\ rows' \in [Ids -> Row \cup {NoRow}] /\ NamesStay
           /\ rows'[id] # NoRow /\ rows'[id].name = cur[p] /\ ~rows'[id].archived
           /\ \A other \in Ids \ {id} : rows'[other] = rows[other]
<1> DEFINE row == [name |-> cur[p], archived |-> FALSE]
<1>1. row \in Row
  BY DEF PassInv, TypeOK, Row
<1>2. row # NoRow
  BY <1>1, NoneAssumption
<1> QED BY <1>1, <1>2 DEF PassInv, TypeOK, NamesStay

\* Archive sets the flag of a row and changes no other one.
LEMMA ArchivedRow ==
    ASSUME PassInv, NEW p \in Syncs, NEW id \in invalids[p],
           rows' = [rows EXCEPT ![id].archived = TRUE]
    PROVE  /\ id \in Ids /\ rows' \in [Ids -> Row \cup {NoRow}] /\ NamesStay
           /\ rows'[id] # NoRow /\ rows'[id].name = rows[id].name /\ rows'[id].archived
           /\ \A other \in Ids \ {id} : rows'[other] = rows[other]
<1>1. id \in Ids /\ rows[id] \in Row
  BY DEF PassInv, TypeOK
<1> DEFINE row == [rows[id] EXCEPT !.archived = TRUE]
<1>2. row \in Row /\ row.name = rows[id].name /\ row.archived
  BY <1>1 DEF Row
<1>3. row # NoRow
  BY <1>2, NoneAssumption
<1>4. rows'[id] = row /\ \A other \in Ids \ {id} : rows'[other] = rows[other]
  BY <1>1 DEF PassInv, TypeOK
<1>5. rows' \in [Ids -> Row \cup {NoRow}]
  BY <1>1, <1>2 DEF PassInv, TypeOK
<1> QED BY <1>1, <1>2, <1>3, <1>4, <1>5 DEF NamesStay

\* PassInv is inductive.
LEMMA PassStep == PassInv /\ [Next]_vars => PassInv'
<1> SUFFICES ASSUME PassInv, [Next]_vars PROVE PassInv'
  OBVIOUS
<1>1. CASE UNCHANGED vars
  BY <1>1 DEF vars, locals, PassInv, TypeOK, ListInv
<1>2. CASE ApiChange
  <2>1. TypeOK'
    <3>1. source' \subseteq Names /\ changes' \in Nat
      BY <1>2 DEF ApiChange, PassInv, TypeOK
    <3> QED BY <1>2, <3>1 DEF ApiChange, locals, PassInv, TypeOK
  <2>2. ListInv'
    BY <1>2 DEF ApiChange, locals, PassInv, ListInv
  <2> QED BY <2>1, <2>2 DEF PassInv
<1>3. ASSUME NEW p \in Syncs, Get(p) PROVE PassInv'
  <2>1. TypeOK'
    <3>1. source \in SUBSET Names
      BY DEF PassInv, TypeOK
    <3>2. /\ at' \in [Syncs -> {"idle", "saving", "inserting", "archiving"}]
          /\ \A q \in Syncs : at'[q] = "inserting" => at[q] = "inserting"
      BY <1>3 DEF Get, PassInv, TypeOK
    <3>3. snapshot' \in [Syncs -> SUBSET Names] /\ unsaved' \in [Syncs -> SUBSET Names]
      BY <1>3, <3>1 DEF Get, PassInv, TypeOK
    <3> QED BY <1>3, <3>2, <3>3 DEF Get, PassInv, TypeOK
  <2>2. ListInv'
    BY <1>3 DEF Get, PassInv, TypeOK, ListInv
  <2> QED BY <2>1, <2>2 DEF PassInv
<1>4. ASSUME NEW p \in Syncs, NEW n \in Names, Find(p, n) PROVE PassInv'
  <2>1. CASE Stop(p)
    BY <1>4, <2>1, StopKeeps DEF Find, PassInv, TypeOK
  <2>2. CASE ~Stop(p)
    <3>1. TypeOK'
      BY <1>4, <2>2 DEF Find, PassInv, TypeOK
    <3>2. ListInv'
      BY <1>4, <2>2 DEF Find, PassInv, TypeOK, ListInv
    <3> QED BY <3>1, <3>2 DEF PassInv
  <2> QED BY <2>1, <2>2
<1>5. ASSUME NEW p \in Syncs, Insert(p) PROVE PassInv'
  <2>1. CASE Stop(p) /\ UNCHANGED rows
    BY <1>5, <2>1, StopKeeps DEF Insert, PassInv, TypeOK
  <2>2. CASE ~(Stop(p) /\ UNCHANGED rows)
    <3>1. PICK id \in Ids :
            /\ rows[id] = NoRow
            /\ rows' = [rows EXCEPT ![id] = [name |-> cur[p], archived |-> FALSE]]
      BY <1>5, <2>2 DEF Insert
    <3>2. rows' \in [Ids -> Row \cup {NoRow}] /\ NamesStay
      BY <1>5, <3>1, InsertedRow DEF Insert
    <3>3. /\ at' = [at EXCEPT ![p] = "saving"] /\ cur' = [cur EXCEPT ![p] = NoName]
          /\ UNCHANGED <<snapshot, unsaved, invalids, source, changes, aborts>>
      BY <1>5, <2>2 DEF Insert
    <3>4. TypeOK'
      BY <3>2, <3>3 DEF PassInv, TypeOK, NamesStay
    <3>5. /\ at'[p] = "saving" /\ at[p] = "inserting"
          /\ \A q \in Syncs \ {p} : at'[q] = at[q] /\ cur'[q] = cur[q]
      BY <1>5, <3>3 DEF Insert, PassInv, TypeOK
    <3>6. \A q \in Syncs : \A i \in invalids[q] : rows'[i].name = rows[i].name
      BY <3>2 DEF PassInv, TypeOK, NamesStay
    <3>7. ListInv'
      BY <3>3, <3>5, <3>6 DEF PassInv, ListInv
    <3> QED BY <3>4, <3>7 DEF PassInv
  <2> QED BY <2>1, <2>2
<1>6. ASSUME NEW p \in Syncs, LoadInvalids(p) PROVE PassInv'
  <2>1. SeenIds \subseteq {id \in Ids : rows[id] # NoRow}
    BY DEF SeenIds, Seen, Named
  <2>2. TypeOK'
    BY <1>6, <2>1 DEF LoadInvalids, PassInv, TypeOK
  <2>3. ListInv'
    BY <1>6 DEF LoadInvalids, PassInv, TypeOK, ListInv
  <2> QED BY <2>2, <2>3 DEF PassInv
<1>7. ASSUME NEW p \in Syncs, NEW id \in Ids, Archive(p, id) PROVE PassInv'
  <2>1. CASE Stop(p) /\ UNCHANGED rows
    BY <1>7, <2>1, StopKeeps DEF Archive, PassInv, TypeOK
  <2>2. CASE ~(Stop(p) /\ UNCHANGED rows)
    <3>1. /\ id \in invalids[p] /\ rows' = [rows EXCEPT ![id].archived = TRUE]
          /\ invalids' = [invalids EXCEPT ![p] = invalids[p] \ {id}]
          /\ UNCHANGED <<at, snapshot, unsaved, cur, source, changes, aborts>>
      BY <1>7, <2>2 DEF Archive
    <3>2. rows' \in [Ids -> Row \cup {NoRow}] /\ NamesStay
      BY <3>1, ArchivedRow
    <3>3. TypeOK'
      BY <3>1, <3>2 DEF PassInv, TypeOK, NamesStay
    <3>4. ListInv'
      BY <3>1, <3>2 DEF PassInv, TypeOK, ListInv, NamesStay
    <3> QED BY <3>3, <3>4 DEF PassInv
  <2> QED BY <2>1, <2>2
<1>8. ASSUME NEW p \in Syncs, End(p) PROVE PassInv'
  BY <1>8, StopKeeps DEF End, PassInv, TypeOK
<1>9. ASSUME NEW p \in Syncs, Abort(p) PROVE PassInv'
  <2>1. aborts' \in Nat
    BY <1>9 DEF Abort, PassInv, TypeOK
  <2> QED BY <1>9, <2>1, StopKeeps DEF Abort
<1> QED BY <1>1, <1>2, <1>3, <1>4, <1>5, <1>6, <1>7, <1>8, <1>9 DEF Next, Sync

\* The empty table satisfies it.
LEMMA PassInit == Init => PassInv
  BY NoneAssumption DEF Init, PassInv, TypeOK, ListInv

\* The locals of every pass are of the right kind, for any number of syncs.
THEOREM PassTypes == Spec => []TypeOK
<1>1. Spec => []PassInv
  BY PassInit, PassStep, PTL DEF Spec
<1> QED BY <1>1, PTL DEF PassInv

-----------------------------------------------------------------------------
(* The mirror. *)

\* A name is seen when an unarchived row has it.
LEMMA SeenNamesRows ==
    ASSUME PassInv, NEW n
    PROVE  n \in SeenNames <=>
             \E id \in Ids : rows[id] # NoRow /\ rows[id].name = n /\ ~rows[id].archived
<1>1. ASSUME NEW id \in Ids, rows[id] # NoRow PROVE rows[id].name \in Names
  BY <1>1 DEF PassInv, TypeOK, Row
<1> QED BY <1>1 DEF SeenNames, Seen, Named

\* The same after a step.
LEMMA SeenNamesNextRows ==
    ASSUME PassInv', NEW n
    PROVE  n \in SeenNames' <=>
             \E id \in Ids : rows'[id] # NoRow /\ rows'[id].name = n /\ ~rows'[id].archived
<1>1. ASSUME NEW id \in Ids, rows'[id] # NoRow PROVE rows'[id].name \in Names
  BY <1>1 DEF PassInv, TypeOK, Row
<1> QED BY <1>1 DEF SeenNames, Seen, Named

\* Steps that touch neither rows nor lists are stutters of the mirror.
LEMMA MirrorStutters ==
    UNCHANGED <<source, rows, snapshot>> => UNCHANGED Mirror!vars
  BY DEF Mirror!vars, SeenNames, Seen, Named

\* Every step of the syncs is a step of the mirror or a stutter.
LEMMA MirrorStep ==
    PassInv /\ PassInv' /\ [Next]_vars => [Mirror!Next]_(Mirror!vars)
<1> SUFFICES ASSUME PassInv, PassInv', [Next]_vars
             PROVE  [Mirror!Next]_(Mirror!vars)
  OBVIOUS
<1> USE DEF Mirror!Next
<1>1. CASE UNCHANGED vars
  BY <1>1, MirrorStutters DEF vars, locals
<1>2. CASE ApiChange
  <2>1. Mirror!ApiChange
    BY <1>2 DEF ApiChange, locals, Mirror!ApiChange, SeenNames, Seen, Named
  <2> QED BY <2>1
<1>3. ASSUME NEW p \in Syncs, Get(p) PROVE [Mirror!Next]_(Mirror!vars)
  <2>1. Mirror!Ask(p)
    BY <1>3 DEF Get, Mirror!Ask, SeenNames, Seen, Named
  <2> QED BY <2>1
<1>4. ASSUME NEW p \in Syncs,
             (\E n \in Names : Find(p, n)) \/ LoadInvalids(p) \/ End(p) \/ Abort(p)
      PROVE  [Mirror!Next]_(Mirror!vars)
  <2>1. UNCHANGED <<source, rows, snapshot>>
    BY <1>4 DEF Find, LoadInvalids, End, Abort, Stop
  <2> QED BY <2>1, MirrorStutters
<1>5. ASSUME NEW p \in Syncs, Insert(p) PROVE [Mirror!Next]_(Mirror!vars)
  <2>1. CASE Stop(p) /\ UNCHANGED rows
    BY <1>5, <2>1, MirrorStutters DEF Insert, Stop
  <2>2. CASE ~(Stop(p) /\ UNCHANGED rows)
    <3>1. PICK id \in Ids :
            /\ rows[id] = NoRow
            /\ rows' = [rows EXCEPT ![id] = [name |-> cur[p], archived |-> FALSE]]
      BY <1>5, <2>2 DEF Insert
    <3>2. /\ rows'[id] # NoRow /\ rows'[id].name = cur[p] /\ ~rows'[id].archived
          /\ \A other \in Ids \ {id} : rows'[other] = rows[other]
      BY <1>5, <3>1, InsertedRow DEF Insert
    <3>3. cur[p] \in Names /\ cur[p] \in snapshot[p]
      BY <1>5 DEF Insert, PassInv, TypeOK, ListInv
    <3>4. ASSUME NEW n PROVE n \in SeenNames' <=> n \in SeenNames \cup {cur[p]}
      BY <3>1, <3>2, SeenNamesRows, SeenNamesNextRows
    <3>5. SeenNames' = SeenNames \cup {cur[p]}
      BY <3>4
    <3>6. Mirror!Appear(p, cur[p])
      BY <1>5, <2>2, <3>3, <3>5 DEF Insert, Mirror!Appear
    <3> QED BY <3>3, <3>6
  <2> QED BY <2>1, <2>2
<1>6. ASSUME NEW p \in Syncs, NEW id \in Ids, Archive(p, id)
      PROVE  [Mirror!Next]_(Mirror!vars)
  <2>1. CASE Stop(p) /\ UNCHANGED rows
    BY <1>6, <2>1, MirrorStutters DEF Archive, Stop
  <2>2. CASE ~(Stop(p) /\ UNCHANGED rows)
    <3> DEFINE name == rows[id].name
    <3>1. /\ id \in invalids[p] /\ rows' = [rows EXCEPT ![id].archived = TRUE]
          /\ UNCHANGED <<snapshot, source>>
      BY <1>6, <2>2 DEF Archive
    <3>2. /\ rows'[id] # NoRow /\ rows'[id].name = name /\ rows'[id].archived
          /\ \A other \in Ids \ {id} : rows'[other] = rows[other]
      BY <3>1, ArchivedRow
    <3>3. rows[id] # NoRow /\ name \in Names /\ name \notin snapshot[p]
      BY <3>1 DEF PassInv, TypeOK, ListInv, Row
    <3>4. ASSUME NEW n, n # name PROVE n \in SeenNames' <=> n \in SeenNames
      BY <3>2, <3>4, SeenNamesRows, SeenNamesNextRows
    <3>5. name \in SeenNames' => name \in SeenNames
      BY <3>2, SeenNamesRows, SeenNamesNextRows
    <3>6. CASE name \in SeenNames'
      <4>1. SeenNames' = SeenNames
        BY <3>4, <3>5, <3>6
      <4> QED BY <3>1, <4>1 DEF Mirror!vars
    <3>7. CASE name \notin SeenNames'
      <4>1. SeenNames' = SeenNames \ {name}
        BY <3>4, <3>7
      <4>2. Mirror!Disappear(p, name)
        BY <3>1, <3>3, <4>1 DEF Mirror!Disappear
      <4> QED BY <3>3, <4>2
    <3> QED BY <3>6, <3>7
  <2> QED BY <2>1, <2>2
<1> QED BY <1>1, <1>2, <1>3, <1>4, <1>5, <1>6 DEF Next, Sync

\* However many passes run at once and however they die, the names readers see
\* change only as the mirror allows.
THEOREM MirrorImplemented == Spec => MirrorSpec
<1>1. Init => Mirror!Init
  BY DEF Init, Mirror!Init, SeenNames, Seen, Named
<1>2. Spec => []PassInv
  BY PassInit, PassStep, PTL DEF Spec
<1> QED BY <1>1, <1>2, MirrorStep, PTL DEF Spec, MirrorSpec, Mirror!Spec

-----------------------------------------------------------------------------
(* How often a name is seen, with any number of syncs. *)

\* the rows that the lookup of a name, with its validation, takes for its own
Known(n) == IF Unique THEN Named(n) ELSE Seen(n)

\* the syncs that found no such row and are about to insert one
Inserting(n) == {p \in Syncs : at[p] = "inserting" /\ cur[p] = n}

\* The rows alone are not inductive: every sync may have found none.
ScarceInv ==
    \A n \in Names :
        Cardinality(Known(n)) + Cardinality(Inserting(n)) <= Cardinality(Syncs)

LEMMA KnownRows ==
    ASSUME NEW n
    PROVE  /\ Known(n) = {id \in Ids : /\ rows[id] # NoRow /\ rows[id].name = n
                                       /\ Unique \/ ~rows[id].archived}
           /\ Known(n)' = {id \in Ids : /\ rows'[id] # NoRow /\ rows'[id].name = n
                                        /\ Unique \/ ~rows'[id].archived}
BY UniqueAssumption DEF Known, Named, Seen

\* Nothing is counted that is not a natural number, before a step or after it.
LEMMA CountsAreFinite ==
    ASSUME IsFiniteSet(Syncs), NEW n
    PROVE  /\ Cardinality(Syncs) \in Nat
           /\ IsFiniteSet(Known(n)) /\ Cardinality(Known(n)) \in Nat
           /\ IsFiniteSet(Inserting(n)) /\ Cardinality(Inserting(n)) \in Nat
           /\ IsFiniteSet(Known(n)') /\ Cardinality(Known(n)') \in Nat
           /\ IsFiniteSet(Inserting(n)') /\ Cardinality(Inserting(n)') \in Nat
           /\ Cardinality(Inserting(n)') <= Cardinality(Syncs)
<1>1. /\ Known(n) \subseteq 1..MaxRows /\ Known(n)' \subseteq 1..MaxRows
      /\ Inserting(n) \subseteq Syncs /\ Inserting(n)' \subseteq Syncs
  BY KnownRows DEF Ids, Inserting
<1>2. IsFiniteSet(1..MaxRows)
  BY BoundAssumption, FS_Interval
<1>3. /\ IsFiniteSet(Known(n)) /\ IsFiniteSet(Known(n)')
      /\ IsFiniteSet(Inserting(n))
      /\ IsFiniteSet(Inserting(n)') /\ Cardinality(Inserting(n)') <= Cardinality(Syncs)
  BY <1>1, <1>2, FS_Subset
<1> QED BY <1>3, FS_CardinalityType

\* A sync that stops inserts no longer.
LEMMA StoppedInserts ==
    ASSUME PassInv, NEW p \in Syncs, Stop(p), NEW n
    PROVE  Inserting(n)' \subseteq Inserting(n)
BY DEF PassInv, TypeOK, Stop, Inserting

\* ScarceInv is inductive: a sync finds none only where there is none, and an
\* insertion makes one of the syncs about to insert a row.
LEMMA ScarceStep ==
    ASSUME IsFiniteSet(Syncs)
    PROVE  PassInv /\ PassInv' /\ ScarceInv /\ [Next]_vars => ScarceInv'
<1> DEFINE Within(n) ==
             Cardinality(Known(n)') + Cardinality(Inserting(n)') <= Cardinality(Syncs)
<1> SUFFICES ASSUME PassInv, PassInv', ScarceInv, [Next]_vars, NEW n \in Names
             PROVE  Within(n)
  BY DEF ScarceInv
<1> HIDE DEF Within
<1>a. /\ Cardinality(Known(n)) + Cardinality(Inserting(n)) <= Cardinality(Syncs)
      /\ IsFiniteSet(Known(n)) /\ Cardinality(Known(n)) \in Nat
      /\ IsFiniteSet(Inserting(n)) /\ Cardinality(Inserting(n)) \in Nat
      /\ Cardinality(Known(n)') \in Nat /\ Cardinality(Inserting(n)') \in Nat
      /\ Cardinality(Inserting(n)') <= Cardinality(Syncs) /\ Cardinality(Syncs) \in Nat
  BY CountsAreFinite DEF ScarceInv
<1>b. ASSUME Known(n)' \subseteq Known(n), Inserting(n)' \subseteq Inserting(n)
      PROVE  Within(n)
  <2>1. /\ Cardinality(Known(n)') <= Cardinality(Known(n))
        /\ Cardinality(Inserting(n)') <= Cardinality(Inserting(n))
    BY <1>a, <1>b, CountSubset
  <2> QED BY <1>a, <2>1 DEF Within
<1>c. ASSUME NEW p \in Syncs, Stop(p), UNCHANGED rows PROVE Within(n)
  <2>1. Known(n)' = Known(n)
    BY <1>c, KnownRows
  <2> QED BY <1>b, <1>c, <2>1, StoppedInserts
<1>1. CASE UNCHANGED <<rows, at, cur>>
  <2>1. Known(n)' = Known(n) /\ Inserting(n)' = Inserting(n)
    BY <1>1, KnownRows DEF Inserting
  <2> QED BY <1>b, <2>1
<1>2. ASSUME NEW p \in Syncs, Get(p) \/ LoadInvalids(p) PROVE Within(n)
  <2>1. Known(n)' = Known(n)
    BY <1>2, KnownRows DEF Get, LoadInvalids
  <2>2. Inserting(n)' \subseteq Inserting(n)
    BY <1>2 DEF Get, LoadInvalids, PassInv, TypeOK, Inserting
  <2> QED BY <1>b, <2>1, <2>2
<1>3. ASSUME NEW p \in Syncs, NEW m \in Names, Find(p, m) PROVE Within(n)
  <2>1. Known(n)' = Known(n)
    BY <1>3, KnownRows DEF Find
  <2>2. CASE Stop(p)
    BY <1>3, <1>c, <2>2 DEF Find
  <2>3. CASE UNCHANGED <<at, cur>>
    BY <1>1, <1>3, <2>3 DEF Find
  <2>4. CASE ~Stop(p) /\ ~UNCHANGED <<at, cur>>
    <3>1. Seen(m) = {} /\ (Unique => Named(m) = {}) /\ cur' = [cur EXCEPT ![p] = m]
      BY <1>3, <2>4 DEF Find
    <3>2. CASE m = n
      <4>1. Known(n)' = {}
        BY <2>1, <3>1, <3>2, UniqueAssumption DEF Known
      <4>2. Cardinality(Known(n)') = 0
        BY <4>1, FS_EmptySet
      <4> QED BY <1>a, <4>2 DEF Within
    <3>3. CASE m # n
      <4>1. at' = [at EXCEPT ![p] = "inserting"]
        BY <1>3, <2>4 DEF Find
      <4>2. Inserting(n)' \subseteq Inserting(n)
        BY <3>1, <3>3, <4>1 DEF PassInv, TypeOK, Inserting
      <4> QED BY <1>b, <2>1, <4>2
    <3> QED BY <3>2, <3>3
  <2> QED BY <2>2, <2>3, <2>4
<1>4. ASSUME NEW p \in Syncs, Insert(p) PROVE Within(n)
  <2>1. CASE Stop(p) /\ UNCHANGED rows
    BY <1>c, <2>1
  <2>2. CASE ~(Stop(p) /\ UNCHANGED rows)
    <3>1. PICK id \in Ids :
            /\ rows[id] = NoRow
            /\ rows' = [rows EXCEPT ![id] = [name |-> cur[p], archived |-> FALSE]]
      BY <1>4, <2>2 DEF Insert
    <3>2. /\ rows'[id] # NoRow /\ rows'[id].name = cur[p] /\ ~rows'[id].archived
          /\ \A other \in Ids \ {id} : rows'[other] = rows[other]
      BY <1>4, <3>1, InsertedRow DEF Insert
    <3>3. /\ at[p] = "inserting" /\ at' = [at EXCEPT ![p] = "saving"]
          /\ cur' = [cur EXCEPT ![p] = NoName]
      BY <1>4, <2>2 DEF Insert
    <3>4. Inserting(n)' \subseteq Inserting(n) \ {p}
      BY <3>3 DEF PassInv, TypeOK, Inserting
    <3>5. CASE cur[p] = n
      <4>1. p \in Inserting(n)
        BY <3>3, <3>5 DEF Inserting
      <4>2. /\ IsFiniteSet(Inserting(n) \ {p})
            /\ Cardinality(Inserting(n) \ {p}) = Cardinality(Inserting(n)) - 1
        BY <1>a, <4>1, FS_RemoveElement
      <4>3. Cardinality(Inserting(n)') <= Cardinality(Inserting(n)) - 1
        BY <3>4, <4>2, CountSubset
      <4>4. Known(n)' \subseteq Known(n) \cup {id}
        BY <3>2, KnownRows
      <4>5. Cardinality(Known(n)') <= Cardinality(Known(n)) + 1
        BY <1>a, <4>4, CountOneMore
      <4> QED BY <1>a, <4>3, <4>5 DEF Within
    <3>6. CASE cur[p] # n
      <4>1. Known(n)' \subseteq Known(n)
        BY <3>2, <3>6, KnownRows
      <4> QED BY <1>b, <3>4, <4>1
    <3> QED BY <3>5, <3>6
  <2> QED BY <2>1, <2>2
<1>5. ASSUME NEW p \in Syncs, NEW id \in Ids, Archive(p, id) PROVE Within(n)
  <2>1. CASE Stop(p) /\ UNCHANGED rows
    BY <1>c, <2>1
  <2>2. CASE ~(Stop(p) /\ UNCHANGED rows)
    <3>1. /\ id \in invalids[p] /\ rows' = [rows EXCEPT ![id].archived = TRUE]
          /\ UNCHANGED <<at, cur>>
      BY <1>5, <2>2 DEF Archive
    <3>2. /\ rows'[id] # NoRow /\ rows'[id].name = rows[id].name /\ rows'[id].archived
          /\ \A other \in Ids \ {id} : rows'[other] = rows[other]
      BY <3>1, ArchivedRow
    <3>3. rows[id] # NoRow
      BY <3>1 DEF PassInv, TypeOK
    <3>4. Known(n)' \subseteq Known(n)
      BY <3>2, <3>3, KnownRows
    <3>5. Inserting(n)' = Inserting(n)
      BY <3>1 DEF Inserting
    <3> QED BY <1>b, <3>4, <3>5
  <2> QED BY <2>1, <2>2
<1>6. ASSUME NEW p \in Syncs, End(p) \/ Abort(p) PROVE Within(n)
  BY <1>6, <1>c DEF End, Abort
<1>7. CASE ApiChange \/ UNCHANGED vars
  BY <1>1, <1>7 DEF ApiChange, vars, locals
<1> QED BY <1>2, <1>3, <1>4, <1>5, <1>6, <1>7 DEF Next, Sync

\* However many syncs there are, and wherever their passes die, a name is seen no
\* more often than there are syncs, and a validated one has no more rows.
THEOREM ScarceNames ==
    ASSUME IsFiniteSet(Syncs)
    PROVE  Spec => []NamesAreScarce
<1>1. Init => ScarceInv
  <2> SUFFICES ASSUME Init, NEW n \in Names
               PROVE  Cardinality(Known(n)) + Cardinality(Inserting(n)) <= Cardinality(Syncs)
    BY DEF ScarceInv
  <2>1. Known(n) = {} /\ Inserting(n) = {}
    BY KnownRows DEF Init, Inserting
  <2>2. Cardinality({}) = 0 /\ Cardinality(Syncs) \in Nat
    BY FS_EmptySet, FS_CardinalityType
  <2> QED BY <2>1, <2>2
<1>2. Spec => []PassInv
  BY PassInit, PassStep, PTL DEF Spec
<1>3. PassInv /\ PassInv' /\ ScarceInv /\ [Next]_vars => ScarceInv'
  BY ScarceStep
<1>4. ScarceInv => NamesAreScarce
  <2> SUFFICES ASSUME ScarceInv, NEW n \in Names
               PROVE  Cardinality(Known(n)) <= Cardinality(Syncs)
    BY DEF NamesAreScarce, Known
  <2>1. /\ Cardinality(Known(n)) + Cardinality(Inserting(n)) <= Cardinality(Syncs)
        /\ Cardinality(Known(n)) \in Nat /\ Cardinality(Inserting(n)) \in Nat
        /\ Cardinality(Syncs) \in Nat
    BY CountsAreFinite DEF ScarceInv
  <2> QED BY <2>1
<1> QED BY <1>1, <1>2, <1>3, <1>4, PTL DEF Spec

-----------------------------------------------------------------------------
(* What a pass leaves behind, when there is one sync. *)

\* The rows readers see.
LEMMA SeenIdsRows ==
    ASSUME PassInv
    PROVE  SeenIds = {id \in Ids : rows[id] # NoRow /\ ~rows[id].archived}
<1>1. ASSUME NEW id \in Ids, rows[id] # NoRow PROVE rows[id].name \in Names
  BY <1>1 DEF PassInv, TypeOK, Row
<1> QED BY <1>1 DEF SeenIds, Seen, Named

\* The same after a step.
LEMMA SeenIdsNextRows ==
    ASSUME PassInv'
    PROVE  SeenIds' = {id \in Ids : rows'[id] # NoRow /\ ~rows'[id].archived}
<1>1. ASSUME NEW id \in Ids, rows'[id] # NoRow PROVE rows'[id].name \in Names
  BY <1>1 DEF PassInv, TypeOK, Row
<1> QED BY <1>1 DEF SeenIds, Seen, Named

\* What a pass has saved is seen, and what else is seen it will archive.
SavedInv ==
    \A p \in Syncs :
        /\ at[p] \in {"saving", "inserting"} =>
              \A n \in snapshot[p] \ unsaved[p] :
                  n \in SeenNames \/ (at[p] = "inserting" /\ n = cur[p])
        /\ at[p] = "archiving" =>
              /\ snapshot[p] \subseteq SeenNames
              /\ \A id \in SeenIds \ invalids[p] : rows[id].name \in snapshot[p]

\* SavedInv is inductive when there is at most one sync.
LEMMA SavedStep ==
    ASSUME \A p, q \in Syncs : p = q
    PROVE  PassInv /\ PassInv' /\ SavedInv /\ [Next]_vars => SavedInv'
<1> SUFFICES ASSUME PassInv, PassInv', SavedInv, [Next]_vars PROVE SavedInv'
  OBVIOUS
<1>1. CASE UNCHANGED <<rows, locals>>
  BY <1>1 DEF locals, SavedInv, SeenNames, SeenIds, Seen, Named
<1>2. ASSUME NEW p \in Syncs, at'[p] = "idle" PROVE SavedInv'
  BY <1>2 DEF SavedInv
<1>3. UNCHANGED rows => SeenNames' = SeenNames /\ SeenIds' = SeenIds
  BY DEF SeenNames, SeenIds, Seen, Named
<1>4. ASSUME NEW p \in Syncs, Get(p) PROVE SavedInv'
  <2>1. at'[p] = "saving" /\ snapshot'[p] = unsaved'[p]
    BY <1>4 DEF Get, PassInv, TypeOK
  <2> QED BY <2>1 DEF SavedInv
<1>5. ASSUME NEW p \in Syncs, NEW n \in Names, Find(p, n) PROVE SavedInv'
  <2>1. CASE Stop(p)
    BY <1>2, <1>5, <2>1 DEF Find, Stop, PassInv, TypeOK
  <2>2. CASE ~Stop(p)
    <3>1. /\ UNCHANGED <<rows, snapshot>> /\ at[p] = "saving"
          /\ unsaved'[p] = unsaved[p] \ {n} /\ at'[p] \in {"saving", "inserting"}
          /\ n \in SeenNames \/ (at'[p] = "inserting" /\ n = cur'[p])
      BY <1>5, <2>2 DEF Find, PassInv, TypeOK, SeenNames
    <3>2. \A m \in snapshot'[p] \ unsaved'[p] :
             m \in SeenNames' \/ (at'[p] = "inserting" /\ m = cur'[p])
      BY <1>3, <3>1 DEF SavedInv
    <3> QED BY <3>1, <3>2 DEF SavedInv
  <2> QED BY <2>1, <2>2
<1>6. ASSUME NEW p \in Syncs, Insert(p) PROVE SavedInv'
  <2>1. CASE Stop(p) /\ UNCHANGED rows
    BY <1>2, <1>6, <2>1 DEF Insert, Stop, PassInv, TypeOK
  <2>2. CASE ~(Stop(p) /\ UNCHANGED rows)
    <3>1. PICK id \in Ids :
            /\ rows[id] = NoRow
            /\ rows' = [rows EXCEPT ![id] = [name |-> cur[p], archived |-> FALSE]]
      BY <1>6, <2>2 DEF Insert
    <3>2. /\ rows'[id] # NoRow /\ rows'[id].name = cur[p] /\ ~rows'[id].archived
          /\ \A other \in Ids \ {id} : rows'[other] = rows[other]
      BY <1>6, <3>1, InsertedRow DEF Insert
    <3>3. /\ at[p] = "inserting" /\ at'[p] = "saving"
          /\ UNCHANGED <<snapshot, unsaved>>
      BY <1>6, <2>2 DEF Insert, PassInv, TypeOK
    <3>4. ASSUME NEW n PROVE n \in SeenNames' <=> n \in SeenNames \cup {cur[p]}
      BY <3>1, <3>2, SeenNamesRows, SeenNamesNextRows
    <3>5. \A n \in snapshot'[p] \ unsaved'[p] : n \in SeenNames'
      BY <3>3, <3>4 DEF SavedInv
    <3> QED BY <3>3, <3>5 DEF SavedInv
  <2> QED BY <2>1, <2>2
<1>7. ASSUME NEW p \in Syncs, LoadInvalids(p) PROVE SavedInv'
  <2>1. /\ at[p] = "saving" /\ at'[p] = "archiving" /\ UNCHANGED <<rows, snapshot>>
        /\ unsaved[p] = {}
        /\ invalids'[p] = {id \in SeenIds : rows[id].name \notin snapshot[p]}
    BY <1>7 DEF LoadInvalids, PassInv, TypeOK
  <2>2. snapshot'[p] \subseteq SeenNames'
    BY <1>3, <2>1 DEF SavedInv
  <2>3. \A id \in SeenIds' \ invalids'[p] : rows'[id].name \in snapshot'[p]
    BY <1>3, <2>1
  <2> QED BY <2>1, <2>2, <2>3 DEF SavedInv
<1>8. ASSUME NEW p \in Syncs, NEW id \in Ids, Archive(p, id) PROVE SavedInv'
  <2>1. CASE Stop(p) /\ UNCHANGED rows
    BY <1>2, <1>8, <2>1 DEF Stop, PassInv, TypeOK
  <2>2. CASE ~(Stop(p) /\ UNCHANGED rows)
    <3>1. /\ at[p] = "archiving" /\ UNCHANGED <<at, snapshot>>
          /\ id \in invalids[p] /\ rows' = [rows EXCEPT ![id].archived = TRUE]
          /\ invalids'[p] = invalids[p] \ {id}
      BY <1>8, <2>2 DEF Archive, PassInv, TypeOK
    <3>2. /\ rows'[id] # NoRow /\ rows'[id].name = rows[id].name /\ rows'[id].archived
          /\ \A other \in Ids \ {id} : rows'[other] = rows[other]
      BY <3>1, ArchivedRow
    <3>3. rows[id].name \notin snapshot[p]
      BY <3>1 DEF PassInv, ListInv
    <3>4. snapshot'[p] \subseteq SeenNames'
      <4> SUFFICES ASSUME NEW n \in snapshot[p] PROVE n \in SeenNames'
        BY <3>1
      <4>1. PICK i \in Ids : rows[i] # NoRow /\ rows[i].name = n /\ ~rows[i].archived
        BY <3>1, SeenNamesRows DEF SavedInv
      <4> QED BY <3>2, <3>3, <4>1, SeenNamesNextRows
    <3>5. SeenIds' = SeenIds \ {id}
      BY <3>2, SeenIdsRows, SeenIdsNextRows
    <3>6. \A i \in SeenIds' \ invalids'[p] : rows'[i].name \in snapshot'[p]
      BY <3>1, <3>2, <3>5, SeenIdsRows DEF SavedInv
    <3> QED BY <3>1, <3>4, <3>6 DEF SavedInv
  <2> QED BY <2>1, <2>2
<1>9. ASSUME NEW p \in Syncs, End(p) \/ Abort(p) PROVE SavedInv'
  BY <1>2, <1>9 DEF End, Abort, Stop, PassInv, TypeOK
<1>10. CASE ApiChange \/ UNCHANGED vars
  BY <1>1, <1>10 DEF ApiChange, vars
<1> QED BY <1>4, <1>5, <1>6, <1>7, <1>8, <1>9, <1>10 DEF Next, Sync

\* A pass of a single sync that is through has made the catalogue the list it
\* was told, whatever earlier passes that died left behind.
THEOREM PassMirrors ==
    ASSUME \A p, q \in Syncs : p = q
    PROVE  Spec => []PassMirrorsList
<1>1. Init => SavedInv
  BY DEF Init, SavedInv
<1>2. Spec => []PassInv
  BY PassInit, PassStep, PTL DEF Spec
<1>3. PassInv /\ PassInv' /\ SavedInv /\ [Next]_vars => SavedInv'
  BY SavedStep
<1>4. PassInv /\ SavedInv => PassMirrorsList
  <2> SUFFICES ASSUME PassInv, SavedInv, NEW p \in Syncs,
                      at[p] = "archiving", invalids[p] = {}
               PROVE  SeenNames = snapshot[p]
    BY DEF PassMirrorsList
  <2>1. snapshot[p] \subseteq SeenNames
    BY DEF SavedInv
  <2>2. ASSUME NEW n \in SeenNames PROVE n \in snapshot[p]
    <3>1. PICK id \in Ids : rows[id] # NoRow /\ rows[id].name = n /\ ~rows[id].archived
      BY SeenNamesRows
    <3>2. id \in SeenIds
      BY <3>1, SeenIdsRows
    <3> QED BY <3>1, <3>2 DEF SavedInv
  <2> QED BY <2>1, <2>2
<1> QED BY <1>1, <1>2, <1>3, <1>4, PTL DEF Spec
=============================================================================
