------------------------------ MODULE TestSteps ------------------------------
(***************************************************************************)
(* Collections, tests (testsets) and their steps (test_actions), as the    *)
(* requests of signed-in users edit them: models/testset.rb,               *)
(* test_action.rb, collection.rb and their controllers.                    *)
(*                                                                         *)
(* A step belongs to one test for good (the forms send its testset_id      *)
(* back), has a position in it and either an activity or a pointer, by     *)
(* which it stands for all steps of another test.  A save runs in a        *)
(* transaction that validates against the snapshot it took when it began   *)
(* and writes what it found legal, so every edit is two steps here: the    *)
(* request reads and validates, and later its transaction commits.         *)
(* Nothing in the schema (no foreign key, no unique index) stops a commit. *)
(* Reordering a test is a loop of such transactions.  Meanwhile the sync   *)
(* of activities archives some, and no step that has one of them can be    *)
(* saved again before its user has chosen another.                         *)
(***************************************************************************)
EXTENDS Integers, Sequences, FiniteSets, Functions

CONSTANTS
    Collections,    \* collections, created beforehand
    Testsets,       \* bound: ids of the tests ever created
    Rows,           \* bound: ids of the steps ever created
    Sessions,       \* bound: requests under way at a time
    MaxOverlaps,    \* bound: requests that begin while another is under way, after
                    \* requests have raced or after a reorder has ended half way
    MaxHidden,      \* bound: steps whose activity is archived at a time
    Typed,          \* the lists of numbers users may type to reorder, 0 for a blank
    None,           \* nil: no pointer, no request, a row not created yet
    Gone            \* the owner of a destroyed row

ASSUME NoneAssumption ==
    /\ {None, Gone} \cap (Collections \cup Testsets) = {}
    /\ None # Gone
ASSUME BoundAssumption ==
    /\ IsFiniteSet(Testsets) /\ IsFiniteSet(Rows)
    /\ MaxOverlaps \in Nat /\ MaxHidden \in Nat /\ Typed \subseteq Seq(Nat)

VARIABLES
    collections,    \* the collections that exist
    home,           \* testsets.collection_id
    test,           \* test_actions.testset_id
    pos,            \* test_actions.position
    pointer,        \* test_actions.pointer
    hidden,         \* steps whose activity the default scope hides: it reads as nil
    req,            \* session -> what its request is about to write
    stale,          \* sessions that read before the last commit of another
    raced,          \* history: a stale request has committed
    halted,         \* history: tests a reorder of which ended at a hidden step
    overlaps

tables == <<collections, home, test, pos, pointer, hidden>>
vars == <<tables, req, stale, raced, halted, overlaps>>

-----------------------------------------------------------------------------
(* What a request reads. *)

TestExists(t) == home[t] \in Collections
StepsOf(t) == {r \in Rows : test[r] = t}
Steps == {r \in Rows : test[r] \in Testsets}

\* order(position: :asc); nothing orders steps that share a position
Shows(q) == \A j \in DOMAIN q : \A i \in 1..(j - 1) : q[i] # q[j] /\ pos[q[i]] <= pos[q[j]]
Listings(t) == {q \in [1..Cardinality(StepsOf(t)) -> StepsOf(t)] : Shows(q)}

\* external: acts_as_list puts a new step below the lowest one
Bottom(t) == CHOOSE n \in {0} \cup {pos[r] : r \in StepsOf(t)} :
                \A r \in StepsOf(t) : pos[r] <= n

(* Mutant: only the pointed-to test's own steps are looked at. *)
LeadsBackDirectly(p, t) == \E a \in StepsOf(p) : pointer[a] = t

\* prevent_infinite_pointing: a step of p, or a step of a test that a step of
\* p points to, points to t
LeadsBack(p, t) ==
    \E a \in StepsOf(p) :
        \/ pointer[a] = t
        \/ /\ pointer[a] # None /\ TestExists(pointer[a])
           /\ \E b \in StepsOf(pointer[a]) : pointer[b] = t

\* the validations of a step of test t that points to p, or has an activity
Valid(t, p, active) ==
    /\ TestExists(t)
    /\ p # None => TestExists(p) /\ p # t /\ ~LeadsBack(p, t)
    /\ p = None => active

-----------------------------------------------------------------------------
(* Requests and their transactions. *)

\* the request of session s has read, validated and will write r
Begin(s, r) ==
    /\ req' = [req EXCEPT ![s] = r]
    /\ stale' = stale \ {s}
    /\ IF ~raced /\ halted = {} /\ \A o \in Sessions : req[o] = None
       THEN UNCHANGED overlaps
       ELSE overlaps < MaxOverlaps /\ overlaps' = overlaps + 1
    /\ UNCHANGED <<tables, raced, halted>>

\* a transaction of session s commits: whoever else has read is out of date
Commit(s, rest) ==
    /\ req' = [req EXCEPT ![s] = rest]
    /\ stale' = stale \cup {o \in Sessions \ {s} : req[o] # None}
    /\ raced' = (raced \/ (req[s] # None /\ s \in stale))
    /\ UNCHANGED overlaps

Pending(s, kind) == req[s] # None /\ req[s].kind = kind

-----------------------------------------------------------------------------
(* Tests: TestsetsController. *)

\* POST testsets: the collection must be there
NewTest(s, c) ==
    /\ c \in collections
    /\ Begin(s, [kind |-> "test", home |-> c])

SaveTest(s, t) ==
    /\ Pending(s, "test") /\ home[t] = None
    /\ home' = [home EXCEPT ![t] = req[s].home]
    /\ Commit(s, None)
    /\ UNCHANGED <<collections, test, pos, pointer, hidden, halted>>

(* Mutant: has_pointers is not asked. *)
HasPointersNever(tests) == FALSE

\* has_pointers, asked when the test's own steps are deleted already
HasPointers(tests) ==
    \E r \in Steps : pointer[r] \in tests /\ test[r] \notin tests

\* DELETE testsets/:id: its steps go with it, unless another test points to it
DropTest(s, t) ==
    /\ TestExists(t) /\ ~HasPointers({t})
    /\ Begin(s, [kind |-> "drop", collections |-> {}, tests |-> {t}, rows |-> StepsOf(t)])

\* DELETE collections/:id: its tests are destroyed one by one, in the order
\* of rank; external: one that has_pointers keeps raises and nothing is done
DropCollection(s, c) ==
    LET tests == {t \in Testsets : home[t] = c}
        n == Cardinality(tests) IN
    /\ c \in collections
    /\ \E rank \in [1..n -> tests] :
          /\ \A t \in tests : \E i \in 1..n : rank[i] = t
          /\ \A i \in 1..n : ~HasPointers({rank[j] : j \in 1..i})
    /\ Begin(s, [kind |-> "drop", collections |-> {c}, tests |-> tests,
                 rows |-> {r \in Rows : test[r] \in tests}])

Drop(s) ==
    /\ Pending(s, "drop")
    /\ collections' = collections \ req[s].collections
    /\ home' = [t \in Testsets |-> IF t \in req[s].tests THEN Gone ELSE home[t]]
    /\ test' = [r \in Rows |-> IF r \in req[s].rows THEN Gone ELSE test[r]]
    /\ pointer' = [r \in Rows |-> IF r \in req[s].rows THEN None ELSE pointer[r]]
    /\ pos' = [r \in Rows |-> IF r \in req[s].rows THEN 0 ELSE pos[r]]
    /\ hidden' = hidden \ req[s].rows
    /\ Commit(s, None)
    /\ UNCHANGED halted

-----------------------------------------------------------------------------
(* Steps: TestActionsController. *)

\* POST test_actions, or a copy of a step, which is saved like a new one; the
\* form offers the activities that are not archived
NewStep(s, t, p) ==
    /\ Valid(t, p, TRUE)
    /\ Begin(s, [kind |-> "step", test |-> t, pos |-> Bottom(t) + 1, pointer |-> p])

SaveStep(s, r) ==
    /\ Pending(s, "step") /\ test[r] = None
    /\ test' = [test EXCEPT ![r] = req[s].test]
    /\ pos' = [pos EXCEPT ![r] = req[s].pos]
    /\ pointer' = [pointer EXCEPT ![r] = req[s].pointer]
    /\ Commit(s, None)
    /\ UNCHANGED <<collections, home, hidden, halted>>

\* PATCH test_actions/:id with a pointer, or with an activity that is offered
Repoint(s, r, p) ==
    /\ r \in Steps /\ Valid(test[r], p, TRUE)
    /\ Begin(s, [kind |-> "point", row |-> r, pointer |-> p])

(* Mutant: the row is written back although it is gone. *)
SavePointerAnyway(s) ==
    /\ Pending(s, "point")
    /\ pointer' = [pointer EXCEPT ![req[s].row] = req[s].pointer]
    /\ hidden' = hidden \ {req[s].row}
    /\ Commit(s, None)
    /\ UNCHANGED <<collections, home, test, pos, halted>>

\* an UPDATE of a row that is gone changes none
SavePointer(s) ==
    /\ Pending(s, "point")
    /\ pointer' = IF req[s].row \in Steps
                  THEN [pointer EXCEPT ![req[s].row] = req[s].pointer] ELSE pointer
    /\ hidden' = hidden \ {req[s].row}
    /\ Commit(s, None)
    /\ UNCHANGED <<collections, home, test, pos, halted>>

(* Mutant: the steps below a deleted one stay where they are. *)
DeleteStepLeavingGap(s, r) ==
    /\ r \in Steps
    /\ test' = [test EXCEPT ![r] = Gone]
    /\ pointer' = [pointer EXCEPT ![r] = None]
    /\ pos' = [pos EXCEPT ![r] = 0]
    /\ hidden' = hidden \ {r}
    /\ Commit(s, None)
    /\ UNCHANGED <<collections, home, halted>>

\* DELETE test_actions/:id asks for nothing; the steps below it move up
DeleteStep(s, r) ==
    /\ r \in Steps
    /\ test' = [test EXCEPT ![r] = Gone]
    /\ pointer' = [pointer EXCEPT ![r] = None]
    /\ pos' = [x \in Rows |-> IF x = r THEN 0
                              ELSE IF test[x] = test[r] /\ pos[x] > pos[r] THEN pos[x] - 1
                              ELSE pos[x]]
    /\ hidden' = hidden \ {r}
    /\ Commit(s, None)
    /\ UNCHANGED <<collections, home, halted>>

\* the sync of activities archives the activity of a step, whenever it runs
ArchiveActivity(r) ==
    /\ r \in Steps \ hidden /\ pointer[r] = None
    /\ Cardinality(hidden) < MaxHidden
    /\ hidden' = hidden \cup {r}
    /\ UNCHANGED <<collections, home, test, pos, pointer, req, stale, raced, halted, overlaps>>

-----------------------------------------------------------------------------
(* Order: TestsetsController#change_order, and sort_test_actions_order,    *)
(* which runs after it and after every save of a test.                     *)

(* Mutant: the step that stands there goes where the moved one was. *)
ShiftedAside(p, t, old, new) ==
    [x \in Rows |-> IF test[x] = t /\ p[x] = new THEN old ELSE p[x]]

\* external: insert_at shifts the steps between a step's old and new position
Shifted(p, t, old, new) ==
    [x \in Rows |->
        IF test[x] # t THEN p[x]
        ELSE IF old < p[x] /\ p[x] <= new THEN p[x] - 1
        ELSE IF new <= p[x] /\ p[x] < old THEN p[x] + 1
        ELSE p[x]]

\* external: and then saves the step, of which nothing may be left
Inserted(p, t, r, old, new) ==
    IF old = new THEN p
    ELSE [Shifted(p, t, old, new) EXCEPT ![r] = IF r \in Steps THEN new ELSE @]

IsNumbered(t) == {pos[r] : r \in StepsOf(t)} = 1..Cardinality(StepsOf(t))

IsOrdered(t) == \A x, y \in StepsOf(t) : x # y => pos[x] # pos[y]

\* expected is a history: where the steps should be when the moves are made, 0
\* where nothing is expected
Reorder(t, expected, moves, sorting) ==
    [kind |-> "order", test |-> t, expected |-> expected, moves |-> moves,
     sorting |-> sorting]

\* each step is moved to its number, in the order listed
Moves(listed, numbers) ==
    [i \in DOMAIN listed |-> [row |-> listed[i], from |-> pos[listed[i]], to |-> numbers[i]]]

\* which puts each at its number, if that is sound
Expected(listed, numbers, sound) ==
    [r \in Rows |-> IF sound /\ r \in Range(listed)
                    THEN numbers[CHOOSE i \in DOMAIN listed : listed[i] = r] ELSE 0]

\* a rearrangement of numbered steps
Rearranges(t, numbers) == IsNumbered(t) /\ Range(numbers) = DOMAIN numbers

(* Mutant: the step shown last is taken to fall into its place. *)
ChangeOrderButLast(s, t, numbers) ==
    /\ TestExists(t) /\ StepsOf(t) # {} /\ Len(numbers) = Cardinality(StepsOf(t))
    /\ \E shown \in Listings(t) :
          Begin(s, Reorder(t, Expected(shown, numbers, Rearranges(t, numbers)),
                           Moves(SubSeq(shown, 1, Len(shown) - 1), numbers), FALSE))

\* the form sends what is typed for each step, in the order they are shown in
ChangeOrder(s, t, numbers) ==
    /\ TestExists(t) /\ StepsOf(t) # {} /\ Len(numbers) = Cardinality(StepsOf(t))
    /\ \E shown \in Listings(t) :
          Begin(s, Reorder(t, Expected(shown, numbers, Rearranges(t, numbers)),
                           Moves(shown, numbers), FALSE))

\* change_order loads a step when its turn comes, sorting loads all at once
OldPosition(s, move) == IF req[s].sorting THEN move.from ELSE pos[move.row]

\* sorting leaves a step that is in its place alone
InPlace(s, move) == req[s].sorting /\ move.from = move.to

SkipStep(s) ==
    /\ Pending(s, "order") /\ req[s].moves # << >>
    /\ InPlace(s, Head(req[s].moves))
    /\ req' = [req EXCEPT ![s].moves = Tail(@)]
    /\ UNCHANGED <<tables, stale, raced, halted, overlaps>>

\* the next insert_at: it shifts the others and then saves the step; one that
\* is gone, or not valid any more, ends the request when its turn comes
MoveStep(s) ==
    /\ Pending(s, "order") /\ req[s].moves # << >>
    /\ LET t == req[s].test
           move == Head(req[s].moves)
           old == OldPosition(s, move)
           rest == [req[s] EXCEPT !.moves = Tail(@)]
           found == move.row \in Steps
           saved == Valid(t, pointer[move.row], move.row \notin hidden) IN
       /\ ~InPlace(s, move)
       /\ \/ /\ ~found /\ ~req[s].sorting
             /\ Commit(s, None) /\ UNCHANGED <<pos, halted>>
          \/ /\ found \/ req[s].sorting
             /\ saved
             /\ pos' = Inserted(pos, t, move.row, old, move.to)
             /\ Commit(s, rest) /\ UNCHANGED halted
          \/ /\ found \/ req[s].sorting
             /\ ~saved
             /\ pos' = IF old = move.to THEN pos ELSE Shifted(pos, t, old, move.to)
             /\ Commit(s, None)
             /\ halted' = IF move.row \in hidden THEN halted \cup {t} ELSE halted
    /\ UNCHANGED <<collections, home, test, pointer, hidden>>

Places(listed) == [i \in DOMAIN listed |-> i]

\* sort_test_actions_order numbers the steps as they are found
SortSteps(s) ==
    /\ Pending(s, "order") /\ req[s].moves = << >>
    /\ LET t == req[s].test IN
       \E found \in Listings(t) :
          req' = [req EXCEPT ![s] =
                     IF req[s].sorting \/ found = << >> THEN None
                     ELSE Reorder(t, Expected(found, Places(found), IsOrdered(t)),
                                  Moves(found, Places(found)), TRUE)]
    /\ UNCHANGED <<tables, stale, raced, halted, overlaps>>

\* PATCH testsets/:id sorts the steps after the save of the test; left out
\* where that changes nothing
RenameTest(s, t) ==
    /\ home[t] \in collections /\ ~IsNumbered(t)
    /\ \E found \in Listings(t) :
          Begin(s, [kind |-> "sort", test |-> t, moves |-> Moves(found, Places(found))])

\* the positions after the first n moves of a sort
Sorted(t, moves) ==
    LET p[n \in 0..Len(moves)] ==
            IF n = 0 THEN pos
            ELSE Inserted(p[n - 1], t, moves[n].row, moves[n].from, moves[n].to) IN
    p[Len(moves)]

\* within the transaction of that save, which a step not valid any more undoes
SortTest(s) ==
    /\ Pending(s, "sort")
    /\ LET t == req[s].test
           saved == \A i \in DOMAIN req[s].moves :
                       LET move == req[s].moves[i] IN
                       move.from # move.to => Valid(t, pointer[move.row], move.row \notin hidden) IN
       \/ /\ saved /\ pos' = Sorted(t, req[s].moves)
          /\ Commit(s, None)
       \/ /\ ~saved /\ req' = [req EXCEPT ![s] = None]
          /\ UNCHANGED <<pos, stale, raced, overlaps>>
    /\ UNCHANGED <<collections, home, test, pointer, hidden, halted>>

-----------------------------------------------------------------------------
Init ==
    /\ collections = Collections
    /\ home = [t \in Testsets |-> None]
    /\ test = [r \in Rows |-> None]
    /\ pos = [r \in Rows |-> 0]
    /\ pointer = [r \in Rows |-> None]
    /\ hidden = {}
    /\ req = [s \in Sessions |-> None]
    /\ stale = {} /\ raced = FALSE /\ halted = {} /\ overlaps = 0

\* a user's request comes in, reads and validates
Request(s) ==
    \/ \E c \in Collections : NewTest(s, c) \/ DropCollection(s, c)
    \/ \E t \in Testsets :
          \/ DropTest(s, t) \/ RenameTest(s, t)
          \/ \E p \in Testsets \cup {None} : NewStep(s, t, p)
          \/ \E numbers \in Typed : ChangeOrder(s, t, numbers)
    \/ \E r \in Rows :
          DeleteStep(s, r) \/ \E p \in Testsets \cup {None} : Repoint(s, r, p)

\* it goes on to write
Write(s) ==
    \/ \E t \in Testsets : SaveTest(s, t)
    \/ \E r \in Rows : SaveStep(s, r)
    \/ SavePointer(s) \/ Drop(s) \/ SkipStep(s) \/ MoveStep(s) \/ SortSteps(s) \/ SortTest(s)

Next ==
    \/ \E s \in Sessions :
          \/ req[s] = None /\ (raced => overlaps < MaxOverlaps) /\ Request(s)
          \/ Write(s)
    \/ \E r \in Rows : ArchiveActivity(r)

Spec == Init /\ [][Next]_vars

-----------------------------------------------------------------------------
(* Properties. *)

Move == [row : Rows, from : Nat, to : Nat]

Requests ==
    [kind : {"test"}, home : Collections]
    \cup [kind : {"drop"}, collections : SUBSET Collections, tests : SUBSET Testsets,
          rows : SUBSET Rows]
    \cup [kind : {"step"}, test : Testsets, pos : Nat, pointer : Testsets \cup {None}]
    \cup [kind : {"point"}, row : Rows, pointer : Testsets \cup {None}]
    \cup [kind : {"order"}, test : Testsets, expected : [Rows -> Nat],
          moves : Seq(Move), sorting : BOOLEAN]
    \cup [kind : {"sort"}, test : Testsets, moves : Seq(Move)]

\* nil is no request
ASSUME RequestAssumption == None \notin Requests

\* The tables and the pending requests have the shape the schema and the
\* controllers give them, nothing is left of a destroyed step, and only a step
\* without a pointer has an activity that may be archived.
TypeOK ==
    /\ collections \subseteq Collections
    /\ home \in [Testsets -> Collections \cup {None, Gone}]
    /\ test \in [Rows -> Testsets \cup {None, Gone}]
    /\ pos \in [Rows -> Nat]
    /\ pointer \in [Rows -> Testsets \cup {None}]
    /\ \A r \in Rows \ Steps : pos[r] = 0 /\ pointer[r] = None
    /\ hidden \subseteq {r \in Steps : pointer[r] = None}
    /\ req \in [Sessions -> Requests \cup {None}]
    /\ stale \subseteq Sessions
    /\ raced \in BOOLEAN /\ halted \subseteq Testsets /\ overlaps \in Nat

PointsTo(t, p) == \E r \in StepsOf(t) : pointer[r] = p

\* A run that expands pointers cannot go round in circles of up to three
\* tests: test_action.rb refuses the edit that would close one, whichever edge
\* comes last, and whatever is deleted or pointed elsewhere in between.  Only
\* edits validated against a state that another one changed since can close one.
NoShortCycle ==
    ~raced => \A a, b, c \in Testsets :
        /\ ~PointsTo(a, a)
        /\ ~(PointsTo(a, b) /\ PointsTo(b, a))
        /\ ~(PointsTo(a, b) /\ PointsTo(b, c) /\ PointsTo(c, a))

\* Compilation finds the test of every pointer and every step has a test, in a
\* collection that exists: testset.rb keeps a test that is pointed to, also
\* when its collection goes, unless requests race.
NothingDangles ==
    ~raced =>
        /\ \A r \in Steps : TestExists(test[r]) /\ (pointer[r] # None => TestExists(pointer[r]))
        /\ \A t \in Testsets : TestExists(t) => home[t] \in collections

Reordering(s, t) == Pending(s, "order") /\ req[s].test = t

\* t is being sorted, and a step was found above its place, because of a blank
Unfolding(t) ==
    \E s \in Sessions :
        /\ Reordering(s, t) /\ req[s].sorting
        /\ \E i \in DOMAIN req[s].moves : req[s].moves[i].from < req[s].moves[i].to

\* The steps of a test are numbered from 1 without gap or tie whenever no reorder
\* of it is under way, whatever was typed: the same number twice, none, or one
\* beyond the last.  While one is under way no two steps share a position, so
\* that a run executes them in one order; sorting after a blank is the exception,
\* because it shifts by positions it has changed itself meanwhile.  None of this
\* is so in a test of which a reorder met a step whose activity is archived: the
\* others have been shifted and the step is not saved.
OrderIsTotal ==
    ~raced => \A t \in Testsets \ halted :
        /\ IsNumbered(t) \/ \E s \in Sessions : Reordering(s, t)
        /\ IsOrdered(t) \/ Unfolding(t)

\* A reorder ends as asked when each of up to three steps, which were numbered,
\* is given a number of its own (one of four may not); and whatever was typed,
\* sorting numbers the steps in the order they were found in.
ReorderHonoured ==
    \A s \in Sessions :
        (/\ ~raced /\ s \notin stale
         /\ Pending(s, "order") /\ req[s].moves = << >>
         /\ req[s].sorting \/ Cardinality(StepsOf(req[s].test)) <= 3)
        => \A r \in StepsOf(req[s].test) :
              req[s].expected[r] # 0 => pos[r] = req[s].expected[r]

\* The steps of a test as a page shows them.
Listing(t) == CHOOSE q \in [1..Cardinality(StepsOf(t)) -> StepsOf(t)] : Shows(q)

\* Positions, shifts, snapshots and transactions amount to lists of steps that
\* are changed one at a time and only when the change is allowed, unless requests
\* race: no edit adds, drops, swaps or points anything but what it names.  Only
\* the order within a test is open where OrderIsTotal names an exception.
Outline == INSTANCE TestOutline WITH
    steps <- [t \in Testsets |-> Listing(t)],
    unsettled <- halted \cup {t \in Testsets : Unfolding(t)}
OutlineSpec == Outline!Spec
=============================================================================
