--------------------------- MODULE TestStepsProofs ---------------------------
(***************************************************************************)
(* Proofs about TestSteps, for any collections, tests, steps, sessions,    *)
(* overlaps, archived activities and numbers typed: the tables keep their  *)
(* types, and as long as no request commits what it validated against a    *)
(* state that another has changed, nothing dangles, no short circle of     *)
(* pointers is closed, a reorder of up to three steps does what was asked, *)
(* steps are numbered when it is over, unless it met an archived activity, *)
(* and every commit is one edit of the outline.                            *)
(***************************************************************************)
EXTENDS TestSteps, Counting, SequenceTheorems

-----------------------------------------------------------------------------
(* Types. *)

\* The three statements about requests that every Begin and Commit needs.
LEMMA BeginTypes ==
    ASSUME TypeOK, NEW s \in Sessions, NEW r \in Requests, Begin(s, r)
    PROVE  TypeOK'
<1>1. req' \in [Sessions -> Requests \cup {None}]
  BY DEF TypeOK, Begin
<1>2. stale' \subseteq Sessions /\ overlaps' \in Nat
  BY DEF TypeOK, Begin
<1> QED BY <1>1, <1>2 DEF TypeOK, Begin, tables, Steps

LEMMA CommitTypes ==
    ASSUME TypeOK, NEW s \in Sessions, NEW rest \in Requests \cup {None}, Commit(s, rest)
    PROVE  /\ req' \in [Sessions -> Requests \cup {None}]
           /\ stale' \subseteq Sessions
           /\ raced' \in BOOLEAN /\ overlaps' \in Nat
<1>1. req' \in [Sessions -> Requests \cup {None}]
  BY DEF TypeOK, Commit
<1>2. stale' \subseteq Sessions /\ overlaps' \in Nat
  BY DEF TypeOK, Commit
<1>3. raced' \in BOOLEAN
  BY DEF TypeOK, Commit
<1> QED BY <1>1, <1>2, <1>3

\* What is pending is a request of its kind.
LEMMA PendingKinds ==
    ASSUME TypeOK, NEW s \in Sessions, req[s] # None
    PROVE  /\ req[s] \in Requests
           /\ req[s].kind = "test" => req[s].home \in Collections
           /\ req[s].kind = "drop" => /\ req[s].collections \subseteq Collections
                                      /\ req[s].tests \subseteq Testsets
                                      /\ req[s].rows \subseteq Rows
           /\ req[s].kind = "step" => /\ req[s].test \in Testsets /\ req[s].pos \in Nat
                                      /\ req[s].pointer \in Testsets \cup {None}
           /\ req[s].kind = "point" => /\ req[s].row \in Rows
                                       /\ req[s].pointer \in Testsets \cup {None}
           /\ req[s].kind = "order" =>
                req[s] \in [kind : {"order"}, test : Testsets, expected : [Rows -> Nat],
                            moves : Seq(Move), sorting : BOOLEAN]
           /\ req[s].kind = "sort" => req[s].test \in Testsets /\ req[s].moves \in Seq(Move)
<1>1. req[s] \in Requests
  BY DEF TypeOK
<1> QED BY <1>1 DEF Requests

\* A test has a natural number of steps.
LEMMA StepsAreFinite ==
    ASSUME NEW t \in Testsets
    PROVE  IsFiniteSet(StepsOf(t)) /\ Cardinality(StepsOf(t)) \in Nat
<1>1. IsFiniteSet(StepsOf(t))
  BY BoundAssumption, FS_Subset DEF StepsOf
<1> QED BY <1>1, FS_CardinalityType

\* A function from 1..n is a sequence.
LEMMA FunctionIsSeq ==
    ASSUME NEW S, NEW n \in Nat, NEW f \in [1..n -> S]
    PROVE  f \in Seq(S) /\ DOMAIN f = 1..n
BY SeqDef

LEMMA ListingTypes ==
    ASSUME NEW t \in Testsets, NEW q \in Listings(t)
    PROVE  /\ Cardinality(StepsOf(t)) \in Nat
           /\ q \in [1..Cardinality(StepsOf(t)) -> StepsOf(t)]
           /\ DOMAIN q = 1..Cardinality(StepsOf(t))
<1>1. q \in [1..Cardinality(StepsOf(t)) -> StepsOf(t)]
  BY DEF Listings
<1> QED BY <1>1, StepsAreFinite

LEMMA BottomOfSteps ==
    ASSUME TypeOK, NEW t \in Testsets
    PROVE  /\ Bottom(t) \in Nat /\ Bottom(t) \in {0} \cup {pos[r] : r \in StepsOf(t)}
           /\ \A r \in StepsOf(t) : pos[r] <= Bottom(t)
<1> DEFINE P == {0} \cup {pos[r] : r \in StepsOf(t)}
           f == [r \in StepsOf(t) |-> pos[r]]
<1>1. IsFiniteSet({pos[r] : r \in StepsOf(t)})
  <2>1. f \in Surjection(StepsOf(t), {pos[r] : r \in StepsOf(t)})
    BY DEF Surjection
  <2> QED BY <2>1, StepsAreFinite, FS_Surjection
<1>2. P \subseteq Nat
  BY DEF TypeOK, StepsOf
<1>3. IsFiniteSet(P)
  <2>1. P = {pos[r] : r \in StepsOf(t)} \cup {0}
    OBVIOUS
  <2> QED BY <1>1, <2>1, FS_AddElement
<1>4. PICK n \in P : \A m \in P : m <= n
  <2> HIDE DEF P
  <2>1. P # {}
    BY DEF P
  <2> QED BY <1>2, <1>3, <2>1, GreatestNat
<1>5. Bottom(t) \in P /\ \A r \in StepsOf(t) : pos[r] <= Bottom(t)
  BY <1>4 DEF Bottom
<1> QED BY <1>2, <1>5

-----------------------------------------------------------------------------
(* Type correctness. *)

\* Nothing but rows of tests has a position or a pointer.
Blank == \A r \in Rows \ Steps : pos[r] = 0 /\ pointer[r] = None

LEMMA MovesTypes ==
    ASSUME TypeOK, NEW t \in Testsets, NEW q \in Listings(t), NEW numbers,
           DOMAIN numbers = DOMAIN q, \A i \in DOMAIN q : numbers[i] \in Nat
    PROVE  /\ Moves(q, numbers) \in Seq(Move)
           /\ Len(Moves(q, numbers)) = Cardinality(StepsOf(t))
           /\ DOMAIN Moves(q, numbers) = 1..Cardinality(StepsOf(t))
           /\ \A i \in 1..Cardinality(StepsOf(t)) :
                 Moves(q, numbers)[i] = [row |-> q[i], from |-> pos[q[i]], to |-> numbers[i]]
<1> DEFINE n == Cardinality(StepsOf(t))
           m == Moves(q, numbers)
<1>1. n \in Nat /\ DOMAIN q = 1..n /\ \A i \in 1..n : q[i] \in Rows
  BY ListingTypes DEF StepsOf
<1>2. \A i \in 1..n : pos[q[i]] \in Nat
  BY <1>1 DEF TypeOK
<1>3. m = [i \in 1..n |-> [row |-> q[i], from |-> pos[q[i]], to |-> numbers[i]]]
  BY <1>1 DEF Moves
<1> HIDE DEF m, n
<1>4. m \in [1..n -> Move]
  BY <1>1, <1>2, <1>3 DEF Move
<1>5. m \in Seq(Move) /\ DOMAIN m = 1..n
  BY <1>1, <1>4, FunctionIsSeq
<1>6. Len(m) = n
  BY <1>1, <1>5, LenProperties
<1> QED BY <1>3, <1>5, <1>6 DEF m, n

LEMMA ExpectedTypes ==
    ASSUME NEW t \in Testsets, NEW q \in Listings(t), NEW numbers, NEW sound \in BOOLEAN,
           DOMAIN numbers = DOMAIN q, \A i \in DOMAIN q : numbers[i] \in Nat
    PROVE  Expected(q, numbers, sound) \in [Rows -> Nat]
<1> SUFFICES ASSUME NEW r \in Rows, r \in Range(q)
             PROVE  numbers[CHOOSE i \in DOMAIN q : q[i] = r] \in Nat
  BY DEF Expected
<1>1. \E i \in DOMAIN q : q[i] = r
  BY DEF Range
<1> QED BY <1>1

\* What a request that orders steps will do is well-formed.
LEMMA OrderTypes ==
    ASSUME NEW t \in Testsets, NEW expected \in [Rows -> Nat], NEW moves \in Seq(Move),
           NEW sorting \in BOOLEAN
    PROVE  Reorder(t, expected, moves, sorting) \in Requests
BY DEF Reorder, Requests

\* positions are natural numbers, and rows that are no steps have none
Fits(p) == p \in [Rows -> Nat] /\ \A x \in Rows \ Steps : p[x] = 0

\* An insertion keeps it so.
LEMMA InsertedTypes ==
    ASSUME NEW p, Fits(p), NEW t \in Testsets, NEW r, NEW old \in Nat, NEW new \in Nat
    PROVE  Fits(Shifted(p, t, old, new)) /\ Fits(Inserted(p, t, r, old, new))
<1> DEFINE f == Shifted(p, t, old, new)
<1>1. \A x \in Rows \ Steps : test[x] # t
  BY DEF Steps
<1>2. Fits(f)
  BY <1>1 DEF Shifted, Fits
<1> HIDE DEF f
<1>3. Inserted(p, t, r, old, new)
         = IF old = new THEN p ELSE [f EXCEPT ![r] = IF r \in Steps THEN new ELSE f[r]]
  BY DEF Inserted, f
<1>4. Fits(Inserted(p, t, r, old, new))
  BY <1>2, <1>3 DEF Fits
<1> QED BY <1>2, <1>4 DEF f

\* p holds the positions before a sort and after each of its moves
Chain(p, t, moves) ==
    /\ DOMAIN p = 0..Len(moves) /\ p[0] = pos
    /\ \A n \in 1..Len(moves) :
          p[n] = Inserted(p[n - 1], t, moves[n].row, moves[n].from, moves[n].to)

\* The recursion that Sorted is defined by has a solution, and so it has this one.
LEMMA SortedIsChain ==
    ASSUME NEW t, NEW moves, Len(moves) \in Nat
    PROVE  \E p : Chain(p, t, moves) /\ Sorted(t, moves) = p[Len(moves)]
<1> DEFINE L == Len(moves)
           Next1(x, n) == Inserted(x, t, moves[n].row, moves[n].from, moves[n].to)
           Solves(f, n) == f = [m \in 0..n |-> IF m = 0 THEN pos ELSE Next1(f[m - 1], m)]
           Bad == {n \in 0..L : ~\E f : Solves(f, n)}
<1>1. Bad = {}
  <2> SUFFICES ASSUME Bad # {} PROVE FALSE
    OBVIOUS
  <2>1. PICK n \in Bad : \A m \in Bad : n <= m
    <3>1. Bad \subseteq Nat
      OBVIOUS
    <3> HIDE DEF Bad
    <3> QED BY <3>1, LeastNat
  <2>2. n # 0
    <3> SUFFICES ASSUME n = 0 PROVE FALSE
      OBVIOUS
    <3> DEFINE f == [m \in 0..0 |-> pos]
    <3>1. Solves(f, 0)
      OBVIOUS
    <3> QED BY <2>1, <3>1
  <2>3. n \in 1..L /\ n - 1 \in 0..L /\ n - 1 \notin Bad
    BY <2>1, <2>2
  <2>4. PICK f : Solves(f, n - 1)
    BY <2>3
  <2> DEFINE g == [m \in 0..n |-> IF m = n THEN Next1(f[n - 1], n) ELSE f[m]]
  <2>5. ASSUME NEW m \in 0..n PROVE g[m] = IF m = 0 THEN pos ELSE Next1(g[m - 1], m)
    <3> HIDE DEF Next1
    <3>1. CASE m = n
      <4>1. n - 1 \in 0..n /\ n - 1 # n
        BY <2>3
      <4> QED BY <2>3, <3>1, <4>1
    <3>2. CASE m # n
      <4>1. m \in 0..n - 1 /\ (m # 0 => m - 1 \in 0..n /\ m - 1 # n)
        BY <2>3, <3>2
      <4>2. f[m] = IF m = 0 THEN pos ELSE Next1(f[m - 1], m)
        BY <2>4, <4>1
      <4> QED BY <3>2, <4>1, <4>2
    <3> QED BY <3>1, <3>2
  <2>6. Solves(g, n)
    <3>1. g = [m \in 0..n |-> g[m]]
      OBVIOUS
    <3> HIDE DEF g, Next1
    <3> QED BY <2>5, <3>1
  <2> HIDE DEF g, Solves
  <2>7. \E h : Solves(h, n)
    BY <2>6
  <2> QED BY <2>1, <2>7
<1>2. \E f : Solves(f, L)
  BY <1>1
<1> DEFINE p == CHOOSE f : Solves(f, L)
<1>3. Solves(p, L)
  <2> HIDE DEF Solves
  <2> QED BY <1>2
<1>4. Sorted(t, moves) = p[L]
  BY DEF Sorted
<1> HIDE DEF p, Next1
<1>5. DOMAIN p = 0..L /\ p[0] = pos /\ \A n \in 1..L : p[n] = Next1(p[n - 1], n)
  BY <1>3
<1>6. Chain(p, t, moves)
  BY <1>5 DEF Chain, Next1
<1> QED BY <1>4, <1>6

LEMMA InitTypes == Init => TypeOK
<1> SUFFICES ASSUME Init PROVE TypeOK
  OBVIOUS
<1>1. /\ home \in [Testsets -> Collections \cup {None, Gone}]
      /\ test \in [Rows -> Testsets \cup {None, Gone}]
      /\ pointer \in [Rows -> Testsets \cup {None}]
      /\ req \in [Sessions -> Requests \cup {None}]
  BY DEF Init
<1>2. pos \in [Rows -> Nat] /\ \A r \in Rows : pos[r] = 0 /\ pointer[r] = None
  BY DEF Init
<1> QED BY <1>1, <1>2 DEF Init, TypeOK

\* What a request to reorder reads of the form is well-formed.
LEMMA ChangeOrderBegins ==
    ASSUME TypeOK, NEW s \in Sessions, NEW t \in Testsets, NEW numbers \in Typed,
           ChangeOrder(s, t, numbers)
    PROVE  \E q \in Listings(t) :
              LET e == Expected(q, numbers, Rearranges(t, numbers)) IN
              /\ DOMAIN numbers = DOMAIN q /\ \A i \in DOMAIN q : numbers[i] \in Nat
              /\ e \in [Rows -> Nat] /\ Moves(q, numbers) \in Seq(Move)
              /\ Begin(s, Reorder(t, e, Moves(q, numbers), FALSE))
<1>1. PICK q \in Listings(t) :
        Begin(s, Reorder(t, Expected(q, numbers, Rearranges(t, numbers)),
                         Moves(q, numbers), FALSE))
  BY DEF ChangeOrder
<1>2. numbers \in Seq(Nat) /\ Len(numbers) = Cardinality(StepsOf(t))
  BY BoundAssumption DEF ChangeOrder
<1>3. DOMAIN numbers = DOMAIN q /\ \A i \in DOMAIN q : numbers[i] \in Nat
  <2>1. DOMAIN q = 1..Len(numbers)
    BY <1>2, ListingTypes
  <2>2. DOMAIN numbers = 1..Len(numbers) /\ \A i \in 1..Len(numbers) : numbers[i] \in Nat
    BY <1>2, LenProperties
  <2> QED BY <2>1, <2>2
<1>4. Moves(q, numbers) \in Seq(Move)
  BY <1>3, MovesTypes
<1>5. Expected(q, numbers, Rearranges(t, numbers)) \in [Rows -> Nat]
  <2>1. Rearranges(t, numbers) \in BOOLEAN
    BY DEF Rearranges
  <2> QED BY <1>3, <2>1, ExpectedTypes
<1> QED BY <1>1, <1>3, <1>4, <1>5

\* So is what a sort reads of the table.
LEMMA PlacesTypes ==
    ASSUME TypeOK, NEW t \in Testsets, NEW q \in Listings(t)
    PROVE  /\ Moves(q, Places(q)) \in Seq(Move)
           /\ \A sound \in BOOLEAN : Expected(q, Places(q), sound) \in [Rows -> Nat]
           /\ Len(Moves(q, Places(q))) = Cardinality(StepsOf(t))
           /\ DOMAIN Moves(q, Places(q)) = 1..Cardinality(StepsOf(t))
           /\ \A i \in 1..Cardinality(StepsOf(t)) :
                 Moves(q, Places(q))[i] = [row |-> q[i], from |-> pos[q[i]], to |-> i]
<1> DEFINE numbers == Places(q)
<1>1. DOMAIN numbers = DOMAIN q /\ \A i \in DOMAIN q : numbers[i] = i
  BY DEF Places
<1>2. /\ Cardinality(StepsOf(t)) \in Nat /\ DOMAIN q = 1..Cardinality(StepsOf(t))
      /\ \A i \in DOMAIN q : numbers[i] \in Nat
  BY <1>1, ListingTypes
<1> HIDE DEF numbers
<1>3. /\ Moves(q, numbers) \in Seq(Move)
      /\ Len(Moves(q, numbers)) = Cardinality(StepsOf(t))
      /\ DOMAIN Moves(q, numbers) = 1..Cardinality(StepsOf(t))
      /\ \A i \in 1..Cardinality(StepsOf(t)) :
            Moves(q, numbers)[i] = [row |-> q[i], from |-> pos[q[i]], to |-> numbers[i]]
  BY <1>1, <1>2, MovesTypes
<1>4. \A sound \in BOOLEAN : Expected(q, numbers, sound) \in [Rows -> Nat]
  BY <1>1, <1>2, ExpectedTypes
<1> QED BY <1>1, <1>2, <1>3, <1>4 DEF numbers

\* Each kind of request is well-formed when it begins.
LEMMA RequestTypes ==
    ASSUME TypeOK, NEW s \in Sessions, req[s] = None, Request(s)
    PROVE  TypeOK'
<1>1. ASSUME NEW c \in Collections, NewTest(s, c) PROVE TypeOK'
  <2>1. [kind |-> "test", home |-> c] \in Requests
    BY DEF Requests
  <2> QED BY <1>1, <2>1, BeginTypes DEF NewTest
<1>2. ASSUME NEW c \in Collections, DropCollection(s, c) PROVE TypeOK'
  <2> DEFINE tests == {t \in Testsets : home[t] = c}
             r == [kind |-> "drop", collections |-> {c}, tests |-> tests,
                   rows |-> {x \in Rows : test[x] \in tests}]
  <2>1. r \in Requests
    BY DEF Requests
  <2>2. Begin(s, r)
    BY <1>2 DEF DropCollection
  <2> QED BY <2>1, <2>2, BeginTypes
<1>3. ASSUME NEW t \in Testsets, DropTest(s, t) PROVE TypeOK'
  <2> DEFINE r == [kind |-> "drop", collections |-> {}, tests |-> {t}, rows |-> StepsOf(t)]
  <2>1. r \in Requests
    BY DEF Requests, StepsOf
  <2>2. Begin(s, r)
    BY <1>3 DEF DropTest
  <2> QED BY <2>1, <2>2, BeginTypes
<1>4. ASSUME NEW t \in Testsets, RenameTest(s, t) PROVE TypeOK'
  <2>1. PICK q \in Listings(t) :
          Begin(s, [kind |-> "sort", test |-> t, moves |-> Moves(q, Places(q))])
    BY <1>4 DEF RenameTest
  <2>2. Moves(q, Places(q)) \in Seq(Move)
    BY PlacesTypes
  <2>3. [kind |-> "sort", test |-> t, moves |-> Moves(q, Places(q))] \in Requests
    BY <2>2 DEF Requests
  <2> QED BY <2>1, <2>3, BeginTypes
<1>5. ASSUME NEW t \in Testsets, NEW p \in Testsets \cup {None}, NewStep(s, t, p)
      PROVE  TypeOK'
  <2> DEFINE r == [kind |-> "step", test |-> t, pos |-> Bottom(t) + 1, pointer |-> p]
  <2>1. r \in Requests
    BY BottomOfSteps DEF Requests
  <2>2. Begin(s, r)
    BY <1>5 DEF NewStep
  <2> QED BY <2>1, <2>2, BeginTypes
<1>6. ASSUME NEW t \in Testsets, NEW numbers \in Typed, ChangeOrder(s, t, numbers)
      PROVE  TypeOK'
  <2>1. PICK e \in [Rows -> Nat], m \in Seq(Move) : Begin(s, Reorder(t, e, m, FALSE))
    BY <1>6, ChangeOrderBegins
  <2>2. Reorder(t, e, m, FALSE) \in Requests
    BY OrderTypes
  <2> QED BY <2>1, <2>2, BeginTypes
<1>7. ASSUME NEW r \in Rows, DeleteStep(s, r) PROVE TypeOK'
  <2>1. /\ req' \in [Sessions -> Requests \cup {None}] /\ stale' \subseteq Sessions
        /\ raced' \in BOOLEAN /\ overlaps' \in Nat
    BY <1>7, CommitTypes DEF DeleteStep
  <2>2. /\ test' \in [Rows -> Testsets \cup {None, Gone}]
        /\ pointer' \in [Rows -> Testsets \cup {None}]
    BY <1>7 DEF DeleteStep, TypeOK
  <2>3. pos' \in [Rows -> Nat]
    BY <1>7 DEF DeleteStep, TypeOK
  <2>4. r \notin Steps' /\ Steps' \subseteq Steps /\ \A x \in Steps : x = r \/ x \in Steps'
    BY <1>7, NoneAssumption DEF DeleteStep, TypeOK, Steps
  <2>5. Blank'
    <3>1. \A x \in Rows \ Steps : x # r /\ test[x] # test[r]
      BY <1>7 DEF DeleteStep, Steps
    <3>2. \A x \in Rows \ Steps : pos[x] = 0 /\ pointer[x] = None
      BY DEF TypeOK
    <3> QED BY <1>7, <2>4, <3>1, <3>2 DEF DeleteStep, TypeOK, Blank
  <2>6. hidden' \subseteq {x \in Steps' : pointer'[x] = None}
    BY <1>7, <2>4 DEF DeleteStep, TypeOK, Steps
  <2> QED BY <1>7, <2>1, <2>2, <2>3, <2>5, <2>6 DEF DeleteStep, TypeOK, Blank
<1>8. ASSUME NEW r \in Rows, NEW p \in Testsets \cup {None}, Repoint(s, r, p) PROVE TypeOK'
  <2>1. [kind |-> "point", row |-> r, pointer |-> p] \in Requests
    BY DEF Requests
  <2> QED BY <1>8, <2>1, BeginTypes DEF Repoint
<1> QED BY <1>1, <1>2, <1>3, <1>4, <1>5, <1>6, <1>7, <1>8 DEF Request

\* A step of a request keeps the rest of what TypeOK says when it only moves steps.
LEMMA MovesTyped ==
    ASSUME TypeOK, UNCHANGED <<collections, home, test, pointer, hidden>>,
           Fits(pos'),
           req' \in [Sessions -> Requests \cup {None}], stale' \subseteq Sessions,
           raced' \in BOOLEAN, halted' \subseteq Testsets, overlaps' \in Nat
    PROVE  TypeOK'
BY DEF TypeOK, Steps, Fits

\* The positions at the end of a sort are natural numbers.
LEMMA SortedTypes ==
    ASSUME TypeOK, NEW t \in Testsets, NEW moves \in Seq(Move)
    PROVE  Fits(Sorted(t, moves))
<1>1. Len(moves) \in Nat
  BY LenProperties
<1>2. PICK p : Chain(p, t, moves) /\ Sorted(t, moves) = p[Len(moves)]
  BY <1>1, SortedIsChain
<1> DEFINE Bad == {n \in 0..Len(moves) : ~Fits(p[n])}
<1>3. Bad = {}
  <2> SUFFICES ASSUME Bad # {} PROVE FALSE
    OBVIOUS
  <2>1. PICK n \in Bad : \A m \in Bad : n <= m
    <3>1. Bad \subseteq Nat
      BY <1>1
    <3> HIDE DEF Bad
    <3> QED BY <3>1, LeastNat
  <2>2. Fits(p[0])
    BY <1>2 DEF Chain, TypeOK, Fits
  <2>3. n \in 1..Len(moves) /\ n - 1 \in 0..Len(moves) /\ n - 1 \notin Bad
    BY <1>1, <2>1, <2>2
  <2>4. Fits(p[n - 1])
    BY <2>3
  <2>5. moves[n] \in Move /\ moves[n].from \in Nat /\ moves[n].to \in Nat
    <3>1. moves[n] \in Move
      BY <2>3, ElementOfSeq
    <3> QED BY <3>1 DEF Move
  <2>6. p[n] = Inserted(p[n - 1], t, moves[n].row, moves[n].from, moves[n].to)
    BY <1>2, <2>3 DEF Chain
  <2>7. Fits(p[n])
    BY <2>4, <2>5, <2>6, InsertedTypes
  <2> QED BY <2>1, <2>7
<1>4. Fits(p[Len(moves)])
  BY <1>1, <1>3
<1> QED BY <1>2, <1>4

\* What a pending request writes keeps the types, and has none of its own left.
LEMMA WriteTypes ==
    ASSUME TypeOK, NEW s \in Sessions, Write(s)
    PROVE  TypeOK'
<1>1. ASSUME NEW t \in Testsets, SaveTest(s, t) PROVE TypeOK'
  <2>1. req[s].home \in Collections
    BY <1>1, PendingKinds DEF SaveTest, Pending
  <2>2. home' \in [Testsets -> Collections \cup {None, Gone}]
    BY <1>1, <2>1 DEF SaveTest, TypeOK
  <2>3. Commit(s, None)
    BY <1>1 DEF SaveTest
  <2> QED BY <1>1, <2>2, <2>3, CommitTypes DEF SaveTest, TypeOK, Steps
<1>2. ASSUME NEW r \in Rows, SaveStep(s, r) PROVE TypeOK'
  <2>1. /\ req[s].test \in Testsets /\ req[s].pos \in Nat
        /\ req[s].pointer \in Testsets \cup {None}
    BY <1>2, PendingKinds DEF SaveStep, Pending
  <2>2. /\ test' \in [Rows -> Testsets \cup {None, Gone}]
        /\ pos' \in [Rows -> Nat]
        /\ pointer' \in [Rows -> Testsets \cup {None}]
    BY <1>2, <2>1 DEF SaveStep, TypeOK
  <2>3. Steps' = Steps \cup {r} /\ r \notin Steps
    BY <1>2, <2>1, NoneAssumption DEF SaveStep, TypeOK, Steps
  <2>4. Blank'
    BY <1>2, <2>1, <2>3 DEF SaveStep, TypeOK, Blank
  <2>5. hidden' \subseteq {x \in Steps' : pointer'[x] = None}
    BY <1>2, <2>3 DEF SaveStep, TypeOK, Steps
  <2>6. Commit(s, None)
    BY <1>2 DEF SaveStep
  <2> QED BY <1>2, <2>2, <2>4, <2>5, <2>6, CommitTypes DEF SaveStep, TypeOK, Blank
<1>3. ASSUME SavePointer(s) PROVE TypeOK'
  <2>1. req[s].row \in Rows /\ req[s].pointer \in Testsets \cup {None}
    BY <1>3, PendingKinds DEF SavePointer, Pending
  <2>2. pointer' \in [Rows -> Testsets \cup {None}]
    BY <1>3, <2>1 DEF SavePointer, TypeOK
  <2>3. Blank' /\ Steps' = Steps
    BY <1>3, <2>1 DEF SavePointer, TypeOK, Blank, Steps
  <2>4. hidden' \subseteq {x \in Steps' : pointer'[x] = None}
    BY <1>3, <2>1, <2>3 DEF SavePointer, TypeOK, Steps
  <2>5. Commit(s, None)
    BY <1>3 DEF SavePointer
  <2> QED BY <1>3, <2>2, <2>3, <2>4, <2>5, CommitTypes DEF SavePointer, TypeOK, Blank
<1>4. ASSUME Drop(s) PROVE TypeOK'
  <2>1. Commit(s, None)
    BY <1>4 DEF Drop
  <2>2. /\ collections' \subseteq Collections
        /\ home' \in [Testsets -> Collections \cup {None, Gone}]
        /\ test' \in [Rows -> Testsets \cup {None, Gone}]
        /\ pointer' \in [Rows -> Testsets \cup {None}]
    BY <1>4 DEF Drop, TypeOK
  <2>3. pos' \in [Rows -> Nat]
    BY <1>4 DEF Drop, TypeOK
  <2>4. Blank'
    <3>1. \A x \in Rows \ Steps' : x \notin Steps \/ x \in req[s].rows
      BY <1>4 DEF Drop, Steps
    <3> QED BY <1>4, <3>1 DEF Drop, TypeOK, Blank
  <2>5. hidden' \subseteq {x \in Steps' : pointer'[x] = None} /\ halted' = halted
    BY <1>4 DEF Drop, TypeOK, Steps
  <2> QED BY <2>1, <2>2, <2>3, <2>4, <2>5, CommitTypes DEF TypeOK, Blank
<1>5. ASSUME SkipStep(s) PROVE TypeOK'
  <2>1. req[s] \in [kind : {"order"}, test : Testsets, expected : [Rows -> Nat],
                    moves : Seq(Move), sorting : BOOLEAN]
    BY <1>5, PendingKinds DEF SkipStep, Pending
  <2>2. Tail(req[s].moves) \in Seq(Move)
    BY <1>5, <2>1, HeadTailProperties DEF SkipStep
  <2>3. [req[s] EXCEPT !.moves = Tail(req[s].moves)] \in Requests
    BY <2>1, <2>2 DEF Requests
  <2>4. req' \in [Sessions -> Requests \cup {None}]
    BY <1>5, <2>3 DEF SkipStep, TypeOK
  <2> QED BY <1>5, <2>4 DEF SkipStep, TypeOK, tables, Steps
<1>6. ASSUME MoveStep(s) PROVE TypeOK'
  <2> DEFINE t == req[s].test
             move == Head(req[s].moves)
             rest == [req[s] EXCEPT !.moves = Tail(req[s].moves)]
             old == OldPosition(s, move)
             new == move.to
             row == move.row
  <2>1. req[s] \in [kind : {"order"}, test : Testsets, expected : [Rows -> Nat],
                    moves : Seq(Move), sorting : BOOLEAN]
    BY <1>6, PendingKinds DEF MoveStep, Pending
  <2>2. Tail(req[s].moves) \in Seq(Move) /\ move \in Move
    BY <1>6, <2>1, HeadTailProperties DEF MoveStep
  <2>3. rest \in Requests
    BY <2>1, <2>2 DEF Requests
  <2>4. row \in Rows /\ new \in Nat /\ old \in Nat /\ t \in Testsets
    BY <2>1, <2>2 DEF Move, OldPosition, TypeOK
  <2>5. /\ \/ Commit(s, None) \/ Commit(s, rest)
        /\ \/ pos' = pos
           \/ pos' = Shifted(pos, t, old, new)
           \/ pos' = Inserted(pos, t, row, old, new)
        /\ halted' = halted \/ halted' = halted \cup {t}
        /\ UNCHANGED <<collections, home, test, pointer, hidden>>
    BY <1>6 DEF MoveStep
  <2> HIDE DEF t, move, rest, old, new, row
  <2>6. Fits(pos)
    BY DEF TypeOK, Fits
  <2>7. Fits(pos')
    BY <2>4, <2>5, <2>6, InsertedTypes
  <2>8. /\ req' \in [Sessions -> Requests \cup {None}] /\ stale' \subseteq Sessions
        /\ raced' \in BOOLEAN /\ overlaps' \in Nat
    BY <2>3, <2>5, CommitTypes
  <2>9. halted' \subseteq Testsets
    BY <2>4, <2>5 DEF TypeOK
  <2> QED BY <2>5, <2>7, <2>8, <2>9, MovesTyped
<1>7. ASSUME SortSteps(s) PROVE TypeOK'
  <2>1. req[s] \in [kind : {"order"}, test : Testsets, expected : [Rows -> Nat],
                    moves : Seq(Move), sorting : BOOLEAN]
    BY <1>7, PendingKinds DEF SortSteps, Pending
  <2> DEFINE t == req[s].test
  <2>2. PICK found \in Listings(t) :
          req' = [req EXCEPT ![s] =
                     IF req[s].sorting \/ found = << >> THEN None
                     ELSE Reorder(t, Expected(found, Places(found), IsOrdered(t)),
                                  Moves(found, Places(found)), TRUE)]
    BY <1>7 DEF SortSteps
  <2>3. Reorder(t, Expected(found, Places(found), IsOrdered(t)),
                Moves(found, Places(found)), TRUE) \in Requests
    <3>1. IsOrdered(t) \in BOOLEAN /\ t \in Testsets
      BY <2>1 DEF IsOrdered
    <3> HIDE DEF t
    <3> QED BY <3>1, PlacesTypes, OrderTypes
  <2>4. req' \in [Sessions -> Requests \cup {None}]
    BY <2>2, <2>3 DEF TypeOK
  <2> QED BY <1>7, <2>4 DEF SortSteps, TypeOK, tables, Steps
<1>8. ASSUME SortTest(s) PROVE TypeOK'
  <2>1. req[s].test \in Testsets /\ req[s].moves \in Seq(Move)
    BY <1>8, PendingKinds DEF SortTest, Pending
  <2>2. UNCHANGED <<collections, home, test, pointer, hidden, halted>>
    BY <1>8 DEF SortTest
  <2>3. CASE pos' = Sorted(req[s].test, req[s].moves) /\ Commit(s, None)
    <3>1. Fits(pos')
      BY <2>1, <2>3, SortedTypes
    <3>2. halted' \subseteq Testsets
      BY <2>2 DEF TypeOK
    <3> QED BY <2>2, <2>3, <3>1, <3>2, CommitTypes, MovesTyped
  <2>4. CASE req' = [req EXCEPT ![s] = None] /\ UNCHANGED <<pos, stale, raced, overlaps>>
    BY <2>2, <2>4 DEF TypeOK, Steps
  <2> QED BY <1>8, <2>3, <2>4 DEF SortTest
<1> QED BY <1>1, <1>2, <1>3, <1>4, <1>5, <1>6, <1>7, <1>8 DEF Write

LEMMA StepTypes == TypeOK /\ [Next]_vars => TypeOK'
<1> SUFFICES ASSUME TypeOK, [Next]_vars PROVE TypeOK'
  OBVIOUS
<1>1. CASE UNCHANGED vars
  BY <1>1 DEF vars, tables, TypeOK, Steps
<1>2. ASSUME NEW r \in Rows, ArchiveActivity(r) PROVE TypeOK'
  BY <1>2 DEF ArchiveActivity, TypeOK, Steps
<1>3. CASE Next
  BY <1>2, <1>3, RequestTypes, WriteTypes DEF Next
<1> QED BY <1>1, <1>3

\* Whatever is edited, deleted, archived and moved at once, the tables and the
\* pending requests keep their shape and nothing is left of a destroyed step.
THEOREM StepsTyped == Spec => []TypeOK
BY InitTypes, StepTypes, PTL DEF Spec

-----------------------------------------------------------------------------
(* Edits that do not race. *)

Anchored ==
    /\ \A r \in Steps : TestExists(test[r]) /\ (pointer[r] # None => TestExists(pointer[r]))
    /\ \A t \in Testsets : TestExists(t) => home[t] \in collections

NoCircle ==
    \A a, b, c \in Testsets :
        /\ ~PointsTo(a, a)
        /\ ~(PointsTo(a, b) /\ PointsTo(b, a))
        /\ ~(PointsTo(a, b) /\ PointsTo(b, c) /\ PointsTo(c, a))

Sound == Anchored /\ NoCircle

\* what session s has read is still so
Fresh(s) ==
    /\ Pending(s, "test") => req[s].home \in collections
    /\ Pending(s, "drop") =>
          /\ \A r \in Steps : r \in req[s].rows <=> test[r] \in req[s].tests
          /\ \A r \in Steps : pointer[r] \in req[s].tests => test[r] \in req[s].tests
          /\ \A t \in Testsets : home[t] \in req[s].collections => t \in req[s].tests
          /\ \A t \in Testsets : t \in req[s].tests => TestExists(t)
    /\ Pending(s, "step") =>
          \A t \in Testsets, p \in Testsets \cup {None} :
              req[s].test = t /\ req[s].pointer = p =>
                  Valid(t, p, TRUE) /\ req[s].pos = Bottom(t) + 1
    /\ Pending(s, "point") =>
          \A r \in Rows, t \in Testsets \cup {None, Gone}, p \in Testsets \cup {None} :
              req[s].row = r /\ test[r] = t /\ req[s].pointer = p =>
                  r \in Steps /\ Valid(t, p, TRUE)
    /\ Pending(s, "order") =>
          \A t \in Testsets : req[s].test = t =>
              \A i \in DOMAIN req[s].moves : req[s].moves[i].row \in StepsOf(t)
    /\ Pending(s, "sort") =>
          \A t \in Testsets : req[s].test = t =>
              \E q \in Listings(t) : req[s].moves = Moves(q, Places(q))

\* Inductive: without Fresh nothing is known of what a commit writes.
EditInv ==
    ~raced => Sound /\ \A s \in Sessions \ stale : req[s] # None => Fresh(s)

DeletesStep(s) == \E r \in Rows : DeleteStep(s, r)

\* what requests validate against
reads == <<collections, home, test, pos, pointer>>

LEMMA InitEdit == Init => EditInv
<1> SUFFICES ASSUME Init PROVE EditInv
  OBVIOUS
<1>1. Steps = {} /\ \A t \in Testsets : StepsOf(t) = {} /\ ~TestExists(t)
  BY NoneAssumption DEF Init, Steps, StepsOf, TestExists
<1>2. \A s \in Sessions : req[s] = None
  BY DEF Init
<1> QED BY <1>1, <1>2 DEF EditInv, Sound, Anchored, NoCircle, PointsTo

\* A request stays as good as what it has read.
LEMMA SameFresh ==
    ASSUME UNCHANGED reads, NEW o \in Sessions, req'[o] = req[o], Fresh(o)
    PROVE  Fresh(o)'
<1>1. Steps' = Steps /\ \A t : StepsOf(t)' = StepsOf(t)
  BY DEF reads, Steps, StepsOf
<1>2. ASSUME NEW t, NEW p PROVE Valid(t, p, TRUE)' <=> Valid(t, p, TRUE)
  BY DEF reads, Valid, LeadsBack, TestExists, StepsOf
<1>3. \A t : (TestExists(t)' <=> TestExists(t)) /\ Bottom(t)' = Bottom(t)
  BY <1>1 DEF reads, TestExists, Bottom
<1>4. ASSUME NEW t PROVE Listings(t)' = Listings(t)
  BY <1>1 DEF reads, Listings, Shows
<1>5. ASSUME NEW q PROVE Moves(q, Places(q))' = Moves(q, Places(q))
  BY DEF reads, Moves, Places
<1>6. /\ Pending(o, "test")' => req'[o].home \in collections'
      /\ Pending(o, "drop")' =>
          /\ \A r \in Steps' : r \in req'[o].rows <=> test'[r] \in req'[o].tests
          /\ \A r \in Steps' : pointer'[r] \in req'[o].tests => test'[r] \in req'[o].tests
          /\ \A t \in Testsets : home'[t] \in req'[o].collections => t \in req'[o].tests
          /\ \A t \in Testsets : t \in req'[o].tests => TestExists(t)'
  BY <1>1, <1>3 DEF reads, Fresh, Pending
<1>7. Pending(o, "step")' =>
          \A t \in Testsets, p \in Testsets \cup {None} :
              req'[o].test = t /\ req'[o].pointer = p =>
                  Valid(t, p, TRUE)' /\ req'[o].pos = Bottom(t)' + 1
  BY <1>2, <1>3 DEF Fresh, Pending
<1>8. Pending(o, "point")' =>
          \A r \in Rows, t \in Testsets \cup {None, Gone}, p \in Testsets \cup {None} :
              req'[o].row = r /\ test'[r] = t /\ req'[o].pointer = p =>
                  r \in Steps' /\ Valid(t, p, TRUE)'
  BY <1>1, <1>2 DEF reads, Fresh, Pending
<1>9. /\ Pending(o, "order")' =>
            \A t \in Testsets : req'[o].test = t =>
                \A i \in DOMAIN req'[o].moves : req'[o].moves[i].row \in StepsOf(t)'
      /\ Pending(o, "sort")' =>
            \A t \in Testsets : req'[o].test = t =>
                \E q \in Listings(t)' : req'[o].moves = Moves(q, Places(q))'
  BY <1>1, <1>4, <1>5 DEF Fresh, Pending
<1> QED BY <1>6, <1>7, <1>8, <1>9 DEF Fresh

\* A step of one request that leaves the tables, and so what others have read,
\* alone.
LEMMA QuietFresh ==
    ASSUME TypeOK, EditInv, NEW s \in Sessions, UNCHANGED <<reads, raced>>,
           \A o \in Sessions \ {s} : req'[o] = req[o] /\ (o \in stale => o \in stale'),
           ~raced /\ s \notin stale' => req'[s] = None \/ Fresh(s)'
    PROVE  EditInv'
<1> SUFFICES ASSUME ~raced' PROVE EditInv'
  BY DEF EditInv
<1>1. ~raced /\ UNCHANGED reads
  OBVIOUS
<1>2. Anchored' /\ NoCircle'
  <2>1. Anchored /\ NoCircle
    BY <1>1 DEF EditInv, Sound
  <2>2. Anchored'
    BY <1>1, <2>1 DEF reads, Anchored, TestExists, Steps
  <2>3. NoCircle'
    BY <1>1, <2>1 DEF reads, NoCircle, PointsTo, StepsOf
  <2> QED BY <2>2, <2>3
<1>3. ASSUME NEW o \in Sessions \ stale', req'[o] # None, o # s PROVE Fresh(o)'
  <2>1. o \in Sessions \ stale /\ req'[o] = req[o]
    BY <1>3
  <2>2. Fresh(o)
    BY <1>1, <1>3, <2>1 DEF EditInv
  <2> QED BY <1>1, <2>1, <2>2, SameFresh
<1> QED BY <1>1, <1>2, <1>3 DEF EditInv, Sound

LEMMA BeginFresh ==
    ASSUME TypeOK, EditInv, NEW s \in Sessions, NEW r, Begin(s, r), ~raced => Fresh(s)'
    PROVE  EditInv'
<1>1. /\ UNCHANGED <<reads, raced>>
      /\ \A o \in Sessions \ {s} : req'[o] = req[o] /\ (o \in stale => o \in stale')
  BY DEF Begin, TypeOK, tables, reads
<1> QED BY <1>1, QuietFresh

\* After a commit only its own session is not stale.
LEMMA CommitFresh ==
    ASSUME TypeOK, EditInv, NEW s \in Sessions, NEW rest, Commit(s, rest),
           Sound /\ (req[s] # None => Fresh(s)) => Sound' /\ (rest = None \/ Fresh(s)')
    PROVE  EditInv'
<1> SUFFICES ASSUME ~raced' PROVE EditInv'
  BY DEF EditInv
<1>1. ~raced /\ (req[s] # None => s \notin stale)
  BY DEF Commit
<1>2. Sound' /\ (rest = None \/ Fresh(s)')
  BY <1>1 DEF EditInv
<1>3. \A o \in Sessions \ stale' : req'[o] # None => o = s /\ req'[o] = rest
  BY DEF Commit, TypeOK
<1> QED BY <1>2, <1>3 DEF EditInv

\* A request that has just read is right about what it read.
LEMMA RequestEdit ==
    ASSUME TypeOK, EditInv, NEW s \in Sessions, req[s] = None, Request(s), ~DeletesStep(s)
    PROVE  EditInv'
<1>0. ASSUME NEW r, Begin(s, r)
      PROVE  /\ req'[s] = r /\ UNCHANGED tables
             /\ Steps' = Steps /\ \A t : StepsOf(t)' = StepsOf(t)
             /\ \A t, p : Valid(t, p, TRUE)' <=> Valid(t, p, TRUE)
  <2>1. req'[s] = r /\ UNCHANGED tables
    BY <1>0 DEF Begin, TypeOK
  <2>2. Steps' = Steps /\ \A t : StepsOf(t)' = StepsOf(t)
    BY <2>1 DEF tables, Steps, StepsOf
  <2>3. \A t, p : Valid(t, p, TRUE)' <=> Valid(t, p, TRUE)
    BY <2>1 DEF tables, Valid, LeadsBack, TestExists, StepsOf
  <2> QED BY <2>1, <2>2, <2>3
<1>1. ASSUME NEW c \in Collections, NewTest(s, c) PROVE EditInv'
  <2> DEFINE r == [kind |-> "test", home |-> c]
  <2>1. Begin(s, r) /\ c \in collections
    BY <1>1 DEF NewTest
  <2>2. Fresh(s)'
    BY <2>1 DEF Begin, tables, TypeOK, Fresh, Pending
  <2> QED BY <2>1, <2>2, BeginFresh
<1>2. ASSUME NEW c \in Collections, DropCollection(s, c) PROVE EditInv'
  <2> DEFINE tests == {t \in Testsets : home[t] = c}
             rows == {x \in Rows : test[x] \in tests}
             r == [kind |-> "drop", collections |-> {c}, tests |-> tests, rows |-> rows]
  <2>1. Begin(s, r)
    BY <1>2 DEF DropCollection
  <2>2. \A x \in Steps : pointer[x] \in tests => test[x] \in tests
    <3> SUFFICES ASSUME NEW x \in Steps, pointer[x] \in tests, test[x] \notin tests
                 PROVE  FALSE
      OBVIOUS
    <3>1. PICK rank \in [1..Cardinality(tests) -> tests] :
            /\ \A t \in tests : \E i \in 1..Cardinality(tests) : rank[i] = t
            /\ \A i \in 1..Cardinality(tests) : ~HasPointers({rank[j] : j \in 1..i})
      BY <1>2 DEF DropCollection
    <3>2. PICK i \in 1..Cardinality(tests) : rank[i] = pointer[x]
      BY <3>1
    <3>3. Cardinality(tests) \in Nat
      BY BoundAssumption, FS_Subset, FS_CardinalityType
    <3> HIDE DEF tests
    <3>4. pointer[x] \in {rank[j] : j \in 1..i}
      BY <3>2, <3>3
    <3>5. test[x] \notin {rank[j] : j \in 1..i}
      BY <3>2, <3>3
    <3> QED BY <3>1, <3>4, <3>5 DEF HasPointers
  <2>3. Fresh(s)'
    <3>1. /\ req'[s] = r /\ UNCHANGED tables
      BY <2>1 DEF Begin, TypeOK
    <3>2. \A x \in Steps : x \in rows <=> test[x] \in tests
      BY DEF Steps
    <3>3. \A t \in Testsets : home[t] \in {c} <=> t \in tests
      OBVIOUS
    <3> HIDE DEF tests, rows
    <3> QED BY <2>2, <3>1, <3>2, <3>3 DEF tables, Fresh, Pending, Steps, TestExists
  <2> QED BY <2>1, <2>3, BeginFresh
<1>3. ASSUME NEW t \in Testsets, DropTest(s, t) PROVE EditInv'
  <2> DEFINE r == [kind |-> "drop", collections |-> {}, tests |-> {t}, rows |-> StepsOf(t)]
  <2>1. Begin(s, r) /\ ~HasPointers({t}) /\ TestExists(t)
    BY <1>3 DEF DropTest
  <2>2. Fresh(s)'
    <3>1. /\ req'[s] = r /\ UNCHANGED tables
      BY <2>1 DEF Begin, TypeOK
    <3>2. \A x \in Steps : x \in StepsOf(t) <=> test[x] \in {t}
      BY DEF Steps, StepsOf
    <3>3. \A x \in Steps : pointer[x] \in {t} => test[x] \in {t}
      BY <2>1 DEF HasPointers
    <3>4. Steps' = Steps
      BY <3>1 DEF tables, Steps
    <3>5. TestExists(t)'
      BY <2>1, <3>1 DEF tables, TestExists
    <3> QED BY <3>1, <3>2, <3>3, <3>4, <3>5 DEF tables, Fresh, Pending
  <2> QED BY <2>1, <2>2, BeginFresh
<1>4. ASSUME NEW t \in Testsets, RenameTest(s, t) PROVE EditInv'
  <2>1. PICK q \in Listings(t) :
          Begin(s, [kind |-> "sort", test |-> t, moves |-> Moves(q, Places(q))])
    BY <1>4 DEF RenameTest
  <2>2. /\ UNCHANGED tables /\ req'[s].kind = "sort" /\ req'[s].test = t
        /\ req'[s].moves = Moves(q, Places(q))
    BY <2>1 DEF Begin, TypeOK
  <2>3. q \in Listings(t)' /\ Moves(q, Places(q))' = Moves(q, Places(q))
    BY <2>2 DEF tables, Listings, Shows, StepsOf, Moves, Places
  <2>4. Fresh(s)'
    BY <2>2, <2>3 DEF Fresh, Pending
  <2> QED BY <2>1, <2>4, BeginFresh
<1>5. ASSUME NEW t \in Testsets, NEW p \in Testsets \cup {None}, NewStep(s, t, p)
      PROVE  EditInv'
  <2> DEFINE r == [kind |-> "step", test |-> t, pos |-> Bottom(t) + 1, pointer |-> p]
  <2>1. Begin(s, r) /\ Valid(t, p, TRUE)
    BY <1>5 DEF NewStep
  <2>2. Fresh(s)'
    <3>1. req'[s] = r /\ UNCHANGED tables /\ Valid(t, p, TRUE)'
      BY <1>0, <2>1
    <3>2. Bottom(t)' = Bottom(t)
      BY <3>1 DEF tables, Bottom, StepsOf
    <3>3. /\ req'[s].kind = "step" /\ req'[s].test = t /\ req'[s].pointer = p
          /\ req'[s].pos = Bottom(t)' + 1
      BY <3>1, <3>2
    <3> QED BY <3>1, <3>3 DEF Fresh, Pending
  <2> QED BY <2>1, <2>2, BeginFresh
<1>6. ASSUME NEW t \in Testsets, NEW numbers \in Typed, ChangeOrder(s, t, numbers)
      PROVE  EditInv'
  <2>1. PICK q \in Listings(t), e \in [Rows -> Nat] :
          /\ DOMAIN numbers = DOMAIN q /\ \A i \in DOMAIN q : numbers[i] \in Nat
          /\ Begin(s, Reorder(t, e, Moves(q, numbers), FALSE))
    BY <1>6, ChangeOrderBegins
  <2>2. Fresh(s)'
    <3>0. req'[s] = Reorder(t, e, Moves(q, numbers), FALSE) /\ StepsOf(t)' = StepsOf(t)
      BY <1>0, <2>1
    <3>1. /\ req'[s].kind = "order" /\ req'[s].test = t
          /\ req'[s].moves = Moves(q, numbers)
          /\ StepsOf(t)' = StepsOf(t)
      BY <3>0 DEF Reorder
    <3>2. \A i \in DOMAIN Moves(q, numbers) : Moves(q, numbers)[i].row \in StepsOf(t)
      <4>1. \A i \in DOMAIN q : q[i] \in StepsOf(t)
        BY ListingTypes
      <4> QED BY <4>1 DEF Moves
    <3> QED BY <3>1, <3>2 DEF Fresh, Pending
  <2> QED BY <2>1, <2>2, BeginFresh
<1>7. ASSUME NEW r \in Rows, NEW p \in Testsets \cup {None}, Repoint(s, r, p) PROVE EditInv'
  <2> DEFINE q == [kind |-> "point", row |-> r, pointer |-> p]
  <2>1. Begin(s, q) /\ Valid(test[r], p, TRUE) /\ r \in Steps
    BY <1>7 DEF Repoint
  <2>2. Fresh(s)'
    <3>1. req'[s] = q /\ UNCHANGED tables /\ Steps' = Steps
      BY <1>0, <2>1
    <3>2. PICK t : t = test[r]
      OBVIOUS
    <3>3. test'[r] = t /\ Valid(t, p, TRUE)'
      BY <1>0, <2>1, <3>1, <3>2 DEF tables
    <3>4. req'[s].kind = "point" /\ req'[s].row = r /\ req'[s].pointer = p
      BY <3>1
    <3> QED BY <2>1, <3>1, <3>3, <3>4 DEF Fresh, Pending
  <2> QED BY <2>1, <2>2, BeginFresh
<1> QED BY <1>1, <1>2, <1>3, <1>4, <1>5, <1>6, <1>7 DEF Request, DeletesStep

-----------------------------------------------------------------------------
(* Commits that do not race. *)

\* A step that is where it is may be saved where it is, with an activity that is there.
LEMMA StepsAreValid ==
    ASSUME TypeOK, Anchored, NoCircle, NEW r \in Steps
    PROVE  Valid(test[r], pointer[r], TRUE)
<1>1. test[r] \in Testsets /\ TestExists(test[r]) /\ r \in StepsOf(test[r])
  BY DEF Anchored, Steps, StepsOf
<1>2. ASSUME pointer[r] # None
      PROVE  /\ TestExists(pointer[r]) /\ pointer[r] # test[r]
             /\ ~LeadsBack(pointer[r], test[r])
  <2>1. pointer[r] \in Testsets /\ TestExists(pointer[r]) /\ PointsTo(test[r], pointer[r])
    BY <1>1, <1>2 DEF TypeOK, Anchored, PointsTo, Steps
  <2>2. pointer[r] # test[r] /\ ~PointsTo(pointer[r], test[r])
    BY <1>1, <2>1 DEF NoCircle
  <2>3. ~LeadsBack(pointer[r], test[r])
    <3> SUFFICES ASSUME LeadsBack(pointer[r], test[r]) PROVE FALSE
      OBVIOUS
    <3>1. PICK a \in StepsOf(pointer[r]) :
            /\ pointer[a] # None
            /\ \E b \in StepsOf(pointer[a]) : pointer[b] = test[r]
      BY <2>2 DEF LeadsBack, PointsTo
    <3>2. /\ pointer[a] \in Testsets /\ PointsTo(pointer[r], pointer[a])
          /\ PointsTo(pointer[a], test[r])
      BY <3>1 DEF TypeOK, PointsTo, StepsOf
    <3> QED BY <1>1, <2>1, <3>2 DEF NoCircle
  <2> QED BY <2>1, <2>2, <2>3
<1> QED BY <1>1, <1>2 DEF Valid

\* Pointers without a short circle have none when a valid one is added.
LEMMA ValidPointer ==
    ASSUME TypeOK, Anchored, NoCircle, NEW t \in Testsets, NEW p \in Testsets \cup {None},
           Valid(t, p, TRUE),
           \A a, b \in Testsets : PointsTo(a, b)' => PointsTo(a, b) \/ (a = t /\ b = p)
    PROVE  NoCircle'
<1>1. ASSUME NEW a \in Testsets, PointsTo(a, a)' PROVE FALSE
  BY <1>1, NoneAssumption DEF NoCircle, Valid
<1>2. ASSUME p \in Testsets PROVE ~PointsTo(p, t)
  BY <1>2, NoneAssumption DEF Valid, LeadsBack, PointsTo
<1>3. ASSUME p \in Testsets, NEW q \in Testsets, PointsTo(p, q) PROVE ~PointsTo(q, t)
  <2>1. PICK a \in StepsOf(p) : pointer[a] = q
    BY <1>3 DEF PointsTo
  <2>2. a \in Steps /\ q # None /\ TestExists(q)
    BY <1>3, <2>1, NoneAssumption DEF Anchored, Steps, StepsOf
  <2> QED BY <1>3, <2>1, <2>2, NoneAssumption DEF Valid, LeadsBack, PointsTo
<1>4. p \in Testsets => p # t
  BY NoneAssumption DEF Valid
<1>5. ASSUME NEW a \in Testsets, NEW b \in Testsets, PointsTo(a, b)', PointsTo(b, a)'
      PROVE  FALSE
  BY <1>2, <1>4, <1>5 DEF NoCircle
<1>6. ASSUME NEW a \in Testsets, NEW b \in Testsets, NEW c \in Testsets,
             PointsTo(a, b)', PointsTo(b, c)', PointsTo(c, a)'
      PROVE  FALSE
  BY <1>3, <1>4, <1>6 DEF NoCircle
<1> QED BY <1>1, <1>5, <1>6 DEF NoCircle

\* A commit of a new test.
LEMMA SaveTestSound ==
    ASSUME TypeOK, Sound, NEW s \in Sessions, NEW t \in Testsets, SaveTest(s, t), Fresh(s)
    PROVE  Sound'
<1>1. req[s].home \in collections /\ home[t] = None /\ UNCHANGED <<collections, test, pos, pointer>>
  BY DEF SaveTest, Fresh
<1>2. home' = [home EXCEPT ![t] = req[s].home] /\ req[s].home \in Collections
  BY <1>1 DEF SaveTest, TypeOK
<1>3. \A u \in Testsets : TestExists(u) => TestExists(u)'
  BY <1>2 DEF TestExists, TypeOK
<1>4. Anchored'
  <2>1. \A r \in Steps : test[r] \in Testsets /\ (pointer[r] # None => pointer[r] \in Testsets)
    BY DEF Steps, TypeOK
  <2>2. \A r \in Steps' : TestExists(test[r])' /\ (pointer'[r] # None => TestExists(pointer[r])')
    BY <1>1, <1>2, <2>1 DEF Sound, Anchored, Steps, TestExists, TypeOK
  <2> QED BY <1>1, <1>2, <2>2 DEF Sound, Anchored, TestExists, TypeOK
<1>5. NoCircle'
  BY <1>1 DEF Sound, NoCircle, PointsTo, StepsOf
<1> QED BY <1>4, <1>5 DEF Sound

\* A commit that destroys a test, or all tests of a collection.
LEMMA DropSound ==
    ASSUME TypeOK, Sound, NEW s \in Sessions, Drop(s), Fresh(s)
    PROVE  Sound'
<1> DEFINE tests == req[s].tests
<1>1. /\ \A r \in Steps : r \in req[s].rows <=> test[r] \in tests
      /\ \A r \in Steps : pointer[r] \in tests => test[r] \in tests
      /\ \A t \in Testsets : home[t] \in req[s].collections => t \in tests
  BY DEF Drop, Fresh
<1>2. /\ home' = [t \in Testsets |-> IF t \in tests THEN Gone ELSE home[t]]
      /\ test' = [r \in Rows |-> IF r \in req[s].rows THEN Gone ELSE test[r]]
      /\ pointer' = [r \in Rows |-> IF r \in req[s].rows THEN None ELSE pointer[r]]
      /\ collections' = collections \ req[s].collections
  BY DEF Drop
<1> HIDE DEF tests
<1>3. ASSUME NEW r \in Steps'
      PROVE  /\ r \in Steps /\ test[r] \notin tests /\ pointer[r] \notin tests
             /\ test'[r] = test[r] /\ pointer'[r] = pointer[r]
  <2>1. r \in Rows /\ r \notin req[s].rows /\ test'[r] = test[r] /\ test[r] \in Testsets
    BY <1>2, NoneAssumption DEF Steps
  <2>2. r \in Steps
    BY <2>1 DEF Steps
  <2> QED BY <1>1, <1>2, <2>1, <2>2
<1>4. ASSUME NEW t \in Testsets PROVE TestExists(t)' <=> TestExists(t) /\ t \notin tests
  BY <1>2, NoneAssumption DEF TestExists
<1>5. Anchored'
  <2>1. ASSUME NEW r \in Steps'
        PROVE  home'[test'[r]] \in Collections
               /\ (pointer'[r] # None => home'[pointer'[r]] \in Collections)
    <3>1. /\ r \in Rows /\ test[r] \in Testsets
          /\ pointer[r] # None => pointer[r] \in Testsets
      BY <1>3 DEF Steps, TypeOK
    <3>2. TestExists(test[r]) /\ (pointer[r] # None => TestExists(pointer[r]))
      BY <1>3 DEF Sound, Anchored
    <3> QED BY <1>2, <1>3, <3>1, <3>2 DEF TestExists
  <2>2. \A t \in Testsets : TestExists(t)' => home'[t] \in collections'
    BY <1>1, <1>2, <1>4 DEF Sound, Anchored
  <2> QED BY <2>1, <2>2 DEF Anchored, TestExists
<1>6. NoCircle'
  <2>1. \A a, b \in Testsets : PointsTo(a, b)' => PointsTo(a, b)
    BY <1>3 DEF PointsTo, StepsOf, Steps
  <2> QED BY <2>1 DEF Sound, NoCircle
<1> QED BY <1>5, <1>6 DEF Sound

\* A commit of a new step.
LEMMA SaveStepSound ==
    ASSUME TypeOK, Sound, NEW s \in Sessions, NEW r \in Rows, SaveStep(s, r), Fresh(s)
    PROVE  Sound'
<1>1. PICK t \in Testsets, p \in Testsets \cup {None} : req[s].test = t /\ req[s].pointer = p
  BY PendingKinds DEF SaveStep, Pending
<1>2. Valid(t, p, TRUE)
  BY <1>1 DEF SaveStep, Fresh
<1>3. /\ test[r] = None /\ UNCHANGED <<collections, home>>
      /\ test' = [test EXCEPT ![r] = t]
      /\ pointer' = [pointer EXCEPT ![r] = p]
  BY <1>1, <1>2 DEF SaveStep
<1>4. r \notin Steps /\ Steps' = Steps \cup {r}
  BY <1>3, NoneAssumption DEF Steps, TypeOK
<1>5. Anchored'
  <2>1. TestExists(t) /\ (p # None => TestExists(p))
    BY <1>2 DEF Valid
  <2> QED BY <1>3, <1>4, <2>1 DEF Sound, Anchored, TestExists, TypeOK, Steps
<1>6. NoCircle'
  <2>1. \A a, b \in Testsets : PointsTo(a, b)' => PointsTo(a, b) \/ (a = t /\ b = p)
    BY <1>3 DEF PointsTo, StepsOf, TypeOK
  <2> QED BY <1>2, <2>1, ValidPointer DEF Sound
<1> QED BY <1>5, <1>6 DEF Sound

\* A commit of another pointer.
LEMMA SavePointerSound ==
    ASSUME TypeOK, Sound, NEW s \in Sessions, SavePointer(s), Fresh(s)
    PROVE  Sound'
<1>1. PICK r \in Rows, p \in Testsets \cup {None} : req[s].row = r /\ req[s].pointer = p
  BY PendingKinds DEF SavePointer, Pending
<1>2. r \in Steps /\ test[r] \in Testsets /\ Valid(test[r], p, TRUE)
  BY <1>1 DEF SavePointer, Fresh, TypeOK, Steps
<1>3. pointer' = [pointer EXCEPT ![r] = p] /\ UNCHANGED <<collections, home, test, pos>>
  BY <1>1, <1>2 DEF SavePointer
<1>4. Anchored'
  <2>1. p # None => TestExists(p)
    BY <1>2 DEF Valid
  <2> QED BY <1>3, <2>1 DEF Sound, Anchored, TestExists, TypeOK, Steps
<1>5. NoCircle'
  <2>1. \A a, b \in Testsets : PointsTo(a, b)' => PointsTo(a, b) \/ (a = test[r] /\ b = p)
    BY <1>3 DEF PointsTo, StepsOf, TypeOK
  <2> QED BY <1>2, <2>1, ValidPointer DEF Sound
<1> QED BY <1>4, <1>5 DEF Sound

\* Deleting a step takes its pointer away.
LEMMA DeleteStepSound ==
    ASSUME TypeOK, Sound, NEW s \in Sessions, NEW r \in Rows, DeleteStep(s, r)
    PROVE  Sound'
<1>0. PICK t \in Testsets : test[r] = t
  BY DEF DeleteStep, Steps
<1>1. r \in Steps /\ r \in StepsOf(t)
  BY <1>0 DEF DeleteStep, Steps, StepsOf
<1>2. /\ test' = [test EXCEPT ![r] = Gone]
      /\ pointer' = [pointer EXCEPT ![r] = None]
      /\ UNCHANGED <<collections, home>>
  BY <1>0 DEF DeleteStep, TypeOK
<1>3. Steps' = Steps \ {r}
  BY <1>2, NoneAssumption DEF Steps, TypeOK
<1>4. Anchored'
  BY <1>2, <1>3 DEF Sound, Anchored, TestExists, TypeOK, Steps
<1>5. NoCircle'
  <2>1. \A a, b \in Testsets : PointsTo(a, b)' => PointsTo(a, b)
    BY <1>2, NoneAssumption DEF PointsTo, StepsOf, TypeOK
  <2> QED BY <2>1 DEF Sound, NoCircle
<1> QED BY <1>4, <1>5 DEF Sound

\* What a request writes that only moves steps.
LEMMA OnlyMovesSound ==
    ASSUME Sound, UNCHANGED <<collections, home, test, pointer>>
    PROVE  Sound'
<1>1. Anchored'
  BY DEF Sound, Anchored, TestExists, Steps
<1>2. NoCircle'
  <2>1. \A a, b : PointsTo(a, b)' = PointsTo(a, b)
    BY DEF PointsTo, StepsOf
  <2> QED BY <2>1 DEF Sound, NoCircle
<1> QED BY <1>1, <1>2 DEF Sound

\* The next move of a reorder whose request is not out of date: the step is there,
\* and unless its activity is archived it is saved where it was asked to be.
LEMMA MoveStepFresh ==
    ASSUME TypeOK, Sound, NEW s \in Sessions, MoveStep(s), Fresh(s), NEW t \in Testsets,
           req[s].test = t
    PROVE  LET move == Head(req[s].moves)
               old == OldPosition(s, move) IN
           /\ req[s] \in [kind : {"order"}, test : Testsets, expected : [Rows -> Nat],
                          moves : Seq(Move), sorting : BOOLEAN]
           /\ req[s].moves # << >> /\ 1 \in DOMAIN req[s].moves /\ move = req[s].moves[1]
           /\ move \in Move /\ move.row \in StepsOf(t) /\ old \in Nat /\ move.to \in Nat
           /\ ~InPlace(s, move)
           /\ UNCHANGED <<collections, home, test, pointer, hidden>>
           /\ \/ /\ pos' = Inserted(pos, t, move.row, old, move.to)
                 /\ Commit(s, [req[s] EXCEPT !.moves = Tail(req[s].moves)])
                 /\ halted' = halted
              \/ /\ move.row \in hidden /\ halted' = halted \cup {t}
                 /\ pos' = IF old = move.to THEN pos ELSE Shifted(pos, t, old, move.to)
                 /\ Commit(s, None)
<1> DEFINE move == Head(req[s].moves)
           old == OldPosition(s, move)
<1>1. req[s] \in [kind : {"order"}, test : Testsets, expected : [Rows -> Nat],
                  moves : Seq(Move), sorting : BOOLEAN]
  BY PendingKinds DEF MoveStep, Pending
<1>2. req[s].moves # << >> /\ 1 \in DOMAIN req[s].moves /\ move = req[s].moves[1]
  <2>1. req[s].moves # << >>
    BY DEF MoveStep
  <2>2. Len(req[s].moves) \in Nat \ {0}
    BY <1>1, <2>1, EmptySeq
  <2> QED BY <1>1, <2>1, <2>2, LenProperties
<1>3. move \in Move /\ move.row \in StepsOf(t)
  <2>1. move \in Move
    BY <1>1, <1>2, HeadTailProperties
  <2>2. Pending(s, "order")
    BY DEF MoveStep
  <2> QED BY <1>2, <2>1, <2>2 DEF Fresh
<1>4. old \in Nat /\ move.to \in Nat /\ move.from \in Nat /\ move.row \in Rows
  BY <1>3 DEF Move, OldPosition, TypeOK
<1>5. move.row \in Steps /\ test[move.row] = t
  BY <1>3 DEF StepsOf, Steps
<1>6. ASSUME move.row \notin hidden PROVE Valid(t, pointer[move.row], move.row \notin hidden)
  <2>1. Valid(t, pointer[move.row], TRUE)
    BY <1>5, StepsAreValid DEF Sound
  <2> QED BY <1>6, <2>1 DEF Valid
<1> HIDE DEF move, old
<1>7. /\ ~InPlace(s, move) /\ UNCHANGED <<collections, home, test, pointer, hidden>>
      /\ \/ /\ pos' = Inserted(pos, t, move.row, old, move.to)
            /\ Commit(s, [req[s] EXCEPT !.moves = Tail(req[s].moves)])
            /\ halted' = halted
         \/ /\ move.row \in hidden /\ halted' = halted \cup {t}
            /\ pos' = IF old = move.to THEN pos ELSE Shifted(pos, t, old, move.to)
            /\ Commit(s, None)
  BY <1>5, <1>6 DEF MoveStep, move, old
<1> QED BY <1>1, <1>2, <1>3, <1>4, <1>7 DEF move, old

\* What is left of a reorder is as fresh as it was.
LEMMA MovesStayFresh ==
    ASSUME TypeOK, NEW s \in Sessions, Pending(s, "order"), Fresh(s), UNCHANGED test,
           req[s].moves # << >>, req'[s] = [req[s] EXCEPT !.moves = Tail(req[s].moves)]
    PROVE  Fresh(s)'
<1>1. req[s] \in [kind : {"order"}, test : Testsets, expected : [Rows -> Nat],
                  moves : Seq(Move), sorting : BOOLEAN]
  BY PendingKinds DEF Pending
<1>2. /\ req'[s].kind = "order" /\ req'[s].test = req[s].test
      /\ req'[s].moves = Tail(req[s].moves)
  BY <1>1
<1>3. ASSUME NEW i \in DOMAIN Tail(req[s].moves)
      PROVE  i + 1 \in DOMAIN req[s].moves /\ Tail(req[s].moves)[i] = req[s].moves[i + 1]
  <2>1. /\ Tail(req[s].moves) \in Seq(Move)
        /\ Len(Tail(req[s].moves)) = Len(req[s].moves) - 1
        /\ \A j \in 1..Len(Tail(req[s].moves)) : Tail(req[s].moves)[j] = req[s].moves[j + 1]
    BY <1>1, HeadTailProperties
  <2>2. /\ Len(req[s].moves) \in Nat /\ DOMAIN req[s].moves = 1..Len(req[s].moves)
        /\ DOMAIN Tail(req[s].moves) = 1..Len(Tail(req[s].moves))
    BY <1>1, <2>1, LenProperties
  <2>3. i \in 1..Len(req[s].moves) - 1
    BY <2>1, <2>2
  <2> QED BY <2>1, <2>2, <2>3
<1>4. \A t : StepsOf(t)' = StepsOf(t)
  BY DEF StepsOf
<1>5. ASSUME NEW t \in Testsets, req[s].test = t
      PROVE  \A i \in DOMAIN Tail(req[s].moves) : Tail(req[s].moves)[i].row \in StepsOf(t)
  <2>1. \A i \in DOMAIN req[s].moves : req[s].moves[i].row \in StepsOf(t)
    BY <1>5 DEF Fresh
  <2> QED BY <1>3, <2>1
<1> QED BY <1>2, <1>4, <1>5 DEF Fresh, Pending

LEMMA WriteEdit ==
    ASSUME TypeOK, EditInv, NEW s \in Sessions, Write(s)
    PROVE  EditInv'
<1>1. ASSUME NEW t \in Testsets, SaveTest(s, t) PROVE EditInv'
  <2>1. req[s] # None /\ Commit(s, None)
    BY <1>1 DEF SaveTest, Pending
  <2> QED BY <1>1, <2>1, SaveTestSound, CommitFresh
<1>2. ASSUME NEW r \in Rows, SaveStep(s, r) PROVE EditInv'
  <2>1. req[s] # None /\ Commit(s, None)
    BY <1>2 DEF SaveStep, Pending
  <2> QED BY <1>2, <2>1, SaveStepSound, CommitFresh
<1>3. ASSUME SavePointer(s) PROVE EditInv'
  <2>1. req[s] # None /\ Commit(s, None)
    BY <1>3 DEF SavePointer, Pending
  <2> QED BY <1>3, <2>1, SavePointerSound, CommitFresh
<1>4. ASSUME Drop(s) PROVE EditInv'
  <2>1. req[s] # None /\ Commit(s, None)
    BY <1>4 DEF Drop, Pending
  <2> QED BY <1>4, <2>1, DropSound, CommitFresh
<1>5. ASSUME SkipStep(s) PROVE EditInv'
  <2>1. /\ UNCHANGED <<reads, raced>> /\ Pending(s, "order") /\ req[s].moves # << >>
        /\ req' = [req EXCEPT ![s].moves = Tail(@)]
        /\ stale' = stale
    BY <1>5 DEF SkipStep, tables, reads
  <2>2. /\ req'[s] = [req[s] EXCEPT !.moves = Tail(req[s].moves)]
        /\ \A o \in Sessions \ {s} : req'[o] = req[o]
    BY <2>1 DEF TypeOK
  <2>3. ASSUME ~raced, s \notin stale' PROVE Fresh(s)'
    <3>1. Fresh(s) /\ UNCHANGED test
      BY <2>1, <2>3 DEF EditInv, Pending, reads
    <3> QED BY <2>1, <2>2, <3>1, MovesStayFresh
  <2> QED BY <2>1, <2>2, <2>3, QuietFresh
<1>6. ASSUME MoveStep(s) PROVE EditInv'
  <2> DEFINE rest == [req[s] EXCEPT !.moves = Tail(req[s].moves)]
  <2>1. Pending(s, "order") /\ req[s].moves # << >> /\ req[s] # None
    BY <1>6 DEF MoveStep, Pending
  <2>2. PICK x \in {None, rest} : Commit(s, x)
    BY <1>6 DEF MoveStep
  <2>3. ASSUME Sound, Fresh(s) PROVE Sound' /\ (x = None \/ Fresh(s)')
    <3>1. UNCHANGED <<collections, home, test, pointer>>
      BY <1>6 DEF MoveStep
    <3>2. Sound'
      BY <2>3, <3>1, OnlyMovesSound
    <3>3. ASSUME x = rest PROVE Fresh(s)'
      <4>1. req'[s] = rest
        BY <2>2, <3>3 DEF Commit, TypeOK
      <4> QED BY <2>1, <2>3, <3>1, <4>1, MovesStayFresh
    <3> QED BY <3>2, <3>3
  <2> QED BY <2>1, <2>2, <2>3, CommitFresh
<1>7. ASSUME SortSteps(s) PROVE EditInv'
  <2>1. req[s] \in [kind : {"order"}, test : Testsets, expected : [Rows -> Nat],
                    moves : Seq(Move), sorting : BOOLEAN]
    BY <1>7, PendingKinds DEF SortSteps, Pending
  <2>2. PICK t \in Testsets : req[s].test = t
    BY <2>1
  <2>3. PICK found \in Listings(t) :
          req' = [req EXCEPT ![s] =
                     IF req[s].sorting \/ found = << >> THEN None
                     ELSE Reorder(t, Expected(found, Places(found), IsOrdered(t)),
                                  Moves(found, Places(found)), TRUE)]
    BY <1>7, <2>2 DEF SortSteps
  <2>4. UNCHANGED <<reads, raced>> /\ stale' = stale
        /\ \A o \in Sessions \ {s} : req'[o] = req[o]
    BY <1>7, <2>3 DEF SortSteps, TypeOK, tables, reads
  <2>5. ASSUME req'[s] # None PROVE Fresh(s)'
    <3>1. /\ req'[s].kind = "order" /\ req'[s].test = t
          /\ req'[s].moves = Moves(found, Places(found))
      BY <2>3, <2>5 DEF TypeOK, Reorder
    <3>2. \A i \in DOMAIN Moves(found, Places(found)) :
             Moves(found, Places(found))[i].row \in StepsOf(t)
      <4>1. \A i \in DOMAIN found : found[i] \in StepsOf(t)
        BY ListingTypes
      <4> QED BY <4>1 DEF Moves
    <3>3. StepsOf(t)' = StepsOf(t)
      BY <2>4 DEF reads, StepsOf
    <3> QED BY <3>1, <3>2, <3>3 DEF Fresh, Pending
  <2> QED BY <2>4, <2>5, QuietFresh
<1>8. ASSUME SortTest(s) PROVE EditInv'
  <2>1. UNCHANGED <<collections, home, test, pointer>> /\ req[s] # None
    BY <1>8 DEF SortTest, Pending
  <2>2. CASE Commit(s, None)
    BY <2>1, <2>2, OnlyMovesSound, CommitFresh
  <2>3. CASE req' = [req EXCEPT ![s] = None] /\ UNCHANGED <<pos, stale, raced, overlaps>>
    <3>1. req'[s] = None /\ \A o \in Sessions \ {s} : req'[o] = req[o]
      BY <2>3 DEF TypeOK
    <3>2. UNCHANGED <<reads, raced>>
      BY <2>1, <2>3 DEF reads
    <3> QED BY <2>3, <3>1, <3>2, QuietFresh
  <2> QED BY <1>8, <2>2, <2>3 DEF SortTest
<1> QED BY <1>1, <1>2, <1>3, <1>4, <1>5, <1>6, <1>7, <1>8 DEF Write

LEMMA StepEdit == TypeOK /\ EditInv /\ [Next]_vars => EditInv'
<1> SUFFICES ASSUME TypeOK, EditInv, [Next]_vars PROVE EditInv'
  OBVIOUS
<1>1. ASSUME UNCHANGED <<reads, raced, req, stale>> PROVE EditInv'
  <2> SUFFICES ASSUME ~raced PROVE EditInv'
    BY <1>1 DEF EditInv
  <2>1. Sound'
    BY <1>1, OnlyMovesSound DEF EditInv, reads
  <2>2. ASSUME NEW o \in Sessions \ stale', req'[o] # None PROVE Fresh(o)'
    BY <1>1, <2>2, SameFresh DEF EditInv
  <2> QED BY <1>1, <2>1, <2>2 DEF EditInv
<1>2. CASE UNCHANGED vars
  BY <1>1, <1>2 DEF vars, tables, reads
<1>3. ASSUME NEW r \in Rows, ArchiveActivity(r) PROVE EditInv'
  BY <1>1, <1>3 DEF ArchiveActivity, reads
<1>4. ASSUME NEW s \in Sessions, req[s] = None, Request(s) PROVE EditInv'
  <2>1. CASE ~DeletesStep(s)
    BY <1>4, <2>1, RequestEdit
  <2>2. ASSUME NEW r \in Rows, DeleteStep(s, r) PROVE EditInv'
    <3>1. Commit(s, None)
      BY <2>2 DEF DeleteStep
    <3> QED BY <2>2, <3>1, DeleteStepSound, CommitFresh
  <2> QED BY <2>1, <2>2 DEF DeletesStep
<1>5. ASSUME NEW s \in Sessions, Write(s) PROVE EditInv'
  BY <1>5, WriteEdit
<1> QED BY <1>2, <1>3, <1>4, <1>5 DEF Next

LEMMA EditsSound == Spec => [](TypeOK /\ EditInv)
<1>1. Init => TypeOK /\ EditInv
  BY InitTypes, InitEdit
<1>2. (TypeOK /\ EditInv) /\ [Next]_vars => (TypeOK /\ EditInv)'
  BY StepTypes, StepEdit
<1> QED BY <1>1, <1>2, PTL DEF Spec

\* Whatever edits come in whatever order, validations over snapshots that are
\* not out of date close no circle of up to three tests.
THEOREM ShortCirclesPrevented == Spec => []NoShortCycle
<1>1. EditInv => NoShortCycle
  BY DEF EditInv, Sound, NoCircle, NoShortCycle
<1> QED BY <1>1, EditsSound, PTL

\* ... and leave no pointer without its test, no step without a test, no test
\* without its collection.
THEOREM PointersKept == Spec => []NothingDangles
<1>1. EditInv => NothingDangles
  BY DEF EditInv, Sound, Anchored, NothingDangles
<1> QED BY <1>1, EditsSound, PTL

-----------------------------------------------------------------------------
(* Listings: sets of steps in the order of their positions. *)

\* q lists S in an order that p allows
Sorts(S, p, q) ==
    /\ q \in [1..Cardinality(S) -> S]
    /\ \A i, j \in 1..Cardinality(S) : i < j => q[i] # q[j] /\ p[q[i]] <= p[q[j]]

\* no two members of S have the same position
Distinct(S, p) == \A x, y \in S : p[x] = p[y] => x = y

\* the members of S have the numbers p from 1 to how many they are
Numbers(S, p) == Distinct(S, p) /\ \A x \in S : p[x] \in 1..Cardinality(S)

\* There always is such an order: take the set without its lowest member first.
LEMMA SortExists ==
    ASSUME NEW S, IsFiniteSet(S), NEW p, \A x \in S : p[x] \in Nat
    PROVE  \E q : Sorts(S, p, q)
<1> DEFINE Bad == {n \in Nat : \E A \in SUBSET S : Cardinality(A) = n /\ ~\E q : Sorts(A, p, q)}
<1> SUFFICES ASSUME ~\E q : Sorts(S, p, q) PROVE FALSE
  OBVIOUS
<1>1. Bad # {}
  <2>1. Cardinality(S) \in Nat
    BY FS_CardinalityType
  <2>2. Cardinality(S) \in Bad
    BY <2>1
  <2> QED BY <2>2
<1>2. PICK n \in Bad : \A m \in Bad : n <= m
  <2>1. Bad \subseteq Nat
    OBVIOUS
  <2> HIDE DEF Bad
  <2> QED BY <1>1, <2>1, LeastNat
<1>3. PICK A \in SUBSET S : Cardinality(A) = n /\ ~\E q : Sorts(A, p, q)
  OBVIOUS
<1>4. IsFiniteSet(A) /\ n \in Nat
  BY FS_Subset
<1>5. A # {}
  <2> SUFFICES ASSUME A = {} PROVE FALSE
    OBVIOUS
  <2>1. n = 0
    BY <1>3, FS_EmptySet
  <2> DEFINE q == [i \in 1..0 |-> 0]
  <2>2. q \in [1..0 -> {}] /\ 1..0 = {}
    OBVIOUS
  <2>3. Sorts(A, p, q)
    BY <1>3, <2>1, <2>2 DEF Sorts
  <2> QED BY <1>3, <2>3
<1>6. PICK x \in A : \A y \in A : p[y] <= p[x]
  <2> DEFINE P == {p[y] : y \in A}
             f == [y \in A |-> p[y]]
  <2>1. f \in Surjection(A, P)
    BY DEF Surjection
  <2>2. IsFiniteSet(P)
    BY <1>4, <2>1, FS_Surjection
  <2>3. P \subseteq Nat /\ P # {}
    BY <1>5
  <2>4. \A y \in A : p[y] \in P
    OBVIOUS
  <2>5. PICK m \in P : \A k \in P : k <= m
    <3> HIDE DEF P
    <3> QED BY <2>2, <2>3, GreatestNat
  <2> QED BY <2>4, <2>5
<1> DEFINE B == A \ {x}
<1>7. IsFiniteSet(B) /\ Cardinality(B) = n - 1 /\ n - 1 \in Nat /\ B \in SUBSET S
  <2>1. IsFiniteSet(B) /\ Cardinality(B) = n - 1
    BY <1>3, <1>4, FS_RemoveElement
  <2> QED BY <2>1, FS_CardinalityType
<1>8. PICK q : Sorts(B, p, q)
  <2> SUFFICES ASSUME ~\E q : Sorts(B, p, q) PROVE FALSE
    OBVIOUS
  <2>1. n - 1 \in Bad
    BY <1>7
  <2> QED BY <1>2, <1>4, <2>1
<1> DEFINE g == [i \in 1..n |-> IF i = n THEN x ELSE q[i]]
<1>9. /\ \A i \in 1..n - 1 : q[i] \in B
      /\ \A i, j \in 1..n - 1 : i < j => q[i] # q[j] /\ p[q[i]] <= p[q[j]]
  BY <1>7, <1>8 DEF Sorts
<1>10. Sorts(A, p, g)
  <2>1. \A i \in 1..n : g[i] \in A
    BY <1>4, <1>9
  <2>2. g \in [1..n -> A]
    BY <2>1
  <2>3. ASSUME NEW i \in 1..n, NEW j \in 1..n, i < j
        PROVE  g[i] # g[j] /\ p[g[i]] <= p[g[j]]
    <3>1. i \in 1..n - 1 /\ g[i] = q[i] /\ q[i] \in B
      BY <1>4, <1>9, <2>3
    <3>2. CASE j = n
      BY <1>6, <3>1, <3>2
    <3>3. CASE j # n
      BY <1>4, <1>9, <2>3, <3>1, <3>3
    <3> QED BY <3>2, <3>3
  <2> HIDE DEF g
  <2> QED BY <1>3, <2>2, <2>3 DEF Sorts
<1> QED BY <1>3, <1>10

\* Such a list has each member once.
LEMMA SortOnto ==
    ASSUME NEW S, IsFiniteSet(S), NEW p, NEW q, Sorts(S, p, q)
    PROVE  /\ Cardinality(S) \in Nat /\ DOMAIN q = 1..Cardinality(S)
           /\ \A i \in 1..Cardinality(S) : q[i] \in S
           /\ \A i, j \in 1..Cardinality(S) : q[i] = q[j] => i = j
           /\ \A x \in S : \E i \in 1..Cardinality(S) : q[i] = x
<1> DEFINE n == Cardinality(S)
<1>1. n \in Nat /\ q \in [1..n -> S]
  BY FS_CardinalityType DEF Sorts
<1>2. \A i, j \in 1..n : q[i] = q[j] => i = j
  BY <1>1 DEF Sorts
<1>3. q \in Injection(1..n, S)
  BY <1>1, <1>2 DEF Injection, IsInjective
<1>4. IsFiniteSet(1..n) /\ Cardinality(1..n) = n
  BY <1>1, FS_Interval
<1>5. q \in Surjection(1..n, S)
  BY <1>3, <1>4, FS_Injection
<1> QED BY <1>1, <1>2, <1>5 DEF Surjection

\* It is the only one when positions differ.
LEMMA SortUnique ==
    ASSUME NEW S, IsFiniteSet(S), NEW p, \A x \in S : p[x] \in Nat, Distinct(S, p),
           NEW q, Sorts(S, p, q), NEW r, Sorts(S, p, r)
    PROVE  q = r
<1> DEFINE n == Cardinality(S)
           Bad == {i \in 1..n : q[i] # r[i]}
<1>1. /\ n \in Nat
      /\ \A i \in 1..n : q[i] \in S /\ r[i] \in S
      /\ \A i, j \in 1..n : q[i] = q[j] => i = j
      /\ \A i, j \in 1..n : r[i] = r[j] => i = j
      /\ \A x \in S : (\E i \in 1..n : q[i] = x) /\ (\E i \in 1..n : r[i] = x)
  BY SortOnto
<1>2. Bad = {}
  <2> SUFFICES ASSUME Bad # {} PROVE FALSE
    OBVIOUS
  <2>1. PICK i \in Bad : \A j \in Bad : i <= j
    <3>1. Bad \subseteq Nat
      BY <1>1
    <3> HIDE DEF Bad
    <3> QED BY <3>1, LeastNat
  <2>2. i \in 1..n /\ q[i] # r[i] /\ \A j \in 1..n : j < i => q[j] = r[j]
    BY <1>1, <2>1
  <2> HIDE DEF Bad, n
  <2>3. PICK k \in 1..n : r[k] = q[i]
    BY <1>1, <2>2
  <2>4. PICK m \in 1..n : q[m] = r[i]
    BY <1>1, <2>2
  <2>5. ~(k < i) /\ ~(m < i) /\ k # i /\ m # i
    BY <1>1, <2>2, <2>3, <2>4
  <2>6. i < k /\ i < m
    BY <1>1, <2>2, <2>3, <2>4, <2>5
  <2>7. p[r[i]] <= p[q[i]] /\ p[q[i]] <= p[r[i]]
    BY <2>2, <2>3, <2>4, <2>6 DEF Sorts, n
  <2>8. p[q[i]] = p[r[i]]
    BY <1>1, <2>2, <2>7
  <2> QED BY <1>1, <2>2, <2>8 DEF Distinct
<1>3. q \in [1..n -> S] /\ r \in [1..n -> S]
  BY DEF Sorts
<1>4. \A i \in 1..n : q[i] = r[i]
  BY <1>2
<1>5. [i \in 1..n |-> q[i]] = [i \in 1..n |-> r[i]]
  BY <1>4
<1>6. q = [i \in 1..n |-> q[i]] /\ r = [i \in 1..n |-> r[i]]
  BY <1>3
<1> HIDE DEF n
<1> QED BY <1>5, <1>6

LEMMA NumbersFill ==
    ASSUME NEW S, IsFiniteSet(S), NEW p, Numbers(S, p)
    PROVE  {p[r] : r \in S} = 1..Cardinality(S)
<1> DEFINE n == Cardinality(S)
           f == [r \in S |-> p[r]]
<1>1. n \in Nat
  BY FS_CardinalityType
<1>2. f \in Injection(S, 1..n)
  BY DEF Numbers, Distinct, Injection, IsInjective
<1>3. IsFiniteSet(1..n) /\ Cardinality(1..n) = n
  BY <1>1, FS_Interval
<1>4. f \in Surjection(S, 1..n)
  <2> HIDE DEF f
  <2> QED BY <1>2, <1>3, FS_Injection
<1>5. {p[r] : r \in S} = 1..n
  BY <1>2, <1>4 DEF Surjection, Numbers
<1> QED BY <1>1, <1>5

\* ... and nothing else fills these numbers.
LEMMA FillNumbers ==
    ASSUME NEW S, IsFiniteSet(S), NEW p, {p[r] : r \in S} = 1..Cardinality(S)
    PROVE  Numbers(S, p)
<1> DEFINE n == Cardinality(S)
           f == [r \in S |-> p[r]]
<1>1. n \in Nat
  BY FS_CardinalityType
<1>2. IsFiniteSet(1..n) /\ Cardinality(1..n) = n
  BY <1>1, FS_Interval
<1>3. \A r \in S : p[r] \in 1..n
  OBVIOUS
<1>4. \A m \in 1..n : \E r \in S : f[r] = m
  OBVIOUS
<1>5. f \in Surjection(S, 1..n)
  <2>1. f \in [S -> 1..n]
    BY <1>3
  <2> HIDE DEF f
  <2> QED BY <1>4, <2>1 DEF Surjection
<1>6. f \in Injection(S, 1..n)
  <2> HIDE DEF f
  <2> QED BY <1>2, <1>5, FS_Surjection
<1>7. \A x, y \in S : f[x] = f[y] => x = y
  <2> HIDE DEF f
  <2> QED BY <1>6 DEF Injection, IsInjective
<1> QED BY <1>3, <1>7 DEF Numbers, Distinct

\* Numbered members are listed by their numbers.
LEMMA SortNumbers ==
    ASSUME NEW S, IsFiniteSet(S), NEW p, Numbers(S, p), NEW q, Sorts(S, p, q)
    PROVE  \A i \in 1..Cardinality(S) : p[q[i]] = i
<1> DEFINE n == Cardinality(S)
           l == [i \in 1..n |-> CHOOSE r \in S : p[r] = i]
<1>1. n \in Nat
  BY FS_CardinalityType
<1>2. ASSUME NEW i \in 1..n PROVE l[i] \in S /\ p[l[i]] = i
  <2>1. i \in {p[r] : r \in S}
    BY NumbersFill
  <2>2. \E r \in S : p[r] = i
    BY <2>1
  <2> QED BY <2>2
<1>3. l \in [1..n -> S]
  BY <1>2
<1> HIDE DEF l
<1>4. ASSUME NEW i \in 1..n, NEW j \in 1..n, i < j PROVE l[i] # l[j] /\ p[l[i]] <= p[l[j]]
  BY <1>1, <1>2, <1>4
<1>5. Sorts(S, p, l)
  BY <1>3, <1>4 DEF Sorts
<1>6. \A x \in S : p[x] \in Nat
  BY <1>1 DEF Numbers
<1>7. q = l
  BY <1>5, <1>6, SortUnique DEF Numbers
<1> QED BY <1>2, <1>7

\* What increases stays ahead of its index.
LEMMA Climbs ==
    ASSUME NEW n \in Nat, NEW f, \A i \in 1..n : f[i] \in Nat,
           \A i, j \in 1..n : i < j => f[i] < f[j]
    PROVE  \A i \in 1..n : f[i] >= i - 1
<1> DEFINE Bad == {i \in 1..n : ~(f[i] >= i - 1)}
<1> SUFFICES ASSUME Bad # {} PROVE FALSE
  OBVIOUS
<1>1. PICK i \in Bad : \A j \in Bad : i <= j
  <2>1. Bad \subseteq Nat
    OBVIOUS
  <2> HIDE DEF Bad
  <2> QED BY <2>1, LeastNat
<1>2. i \in 1..n /\ f[i] \in Nat /\ f[i] < i - 1
  BY <1>1
<1>3. i - 1 \in 1..n /\ i - 1 \notin Bad
  BY <1>1, <1>2
<1>4. f[i - 1] >= i - 2 /\ f[i - 1] < f[i] /\ f[i - 1] \in Nat
  BY <1>2, <1>3
<1> QED BY <1>2, <1>4

\* What a page shows of a test, whatever the positions are.
Listed ==
    \A t \in Testsets :
        /\ IsFiniteSet(StepsOf(t)) /\ Cardinality(StepsOf(t)) \in Nat
        /\ \A r \in StepsOf(t) : r \in Rows /\ pos[r] \in Nat
        /\ \A q : q \in Listings(t) <=> Sorts(StepsOf(t), pos, q)
        /\ Sorts(StepsOf(t), pos, Listing(t))
        /\ IsOrdered(t) <=> Distinct(StepsOf(t), pos)
        /\ IsNumbered(t) <=> Numbers(StepsOf(t), pos)

LEMMA StepsListed == TypeOK => Listed
<1> SUFFICES ASSUME TypeOK, NEW t \in Testsets
             PROVE  /\ IsFiniteSet(StepsOf(t)) /\ Cardinality(StepsOf(t)) \in Nat
                    /\ \A r \in StepsOf(t) : r \in Rows /\ pos[r] \in Nat
                    /\ \A q : q \in Listings(t) <=> Sorts(StepsOf(t), pos, q)
                    /\ Sorts(StepsOf(t), pos, Listing(t))
                    /\ IsOrdered(t) <=> Distinct(StepsOf(t), pos)
                    /\ IsNumbered(t) <=> Numbers(StepsOf(t), pos)
  BY DEF Listed
<1> DEFINE S == StepsOf(t)
           n == Cardinality(S)
<1>1. IsFiniteSet(S) /\ n \in Nat
  BY StepsAreFinite
<1>2. \A r \in S : r \in Rows /\ pos[r] \in Nat
  BY DEF TypeOK, StepsOf
<1>3. ASSUME NEW q \in [1..n -> S]
      PROVE  Shows(q) <=> \A i, j \in 1..n : i < j => q[i] # q[j] /\ pos[q[i]] <= pos[q[j]]
  <2>1. DOMAIN q = 1..n
    OBVIOUS
  <2> HIDE DEF S, n
  <2>2. ASSUME Shows(q), NEW i \in 1..n, NEW j \in 1..n, i < j
        PROVE  q[i] # q[j] /\ pos[q[i]] <= pos[q[j]]
    <3>1. i \in 1..j - 1
      BY <1>1, <2>2
    <3> QED BY <2>1, <2>2, <3>1 DEF Shows
  <2>3. ASSUME \A i, j \in 1..n : i < j => q[i] # q[j] /\ pos[q[i]] <= pos[q[j]]
        PROVE  Shows(q)
    <3> SUFFICES ASSUME NEW j \in 1..n, NEW i \in 1..j - 1
                 PROVE  q[i] # q[j] /\ pos[q[i]] <= pos[q[j]]
      BY <2>1 DEF Shows
    <3>1. i \in 1..n /\ i < j
      BY <1>1
    <3> QED BY <2>3, <3>1
  <2> QED BY <2>2, <2>3
<1>4. ASSUME NEW q PROVE q \in Listings(t) <=> Sorts(S, pos, q)
  BY <1>3 DEF Listings, Sorts
<1>5. \E q \in Listings(t) : TRUE
  BY <1>1, <1>2, <1>4, SortExists
<1>6. Listing(t) \in Listings(t)
  <2>1. \E q \in [1..n -> S] : Shows(q)
    BY <1>5 DEF Listings
  <2>2. Listing(t) = CHOOSE q \in [1..n -> S] : Shows(q)
    BY DEF Listing
  <2>3. (CHOOSE q \in [1..n -> S] : Shows(q)) \in [1..n -> S]
        /\ Shows(CHOOSE q \in [1..n -> S] : Shows(q))
    <3> HIDE DEF S, n
    <3> QED BY <2>1
  <2> QED BY <2>2, <2>3 DEF Listings
<1>7. IsOrdered(t) <=> Distinct(S, pos)
  BY DEF IsOrdered, Distinct
<1>8. IsNumbered(t) <=> Numbers(S, pos)
  BY <1>1, NumbersFill, FillNumbers DEF IsNumbered
<1> QED BY <1>1, <1>2, <1>4, <1>6, <1>7, <1>8

LEMMA StepsListedThen == TypeOK' => Listed'
BY StepsListed, PTL

-----------------------------------------------------------------------------
(* Sorting, move by move. *)

\* The members of S were found at the increasing positions f and listed by q; p
\* holds their positions when the first d are in their places.  A step found at
\* its place or below it goes there without disturbing the others; one found above
\* its place (which a blank makes of the first, and so of those that follow it
\* closely) shifts only what stands in that place, and what that is has its own
\* turn next.
Half(S, p, q, f, d) ==
    /\ q \in [1..Cardinality(S) -> S]
    /\ \A i, j \in 1..Cardinality(S) : q[i] = q[j] => i = j
    /\ \A i \in 1..Cardinality(S) : f[i] \in Nat /\ f[i] >= i - 1
    /\ \A i, j \in 1..Cardinality(S) : i < j => f[i] < f[j]
    /\ d \in 0..Cardinality(S)
    /\ \A i \in 1..d : p[q[i]] = i
    /\ \A i \in d + 1..Cardinality(S) : f[i] >= d + 1 => p[q[i]] = f[i]

LEMMA HalfStarts ==
    ASSUME NEW S, IsFiniteSet(S), NEW p, \A x \in S : p[x] \in Nat, Distinct(S, p),
           NEW q, Sorts(S, p, q)
    PROVE  Half(S, p, q, [i \in 1..Cardinality(S) |-> p[q[i]]], 0)
<1> DEFINE n == Cardinality(S)
           f == [i \in 1..n |-> p[q[i]]]
<1>1. /\ n \in Nat /\ q \in [1..n -> S]
      /\ \A i \in 1..n : q[i] \in S
      /\ \A i, j \in 1..n : q[i] = q[j] => i = j
  <2>1. q \in [1..n -> S]
    BY DEF Sorts
  <2> QED BY <2>1, SortOnto
<1>2. \A i \in 1..n : f[i] = p[q[i]] /\ f[i] \in Nat
  BY <1>1
<1> HIDE DEF f
<1>3. ASSUME NEW i \in 1..n, NEW j \in 1..n, i < j PROVE f[i] < f[j]
  <2>1. p[q[i]] <= p[q[j]] /\ q[i] # q[j]
    BY <1>3 DEF Sorts
  <2>2. p[q[i]] # p[q[j]]
    BY <1>1, <2>1 DEF Distinct
  <2> QED BY <1>2, <2>1, <2>2
<1>4. \A i \in 1..n : f[i] >= i - 1
  BY <1>1, <1>2, <1>3, Climbs
<1> QED BY <1>1, <1>2, <1>3, <1>4 DEF Half, f

\* Where an insertion leaves each step of the test.
LEMMA InsertedAt ==
    ASSUME NEW p, p \in [Rows -> Nat], NEW t \in Testsets, NEW r \in StepsOf(t),
           NEW old \in Nat, NEW new \in Nat, NEW x \in Rows
    PROVE  /\ test[x] # t => Inserted(p, t, r, old, new)[x] = p[x]
           /\ x = r /\ old # new => Inserted(p, t, r, old, new)[x] = new
           /\ x = r /\ p[r] = old => Inserted(p, t, r, old, new)[x] = new
           /\ x # r /\ test[x] = t =>
                Inserted(p, t, r, old, new)[x] =
                    IF old < p[x] /\ p[x] <= new THEN p[x] - 1
                    ELSE IF new <= p[x] /\ p[x] < old THEN p[x] + 1
                    ELSE p[x]
<1>1. r \in Steps /\ r \in Rows /\ test[r] = t /\ p[x] \in Nat
  BY DEF StepsOf, Steps
<1>2. CASE old = new
  <2>1. Inserted(p, t, r, old, new) = p
    BY <1>2 DEF Inserted
  <2> QED BY <1>1, <1>2, <2>1
<1>3. CASE old # new
  <2> DEFINE f == Shifted(p, t, old, new)
  <2>1. /\ f \in [Rows -> Int]
        /\ f[x] = IF test[x] # t THEN p[x]
                  ELSE IF old < p[x] /\ p[x] <= new THEN p[x] - 1
                  ELSE IF new <= p[x] /\ p[x] < old THEN p[x] + 1
                  ELSE p[x]
    BY DEF Shifted
  <2> HIDE DEF f
  <2>2. Inserted(p, t, r, old, new) = [f EXCEPT ![r] = new]
    BY <1>1, <1>3 DEF Inserted, f
  <2> QED BY <1>1, <1>3, <2>1, <2>2
<1> QED BY <1>2, <1>3

LEMMA HalfMoves ==
    ASSUME NEW t \in Testsets, NEW p, p \in [Rows -> Nat], IsFiniteSet(StepsOf(t)),
           NEW q, NEW f, NEW d, Half(StepsOf(t), p, q, f, d), d < Cardinality(StepsOf(t))
    PROVE  Half(StepsOf(t), Inserted(p, t, q[d + 1], f[d + 1], d + 1), q, f, d + 1)
<1> DEFINE S == StepsOf(t)
           n == Cardinality(S)
           r == q[d + 1]
           old == f[d + 1]
           g == Inserted(p, t, r, old, d + 1)
<1>1. n \in Nat /\ \A x \in S : x \in Rows /\ test[x] = t
  BY FS_CardinalityType DEF StepsOf
<1> HIDE DEF S, n
<1>2. /\ q \in [1..n -> S]
      /\ \A i, j \in 1..n : q[i] = q[j] => i = j
      /\ \A i \in 1..n : f[i] \in Nat /\ f[i] >= i - 1
      /\ \A i, j \in 1..n : i < j => f[i] < f[j]
      /\ d \in 0..n /\ d < n
      /\ \A i \in 1..d : p[q[i]] = i
      /\ \A i \in d + 1..n : f[i] >= d + 1 => p[q[i]] = f[i]
  BY DEF Half, S, n
<1>3. /\ d \in Nat /\ d + 1 \in 1..n /\ r \in S /\ old \in Nat /\ old >= d
      /\ old >= d + 1 => p[r] = old
  BY <1>1, <1>2
<1> HIDE DEF r, old, g
<1>4. g[r] = d + 1
  <2>1. r \in Rows /\ r \in StepsOf(t) /\ d + 1 \in Nat
    BY <1>1, <1>3 DEF S
  <2>2. old # d + 1 => g[r] = d + 1
    BY <1>3, <2>1, InsertedAt DEF g
  <2>3. p[r] = old => g[r] = d + 1
    BY <1>3, <2>1, InsertedAt DEF g
  <2> QED BY <1>3, <2>2, <2>3
<1>5. ASSUME NEW x \in S, x # r
      PROVE  g[x] = IF old < p[x] /\ p[x] <= d + 1 THEN p[x] - 1
                    ELSE IF d + 1 <= p[x] /\ p[x] < old THEN p[x] + 1
                    ELSE p[x]
  <2>1. x \in Rows /\ test[x] = t /\ r \in StepsOf(t) /\ d + 1 \in Nat
    BY <1>1, <1>3 DEF S
  <2> QED BY <1>3, <1>5, <2>1, InsertedAt DEF g
<1>6. ASSUME NEW i \in 1..d + 1 PROVE g[q[i]] = i
  <2>1. CASE i = d + 1
    BY <1>4, <2>1 DEF r
  <2>2. CASE i # d + 1
    <3>1. i \in 1..d /\ i \in 1..n /\ i # d + 1
      BY <1>1, <1>3, <2>2
    <3>2. q[i] \in S /\ p[q[i]] = i
      BY <1>2, <3>1
    <3>3. q[i] # q[d + 1]
      BY <1>2, <1>3, <3>1
    <3> QED BY <1>3, <1>5, <3>1, <3>2, <3>3 DEF r
  <2> QED BY <2>1, <2>2
<1>7. ASSUME NEW i \in d + 2..n, f[i] >= d + 2 PROVE g[q[i]] = f[i]
  <2>1. i \in 1..n /\ d + 1 < i /\ i \in d + 1..n /\ f[i] \in Nat
    BY <1>2, <1>3, <1>7
  <2>2. q[i] \in S /\ q[i] # r /\ p[q[i]] = f[i]
    BY <1>2, <1>3, <1>7, <2>1 DEF r
  <2>3. old < f[i]
    BY <1>2, <1>3, <2>1 DEF old
  <2> QED BY <1>3, <1>5, <1>7, <2>1, <2>2, <2>3
<1>8. d + 1 \in 0..n /\ d + 1 + 1 = d + 2
  BY <1>2, <1>3
<1>9. Half(S, g, q, f, d + 1)
  BY <1>2, <1>6, <1>7, <1>8 DEF Half, n
<1> QED BY <1>9 DEF S, g, r, old

\* When no step is left above its place, no two steps share a position ...
LEMMA HalfDistinct ==
    ASSUME NEW S, IsFiniteSet(S), NEW p, NEW q, NEW f, NEW d, Half(S, p, q, f, d),
           \A i \in d + 1..Cardinality(S) : f[i] >= i
    PROVE  Distinct(S, p)
<1> DEFINE n == Cardinality(S)
<1>1. n \in Nat
  BY FS_CardinalityType
<1>2. \A x \in S : \E i \in 1..n : q[i] = x
  <2>1. q \in Injection(1..n, S)
    BY DEF Half, Injection, IsInjective
  <2>2. IsFiniteSet(1..n) /\ Cardinality(1..n) = n
    BY <1>1, FS_Interval
  <2>3. q \in Surjection(1..n, S)
    BY <2>1, <2>2, FS_Injection
  <2> QED BY <2>3 DEF Surjection
<1>3. ASSUME NEW i \in 1..n
      PROVE  p[q[i]] = IF i <= d THEN i ELSE f[i]
  <2>1. CASE i <= d
    <3>1. i \in 1..d
      BY <2>1 DEF Half
    <3> QED BY <2>1, <3>1 DEF Half
  <2>2. CASE ~(i <= d)
    <3>1. d \in 0..n
      BY DEF Half
    <3>2. i \in d + 1..n /\ f[i] >= i /\ f[i] \in Nat
      BY <1>1, <2>2, <3>1 DEF Half
    <3>3. f[i] >= d + 1
      BY <3>1, <3>2
    <3> QED BY <2>2, <3>2, <3>3 DEF Half
  <2> QED BY <2>1, <2>2
<1>4. ASSUME NEW i \in 1..n, NEW j \in 1..n, i < j PROVE p[q[i]] # p[q[j]]
  <2>1. d \in 0..n /\ f[i] \in Nat /\ f[j] \in Nat /\ f[i] < f[j]
    BY <1>4 DEF Half
  <2>2. ~(j <= d) => f[j] >= j
    BY <1>1, <2>1
  <2> QED BY <1>1, <1>3, <1>4, <2>1, <2>2
<1>5. \A i, j \in 1..n : i # j => p[q[i]] # p[q[j]]
  BY <1>1, <1>4
<1> QED BY <1>2, <1>5 DEF Distinct

\* ... and when each is in its place, they are numbered.
LEMMA HalfNumbers ==
    ASSUME NEW S, IsFiniteSet(S), NEW p, NEW q, NEW f, NEW d, Half(S, p, q, f, d),
           \A i \in d + 1..Cardinality(S) : f[i] = i
    PROVE  /\ Numbers(S, p)
           /\ \A i \in 1..Cardinality(S) : p[q[i]] = i
<1> DEFINE n == Cardinality(S)
<1>1. n \in Nat
  BY FS_CardinalityType
<1>2. ASSUME NEW i \in d + 1..n PROVE f[i] >= i
  BY <1>1 DEF Half
<1>3. Distinct(S, p)
  BY <1>2, HalfDistinct
<1>4. ASSUME NEW i \in 1..n PROVE p[q[i]] = i
  <2>1. CASE i \in 1..d
    BY <2>1 DEF Half
  <2>2. CASE i \notin 1..d
    <3>1. i \in d + 1..n /\ f[i] = i /\ i >= d + 1
      BY <1>1, <2>2 DEF Half
    <3> QED BY <3>1 DEF Half
  <2> QED BY <2>1, <2>2
<1>5. ASSUME NEW x \in S PROVE p[x] \in 1..n
  <2>1. q \in Injection(1..n, S)
    BY DEF Half, Injection, IsInjective
  <2>2. IsFiniteSet(1..n) /\ Cardinality(1..n) = n
    BY <1>1, FS_Interval
  <2>3. q \in Surjection(1..n, S)
    BY <2>1, <2>2, FS_Injection
  <2>4. PICK i \in 1..n : q[i] = x
    BY <2>3 DEF Surjection
  <2> QED BY <1>4, <2>4
<1> QED BY <1>3, <1>4, <1>5 DEF Numbers

-----------------------------------------------------------------------------
(* Numbers: what an edit of a test does to the positions of its steps. *)

\* A move of a step from where it is puts no two steps in one place.
LEMMA InsertedDistinct ==
    ASSUME NEW p, p \in [Rows -> Nat], NEW t \in Testsets, NEW r \in StepsOf(t), NEW new \in Nat,
           Distinct(StepsOf(t), p)
    PROVE  Distinct(StepsOf(t), Inserted(p, t, r, p[r], new))
<1> DEFINE g == Inserted(p, t, r, p[r], new)
<1>1. r \in Rows /\ p[r] \in Nat /\ \A x \in StepsOf(t) : x \in Rows /\ test[x] = t /\ p[x] \in Nat
  BY DEF StepsOf
<1>2. g[r] = new
  BY <1>1, InsertedAt
<1>3. ASSUME NEW x \in StepsOf(t), x # r
      PROVE  g[x] = IF p[r] < p[x] /\ p[x] <= new THEN p[x] - 1
                    ELSE IF new <= p[x] /\ p[x] < p[r] THEN p[x] + 1
                    ELSE p[x]
  BY <1>1, <1>3, InsertedAt
<1> HIDE DEF g
<1>4. ASSUME NEW x \in StepsOf(t), x # r PROVE g[x] # g[r]
  <2>1. p[x] # p[r]
    BY <1>4 DEF Distinct
  <2> QED BY <1>1, <1>2, <1>3, <1>4, <2>1
<1>5. ASSUME NEW x \in StepsOf(t), NEW y \in StepsOf(t), x # r, y # r, x # y PROVE g[x] # g[y]
  <2>1. p[x] # p[y] /\ p[x] # p[r] /\ p[y] # p[r]
    BY <1>5 DEF Distinct
  <2> QED BY <1>1, <1>3, <1>5, <2>1
<1>6. Distinct(StepsOf(t), g)
  BY <1>4, <1>5 DEF Distinct
<1> QED BY <1>6 DEF g

\* A member below all others.
LEMMA AppendedDistinct ==
    ASSUME NEW S, IsFiniteSet(S), NEW p, \A x \in S : p[x] \in Nat, NEW r, r \notin S,
           NEW g, NEW b \in Nat, \A x \in S : p[x] <= b /\ g[x] = p[x], g[r] = b + 1,
           b = 0 \/ \E x \in S : p[x] = b
    PROVE  /\ Distinct(S, p) => Distinct(S \cup {r}, g)
           /\ Numbers(S, p) => Numbers(S \cup {r}, g)
<1>1. Distinct(S, p) => Distinct(S \cup {r}, g)
  BY DEF Distinct
<1>2. ASSUME Numbers(S, p) PROVE Numbers(S \cup {r}, g)
  <2> DEFINE n == Cardinality(S)
  <2>1. n \in Nat /\ Cardinality(S \cup {r}) = n + 1
    BY FS_CardinalityType, FS_AddElement
  <2>2. b <= n
    BY <1>2, <2>1 DEF Numbers
  <2>3. b = n
    <3> SUFFICES ASSUME b < n PROVE FALSE
      BY <2>1, <2>2
    <3>1. n \in {p[x] : x \in S}
      BY <1>2, <2>1, NumbersFill
    <3>2. PICK x \in S : p[x] = n
      BY <3>1
    <3> QED BY <2>1, <3>2
  <2>4. \A x \in S \cup {r} : g[x] \in 1..n + 1
    BY <1>2, <2>1, <2>3 DEF Numbers
  <2> QED BY <1>1, <1>2, <2>1, <2>4 DEF Numbers
<1> QED BY <1>1, <1>2

\* A member taken out, those below it moved up.
LEMMA RemovedDistinct ==
    ASSUME NEW S, IsFiniteSet(S), NEW p, \A x \in S : p[x] \in Nat, NEW r \in S, NEW g,
           \A x \in S \ {r} : g[x] = IF p[x] > p[r] THEN p[x] - 1 ELSE p[x]
    PROVE  /\ Distinct(S, p) => Distinct(S \ {r}, g)
           /\ Numbers(S, p) => Numbers(S \ {r}, g)
<1>1. ASSUME Distinct(S, p) PROVE Distinct(S \ {r}, g)
  <2> SUFFICES ASSUME NEW x \in S \ {r}, NEW y \in S \ {r}, x # y PROVE g[x] # g[y]
    BY DEF Distinct
  <2>1. p[x] # p[y] /\ p[x] # p[r] /\ p[y] # p[r]
    BY <1>1 DEF Distinct
  <2> QED BY <2>1
<1>2. ASSUME Numbers(S, p) PROVE Numbers(S \ {r}, g)
  <2> DEFINE n == Cardinality(S)
  <2>1. n \in Nat /\ Cardinality(S \ {r}) = n - 1
    BY FS_CardinalityType, FS_RemoveElement
  <2>2. ASSUME NEW x \in S \ {r} PROVE g[x] \in 1..n - 1
    <3>1. p[x] \in 1..n /\ p[r] \in 1..n /\ p[x] # p[r]
      BY <1>2 DEF Numbers, Distinct
    <3> QED BY <2>1, <3>1
  <2>3. Distinct(S \ {r}, g)
    BY <1>1, <1>2 DEF Numbers
  <2> QED BY <2>1, <2>2, <2>3 DEF Numbers
<1> QED BY <1>1, <1>2

LEMMA SameDistinct ==
    ASSUME NEW S, NEW p, NEW g, \A x \in S : g[x] = p[x]
    PROVE  /\ Distinct(S, p) <=> Distinct(S, g)
           /\ Numbers(S, p) <=> Numbers(S, g)
BY DEF Distinct, Numbers

\* One listing sorted from start to end, of a test whose steps had a position each.
LEMMA SortedHalf ==
    ASSUME TypeOK, NEW t \in Testsets, IsOrdered(t), NEW q \in Listings(t), NEW p,
           Chain(p, t, Moves(q, Places(q)))
    PROVE  \A n \in 0..Cardinality(StepsOf(t)) :
              /\ Fits(p[n])
              /\ Half(StepsOf(t), p[n], q, [i \in 1..Cardinality(StepsOf(t)) |-> pos[q[i]]], n)
<1> DEFINE S == StepsOf(t)
           N == Cardinality(S)
           f == [i \in 1..N |-> pos[q[i]]]
           moves == Moves(q, Places(q))
           Good(n) == Fits(p[n]) /\ Half(S, p[n], q, f, n)
           Bad == {n \in 0..N : ~Good(n)}
<1>1. /\ IsFiniteSet(S) /\ N \in Nat /\ Distinct(S, pos) /\ Sorts(S, pos, q)
      /\ \A r \in S : r \in Rows /\ pos[r] \in Nat
  BY StepsListed DEF Listed
<1>2. /\ moves \in Seq(Move) /\ Len(moves) = N
      /\ \A i \in 1..N : moves[i] = [row |-> q[i], from |-> pos[q[i]], to |-> i]
  BY PlacesTypes
<1>3. /\ p[0] = pos
      /\ \A n \in 1..N :
            p[n] = Inserted(p[n - 1], t, moves[n].row, moves[n].from, moves[n].to)
  BY <1>2 DEF Chain
<1> HIDE DEF moves
<1>4. Good(0)
  <2>1. Fits(pos)
    BY DEF TypeOK, Fits
  <2>2. Half(S, pos, q, f, 0)
    BY <1>1, HalfStarts
  <2> QED BY <1>3, <2>1, <2>2
<1>5. ASSUME NEW n \in 1..N, Good(n - 1) PROVE Good(n)
  <2>1. p[n] = Inserted(p[n - 1], t, q[n], f[n], n)
    BY <1>2, <1>3
  <2>2. n - 1 \in Nat /\ n - 1 < N /\ n - 1 + 1 = n /\ f[n] \in Nat /\ n \in Nat
    <3>1. q[n] \in S
      BY <1>1, SortOnto
    <3> QED BY <1>1, <3>1
  <2> HIDE DEF f
  <2>3. Fits(p[n])
    BY <1>5, <2>1, <2>2, InsertedTypes
  <2>4. p[n - 1] \in [Rows -> Nat]
    BY <1>5 DEF Fits
  <2>5. Half(S, Inserted(p[n - 1], t, q[n - 1 + 1], f[n - 1 + 1], n - 1 + 1), q, f, n - 1 + 1)
    <3> HIDE DEF N
    <3>1. Half(S, p[n - 1], q, f, n - 1) /\ n - 1 < Cardinality(S)
      BY <1>5, <2>2 DEF N
    <3> QED BY <1>1, <2>4, <3>1, HalfMoves
  <2> QED BY <2>1, <2>2, <2>3, <2>5
<1> HIDE DEF Good
<1>6. Bad = {}
  <2> SUFFICES ASSUME Bad # {} PROVE FALSE
    OBVIOUS
  <2>1. PICK n \in Bad : \A m \in Bad : n <= m
    <3>1. Bad \subseteq Nat
      BY <1>1
    <3> HIDE DEF Bad
    <3> QED BY <3>1, LeastNat
  <2>2. n # 0
    BY <1>4, <2>1
  <2>3. n \in 1..N /\ n - 1 \in 0..N /\ n - 1 \notin Bad
    BY <1>1, <2>1, <2>2
  <2> QED BY <1>5, <2>1, <2>3
<1> QED BY <1>6 DEF Good

-----------------------------------------------------------------------------
(* Order. *)

\* s has not finished ordering the steps of t ...
Unfinished(s, t) ==
    /\ Reordering(s, t)
    /\ req[s].sorting => \E i \in DOMAIN req[s].moves : req[s].moves[i].from # req[s].moves[i].to

\* ... and may have put two of them in one place
Unfolds(s, t) ==
    /\ Reordering(s, t) /\ req[s].sorting
    /\ \E i \in DOMAIN req[s].moves : req[s].moves[i].from < req[s].moves[i].to

\* d of the steps of t, found at f and listed by q, are sorted: moves will sort
\* the others, and then each is where it is expected
SortsFrom(t, q, f, d, expected, moves) ==
    /\ Half(StepsOf(t), pos, q, f, d)
    /\ moves \in Seq(Move) /\ Len(moves) = Cardinality(StepsOf(t)) - d
    /\ \A i \in 1..Cardinality(StepsOf(t)) - d :
          moves[i] = [row |-> q[d + i], from |-> f[d + i], to |-> d + i]
    /\ \A i \in 1..Cardinality(StepsOf(t)) : expected[q[i]] = i

\* the sort that s makes goes as it should, or nothing is expected of it
Sorting(s, t) ==
    \/ \E q, f, d : SortsFrom(t, q, f, d, req[s].expected, req[s].moves)
    \/ /\ \A r \in StepsOf(t) : req[s].expected[r] = 0
       /\ t \in halted \/ \E o \in Sessions \ {s} : Unfolds(o, t)

\* Inductive: a sort knows only where it found the steps, and Half is what makes
\* that enough.
OrderInv ==
    ~raced =>
        /\ \A t \in Testsets \ halted :
              /\ IsNumbered(t) \/ \E s \in Sessions : Unfinished(s, t)
              /\ IsOrdered(t) \/ \E s \in Sessions : Unfolds(s, t)
        /\ \A s \in Sessions \ stale, t \in Testsets :
              Reordering(s, t) /\ req[s].sorting => Sorting(s, t)

\* a step of s leaves t as orderly as it was, or as s is about to make it
KeepsOrder(s, t) ==
    /\ IsNumbered(t) \/ Unfinished(s, t) => IsNumbered(t)' \/ Unfinished(s, t)'
    /\ IsOrdered(t) \/ Unfolds(s, t) => IsOrdered(t)' \/ Unfolds(s, t)'

LEMMA InitOrder == Init => OrderInv
<1> SUFFICES ASSUME Init PROVE OrderInv
  OBVIOUS
<1>1. TypeOK /\ Listed
  BY InitTypes, StepsListed
<1>2. ASSUME NEW t \in Testsets PROVE IsNumbered(t) /\ IsOrdered(t)
  <2>1. StepsOf(t) = {}
    BY NoneAssumption DEF Init, StepsOf
  <2>2. Numbers(StepsOf(t), pos) /\ Distinct(StepsOf(t), pos)
    BY <2>1 DEF Numbers, Distinct
  <2> QED BY <1>1, <2>2 DEF Listed
<1>3. \A s \in Sessions, t \in Testsets : ~Reordering(s, t)
  BY DEF Init, Reordering, Pending
<1> QED BY <1>2, <1>3 DEF OrderInv

\* What only depends on the request of a session stays as long as that does.
LEMMA SameRequest ==
    ASSUME NEW o, NEW t, req'[o] = req[o]
    PROVE  /\ Reordering(o, t)' <=> Reordering(o, t)
           /\ Unfinished(o, t)' <=> Unfinished(o, t)
           /\ Unfolds(o, t)' <=> Unfolds(o, t)
BY DEF Reordering, Pending, Unfinished, Unfolds

\* The order of a test that a step of s leaves alone, or that others unfold.
LEMMA OthersOrder ==
    ASSUME TypeOK, OrderInv, ~raced, NEW s \in Sessions, NEW t \in Testsets \ halted,
           \A o \in Sessions \ {s} : req'[o] = req[o],
           KeepsOrder(s, t) \/ \E o \in Sessions \ {s} : Unfolds(o, t)
    PROVE  /\ IsNumbered(t)' \/ \E o \in Sessions : Unfinished(o, t)'
           /\ IsOrdered(t)' \/ \E o \in Sessions : Unfolds(o, t)'
<1>1. CASE \E o \in Sessions \ {s} : Unfolds(o, t)
  <2>1. PICK o \in Sessions \ {s} : Unfolds(o, t)
    BY <1>1
  <2>2. Unfolds(o, t)'
    BY <2>1, SameRequest
  <2>3. Unfinished(o, t)
    <3>1. PICK i \in DOMAIN req[o].moves : req[o].moves[i].from < req[o].moves[i].to
      BY <2>1 DEF Unfolds
    <3>2. req[o].moves \in Seq(Move)
      BY <2>1, PendingKinds DEF Unfolds, Reordering, Pending
    <3>3. req[o].moves[i] \in Move
      BY <3>2, LenProperties, ElementOfSeq
    <3>4. req[o].moves[i].from # req[o].moves[i].to
      BY <3>1, <3>3 DEF Move
    <3> QED BY <2>1, <3>4 DEF Unfolds, Unfinished
  <2> QED BY <2>1, <2>2, <2>3, SameRequest
<1>2. CASE KeepsOrder(s, t)
  <2>1. /\ IsNumbered(t) \/ \E o \in Sessions : Unfinished(o, t)
        /\ IsOrdered(t) \/ \E o \in Sessions : Unfolds(o, t)
    BY DEF OrderInv
  <2>2. \A o \in Sessions \ {s} :
           (Unfinished(o, t) => Unfinished(o, t)') /\ (Unfolds(o, t) => Unfolds(o, t)')
    BY SameRequest
  <2> QED BY <1>2, <2>1, <2>2 DEF KeepsOrder
<1> QED BY <1>1, <1>2

\* After a commit only its own session still sorts what it has found.
LEMMA CommitOrder ==
    ASSUME TypeOK, OrderInv, ~raced', NEW s \in Sessions, NEW rest, Commit(s, rest),
           halted \subseteq halted',
           \A t \in Testsets \ halted' :
              KeepsOrder(s, t) \/ \E o \in Sessions \ {s} : Unfolds(o, t),
           \A t \in Testsets : Reordering(s, t)' /\ req'[s].sorting => Sorting(s, t)'
    PROVE  OrderInv'
<1>1. ~raced /\ \A o \in Sessions \ {s} : req'[o] = req[o]
  BY DEF Commit, TypeOK
<1>2. ASSUME NEW t \in Testsets \ halted'
      PROVE  /\ IsNumbered(t)' \/ \E o \in Sessions : Unfinished(o, t)'
             /\ IsOrdered(t)' \/ \E o \in Sessions : Unfolds(o, t)'
  BY <1>1, OthersOrder
<1>3. ASSUME NEW o \in Sessions \ stale', NEW t \in Testsets, Reordering(o, t)', req'[o].sorting
      PROVE  Sorting(o, t)'
  <2>1. o = s \/ req[o] = None
    BY DEF Commit
  <2>2. req'[o] # None
    BY <1>3 DEF Reordering, Pending
  <2>3. o = s
    BY <1>1, <2>1, <2>2
  <2> QED BY <1>3, <2>3
<1> QED BY <1>2, <1>3 DEF OrderInv

\* A step of s that writes nothing.
LEMMA QuietOrder ==
    ASSUME TypeOK, OrderInv, ~raced, NEW s \in Sessions, UNCHANGED <<test, pos, raced, halted>>,
           \A o \in Sessions \ {s} : req'[o] = req[o] /\ (o \in stale => o \in stale'),
           \A t \in Testsets \ halted : Unfinished(s, t) => IsNumbered(t) \/ Unfinished(s, t)',
           \A t \in Testsets : Unfolds(s, t) => Unfolds(s, t)',
           \A t \in Testsets :
              s \notin stale' /\ Reordering(s, t)' /\ req'[s].sorting => Sorting(s, t)'
    PROVE  OrderInv'
<1>1. \A t : StepsOf(t)' = StepsOf(t)
  BY DEF StepsOf
<1>2. \A t : (IsNumbered(t)' <=> IsNumbered(t)) /\ (IsOrdered(t)' <=> IsOrdered(t))
  BY <1>1 DEF IsNumbered, IsOrdered
<1>3. ASSUME NEW t \in Testsets \ halted
      PROVE  /\ IsNumbered(t)' \/ \E o \in Sessions : Unfinished(o, t)'
             /\ IsOrdered(t)' \/ \E o \in Sessions : Unfolds(o, t)'
  <2>1. KeepsOrder(s, t)
    BY <1>2 DEF KeepsOrder
  <2> QED BY <2>1, OthersOrder
<1>4. ASSUME NEW o \in Sessions \ stale', NEW t \in Testsets, o # s,
             Reordering(o, t)', req'[o].sorting
      PROVE  Sorting(o, t)'
  <2>1. req'[o] = req[o] /\ o \in Sessions \ stale /\ Reordering(o, t)
    BY <1>4, SameRequest
  <2>2. Sorting(o, t)
    BY <1>4, <2>1 DEF OrderInv
  <2>3. \A x \in Sessions : Unfolds(x, t) => Unfolds(x, t)'
    BY SameRequest
  <2>4. ASSUME NEW q, NEW f, NEW d, SortsFrom(t, q, f, d, req[o].expected, req[o].moves)
        PROVE  SortsFrom(t, q, f, d, req[o].expected, req[o].moves)'
    BY <1>1, <2>1, <2>4 DEF SortsFrom
  <2> QED BY <1>1, <2>1, <2>2, <2>3, <2>4 DEF Sorting
<1> QED BY <1>3, <1>4 DEF OrderInv

\* Requests begin without having sorted anything.
LEMMA BeginOrder ==
    ASSUME TypeOK, OrderInv, NEW s \in Sessions, req[s] = None, NEW r, Begin(s, r),
           r.kind = "order" => ~r.sorting
    PROVE  OrderInv'
<1> SUFFICES ASSUME ~raced PROVE OrderInv'
  BY DEF OrderInv, Begin
<1>1. /\ UNCHANGED <<test, pos, raced, halted>>
      /\ req'[s] = r
      /\ \A o \in Sessions \ {s} : req'[o] = req[o] /\ (o \in stale => o \in stale')
  BY DEF Begin, tables, TypeOK
<1>2. \A t \in Testsets : ~Unfinished(s, t) /\ ~Unfolds(s, t)
  BY DEF Unfinished, Unfolds, Reordering, Pending
<1>3. \A t \in Testsets : ~(Reordering(s, t)' /\ req'[s].sorting)
  BY <1>1 DEF Reordering, Pending
<1> QED BY <1>1, <1>2, <1>3, QuietOrder

\* A deleted step makes room for none.
LEMMA DeleteStepOrder ==
    ASSUME TypeOK, TypeOK', OrderInv, ~raced', NEW s \in Sessions, req[s] = None,
           NEW r \in Rows, DeleteStep(s, r)
    PROVE  OrderInv'
<1>1. PICK u \in Testsets : test[r] = u
  BY DEF DeleteStep, Steps
<1>2. /\ r \in StepsOf(u) /\ r \in Rows
      /\ test' = [test EXCEPT ![r] = Gone]
      /\ pos' = [x \in Rows |-> IF x = r THEN 0
                                ELSE IF test[x] = u /\ pos[x] > pos[r] THEN pos[x] - 1
                                ELSE pos[x]]
      /\ Commit(s, None) /\ halted' = halted
  BY <1>1 DEF DeleteStep, StepsOf
<1>3. Listed /\ Listed'
  BY StepsListed, StepsListedThen
<1>4. ASSUME NEW t \in Testsets PROVE KeepsOrder(s, t)
  <2>1. ~Unfinished(s, t) /\ ~Unfolds(s, t)
    BY DEF Unfinished, Unfolds, Reordering, Pending
  <2>2. CASE t = u
    <3>1. StepsOf(t)' = StepsOf(t) \ {r}
      BY <1>2, <2>2, NoneAssumption DEF StepsOf, TypeOK
    <3>2. \A x \in StepsOf(t) \ {r} :
             pos'[x] = IF pos[x] > pos[r] THEN pos[x] - 1 ELSE pos[x]
      BY <1>2, <2>2 DEF StepsOf
    <3>3. /\ Distinct(StepsOf(t), pos) => Distinct(StepsOf(t) \ {r}, pos')
          /\ Numbers(StepsOf(t), pos) => Numbers(StepsOf(t) \ {r}, pos')
      BY <1>2, <1>3, <2>2, <3>2, RemovedDistinct DEF Listed
    <3> QED BY <1>3, <2>1, <3>1, <3>3 DEF Listed, KeepsOrder
  <2>3. CASE t # u
    <3>1. StepsOf(t)' = StepsOf(t)
      BY <1>1, <1>2, <2>3, NoneAssumption DEF StepsOf, TypeOK
    <3>2. \A x \in StepsOf(t) : pos'[x] = pos[x]
      BY <1>1, <1>2, <2>3 DEF StepsOf
    <3>3. /\ Distinct(StepsOf(t), pos) <=> Distinct(StepsOf(t), pos')
          /\ Numbers(StepsOf(t), pos) <=> Numbers(StepsOf(t), pos')
      BY <3>2, SameDistinct
    <3> QED BY <1>3, <2>1, <3>1, <3>3 DEF Listed, KeepsOrder
  <2> QED BY <2>2, <2>3
<1>5. \A t \in Testsets : ~Reordering(s, t)'
  BY <1>2 DEF Commit, TypeOK, Reordering, Pending
<1> QED BY <1>2, <1>4, <1>5, CommitOrder

LEMMA RequestOrder ==
    ASSUME TypeOK, TypeOK', OrderInv, NEW s \in Sessions, req[s] = None, Request(s)
    PROVE  OrderInv'
<1>1. ASSUME NEW c \in Collections, NewTest(s, c) PROVE OrderInv'
  BY <1>1, BeginOrder DEF NewTest
<1>2. ASSUME NEW c \in Collections, DropCollection(s, c) PROVE OrderInv'
  <2> DEFINE r(C, T, R) == [kind |-> "drop", collections |-> C, tests |-> T, rows |-> R]
  <2>1. \E C, T, R : Begin(s, r(C, T, R))
    BY <1>2 DEF DropCollection
  <2>2. PICK C, T, R : Begin(s, r(C, T, R))
    BY <2>1
  <2>3. r(C, T, R).kind # "order"
    OBVIOUS
  <2> HIDE DEF r
  <2> QED BY <2>2, <2>3, BeginOrder
<1>3. ASSUME NEW t \in Testsets, DropTest(s, t) PROVE OrderInv'
  BY <1>3, BeginOrder DEF DropTest
<1>4. ASSUME NEW t \in Testsets, RenameTest(s, t) PROVE OrderInv'
  <2>1. PICK found \in Listings(t) :
          Begin(s, [kind |-> "sort", test |-> t, moves |-> Moves(found, Places(found))])
    BY <1>4 DEF RenameTest
  <2> QED BY <2>1, BeginOrder
<1>5. ASSUME NEW t \in Testsets, NEW p \in Testsets \cup {None}, NewStep(s, t, p)
      PROVE  OrderInv'
  BY <1>5, BeginOrder DEF NewStep
<1>6. ASSUME NEW t \in Testsets, NEW numbers \in Typed, ChangeOrder(s, t, numbers)
      PROVE  OrderInv'
  <2>1. PICK q \in Listings(t) :
          Begin(s, Reorder(t, Expected(q, numbers, Rearranges(t, numbers)),
                           Moves(q, numbers), FALSE))
    BY <1>6 DEF ChangeOrder
  <2> DEFINE r == Reorder(t, Expected(q, numbers, Rearranges(t, numbers)),
                          Moves(q, numbers), FALSE)
  <2>2. ~r.sorting
    BY DEF Reorder
  <2> HIDE DEF r
  <2>3. Begin(s, r)
    BY <2>1 DEF r
  <2> QED BY <2>2, <2>3, BeginOrder
<1>7. ASSUME NEW r \in Rows, DeleteStep(s, r) PROVE OrderInv'
  <2>1. CASE raced'
    BY <2>1 DEF OrderInv
  <2> QED BY <1>7, <2>1, DeleteStepOrder
<1>8. ASSUME NEW r \in Rows, NEW p \in Testsets \cup {None}, Repoint(s, r, p) PROVE OrderInv'
  BY <1>8, BeginOrder DEF Repoint
<1> QED BY <1>1, <1>2, <1>3, <1>4, <1>5, <1>6, <1>7, <1>8 DEF Request

\* A sort starts: if no two steps were in one place, it will do what it should.
LEMMA SortsStart ==
    ASSUME TypeOK, NEW t \in Testsets, IsOrdered(t), NEW q \in Listings(t), NEW e, NEW m,
           e = Expected(q, Places(q), TRUE), m = Moves(q, Places(q))
    PROVE  SortsFrom(t, q, [i \in 1..Cardinality(StepsOf(t)) |-> pos[q[i]]], 0, e, m)
<1> DEFINE S == StepsOf(t)
           n == Cardinality(S)
           f == [i \in 1..n |-> pos[q[i]]]
<1>1. /\ IsFiniteSet(S) /\ n \in Nat /\ Distinct(S, pos) /\ Sorts(S, pos, q)
      /\ \A r \in S : r \in Rows /\ pos[r] \in Nat
  BY StepsListed DEF Listed
<1>2. /\ m \in Seq(Move) /\ Len(m) = n
      /\ \A i \in 1..n : m[i] = [row |-> q[i], from |-> pos[q[i]], to |-> i]
  BY PlacesTypes
<1>3. Half(S, pos, q, f, 0)
  BY <1>1, HalfStarts
<1>4. ASSUME NEW i \in 1..n PROVE e[q[i]] = i
  <2>1. /\ DOMAIN q = 1..n /\ q[i] \in S
        /\ \A j, k \in 1..n : q[j] = q[k] => j = k
    BY <1>1, SortOnto
  <2>2. q[i] \in Range(q) /\ q[i] \in Rows
    BY <1>1, <2>1 DEF Range
  <2>3. e[q[i]] = Places(q)[CHOOSE j \in DOMAIN q : q[j] = q[i]]
    BY <2>2 DEF Expected
  <2>4. (CHOOSE j \in DOMAIN q : q[j] = q[i]) = i
    BY <2>1
  <2> QED BY <2>1, <2>3, <2>4 DEF Places
<1>5. ASSUME NEW i \in 1..n - 0
      PROVE  m[i] = [row |-> q[0 + i], from |-> f[0 + i], to |-> 0 + i]
  BY <1>1, <1>2
<1> HIDE DEF f
<1>6. Len(m) = n - 0
  BY <1>1, <1>2
<1>7. SortsFrom(t, q, f, 0, e, m)
  BY <1>2, <1>3, <1>4, <1>5, <1>6 DEF SortsFrom
<1> QED BY <1>7 DEF f

\* ... and its next move brings it forward.
LEMMA SortsNext ==
    ASSUME TypeOK, NEW t \in Testsets, NEW q, NEW f, NEW d, NEW e, NEW m,
           SortsFrom(t, q, f, d, e, m), m # << >>, UNCHANGED test,
           pos' = Inserted(pos, t, m[1].row, m[1].from, m[1].to)
    PROVE  SortsFrom(t, q, f, d + 1, e, Tail(m))'
<1> DEFINE S == StepsOf(t)
           n == Cardinality(S)
<1>1. /\ Half(S, pos, q, f, d) /\ m \in Seq(Move) /\ Len(m) = n - d
      /\ \A i \in 1..n - d : m[i] = [row |-> q[d + i], from |-> f[d + i], to |-> d + i]
      /\ \A i \in 1..n : e[q[i]] = i
  BY DEF SortsFrom
<1>2. IsFiniteSet(S) /\ n \in Nat /\ d \in 0..n
  BY <1>1, StepsAreFinite DEF Half
<1>3. Len(m) \in Nat \ {0} /\ d < n
  BY <1>1, <1>2, EmptySeq, LenProperties
<1>4. m[1] = [row |-> q[d + 1], from |-> f[d + 1], to |-> d + 1]
  BY <1>1, <1>2, <1>3
<1>5. Half(S, pos', q, f, d + 1)
  <2>1. pos \in [Rows -> Nat]
    BY DEF TypeOK
  <2>2. Half(S, Inserted(pos, t, q[d + 1], f[d + 1], d + 1), q, f, d + 1)
    BY <1>1, <1>2, <1>3, <2>1, HalfMoves
  <2> QED BY <1>4, <2>2
<1>6. /\ Tail(m) \in Seq(Move) /\ Len(Tail(m)) = n - (d + 1)
      /\ \A i \in 1..n - (d + 1) : Tail(m)[i] = m[i + 1]
  <2>1. /\ Tail(m) \in Seq(Move) /\ Len(Tail(m)) = Len(m) - 1
        /\ \A i \in 1..Len(Tail(m)) : Tail(m)[i] = m[i + 1]
    BY <1>1, HeadTailProperties
  <2> QED BY <1>1, <1>2, <2>1
<1>7. ASSUME NEW i \in 1..n - (d + 1)
      PROVE  Tail(m)[i] = [row |-> q[d + 1 + i], from |-> f[d + 1 + i], to |-> d + 1 + i]
  <2>1. i + 1 \in 1..n - d /\ d + (i + 1) = d + 1 + i
    BY <1>2
  <2> QED BY <1>1, <1>6, <2>1
<1>8. S' = S
  BY DEF StepsOf
<1> HIDE DEF S
<1> QED BY <1>1, <1>5, <1>6, <1>7, <1>8 DEF SortsFrom, S

\* A listing in which each step is at its place is numbered.
LEMMA PlacedNumbers ==
    ASSUME NEW S, IsFiniteSet(S), NEW p, NEW q, Sorts(S, p, q),
           \A i \in 1..Cardinality(S) : p[q[i]] = i
    PROVE  Numbers(S, p)
BY SortOnto DEF Numbers, Distinct

LEMMA SkipStepOrder ==
    ASSUME TypeOK, OrderInv, NEW s \in Sessions, SkipStep(s)
    PROVE  OrderInv'
<1> SUFFICES ASSUME ~raced PROVE OrderInv'
  BY DEF OrderInv, SkipStep
<1>1. PICK e, m : e = req[s].expected /\ m = req[s].moves
  OBVIOUS
<1>2. /\ req[s] \in [kind : {"order"}, test : Testsets, expected : [Rows -> Nat],
                     moves : Seq(Move), sorting : BOOLEAN]
      /\ m # << >> /\ m \in Seq(Move)
  BY <1>1, PendingKinds DEF SkipStep, Pending
<1>3. /\ req'[s] = [req[s] EXCEPT !.moves = Tail(m)]
      /\ UNCHANGED <<tables, stale, raced, halted>>
      /\ \A o \in Sessions \ {s} : req'[o] = req[o]
  BY <1>1 DEF SkipStep, TypeOK
<1>4. /\ req'[s].kind = "order" /\ req'[s].test = req[s].test /\ req'[s].expected = e
      /\ req'[s].moves = Tail(m) /\ req'[s].sorting = req[s].sorting
      /\ req[s].kind = "order" /\ req[s] # None
  BY <1>1, <1>2, <1>3 DEF SkipStep, Pending
<1>5. req'[s] # None
  <2>1. Tail(m) \in Seq(Move)
    BY <1>2, HeadTailProperties
  <2>2. req'[s] \in Requests
    BY <1>2, <1>3, <2>1 DEF Requests
  <2> QED BY <2>2, RequestAssumption
<1>6. /\ Len(m) \in Nat \ {0} /\ Tail(m) \in Seq(Move) /\ Len(Tail(m)) = Len(m) - 1
      /\ \A i \in 1..Len(m) - 1 : Tail(m)[i] = m[i + 1]
      /\ DOMAIN m = 1..Len(m) /\ DOMAIN Tail(m) = 1..Len(m) - 1
      /\ Head(m) = m[1] /\ m[1] \in Move
  BY <1>2, HeadTailProperties, EmptySeq, LenProperties, ElementOfSeq
<1>7. req[s].sorting /\ m[1].from = m[1].to
  BY <1>1, <1>6 DEF SkipStep, InPlace
<1>8. ASSUME NEW i \in DOMAIN m, m[i].from # m[i].to
      PROVE  i - 1 \in DOMAIN Tail(m) /\ Tail(m)[i - 1] = m[i]
  <2>1. i \in 1..Len(m) /\ i # 1
    BY <1>6, <1>7, <1>8
  <2>2. i - 1 \in 1..Len(m) - 1 /\ (i - 1) + 1 = i
    BY <1>6, <2>1
  <2> QED BY <1>6, <2>2
<1>9. ASSUME NEW t \in Testsets, Unfinished(s, t) PROVE Unfinished(s, t)'
  BY <1>1, <1>4, <1>5, <1>7, <1>8, <1>9 DEF Unfinished, Reordering, Pending
<1>10. ASSUME NEW t \in Testsets, Unfolds(s, t) PROVE Unfolds(s, t)'
  <2>1. PICK i \in DOMAIN m : m[i].from < m[i].to
    BY <1>1, <1>10 DEF Unfolds
  <2>2. m[i] \in Move
    BY <1>2, <1>6, ElementOfSeq
  <2>3. m[i].from # m[i].to
    BY <2>1, <2>2 DEF Move
  <2> QED BY <1>1, <1>4, <1>5, <1>7, <1>8, <1>10, <2>1, <2>3 DEF Unfolds, Reordering, Pending
<1>11. ASSUME NEW t \in Testsets, s \notin stale', Reordering(s, t)' PROVE Sorting(s, t)'
  <2>1. Reordering(s, t) /\ s \notin stale
    BY <1>3, <1>4, <1>11 DEF Reordering, Pending
  <2>2. Sorting(s, t)
    BY <1>7, <2>1 DEF OrderInv
  <2>3. UNCHANGED <<test, pos, halted>> /\ StepsOf(t)' = StepsOf(t)
    BY <1>3 DEF tables, StepsOf
  <2>4. ASSUME NEW q, NEW f, NEW d, SortsFrom(t, q, f, d, e, m) PROVE Sorting(s, t)'
    <3>1. pos' = Inserted(pos, t, m[1].row, m[1].from, m[1].to)
      BY <1>7, <2>3 DEF Inserted
    <3>2. SortsFrom(t, q, f, d + 1, e, Tail(m))'
      BY <1>2, <2>3, <2>4, <3>1, SortsNext
    <3> QED BY <1>4, <3>2 DEF Sorting, SortsFrom
  <2>5. ASSUME \A r \in StepsOf(t) : e[r] = 0,
               t \in halted \/ \E o \in Sessions \ {s} : Unfolds(o, t)
        PROVE  Sorting(s, t)'
    <3>1. \A o \in Sessions \ {s} : Unfolds(o, t) => Unfolds(o, t)'
      BY <1>3, SameRequest
    <3> QED BY <1>4, <2>3, <2>5, <3>1 DEF Sorting
  <2> QED BY <1>1, <2>2, <2>4, <2>5 DEF Sorting
<1>12. UNCHANGED <<test, pos, raced, halted>> /\ stale' = stale
  BY <1>3 DEF tables
<1> QED BY <1>3, <1>9, <1>10, <1>11, <1>12, QuietOrder

LEMMA SortStepsOrder ==
    ASSUME TypeOK, OrderInv, NEW s \in Sessions, SortSteps(s)
    PROVE  OrderInv'
<1> SUFFICES ASSUME ~raced PROVE OrderInv'
  BY DEF OrderInv, SortSteps
<1>1. req[s] \in [kind : {"order"}, test : Testsets, expected : [Rows -> Nat],
                  moves : Seq(Move), sorting : BOOLEAN]
      /\ req[s].moves = << >>
  BY PendingKinds DEF SortSteps, Pending
<1>2. PICK u \in Testsets : req[s].test = u
  BY <1>1
<1>3. PICK q \in Listings(u) :
          req' = [req EXCEPT ![s] =
                     IF req[s].sorting \/ q = << >> THEN None
                     ELSE Reorder(u, Expected(q, Places(q), IsOrdered(u)),
                                  Moves(q, Places(q)), TRUE)]
  BY <1>2 DEF SortSteps
<1>4. UNCHANGED <<test, pos, stale, raced, halted>>
      /\ \A o \in Sessions \ {s} : req'[o] = req[o]
  BY <1>3 DEF SortSteps, TypeOK, tables
<1>5. \A t \in Testsets : StepsOf(t)' = StepsOf(t)
  BY <1>4 DEF StepsOf
<1>6. Listed /\ Sorts(StepsOf(u), pos, q) /\ IsFiniteSet(StepsOf(u))
      /\ Cardinality(StepsOf(u)) \in Nat
  BY StepsListed DEF Listed
<1>7. \A t \in Testsets : ~Unfolds(s, t) /\ (Unfinished(s, t) => t = u /\ ~req[s].sorting)
  BY <1>1, <1>2 DEF Unfolds, Unfinished, Reordering
<1>8. CASE req[s].sorting \/ q = << >>
  <2>1. req'[s] = None
    BY <1>3, <1>8 DEF TypeOK
  <2>2. ASSUME q = << >> PROVE IsNumbered(u)
    <3>1. Cardinality(StepsOf(u)) = 0
      <4>1. DOMAIN q = 1..Cardinality(StepsOf(u))
        BY <1>6, SortOnto
      <4>2. 1 \notin DOMAIN q
        BY <2>2
      <4> QED BY <1>6, <4>1, <4>2
    <3>2. StepsOf(u) = {}
      BY <1>6, <3>1, FS_EmptySet
    <3>3. Numbers(StepsOf(u), pos)
      BY <3>2 DEF Numbers, Distinct
    <3> QED BY <1>6, <3>3 DEF Listed
  <2>3. \A t \in Testsets : Unfinished(s, t) => IsNumbered(t)
    BY <1>7, <1>8, <2>2
  <2>4. \A t \in Testsets : ~Reordering(s, t)'
    BY <2>1 DEF Reordering, Pending
  <2> QED BY <1>4, <1>7, <2>3, <2>4, QuietOrder
<1>9. CASE ~(req[s].sorting \/ q = << >>)
  <2>1. PICK e, m : e = Expected(q, Places(q), IsOrdered(u)) /\ m = Moves(q, Places(q))
    OBVIOUS
  <2>2. req'[s] = Reorder(u, e, m, TRUE)
    BY <1>3, <1>9, <2>1 DEF TypeOK
  <2>3. /\ req'[s].kind = "order" /\ req'[s].test = u /\ req'[s].expected = e
        /\ req'[s].moves = m /\ req'[s].sorting
    BY <2>2 DEF Reorder
  <2>4. req'[s] # None
    <3>1. IsOrdered(u) \in BOOLEAN
      BY DEF IsOrdered
    <3>2. e \in [Rows -> Nat] /\ m \in Seq(Move)
      BY <2>1, <3>1, PlacesTypes
    <3>3. Reorder(u, e, m, TRUE) \in Requests
      BY <3>2, OrderTypes
    <3> QED BY <2>2, <3>3, RequestAssumption
  <2>5. /\ DOMAIN m = 1..Cardinality(StepsOf(u))
        /\ \A i \in 1..Cardinality(StepsOf(u)) :
              m[i] = [row |-> q[i], from |-> pos[q[i]], to |-> i]
    BY <2>1, PlacesTypes
  <2>6. ASSUME ~IsNumbered(u) PROVE Unfinished(s, u)'
    <3>1. ~Numbers(StepsOf(u), pos)
      BY <1>6, <2>6 DEF Listed
    <3>2. PICK i \in 1..Cardinality(StepsOf(u)) : pos[q[i]] # i
      BY <1>6, <3>1, PlacedNumbers
    <3>3. i \in DOMAIN m /\ m[i].from # m[i].to
      BY <2>5, <3>2
    <3> QED BY <2>3, <2>4, <3>3 DEF Unfinished, Reordering, Pending
  <2>7. ASSUME NEW t \in Testsets, s \notin stale', Reordering(s, t)' PROVE Sorting(s, t)'
    <3>1. t = u
      BY <2>3, <2>7 DEF Reordering
    <3>2. CASE IsOrdered(u)
      <4> DEFINE f == [i \in 1..Cardinality(StepsOf(u)) |-> pos[q[i]]]
      <4>1. SortsFrom(u, q, f, 0, e, m)
        BY <2>1, <3>2, SortsStart
      <4> HIDE DEF f
      <4>2. PICK g : g = f
        OBVIOUS
      <4>3. SortsFrom(u, q, g, 0, e, m)'
        BY <1>4, <1>5, <4>1, <4>2 DEF SortsFrom
      <4> QED BY <2>3, <3>1, <4>3 DEF Sorting, SortsFrom
    <3>3. CASE ~IsOrdered(u)
      <4>1. \A r \in StepsOf(u) : e[r] = 0
        BY <1>6, <2>1, <3>3 DEF Expected, Listed
      <4>2. u \in halted \/ \E o \in Sessions \ {s} : Unfolds(o, u)
        BY <1>7, <3>3 DEF OrderInv
      <4>3. \A o \in Sessions \ {s} : Unfolds(o, u) => Unfolds(o, u)'
        BY <1>4, SameRequest
      <4> QED BY <1>4, <1>5, <2>3, <3>1, <4>1, <4>2, <4>3 DEF Sorting
    <3> QED BY <3>2, <3>3
  <2> QED BY <1>4, <1>7, <2>6, <2>7, QuietOrder
<1> QED BY <1>8, <1>9

\* A sort that has not put the steps in order has moves left that will.
LEMMA HalfLeaves ==
    ASSUME NEW S, IsFiniteSet(S), NEW p, NEW q, NEW f, NEW d, Half(S, p, q, f, d),
           NEW m \in Seq(Move), Len(m) = Cardinality(S) - d,
           \A i \in 1..Cardinality(S) - d :
              m[i] = [row |-> q[d + i], from |-> f[d + i], to |-> d + i]
    PROVE  /\ Numbers(S, p) \/ \E i \in DOMAIN m : m[i].from # m[i].to
           /\ Distinct(S, p) \/ \E i \in DOMAIN m : m[i].from < m[i].to
<1> DEFINE n == Cardinality(S)
<1>1. n \in Nat /\ d \in 0..n /\ DOMAIN m = 1..n - d /\ \A i \in 1..n : f[i] \in Nat
  BY FS_CardinalityType, LenProperties DEF Half
<1>2. ASSUME NEW i \in d + 1..n
      PROVE  /\ i - d \in DOMAIN m /\ m[i - d].from = f[i] /\ m[i - d].to = i
             /\ f[i] \in Nat
  <2>1. i - d \in 1..n - d /\ d + (i - d) = i /\ i \in 1..n
    BY <1>1
  <2> QED BY <1>1, <2>1
<1> HIDE DEF n
<1>3. ASSUME ~\E i \in DOMAIN m : m[i].from # m[i].to PROVE Numbers(S, p)
  <2>1. \A i \in d + 1..n : f[i] = i
    BY <1>2, <1>3
  <2> QED BY <2>1, HalfNumbers DEF n
<1>4. ASSUME ~\E i \in DOMAIN m : m[i].from < m[i].to PROVE Distinct(S, p)
  <2>1. ASSUME NEW i \in d + 1..n PROVE f[i] >= i
    <3>1. ~(f[i] < i)
      BY <1>2, <1>4
    <3> QED BY <1>1, <1>2, <3>1
  <2> QED BY <2>1, HalfDistinct DEF n
<1> QED BY <1>3, <1>4

\* A test whose steps a request does not touch.
LEMMA UntouchedOrder ==
    ASSUME TypeOK, TypeOK', NEW s \in Sessions, NEW t \in Testsets, StepsOf(t)' = StepsOf(t),
           \A x \in StepsOf(t) : pos'[x] = pos[x],
           ~Unfinished(s, t), ~Unfolds(s, t)
    PROVE  KeepsOrder(s, t)
<1>1. Listed /\ Listed'
  BY StepsListed, StepsListedThen
<1>2. /\ Distinct(StepsOf(t), pos) <=> Distinct(StepsOf(t), pos')
      /\ Numbers(StepsOf(t), pos) <=> Numbers(StepsOf(t), pos')
  BY SameDistinct
<1> QED BY <1>1, <1>2 DEF Listed, KeepsOrder

\* Nothing is to be sorted by a request that has been dealt with.
LEMMA OverOrder ==
    ASSUME TypeOK, OrderInv, ~raced', NEW s \in Sessions, Commit(s, None),
           halted \subseteq halted',
           \A t \in Testsets \ halted' :
              KeepsOrder(s, t) \/ \E o \in Sessions \ {s} : Unfolds(o, t)
    PROVE  OrderInv'
<1>1. \A t \in Testsets : ~Reordering(s, t)'
  BY DEF Commit, TypeOK, Reordering, Pending
<1> QED BY <1>1, CommitOrder

LEMMA MoveStepOrder ==
    ASSUME TypeOK, TypeOK', EditInv, OrderInv, ~raced', NEW s \in Sessions, MoveStep(s)
    PROVE  OrderInv'
<1>1. PICK e, m : e = req[s].expected /\ m = req[s].moves
  OBVIOUS
<1>2. ~raced /\ s \notin stale /\ Pending(s, "order") /\ Sound /\ Fresh(s)
  <2>1. Pending(s, "order") /\ req[s] # None
    BY DEF MoveStep, Pending
  <2>2. ~raced /\ s \notin stale
    BY <2>1 DEF MoveStep, Commit
  <2> QED BY <2>1, <2>2 DEF EditInv
<1>3. PICK u \in Testsets : req[s].test = u
  BY <1>2, PendingKinds DEF Pending
<1>4. PICK move, old : move = Head(req[s].moves) /\ old = OldPosition(s, move)
  OBVIOUS
<1>5. /\ req[s] \in [kind : {"order"}, test : Testsets, expected : [Rows -> Nat],
                     moves : Seq(Move), sorting : BOOLEAN]
      /\ m # << >> /\ m \in Seq(Move) /\ move = m[1]
      /\ move \in Move /\ move.row \in StepsOf(u) /\ old \in Nat /\ move.to \in Nat
      /\ UNCHANGED <<collections, home, test, pointer, hidden>>
      /\ \/ /\ pos' = Inserted(pos, u, move.row, old, move.to)
            /\ Commit(s, [req[s] EXCEPT !.moves = Tail(req[s].moves)])
            /\ halted' = halted
         \/ /\ move.row \in hidden /\ halted' = halted \cup {u}
            /\ pos' = IF old = move.to THEN pos ELSE Shifted(pos, u, old, move.to)
            /\ Commit(s, None)
  BY <1>1, <1>2, <1>3, <1>4, MoveStepFresh
<1>6. \A t \in Testsets : StepsOf(t)' = StepsOf(t)
  BY <1>5 DEF StepsOf
<1>7. ASSUME NEW t \in Testsets, t # u PROVE KeepsOrder(s, t)
  <2>1. ~Unfinished(s, t) /\ ~Unfolds(s, t)
    BY <1>3, <1>7 DEF Unfinished, Unfolds, Reordering
  <2>2. ASSUME NEW x \in StepsOf(t) PROVE pos'[x] = pos[x]
    <3>1. x \in Rows /\ test[x] # u /\ pos \in [Rows -> Nat]
      BY <1>7 DEF StepsOf, TypeOK
    <3>2. Inserted(pos, u, move.row, old, move.to)[x] = pos[x]
      <4>1. x # move.row
        BY <1>5, <3>1 DEF StepsOf
      <4> QED BY <3>1, <4>1 DEF Inserted, Shifted
    <3>3. Shifted(pos, u, old, move.to)[x] = pos[x]
      BY <3>1 DEF Shifted
    <3> QED BY <1>5, <3>2, <3>3
  <2> QED BY <1>6, <2>1, <2>2, UntouchedOrder
<1>8. CASE halted' = halted \cup {u} /\ Commit(s, None)
  BY <1>7, <1>8, OverOrder
<1>9. CASE /\ pos' = Inserted(pos, u, move.row, old, move.to)
           /\ Commit(s, [req[s] EXCEPT !.moves = Tail(req[s].moves)])
           /\ halted' = halted
  <2>1. req'[s] = [req[s] EXCEPT !.moves = Tail(m)]
    BY <1>1, <1>9 DEF Commit, TypeOK
  <2>2. /\ req'[s].kind = "order" /\ req'[s].test = u /\ req'[s].expected = e
        /\ req'[s].moves = Tail(m) /\ req'[s].sorting = req[s].sorting
    BY <1>1, <1>3, <1>5, <2>1
  <2>3. req'[s] # None /\ Tail(m) \in Seq(Move)
    <3>1. Tail(m) \in Seq(Move)
      BY <1>5, HeadTailProperties
    <3>2. req'[s] \in Requests
      BY <1>5, <2>1, <3>1 DEF Requests
    <3> QED BY <3>1, <3>2, RequestAssumption
  <2>4. Reordering(s, u)' /\ \A t \in Testsets : Reordering(s, t)' => t = u
    BY <2>2, <2>3 DEF Reordering, Pending
  <2>5. Listed /\ Listed'
    BY StepsListed, StepsListedThen
  <2>6. CASE ~req[s].sorting
    <3>1. Unfinished(s, u)'
      BY <2>2, <2>4, <2>6 DEF Unfinished
    <3>2. ~Unfolds(s, u) /\ old = pos[move.row]
      BY <1>4, <2>6 DEF Unfolds, OldPosition
    <3>3. IsOrdered(u) => IsOrdered(u)'
      <4>1. pos \in [Rows -> Nat]
        BY DEF TypeOK
      <4>2. Distinct(StepsOf(u), pos) =>
              Distinct(StepsOf(u), Inserted(pos, u, move.row, pos[move.row], move.to))
        BY <1>5, <4>1, InsertedDistinct
      <4> QED BY <1>6, <1>9, <2>5, <3>2, <4>2 DEF Listed
    <3>4. KeepsOrder(s, u)
      BY <3>1, <3>2, <3>3 DEF KeepsOrder
    <3> QED BY <1>7, <1>9, <2>2, <2>6, <3>4, CommitOrder
  <2>7. CASE req[s].sorting
    <3>1. old = move.from /\ Reordering(s, u)
      BY <1>2, <1>3, <1>4, <2>7 DEF OldPosition, Reordering
    <3>2. Sorting(s, u)
      BY <1>2, <2>7, <3>1 DEF OrderInv
    <3>3. ASSUME NEW q, NEW f, NEW d, SortsFrom(u, q, f, d, e, m)
          PROVE  KeepsOrder(s, u) /\ Sorting(s, u)'
      <4>1. SortsFrom(u, q, f, d + 1, e, Tail(m))'
        BY <1>5, <1>9, <3>1, <3>3, SortsNext
      <4>2. Sorting(s, u)'
        BY <2>2, <4>1 DEF Sorting, SortsFrom
      <4>3. /\ Half(StepsOf(u)', pos', q, f, d + 1)
            /\ Len(Tail(m)) = Cardinality(StepsOf(u)') - (d + 1)
            /\ \A i \in 1..Cardinality(StepsOf(u)') - (d + 1) :
                  Tail(m)[i] = [row |-> q[d + 1 + i], from |-> f[d + 1 + i], to |-> d + 1 + i]
        BY <4>1 DEF SortsFrom
      <4>4. /\ \/ Numbers(StepsOf(u)', pos')
               \/ \E i \in DOMAIN Tail(m) : Tail(m)[i].from # Tail(m)[i].to
            /\ \/ Distinct(StepsOf(u)', pos')
               \/ \E i \in DOMAIN Tail(m) : Tail(m)[i].from < Tail(m)[i].to
        <5>1. IsFiniteSet(StepsOf(u)') /\ Tail(m) \in Seq(Move)
          BY <1>6, <2>3, StepsAreFinite
        <5>2. PICK S, g, l, k : S = StepsOf(u)' /\ g = pos' /\ l = Tail(m) /\ k = d + 1
          OBVIOUS
        <5>3. IsFiniteSet(S) /\ Half(S, g, q, f, k) /\ l \in Seq(Move)
          BY <4>3, <5>1, <5>2
        <5>4. /\ Len(l) = Cardinality(S) - k
              /\ \A i \in 1..Cardinality(S) - k :
                    l[i] = [row |-> q[k + i], from |-> f[k + i], to |-> k + i]
          BY <4>3, <5>2
        <5>5. /\ Numbers(S, g) \/ \E i \in DOMAIN l : l[i].from # l[i].to
              /\ Distinct(S, g) \/ \E i \in DOMAIN l : l[i].from < l[i].to
          BY <5>3, <5>4, HalfLeaves
        <5> QED BY <5>2, <5>5
      <4>5. KeepsOrder(s, u)
        BY <2>2, <2>4, <2>5, <2>7, <4>4 DEF Listed, KeepsOrder, Unfinished, Unfolds
      <4> QED BY <4>2, <4>5
    <3>4. ASSUME \A r \in StepsOf(u) : e[r] = 0,
                 u \in halted \/ \E o \in Sessions \ {s} : Unfolds(o, u)
          PROVE  Sorting(s, u)'
      <4>1. \A o \in Sessions \ {s} : req'[o] = req[o]
        BY <1>9 DEF Commit, TypeOK
      <4>2. \A o \in Sessions \ {s} : Unfolds(o, u) => Unfolds(o, u)'
        BY <4>1, SameRequest
      <4> QED BY <1>6, <1>9, <2>2, <3>4, <4>2 DEF Sorting
    <3>5. /\ Sorting(s, u)'
          /\ KeepsOrder(s, u) \/ u \in halted \/ \E o \in Sessions \ {s} : Unfolds(o, u)
      BY <1>1, <3>2, <3>3, <3>4 DEF Sorting
    <3> QED BY <1>7, <1>9, <2>4, <3>5, CommitOrder
  <2> QED BY <2>6, <2>7
<1> QED BY <1>5, <1>8, <1>9

LEMMA SaveStepOrder ==
    ASSUME TypeOK, TypeOK', EditInv, OrderInv, ~raced', NEW s \in Sessions, NEW r \in Rows,
           SaveStep(s, r)
    PROVE  OrderInv'
<1>1. req[s] # None /\ Pending(s, "step") /\ Commit(s, None) /\ ~raced /\ s \notin stale
  BY DEF SaveStep, Pending, Commit
<1>2. PICK u \in Testsets : req[s].test = u
  BY <1>1, PendingKinds DEF Pending
<1>3. req[s].pos = Bottom(u) + 1
  <2>1. Fresh(s) /\ req[s].pointer \in Testsets \cup {None}
    BY <1>1, PendingKinds DEF EditInv, Pending
  <2> QED BY <1>1, <1>2, <2>1 DEF Fresh
<1>4. /\ test[r] = None /\ test' = [test EXCEPT ![r] = u]
      /\ pos' = [pos EXCEPT ![r] = Bottom(u) + 1] /\ halted' = halted
  BY <1>2, <1>3 DEF SaveStep
<1>5. Listed /\ Listed'
  BY StepsListed, StepsListedThen
<1>6. ASSUME NEW t \in Testsets PROVE KeepsOrder(s, t)
  <2>1. ~Unfinished(s, t) /\ ~Unfolds(s, t)
    BY <1>1 DEF Unfinished, Unfolds, Reordering, Pending
  <2>2. r \notin StepsOf(t)
    BY <1>4, NoneAssumption DEF StepsOf
  <2>3. CASE t = u
    <3>1. StepsOf(t)' = StepsOf(t) \cup {r}
      BY <1>4, <2>3 DEF StepsOf, TypeOK
    <3>2. pos \in [Rows -> Nat] /\ \A x \in StepsOf(t) : x \in Rows
      BY DEF TypeOK, StepsOf
    <3>3. /\ \A x \in StepsOf(t) : pos[x] \in Nat /\ pos[x] <= Bottom(t) /\ pos'[x] = pos[x]
          /\ pos'[r] = Bottom(t) + 1
          /\ Bottom(t) \in Nat /\ (Bottom(t) = 0 \/ \E x \in StepsOf(t) : pos[x] = Bottom(t))
      BY <1>4, <2>2, <2>3, <3>2, BottomOfSteps
    <3>4. /\ Distinct(StepsOf(t), pos) => Distinct(StepsOf(t) \cup {r}, pos')
          /\ Numbers(StepsOf(t), pos) => Numbers(StepsOf(t) \cup {r}, pos')
      BY <2>2, <3>3, StepsAreFinite, AppendedDistinct
    <3> QED BY <1>5, <2>1, <3>1, <3>4 DEF Listed, KeepsOrder
  <2>4. CASE t # u
    <3>1. StepsOf(t)' = StepsOf(t)
      BY <1>4, <2>2, <2>4 DEF StepsOf, TypeOK
    <3>2. \A x \in StepsOf(t) : pos'[x] = pos[x]
      BY <1>4, <2>2 DEF StepsOf, TypeOK
    <3> QED BY <2>1, <3>1, <3>2, UntouchedOrder
  <2> QED BY <2>3, <2>4
<1> QED BY <1>1, <1>4, <1>6, OverOrder

LEMMA DropOrder ==
    ASSUME TypeOK, TypeOK', EditInv, OrderInv, ~raced', NEW s \in Sessions, Drop(s)
    PROVE  OrderInv'
<1>1. req[s] # None /\ Pending(s, "drop") /\ Commit(s, None) /\ ~raced /\ s \notin stale
      /\ halted' = halted
  BY DEF Drop, Pending, Commit
<1>2. PICK T, R : T = req[s].tests /\ R = req[s].rows
  OBVIOUS
<1>3. \A x \in Steps : x \in R <=> test[x] \in T
  BY <1>1, <1>2 DEF EditInv, Fresh
<1>4. /\ test' = [x \in Rows |-> IF x \in R THEN Gone ELSE test[x]]
      /\ pos' = [x \in Rows |-> IF x \in R THEN 0 ELSE pos[x]]
  BY <1>2 DEF Drop
<1>5. Listed'
  BY StepsListedThen
<1>6. ASSUME NEW t \in Testsets PROVE KeepsOrder(s, t)
  <2>1. ~Unfinished(s, t) /\ ~Unfolds(s, t)
    BY <1>1 DEF Unfinished, Unfolds, Reordering, Pending
  <2>2. CASE t \in T
    <3>1. StepsOf(t)' = {}
      BY <1>3, <1>4, <2>2, NoneAssumption DEF StepsOf, Steps
    <3>2. Numbers(StepsOf(t)', pos') /\ Distinct(StepsOf(t)', pos')
      BY <3>1 DEF Numbers, Distinct
    <3> QED BY <1>5, <3>2 DEF Listed, KeepsOrder
  <2>3. CASE t \notin T
    <3>1. StepsOf(t)' = StepsOf(t)
      BY <1>3, <1>4, <2>3, NoneAssumption DEF StepsOf, Steps
    <3>2. \A x \in StepsOf(t) : pos'[x] = pos[x]
      BY <1>3, <1>4, <2>3 DEF StepsOf, Steps
    <3> QED BY <2>1, <3>1, <3>2, UntouchedOrder
  <2> QED BY <2>2, <2>3
<1> QED BY <1>1, <1>6, OverOrder

\* The sort after a test is renamed numbers its steps, and only those.
LEMMA SortTestNumbers ==
    ASSUME TypeOK, TypeOK', NEW t \in Testsets, NEW q \in Listings(t), UNCHANGED test,
           pos' = Sorted(t, Moves(q, Places(q)))
    PROVE  /\ \A x \in Rows : test[x] # t => pos'[x] = pos[x]
           /\ IsOrdered(t) =>
                 /\ IsNumbered(t)'
                 /\ \A i \in 1..Cardinality(StepsOf(t)) : pos'[q[i]] = i
<1> DEFINE S == StepsOf(t)
           n == Cardinality(S)
           m == Moves(q, Places(q))
           f == [i \in 1..n |-> pos[q[i]]]
<1>1. /\ m \in Seq(Move) /\ Len(m) = n /\ n \in Nat
      /\ \A i \in 1..n : m[i] = [row |-> q[i], from |-> pos[q[i]], to |-> i]
  BY PlacesTypes, StepsAreFinite
<1>2. PICK p : Chain(p, t, m) /\ pos' = p[n]
  BY <1>1, SortedIsChain
<1>3. /\ p[0] = pos
      /\ \A k \in 1..n : p[k] = Inserted(p[k - 1], t, m[k].row, m[k].from, m[k].to)
  BY <1>1, <1>2 DEF Chain
<1>4. ASSUME NEW x \in Rows, test[x] # t PROVE pos'[x] = pos[x]
  <2> DEFINE Bad == {k \in 0..n : p[k][x] # pos[x]}
  <2>1. Bad = {}
    <3> SUFFICES ASSUME Bad # {} PROVE FALSE
      OBVIOUS
    <3>1. PICK k \in Bad : \A j \in Bad : k <= j
      <4>1. Bad \subseteq Nat
        BY <1>1
      <4> HIDE DEF Bad
      <4> QED BY <4>1, LeastNat
    <3>2. k \in 1..n /\ k - 1 \in 0..n /\ k - 1 \notin Bad
      BY <1>1, <1>3, <3>1
    <3>3. p[k - 1][x] = pos[x]
      BY <3>2
    <3>4. x # m[k].row
      <4>1. m[k].row = q[k]
        BY <1>1, <3>2
      <4>2. q[k] \in StepsOf(t)
        BY <3>2, ListingTypes
      <4> QED BY <1>4, <4>1, <4>2 DEF StepsOf
    <3>5. p[k] = Inserted(p[k - 1], t, m[k].row, m[k].from, m[k].to)
      BY <1>3, <3>2
    <3> HIDE DEF Bad, m, n
    <3>6. p[k][x] = p[k - 1][x]
      <4>1. CASE m[k].from = m[k].to
        BY <3>5, <4>1 DEF Inserted
      <4>2. CASE m[k].from # m[k].to
        <5> DEFINE g == Shifted(p[k - 1], t, m[k].from, m[k].to)
        <5>1. g[x] = p[k - 1][x]
          BY <1>4 DEF Shifted
        <5>2. \E v : p[k] = [g EXCEPT ![m[k].row] = v]
          BY <3>5, <4>2 DEF Inserted
        <5>3. PICK v : p[k] = [g EXCEPT ![m[k].row] = v]
          BY <5>2
        <5>4. DOMAIN g = Rows
          BY DEF Shifted
        <5> HIDE DEF g
        <5> QED BY <3>4, <5>1, <5>3, <5>4
      <4> QED BY <4>1, <4>2
    <3> QED BY <3>1, <3>3, <3>6 DEF Bad
  <2>2. n \in 0..n
    BY <1>1
  <2> QED BY <1>2, <2>1, <2>2
<1>5. ASSUME IsOrdered(t)
      PROVE  IsNumbered(t)' /\ \A i \in 1..n : pos'[q[i]] = i
  <2>1. n \in 0..n
    BY <1>1
  <2>2. Half(S, p[n], q, f, n)
    BY <1>2, <1>5, <2>1, SortedHalf
  <2> HIDE DEF f
  <2>3. \A i \in n + 1..n : f[i] = i
    BY <1>1
  <2>4. IsFiniteSet(S)
    BY StepsAreFinite
  <2> HIDE DEF S, n
  <2>5. Numbers(S, p[n]) /\ \A i \in 1..n : p[n][q[i]] = i
    BY <2>2, <2>3, <2>4, HalfNumbers DEF n
  <2>6. StepsOf(t)' = S
    BY DEF S, StepsOf
  <2>7. Listed'
    BY StepsListedThen
  <2> QED BY <1>2, <2>5, <2>6, <2>7 DEF Listed
<1> QED BY <1>4, <1>5

LEMMA SortTestOrder ==
    ASSUME TypeOK, TypeOK', EditInv, OrderInv, ~raced', NEW s \in Sessions, SortTest(s)
    PROVE  OrderInv'
<1>1. /\ Pending(s, "sort") /\ req[s] # None
      /\ UNCHANGED <<collections, home, test, pointer, hidden, halted>>
      /\ \A t \in Testsets : ~Unfinished(s, t) /\ ~Unfolds(s, t)
  BY DEF SortTest, Pending, Unfinished, Unfolds, Reordering
<1>2. PICK u \in Testsets : req[s].test = u
  BY <1>1, PendingKinds DEF Pending
<1>3. CASE pos' = Sorted(u, req[s].moves) /\ Commit(s, None)
  <2>1. Fresh(s)
    BY <1>1, <1>3 DEF EditInv, Commit
  <2>2. PICK q \in Listings(u) : req[s].moves = Moves(q, Places(q))
    BY <1>1, <1>2, <2>1 DEF Fresh
  <2>3. pos' = Sorted(u, Moves(q, Places(q))) /\ UNCHANGED test
    BY <1>1, <1>3, <2>2
  <2>4. /\ \A x \in Rows : test[x] # u => pos'[x] = pos[x]
        /\ IsOrdered(u) => IsNumbered(u)'
    BY <2>3, SortTestNumbers
  <2>5. \A t \in Testsets : StepsOf(t)' = StepsOf(t)
    BY <2>3 DEF StepsOf
  <2>6. ASSUME NEW t \in Testsets \ halted
        PROVE  KeepsOrder(s, t) \/ \E o \in Sessions \ {s} : Unfolds(o, t)
    <3>1. CASE t # u
      <4>1. \A x \in StepsOf(t) : pos'[x] = pos[x]
        BY <2>4, <3>1 DEF StepsOf
      <4> QED BY <1>1, <2>5, <4>1, UntouchedOrder
    <3>2. CASE t = u
      <4>1. IsOrdered(t) \/ \E o \in Sessions \ {s} : Unfolds(o, t)
        <5>1. ~raced
          BY <1>3 DEF Commit
        <5> QED BY <1>1, <5>1 DEF OrderInv
      <4>2. ASSUME IsOrdered(t) PROVE KeepsOrder(s, t)
        <5>1. IsNumbered(t)' /\ Listed'
          BY <2>4, <3>2, <4>2, StepsListedThen
        <5>2. IsOrdered(t)'
          BY <5>1 DEF Listed, Numbers
        <5> QED BY <5>1, <5>2 DEF KeepsOrder
      <4> QED BY <4>1, <4>2
    <3> QED BY <3>1, <3>2
  <2> QED BY <1>1, <1>3, <2>6, OverOrder
<1>4. CASE req' = [req EXCEPT ![s] = None] /\ UNCHANGED <<pos, stale, raced, overlaps>>
  <2>1. req'[s] = None /\ \A o \in Sessions \ {s} : req'[o] = req[o]
    BY <1>4 DEF TypeOK
  <2>2. \A t \in Testsets : ~Reordering(s, t)'
    BY <2>1 DEF Reordering, Pending
  <2> QED BY <1>1, <1>4, <2>1, <2>2, QuietOrder
<1> QED BY <1>2, <1>3, <1>4 DEF SortTest

LEMMA WriteOrder ==
    ASSUME TypeOK, TypeOK', EditInv, OrderInv, ~raced', NEW s \in Sessions, Write(s)
    PROVE  OrderInv'
<1>1. ASSUME NEW k, Pending(s, k), k # "order", Commit(s, None),
             UNCHANGED <<test, pos, halted>>
      PROVE  OrderInv'
  <2>1. \A t \in Testsets : ~Unfinished(s, t) /\ ~Unfolds(s, t)
    BY <1>1 DEF Pending, Unfinished, Unfolds, Reordering
  <2>2. \A t \in Testsets : StepsOf(t)' = StepsOf(t)
    BY <1>1 DEF StepsOf
  <2>3. \A t \in Testsets : KeepsOrder(s, t)
    BY <1>1, <2>1, <2>2, UntouchedOrder
  <2> QED BY <1>1, <2>3, OverOrder
<1>2. ASSUME NEW t \in Testsets, SaveTest(s, t) PROVE OrderInv'
  <2>1. Pending(s, "test") /\ Commit(s, None) /\ UNCHANGED <<test, pos, halted>>
    BY <1>2 DEF SaveTest
  <2> QED BY <1>1, <2>1
<1>3. ASSUME SavePointer(s) PROVE OrderInv'
  <2>1. Pending(s, "point") /\ Commit(s, None) /\ UNCHANGED <<test, pos, halted>>
    BY <1>3 DEF SavePointer
  <2> QED BY <1>1, <2>1
<1> QED BY <1>2, <1>3, SaveStepOrder, DropOrder, SkipStepOrder, MoveStepOrder, SortStepsOrder,
           SortTestOrder DEF Write

LEMMA StepOrder == TypeOK /\ TypeOK' /\ EditInv /\ OrderInv /\ [Next]_vars => OrderInv'
<1> SUFFICES ASSUME TypeOK, TypeOK', EditInv, OrderInv, [Next]_vars, ~raced' PROVE OrderInv'
  BY DEF OrderInv
<1>1. ASSUME UNCHANGED <<test, pos, req, stale, raced, halted>> PROVE OrderInv'
  <2>1. ASSUME NEW s \in Sessions PROVE OrderInv'
    <3>1. \A o \in Sessions : req'[o] = req[o]
      BY <1>1
    <3>2. \A t \in Testsets : /\ Unfinished(s, t)' <=> Unfinished(s, t)
                              /\ Unfolds(s, t)' <=> Unfolds(s, t)
                              /\ Reordering(s, t)' <=> Reordering(s, t)
      BY <3>1, SameRequest
    <3>3. ASSUME NEW t \in Testsets, s \notin stale', Reordering(s, t)', req'[s].sorting
          PROVE  Sorting(s, t)'
      <4>1. Sorting(s, t)
        BY <1>1, <3>1, <3>2, <3>3 DEF OrderInv
      <4>2. \A o \in Sessions : Unfolds(o, t) => Unfolds(o, t)'
        BY <3>1, SameRequest
      <4>3. StepsOf(t)' = StepsOf(t)
        BY <1>1 DEF StepsOf
      <4>4. ASSUME NEW q, NEW f, NEW d, SortsFrom(t, q, f, d, req[s].expected, req[s].moves)
            PROVE  SortsFrom(t, q, f, d, req[s].expected, req[s].moves)'
        BY <1>1, <4>3, <4>4 DEF SortsFrom
      <4> QED BY <1>1, <4>1, <4>2, <4>3, <4>4 DEF Sorting
    <3> QED BY <1>1, <3>1, <3>2, <3>3, QuietOrder
  <2>2. ASSUME Sessions = {} PROVE OrderInv'
    <3>1. \A t \in Testsets : StepsOf(t)' = StepsOf(t)
      BY <1>1 DEF StepsOf
    <3>2. \A t \in Testsets : /\ IsNumbered(t)' <=> IsNumbered(t)
                              /\ IsOrdered(t)' <=> IsOrdered(t)
      BY <1>1, <3>1 DEF IsNumbered, IsOrdered
    <3> QED BY <1>1, <2>2, <3>2 DEF OrderInv
  <2> QED BY <2>1, <2>2
<1>2. CASE UNCHANGED vars
  BY <1>1, <1>2 DEF vars, tables
<1>3. ASSUME NEW r \in Rows, ArchiveActivity(r) PROVE OrderInv'
  BY <1>1, <1>3 DEF ArchiveActivity
<1>4. ASSUME NEW s \in Sessions, req[s] = None, Request(s) PROVE OrderInv'
  BY <1>4, RequestOrder
<1>5. ASSUME NEW s \in Sessions, Write(s) PROVE OrderInv'
  BY <1>5, WriteOrder
<1> QED BY <1>2, <1>3, <1>4, <1>5 DEF Next

LEMMA OrderHolds == Spec => []OrderInv
<1>1. TypeOK /\ EditInv /\ OrderInv /\ [Next]_vars => OrderInv'
  BY StepTypes, StepOrder
<1> QED BY <1>1, InitOrder, EditsSound, PTL DEF Spec

\* Whatever numbers are typed, repeated, left out or too large, and whatever is
\* added, deleted and dropped in between, the steps of a test are numbered from 1
\* when nobody reorders it, and no two share a position but while a blank is being
\* sorted out; tests excepted in which a reorder met an archived activity.
THEOREM OrderKept == Spec => []OrderIsTotal
<1>1. OrderInv => OrderIsTotal
  BY DEF OrderInv, OrderIsTotal, Unfolding, Unfolds, Unfinished
<1> QED BY <1>1, OrderHolds, PTL

-----------------------------------------------------------------------------
(* Reorders of up to three steps that do not race. *)

\* the positions of the steps of a test
Positions(t) == [r \in StepsOf(t) |-> pos[r]]

\* ... after a move: those between the old and the new one make room
Moved(p, move) ==
    [r \in DOMAIN p |->
        IF r = move.row THEN move.to
        ELSE IF p[move.row] < p[r] /\ p[r] <= move.to THEN p[r] - 1
        ELSE IF move.to <= p[r] /\ p[r] < p[move.row] THEN p[r] + 1
        ELSE p[r]]

\* the positions when the moves are done, of which there are three at most
Landed(p, moves) ==
    IF Len(moves) = 0 THEN p
    ELSE IF Len(moves) = 1 THEN Moved(p, moves[1])
    ELSE IF Len(moves) = 2 THEN Moved(Moved(p, moves[1]), moves[2])
    ELSE Moved(Moved(Moved(p, moves[1]), moves[2]), moves[3])

\* session s moves up to three steps to where a user wants them
Reorders(s) ==
    /\ Pending(s, "order") /\ ~req[s].sorting
    /\ \A t \in Testsets : req[s].test = t => Cardinality(StepsOf(t)) <= 3

\* the moves that are left end in the order asked for
Lands(s) ==
    \A t \in Testsets : req[s].test = t =>
        /\ Len(req[s].moves) <= 3
        /\ \A r \in StepsOf(t) : req[s].expected[r] # 0 =>
              Landed(Positions(t), req[s].moves)[r] = req[s].expected[r]

\* Inductive: half way through a reorder the steps already moved may have been
\* shifted away from where they were asked to be.
LandInv == ~raced => \A s \in Sessions \ stale : Reorders(s) => Lands(s)

\* n steps S at the positions p, listed by q in that order, are to be moved in
\* that order to the positions f
Asks(S, n, q, p, f, moves) ==
    /\ n \in 1..3
    /\ q \in [1..n -> S]
    /\ \A r \in S : \E i \in 1..n : q[i] = r
    /\ \A i, j \in 1..n : q[i] = q[j] => i = j
    /\ p = [r \in S |-> p[r]] /\ \A i \in 1..n : p[q[i]] = i
    /\ f \in [S -> 1..n] /\ \A x, y \in S : f[x] = f[y] => x = y
    /\ Len(moves) = n
    /\ \A i \in 1..n : moves[i].row = q[i] /\ moves[i].to = f[q[i]]

\* Steps moved one after the other end where each was asked to be.  From four
\* steps on this is false.
LEMMA ThreeMovesLand ==
    ASSUME NEW S, NEW n, NEW q, NEW p, NEW f, NEW moves, Asks(S, n, q, p, f, moves)
    PROVE  \A r \in S : Landed(p, moves)[r] = f[r]
<1> USE DEF Asks
<1>1. CASE n = 1
  <2> DEFINE a == q[1]
  <2>1. S = {a} /\ a \in S /\ f[a] = 1 /\ moves[1].row = a /\ moves[1].to = 1
    BY <1>1
  <2>2. Moved(p, moves[1])[a] = 1
    BY <2>1 DEF Moved
  <2> HIDE DEF a
  <2> QED BY <1>1, <2>1, <2>2 DEF Landed
<1>2. CASE n = 2
  <2> DEFINE a == q[1]
             b == q[2]
             p1 == Moved(p, moves[1])
             p2 == Moved(p1, moves[2])
  <2>1. /\ S = {a, b} /\ a \in S /\ b \in S /\ a # b
        /\ f[a] \in 1..2 /\ f[b] \in 1..2 /\ f[a] # f[b]
        /\ p[a] = 1 /\ p[b] = 2
        /\ moves[1].row = a /\ moves[1].to = f[a] /\ moves[2].row = b /\ moves[2].to = f[b]
    <3>1. 1..2 = {1, 2}
      OBVIOUS
    <3> QED BY <1>2, <3>1
  <2> HIDE DEF a, b
  <2>2. /\ DOMAIN p1 = S /\ p1[a] = f[a]
        /\ p1[b] = IF 2 <= f[a] THEN 1 ELSE 2
    BY <2>1 DEF Moved
  <2> HIDE DEF p1
  <2>3. /\ p2[b] = f[b]
        /\ p2[a] = IF p1[b] < f[a] /\ f[a] <= f[b] THEN f[a] - 1
                   ELSE IF f[b] <= f[a] /\ f[a] < p1[b] THEN f[a] + 1 ELSE f[a]
    BY <2>1, <2>2 DEF Moved
  <2>4. p2[a] = f[a]
    BY <2>1, <2>2, <2>3
  <2>5. Landed(p, moves) = p2
    BY <1>2 DEF Landed, p1
  <2> HIDE DEF p2
  <2> QED BY <2>1, <2>3, <2>4, <2>5
<1>3. CASE n = 3
  <2> DEFINE a == q[1]
             b == q[2]
             c == q[3]
             p1 == Moved(p, moves[1])
             p2 == Moved(p1, moves[2])
             p3 == Moved(p2, moves[3])
  <2>1. /\ S = {a, b, c} /\ a \in S /\ b \in S /\ c \in S /\ a # b /\ a # c /\ b # c
        /\ f[a] \in 1..3 /\ f[b] \in 1..3 /\ f[c] \in 1..3
        /\ f[a] # f[b] /\ f[a] # f[c] /\ f[b] # f[c]
        /\ p[a] = 1 /\ p[b] = 2 /\ p[c] = 3
        /\ moves[1].row = a /\ moves[1].to = f[a] /\ moves[2].row = b /\ moves[2].to = f[b]
        /\ moves[3].row = c /\ moves[3].to = f[c]
    <3>1. 1..3 = {1, 2, 3}
      OBVIOUS
    <3> QED BY <1>3, <3>1
  <2> HIDE DEF a, b, c
  <2>2. /\ DOMAIN p1 = S /\ p1[a] = f[a]
        /\ p1[b] = IF 2 <= f[a] THEN 1 ELSE 2
        /\ p1[c] = IF 3 <= f[a] THEN 2 ELSE 3
    BY <2>1 DEF Moved
  <2> HIDE DEF p1
  <2>3. /\ DOMAIN p2 = S /\ p2[b] = f[b]
        /\ p2[a] = IF p1[b] < p1[a] /\ p1[a] <= f[b] THEN p1[a] - 1
                   ELSE IF f[b] <= p1[a] /\ p1[a] < p1[b] THEN p1[a] + 1 ELSE p1[a]
        /\ p2[c] = IF p1[b] < p1[c] /\ p1[c] <= f[b] THEN p1[c] - 1
                   ELSE IF f[b] <= p1[c] /\ p1[c] < p1[b] THEN p1[c] + 1 ELSE p1[c]
    BY <2>1, <2>2 DEF Moved
  <2> HIDE DEF p2
  <2>4. /\ p3[c] = f[c]
        /\ p3[a] = IF p2[c] < p2[a] /\ p2[a] <= f[c] THEN p2[a] - 1
                   ELSE IF f[c] <= p2[a] /\ p2[a] < p2[c] THEN p2[a] + 1 ELSE p2[a]
        /\ p3[b] = IF p2[c] < p2[b] /\ p2[b] <= f[c] THEN p2[b] - 1
                   ELSE IF f[c] <= p2[b] /\ p2[b] < p2[c] THEN p2[b] + 1 ELSE p2[b]
    BY <2>1, <2>3 DEF Moved
  <2>5. Landed(p, moves) = p3
    BY <1>3 DEF Landed, p1, p2
  <2> HIDE DEF p3
  <2>6. p3[a] = f[a] /\ p3[b] = f[b]
    <3>1. CASE f[a] = 1
      BY <2>1, <2>2, <2>3, <2>4, <3>1
    <3>2. CASE f[a] = 2
      BY <2>1, <2>2, <2>3, <2>4, <3>2
    <3>3. CASE f[a] = 3
      BY <2>1, <2>2, <2>3, <2>4, <3>3
    <3> QED BY <2>1, <3>1, <3>2, <3>3
  <2> QED BY <2>1, <2>4, <2>5, <2>6
<1>4. n \in 1..3
  OBVIOUS
<1> QED BY <1>1, <1>2, <1>3, <1>4

\* A form that was just sent asks for an order that its moves reach.
LEMMA ChangeOrderLands ==
    ASSUME TypeOK, NEW s \in Sessions, NEW t \in Testsets, NEW numbers \in Typed,
           ChangeOrder(s, t, numbers), Reorders(s)'
    PROVE  Lands(s)'
<1> DEFINE S == StepsOf(t)
           n == Cardinality(S)
<1>1. PICK q \in Listings(t), e \in [Rows -> Nat] :
          /\ e = Expected(q, numbers, Rearranges(t, numbers))
          /\ DOMAIN numbers = DOMAIN q /\ \A i \in DOMAIN q : numbers[i] \in Nat
          /\ Begin(s, Reorder(t, e, Moves(q, numbers), FALSE))
  BY ChangeOrderBegins
<1>2. PICK m : m = Moves(q, numbers)
  OBVIOUS
<1>3. /\ req'[s].test = t /\ req'[s].expected = e /\ req'[s].moves = m
      /\ UNCHANGED <<test, pos>>
  BY <1>1, <1>2 DEF Begin, Reorder, TypeOK, tables
<1>4. S' = S /\ Positions(t)' = Positions(t)
  BY <1>3 DEF StepsOf, Positions
<1>5. /\ IsFiniteSet(S) /\ n \in Nat /\ Sorts(S, pos, q)
      /\ IsNumbered(t) => Numbers(S, pos)
      /\ \A r \in S : r \in Rows /\ pos[r] \in Nat
  BY StepsListed DEF Listed
<1>6. /\ Len(m) = n
      /\ \A i \in 1..n : m[i] = [row |-> q[i], from |-> pos[q[i]], to |-> numbers[i]]
  BY <1>1, <1>2, MovesTypes
<1>7. n <= 3
  BY <1>3, <1>4 DEF Reorders
<1>8. /\ DOMAIN q = 1..n /\ q \in [1..n -> S]
      /\ \A i, j \in 1..n : q[i] = q[j] => i = j
      /\ \A x \in S : \E i \in 1..n : q[i] = x
  <2>1. q \in [1..n -> S]
    BY <1>5 DEF Sorts
  <2> QED BY <1>5, <2>1, SortOnto
<1>9. S # {}
  BY DEF ChangeOrder
<1> HIDE DEF S
<1>10. n \in 1..3
  <2>1. n # 0
    BY <1>5, <1>9, FS_EmptySet
  <2> QED BY <1>5, <1>7, <2>1
<1> HIDE DEF n
<1>11. ASSUME NEW r \in S, e[r] # 0 PROVE Landed(Positions(t), m)[r] = e[r]
  <2>1. Rearranges(t, numbers)
    BY <1>1, <1>5, <1>11 DEF Expected
  <2>2. \A i \in 1..n : pos[q[i]] = i
    BY <1>5, <2>1, SortNumbers DEF Rearranges, n
  <2>3. /\ \A i \in 1..n : numbers[i] \in 1..n
        /\ \A i, j \in 1..n : numbers[i] = numbers[j] => i = j
    <3> DEFINE g == [i \in 1..n |-> numbers[i]]
    <3>1. Range(numbers) = 1..n /\ DOMAIN numbers = 1..n
      BY <1>1, <1>8, <2>1 DEF Rearranges
    <3>2. g \in Surjection(1..n, 1..n)
      BY <3>1 DEF Surjection, Range
    <3>3. IsFiniteSet(1..n) /\ Cardinality(1..n) = Cardinality(1..n)
      BY <1>5, FS_Interval
    <3>4. g \in Injection(1..n, 1..n)
      <4> HIDE DEF g
      <4> QED BY <3>2, <3>3, FS_Surjection
    <3>5. \A i, j \in 1..n : g[i] = g[j] => i = j
      <4> HIDE DEF g
      <4> QED BY <3>4 DEF Injection, IsInjective
    <3> QED BY <3>1, <3>5 DEF Range
  <2>4. ASSUME NEW i \in 1..n PROVE e[q[i]] = numbers[i]
    <3>1. q[i] \in Range(q) /\ q[i] \in Rows
      BY <1>5, <1>8 DEF Range
    <3>2. e[q[i]] = numbers[CHOOSE j \in DOMAIN q : q[j] = q[i]]
      BY <1>1, <2>1, <3>1 DEF Expected
    <3>3. (CHOOSE j \in DOMAIN q : q[j] = q[i]) = i
      BY <1>8
    <3> QED BY <3>2, <3>3
  <2> DEFINE p == Positions(t)
             f == [x \in S |-> e[x]]
  <2>5. p = [x \in S |-> p[x]] /\ \A i \in 1..n : p[q[i]] = i
    BY <1>8, <2>2 DEF Positions, S
  <2>6. f \in [S -> 1..n]
    <3>1. ASSUME NEW x \in S PROVE e[x] \in 1..n
      BY <1>8, <2>3, <2>4
    <3> QED BY <3>1
  <2>7. ASSUME NEW x \in S, NEW y \in S, f[x] = f[y] PROVE x = y
    <3>1. PICK i \in 1..n, j \in 1..n : q[i] = x /\ q[j] = y
      BY <1>8
    <3> QED BY <2>3, <2>4, <2>7, <3>1
  <2>8. \A i \in 1..n : m[i].row = q[i] /\ m[i].to = f[q[i]]
    <3>1. \A i \in 1..n : m[i].row = q[i] /\ m[i].to = numbers[i]
      BY <1>6 DEF n
    <3>2. \A i \in 1..n : f[q[i]] = numbers[i]
      BY <1>8, <2>4
    <3> QED BY <3>1, <3>2
  <2>9. f[r] = e[r]
    OBVIOUS
  <2> HIDE DEF p, f
  <2>10. Asks(S, n, q, p, f, m)
    <3>1. Len(m) = n
      BY <1>6 DEF n
    <3> QED BY <1>8, <1>10, <2>5, <2>6, <2>7, <2>8, <3>1 DEF Asks
  <2>11. Landed(p, m)[r] = f[r]
    BY <2>10, ThreeMovesLand
  <2> QED BY <2>9, <2>11 DEF p
<1>12. Len(m) <= 3
  BY <1>6, <1>10 DEF n
<1> QED BY <1>3, <1>4, <1>11, <1>12 DEF Lands, S

\* A step that leaves the positions and the requests of others alone.
LEMMA QuietLand ==
    ASSUME LandInv, NEW s \in Sessions, UNCHANGED <<test, pos, raced>>,
           \A o \in Sessions \ {s} : req'[o] = req[o] /\ (o \in stale => o \in stale'),
           ~raced /\ s \notin stale' => (Reorders(s)' => Lands(s)')
    PROVE  LandInv'
<1> SUFFICES ASSUME ~raced', NEW o \in Sessions \ stale', Reorders(o)' PROVE Lands(o)'
  BY DEF LandInv
<1>1. CASE o = s
  BY <1>1
<1>2. CASE o # s
  <2>1. o \in Sessions \ stale /\ req'[o] = req[o] /\ ~raced
    BY <1>2
  <2>2. \A t : StepsOf(t)' = StepsOf(t) /\ Positions(t)' = Positions(t)
    BY DEF StepsOf, Positions
  <2>3. Reorders(o)
    BY <2>1, <2>2 DEF Reorders, Pending
  <2>4. Lands(o)
    BY <2>1, <2>3 DEF LandInv
  <2> QED BY <2>1, <2>2, <2>4 DEF Lands
<1> QED BY <1>1, <1>2

\* After a commit only its own session is not stale.
LEMMA CommitLand ==
    ASSUME TypeOK, NEW s \in Sessions, NEW rest, Commit(s, rest),
           ~raced /\ s \notin stale => rest = None \/ (Reorders(s)' => Lands(s)')
    PROVE  LandInv'
<1> SUFFICES ASSUME ~raced', NEW o \in Sessions \ stale', Reorders(o)' PROVE Lands(o)'
  BY DEF LandInv
<1>1. ~raced
  BY DEF Commit
<1>2. req'[o] # None
  BY DEF Reorders, Pending
<1>3. o = s /\ rest # None /\ s \notin stale
  BY <1>2 DEF Commit, TypeOK
<1> QED BY <1>1, <1>3

\* One move brings what is left a step further.
LEMMA MoveStepLands ==
    ASSUME TypeOK, Sound, NEW s \in Sessions, MoveStep(s), Fresh(s), Reorders(s) => Lands(s),
           Reorders(s)'
    PROVE  Lands(s)'
<1>1. PICK m, e : m = req[s].moves /\ e = req[s].expected
  OBVIOUS
<1>2. PICK t \in Testsets : req[s].test = t
  BY PendingKinds DEF MoveStep, Pending
<1>3. PICK move, old : move = Head(req[s].moves) /\ old = OldPosition(s, move)
  OBVIOUS
<1>4. /\ req[s] \in [kind : {"order"}, test : Testsets, expected : [Rows -> Nat],
                     moves : Seq(Move), sorting : BOOLEAN]
      /\ m # << >> /\ move = m[1]
      /\ move.row \in StepsOf(t) /\ old \in Nat /\ move.to \in Nat
      /\ UNCHANGED <<collections, home, test, pointer, hidden>>
      /\ \/ /\ pos' = Inserted(pos, t, move.row, old, move.to)
            /\ Commit(s, [req[s] EXCEPT !.moves = Tail(req[s].moves)])
         \/ Commit(s, None)
  BY <1>1, <1>2, <1>3, MoveStepFresh
<1>5. /\ pos' = Inserted(pos, t, move.row, old, move.to)
      /\ req'[s] = [req[s] EXCEPT !.moves = Tail(m)]
  <2>1. ~Commit(s, None)
    BY DEF Commit, TypeOK, Reorders, Pending
  <2> QED BY <1>1, <1>4, <2>1 DEF Commit, TypeOK
<1>6. /\ req'[s].test = t /\ req'[s].expected = e /\ req'[s].moves = Tail(m)
      /\ req'[s].sorting = req[s].sorting
  BY <1>1, <1>2, <1>4, <1>5
<1>7. StepsOf(t)' = StepsOf(t)
  BY <1>4 DEF StepsOf
<1>8. ~req[s].sorting /\ Reorders(s)
  BY <1>2, <1>6, <1>7 DEF Reorders, MoveStep
<1>9. Positions(t)' = Moved(Positions(t), move)
  <2>1. old = pos[move.row]
    BY <1>3, <1>8 DEF OldPosition
  <2>2. pos \in [Rows -> Nat] /\ \A x \in StepsOf(t) : x \in Rows /\ test[x] = t
    BY DEF TypeOK, StepsOf
  <2>3. move.row \in StepsOf(t) /\ old \in Nat /\ move.to \in Nat
    BY <1>4
  <2>4. ASSUME NEW x \in StepsOf(t)
        PROVE  pos'[x] = IF x = move.row THEN move.to
                         ELSE IF old < pos[x] /\ pos[x] <= move.to THEN pos[x] - 1
                         ELSE IF move.to <= pos[x] /\ pos[x] < old THEN pos[x] + 1
                         ELSE pos[x]
    <3>1. x \in Rows /\ test[x] = t
      BY <2>2
    <3>2. CASE x = move.row
      BY <1>5, <2>1, <2>2, <2>3, <3>1, <3>2, InsertedAt
    <3>3. CASE x # move.row
      BY <1>5, <2>1, <2>2, <2>3, <3>1, <3>3, InsertedAt
    <3> QED BY <3>2, <3>3
  <2>5. Positions(t)' = [x \in StepsOf(t) |-> pos'[x]]
    BY <1>7 DEF Positions
  <2> QED BY <2>1, <2>3, <2>4, <2>5 DEF Positions, Moved
<1>10. /\ Len(m) <= 3
       /\ \A r \in StepsOf(t) : e[r] # 0 => Landed(Positions(t), m)[r] = e[r]
  BY <1>1, <1>2, <1>8 DEF Lands
<1>11. /\ m \in Seq(Move) /\ Len(m) \in Nat \ {0} /\ move = m[1]
       /\ Len(Tail(m)) = Len(m) - 1
       /\ \A j \in 1..Len(m) - 1 : Tail(m)[j] = m[j + 1]
  <2>1. m \in Seq(Move) /\ m # << >>
    BY <1>1, <1>4
  <2>2. Len(m) \in Nat \ {0}
    BY <2>1, EmptySeq
  <2> QED BY <1>4, <2>1, <2>2, HeadTailProperties
<1>12. Landed(Moved(Positions(t), m[1]), Tail(m)) = Landed(Positions(t), m)
  <2>1. Len(m) = 1 \/ Len(m) = 2 \/ Len(m) = 3
    BY <1>10, <1>11
  <2>2. CASE Len(m) = 1
    BY <1>11, <2>2 DEF Landed
  <2>3. CASE Len(m) = 2
    <3>1. Len(Tail(m)) = 1 /\ 1 \in 1..Len(m) - 1
      BY <1>11, <2>3
    <3>2. Tail(m)[1] = m[1 + 1]
      BY <1>11, <3>1
    <3>3. 1 + 1 = 2
      OBVIOUS
    <3>4. Tail(m)[1] = m[2]
      BY <3>2, <3>3, Zenon
    <3> QED BY <2>3, <3>1, <3>4 DEF Landed
  <2>4. CASE Len(m) = 3
    <3>1. Len(Tail(m)) = 2 /\ 1 \in 1..Len(m) - 1 /\ 2 \in 1..Len(m) - 1
      BY <1>11, <2>4
    <3>2. Tail(m)[1] = m[1 + 1] /\ Tail(m)[2] = m[2 + 1]
      BY <1>11, <3>1
    <3>3. 1 + 1 = 2 /\ 2 + 1 = 3
      OBVIOUS
    <3>4. Tail(m)[1] = m[2] /\ Tail(m)[2] = m[3]
      BY <3>2, <3>3, Zenon
    <3>5. PICK p : p = Moved(Positions(t), m[1])
      OBVIOUS
    <3>6. Landed(p, Tail(m)) = Moved(Moved(p, m[2]), m[3])
      BY <3>1, <3>4 DEF Landed
    <3>7. Landed(Positions(t), m) = Moved(Moved(p, m[2]), m[3])
      BY <2>4, <3>5 DEF Landed
    <3> QED BY <3>5, <3>6, <3>7
  <2> QED BY <2>1, <2>2, <2>3, <2>4
<1>13. Len(Tail(m)) <= 3
  BY <1>10, <1>11
<1>14. \A r \in StepsOf(t)' : e[r] # 0 => Landed(Positions(t)', Tail(m))[r] = e[r]
  BY <1>7, <1>9, <1>10, <1>11, <1>12
<1> QED BY <1>6, <1>13, <1>14 DEF Lands

LEMMA StepLand == TypeOK /\ EditInv /\ LandInv /\ [Next]_vars => LandInv'
<1> SUFFICES ASSUME TypeOK, EditInv, LandInv, [Next]_vars PROVE LandInv'
  OBVIOUS
<1>1. ASSUME UNCHANGED <<test, pos, req, stale, raced>> PROVE LandInv'
  <2>1. \A t : StepsOf(t)' = StepsOf(t) /\ Positions(t)' = Positions(t)
    BY <1>1 DEF StepsOf, Positions
  <2>2. \A s \in Sessions : (Reorders(s)' <=> Reorders(s)) /\ (Lands(s)' <=> Lands(s))
    BY <1>1, <2>1 DEF Reorders, Lands, Pending
  <2> QED BY <1>1, <2>2 DEF LandInv
<1>2. CASE UNCHANGED vars
  BY <1>1, <1>2 DEF vars, tables
<1>3. ASSUME NEW r \in Rows, ArchiveActivity(r) PROVE LandInv'
  BY <1>1, <1>3 DEF ArchiveActivity
<1>4. ASSUME NEW s \in Sessions, NEW r, Begin(s, r), Reorders(s)' => Lands(s)' PROVE LandInv'
  <2>1. /\ UNCHANGED <<test, pos, raced>>
        /\ \A o \in Sessions \ {s} : req'[o] = req[o] /\ (o \in stale => o \in stale')
    BY <1>4 DEF Begin, TypeOK, tables
  <2> QED BY <1>4, <2>1, QuietLand
<1>5. ASSUME NEW s \in Sessions, NEW r, Begin(s, r), r.kind # "order" PROVE LandInv'
  <2>1. ~Reorders(s)'
    BY <1>5 DEF Begin, TypeOK, Reorders, Pending
  <2> QED BY <1>4, <1>5, <2>1
<1>6. ASSUME NEW s \in Sessions, Commit(s, None) PROVE LandInv'
  BY <1>6, CommitLand
<1>7. ASSUME NEW s \in Sessions, req[s] = None, Request(s) PROVE LandInv'
  <2>1. ASSUME NEW c \in Collections, NewTest(s, c) \/ DropCollection(s, c) PROVE LandInv'
    BY <1>5, <2>1 DEF NewTest, DropCollection
  <2>2. ASSUME NEW t \in Testsets, DropTest(s, t) PROVE LandInv'
    BY <1>5, <2>2 DEF DropTest
  <2>3. ASSUME NEW t \in Testsets, NEW p, NewStep(s, t, p) PROVE LandInv'
    BY <1>5, <2>3 DEF NewStep
  <2>4. ASSUME NEW r \in Rows, NEW p, Repoint(s, r, p) PROVE LandInv'
    BY <1>5, <2>4 DEF Repoint
  <2>5. ASSUME NEW r \in Rows, DeleteStep(s, r) PROVE LandInv'
    BY <1>6, <2>5 DEF DeleteStep
  <2>6. ASSUME NEW t \in Testsets, RenameTest(s, t) PROVE LandInv'
    BY <1>5, <2>6 DEF RenameTest
  <2>7. ASSUME NEW t \in Testsets, NEW numbers \in Typed, ChangeOrder(s, t, numbers)
        PROVE  LandInv'
    <3>1. PICK r : Begin(s, r)
      BY <2>7 DEF ChangeOrder
    <3>2. Reorders(s)' => Lands(s)'
      BY <2>7, ChangeOrderLands
    <3> QED BY <1>4, <3>1, <3>2
  <2> QED BY <1>7, <2>1, <2>2, <2>3, <2>4, <2>5, <2>6, <2>7 DEF Request
<1>8. ASSUME NEW s \in Sessions, Write(s) PROVE LandInv'
  <2>1. ASSUME NEW t \in Testsets, SaveTest(s, t) PROVE LandInv'
    BY <1>6, <2>1 DEF SaveTest
  <2>2. ASSUME NEW r \in Rows, SaveStep(s, r) PROVE LandInv'
    BY <1>6, <2>2 DEF SaveStep
  <2>3. CASE SavePointer(s) \/ Drop(s)
    BY <1>6, <2>3 DEF SavePointer, Drop
  <2>4. ASSUME UNCHANGED <<test, pos, raced>>, stale' = stale,
               \A o \in Sessions \ {s} : req'[o] = req[o],
               req'[s] = None \/ req'[s].sorting
        PROVE  LandInv'
    <3>1. ~Reorders(s)'
      BY <2>4 DEF Reorders, Pending
    <3> QED BY <2>4, <3>1, QuietLand
  <2>5. CASE SkipStep(s)
    <3>1. req[s] \in [kind : {"order"}, test : Testsets, expected : [Rows -> Nat],
                      moves : Seq(Move), sorting : BOOLEAN]
      BY <2>5, PendingKinds DEF SkipStep, Pending
    <3>2. req' = [req EXCEPT ![s].moves = Tail(@)] /\ req[s].sorting
      BY <2>5 DEF SkipStep, InPlace
    <3>3. req'[s].sorting /\ \A o \in Sessions \ {s} : req'[o] = req[o]
      BY <3>1, <3>2 DEF TypeOK
    <3> QED BY <2>4, <2>5, <3>3 DEF SkipStep, tables
  <2>6. CASE SortSteps(s)
    <3>1. (req'[s] = None \/ req'[s].sorting) /\ \A o \in Sessions \ {s} : req'[o] = req[o]
      BY <2>6 DEF SortSteps, Reorder, TypeOK
    <3> QED BY <2>4, <2>6, <3>1 DEF SortSteps, tables
  <2>7. CASE MoveStep(s)
    <3>1. PICK x \in {None, [req[s] EXCEPT !.moves = Tail(req[s].moves)]} : Commit(s, x)
      BY <2>7 DEF MoveStep
    <3>2. ASSUME ~raced, s \notin stale PROVE Reorders(s)' => Lands(s)'
      <4>1. Sound /\ Fresh(s) /\ (Reorders(s) => Lands(s))
        BY <2>7, <3>2 DEF EditInv, LandInv, MoveStep, Pending
      <4> QED BY <2>7, <4>1, MoveStepLands
    <3> QED BY <3>1, <3>2, CommitLand
  <2>8. CASE SortTest(s)
    <3>1. CASE Commit(s, None)
      BY <1>6, <3>1
    <3>2. CASE req' = [req EXCEPT ![s] = None] /\ UNCHANGED <<pos, stale, raced, overlaps>>
      <4>1. req'[s] = None /\ \A o \in Sessions \ {s} : req'[o] = req[o]
        BY <3>2 DEF TypeOK
      <4> QED BY <2>4, <2>8, <3>2, <4>1 DEF SortTest
    <3> QED BY <2>8, <3>1, <3>2 DEF SortTest
  <2> QED BY <1>8, <2>1, <2>2, <2>3, <2>5, <2>6, <2>7, <2>8 DEF Write
<1> QED BY <1>2, <1>3, <1>7, <1>8 DEF Next

\* When its last move is made, a reorder has put each step where it is expected.
LEMMA MovesDone ==
    ASSUME TypeOK, OrderInv, LandInv, ~raced, NEW s \in Sessions, s \notin stale,
           Pending(s, "order"), req[s].moves = << >>, NEW t \in Testsets, req[s].test = t,
           req[s].sorting \/ Cardinality(StepsOf(t)) <= 3,
           NEW r \in StepsOf(t), req[s].expected[r] # 0
    PROVE  pos[r] = req[s].expected[r]
<1>1. CASE ~req[s].sorting
  <2>1. Reorders(s)
    BY <1>1 DEF Reorders
  <2>2. Landed(Positions(t), req[s].moves)[r] = req[s].expected[r]
    BY <2>1 DEF LandInv, Lands
  <2>3. Len(req[s].moves) = 0
    BY EmptySeq
  <2> QED BY <2>2, <2>3 DEF Landed, Positions
<1>2. CASE req[s].sorting
  <2>1. Sorting(s, t)
    BY <1>2 DEF OrderInv, Reordering
  <2>2. PICK q, f, d : SortsFrom(t, q, f, d, req[s].expected, req[s].moves)
    BY <2>1 DEF Sorting
  <2> DEFINE S == StepsOf(t)
             n == Cardinality(S)
  <2>3. IsFiniteSet(S) /\ n \in Nat
    BY StepsAreFinite
  <2>4. Half(S, pos, q, f, d) /\ \A i \in 1..n : req[s].expected[q[i]] = i
    BY <2>2 DEF SortsFrom
  <2>5. d = n
    <3>1. Len(req[s].moves) = n - d /\ Len(req[s].moves) = 0
      BY <2>2, EmptySeq DEF SortsFrom
    <3>2. d \in 0..n
      BY <2>4 DEF Half
    <3> QED BY <2>3, <3>1, <3>2
  <2>6. \A i \in 1..n : pos[q[i]] = i
    BY <2>4, <2>5 DEF Half
  <2>7. \E i \in 1..n : q[i] = r
    <3>1. q \in Injection(1..n, S)
      BY <2>4 DEF Half, Injection, IsInjective
    <3>2. IsFiniteSet(1..n) /\ Cardinality(1..n) = n
      BY <2>3, FS_Interval
    <3> HIDE DEF n, S
    <3>3. q \in Surjection(1..n, S)
      BY <2>3, <3>1, <3>2, FS_Injection DEF n
    <3> QED BY <3>3 DEF Surjection, S
  <2> QED BY <2>4, <2>6, <2>7
<1> QED BY <1>1, <1>2

\* change_order does what it is asked for if up to three numbered steps are given
\* a number each and nobody else commits meanwhile, and sorting numbers the steps
\* in the order they were found in, for any number of tests, steps and sessions.
THEOREM ReordersLand == Spec => []ReorderHonoured
<1>1. Init => LandInv
  BY DEF Init, LandInv, Reorders, Pending
<1>2. Spec => []LandInv
  BY <1>1, EditsSound, StepLand, PTL DEF Spec
<1>3. TypeOK /\ OrderInv /\ LandInv => ReorderHonoured
  <2> SUFFICES ASSUME TypeOK, OrderInv, LandInv, ~raced, NEW s \in Sessions, s \notin stale,
                      Pending(s, "order"), req[s].moves = << >>,
                      req[s].sorting \/ Cardinality(StepsOf(req[s].test)) <= 3,
                      NEW r \in StepsOf(req[s].test), req[s].expected[r] # 0
               PROVE  pos[r] = req[s].expected[r]
    BY DEF ReorderHonoured
  <2>1. PICK t \in Testsets : req[s].test = t
    BY PendingKinds DEF Pending
  <2> QED BY <2>1, MovesDone
<1> QED BY <1>2, <1>3, EditsSound, OrderHolds, PTL

-----------------------------------------------------------------------------
(* The outline: a test as the list of its steps. *)

\* What taking an item out of a list leaves, item by item.
LEMMA RemovedItems ==
    ASSUME NEW A, NEW l \in Seq(A), NEW i \in 1..Len(l)
    PROVE  /\ Outline!RemoveAt(l, i) \in Seq(A)
           /\ Len(Outline!RemoveAt(l, i)) = Len(l) - 1
           /\ \A k \in 1..Len(l) - 1 :
                 Outline!RemoveAt(l, i)[k] = IF k < i THEN l[k] ELSE l[k + 1]
<1> DEFINE a == SubSeq(l, 1, i - 1)
           b == SubSeq(l, i + 1, Len(l))
<1>1. Len(l) \in Nat /\ \A k \in 1..Len(l) : l[k] \in A
  BY LenProperties
<1>2. /\ a \in Seq(A) /\ Len(a) = i - 1
      /\ \A k \in 1..i - 1 : a[k] = l[k]
  <2>1. 1 \in Int /\ i - 1 \in Int /\ \A k \in 1..i - 1 : l[k] \in A
    BY <1>1
  <2>2. /\ a \in Seq(A) /\ Len(a) = IF 1 <= i - 1 THEN (i - 1) - 1 + 1 ELSE 0
        /\ \A k \in 1..(i - 1) - 1 + 1 : a[k] = l[1 + k - 1]
    BY <2>1, SubSeqProperties
  <2> HIDE DEF a
  <2> QED BY <1>1, <2>2
<1>3. /\ b \in Seq(A) /\ Len(b) = Len(l) - i
      /\ \A k \in 1..Len(l) - i : b[k] = l[k + i]
  <2>1. i + 1 \in Int /\ Len(l) \in Int /\ \A k \in i + 1..Len(l) : l[k] \in A
    BY <1>1
  <2>2. /\ b \in Seq(A) /\ Len(b) = IF i + 1 <= Len(l) THEN Len(l) - (i + 1) + 1 ELSE 0
        /\ \A k \in 1..Len(l) - (i + 1) + 1 : b[k] = l[i + 1 + k - 1]
    BY <2>1, SubSeqProperties
  <2> HIDE DEF b
  <2> QED BY <1>1, <2>2
<1>4. Outline!RemoveAt(l, i) = a \o b
  BY DEF Outline!RemoveAt
<1> HIDE DEF a, b
<1>5. /\ a \o b \in Seq(A) /\ Len(a \o b) = Len(a) + Len(b)
      /\ \A k \in 1..Len(a) + Len(b) :
            (a \o b)[k] = IF k <= Len(a) THEN a[k] ELSE b[k - Len(a)]
  BY <1>2, <1>3, ConcatProperties
<1>6. ASSUME NEW k \in 1..Len(l) - 1
      PROVE  (a \o b)[k] = IF k < i THEN l[k] ELSE l[k + 1]
  <2>1. CASE k < i
    BY <1>1, <1>2, <1>3, <1>5, <2>1
  <2>2. CASE k >= i
    <3>1. (a \o b)[k] = b[k - (i - 1)] /\ k - (i - 1) \in 1..Len(l) - i
      BY <1>1, <1>2, <1>3, <1>5, <2>2
    <3>2. k - (i - 1) + i = k + 1
      BY <1>1
    <3> QED BY <1>3, <2>2, <3>1, <3>2
  <2>3. k < i \/ k >= i
    BY <1>1
  <2> QED BY <2>1, <2>2, <2>3
<1> QED BY <1>1, <1>2, <1>3, <1>4, <1>5, <1>6

\* ... and what putting one in makes of it.
LEMMA InsertedItems ==
    ASSUME NEW A, NEW l \in Seq(A), NEW i \in 1..Len(l) + 1, NEW e \in A
    PROVE  /\ Outline!InsertAt(l, i, e) \in Seq(A)
           /\ Len(Outline!InsertAt(l, i, e)) = Len(l) + 1
           /\ \A k \in 1..Len(l) + 1 :
                 Outline!InsertAt(l, i, e)[k] =
                    IF k < i THEN l[k] ELSE IF k = i THEN e ELSE l[k - 1]
<1> DEFINE a == SubSeq(l, 1, i - 1)
           b == SubSeq(l, i, Len(l))
           c == a \o <<e>>
<1>1. Len(l) \in Nat /\ \A k \in 1..Len(l) : l[k] \in A
  BY LenProperties
<1>2. /\ a \in Seq(A) /\ Len(a) = i - 1
      /\ \A k \in 1..i - 1 : a[k] = l[k]
  <2>1. 1 \in Int /\ i - 1 \in Int /\ \A k \in 1..i - 1 : l[k] \in A
    BY <1>1
  <2>2. /\ a \in Seq(A) /\ Len(a) = IF 1 <= i - 1 THEN (i - 1) - 1 + 1 ELSE 0
        /\ \A k \in 1..(i - 1) - 1 + 1 : a[k] = l[1 + k - 1]
    BY <2>1, SubSeqProperties
  <2> HIDE DEF a
  <2> QED BY <1>1, <2>2
<1>3. /\ b \in Seq(A) /\ Len(b) = Len(l) - i + 1
      /\ \A k \in 1..Len(l) - i + 1 : b[k] = l[k + i - 1]
  <2>1. i \in Int /\ Len(l) \in Int /\ \A k \in i..Len(l) : l[k] \in A
    BY <1>1
  <2>2. /\ b \in Seq(A) /\ Len(b) = IF i <= Len(l) THEN Len(l) - i + 1 ELSE 0
        /\ \A k \in 1..Len(l) - i + 1 : b[k] = l[i + k - 1]
    BY <2>1, SubSeqProperties
  <2> HIDE DEF b
  <2> QED BY <1>1, <2>2
<1>4. Outline!InsertAt(l, i, e) = c \o b
  BY DEF Outline!InsertAt
<1>5. <<e>> \in Seq(A) /\ Len(<<e>>) = 1 /\ <<e>>[1] = e
  OBVIOUS
<1> HIDE DEF a, b
<1>6. /\ c \in Seq(A) /\ Len(c) = i
      /\ \A k \in 1..i : c[k] = IF k < i THEN l[k] ELSE e
  <2>1. /\ c \in Seq(A) /\ Len(c) = Len(a) + Len(<<e>>)
        /\ \A k \in 1..Len(a) + Len(<<e>>) :
              c[k] = IF k <= Len(a) THEN a[k] ELSE <<e>>[k - Len(a)]
    BY <1>2, <1>5, ConcatProperties
  <2> HIDE DEF c
  <2>2. ASSUME NEW k \in 1..i PROVE c[k] = IF k < i THEN l[k] ELSE e
    <3>1. CASE k < i
      BY <1>1, <1>2, <1>5, <2>1, <3>1
    <3>2. CASE k = i
      <4>1. c[k] = <<e>>[k - Len(a)] /\ k - Len(a) = 1
        BY <1>1, <1>2, <1>5, <2>1, <3>2
      <4> QED BY <1>5, <3>2, <4>1
    <3> QED BY <1>1, <3>1, <3>2
  <2> QED BY <1>1, <1>2, <1>5, <2>1, <2>2
<1> HIDE DEF c
<1>7. /\ c \o b \in Seq(A) /\ Len(c \o b) = Len(c) + Len(b)
      /\ \A k \in 1..Len(c) + Len(b) :
            (c \o b)[k] = IF k <= Len(c) THEN c[k] ELSE b[k - Len(c)]
  BY <1>3, <1>6, ConcatProperties
<1>8. ASSUME NEW k \in 1..Len(l) + 1
      PROVE  (c \o b)[k] = IF k < i THEN l[k] ELSE IF k = i THEN e ELSE l[k - 1]
  <2>1. CASE k <= i
    BY <1>1, <1>3, <1>6, <1>7, <2>1
  <2>2. CASE k > i
    <3>1. (c \o b)[k] = b[k - i] /\ k - i \in 1..Len(l) - i + 1
      BY <1>1, <1>3, <1>6, <1>7, <2>2
    <3>2. b[k - i] = l[k - i + i - 1] /\ k - i + i - 1 = k - 1
      BY <1>1, <1>3, <3>1
    <3>3. ~(k < i) /\ k # i
      BY <1>1, <2>2
    <3> QED BY <3>1, <3>2, <3>3
  <2>3. k <= i \/ k > i
    BY <1>1
  <2> QED BY <2>1, <2>2, <2>3
<1> QED BY <1>1, <1>3, <1>4, <1>6, <1>7, <1>8

\* A list without one of its members lists the others ...
LEMMA RemovedLists ==
    ASSUME NEW S, IsFiniteSet(S), NEW p, NEW l, Sorts(S, p, l), NEW i \in 1..Cardinality(S)
    PROVE  LET m == Outline!RemoveAt(l, i)
               n == Cardinality(S) IN
           /\ m \in Seq(S) /\ Len(m) = n - 1 /\ DOMAIN m = 1..n - 1
           /\ \A k \in 1..n - 1 : m[k] = IF k < i THEN l[k] ELSE l[k + 1]
           /\ \A k \in 1..n - 1 : m[k] \in S \ {l[i]}
           /\ Outline!ToSet(m) = S \ {l[i]}
           /\ \A a, b \in 1..n - 1 : a < b => m[a] # m[b] /\ p[m[a]] <= p[m[b]]
<1> DEFINE n == Cardinality(S)
           m == Outline!RemoveAt(l, i)
<1>1. /\ n \in Nat /\ l \in [1..n -> S]
      /\ \A a, b \in 1..n : l[a] = l[b] => a = b
      /\ \A x \in S : \E a \in 1..n : l[a] = x
      /\ \A a, b \in 1..n : a < b => l[a] # l[b] /\ p[l[a]] <= p[l[b]]
  <2>1. /\ l \in [1..n -> S]
        /\ \A a, b \in 1..n : a < b => l[a] # l[b] /\ p[l[a]] <= p[l[b]]
    BY DEF Sorts
  <2> QED BY <2>1, SortOnto
<1> HIDE DEF n
<1>2. l \in Seq(S) /\ Len(l) = n
  BY <1>1, FunctionIsSeq, LenProperties
<1>3. /\ m \in Seq(S) /\ Len(m) = n - 1
      /\ \A k \in 1..n - 1 : m[k] = IF k < i THEN l[k] ELSE l[k + 1]
  <2>1. i \in 1..Len(l)
    BY <1>2 DEF n
  <2> QED BY <1>2, <2>1, RemovedItems
<1> HIDE DEF m
<1>4. DOMAIN m = 1..n - 1
  BY <1>3, LenProperties
<1>5. ASSUME NEW k \in 1..n - 1
      PROVE  \E x \in 1..n : x # i /\ m[k] = l[x] /\ x = IF k < i THEN k ELSE k + 1
  <2>1. k \in 1..n /\ k + 1 \in 1..n /\ i \in 1..n
    BY <1>1 DEF n
  <2>2. CASE k < i
    BY <1>3, <2>1, <2>2
  <2>3. CASE ~(k < i)
    <3>1. m[k] = l[k + 1] /\ k + 1 # i
      BY <1>3, <2>1, <2>3
    <3> QED BY <2>1, <2>3, <3>1
  <2> QED BY <2>2, <2>3
<1>6. ASSUME NEW k \in 1..n - 1 PROVE m[k] \in S \ {l[i]}
  <2>1. PICK x \in 1..n : x # i /\ m[k] = l[x]
    BY <1>5
  <2> QED BY <1>1, <2>1 DEF n
<1>7. ASSUME NEW x \in S \ {l[i]} PROVE \E k \in 1..n - 1 : m[k] = x
  <2>1. PICK a \in 1..n : l[a] = x
    BY <1>1
  <2>2. a # i /\ i \in 1..n
    BY <2>1 DEF n
  <2>3. CASE a < i
    <3>1. a \in 1..n - 1
      BY <1>1, <2>2, <2>3
    <3> QED BY <1>3, <2>1, <2>3, <3>1
  <2>4. CASE a > i
    <3>1. a - 1 \in 1..n - 1 /\ ~(a - 1 < i) /\ a - 1 + 1 = a
      BY <1>1, <2>2, <2>4
    <3>2. m[a - 1] = l[a]
      BY <1>3, <3>1
    <3> QED BY <2>1, <3>1, <3>2
  <2> QED BY <1>1, <2>2, <2>3, <2>4
<1>8. Outline!ToSet(m) = S \ {l[i]}
  BY <1>4, <1>6, <1>7 DEF Outline!ToSet
<1>9. ASSUME NEW a \in 1..n - 1, NEW b \in 1..n - 1, a < b
      PROVE  m[a] # m[b] /\ p[m[a]] <= p[m[b]]
  <2>1. PICK x \in 1..n : m[a] = l[x] /\ x = IF a < i THEN a ELSE a + 1
    BY <1>5
  <2>2. PICK y \in 1..n : m[b] = l[y] /\ y = IF b < i THEN b ELSE b + 1
    BY <1>5
  <2>3. x < y
    BY <1>1, <1>9, <2>1, <2>2
  <2> QED BY <1>1, <2>1, <2>2, <2>3
<1> QED BY <1>3, <1>4, <1>6, <1>8, <1>9 DEF m, n

\* ... in the order of their positions, when they have moved up.
LEMMA RemovedSorts ==
    ASSUME NEW S, IsFiniteSet(S), NEW p, \A x \in S : p[x] \in Nat, Distinct(S, p),
           NEW l, Sorts(S, p, l), NEW i \in 1..Cardinality(S), NEW g,
           \A x \in S \ {l[i]} : g[x] = IF p[x] > p[l[i]] THEN p[x] - 1 ELSE p[x]
    PROVE  Sorts(S \ {l[i]}, g, Outline!RemoveAt(l, i))
<1> DEFINE n == Cardinality(S)
           m == Outline!RemoveAt(l, i)
           r == l[i]
<1>1. /\ m \in Seq(S) /\ Len(m) = n - 1 /\ DOMAIN m = 1..n - 1
      /\ \A k \in 1..n - 1 : m[k] \in S \ {r}
      /\ \A a, b \in 1..n - 1 : a < b => m[a] # m[b] /\ p[m[a]] <= p[m[b]]
  BY RemovedLists
<1> HIDE DEF m
<1>2. r \in S /\ Cardinality(S \ {r}) = n - 1
  <2>1. r \in S
    BY DEF Sorts
  <2> QED BY <2>1, FS_RemoveElement
<1>3. m \in [1..n - 1 -> S \ {r}]
  BY <1>1
<1>4. ASSUME NEW a \in 1..n - 1, NEW b \in 1..n - 1, a < b PROVE g[m[a]] <= g[m[b]]
  <2>1. /\ m[a] \in S \ {r} /\ m[b] \in S \ {r} /\ m[a] # m[b]
        /\ p[m[a]] <= p[m[b]]
    BY <1>1, <1>4
  <2>2. p[m[a]] # p[m[b]] /\ p[m[a]] \in Nat /\ p[m[b]] \in Nat /\ p[r] \in Nat
    BY <1>2, <2>1 DEF Distinct
  <2>3. /\ g[m[a]] = IF p[m[a]] > p[r] THEN p[m[a]] - 1 ELSE p[m[a]]
        /\ g[m[b]] = IF p[m[b]] > p[r] THEN p[m[b]] - 1 ELSE p[m[b]]
    BY <2>1
  <2> HIDE DEF r
  <2> QED BY <2>1, <2>2, <2>3
<1> HIDE DEF n, r
<1>5. Sorts(S \ {r}, g, m)
  BY <1>1, <1>2, <1>3, <1>4 DEF Sorts
<1> QED BY <1>5 DEF m, r

\* A new member that is below all others comes last.
LEMMA AppendedSorts ==
    ASSUME NEW S, IsFiniteSet(S), NEW p, NEW r, r \notin S, NEW l, Sorts(S, p, l), NEW g,
           \A x \in S : g[x] = p[x] /\ p[x] <= g[r]
    PROVE  /\ Len(Append(l, r)) = Cardinality(S) + 1
           /\ Outline!ToSet(Append(l, r)) = S \cup {r}
           /\ Sorts(S \cup {r}, g, Append(l, r))
<1> DEFINE n == Cardinality(S)
           q == Append(l, r)
<1>1. /\ n \in Nat /\ l \in [1..n -> S]
      /\ \A x \in S : \E a \in 1..n : l[a] = x
      /\ \A a, b \in 1..n : a < b => l[a] # l[b] /\ p[l[a]] <= p[l[b]]
  <2>1. /\ l \in [1..n -> S]
        /\ \A a, b \in 1..n : a < b => l[a] # l[b] /\ p[l[a]] <= p[l[b]]
    BY DEF Sorts
  <2> QED BY <2>1, SortOnto
<1>2. Cardinality(S \cup {r}) = n + 1
  BY FS_AddElement
<1> HIDE DEF n
<1>3. l \in Seq(S \cup {r}) /\ Len(l) = n
  <2>1. l \in [1..n -> S \cup {r}]
    BY <1>1
  <2> QED BY <1>1, <2>1, FunctionIsSeq, LenProperties
<1>4. /\ q \in Seq(S \cup {r}) /\ Len(q) = n + 1 /\ q[n + 1] = r
      /\ \A i \in 1..n : q[i] = l[i]
  BY <1>1, <1>3, AppendProperties
<1> HIDE DEF q
<1>5. DOMAIN q = 1..n + 1
  BY <1>4, LenProperties
<1>6. q \in [1..n + 1 -> S \cup {r}]
  BY <1>4, <1>5, LenProperties
<1>7. Outline!ToSet(q) = S \cup {r}
  <2>1. \A x \in S : \E k \in 1..n + 1 : q[k] = x
    BY <1>1, <1>4
  <2>2. n + 1 \in 1..n + 1
    BY <1>1
  <2> QED BY <1>4, <1>5, <1>6, <2>1, <2>2 DEF Outline!ToSet
<1>8. ASSUME NEW a \in 1..n + 1, NEW b \in 1..n + 1, a < b
      PROVE  q[a] # q[b] /\ g[q[a]] <= g[q[b]]
  <2>1. a \in 1..n /\ q[a] = l[a] /\ l[a] \in S
    BY <1>1, <1>4, <1>8
  <2>2. CASE b = n + 1
    BY <1>4, <2>1, <2>2
  <2>3. CASE b # n + 1
    <3>1. b \in 1..n /\ q[b] = l[b] /\ l[b] \in S
      BY <1>1, <1>4, <2>3
    <3> QED BY <1>1, <1>8, <2>1, <3>1
  <2> QED BY <2>2, <2>3
<1>9. Sorts(S \cup {r}, g, q)
  BY <1>2, <1>6, <1>8 DEF Sorts
<1> QED BY <1>4, <1>7, <1>9 DEF n, q

\* A member that moves finds its place among the others, which keep their order.
LEMMA MovedSorts ==
    ASSUME NEW S, IsFiniteSet(S), NEW p, \A x \in S : p[x] \in Nat, Distinct(S, p),
           NEW l, Sorts(S, p, l), NEW i \in 1..Cardinality(S), NEW to \in Nat, NEW g,
           g[l[i]] = to, Distinct(S, g),
           \A x \in S \ {l[i]} :
              g[x] = IF p[l[i]] < p[x] /\ p[x] <= to THEN p[x] - 1
                     ELSE IF to <= p[x] /\ p[x] < p[l[i]] THEN p[x] + 1
                     ELSE p[x]
    PROVE  \E j \in 1..Cardinality(S) :
              Sorts(S, g, Outline!InsertAt(Outline!RemoveAt(l, i), j, l[i]))
<1> DEFINE n == Cardinality(S)
           m == Outline!RemoveAt(l, i)
           r == l[i]
<1>1. /\ m \in Seq(S) /\ Len(m) = n - 1
      /\ \A k \in 1..n - 1 : m[k] \in S \ {r}
      /\ \A a, b \in 1..n - 1 : a < b => m[a] # m[b] /\ p[m[a]] <= p[m[b]]
  BY RemovedLists
<1> HIDE DEF m
<1>2. r \in S /\ n \in Nat /\ p[r] \in Nat /\ n - 1 \in Nat
  <2>1. r \in S /\ n \in Nat
    BY FS_CardinalityType DEF Sorts
  <2> QED BY <2>1
<1>3. \A k \in 1..n - 1 : g[m[k]] \in Int /\ g[m[k]] # to
  <2> SUFFICES ASSUME NEW k \in 1..n - 1 PROVE g[m[k]] \in Int /\ g[m[k]] # to
    OBVIOUS
  <2>1. m[k] \in S /\ m[k] # r /\ p[m[k]] \in Nat
    BY <1>1
  <2> QED BY <1>2, <2>1 DEF Distinct
<1>4. ASSUME NEW a \in 1..n - 1, NEW b \in 1..n - 1, a < b PROVE g[m[a]] < g[m[b]]
  <2>1. /\ m[a] \in S \ {r} /\ m[b] \in S \ {r} /\ m[a] # m[b]
        /\ p[m[a]] <= p[m[b]]
    BY <1>1, <1>4
  <2>2. /\ p[m[a]] # p[m[b]] /\ p[m[a]] # p[r] /\ p[m[b]] # p[r] /\ g[m[a]] # g[m[b]]
        /\ p[m[a]] \in Nat /\ p[m[b]] \in Nat
    BY <1>2, <2>1 DEF Distinct
  <2>3. /\ g[m[a]] = IF p[r] < p[m[a]] /\ p[m[a]] <= to THEN p[m[a]] - 1
                     ELSE IF to <= p[m[a]] /\ p[m[a]] < p[r] THEN p[m[a]] + 1
                     ELSE p[m[a]]
        /\ g[m[b]] = IF p[r] < p[m[b]] /\ p[m[b]] <= to THEN p[m[b]] - 1
                     ELSE IF to <= p[m[b]] /\ p[m[b]] < p[r] THEN p[m[b]] + 1
                     ELSE p[m[b]]
    BY <2>1
  <2> HIDE DEF r
  <2> QED BY <1>2, <2>1, <2>2, <2>3
<1> HIDE DEF n, r
<1>5. \E j \in 1..n : \A k \in 1..n - 1 : IF k < j THEN g[m[k]] < to ELSE g[m[k]] > to
  <2> DEFINE Above == {k \in 1..n - 1 : g[m[k]] > to}
  <2>1. CASE Above = {}
    <3>1. \A k \in 1..n - 1 : k < n /\ g[m[k]] < to
      BY <1>2, <1>3, <2>1
    <3>2. n \in 1..n
      BY <1>2 DEF n
    <3> QED BY <3>1, <3>2
  <2>2. CASE Above # {}
    <3>1. PICK j \in Above : \A k \in Above : j <= k
      <4>1. Above \subseteq Nat
        OBVIOUS
      <4> HIDE DEF Above
      <4> QED BY <2>2, <4>1, LeastNat
    <3>2. j \in 1..n - 1 /\ j \in 1..n /\ g[m[j]] > to
      BY <1>2, <3>1
    <3>3. ASSUME NEW k \in 1..n - 1, k < j PROVE g[m[k]] < to
      <4>1. k \notin Above
        BY <1>2, <3>1, <3>2, <3>3
      <4> QED BY <1>3, <4>1
    <3>4. ASSUME NEW k \in 1..n - 1, ~(k < j) PROVE g[m[k]] > to
      <4>1. CASE k = j
        BY <3>2, <4>1
      <4>2. CASE k # j
        <5>1. g[m[j]] < g[m[k]]
          BY <1>4, <3>2, <3>4, <4>2
        <5>2. g[m[j]] \in Int /\ g[m[k]] \in Int
          BY <1>3, <3>2
        <5> QED BY <3>2, <5>1, <5>2
      <4> QED BY <4>1, <4>2
    <3> QED BY <3>2, <3>3, <3>4
  <2> QED BY <2>1, <2>2
<1>6. PICK j \in 1..n : \A k \in 1..n - 1 : IF k < j THEN g[m[k]] < to ELSE g[m[k]] > to
  BY <1>5
<1> DEFINE q == Outline!InsertAt(m, j, r)
<1>7. /\ q \in Seq(S) /\ Len(q) = n
      /\ \A k \in 1..n : q[k] = IF k < j THEN m[k] ELSE IF k = j THEN r ELSE m[k - 1]
  <2>1. j \in 1..Len(m) + 1 /\ Len(m) + 1 = n
    BY <1>1, <1>2
  <2>2. /\ q \in Seq(S) /\ Len(q) = Len(m) + 1
        /\ \A k \in 1..Len(m) + 1 :
              q[k] = IF k < j THEN m[k] ELSE IF k = j THEN r ELSE m[k - 1]
    <3>1. PICK w \in Seq(S), e \in S : w = m /\ e = r
      BY <1>1, <1>2
    <3> DEFINE z == Outline!InsertAt(w, j, e)
    <3>2. j \in 1..Len(w) + 1
      BY <2>1, <3>1
    <3>3. /\ z \in Seq(S) /\ Len(z) = Len(w) + 1
          /\ \A k \in 1..Len(w) + 1 :
                z[k] = IF k < j THEN w[k] ELSE IF k = j THEN e ELSE w[k - 1]
      BY <3>2, InsertedItems
    <3>4. q = z
      BY <3>1
    <3> HIDE DEF q, z
    <3> QED BY <3>1, <3>3, <3>4
  <2> HIDE DEF q
  <2> QED BY <2>1, <2>2
<1> HIDE DEF q
<1>8. q \in [1..n -> S]
  BY <1>7, LenProperties
<1>9. ASSUME NEW a \in 1..n, NEW b \in 1..n, a < b PROVE g[q[a]] < g[q[b]]
  <2>1. g[r] = to
    BY DEF r
  <2>2. CASE b < j
    <3>1. a \in 1..n - 1 /\ b \in 1..n - 1 /\ a < j /\ q[a] = m[a] /\ q[b] = m[b]
      BY <1>2, <1>7, <1>9, <2>2
    <3> QED BY <1>4, <1>9, <3>1
  <2>3. CASE b = j
    <3>1. a \in 1..n - 1 /\ a < j /\ q[a] = m[a] /\ q[b] = r
      BY <1>2, <1>7, <1>9, <2>3
    <3> QED BY <1>6, <2>1, <3>1
  <2>4. CASE a < j /\ j < b
    <3>1. /\ a \in 1..n - 1 /\ b - 1 \in 1..n - 1
          /\ q[a] = m[a] /\ q[b] = m[b - 1] /\ ~(b - 1 < j)
      BY <1>2, <1>7, <1>9, <2>4
    <3>2. a \in 1..n - 1 /\ b - 1 \in 1..n - 1
      BY <1>2, <1>9, <2>4
    <3>3. g[m[a]] < to /\ g[m[b - 1]] > to /\ g[m[a]] \in Int /\ g[m[b - 1]] \in Int
      BY <1>3, <1>6, <2>4, <3>1, <3>2
    <3> QED BY <3>1, <3>3
  <2>5. CASE a = j
    <3>1. b - 1 \in 1..n - 1 /\ q[a] = r /\ q[b] = m[b - 1] /\ ~(b - 1 < j)
      BY <1>2, <1>7, <1>9, <2>5
    <3>2. g[m[b - 1]] > to /\ g[m[b - 1]] \in Int
      BY <1>3, <1>6, <3>1
    <3> QED BY <2>1, <3>1, <3>2
  <2>6. CASE j < a
    <3>1. /\ a - 1 \in 1..n - 1 /\ b - 1 \in 1..n - 1 /\ a - 1 < b - 1
          /\ q[a] = m[a - 1] /\ q[b] = m[b - 1]
      BY <1>2, <1>7, <1>9, <2>6
    <3> QED BY <1>4, <3>1
  <2> QED BY <1>2, <1>9, <2>2, <2>3, <2>4, <2>5, <2>6
<1>10. ASSUME NEW a \in 1..n, NEW b \in 1..n, a < b
       PROVE  q[a] # q[b] /\ g[q[a]] <= g[q[b]]
  <2>1. g[q[a]] < g[q[b]] /\ q[a] \in S /\ q[b] \in S
    BY <1>8, <1>9, <1>10
  <2>2. \A x \in S : g[x] \in Int
    <3>1. ASSUME NEW x \in S, x # r PROVE g[x] \in Int
      <4>1. p[x] \in Nat
        BY <3>1
      <4> QED BY <3>1, <4>1 DEF r
    <3> QED BY <3>1 DEF r
  <2> QED BY <2>1, <2>2
<1>11. Sorts(S, g, q)
  BY <1>8, <1>10 DEF Sorts, n
<1> QED BY <1>11 DEF q, m, n, r

\* What sorting leaves when no step is above its place is listed as it was found.
LEMMA HalfSorts ==
    ASSUME NEW S, IsFiniteSet(S), NEW p, NEW q, NEW f, NEW d, Half(S, p, q, f, d),
           \A i \in d + 1..Cardinality(S) : f[i] >= i
    PROVE  Sorts(S, p, q)
<1> DEFINE n == Cardinality(S)
<1>1. n \in Nat /\ d \in 0..n /\ q \in [1..n -> S]
  BY FS_CardinalityType DEF Half
<1>2. /\ \A i, j \in 1..n : q[i] = q[j] => i = j
      /\ \A i, j \in 1..n : i < j => f[i] < f[j]
      /\ \A i \in 1..n : f[i] \in Nat
      /\ \A i \in 1..d : p[q[i]] = i
      /\ \A i \in d + 1..n : f[i] >= d + 1 => p[q[i]] = f[i]
      /\ \A i \in d + 1..n : f[i] >= i
  BY DEF Half
<1> HIDE DEF n
<1>3. \A i \in d + 1..n : p[q[i]] = f[i] /\ f[i] >= i /\ f[i] \in Nat
  <2> SUFFICES ASSUME NEW i \in d + 1..n
               PROVE p[q[i]] = f[i] /\ f[i] >= i /\ f[i] \in Nat
    OBVIOUS
  <2>1. i \in 1..n /\ i \in Nat /\ i >= d + 1 /\ d \in Nat
    BY <1>1
  <2>2. f[i] \in Nat /\ f[i] >= i
    BY <1>2, <2>1
  <2>3. f[i] >= d + 1
    BY <2>1, <2>2
  <2> QED BY <1>2, <2>2, <2>3
<1>4. ASSUME NEW i \in 1..n, NEW j \in 1..n, i < j PROVE q[i] # q[j] /\ p[q[i]] <= p[q[j]]
  <2>0. d \in Nat /\ i \in Nat /\ j \in Nat
    BY <1>1
  <2>1. q[i] # q[j]
    BY <1>2, <1>4, <2>0
  <2>2. CASE j <= d
    <3>1. i \in 1..d /\ j \in 1..d
      BY <1>4, <2>0, <2>2
    <3> QED BY <1>2, <1>4, <2>0, <2>1, <3>1
  <2>3. CASE i <= d /\ j > d
    <3>1. i \in 1..d /\ j \in d + 1..n
      BY <1>1, <2>0, <2>3
    <3>2. p[q[i]] = i /\ p[q[j]] = f[j] /\ f[j] >= j /\ f[j] \in Nat
      BY <1>2, <1>3, <3>1
    <3> QED BY <1>4, <2>0, <2>1, <3>2
  <2>4. CASE i > d
    <3>1. i \in d + 1..n /\ j \in d + 1..n
      BY <1>1, <1>4, <2>0, <2>4
    <3>2. p[q[i]] = f[i] /\ p[q[j]] = f[j] /\ f[i] \in Nat /\ f[j] \in Nat
      BY <1>3, <3>1
    <3>3. f[i] < f[j]
      BY <1>2, <1>4
    <3> QED BY <2>1, <3>2, <3>3
  <2> QED BY <2>0, <2>2, <2>3, <2>4
<1> QED BY <1>1, <1>4 DEF Sorts, n

\* the tests as their lists, and those of which the order is open: what the
\* refinement mapping shows of them
Lists == [t \in Testsets |-> Listing(t)]
Unsettled == halted \cup {t \in Testsets : Unfolding(t)}

\* a list has the steps of its test, each once
Shown ==
    \A t \in Testsets :
        /\ Listing(t) \in Seq(StepsOf(t))
        /\ Len(Listing(t)) = Cardinality(StepsOf(t))
        /\ DOMAIN Listing(t) = 1..Cardinality(StepsOf(t))
        /\ Outline!ToSet(Listing(t)) = StepsOf(t)

LEMMA StepsShown == TypeOK => Shown
<1> SUFFICES ASSUME TypeOK, NEW t \in Testsets
             PROVE  /\ Listing(t) \in Seq(StepsOf(t))
                    /\ Len(Listing(t)) = Cardinality(StepsOf(t))
                    /\ DOMAIN Listing(t) = 1..Cardinality(StepsOf(t))
                    /\ Outline!ToSet(Listing(t)) = StepsOf(t)
  BY DEF Shown
<1> DEFINE S == StepsOf(t)
           n == Cardinality(S)
           l == Listing(t)
<1>1. IsFiniteSet(S) /\ n \in Nat /\ Sorts(S, pos, l)
  BY StepsListed DEF Listed
<1> HIDE DEF S, l
<1>2. /\ l \in [1..n -> S] /\ DOMAIN l = 1..n
      /\ \A x \in S : \E i \in 1..n : l[i] = x
  BY <1>1, SortOnto DEF Sorts
<1> HIDE DEF n
<1>3. l \in Seq(S) /\ Len(l) = n
  BY <1>1, <1>2, FunctionIsSeq, LenProperties
<1>4. Outline!ToSet(l) = S
  BY <1>2 DEF Outline!ToSet
<1> QED BY <1>2, <1>3, <1>4 DEF S, l, n

LEMMA StepsShownThen == TypeOK' => Shown'
BY StepsShown, PTL

\* A list that is in the order of positions, no two of them the same, is what is shown.
LEMMA ListedThen ==
    ASSUME TypeOK', NEW t \in Testsets, NEW S, S = StepsOf(t)', Distinct(S, pos'), NEW q,
           Sorts(S, pos', q)
    PROVE  Listing(t)' = q
<1>1. Listed'
  BY StepsListedThen
<1>2. /\ IsFiniteSet(S) /\ \A r \in S : pos'[r] \in Nat
      /\ Sorts(S, pos', Listing(t)')
  BY <1>1 DEF Listed
<1> QED BY <1>2, SortUnique

LEMMA ListedNow ==
    ASSUME TypeOK, NEW t \in Testsets, Distinct(StepsOf(t), pos), NEW q,
           Sorts(StepsOf(t), pos, q)
    PROVE  Listing(t) = q
<1>1. /\ IsFiniteSet(StepsOf(t)) /\ \A r \in StepsOf(t) : pos[r] \in Nat
      /\ Sorts(StepsOf(t), pos, Listing(t))
  BY StepsListed DEF Listed
<1> QED BY <1>1, SortUnique

\* What is shown depends on the steps of the test and their positions only.
LEMMA SameListing ==
    ASSUME TypeOK, NEW t \in Testsets, StepsOf(t)' = StepsOf(t),
           \A r \in StepsOf(t) : pos'[r] = pos[r]
    PROVE  Listing(t)' = Listing(t)
<1> DEFINE S == StepsOf(t)
           n == Cardinality(S)
           F == [1..n -> S]
           Before(q) == \A j \in DOMAIN q : \A i \in 1..(j - 1) : q[i] # q[j] /\ pos[q[i]] <= pos[q[j]]
           After(q) == \A j \in DOMAIN q : \A i \in 1..(j - 1) : q[i] # q[j] /\ pos'[q[i]] <= pos'[q[j]]
<1>0. n \in Nat
  BY StepsAreFinite
<1>1. Listing(t) = CHOOSE q \in F : Before(q)
  BY DEF Listing, Shows
<1>2. Listing(t)' = CHOOSE q \in F : After(q)
  BY DEF Listing, Shows
<1> HIDE DEF S, n
<1>3. ASSUME NEW q \in F PROVE Before(q) <=> After(q)
  <2>1. ASSUME NEW j \in DOMAIN q, NEW i \in 1..(j - 1)
        PROVE  pos'[q[i]] = pos[q[i]] /\ pos'[q[j]] = pos[q[j]]
    <3>1. i \in 1..n /\ j \in 1..n
      BY <1>0
    <3>2. q[i] \in S /\ q[j] \in S
      BY <3>1
    <3> QED BY <3>2 DEF S
  <2> QED BY <2>1
<1> HIDE DEF F, Before, After
<1> QED BY <1>1, <1>2, <1>3

\* the list of test t becomes l, but for the order where that is open
Becomes(t, l) ==
    \/ Listing(t)' = l
    \/ /\ t \in Unsettled \cup Unsettled'
       /\ Len(Listing(t)') = Len(l) /\ Outline!ToSet(Listing(t)') = Outline!ToSet(l)

\* Where the order is open it is enough to have the same steps.
LEMMA SameSteps ==
    ASSUME TypeOK, TypeOK', NEW t \in Testsets, StepsOf(t)' = StepsOf(t),
           t \in Unsettled \cup Unsettled' \/ Listing(t)' = Listing(t)
    PROVE  Becomes(t, Lists[t])
<1>1. Shown /\ Shown'
  BY StepsShown, StepsShownThen
<1>2. /\ Len(Listing(t)') = Len(Listing(t))
      /\ Outline!ToSet(Listing(t)') = Outline!ToSet(Listing(t))
  BY <1>1 DEF Shown
<1> QED BY <1>2 DEF Becomes, Lists

LEMMA BecomeLists ==
    ASSUME NEW lists, \A t \in Testsets : Becomes(t, lists[t])
    PROVE  Outline!Become(lists)
<1>1. \A t \in Testsets : Lists'[t] = Listing(t)'
  BY DEF Lists
<1>2. ASSUME NEW t \in Testsets
      PROVE  \/ Lists'[t] = lists[t]
             \/ /\ t \in Unsettled \cup Unsettled'
                /\ Len(Lists'[t]) = Len(lists[t])
                /\ Outline!ToSet(Lists'[t]) = Outline!ToSet(lists[t])
  BY <1>1 DEF Becomes
<1> QED BY <1>2 DEF Outline!Become, Lists, Unsettled

\* The order of a test is open when a step of it was found above its place.
LEMMA UnsettledTests ==
    ASSUME NEW t \in Testsets
    PROVE  t \in Unsettled <=> t \in halted \/ \E s \in Sessions : Unfolds(s, t)
BY DEF Unsettled, Unfolding, Unfolds

LEMMA UnsettledThen ==
    ASSUME NEW t \in Testsets
    PROVE  t \in Unsettled' <=> t \in halted' \/ \E s \in Sessions : Unfolds(s, t)'
BY DEF Unsettled, Unfolding, Unfolds

LEMMA SettledOrder ==
    ASSUME TypeOK, OrderInv, ~raced, NEW t \in Testsets, t \notin Unsettled
    PROVE  IsOrdered(t) /\ Distinct(StepsOf(t), pos)
<1>1. IsOrdered(t)
  BY UnsettledTests DEF OrderInv
<1> QED BY <1>1, StepsListed DEF Listed

\* Only the request of s and the history of t may open or close an order.
LEMMA UnsettledChanges ==
    ASSUME TypeOK, TypeOK', NEW s \in Sessions, NEW t \in Testsets,
           \A o \in Sessions \ {s} : req'[o] = req[o],
           halted' = halted \/ halted' = halted \cup {t},
           \A u \in Testsets \ {t} : Unfolds(s, u)' <=> Unfolds(s, u)
    PROVE  Unsettled' = Unsettled \cup {t} \/ Unsettled' = Unsettled \ {t}
<1>1. ASSUME NEW u \in Testsets \ {t} PROVE u \in Unsettled' <=> u \in Unsettled
  <2>1. u \in halted' <=> u \in halted
    OBVIOUS
  <2>2. \A o \in Sessions : Unfolds(o, u)' <=> Unfolds(o, u)
    BY SameRequest
  <2> QED BY <2>1, <2>2, UnsettledTests, UnsettledThen
<1>2. Unsettled \subseteq Testsets /\ Unsettled' \subseteq Testsets
  BY DEF TypeOK, Unsettled
<1> QED BY <1>1, <1>2

LEMMA UnsettledSame ==
    ASSUME TypeOK, TypeOK', NEW s \in Sessions, \A o \in Sessions \ {s} : req'[o] = req[o],
           UNCHANGED halted, \A u \in Testsets : Unfolds(s, u)' <=> Unfolds(s, u)
    PROVE  Unsettled' = Unsettled
<1>1. ASSUME NEW u \in Testsets PROVE u \in Unsettled' <=> u \in Unsettled
  <2>1. \A o \in Sessions : Unfolds(o, u)' <=> Unfolds(o, u)
    BY SameRequest
  <2> QED BY <2>1, UnsettledTests, UnsettledThen
<1>2. Unsettled \subseteq Testsets /\ Unsettled' \subseteq Testsets
  BY DEF TypeOK, Unsettled
<1> QED BY <1>1, <1>2

\* A step of a request that orders t, and may open or close its order.
LEMMA UnsettleStep ==
    ASSUME TypeOK, TypeOK', NEW s \in Sessions, NEW t \in Testsets,
           UNCHANGED <<collections, home, test, pointer>>,
           \A o \in Sessions \ {s} : req'[o] = req[o],
           halted' = halted \/ halted' = halted \cup {t},
           \A u \in Testsets \ {t} : Unfolds(s, u)' <=> Unfolds(s, u),
           \A x \in Rows : test[x] # t => pos'[x] = pos[x],
           t \in Unsettled \cup Unsettled' \/ Listing(t)' = Listing(t)
    PROVE  Outline!Edit
<1>1. \A u \in Testsets : StepsOf(u)' = StepsOf(u)
  BY DEF StepsOf
<1>2. ASSUME NEW u \in Testsets PROVE Becomes(u, Lists[u])
  <2>1. CASE u = t
    BY <1>1, <2>1, SameSteps
  <2>2. CASE u # t
    <3>1. \A x \in StepsOf(u) : pos'[x] = pos[x]
      BY <2>2 DEF StepsOf
    <3>2. Listing(u)' = Listing(u)
      BY <1>1, <3>1, SameListing
    <3> QED BY <1>1, <3>2, SameSteps
  <2> QED BY <2>1, <2>2
<1>3. Outline!Become(Lists)
  BY <1>2, BecomeLists
<1>4. Unsettled' = Unsettled \cup {t} \/ Unsettled' = Unsettled \ {t}
  BY UnsettledChanges
<1>5. Outline!Unsettle(t)
  BY <1>3, <1>4 DEF Outline!Unsettle, Lists, Unsettled
<1> QED BY <1>5 DEF Outline!Edit

\* What the outline says of lists is what the tables say of positions.
LEMMA OutlineReads ==
    ASSUME TypeOK, Sound
    PROVE  /\ \A t \in Testsets : Outline!Exists(t) <=> TestExists(t)
           /\ \A t \in Testsets : \A p : Outline!Leads(t, p) <=> PointsTo(t, p)
           /\ \A T \in SUBSET Testsets, r \in Rows : Outline!Within(r, T) <=> test[r] \in T
           /\ \A t \in Testsets, p \in Testsets \cup {None} :
                 Valid(t, p, TRUE) => Outline!MayPoint(t, p)
<1>1. \A t \in Testsets : Outline!ToSet(Listing(t)) = StepsOf(t)
  BY StepsShown DEF Shown
<1>2. \A t \in Testsets : Outline!Exists(t) <=> TestExists(t)
  BY DEF Outline!Exists, TestExists
<1>3. \A t \in Testsets : \A p : Outline!Leads(t, p) <=> PointsTo(t, p)
  BY <1>1 DEF Outline!Leads, PointsTo
<1>4. \A T \in SUBSET Testsets, r \in Rows : Outline!Within(r, T) <=> test[r] \in T
  BY <1>1 DEF Outline!Within, StepsOf
<1>5. ASSUME NEW t \in Testsets, NEW p \in Testsets, Valid(t, p, TRUE), p # None
      PROVE  Outline!MayPoint(t, p)
  <2>1. TestExists(p) /\ p # t /\ ~PointsTo(p, t)
    BY <1>5 DEF Valid, LeadsBack, PointsTo
  <2>2. ASSUME NEW m \in Testsets, PointsTo(p, m), PointsTo(m, t) PROVE FALSE
    <3>1. PICK a \in StepsOf(p) : pointer[a] = m
      BY <2>2 DEF PointsTo
    <3>2. a \in Steps /\ m # None /\ TestExists(m)
      BY <3>1, NoneAssumption DEF Sound, Anchored, Steps, StepsOf
    <3> QED BY <1>5, <2>2, <3>1, <3>2 DEF Valid, LeadsBack, PointsTo
  <2> QED BY <1>2, <1>3, <1>5, <2>1, <2>2 DEF Outline!MayPoint
<1>6. \A t \in Testsets : Outline!MayPoint(t, None)
  BY DEF Outline!MayPoint
<1> QED BY <1>2, <1>3, <1>4, <1>5, <1>6

\* A commit of a request that orders nothing opens and closes no order.
LEMMA PlainCommit ==
    ASSUME TypeOK, TypeOK', NEW s \in Sessions, Commit(s, None), UNCHANGED halted,
           req[s] = None \/ req[s].kind # "order"
    PROVE  Unsettled' = Unsettled
<1>1. req' = [req EXCEPT ![s] = None] /\ req'[s] = None
  BY DEF Commit, TypeOK
<1>2. \A o \in Sessions \ {s} : req'[o] = req[o]
  BY <1>1 DEF TypeOK
<1>3. \A u \in Testsets : ~Unfolds(s, u) /\ ~Unfolds(s, u)'
  BY <1>1 DEF Unfolds, Reordering, Pending
<1> QED BY <1>2, <1>3, UnsettledSame

\* When no list changes, none does in the outline.
LEMMA BecomeSame ==
    ASSUME TypeOK, TypeOK', UNCHANGED <<test, pos>>
    PROVE  Outline!Become(Lists) /\ Lists' = Lists
<1>1. \A t \in Testsets : Listing(t)' = Listing(t)
  BY SameListing DEF StepsOf
<1>2. Lists' = Lists
  BY <1>1 DEF Lists
<1>3. \A t \in Testsets : Becomes(t, Lists[t])
  BY <1>1 DEF Becomes, Lists
<1> QED BY <1>2, <1>3, BecomeLists

\* When one list changes, the others stay.
LEMMA BecomeOne ==
    ASSUME TypeOK, TypeOK', NEW t \in Testsets, NEW l, Becomes(t, l),
           \A x \in Rows : test'[x] # test[x] => test[x] \notin Testsets \ {t}
                                                  /\ test'[x] \notin Testsets \ {t},
           \A x \in Rows : test[x] \in Testsets \ {t} => pos'[x] = pos[x]
    PROVE  Outline!Become([Lists EXCEPT ![t] = l])
<1> DEFINE lists == [Lists EXCEPT ![t] = l]
<1>1. ASSUME NEW u \in Testsets PROVE Becomes(u, lists[u])
  <2>1. CASE u = t
    BY <2>1 DEF Lists
  <2>2. CASE u # t
    <3>1. StepsOf(u)' = StepsOf(u)
      BY <2>2 DEF StepsOf
    <3>2. \A x \in StepsOf(u) : pos'[x] = pos[x]
      BY <2>2 DEF StepsOf
    <3>3. Listing(u)' = Listing(u)
      BY <3>1, <3>2, SameListing
    <3> QED BY <2>2, <3>3 DEF Becomes, Lists
  <2> QED BY <2>1, <2>2
<1> HIDE DEF lists
<1>2. Outline!Become(lists)
  BY <1>1, BecomeLists
<1> QED BY <1>2 DEF lists

\* A save of a test adds it.
LEMMA SaveTestAdds ==
    ASSUME TypeOK, TypeOK', NEW s \in Sessions, NEW t \in Testsets, SaveTest(s, t), Fresh(s)
    PROVE  Outline!Edit
<1>1. PICK c \in Collections : req[s].home = c
  BY PendingKinds DEF SaveTest, Pending
<1>2. /\ c \in collections /\ home[t] = None /\ home' = [home EXCEPT ![t] = c]
      /\ UNCHANGED <<collections, test, pos, pointer, halted>>
      /\ Commit(s, None) /\ req[s].kind = "test"
  BY <1>1 DEF SaveTest, Fresh, Pending
<1>3. Unsettled' = Unsettled
  BY <1>2, PlainCommit
<1>4. Outline!Become(Lists)
  BY <1>2, BecomeSame
<1>5. Outline!AddTest(t, c)
  BY <1>2, <1>3, <1>4 DEF Outline!AddTest, Lists, Unsettled
<1> QED BY <1>5 DEF Outline!Edit

\* A destroy removes what it names, steps included.
LEMMA DropRemoves ==
    ASSUME TypeOK, TypeOK', Sound, NEW s \in Sessions, Drop(s), Fresh(s)
    PROVE  Outline!Edit
<1>1. PICK C \in SUBSET Collections, T \in SUBSET Testsets, R \in SUBSET Rows :
         req[s].collections = C /\ req[s].tests = T /\ req[s].rows = R
  BY PendingKinds DEF Drop, Pending
<1>2. /\ \A r \in Steps : r \in R <=> test[r] \in T
      /\ \A r \in Steps : pointer[r] \in T => test[r] \in T
      /\ \A t \in Testsets : home[t] \in C => t \in T
      /\ \A t \in T : TestExists(t)
  BY <1>1 DEF Drop, Fresh
<1>3. /\ home' = [t \in Testsets |-> IF t \in T THEN Gone ELSE home[t]]
      /\ test' = [r \in Rows |-> IF r \in R THEN Gone ELSE test[r]]
      /\ pointer' = [r \in Rows |-> IF r \in R THEN None ELSE pointer[r]]
      /\ pos' = [r \in Rows |-> IF r \in R THEN 0 ELSE pos[r]]
      /\ collections' = collections \ C
      /\ Commit(s, None) /\ req[s].kind = "drop" /\ UNCHANGED halted
  BY <1>1 DEF Drop, Pending
<1>4. ASSUME NEW t \in T PROVE Listing(t)' = << >>
  <2>1. StepsOf(t)' = {}
    BY <1>2, <1>3, NoneAssumption DEF StepsOf, Steps
  <2>2. Cardinality(StepsOf(t)') = 0
    BY <2>1, FS_EmptySet
  <2>3. Listing(t)' \in Seq({}) /\ Len(Listing(t)') = 0
    BY <2>1, <2>2, StepsShownThen DEF Shown
  <2> QED BY <2>3, EmptySeq
<1>5. ASSUME NEW t \in Testsets \ T PROVE Listing(t)' = Listing(t)
  <2>1. \A r \in Rows : test[r] = t => r \notin R
    BY <1>2 DEF Steps
  <2>2. StepsOf(t)' = StepsOf(t)
    BY <1>3, <2>1, NoneAssumption DEF StepsOf
  <2>3. \A r \in StepsOf(t) : pos'[r] = pos[r]
    BY <1>3, <2>1 DEF StepsOf
  <2> QED BY <2>2, <2>3, SameListing
<1> DEFINE lists == [t \in Testsets |-> IF t \in T THEN << >> ELSE Lists[t]]
<1>6. Outline!Become(lists)
  <2>1. \A t \in Testsets : Becomes(t, lists[t])
    BY <1>4, <1>5 DEF Becomes, Lists
  <2> HIDE DEF lists
  <2> QED BY <2>1, BecomeLists
<1>7. pointer' = [r \in Rows |-> IF Outline!Within(r, T) THEN None ELSE pointer[r]]
  <2>1. ASSUME NEW r \in Rows
        PROVE  (IF r \in R THEN None ELSE pointer[r])
                  = IF test[r] \in T THEN None ELSE pointer[r]
    <3>1. CASE r \in Steps
      BY <1>2, <3>1
    <3>2. CASE r \notin Steps
      BY <3>2 DEF TypeOK
    <3> QED BY <3>1, <3>2
  <2>2. \A r \in Rows : Outline!Within(r, T) <=> test[r] \in T
    BY OutlineReads
  <2> QED BY <1>3, <2>1, <2>2
<1>8. /\ \A t \in T : Outline!Exists(t)
      /\ \A t \in Testsets \ T, p \in T : ~Outline!Leads(t, p)
  <2>1. ASSUME NEW t \in Testsets \ T, NEW p \in T, PointsTo(t, p) PROVE FALSE
    BY <1>2, <2>1 DEF PointsTo, StepsOf, Steps
  <2> QED BY <1>2, <2>1, OutlineReads
<1>9. Unsettled' = Unsettled
  BY <1>3, PlainCommit
<1> DEFINE D == C \cap collections
<1>10. /\ D \in SUBSET collections /\ collections' = collections \ D
       /\ \A t \in Testsets : home[t] \in D => t \in T
  BY <1>2, <1>3
<1>11. Outline!RemoveTests(D, T)
  BY <1>3, <1>6, <1>7, <1>8, <1>9, <1>10 DEF Outline!RemoveTests, Lists, Unsettled
<1> QED BY <1>10, <1>11 DEF Outline!Edit

\* A save of a new step puts it last.
LEMMA SaveStepAppends ==
    ASSUME TypeOK, TypeOK', Sound, OrderInv, ~raced, NEW s \in Sessions, NEW r \in Rows,
           SaveStep(s, r), Fresh(s)
    PROVE  Outline!Edit
<1>1. PICK t \in Testsets, p \in Testsets \cup {None} : req[s].test = t /\ req[s].pointer = p
  BY PendingKinds DEF SaveStep, Pending
<1> DEFINE S == StepsOf(t)
           n == Cardinality(S)
           l == Listing(t)
           b == Bottom(t)
<1>2. Valid(t, p, TRUE) /\ req[s].pos = b + 1
  BY <1>1 DEF SaveStep, Fresh
<1>3. /\ test[r] = None /\ UNCHANGED <<collections, home, halted>>
      /\ test' = [test EXCEPT ![r] = t] /\ pos' = [pos EXCEPT ![r] = b + 1]
      /\ pointer' = [pointer EXCEPT ![r] = p]
      /\ Commit(s, None) /\ req[s].kind = "step"
  BY <1>1, <1>2 DEF SaveStep, Pending
<1>4. StepsOf(t)' = S \cup {r} /\ r \notin S
  BY <1>3, NoneAssumption DEF StepsOf, TypeOK
<1>5. /\ b \in Nat /\ pos'[r] = b + 1
      /\ \A x \in S : pos'[x] = pos[x] /\ pos[x] <= b
      /\ b = 0 \/ \E x \in S : pos[x] = b
  <2>1. /\ b \in Nat /\ b \in {0} \cup {pos[x] : x \in S} /\ \A x \in S : pos[x] <= b
    BY BottomOfSteps
  <2>2. pos'[r] = b + 1 /\ \A x \in S : pos'[x] = pos[x]
    BY <1>3, <1>4 DEF TypeOK, StepsOf
  <2> HIDE DEF b, S
  <2> QED BY <2>1, <2>2
<1>6. /\ IsFiniteSet(S) /\ n \in Nat /\ Sorts(S, pos, l) /\ \A x \in S : pos[x] \in Nat
  BY StepsListed DEF Listed
<1>7. Becomes(t, Append(l, r))
  <2>1. \A x \in S : pos'[x] = pos[x] /\ pos[x] <= pos'[r]
    <3>1. \A x \in S : pos[x] \in Nat
      BY <1>6
    <3> HIDE DEF b, S
    <3> QED BY <1>5, <3>1
  <2>2. /\ Len(Append(l, r)) = n + 1
        /\ Outline!ToSet(Append(l, r)) = S \cup {r}
        /\ Sorts(S \cup {r}, pos', Append(l, r))
    <3> HIDE DEF l, S, b
    <3> QED BY <1>4, <1>6, <2>1, AppendedSorts
  <2>3. CASE t \in Unsettled
    <3>1. Cardinality(StepsOf(t)') = n + 1
      BY <1>4, <1>6, FS_AddElement
    <3>2. /\ Len(Listing(t)') = Cardinality(StepsOf(t)')
          /\ Outline!ToSet(Listing(t)') = StepsOf(t)'
      BY StepsShownThen DEF Shown
    <3> QED BY <1>4, <2>2, <2>3, <3>1, <3>2 DEF Becomes
  <2>4. CASE t \notin Unsettled
    <3>1. Distinct(S, pos)
      BY <2>4, SettledOrder
    <3>2. Distinct(S \cup {r}, pos')
      <4> HIDE DEF S, b
      <4> QED BY <1>4, <1>5, <1>6, <3>1, AppendedDistinct
    <3>3. Listing(t)' = Append(l, r)
      BY <1>4, <2>2, <3>2, ListedThen
    <3> QED BY <3>3 DEF Becomes
  <2> QED BY <2>3, <2>4
<1>8. Outline!Become([Lists EXCEPT ![t] = Append(l, r)])
  <2>1. \A x \in Rows : test'[x] # test[x] => test[x] \notin Testsets \ {t}
                                               /\ test'[x] \notin Testsets \ {t}
    BY <1>3, NoneAssumption DEF TypeOK
  <2>2. \A x \in Rows : test[x] \in Testsets \ {t} => pos'[x] = pos[x]
    BY <1>3, NoneAssumption DEF TypeOK
  <2> HIDE DEF l
  <2> QED BY <1>7, <2>1, <2>2, BecomeOne
<1>9. Outline!Exists(t) /\ ~Outline!Within(r, Testsets) /\ Outline!MayPoint(t, p)
  BY <1>2, <1>3, OutlineReads, NoneAssumption DEF Valid
<1>10. Unsettled' = Unsettled
  BY <1>3, PlainCommit
<1>11. Outline!AddStep(t, r, p)
  BY <1>3, <1>8, <1>9, <1>10 DEF Outline!AddStep, Lists, Unsettled
<1> QED BY <1>11 DEF Outline!Edit

\* A destroyed step is taken out of its list, the others close up.
LEMMA DeleteStepRemoves ==
    ASSUME TypeOK, TypeOK', OrderInv, ~raced, NEW s \in Sessions, req[s] = None,
           NEW r \in Rows, DeleteStep(s, r)
    PROVE  Outline!Edit
<1>1. PICK t \in Testsets : test[r] = t
  BY DEF DeleteStep, Steps
<1> DEFINE S == StepsOf(t)
           n == Cardinality(S)
           l == Listing(t)
<1>2. r \in S
  BY <1>1 DEF StepsOf
<1>3. /\ UNCHANGED <<collections, home, halted>> /\ Commit(s, None)
      /\ test' = [test EXCEPT ![r] = Gone] /\ pointer' = [pointer EXCEPT ![r] = None]
      /\ \A x \in Rows \ {r} : pos'[x] = IF test[x] = t /\ pos[x] > pos[r] THEN pos[x] - 1 ELSE pos[x]
  BY <1>1 DEF DeleteStep, TypeOK
<1>4. StepsOf(t)' = S \ {r}
  BY <1>3, NoneAssumption DEF StepsOf, TypeOK
<1>5. \A x \in S \ {r} : pos'[x] = IF pos[x] > pos[r] THEN pos[x] - 1 ELSE pos[x]
  BY <1>3 DEF StepsOf
<1>6. /\ IsFiniteSet(S) /\ n \in Nat /\ Sorts(S, pos, l) /\ \A x \in S : pos[x] \in Nat
  BY StepsListed DEF Listed
<1>7. DOMAIN l = 1..n /\ \E i \in 1..n : l[i] = r
  <2> HIDE DEF S, l
  <2> QED BY <1>2, <1>6, SortOnto
<1>8. PICK i \in 1..n : l[i] = r
  BY <1>7
<1>9. Becomes(t, Outline!RemoveAt(l, i))
  <2>1. CASE t \in Unsettled
    <3>1. Cardinality(StepsOf(t)') = n - 1
      BY <1>2, <1>4, <1>6, FS_RemoveElement
    <3>2. /\ Len(Listing(t)') = Cardinality(StepsOf(t)')
          /\ Outline!ToSet(Listing(t)') = StepsOf(t)'
      BY StepsShownThen DEF Shown
    <3>3. /\ Len(Outline!RemoveAt(l, i)) = n - 1
          /\ Outline!ToSet(Outline!RemoveAt(l, i)) = S \ {l[i]}
      <4> HIDE DEF S, l
      <4> QED BY <1>6, RemovedLists
    <3> QED BY <1>4, <1>8, <2>1, <3>1, <3>2, <3>3 DEF Becomes
  <2>2. CASE t \notin Unsettled
    <3>1. Distinct(S, pos)
      BY <2>2, SettledOrder
    <3>2. Distinct(S \ {r}, pos')
      <4> HIDE DEF S
      <4> QED BY <1>2, <1>5, <1>6, <3>1, RemovedDistinct
    <3>3. Sorts(S \ {r}, pos', Outline!RemoveAt(l, i))
      <4>1. \A x \in S \ {l[i]} : pos'[x] = IF pos[x] > pos[l[i]] THEN pos[x] - 1 ELSE pos[x]
        BY <1>5, <1>8
      <4> HIDE DEF S, l
      <4>2. Sorts(S \ {l[i]}, pos', Outline!RemoveAt(l, i))
        BY <1>6, <3>1, <4>1, RemovedSorts
      <4> QED BY <1>8, <4>2
    <3>4. Listing(t)' = Outline!RemoveAt(l, i)
      <4> HIDE DEF S, l
      <4> QED BY <1>4, <3>2, <3>3, ListedThen
    <3> QED BY <3>4 DEF Becomes
  <2> QED BY <2>1, <2>2
<1>10. Outline!Become([Lists EXCEPT ![t] = Outline!RemoveAt(l, i)])
  <2>1. \A x \in Rows : test'[x] # test[x] => test[x] \notin Testsets \ {t}
                                               /\ test'[x] \notin Testsets \ {t}
    BY <1>1, <1>3, NoneAssumption DEF TypeOK
  <2>2. \A x \in Rows : test[x] \in Testsets \ {t} => pos'[x] = pos[x]
    BY <1>1, <1>3
  <2> HIDE DEF l
  <2> QED BY <1>9, <2>1, <2>2, BecomeOne
<1>11. i \in DOMAIN Lists[t] /\ Lists[t] = l /\ Lists[t][i] = r
  BY <1>7, <1>8 DEF Lists
<1>12. Unsettled' = Unsettled
  BY <1>3, PlainCommit
<1>13. Outline!RemoveStep(t, i)
  BY <1>3, <1>10, <1>11, <1>12 DEF Outline!RemoveStep, Lists, Unsettled
<1> QED BY <1>11, <1>13 DEF Outline!Edit, Lists

\* A save of a pointer changes where one step points.
LEMMA SavePointerPoints ==
    ASSUME TypeOK, TypeOK', Sound, NEW s \in Sessions, SavePointer(s), Fresh(s)
    PROVE  Outline!Edit
<1>1. PICK r \in Rows, p \in Testsets \cup {None} : req[s].row = r /\ req[s].pointer = p
  BY PendingKinds DEF SavePointer, Pending
<1>2. r \in Steps /\ test[r] \in Testsets /\ Valid(test[r], p, TRUE)
  BY <1>1 DEF SavePointer, Fresh, TypeOK, Steps
<1>3. /\ pointer' = [pointer EXCEPT ![r] = p] /\ UNCHANGED <<collections, home, test, pos, halted>>
      /\ Commit(s, None) /\ req[s].kind = "point"
  BY <1>1, <1>2 DEF SavePointer, Pending
<1>4. PICK t \in Testsets : test[r] = t
  BY <1>2
<1>5. PICK i \in DOMAIN Lists[t] : Lists[t][i] = r
  <2>1. r \in StepsOf(t)
    BY <1>4 DEF StepsOf
  <2>2. r \in Outline!ToSet(Listing(t))
    BY <2>1, StepsShown DEF Shown
  <2> QED BY <2>2 DEF Lists, Outline!ToSet
<1>6. Outline!Become(Lists)
  BY <1>3, BecomeSame
<1>7. Outline!MayPoint(t, p)
  BY <1>2, <1>4, OutlineReads
<1>8. Unsettled' = Unsettled
  BY <1>3, PlainCommit
<1>9. Outline!Point(t, i, p)
  BY <1>3, <1>5, <1>6, <1>7, <1>8 DEF Outline!Point, Lists, Unsettled
<1> QED BY <1>5, <1>9 DEF Outline!Edit, Lists

\* A move of a reorder takes a step out and puts it in elsewhere, when the order
\* of the test is settled and the step is saved.
LEMMA MoveStepMoves ==
    ASSUME TypeOK, TypeOK', NEW t \in Testsets, Distinct(StepsOf(t), pos),
           NEW r \in StepsOf(t), NEW to \in Nat, pos' = Inserted(pos, t, r, pos[r], to),
           UNCHANGED <<collections, home, test, pointer>>, Unsettled' = Unsettled
    PROVE  Outline!Edit
<1> DEFINE S == StepsOf(t)
           n == Cardinality(S)
           l == Listing(t)
<1>1. /\ IsFiniteSet(S) /\ n \in Nat /\ Sorts(S, pos, l) /\ \A x \in S : pos[x] \in Nat
  BY StepsListed DEF Listed
<1>2. DOMAIN l = 1..n /\ \E i \in 1..n : l[i] = r
  <2> HIDE DEF S, l
  <2> QED BY <1>1, SortOnto DEF S
<1>3. PICK i \in 1..n : l[i] = r
  BY <1>2
<1>4. StepsOf(t)' = S
  BY DEF StepsOf
<1>5. pos \in [Rows -> Nat] /\ pos[r] \in Nat
  BY DEF TypeOK, StepsOf
<1>6. Distinct(S, pos')
  BY <1>5, InsertedDistinct
<1>7. pos'[r] = to /\ \A x \in S \ {r} :
         pos'[x] = IF pos[r] < pos[x] /\ pos[x] <= to THEN pos[x] - 1
                   ELSE IF to <= pos[x] /\ pos[x] < pos[r] THEN pos[x] + 1
                   ELSE pos[x]
  <2>1. r \in Rows /\ \A x \in S : x \in Rows /\ test[x] = t
    BY DEF StepsOf
  <2>2. pos'[r] = to
    BY <1>5, <2>1, InsertedAt
  <2>3. ASSUME NEW x \in S \ {r}
        PROVE  pos'[x] = IF pos[r] < pos[x] /\ pos[x] <= to THEN pos[x] - 1
                         ELSE IF to <= pos[x] /\ pos[x] < pos[r] THEN pos[x] + 1
                         ELSE pos[x]
    <3>1. x \in Rows /\ test[x] = t /\ x # r
      BY <2>1
    <3> QED BY <1>5, <3>1, InsertedAt
  <2> QED BY <2>2, <2>3
<1>8. PICK j \in 1..n : Sorts(S, pos', Outline!InsertAt(Outline!RemoveAt(l, i), j, l[i]))
  <2>1. /\ pos'[l[i]] = to
        /\ \A x \in S \ {l[i]} :
              pos'[x] = IF pos[l[i]] < pos[x] /\ pos[x] <= to THEN pos[x] - 1
                        ELSE IF to <= pos[x] /\ pos[x] < pos[l[i]] THEN pos[x] + 1
                        ELSE pos[x]
    BY <1>3, <1>7
  <2>2. Distinct(S, pos)
    OBVIOUS
  <2> HIDE DEF S, l
  <2> QED BY <1>1, <1>6, <2>1, <2>2, MovedSorts
<1> DEFINE q == Outline!InsertAt(Outline!RemoveAt(l, i), j, l[i])
<1>9. Listing(t)' = q
  <2> HIDE DEF S, l, q
  <2> QED BY <1>4, <1>6, <1>8, ListedThen DEF q
<1>10. Outline!Become([Lists EXCEPT ![t] = q])
  <2>1. Becomes(t, q)
    BY <1>9 DEF Becomes
  <2>2. \A x \in Rows : test[x] \in Testsets \ {t} => pos'[x] = pos[x]
    BY <1>5, InsertedAt
  <2> HIDE DEF q
  <2> QED BY <2>1, <2>2, BecomeOne
<1>11. i \in DOMAIN Lists[t] /\ j \in DOMAIN Lists[t] /\ Lists[t] = l
  BY <1>2 DEF Lists
<1>12. Outline!MoveStep(t, i, j)
  BY <1>10, <1>11 DEF Outline!MoveStep, Lists, Unsettled
<1> QED BY <1>11, <1>12 DEF Outline!Edit, Lists

\* A sort of t that keeps the steps in the order in which they were found.
LEMMA SortKeepsList ==
    ASSUME TypeOK, TypeOK', NEW s \in Sessions, NEW t \in Testsets, UNCHANGED test,
           NEW q, NEW f, NEW d, NEW e, NEW m, SortsFrom(t, q, f, d, e, m), m # << >>,
           \A i \in DOMAIN m : ~(m[i].from < m[i].to),
           pos' = Inserted(pos, t, m[1].row, m[1].from, m[1].to)
    PROVE  Listing(t)' = Listing(t)
<1> DEFINE S == StepsOf(t)
           n == Cardinality(S)
<1>1. IsFiniteSet(S) /\ n \in Nat
  BY StepsAreFinite
<1>2. StepsOf(t)' = S
  BY DEF StepsOf
<1>3. /\ Half(S, pos, q, f, d) /\ m \in Seq(Move) /\ Len(m) = n - d /\ d \in 0..n
      /\ \A i \in 1..n - d : m[i] = [row |-> q[d + i], from |-> f[d + i], to |-> d + i]
      /\ \A i \in 1..n : f[i] \in Nat
  BY DEF SortsFrom, Half
<1>4. Half(S, pos', q, f, d + 1)
  <2>1. SortsFrom(t, q, f, d + 1, e, Tail(m))'
    BY SortsNext
  <2> QED BY <1>2, <2>1 DEF SortsFrom
<1> HIDE DEF S, n
<1>5. \A i \in d + 1..n : f[i] >= i
  <2> SUFFICES ASSUME NEW i \in d + 1..n PROVE f[i] >= i
    OBVIOUS
  <2>1. i - d \in 1..n - d /\ d + (i - d) = i /\ i \in 1..n
    BY <1>1, <1>3
  <2>2. m[i - d].from = f[i] /\ m[i - d].to = i
    BY <1>3, <2>1
  <2>3. i - d \in DOMAIN m
    BY <1>3, <2>1, LenProperties
  <2>4. ~(f[i] < i) /\ f[i] \in Nat
    BY <1>3, <2>1, <2>2, <2>3
  <2> QED BY <2>1, <2>4
<1>6. \A i \in d + 1 + 1..n : f[i] >= i
  BY <1>1, <1>3, <1>5
<1>7. Sorts(S, pos, q) /\ Distinct(S, pos)
  BY <1>1, <1>3, <1>5, HalfSorts, HalfDistinct DEF n
<1>8. Sorts(S, pos', q) /\ Distinct(S, pos')
  BY <1>1, <1>4, <1>6, HalfSorts, HalfDistinct DEF n
<1>9. Listing(t) = q
  BY <1>7, ListedNow DEF S
<1>10. Listing(t)' = q
  BY <1>2, <1>8, ListedThen
<1> QED BY <1>9, <1>10

\* A request that orders t orders no other test.
LEMMA OneUnfolds ==
    ASSUME TypeOK, NEW s \in Sessions, NEW t \in Testsets, NEW r,
           req[s] # None /\ req[s].test = t, req' = [req EXCEPT ![s] = r],
           r = None \/ r.test = t
    PROVE  \A u \in Testsets \ {t} : Unfolds(s, u)' <=> Unfolds(s, u)
<1>1. req'[s] = r
  BY DEF TypeOK
<1> QED BY <1>1 DEF Unfolds, Reordering, Pending

\* The next move of a reorder takes a step out and puts it in elsewhere, but where
\* the order of the test is open or gets lost.
LEMMA MoveStepOutlines ==
    ASSUME TypeOK, TypeOK', Sound, OrderInv, ~raced, ~raced', NEW s \in Sessions, MoveStep(s),
           Fresh(s)
    PROVE  Outline!Edit
<1>1. Pending(s, "order") /\ req[s] # None
  BY DEF MoveStep, Pending
<1>2. PICK t \in Testsets : req[s].test = t
  BY <1>1, PendingKinds DEF Pending
<1>3. PICK old, move : old = OldPosition(s, Head(req[s].moves)) /\ move = Head(req[s].moves)
  OBVIOUS
<1> DEFINE rest == [req[s] EXCEPT !.moves = Tail(req[s].moves)]
<1>4. /\ req[s] \in [kind : {"order"}, test : Testsets, expected : [Rows -> Nat],
                     moves : Seq(Move), sorting : BOOLEAN]
      /\ req[s].moves # << >> /\ move = req[s].moves[1]
      /\ move \in Move /\ move.row \in StepsOf(t) /\ old \in Nat /\ move.to \in Nat
      /\ UNCHANGED <<collections, home, test, pointer>>
      /\ \/ /\ pos' = Inserted(pos, t, move.row, old, move.to)
            /\ Commit(s, rest) /\ halted' = halted
         \/ /\ halted' = halted \cup {t}
            /\ pos' = IF old = move.to THEN pos ELSE Shifted(pos, t, old, move.to)
            /\ Commit(s, None)
  BY <1>2, <1>3, MoveStepFresh
<1>5. s \notin stale
  BY <1>1, <1>4 DEF Commit
<1>6. rest.test = t
  BY <1>2, <1>4
<1>7. /\ \A o \in Sessions \ {s} : req'[o] = req[o]
      /\ \A u \in Testsets \ {t} : Unfolds(s, u)' <=> Unfolds(s, u)
  <2>1. CASE Commit(s, rest)
    <3>1. req' = [req EXCEPT ![s] = rest]
      BY <2>1 DEF Commit
    <3> HIDE DEF rest
    <3>2. \A u \in Testsets \ {t} : Unfolds(s, u)' <=> Unfolds(s, u)
      BY <1>1, <1>2, <1>6, <3>1, OneUnfolds
    <3> QED BY <3>1, <3>2 DEF TypeOK
  <2>2. CASE Commit(s, None)
    <3>1. req' = [req EXCEPT ![s] = None]
      BY <2>2 DEF Commit
    <3>2. \A u \in Testsets \ {t} : Unfolds(s, u)' <=> Unfolds(s, u)
      BY <1>1, <1>2, <3>1, OneUnfolds
    <3> QED BY <3>1, <3>2 DEF TypeOK
  <2> HIDE DEF rest
  <2> QED BY <1>4, <2>1, <2>2
<1>8. \A x \in Rows : test[x] # t => pos'[x] = pos[x]
  BY <1>4 DEF Inserted, Shifted, TypeOK, StepsOf
<1>9. t \in Unsettled \cup Unsettled' \/ Listing(t)' = Listing(t) => Outline!Edit
  <2>1. halted' = halted \/ halted' = halted \cup {t}
    BY <1>4
  <2> QED BY <1>4, <1>7, <1>8, <2>1, UnsettleStep
<1>10. CASE halted' = halted \cup {t}
  <2>1. t \in Unsettled'
    BY <1>10, UnsettledThen
  <2> QED BY <1>9, <2>1
<1>11. CASE halted' # halted \cup {t} /\ t \notin Unsettled
  <2>1. /\ pos' = Inserted(pos, t, move.row, old, move.to)
        /\ Commit(s, rest) /\ halted' = halted
    <3> HIDE DEF rest
    <3> QED BY <1>4, <1>11
  <2>2. req'[s] = rest /\ rest.kind = "order" /\ rest.sorting = req[s].sorting
    BY <1>4, <2>1 DEF Commit, TypeOK
  <2>3. CASE ~req[s].sorting
    <3>1. old = pos[move.row]
      BY <1>3, <2>3 DEF OldPosition
    <3>2. \A u \in Testsets : ~Unfolds(s, u) /\ ~Unfolds(s, u)'
      BY <2>2, <2>3 DEF Unfolds, Reordering, Pending
    <3>3. Unsettled' = Unsettled
      BY <1>7, <2>1, <3>2, UnsettledSame
    <3>4. Distinct(StepsOf(t), pos)
      BY <1>11, SettledOrder
    <3> QED BY <1>4, <2>1, <3>1, <3>3, <3>4, MoveStepMoves
  <2>4. CASE req[s].sorting
    <3>1. Reordering(s, t)
      BY <1>1, <1>2 DEF Reordering
    <3>2. t \notin halted /\ \A o \in Sessions : ~Unfolds(o, t)
      BY <1>11, UnsettledTests
    <3>3. Sorting(s, t)
      BY <1>5, <2>4, <3>1 DEF OrderInv
    <3>4. PICK q, f, d : SortsFrom(t, q, f, d, req[s].expected, req[s].moves)
      BY <3>2, <3>3 DEF Sorting
    <3>5. PICK e, m : e = req[s].expected /\ m = req[s].moves
      OBVIOUS
    <3>6. SortsFrom(t, q, f, d, e, m)
      BY <3>4, <3>5
    <3>7. \A i \in DOMAIN m : ~(m[i].from < m[i].to)
      BY <2>4, <3>1, <3>2, <3>5 DEF Unfolds
    <3>8. m # << >> /\ pos' = Inserted(pos, t, m[1].row, m[1].from, m[1].to)
      <4>1. old = move.from
        BY <1>3, <2>4 DEF OldPosition
      <4> QED BY <1>4, <2>1, <3>5, <4>1
    <3>9. Listing(t)' = Listing(t)
      BY <1>4, <3>6, <3>7, <3>8, SortKeepsList
    <3> QED BY <1>9, <3>9
  <2> QED BY <2>3, <2>4
<1> QED BY <1>9, <1>10, <1>11

\* The sort of a test that is renamed keeps its list.
LEMMA SortTestOutlines ==
    ASSUME TypeOK, TypeOK', OrderInv, ~raced, NEW s \in Sessions, Fresh(s), Commit(s, None),
           Pending(s, "sort"), UNCHANGED <<collections, home, test, pointer, halted>>,
           pos' = Sorted(req[s].test, req[s].moves)
    PROVE  Outline!Edit
<1>1. PICK t \in Testsets : req[s].test = t
  BY PendingKinds DEF Pending
<1>2. PICK q \in Listings(t) : req[s].moves = Moves(q, Places(q))
  BY <1>1 DEF Fresh
<1>3. /\ \A x \in Rows : test[x] # t => pos'[x] = pos[x]
      /\ IsOrdered(t) =>
            /\ IsNumbered(t)'
            /\ \A i \in 1..Cardinality(StepsOf(t)) : pos'[q[i]] = i
  <2>1. pos' = Sorted(t, Moves(q, Places(q)))
    BY <1>1, <1>2
  <2> QED BY <2>1, SortTestNumbers
<1>4. t \in Unsettled \/ Listing(t)' = Listing(t)
  <2> SUFFICES ASSUME t \notin Unsettled PROVE Listing(t)' = Listing(t)
    OBVIOUS
  <2> DEFINE S == StepsOf(t)
  <2>1. IsOrdered(t) /\ Distinct(S, pos)
    BY SettledOrder
  <2>2. Sorts(S, pos, q) /\ IsFiniteSet(S)
    BY StepsListed DEF Listed
  <2>3. Listing(t) = q
    BY <2>1, <2>2, ListedNow
  <2>4. StepsOf(t)' = S
    BY DEF StepsOf
  <2>5. Distinct(S, pos')
    <3>1. Listed' /\ IsNumbered(t)'
      BY <1>3, <2>1, StepsListedThen
    <3>2. Numbers(StepsOf(t)', pos')
      BY <3>1 DEF Listed
    <3> QED BY <2>4, <3>2 DEF Numbers
  <2>6. \A i \in 1..Cardinality(S) : pos'[q[i]] = i
    BY <1>3, <2>1
  <2> HIDE DEF S
  <2>7. Sorts(S, pos', q)
    <3>1. Cardinality(S) \in Nat
      BY <2>2, FS_CardinalityType
    <3> QED BY <2>2, <2>6, <3>1 DEF Sorts
  <2> QED BY <2>3, <2>4, <2>5, <2>7, ListedThen
<1>5. /\ req' = [req EXCEPT ![s] = None] /\ req'[s] = None /\ req[s].kind = "sort"
      /\ \A o \in Sessions \ {s} : req'[o] = req[o]
  BY DEF Commit, TypeOK, Pending
<1>6. \A u \in Testsets \ {t} : Unfolds(s, u)' <=> Unfolds(s, u)
  BY <1>5 DEF Unfolds, Reordering, Pending
<1> QED BY <1>3, <1>4, <1>5, <1>6, UnsettleStep

\* A step of a request that writes nothing may still open or close the order of
\* the test it reorders.
LEMMA QuietEdit ==
    ASSUME TypeOK, TypeOK', NEW s \in Sessions, NEW t \in Testsets, NEW r,
           UNCHANGED <<collections, home, test, pos, pointer, halted>>,
           req[s] # None /\ req[s].test = t, req' = [req EXCEPT ![s] = r],
           r = None \/ r.test = t
    PROVE  Outline!Edit
<1>1. \A u \in Testsets \ {t} : Unfolds(s, u)' <=> Unfolds(s, u)
  BY OneUnfolds
<1>2. \A o \in Sessions \ {s} : req'[o] = req[o]
  BY DEF TypeOK
<1>3. Listing(t)' = Listing(t)
  BY SameListing DEF StepsOf
<1> QED BY <1>1, <1>2, <1>3, UnsettleStep

\* What is neither written nor ordered changes nothing in the outline.
LEMMA QuietOutline ==
    ASSUME TypeOK, TypeOK', UNCHANGED <<collections, home, test, pos, pointer>>,
           Unsettled' = Unsettled
    PROVE  Outline!Edit
<1>1. Lists' = Lists
  BY BecomeSame
<1>2. UNCHANGED Outline!outline
  BY <1>1 DEF Outline!outline, Lists, Unsettled
<1> QED BY <1>2 DEF Outline!Edit

\* What a request that does not race writes is one edit.
LEMMA WriteEdits ==
    ASSUME TypeOK, TypeOK', EditInv, OrderInv, ~raced, ~raced', NEW s \in Sessions, Write(s)
    PROVE  Outline!Edit /\ UNCHANGED raced
<1>1. req[s] # None /\ Sound
  BY DEF Write, SaveTest, SaveStep, SavePointer, Drop, SkipStep, MoveStep, SortSteps, SortTest,
     Pending, EditInv
<1>2. ASSUME NEW rest, Commit(s, rest) PROVE Fresh(s) /\ UNCHANGED raced
  <2>1. s \notin stale /\ UNCHANGED raced
    BY <1>1, <1>2 DEF Commit, TypeOK
  <2> QED BY <1>1, <2>1 DEF EditInv
<1>3. ASSUME NEW t \in Testsets, SaveTest(s, t) PROVE Outline!Edit /\ UNCHANGED raced
  BY <1>2, <1>3, SaveTestAdds DEF SaveTest
<1>4. ASSUME NEW r \in Rows, SaveStep(s, r) PROVE Outline!Edit /\ UNCHANGED raced
  BY <1>1, <1>2, <1>4, SaveStepAppends DEF SaveStep
<1>5. CASE SavePointer(s)
  BY <1>1, <1>2, <1>5, SavePointerPoints DEF SavePointer
<1>6. CASE Drop(s)
  BY <1>1, <1>2, <1>6, DropRemoves DEF Drop
<1>7. CASE MoveStep(s)
  <2>1. \E rest : Commit(s, rest)
    BY <1>7 DEF MoveStep
  <2> QED BY <1>1, <1>2, <1>7, <2>1, MoveStepOutlines
<1>8. CASE SkipStep(s) \/ SortSteps(s)
  <2>1. Pending(s, "order") /\ UNCHANGED <<tables, raced, halted>>
    BY <1>8 DEF SkipStep, SortSteps
  <2>2. PICK t \in Testsets : req[s].test = t
    BY <1>1, <2>1, PendingKinds DEF Pending
  <2>3. \E r : req' = [req EXCEPT ![s] = r] /\ (r = None \/ r.test = t)
    <3>1. CASE SkipStep(s)
      <4> DEFINE r == [req[s] EXCEPT !.moves = Tail(req[s].moves)]
      <4>1. req' = [req EXCEPT ![s] = r]
        BY <3>1 DEF SkipStep
      <4>2. req[s] \in [kind : {"order"}, test : Testsets, expected : [Rows -> Nat],
                        moves : Seq(Move), sorting : BOOLEAN]
        BY <1>1, <2>1, PendingKinds DEF Pending
      <4>3. r.test = t
        BY <2>2, <4>2
      <4> QED BY <4>1, <4>3
    <3>2. CASE SortSteps(s)
      <4>1. PICK found \in Listings(t) :
               req' = [req EXCEPT ![s] =
                         IF req[s].sorting \/ found = << >> THEN None
                         ELSE Reorder(t, Expected(found, Places(found), IsOrdered(t)),
                                      Moves(found, Places(found)), TRUE)]
        BY <2>2, <3>2 DEF SortSteps
      <4>2. Reorder(t, Expected(found, Places(found), IsOrdered(t)),
                    Moves(found, Places(found)), TRUE).test = t
        BY DEF Reorder
      <4> QED BY <4>1, <4>2
    <3> QED BY <1>8, <3>1, <3>2
  <2> QED BY <1>1, <2>1, <2>2, <2>3, QuietEdit DEF tables
<1>9. CASE SortTest(s)
  <2>1. /\ Pending(s, "sort") /\ UNCHANGED <<collections, home, test, pointer, halted>>
        /\ \/ pos' = Sorted(req[s].test, req[s].moves) /\ Commit(s, None)
           \/ req' = [req EXCEPT ![s] = None] /\ UNCHANGED <<pos, raced>>
    BY <1>9 DEF SortTest
  <2>2. CASE pos' = Sorted(req[s].test, req[s].moves) /\ Commit(s, None)
    BY <1>2, <2>1, <2>2, SortTestOutlines
  <2>3. CASE req' = [req EXCEPT ![s] = None] /\ UNCHANGED <<pos, raced>>
    <3>1. PICK t \in Testsets : req[s].test = t
      BY <1>1, <2>1, PendingKinds DEF Pending
    <3> QED BY <1>1, <2>1, <2>3, <3>1, QuietEdit
  <2> QED BY <2>1, <2>2, <2>3
<1> QED BY <1>3, <1>4, <1>5, <1>6, <1>7, <1>8, <1>9 DEF Write

\* A request that comes in deletes a step, or edits nothing yet.
LEMMA RequestEdits ==
    ASSUME TypeOK, TypeOK', OrderInv, ~raced, ~raced', NEW s \in Sessions, req[s] = None,
           Request(s)
    PROVE  Outline!Edit /\ UNCHANGED raced
<1>1. ASSUME NEW r \in Rows, DeleteStep(s, r) PROVE Outline!Edit /\ UNCHANGED raced
  <2>1. UNCHANGED raced
    BY <1>1 DEF DeleteStep, Commit, TypeOK
  <2> QED BY <1>1, <2>1, DeleteStepRemoves
<1>2. CASE \E r : Begin(s, r) /\ (r.kind = "order" => ~r.sorting)
  <2>1. PICK r : Begin(s, r) /\ (r.kind = "order" => ~r.sorting)
    BY <1>2
  <2>2. /\ req'[s] = r /\ UNCHANGED <<tables, raced, halted>>
        /\ \A o \in Sessions \ {s} : req'[o] = req[o]
    BY <2>1 DEF Begin, TypeOK
  <2>3. \A u \in Testsets : ~Unfolds(s, u) /\ ~Unfolds(s, u)'
    BY <2>1, <2>2 DEF Unfolds, Reordering, Pending
  <2>4. Unsettled' = Unsettled
    BY <2>2, <2>3, UnsettledSame
  <2> QED BY <2>2, <2>4, QuietOutline DEF tables
<1>3. \/ \E r \in Rows : DeleteStep(s, r)
      \/ \E r : Begin(s, r) /\ (r.kind = "order" => ~r.sorting)
  <2>1. ASSUME NEW c \in Collections, NewTest(s, c) \/ DropCollection(s, c)
        PROVE  \E r : Begin(s, r) /\ (r.kind = "order" => ~r.sorting)
    BY <2>1 DEF NewTest, DropCollection
  <2>2. ASSUME NEW t \in Testsets, DropTest(s, t) \/ RenameTest(s, t)
        PROVE  \E r : Begin(s, r) /\ (r.kind = "order" => ~r.sorting)
    <3>1. ASSUME DropTest(s, t)
          PROVE  \E r : Begin(s, r) /\ (r.kind = "order" => ~r.sorting)
      BY <3>1 DEF DropTest
    <3>2. ASSUME RenameTest(s, t)
          PROVE  \E r : Begin(s, r) /\ (r.kind = "order" => ~r.sorting)
      <4>1. PICK found \in Listings(t) :
               Begin(s, [kind |-> "sort", test |-> t, moves |-> Moves(found, Places(found))])
        BY <3>2 DEF RenameTest
      <4> DEFINE r == [kind |-> "sort", test |-> t, moves |-> Moves(found, Places(found))]
      <4>2. r.kind = "sort"
        OBVIOUS
      <4> QED BY <4>1, <4>2
    <3> QED BY <2>2, <3>1, <3>2
  <2>3. ASSUME NEW t \in Testsets, NEW p, NewStep(s, t, p)
        PROVE  \E r : Begin(s, r) /\ (r.kind = "order" => ~r.sorting)
    BY <2>3 DEF NewStep
  <2>4. ASSUME NEW t \in Testsets, NEW numbers, ChangeOrder(s, t, numbers)
        PROVE  \E r : Begin(s, r) /\ (r.kind = "order" => ~r.sorting)
    BY <2>4 DEF ChangeOrder, Reorder
  <2>5. ASSUME NEW r \in Rows, NEW p, Repoint(s, r, p)
        PROVE  \E x : Begin(s, x) /\ (x.kind = "order" => ~x.sorting)
    BY <2>5 DEF Repoint
  <2> QED BY <2>1, <2>2, <2>3, <2>4, <2>5 DEF Request
<1> QED BY <1>1, <1>2, <1>3

\* A step of the editor is an edit of the outline, or the first at which requests
\* have raced.
LEMMA StepOutlines ==
    ASSUME TypeOK, TypeOK', EditInv, OrderInv, [Next]_vars
    PROVE  [Outline!Next]_<<Outline!outline, raced>>
<1> SUFFICES ASSUME ~raced' PROVE Outline!Edit /\ UNCHANGED raced
  BY DEF Outline!Next
<1>1. ASSUME UNCHANGED <<collections, home, test, pos, pointer, req, raced, halted>>
      PROVE  Outline!Edit /\ UNCHANGED raced
  <2>1. Unsettled' = Unsettled
    BY <1>1 DEF Unsettled, Unfolding, Reordering, Pending
  <2> QED BY <1>1, <2>1, QuietOutline
<1>2. CASE UNCHANGED vars
  BY <1>1, <1>2 DEF vars, tables
<1>3. ASSUME NEW r \in Rows, ArchiveActivity(r) PROVE Outline!Edit /\ UNCHANGED raced
  BY <1>1, <1>3 DEF ArchiveActivity
<1>4. ASSUME NEW s \in Sessions, (req[s] = None /\ Request(s)) \/ Write(s)
      PROVE  Outline!Edit /\ UNCHANGED raced
  <2>1. UNCHANGED raced \/ \E rest : Commit(s, rest)
    <3>1. Request(s) => UNCHANGED raced \/ \E rest : Commit(s, rest)
      BY DEF Request, NewTest, DropCollection, DropTest, RenameTest, NewStep, ChangeOrder,
         DeleteStep, Repoint, Begin
    <3>2. Write(s) => UNCHANGED raced \/ \E rest : Commit(s, rest)
      BY DEF Write, SaveTest, SaveStep, SavePointer, Drop, SkipStep, MoveStep, SortSteps,
         SortTest
    <3> QED BY <1>4, <3>1, <3>2
  <2>2. ~raced
    BY <2>1 DEF Commit, TypeOK
  <2> QED BY <1>4, <2>2, RequestEdits, WriteEdits
<1> QED BY <1>2, <1>3, <1>4 DEF Next

LEMMA InitOutline == Init => Outline!Init
<1> SUFFICES ASSUME Init PROVE Outline!Init
  OBVIOUS
<1>1. ASSUME NEW t \in Testsets PROVE Listing(t) = << >>
  <2>1. StepsOf(t) = {}
    BY NoneAssumption DEF Init, StepsOf
  <2>2. Cardinality(StepsOf(t)) = 0
    BY <2>1, FS_EmptySet
  <2>3. Listing(t) \in Seq({}) /\ Len(Listing(t)) = 0
    BY <2>1, <2>2, InitTypes, StepsShown DEF Shown
  <2> QED BY <2>3, EmptySeq
<1>2. \A t \in Testsets : ~Unfolding(t)
  BY DEF Init, Unfolding, Reordering, Pending
<1> QED BY <1>1, <1>2 DEF Init, Outline!Init

\* Rows with positions, shifts by acts_as_list, validations over snapshots and a
\* transaction per moved step amount to lists whose edits happen one at a time,
\* each when it is allowed, until requests race.  Only the order of the steps is
\* open, and only in a test in which a blank is being sorted out or a reorder met
\* an archived activity.
THEOREM OutlineImplemented == Spec => OutlineSpec
<1>1. TypeOK /\ TypeOK' /\ EditInv /\ OrderInv /\ [Next]_vars
        => [Outline!Next]_<<Outline!outline, raced>>
  BY StepOutlines
<1> QED BY <1>1, InitOutline, EditsSound, OrderHolds, PTL DEF Spec, OutlineSpec, Outline!Spec

=============================================================================
