--------------------------- MODULE RunCompileProofs ---------------------------
(***************************************************************************)
(* Proofs about RunCompile and Variables, for any users, keys, tests and   *)
(* bounds: the tables keep their types, a value a user has entered is the  *)
(* one his runs find unless two saves raced, a run keeps the objects that  *)
(* were checked for it unless somebody wrote since, and it holds the steps *)
(* its tests and pointers stand for, in order.                             *)
(***************************************************************************)
EXTENDS RunCompile, Counting, SequenceTheorems, TLAPS

-----------------------------------------------------------------------------
(* Types of the variables. *)

Saves == [user : Users, key : Keys, row : Elements \cup {None}]

LEMMA InitVariableTypes == InitVariables => TypeVariables
BY VariablesAssumption DEF InitVariables, TypeVariables

\* Each request of a user keeps the shape of the tables.
LEMMA VariableTypes ==
    ASSUME TypeVariables, NextVariables
    PROVE  TypeVariables'
<1>1. ASSUME NEW s \in Sessions, EndSave(s) PROVE TypeVariables'
  <2>1. save[s] \in Saves
    BY <1>1 DEF EndSave, TypeVariables, Saves
  <2>2. outdated' \subseteq Sessions /\ raced' \in BOOLEAN
    BY <1>1 DEF EndSave, Written, TypeVariables
  <2>3. save' \in [Sessions -> Saves \cup {None}]
    BY <1>1 DEF EndSave, TypeVariables, Saves
  <2>4. CASE save[s].row = None
    <3>1. PICK e \in Elements : /\ owner' = [owner EXCEPT ![e] = save[s].user]
                                /\ key' = [key EXCEPT ![e] = save[s].key]
      BY <1>1, <2>4 DEF EndSave
    <3>2. /\ owner' \in [Elements -> Users \cup {None, Gone}]
          /\ key' \in [Elements -> Keys \cup {None}]
          /\ value' = value
      BY <1>1, <2>1, <3>1 DEF EndSave, TypeVariables, Saves
    <3>3. \A f \in Elements : owner'[f] \notin Users => key'[f] = None /\ value'[f] = "none"
      BY <2>1, <3>1, <3>2 DEF TypeVariables, Saves
    <3> QED BY <2>2, <2>3, <3>2, <3>3 DEF TypeVariables, Saves
  <2>5. CASE save[s].row # None
    <3>1. /\ owner' = owner /\ value' = value
          /\ key' = IF owner[save[s].row] = save[s].user
                    THEN [key EXCEPT ![save[s].row] = save[s].key] ELSE key
      BY <1>1, <2>5 DEF EndSave
    <3>2. key' \in [Elements -> Keys \cup {None}]
      BY <2>1, <2>5, <3>1 DEF TypeVariables, Saves
    <3>3. \A f \in Elements : owner'[f] \notin Users => key'[f] = None /\ value'[f] = "none"
      BY <2>1, <2>5, <3>1 DEF TypeVariables, Saves
    <3> QED BY <2>2, <2>3, <3>1, <3>2, <3>3 DEF TypeVariables, Saves
  <2> QED BY <2>4, <2>5
<1>2. ASSUME NEW u \in Users, NEW s \in Sessions, NEW k \in Keys,
             NEW e \in Elements \cup {None}, BeginSave(s, u, k, e)
      PROVE  TypeVariables'
  <2>1. [user |-> u, key |-> k, row |-> e] \in Saves
    BY DEF Saves
  <2>2. save' \in [Sessions -> Saves \cup {None}]
    BY <1>2, <2>1 DEF BeginSave, TypeVariables, Saves
  <2> QED BY <1>2, <2>2 DEF BeginSave, TypeVariables, Saves
<1>3. ASSUME NEW u \in Users, NEW e \in Elements,
             NewValue(u, e) \/ DropValue(u, e) \/ DropElement(u, e)
      PROVE  TypeVariables'
  BY <1>3, VariablesAssumption DEF NewValue, DropValue, DropElement, TypeVariables
<1> QED BY <1>1, <1>2, <1>3 DEF NextVariables

-----------------------------------------------------------------------------
(* One row per key. *)

\* A user has one row per key, and a save that is not out of date would still
\* find its key free.
KeysInv ==
    ~raced =>
        /\ \A e, f \in Elements :
              owner[e] \in Users /\ owner[f] = owner[e] /\ key[f] = key[e] => e = f
        /\ \A s \in Sessions \ outdated :
              save[s] # None => KeyIsFree(save[s].user, save[s].key)

LEMMA InitKeys == InitVariables => KeysInv
BY VariablesAssumption DEF InitVariables, KeysInv

\* A row that is created or renamed gets a key no row of its owner has.
LEMMA KeysStep ==
    ASSUME TypeVariables, KeysInv, NextVariables
    PROVE  KeysInv'
<1>1. ASSUME NEW s \in Sessions, EndSave(s) PROVE KeysInv'
  <2> SUFFICES ASSUME ~raced' PROVE KeysInv'
    BY DEF KeysInv
  <2>1. save[s] \in Saves /\ ~raced /\ s \notin outdated
    BY <1>1 DEF EndSave, TypeVariables, Saves
  <2>2. KeyIsFree(save[s].user, save[s].key)
    BY <1>1, <2>1 DEF EndSave, KeysInv
  <2>3. \A r \in Sessions \ outdated' : save'[r] = None
    BY <1>1 DEF EndSave, Written
  <2>4. CASE save[s].row = None
    <3>1. PICK e \in Elements : /\ owner' = [owner EXCEPT ![e] = save[s].user]
                                /\ key' = [key EXCEPT ![e] = save[s].key]
      BY <1>1, <2>4 DEF EndSave
    <3> QED BY <2>1, <2>2, <2>3, <3>1 DEF KeysInv, KeyIsFree, Named, TypeVariables, Saves
  <2>5. CASE save[s].row # None
    <3>1. /\ owner' = owner
          /\ key' = IF owner[save[s].row] = save[s].user
                    THEN [key EXCEPT ![save[s].row] = save[s].key] ELSE key
      BY <1>1, <2>5 DEF EndSave
    <3> QED BY <2>1, <2>2, <2>3, <2>5, <3>1
            DEF KeysInv, KeyIsFree, Named, TypeVariables, Saves
  <2> QED BY <2>4, <2>5
<1>2. ASSUME NEW u \in Users, NEW s \in Sessions, NEW k \in Keys,
             NEW e \in Elements \cup {None}, BeginSave(s, u, k, e)
      PROVE  KeysInv'
  BY <1>2 DEF BeginSave, KeysInv, KeyIsFree, Named, TypeVariables
<1>3. ASSUME NEW u \in Users, NEW e \in Elements, NewValue(u, e) \/ DropValue(u, e)
      PROVE  KeysInv'
  BY <1>3 DEF NewValue, DropValue, KeysInv, KeyIsFree, Named
<1>4. ASSUME NEW u \in Users, NEW e \in Elements, DropElement(u, e)
      PROVE  KeysInv'
  <2>1. \A f \in Elements : owner'[f] \in Users => owner'[f] = owner[f] /\ key'[f] = key[f]
    BY <1>4, VariablesAssumption DEF DropElement, TypeVariables
  <2>2. \A v \in Users, k \in Keys : KeyIsFree(v, k) => KeyIsFree(v, k)'
    BY <2>1 DEF KeyIsFree, Named
  <2>3. \A r \in Sessions : save[r] # None => save[r].user \in Users /\ save[r].key \in Keys
    BY DEF TypeVariables
  <2>4. raced' = raced /\ save' = save /\ outdated' = outdated
    BY <1>4 DEF DropElement
  <2>5. ~raced' => \A r \in Sessions \ outdated' :
           save'[r] # None => KeyIsFree(save[r].user, save[r].key)'
    BY <2>2, <2>3, <2>4 DEF KeysInv
  <2> QED BY <2>1, <2>4, <2>5 DEF KeysInv, KeyIsFree, Named
<1> QED BY <1>1, <1>2, <1>3, <1>4 DEF NextVariables

\* With one row per key, the first is the one that has the value.
LEMMA KeysFound == TypeVariables /\ KeysInv => ValueIsFound
<1> SUFFICES ASSUME TypeVariables, KeysInv, ~raced, NEW u \in Users, NEW k \in Keys,
                    NEW e \in Named(u, k), value[e] = "own"
             PROVE  HasValue(u, k)
  BY DEF ValueIsFound
<1>1. \A f \in Named(u, k) : f = e
  BY DEF KeysInv, Named
<1>2. e <= e
  BY VariablesAssumption DEF Named, Elements
<1>3. FirstNamed(u, k) \in Named(u, k)
  BY <1>1, <1>2 DEF FirstNamed
<1> QED BY <1>1, <1>3 DEF HasValue

-----------------------------------------------------------------------------
(* Edits of tests. *)

Steps == Plain \cup Pointers

\* A test that has room for a step may be given one.
LEMMA AppendTypes ==
    ASSUME NEW t \in Testsets, NEW step \in Steps, HasRoom(t),
           tests \in [Testsets -> BoundedSeq(Steps, MaxSteps)]
    PROVE  [tests EXCEPT ![t] = Append(@, step)] \in [Testsets -> BoundedSeq(Steps, MaxSteps)]
<1>1. PICK m \in 0..MaxSteps : tests[t] \in [1..m -> Steps]
  BY DEF BoundedSeq, SeqOf
<1>2. tests[t] \in Seq(Steps) /\ Len(tests[t]) = m
  BY <1>1, SeqDef, LenProperties, CompileAssumption
<1>3. m + 1 \in 0..MaxSteps
  BY <1>2, CompileAssumption DEF HasRoom
<1>4. Append(tests[t], step) \in [1..m + 1 -> Steps]
  <2>1. Append(tests[t], step) \in Seq(Steps) /\ Len(Append(tests[t], step)) = m + 1
    BY <1>2, AppendProperties
  <2> QED BY <2>1, LenProperties
<1>5. Append(tests[t], step) \in BoundedSeq(Steps, MaxSteps)
  BY <1>3, <1>4 DEF BoundedSeq, SeqOf
<1> QED BY <1>5

\* ... and one of its steps may go.
LEMMA RemoveTypes ==
    ASSUME NEW t \in Testsets, NEW i \in DOMAIN tests[t],
           tests \in [Testsets -> BoundedSeq(Steps, MaxSteps)]
    PROVE  [tests EXCEPT ![t] = RemoveAt(@, i)] \in [Testsets -> BoundedSeq(Steps, MaxSteps)]
<1>1. PICK m \in 0..MaxSteps : tests[t] \in [1..m -> Steps]
  BY DEF BoundedSeq, SeqOf
<1>2. tests[t] \in Seq(Steps) /\ Len(tests[t]) = m /\ i \in 1..m
  BY <1>1, SeqDef, LenProperties, CompileAssumption
<1> DEFINE front == SubSeq(tests[t], 1, i - 1)
           back == SubSeq(tests[t], i + 1, m)
<1>3. front \in Seq(Steps) /\ Len(front) = i - 1
  BY <1>2, SubSeqProperties, CompileAssumption
<1>4. back \in Seq(Steps) /\ Len(back) = m - i
  BY <1>2, SubSeqProperties, CompileAssumption
<1> HIDE DEF front, back
<1>5. front \o back \in Seq(Steps) /\ Len(front \o back) = Len(front) + Len(back)
  BY <1>3, <1>4, ConcatProperties
<1>6. Len(front \o back) = m - 1 /\ m - 1 \in 0..MaxSteps
  BY <1>2, <1>3, <1>4, <1>5, CompileAssumption
<1>7. front \o back \in [1..m - 1 -> Steps]
  BY <1>5, <1>6, LenProperties
<1>8. RemoveAt(tests[t], i) \in BoundedSeq(Steps, MaxSteps)
  BY <1>2, <1>6, <1>7 DEF BoundedSeq, SeqOf, RemoveAt, front, back
<1> QED BY <1>8

\* A copied step is a step, whichever variable it names.
LEMMA CopiedSteps ==
    ASSUME NEW t \in Testsets, NEW i \in DOMAIN tests[t], tests[t][i].pointer = None,
           tests \in [Testsets -> BoundedSeq(Steps, MaxSteps)]
    PROVE  /\ tests[t][i] \in Plain
           /\ \A e \in Elements : [tests[t][i] EXCEPT !.datum = e] \in Plain
<1>1. tests[t][i] \in Steps
  <2>1. PICK m \in 0..MaxSteps : tests[t] \in [1..m -> Steps]
    BY DEF BoundedSeq, SeqOf
  <2> QED BY <2>1
<1>2. tests[t][i] \in Plain
  BY <1>1, CompileAssumption DEF Steps, Pointers
<1> QED BY <1>2 DEF Plain

\* What edits of tests change beside the tests is a variable copied along.
LEMMA EditTypes ==
    ASSUME TypeOK, KeysInv, EditTests
    PROVE  /\ tests' \in [Testsets -> BoundedSeq(Steps, MaxSteps)]
           /\ archived' = archived
           /\ TypeVariables' /\ KeysInv'
<1> USE DEF TypeOK
<1>1. tests \in [Testsets -> BoundedSeq(Steps, MaxSteps)] /\ TypeVariables
  BY DEF Steps
<1>2. UNCHANGED variables => TypeVariables' /\ KeysInv'
  BY DEF variables, TypeVariables, KeysInv, KeyIsFree, Named
<1>3. ASSUME NEW t \in Testsets, NEW i \in DOMAIN tests[t], DropStep(t, i)
      PROVE  tests' \in [Testsets -> BoundedSeq(Steps, MaxSteps)] /\ UNCHANGED <<variables, archived>>
  BY <1>1, <1>3, RemoveTypes DEF DropStep
<1>4. ASSUME NEW t \in Testsets, NEW u \in Users, NEW step \in Steps, NewStep(u, t, step)
      PROVE  tests' \in [Testsets -> BoundedSeq(Steps, MaxSteps)] /\ UNCHANGED <<variables, archived>>
  BY <1>1, <1>4, AppendTypes DEF NewStep
<1>5. ASSUME NEW t \in Testsets, NEW u \in Users, NEW i \in DOMAIN tests[t],
             NEW to \in Testsets, CopyStep(u, t, i, to)
      PROVE  /\ tests' \in [Testsets -> BoundedSeq(Steps, MaxSteps)]
             /\ archived' = archived /\ TypeVariables' /\ KeysInv'
  <2>1. HasRoom(to) /\ tests[t][i] \in Plain /\ archived' = archived
    BY <1>1, <1>5, CopiedSteps DEF CopyStep
  <2>2. CASE tests' = [tests EXCEPT ![to] = Append(@, tests[t][i])] /\ UNCHANGED variables
    BY <1>1, <1>2, <2>1, <2>2, AppendTypes DEF Steps
  <2>3. ASSUME NEW e \in Elements, NextElement(e),
               tests[t][i].datum # Static, KeyIsFree(u, key[tests[t][i].datum]),
               owner' = [owner EXCEPT ![e] = u],
               key' = [key EXCEPT ![e] = key[tests[t][i].datum]],
               value' = [value EXCEPT ![e] = "ownerless"],
               tests' = [tests EXCEPT ![to] = Append(@, [tests[t][i] EXCEPT !.datum = e])],
               outdated' = {s \in Sessions : save[s] # None}, UNCHANGED <<save, raced>>
        PROVE  tests' \in [Testsets -> BoundedSeq(Steps, MaxSteps)] /\ TypeVariables' /\ KeysInv'
    <3>1. [tests[t][i] EXCEPT !.datum = e] \in Steps
      BY <1>1, <1>5, CopiedSteps DEF CopyStep, Steps
    <3>2. tests' \in [Testsets -> BoundedSeq(Steps, MaxSteps)]
      BY <1>1, <2>1, <2>3, <3>1, AppendTypes
    <3>3. tests[t][i].datum \in Elements
      BY <2>1, <2>3 DEF Plain, Static
    <3>4. TypeVariables'
      BY <1>1, <2>3, <3>3 DEF TypeVariables
    <3>5. KeysInv'
      BY <1>1, <2>3, <3>3 DEF KeysInv, KeyIsFree, Named, TypeVariables
    <3> QED BY <3>2, <3>4, <3>5
  <2> QED BY <1>5, <2>1, <2>2, <2>3 DEF CopyStep
<1> QED BY <1>2, <1>3, <1>4, <1>5 DEF EditTests, Steps

-----------------------------------------------------------------------------
(* The specification. *)

CompileInv == TypeOK /\ KeysInv

LEMMA InitCompile == Init => CompileInv
<1> SUFFICES ASSUME Init PROVE CompileInv
  OBVIOUS
<1>1. << >> \in BoundedSeq(Steps, MaxSteps)
  BY CompileAssumption DEF BoundedSeq, SeqOf
<1> QED BY <1>1, InitVariableTypes, InitKeys DEF Init, CompileInv, TypeOK, Steps

LEMMA NextCompile == CompileInv /\ [Next]_vars => CompileInv'
<1> SUFFICES ASSUME TypeOK, KeysInv, [Next]_vars PROVE CompileInv'
  BY DEF CompileInv
<1>1. UNCHANGED variables => TypeVariables' /\ KeysInv'
  BY DEF variables, TypeOK, TypeVariables, KeysInv, KeyIsFree, Named
<1>2. CASE Edit
  <2>1. /\ tests' \in [Testsets -> BoundedSeq(Steps, MaxSteps)]
        /\ archived' \subseteq Activities
        /\ TypeVariables' /\ KeysInv'
    <3>1. CASE NextVariables /\ UNCHANGED <<tests, archived>>
      BY <3>1, VariableTypes, KeysStep DEF TypeOK, Steps
    <3>2. CASE EditTests
      BY <3>2, EditTypes DEF TypeOK
    <3>3. CASE \E a \in Activities : ArchiveActivity(a)
      BY <1>1, <3>3 DEF ArchiveActivity, TypeOK, Steps
    <3> QED BY <1>2, <3>1, <3>2, <3>3 DEF Edit
  <2>2. request' \in [user : Users, choice : TestIds, writes : 0..MaxWrites] \cup {None}
    BY <1>2, CompileAssumption DEF Edit, TypeOK
  <2> QED BY <2>1, <2>2 DEF CompileInv, TypeOK, Steps
<1>3. CASE CompileRun
  BY <1>1, <1>3 DEF CompileRun, CompileInv, TypeOK
<1>4. ASSUME NEW choice \in TestIds, ScheduledRun(choice) PROVE CompileInv'
  BY <1>1, <1>4 DEF ScheduledRun, CompileInv, TypeOK
<1>5. ASSUME NEW u \in Users, NEW choice \in TestIds, CheckRun(u, choice) PROVE CompileInv'
  <2>1. request' \in [user : Users, choice : TestIds, writes : 0..MaxWrites]
    BY <1>5, CompileAssumption DEF CheckRun
  <2> QED BY <1>1, <1>5, <2>1 DEF CheckRun, CompileInv, TypeOK
<1>6. CASE UNCHANGED vars
  BY <1>1, <1>6 DEF vars, CompileInv, TypeOK
<1> QED BY <1>2, <1>3, <1>4, <1>5, <1>6 DEF Next

\* Whatever users save, copy, drop and run, variables, tests and requests keep
\* their shape.
THEOREM CompileTypes == Spec => []TypeOK
<1>1. Spec => []CompileInv
  BY InitCompile, NextCompile, PTL DEF Spec
<1>2. CompileInv => TypeOK
  BY DEF CompileInv
<1> QED BY <1>1, <1>2, PTL

\* The value a user has entered for a variable is the one a run of his finds
\* (data_element.rb, run_object_identifier.rb), unless two saves raced.
THEOREM ValuesAreFound == Spec => []ValueIsFound
<1>1. Spec => []CompileInv
  BY InitCompile, NextCompile, PTL DEF Spec
<1>2. CompileInv => ValueIsFound
  BY KeysFound DEF CompileInv, TypeOK
<1> QED BY <1>1, <1>2, PTL

-----------------------------------------------------------------------------
(* What the check is good for. *)

\* As long as nobody wrote since, what was checked still holds.
CheckInv ==
    /\ request # None /\ request.writes = 0 => Checked(request.user, request.choice)
    /\ CheckedStepsKeepObjects

\* Every step of a compiled run was compiled for its user.
LEMMA StepsAreCompiled ==
    ASSUME NEW u, NEW choice, NEW i \in DOMAIN Compile(u, choice),
           NEW j \in DOMAIN Compile(u, choice)[i].steps
    PROVE  \E step : Compile(u, choice)[i].steps[j] = Compiled(u, step)
<1>1. PICK t : Compile(u, choice)[i] = CompileTest(u, t)
  BY DEF Compile
<1>2. PICK steps : CompileTest(u, t).steps = [k \in DOMAIN steps |-> Compiled(u, steps[k])]
  BY DEF CompileTest
<1> QED BY <1>1, <1>2

LEMMA NextChecked == CompileInv /\ CheckInv /\ [Next]_vars => CheckInv'
<1> SUFFICES ASSUME CompileInv, CheckInv, [Next]_vars PROVE CheckInv'
  OBVIOUS
<1> USE DEF CheckedStepsKeepObjects
<1>1. CASE run = None /\ Edit
  <2>1. run' = None
    BY <1>1 DEF Edit
  <2>2. request' # None => request'.writes # 0
    BY <1>1, CompileAssumption DEF Edit, CompileInv, TypeOK
  <2>3. CheckedStepsKeepObjects'
    BY <2>1
  <2> QED BY <2>2, <2>3, Zenon DEF CheckInv
<1>2. CASE CompileRun
  <2>1. /\ request' = None /\ tests' = tests
        /\ run' = [user |-> request.user, checked |-> TRUE, current |-> request.writes = 0,
                   choice |-> request.choice, tests |-> Compile(request.user, request.choice)]
    BY <1>2 DEF CompileRun
  <2>2. CheckedStepsKeepObjects'
    <3> SUFFICES ASSUME run'.current,
                        NEW t \in ToSet(run'.choice), NEW i \in DOMAIN run'.tests,
                        NEW j \in DOMAIN run'.tests[i].steps,
                        run'.tests[i].steps[j].step \in ToSet(tests'[t])
                 PROVE  run'.tests[i].steps[j].object
      OBVIOUS
    <3>1. /\ request.writes = 0 /\ t \in ToSet(request.choice)
          /\ run'.tests = Compile(request.user, request.choice)
      BY <2>1
    <3>2. PICK step : run'.tests[i].steps[j] = Compiled(request.user, step)
      BY <3>1, StepsAreCompiled
    <3>3. step \in ToSet(tests[t])
      BY <2>1, <3>2 DEF Compiled
    <3>4. Checked(request.user, request.choice)
      BY <1>2, <3>1 DEF CompileRun, CheckInv
    <3>5. MayUse(request.user, step)
      BY <3>1, <3>3, <3>4 DEF Checked
    <3> QED BY <3>2, <3>5 DEF Compiled
  <2> QED BY <2>1, <2>2, Zenon DEF CheckInv
<1>3. ASSUME NEW choice \in TestIds, ScheduledRun(choice) PROVE CheckInv'
  <2>1. ~run'.checked /\ request' = request
    BY <1>3 DEF ScheduledRun
  <2>2. Checked(request.user, request.choice)' = Checked(request.user, request.choice)
    BY <1>3 DEF ScheduledRun, variables, Checked, MayUse, UsesVariable, HasValue,
                FirstNamed, Named
  <2> QED BY <2>1, <2>2 DEF CheckInv
<1>4. ASSUME run = None, NEW u \in Users, NEW choice \in TestIds, CheckRun(u, choice)
      PROVE  CheckInv'
  <2>1. request'.user = u /\ request'.choice = choice /\ Checked(u, choice) /\ run' = None
    BY <1>4 DEF CheckRun
  <2>2. Checked(u, choice)' = Checked(u, choice)
    BY <1>4 DEF CheckRun, variables, Checked, MayUse, UsesVariable, HasValue,
                FirstNamed, Named
  <2> QED BY <2>1, <2>2 DEF CheckInv
<1>5. CASE UNCHANGED vars
  <2>1. Checked(request.user, request.choice)' = Checked(request.user, request.choice)
    BY <1>5 DEF vars, variables, Checked, MayUse, UsesVariable, HasValue,
                FirstNamed, Named
  <2> QED BY <1>5, <2>1 DEF vars, CheckInv
<1> QED BY <1>1, <1>2, <1>3, <1>4, <1>5 DEF Next

\* No object of a step a user's own tests list is left out of a run of his that
\* was checked, if nothing was written between the check (runs_controller.rb)
\* and the compilation (run_test_action.rb).
THEOREM CheckedObjectsAreKept == Spec => []CheckedStepsKeepObjects
<1>1. Init => CheckInv
  BY DEF Init, CheckInv, CheckedStepsKeepObjects
<1>2. Spec => []CompileInv
  BY InitCompile, NextCompile, PTL DEF Spec
<1>3. Spec => []CheckInv
  BY <1>1, <1>2, NextChecked, PTL DEF Spec
<1>4. CheckInv => CheckedStepsKeepObjects
  BY DEF CheckInv
<1> QED BY <1>3, <1>4, PTL

-----------------------------------------------------------------------------
(* FlattenSeq, by least counterexamples. *)

\* f[i] is the concatenation of the first i parts of seqs
Joins(f, seqs, n) ==
    f = [i \in 1..n |-> IF i = 1 THEN seqs[i] ELSE f[i - 1] \o seqs[i]]

LEMMA JoinsExist == \A seqs : \A n \in Nat : \E f : Joins(f, seqs, n)
<1> SUFFICES ASSUME NEW seqs PROVE \A n \in Nat : \E f : Joins(f, seqs, n)
  OBVIOUS
<1> DEFINE Bad == {n \in Nat : ~\E f : Joins(f, seqs, n)}
<1> SUFFICES ASSUME Bad # {} PROVE FALSE
  OBVIOUS
<1>1. PICK n \in Bad : \A m \in Bad : n <= m
  <2> HIDE DEF Bad
  <2>1. Bad \subseteq Nat
    BY DEF Bad
  <2> QED BY <2>1, LeastNat
<1>2. n \in Nat /\ ~\E f : Joins(f, seqs, n)
  OBVIOUS
<1>3. n # 0
  <2>1. Joins(<< >>, seqs, 0)
    BY DEF Joins
  <2> QED BY <1>2, <2>1
<1>4. n - 1 \in Nat /\ ~(n <= n - 1)
  BY <1>2, <1>3
<1>5. PICK f : Joins(f, seqs, n - 1)
  BY <1>1, <1>4
<1> HIDE DEF Bad
<1> DEFINE g == [i \in 1..n |-> IF i = 1 THEN seqs[i] ELSE f[i - 1] \o seqs[i]]
<1>6. \A i \in 1..n : i # 1 => i - 1 \in 1..n - 1 /\ i - 1 \in 1..n
  BY <1>2
<1>7. \A i \in 1..n : g[i] = IF i = 1 THEN seqs[i] ELSE f[i - 1] \o seqs[i]
  OBVIOUS
<1>8. \A i \in 1..n - 1 : f[i] = IF i = 1 THEN seqs[i] ELSE f[i - 1] \o seqs[i]
  BY <1>5 DEF Joins
<1>9. \A i \in 1..n - 1 : g[i] = f[i]
  <2>1. 1..n - 1 \subseteq 1..n
    BY <1>2
  <2> QED BY <1>7, <1>8, <2>1, Zenon
<1>10. g = [i \in 1..n |-> IF i = 1 THEN seqs[i] ELSE g[i - 1] \o seqs[i]]
  <2>1. \A i \in 1..n : i # 1 => f[i - 1] = g[i - 1]
    BY <1>6, <1>9
  <2> HIDE DEF g
  <2>2. \A i \in 1..n : g[i] = IF i = 1 THEN seqs[i] ELSE g[i - 1] \o seqs[i]
    BY <1>7, <2>1, Zenon
  <2>3. g = [i \in 1..n |-> g[i]]
    BY DEF g
  <2> QED BY <2>2, <2>3
<1>11. Joins(g, seqs, n)
  BY <1>10 DEF Joins
<1> QED BY <1>2, <1>11

\* FlattenSeq joins all the parts.
LEMMA FlattenJoins ==
    ASSUME NEW seqs, Len(seqs) \in Nat, Len(seqs) # 0
    PROVE  \E f : Joins(f, seqs, Len(seqs)) /\ FlattenSeq(seqs) = f[Len(seqs)]
<1>1. PICK f : f = CHOOSE g : g = [i \in 1..Len(seqs) |->
                                     IF i = 1 THEN seqs[i] ELSE g[i - 1] \o seqs[i]]
  OBVIOUS
<1>2. Joins(f, seqs, Len(seqs))
  <2>1. \E g : g = [i \in 1..Len(seqs) |-> IF i = 1 THEN seqs[i] ELSE g[i - 1] \o seqs[i]]
    BY JoinsExist DEF Joins
  <2> QED BY <1>1, <2>1 DEF Joins
<1>3. FlattenSeq(seqs) = f[Len(seqs)]
  BY <1>1 DEF FlattenSeq
<1> QED BY <1>2, <1>3

\* Where the items of the first n parts of seqs stand: part and place in it.
Items(seqs, n) == UNION {{i} \X (1..Len(seqs[i])) : i \in 1..n}

\* s lists the items of the first n parts, part by part
Lists(s, S, seqs, n) ==
    /\ s \in Seq(S)
    /\ IsFiniteSet(Items(seqs, n))
    /\ Len(s) = Cardinality(Items(seqs, n))
    /\ \A p \in Items(seqs, n) :
          /\ Rank(Items(seqs, n), p) \in 1..Len(s)
          /\ s[Rank(Items(seqs, n), p)] = seqs[p[1]][p[2]]

LEMMA ItemsType ==
    ASSUME NEW S, NEW seqs \in Seq(Seq(S)), NEW n \in 0..Len(seqs), NEW p \in Items(seqs, n)
    PROVE  /\ p = <<p[1], p[2]>>
           /\ p[1] \in 1..n /\ p[2] \in 1..Len(seqs[p[1]])
           /\ p[1] \in Int /\ p[2] \in Int
           /\ seqs[p[1]] \in Seq(S)
BY DEF Items

\* The next part is listed after the others.
LEMMA ListsMore ==
    ASSUME NEW S, NEW seqs \in Seq(Seq(S)), NEW n \in Nat, n + 1 <= Len(seqs),
           NEW s, Lists(s, S, seqs, n)
    PROVE  Lists(s \o seqs[n + 1], S, seqs, n + 1)
<1> DEFINE part == seqs[n + 1]
           P == Items(seqs, n)
           Q == {n + 1} \X (1..Len(part))
           R == Items(seqs, n + 1)
<1>1. part \in Seq(S) /\ Len(part) \in Nat /\ n \in 0..Len(seqs) /\ n + 1 \in 0..Len(seqs)
  BY LenProperties
<1>2. R = P \cup Q
  BY DEF Items
<1>3. P \cap Q = {}
  BY <1>1, ItemsType
<1>4. IsFiniteSet(Q) /\ Cardinality(Q) = Len(part)
  BY <1>1, CountRow
<1>5. s \in Seq(S) /\ IsFiniteSet(P) /\ Len(s) = Cardinality(P) /\ Len(s) \in Nat
  BY LenProperties DEF Lists
<1>6. IsFiniteSet(R) /\ Cardinality(R) = Len(s) + Len(part)
  <2> HIDE DEF P, Q, R
  <2>1. IsFiniteSet(P \cup Q) /\ Cardinality(P \cup Q) = Cardinality(P) + Cardinality(Q)
    BY <1>3, <1>4, <1>5, CountBoth
  <2> QED BY <1>2, <1>4, <1>5, <2>1
<1>7. /\ s \o part \in Seq(S) /\ Len(s \o part) = Len(s) + Len(part)
      /\ \A i \in 1..Len(s) : (s \o part)[i] = s[i]
      /\ \A i \in 1..Len(part) : (s \o part)[Len(s) + i] = part[i]
  <2>1. /\ s \o part \in Seq(S) /\ Len(s \o part) = Len(s) + Len(part)
        /\ \A i \in 1..Len(s) + Len(part) :
              (s \o part)[i] = IF i <= Len(s) THEN s[i] ELSE part[i - Len(s)]
    BY <1>1, <1>5, ConcatProperties
  <2>2. \A i \in 1..Len(part) : /\ Len(s) + i \in 1..Len(s) + Len(part)
                               /\ ~(Len(s) + i <= Len(s)) /\ (Len(s) + i) - Len(s) = i
    BY <1>1, <1>5
  <2>3. \A i \in 1..Len(s) : i \in 1..Len(s) + Len(part) /\ i <= Len(s)
    BY <1>1, <1>5
  <2> QED BY <2>1, <2>2, <2>3
<1>8. ASSUME NEW p \in P
      PROVE  Rank(R, p) \in 1..Len(s) + Len(part) /\ (s \o part)[Rank(R, p)] = seqs[p[1]][p[2]]
  <2>1. \A q \in Q : ~Before(q, p)
    BY <1>1, ItemsType DEF Before
  <2>2. {q \in R : Before(q, p)} = {q \in P : Before(q, p)}
    BY <1>2, <2>1
  <2>3. Rank(R, p) = Rank(P, p)
    BY <2>2 DEF Rank
  <2>4. Rank(P, p) \in 1..Len(s) /\ s[Rank(P, p)] = seqs[p[1]][p[2]]
    BY DEF Lists
  <2>5. PICK k \in 1..Len(s) : k = Rank(R, p) /\ s[k] = seqs[p[1]][p[2]]
    BY <2>3, <2>4
  <2>6. k \in 1..Len(s) + Len(part)
    BY <1>1, <1>5
  <2> QED BY <1>7, <2>5, <2>6
<1>9. ASSUME NEW j \in 1..Len(part)
      PROVE  /\ Rank(R, <<n + 1, j>>) \in 1..Len(s) + Len(part)
             /\ (s \o part)[Rank(R, <<n + 1, j>>)] = part[j]
  <2> DEFINE p == <<n + 1, j>>
             A == {n + 1} \X (1..j - 1)
  <2>1. j \in Nat /\ j - 1 \in Nat
    BY <1>1
  <2>2. \A q \in P : Before(q, p)
    BY <1>1, ItemsType DEF Before
  <2>3. {q \in Q : Before(q, p)} = A
    BY <1>1, <2>1 DEF Before
  <2>4. {q \in R : Before(q, p)} = P \cup A
    BY <1>2, <2>2, <2>3
  <2>5. IsFiniteSet(A) /\ Cardinality(A) = j - 1
    BY <2>1, CountRow
  <2>6. P \cap A = {}
    BY <1>1, <1>3, <2>1
  <2>7. Cardinality(P \cup A) = Len(s) + (j - 1)
    <3> HIDE DEF P, A
    <3>1. Cardinality(P \cup A) = Cardinality(P) + Cardinality(A)
      BY <1>5, <2>5, <2>6, CountBoth
    <3> QED BY <1>5, <2>5, <3>1
  <2>8. Rank(R, p) = Cardinality(P \cup A) + 1
    BY <2>4 DEF Rank
  <2>9. Rank(R, p) = Len(s) + j
    BY <1>5, <2>1, <2>7, <2>8
  <2>10. Len(s) + j \in 1..Len(s) + Len(part)
    BY <1>1, <1>5, <2>1
  <2> HIDE DEF R, P, Q
  <2> QED BY <1>7, <2>9, <2>10
<1> HIDE DEF P, Q, R, part
<1>10. \A p \in R : /\ Rank(R, p) \in 1..Len(s \o part)
                    /\ (s \o part)[Rank(R, p)] = seqs[p[1]][p[2]]
  <2>1. \A p \in Q : \E j \in 1..Len(part) : p = <<n + 1, j>> /\ p[1] = n + 1 /\ p[2] = j
    BY DEF Q
  <2>2. \A p \in Q : /\ Rank(R, p) \in 1..Len(s) + Len(part)
                     /\ (s \o part)[Rank(R, p)] = seqs[p[1]][p[2]]
    BY <1>9, <2>1 DEF part
  <2> QED BY <1>2, <1>7, <1>8, <2>2
<1>11. Len(s \o part) = Cardinality(R)
  BY <1>6, <1>7
<1> QED BY <1>6, <1>7, <1>10, <1>11 DEF Lists, R, part

\* FlattenSeq lists the items of all parts.
LEMMA FlattenLists ==
    ASSUME NEW S, NEW seqs \in Seq(Seq(S))
    PROVE  Lists(FlattenSeq(seqs), S, seqs, Len(seqs))
<1>1. Lists(<< >>, S, seqs, 0)
  <2>1. Items(seqs, 0) = {}
    BY DEF Items
  <2>2. << >> \in Seq(S) /\ Len(<< >>) = 0
    BY EmptySeq
  <2> QED BY <2>1, <2>2, FS_EmptySet DEF Lists
<1>2. Len(seqs) \in Nat
  BY LenProperties
<1>3. CASE Len(seqs) = 0
  <2>1. seqs = << >>
    BY <1>3, EmptySeq
  <2>2. FlattenSeq(seqs) = << >>
    BY <1>3, <2>1 DEF FlattenSeq
  <2> QED BY <1>1, <1>3, <2>2
<1>4. CASE Len(seqs) # 0
  <2>1. PICK f : Joins(f, seqs, Len(seqs)) /\ FlattenSeq(seqs) = f[Len(seqs)]
    BY <1>2, <1>4, FlattenJoins
  <2>2. \A i \in 1..Len(seqs) : f[i] = IF i = 1 THEN seqs[i] ELSE f[i - 1] \o seqs[i]
    BY <2>1 DEF Joins
  <2> DEFINE Bad == {n \in Nat : n \in 1..Len(seqs) /\ ~Lists(f[n], S, seqs, n)}
  <2>3. Bad = {}
    <3> SUFFICES ASSUME Bad # {} PROVE FALSE
      OBVIOUS
    <3>1. PICK n \in Bad : \A m \in Bad : n <= m
      <4> HIDE DEF Bad
      <4>1. Bad \subseteq Nat
        BY DEF Bad
      <4> QED BY <4>1, LeastNat
    <3>2. n \in 1..Len(seqs) /\ ~Lists(f[n], S, seqs, n)
      OBVIOUS
    <3>3. CASE n = 1
      <4>1. Lists(<< >> \o seqs[0 + 1], S, seqs, 0 + 1)
        <5> HIDE DEF Bad
        <5>1. 0 \in Nat /\ 0 + 1 <= Len(seqs)
          BY <1>2, <3>2, <3>3
        <5> QED BY <1>1, <5>1, ListsMore
      <4>2. f[1] = seqs[1] /\ seqs[1] \in Seq(S)
        BY <2>2, <3>2, <3>3
      <4>3. << >> \o seqs[1] = seqs[1]
        BY <4>2, ConcatEmptySeq
      <4> QED BY <3>2, <3>3, <4>1, <4>2, <4>3
    <3>4. CASE n # 1
      <4>1. n - 1 \in Nat /\ n - 1 \in 1..Len(seqs) /\ ~(n <= n - 1) /\ (n - 1) + 1 = n
        BY <1>2, <3>2, <3>4
      <4>2. Lists(f[n - 1], S, seqs, n - 1)
        BY <3>1, <4>1
      <4>3. Lists(f[n - 1] \o seqs[(n - 1) + 1], S, seqs, (n - 1) + 1)
        <5> HIDE DEF Bad
        <5>1. (n - 1) + 1 <= Len(seqs)
          BY <1>2, <3>2, <4>1
        <5> QED BY <4>1, <4>2, <5>1, ListsMore
      <4> QED BY <2>2, <3>2, <3>4, <4>1, <4>3
    <3> QED BY <3>3, <3>4
  <2>4. Lists(f[Len(seqs)], S, seqs, Len(seqs))
    BY <1>2, <1>4, <2>3
  <2> QED BY <2>1, <2>4
<1> QED BY <1>3, <1>4

-----------------------------------------------------------------------------
(* The number of a place among others. *)

Pairs == Int \X Int

\* The places of a set are numbered in their order.
LEMMA RankRises ==
    ASSUME NEW P \in SUBSET Pairs, IsFiniteSet(P), NEW p \in P, NEW q \in P
    PROVE  /\ Rank(P, p) \in 1..Cardinality(P)
           /\ Before(p, q) => Rank(P, p) < Rank(P, q)
<1> DEFINE A == {x \in P : Before(x, p)}
           B == {x \in P : Before(x, q)}
<1>1. \A x \in P : ~Before(x, x)
  BY DEF Before, Pairs
<1>2. IsFiniteSet(A) /\ IsFiniteSet(B) /\ Cardinality(A) \in Nat /\ Cardinality(B) \in Nat
  BY FS_Subset, FS_CardinalityType
<1>3. /\ IsFiniteSet(A \cup {p})
      /\ Cardinality(A \cup {p}) = Cardinality(A) + 1
  <2>1. p \notin A
    BY <1>1
  <2> HIDE DEF A
  <2> QED BY <1>2, <2>1, FS_AddElement
<1>4. Cardinality(A \cup {p}) <= Cardinality(P)
  <2>1. A \cup {p} \subseteq P
    OBVIOUS
  <2> HIDE DEF A
  <2> QED BY <2>1, CountSubset
<1>5. Cardinality(P) \in Nat
  BY FS_CardinalityType
<1>6. Before(p, q) => Cardinality(A \cup {p}) <= Cardinality(B)
  <2> SUFFICES ASSUME Before(p, q) PROVE Cardinality(A \cup {p}) <= Cardinality(B)
    OBVIOUS
  <2>1. A \cup {p} \subseteq B
    BY DEF Before, Pairs
  <2> HIDE DEF A, B
  <2> QED BY <1>2, <2>1, CountSubset
<1>7. Rank(P, p) = Cardinality(A) + 1 /\ Rank(P, q) = Cardinality(B) + 1
  BY DEF Rank
<1> HIDE DEF A, B
<1> QED BY <1>2, <1>3, <1>4, <1>5, <1>6, <1>7

\* Two places do not share a number, and numbers go with the order.
LEMMA RankOrders ==
    ASSUME NEW P \in SUBSET Pairs, IsFiniteSet(P), NEW p \in P, NEW q \in P
    PROVE  /\ Rank(P, p) = Rank(P, q) => p = q
           /\ Rank(P, p) < Rank(P, q) <=> Before(p, q)
<1>1. p = q \/ Before(p, q) \/ Before(q, p)
  BY DEF Before, Pairs
<1>2. Rank(P, p) \in Int /\ Rank(P, q) \in Int
  <2>1. Cardinality(P) \in Nat
    BY FS_CardinalityType
  <2>2. Rank(P, p) \in 1..Cardinality(P) /\ Rank(P, q) \in 1..Cardinality(P)
    BY RankRises
  <2> QED BY <2>1, <2>2
<1>3. /\ Before(p, q) => Rank(P, p) < Rank(P, q)
      /\ Before(q, p) => Rank(P, q) < Rank(P, p)
  BY RankRises
<1> QED BY <1>1, <1>2, <1>3

\* As many numbers as places.
LEMMA RankCounts ==
    ASSUME NEW P \in SUBSET Pairs, IsFiniteSet(P), NEW Q \in SUBSET P
    PROVE  /\ IsFiniteSet(Q)
           /\ Cardinality({Rank(P, q) : q \in Q}) = Cardinality(Q)
<1> DEFINE f == [q \in Q |-> Rank(P, q)]
<1>1. IsFiniteSet(Q)
  BY FS_Subset
<1>2. \A x, y \in Q : f[x] = f[y] => x = y
  <2> SUFFICES ASSUME NEW x \in Q, NEW y \in Q, f[x] = f[y] PROVE x = y
    OBVIOUS
  <2> QED BY RankOrders
<1>3. {f[q] : q \in Q} = {Rank(P, q) : q \in Q}
  OBVIOUS
<1>4. DOMAIN f = Q /\ f = [x \in Q |-> f[x]]
  OBVIOUS
<1> HIDE DEF f
<1>5. Cardinality({f[q] : q \in Q}) = Cardinality(Q)
  BY <1>1, <1>2, <1>4, CountImage
<1> QED BY <1>1, <1>3, <1>5

\* Every number up to that of the places is one of theirs.
LEMMA RankCovers ==
    ASSUME NEW P \in SUBSET Pairs, IsFiniteSet(P)
    PROVE  {Rank(P, p) : p \in P} = 1..Cardinality(P)
<1> DEFINE N == 1..Cardinality(P)
           R == {Rank(P, p) : p \in P}
<1>1. Cardinality(P) \in Nat
  BY FS_CardinalityType
<1>2. R \subseteq N
  BY RankRises
<1>3. Cardinality(R) = Cardinality(P)
  BY RankCounts
<1>4. IsFiniteSet(N) /\ Cardinality(N) = Cardinality(P)
  <2>1. Cardinality(P) \in Int /\ 1 \in Int
    BY <1>1
  <2>2. Cardinality(P) = IF 1 > Cardinality(P) THEN 0 ELSE Cardinality(P) - 1 + 1
    BY <1>1
  <2> QED BY <2>1, <2>2, FS_Interval
<1> HIDE DEF N, R
<1>5. R \in SUBSET N
  BY <1>2
<1>6. R = N
  BY <1>3, <1>4, <1>5, FS_Subset
<1> QED BY <1>6 DEF N, R

\* The items of s at the places K, in their order.
LEMMA OnlyPicks ==
    ASSUME NEW S, NEW s \in Seq(S), NEW K \in SUBSET (DOMAIN s)
    PROVE  /\ Only(s, K) \in Seq(S)
           /\ IsFiniteSet(K)
           /\ Len(Only(s, K)) = Cardinality(K)
           /\ \A k \in K : LET n == Cardinality({j \in K : j < k}) + 1 IN
                 n \in 1..Cardinality(K) /\ Only(s, K)[n] = s[k]
<1> DEFINE seqs == [i \in DOMAIN s |-> IF i \in K THEN <<s[i]>> ELSE << >>]
           P == Items(seqs, Len(seqs))
           Q == K \X {1}
<1>1. DOMAIN s = 1..Len(s) /\ Len(s) \in Nat /\ \A i \in DOMAIN s : s[i] \in S
  BY LenProperties, ElementOfSeq
<1>2. \A i \in DOMAIN s : seqs[i] \in Seq(S)
  BY <1>1
<1>3. seqs \in Seq(Seq(S)) /\ Len(seqs) = Len(s)
  BY <1>1, <1>2, SeqDef, LenProperties
<1>4. Lists(FlattenSeq(seqs), S, seqs, Len(seqs))
  <2> HIDE DEF seqs
  <2> QED BY <1>3, FlattenLists
<1>5. P = Q
  <2>1. \A i \in K : Len(seqs[i]) = 1
    BY <1>1
  <2>2. \A i \in DOMAIN s \ K : Len(seqs[i]) = 0
    OBVIOUS
  <2> HIDE DEF seqs
  <2>3. \A i \in K : 1..Len(seqs[i]) = {1}
    <3>1. 1..1 = {1}
      OBVIOUS
    <3> QED BY <2>1, <3>1, Zenon
  <2>4. \A i \in DOMAIN s \ K : 1..Len(seqs[i]) = {}
    BY <2>2
  <2> QED BY <1>1, <1>3, <2>3, <2>4 DEF Items
<1>6. Only(s, K) = FlattenSeq(seqs)
  BY DEF Only
<1>7. IsFiniteSet(K)
  <2>1. IsFiniteSet(DOMAIN s)
    BY <1>1, FS_Interval
  <2> QED BY <2>1, FS_Subset
<1>8. \A A \in SUBSET K : Cardinality(A \X {1}) = Cardinality(A)
  <2> SUFFICES ASSUME NEW A \in SUBSET K PROVE Cardinality(A \X {1}) = Cardinality(A)
    OBVIOUS
  <2>1. IsFiniteSet(A) /\ Cardinality(A) \in Nat
    BY <1>7, FS_Subset, FS_CardinalityType
  <2>2. IsFiniteSet({1}) /\ Cardinality({1}) = 1
    BY FS_Singleton
  <2>3. Cardinality(A \X {1}) = Cardinality(A) * Cardinality({1})
    BY <2>1, <2>2, FS_Product
  <2> QED BY <2>1, <2>2, <2>3
<1> HIDE DEF P
<1>9. /\ Only(s, K) \in Seq(S) /\ Len(Only(s, K)) = Cardinality(K)
  <2>1. Cardinality(Q) = Cardinality(K)
    BY <1>8
  <2> HIDE DEF Q, seqs
  <2> QED BY <1>4, <1>5, <1>6, <2>1 DEF Lists, P
<1>10. ASSUME NEW k \in K
       PROVE  LET n == Cardinality({j \in K : j < k}) + 1 IN
                 n \in 1..Cardinality(K) /\ Only(s, K)[n] = s[k]
  <2>1. {q \in Q : Before(q, <<k, 1>>)} = {j \in K : j < k} \X {1}
    BY DEF Before
  <2>2. Rank(Q, <<k, 1>>) = Cardinality({j \in K : j < k}) + 1
    BY <1>8, <2>1 DEF Rank
  <2>3. <<k, 1>> \in Q
    OBVIOUS
  <2>4. seqs[k][1] = s[k]
    OBVIOUS
  <2> HIDE DEF Q, seqs
  <2>5. /\ Rank(Q, <<k, 1>>) \in 1..Len(Only(s, K))
        /\ Only(s, K)[Rank(Q, <<k, 1>>)] = seqs[<<k, 1>>[1]][<<k, 1>>[2]]
    BY <1>4, <1>5, <1>6, <2>3 DEF Lists, P
  <2> QED BY <1>9, <2>2, <2>4, <2>5
<1> QED BY <1>7, <1>9, <1>10

-----------------------------------------------------------------------------
(* What a run is compiled from. *)

\* the number of the item at k in Only(s, K)
Place(K, k) == Cardinality({j \in K : j < k}) + 1

\* Only keeps the order: its places are numbered from 1, without gaps.
LEMMA PlacesRise ==
    ASSUME NEW K \in SUBSET Nat, IsFiniteSet(K)
    PROVE  /\ \A n \in 1..Cardinality(K) : \E k \in K : n = Place(K, k)
           /\ \A j, k \in K : Place(K, j) < Place(K, k) <=> j < k
           /\ \A A \in SUBSET K : Cardinality(A \X {1}) = Cardinality(A)
<1> DEFINE Q == K \X {1}
<1>1. IsFiniteSet({1}) /\ Cardinality({1}) = 1
  BY FS_Singleton
<1>2. \A A \in SUBSET K : Cardinality(A \X {1}) = Cardinality(A)
  <2> SUFFICES ASSUME NEW A \in SUBSET K PROVE Cardinality(A \X {1}) = Cardinality(A)
    OBVIOUS
  <2>1. IsFiniteSet(A) /\ Cardinality(A) \in Nat
    BY FS_Subset, FS_CardinalityType
  <2>2. Cardinality(A \X {1}) = Cardinality(A) * Cardinality({1})
    BY <1>1, <2>1, FS_Product
  <2> QED BY <1>1, <2>1, <2>2
<1>3. Q \in SUBSET Pairs /\ IsFiniteSet(Q)
  <2>1. Q \subseteq Pairs
    <3>1. \A k \in K : k \in Int
      OBVIOUS
    <3>2. 1 \in Int
      OBVIOUS
    <3> QED BY <3>1, <3>2, Zenon DEF Pairs
  <2> QED BY <1>1, <2>1, FS_Product
<1>4. Cardinality(Q) = Cardinality(K)
  BY <1>2
<1>5. \A k \in K : <<k, 1>> \in Q /\ Rank(Q, <<k, 1>>) = Place(K, k)
  <2> TAKE k \in K
  <2>1. {q \in Q : Before(q, <<k, 1>>)} = {j \in K : j < k} \X {1}
    BY DEF Before
  <2> QED BY <1>2, <2>1 DEF Rank, Place
<1>6. \A q \in Q : \E k \in K : q = <<k, 1>>
  <2> TAKE q \in Q
  <2>1. q[1] \in K /\ q = <<q[1], 1>>
    OBVIOUS
  <2> QED BY <2>1
<1>7. \A j, k \in K : Before(<<j, 1>>, <<k, 1>>) <=> j < k
  BY DEF Before
<1> HIDE DEF Q
<1>8. \A n \in 1..Cardinality(K) : \E k \in K : n = Place(K, k)
  <2>1. {Rank(Q, q) : q \in Q} = 1..Cardinality(K)
    BY <1>3, <1>4, RankCovers
  <2> QED BY <1>5, <1>6, <2>1
<1>9. \A j, k \in K : Place(K, j) < Place(K, k) <=> j < k
  <2> TAKE j, k \in K
  <2>1. Rank(Q, <<j, 1>>) < Rank(Q, <<k, 1>>) <=> Before(<<j, 1>>, <<k, 1>>)
    BY <1>3, <1>5, RankOrders
  <2> QED BY <1>5, <1>7, <2>1
<1> QED BY <1>2, <1>8, <1>9

\* The steps of a compiled test are those of the places that can be executed.
LEMMA TestIsCompiled ==
    ASSUME tests \in [Testsets -> BoundedSeq(Steps, MaxSteps)], NEW u, NEW t \in Testsets
    PROVE  Follows(t, CompileTest(u, t).steps)
<1> DEFINE seqs == [i \in DOMAIN tests[t] |->
                       IF tests[t][i].pointer = None THEN <<tests[t][i]>>
                       ELSE tests[tests[t][i].pointer]]
           P == Items(seqs, Len(seqs))
           E == Expand(t)
           K == Valid(E)
           T == Places(t)
<1>1. \A v \in Testsets : /\ tests[v] \in Seq(Steps) /\ Len(tests[v]) \in 0..MaxSteps
                          /\ DOMAIN tests[v] = 1..Len(tests[v])
                          /\ \A i \in DOMAIN tests[v] : tests[v][i] \in Steps
  <2> TAKE v \in Testsets
  <2>1. PICK m \in 0..MaxSteps : tests[v] \in [1..m -> Steps]
    BY DEF BoundedSeq, SeqOf
  <2>2. m \in Nat
    BY CompileAssumption
  <2>3. tests[v] \in Seq(Steps) /\ Len(tests[v]) = m /\ DOMAIN tests[v] = 1..m
    BY <2>1, <2>2, SeqDef, LenProperties
  <2> QED BY <2>1, <2>3
<1>2. \A step \in Steps : step.pointer = None \/ step.pointer \in Testsets
  BY DEF Steps, Plain, Pointers
<1>3. \A i \in DOMAIN tests[t] : /\ seqs[i] = StepsAt(t, i)
                                 /\ seqs[i] \in Seq(Steps)
                                 /\ Len(seqs[i]) \in Nat
                                 /\ DOMAIN seqs[i] = 1..Len(seqs[i])
  <2> TAKE i \in DOMAIN tests[t]
  <2>1. seqs[i] = StepsAt(t, i)
    BY DEF StepsAt
  <2>2. seqs[i] \in Seq(Steps)
    BY <1>1, <1>2
  <2> HIDE DEF seqs
  <2> QED BY <2>1, <2>2, LenProperties
<1>4. \A i \in DOMAIN tests[t] : \A j : j \in DOMAIN seqs[i] => j \in 1..MaxSteps
  <2> TAKE i \in DOMAIN tests[t]
  <2>1. tests[t][i] \in Steps
    BY <1>1
  <2>2. CASE tests[t][i].pointer = None
    <3>1. seqs[i] = <<tests[t][i]>> /\ Len(tests[t]) \in 1..MaxSteps
      BY <1>1, <2>2, CompileAssumption
    <3>2. DOMAIN <<tests[t][i]>> = {1}
      OBVIOUS
    <3> HIDE DEF seqs
    <3> QED BY <3>1, <3>2, CompileAssumption
  <2>3. CASE tests[t][i].pointer # None
    <3>1. PICK v \in Testsets : v = tests[t][i].pointer
      BY <1>2, <2>1, <2>3
    <3>2. seqs[i] = tests[v]
      BY <2>3, <3>1
    <3> HIDE DEF seqs
    <3> QED BY <1>1, <3>2, CompileAssumption
  <2> QED BY <2>2, <2>3
<1>5. /\ seqs \in Seq(Seq(Steps)) /\ Len(seqs) = Len(tests[t])
      /\ DOMAIN tests[t] = 1..Len(seqs) /\ Len(seqs) \in Nat
  <2>1. DOMAIN tests[t] = 1..Len(tests[t]) /\ Len(tests[t]) \in Nat
    BY <1>1, CompileAssumption
  <2>2. seqs = [i \in 1..Len(tests[t]) |-> seqs[i]]
    BY <2>1
  <2> HIDE DEF seqs
  <2> QED BY <1>3, <2>1, <2>2, SeqDef, LenProperties
<1>6. E = FlattenSeq(seqs)
  BY DEF Expand
<1> HIDE DEF seqs, E
<1>7. Lists(E, Steps, seqs, Len(seqs))
  BY <1>5, <1>6, FlattenLists
<1>8. E \in Seq(Steps) /\ DOMAIN E = 1..Len(E) /\ Len(E) \in Nat
  BY <1>7, LenProperties DEF Lists
<1>9. P \in SUBSET Pairs /\ IsFiniteSet(P) /\ Len(E) = Cardinality(P)
  <2>1. P \subseteq Pairs
    <3>1. Len(seqs) \in 0..Len(seqs)
      BY <1>5
    <3> QED BY <1>5, <3>1, ItemsType DEF Pairs
  <2> QED BY <1>7, <2>1 DEF Lists
<1>10. \A p \in P : Rank(P, p) \in 1..Len(E) /\ E[Rank(P, p)] = StepAt(t, p)
  <2> TAKE p \in P
  <2>1. Rank(P, p) \in 1..Len(E) /\ E[Rank(P, p)] = seqs[p[1]][p[2]]
    BY <1>7 DEF Lists
  <2>2. p[1] \in DOMAIN tests[t]
    <3>1. Len(seqs) \in 0..Len(seqs)
      BY <1>5
    <3> QED BY <1>5, <3>1, ItemsType
  <2> QED BY <1>3, <2>1, <2>2 DEF StepAt
<1>11. T = {p \in P : StepAt(t, p).pointer = None /\ StepAt(t, p).activity \notin archived}
  <2>1. P = {p \in (DOMAIN tests[t]) \X (1..MaxSteps) : p[2] \in DOMAIN StepsAt(t, p[1])}
    BY <1>3, <1>4, <1>5 DEF Items
  <2> HIDE DEF P
  <2> QED BY <2>1 DEF Places
<1> HIDE DEF P, T
<1>12. T \in SUBSET P /\ T \in SUBSET Pairs /\ IsFiniteSet(T)
  BY <1>9, <1>11, FS_Subset
<1>13. K = {Rank(P, p) : p \in T}
  <2>1. {Rank(P, p) : p \in P} = DOMAIN E
    BY <1>8, <1>9, RankCovers
  <2> QED BY <1>10, <1>11, <2>1 DEF Valid
<1>14. K \in SUBSET (DOMAIN E)
  BY DEF Valid
<1>15. Cardinality(K) = Cardinality(T)
  BY <1>9, <1>12, <1>13, RankCounts
<1> HIDE DEF K
<1>16. \A p \in T : Cardinality({j \in K : j < Rank(P, p)}) + 1 = Rank(T, p)
  <2> TAKE p \in T
  <2> DEFINE A == {q \in T : Before(q, p)}
  <2>1. {j \in K : j < Rank(P, p)} = {Rank(P, q) : q \in A}
    <3>1. \A q \in T : Rank(P, q) < Rank(P, p) <=> Before(q, p)
      BY <1>9, <1>12, RankOrders
    <3> QED BY <1>13, <3>1
  <2>2. A \in SUBSET P
    BY <1>12
  <2>3. Cardinality({Rank(P, q) : q \in A}) = Cardinality(A)
    <3> HIDE DEF A
    <3> QED BY <1>9, <2>2, RankCounts
  <2> QED BY <2>1, <2>3 DEF Rank
<1> DEFINE steps == Only(E, K)
<1>17. /\ steps \in Seq(Steps) /\ Len(steps) = Cardinality(K)
       /\ \A p \in T : Rank(T, p) \in 1..Len(steps) /\ steps[Rank(T, p)] = StepAt(t, p)
  <2>1. /\ steps \in Seq(Steps) /\ Len(steps) = Cardinality(K)
        /\ \A k \in K : LET n == Cardinality({j \in K : j < k}) + 1 IN
              n \in 1..Cardinality(K) /\ steps[n] = E[k]
    BY <1>8, <1>14, OnlyPicks
  <2> HIDE DEF steps
  <2>2. \A p \in T : /\ Rank(P, p) \in K /\ E[Rank(P, p)] = StepAt(t, p)
    BY <1>10, <1>12, <1>13
  <2> QED BY <1>16, <2>1, <2>2
<1>18. CompileTest(u, t) = [test |-> t, steps |-> [i \in DOMAIN steps |-> Compiled(u, steps[i])]]
  BY DEF CompileTest, E, K
<1> HIDE DEF steps
<1>19. /\ DOMAIN steps = 1..Len(steps) /\ Len(steps) \in Nat
       /\ Len([i \in DOMAIN steps |-> Compiled(u, steps[i])]) = Len(steps)
  <2>1. DOMAIN steps = 1..Len(steps) /\ Len(steps) \in Nat
    BY <1>17, LenProperties
  <2> QED BY <2>1, LenProperties
<1>20. \A p \in T : CompileTest(u, t).steps[Rank(T, p)].step = StepAt(t, p)
  BY <1>17, <1>18, <1>19 DEF Compiled
<1>21. Len(CompileTest(u, t).steps) = Cardinality(T)
  BY <1>15, <1>17, <1>18, <1>19
<1> QED BY <1>20, <1>21 DEF T, Follows

\* the tests of the choice that have steps, once each and in the order in which
\* they were chosen first, compiled for u
KeepsTests(u, choice, compiled) ==
    /\ \A i \in DOMAIN compiled : /\ compiled[i].test \in Testsets
                                  /\ compiled[i] = CompileTest(u, compiled[i].test)
    /\ {compiled[i].test : i \in DOMAIN compiled}
         = {t \in ToSet(choice) : tests[t] # << >>}
    /\ Len(compiled) = Cardinality({compiled[i].test : i \in DOMAIN compiled})
    /\ \A i, j \in DOMAIN compiled, m \in DOMAIN choice :
          i < j /\ choice[m] = compiled[j].test =>
             \E l \in 1..m - 1 : choice[l] = compiled[i].test

LEMMA TestsAreKept ==
    ASSUME NEW u, NEW choice \in Seq(Testsets)
    PROVE  KeepsTests(u, choice, Compile(u, choice))
<1> DEFINE K == Kept(choice)
           chosen == Only(choice, K)
           compiled == Compile(u, choice)
<1>1. /\ DOMAIN choice = 1..Len(choice) /\ Len(choice) \in Nat
      /\ \A m \in DOMAIN choice : choice[m] \in Testsets /\ m \in Nat
  BY LenProperties, ElementOfSeq
<1>2. /\ K \in SUBSET (DOMAIN choice)
      /\ \A k \in K : /\ tests[choice[k]] # << >>
                      /\ \A j \in 1..k - 1 : choice[j] # choice[k]
  BY DEF Kept
<1>3. \A m \in DOMAIN choice : tests[choice[m]] # << >> =>
         \E k \in K : choice[k] = choice[m] /\ k <= m
  <2> TAKE m \in DOMAIN choice
  <2> SUFFICES ASSUME tests[choice[m]] # << >>
               PROVE  \E k \in K : choice[k] = choice[m] /\ k <= m
    OBVIOUS
  <2> DEFINE Same == {j \in DOMAIN choice : choice[j] = choice[m]}
  <2>1. PICK k \in Same : \A j \in Same : k <= j
    <3>1. Same \subseteq Nat /\ Same # {}
      BY <1>1
    <3> HIDE DEF Same
    <3> QED BY <3>1, LeastNat
  <2>2. \A j \in 1..k - 1 : j \in DOMAIN choice /\ ~(k <= j)
    BY <1>1
  <2>3. k \in K
    BY <2>1, <2>2 DEF Kept
  <2> QED BY <2>1, <2>3
<1> HIDE DEF K
<1>4. /\ chosen \in Seq(Testsets) /\ IsFiniteSet(K) /\ Len(chosen) = Cardinality(K)
      /\ \A k \in K : Place(K, k) \in 1..Len(chosen) /\ chosen[Place(K, k)] = choice[k]
  <2>1. K \in SUBSET (DOMAIN choice) /\ chosen = Only(choice, K)
    BY <1>2
  <2>2. \A k \in K : Cardinality({j \in K : j < k}) + 1 = Place(K, k)
    BY DEF Place
  <2> HIDE DEF chosen
  <2> QED BY <2>1, <2>2, OnlyPicks
<1>5. DOMAIN chosen = 1..Len(chosen) /\ Len(chosen) \in Nat
  BY <1>4, LenProperties
<1>6. K \in SUBSET Nat
  BY <1>1, <1>2
<1>7. /\ \A n \in 1..Cardinality(K) : \E k \in K : n = Place(K, k)
      /\ \A j, k \in K : Place(K, j) < Place(K, k) <=> j < k
  BY <1>4, <1>6, PlacesRise
<1>8. \A n \in DOMAIN chosen : \E k \in K : n = Place(K, k) /\ chosen[n] = choice[k]
  BY <1>4, <1>5, <1>7
<1> HIDE DEF chosen
<1>9. /\ compiled = [i \in DOMAIN chosen |-> CompileTest(u, chosen[i])]
      /\ \A i \in DOMAIN chosen : compiled[i] = CompileTest(u, chosen[i])
  BY DEF Compile, chosen, K
<1>10. \A i \in DOMAIN chosen : compiled[i].test = chosen[i] /\ chosen[i] \in Testsets
  <2>1. \A i \in DOMAIN chosen : chosen[i] \in Testsets
    BY <1>4, ElementOfSeq
  <2> QED BY <1>9, <2>1 DEF CompileTest
<1>11. DOMAIN compiled = DOMAIN chosen /\ Len(compiled) = Len(chosen)
  <2>1. DOMAIN compiled = 1..Len(chosen)
    BY <1>5, <1>9
  <2> QED BY <1>5, <1>9, <2>1, LenProperties
<1> HIDE DEF compiled
<1> DEFINE S == {compiled[i].test : i \in DOMAIN compiled}
<1>12. S = {choice[k] : k \in K}
  <2>1. \A i \in DOMAIN chosen : \E k \in K : compiled[i].test = choice[k]
    BY <1>8, <1>10
  <2>2. \A k \in K : \E i \in DOMAIN chosen : compiled[i].test = choice[k]
    BY <1>4, <1>5, <1>10
  <2> QED BY <1>11, <2>1, <2>2
<1>13. S = {t \in ToSet(choice) : tests[t] # << >>}
  <2>1. ToSet(choice) = {choice[m] : m \in DOMAIN choice}
    BY DEF ToSet
  <2>2. \A k \in K : choice[k] \in ToSet(choice) /\ tests[choice[k]] # << >>
    BY <1>2, <2>1
  <2>3. \A t \in ToSet(choice) : tests[t] # << >> => \E k \in K : choice[k] = t
    BY <1>3, <2>1
  <2> HIDE DEF S
  <2>4. \A t \in S : t \in ToSet(choice) /\ tests[t] # << >>
    BY <1>12, <2>2
  <2>5. \A t \in ToSet(choice) : tests[t] # << >> => t \in S
    BY <1>12, <2>3
  <2> QED BY <2>4, <2>5
<1>14. \A j, k \in K : choice[j] = choice[k] => j = k
  <2> SUFFICES ASSUME NEW j \in K, NEW k \in K, choice[j] = choice[k] PROVE j = k
    OBVIOUS
  <2>1. j \in Nat /\ k \in Nat /\ j > 0 /\ k > 0
    BY <1>1, <1>2
  <2>2. ~(j \in 1..k - 1) /\ ~(k \in 1..j - 1)
    BY <1>2
  <2> QED BY <2>1, <2>2
<1>15. Cardinality(S) = Len(compiled)
  <2> DEFINE f == [k \in K |-> choice[k]]
  <2>1. /\ {f[k] : k \in K} = S
        /\ \A j, k \in K : f[j] = f[k] => j = k
        /\ DOMAIN f = K /\ f = [k \in K |-> f[k]]
    BY <1>12, <1>14
  <2> HIDE DEF f, S
  <2>2. Cardinality({f[k] : k \in K}) = Cardinality(K)
    BY <1>4, <2>1, CountImage
  <2> QED BY <1>4, <1>11, <2>1, <2>2
<1>16. ASSUME NEW i \in DOMAIN compiled, NEW j \in DOMAIN compiled, NEW m \in DOMAIN choice,
              i < j, choice[m] = compiled[j].test
       PROVE  \E l \in 1..m - 1 : choice[l] = compiled[i].test
  <2>1. PICK k \in K : i = Place(K, k) /\ compiled[i].test = choice[k]
    BY <1>8, <1>10, <1>11
  <2>2. PICK l \in K : j = Place(K, l) /\ compiled[j].test = choice[l]
    BY <1>8, <1>10, <1>11
  <2>3. k < l
    BY <1>7, <1>16, <2>1, <2>2
  <2>4. k \in 1..Len(choice) /\ l \in 1..Len(choice) /\ m \in 1..Len(choice)
    BY <1>1, <1>2
  <2>5. ~(m \in 1..l - 1)
    BY <1>2, <1>16, <2>2
  <2>6. k \in 1..m - 1
    BY <1>1, <2>3, <2>4, <2>5
  <2> QED BY <2>1, <2>6
<1>17. \A i \in DOMAIN compiled : /\ compiled[i].test \in Testsets
                                  /\ compiled[i] = CompileTest(u, compiled[i].test)
  BY <1>9, <1>10, <1>11
<1>18. KeepsTests(u, choice, compiled)
  BY <1>13, <1>15, <1>16, <1>17 DEF KeepsTests
<1> QED BY <1>18 DEF compiled

\* What a test stands for depends on the steps of tests and on the archive.
LEMMA FollowsStays ==
    ASSUME UNCHANGED <<tests, archived>>
    PROVE  \A t, steps : Follows(t, steps)' = Follows(t, steps)
<1>1. /\ \A t : Places(t)' = Places(t)
      /\ \A t, place : StepAt(t, place)' = StepAt(t, place)
  BY DEF Places, StepAt, StepsAt
<1>2. \A t, place : Rank(Places(t), place)' = Rank(Places(t), place)
  BY <1>1 DEF Rank
<1> QED BY <1>1, <1>2 DEF Follows

\* A compilation that nobody disturbs gives the run that its choice asks for.
LEMMA RunIsCompiled ==
    ASSUME TypeOK, NEW u, NEW choice \in TestIds,
           run'.choice = choice, run'.tests = Compile(u, choice),
           UNCHANGED <<tests, archived>>
    PROVE  RunFollowsTests'
<1>1. choice \in Seq(Testsets)
  <2>1. PICK t \in Testsets, v \in Testsets : choice = <<t, v>>
    BY DEF TestIds
  <2> QED BY <2>1
<1>2. PICK compiled : compiled = Compile(u, choice)
  OBVIOUS
<1>3. KeepsTests(u, choice, compiled)
  BY <1>1, <1>2, TestsAreKept
<1>4. \A t \in Testsets : Follows(t, CompileTest(u, t).steps)
  <2>1. tests \in [Testsets -> BoundedSeq(Steps, MaxSteps)]
    BY DEF TypeOK, Steps
  <2> QED BY <2>1, TestIsCompiled
<1>5. \A c \in ToSet(compiled) : Follows(c.test, c.steps)
  BY <1>3, <1>4 DEF KeepsTests, ToSet
<1>6. \A c \in ToSet(compiled) : Follows(c.test, c.steps)'
  BY <1>5, FollowsStays
<1>7. run'.tests = compiled /\ run'.choice = choice /\ tests' = tests
  BY <1>2
<1> QED BY <1>3, <1>6, <1>7 DEF RunFollowsTests, KeepsTests

LEMMA NextFollows == CompileInv /\ RunFollowsTests /\ [Next]_vars => RunFollowsTests'
<1> SUFFICES ASSUME TypeOK, RunFollowsTests, [Next]_vars PROVE RunFollowsTests'
  BY DEF CompileInv
<1>1. CASE run = None /\ Edit
  BY <1>1 DEF Edit, RunFollowsTests
<1>2. CASE CompileRun
  <2>1. request.choice \in TestIds
    BY <1>2 DEF CompileRun, TypeOK
  <2>2. /\ run'.choice = request.choice
        /\ run'.tests = Compile(request.user, request.choice)
        /\ UNCHANGED <<tests, archived>>
    BY <1>2 DEF CompileRun
  <2> QED BY <2>1, <2>2, RunIsCompiled
<1>3. ASSUME NEW choice \in TestIds, ScheduledRun(choice) PROVE RunFollowsTests'
  <2>1. /\ run'.choice = choice /\ run'.tests = Compile(None, choice)
        /\ UNCHANGED <<tests, archived>>
    BY <1>3 DEF ScheduledRun
  <2> QED BY <2>1, RunIsCompiled
<1>4. ASSUME run = None, NEW u \in Users, NEW choice \in TestIds, CheckRun(u, choice)
      PROVE  RunFollowsTests'
  BY <1>4 DEF CheckRun, RunFollowsTests
<1>5. CASE UNCHANGED vars
  <2>1. run' = run /\ tests' = tests /\ UNCHANGED <<tests, archived>>
    BY <1>5 DEF vars
  <2> QED BY <2>1, FollowsStays DEF RunFollowsTests
<1> QED BY <1>1, <1>2, <1>3, <1>4, <1>5 DEF Next

\* A run holds the chosen tests that have steps, once each and in the order
\* chosen, and in each exactly the steps that can be executed, in the order of
\* their places: its own, and for a pointer those of the test it stands for
\* (run.rb, run_test.rb).  However often somebody wrote between the check and
\* the compilation.
THEOREM RunsFollowTests == Spec => []RunFollowsTests
<1>1. Init => RunFollowsTests
  BY DEF Init, RunFollowsTests
<1>2. Spec => []CompileInv
  BY InitCompile, NextCompile, PTL DEF Spec
<1> QED BY <1>1, <1>2, NextFollows, PTL DEF Spec
=============================================================================
