------------------------------ MODULE RunCompile ------------------------------
(***************************************************************************)
(* Compiling a run: Run, RunTest, RunTestAction and RunObjectIdentifier    *)
(* copy the chosen tests and their steps in one transaction, with the      *)
(* values of the user who runs.  A request checks first, in reads of its   *)
(* own, that the user has the values (runs_controller.rb); a scheduled run *)
(* is compiled without a check and without a user.                         *)
(*                                                                         *)
(* A row that is not valid is left out of the run without an error: a step *)
(* whose activity is archived, a pointer inside a pointed-to test, the     *)
(* object of a step whose variable the user has no value of.  What becomes *)
(* of a run later matters to no compilation, so the model ends with it.    *)
(*                                                                         *)
(* Here a step is a record: a pointer, or an activity with one object and  *)
(* its datum, static data or the data_element of a variable.               *)
(***************************************************************************)
EXTENDS Variables, Sequences, SequencesExt

CONSTANTS
    Testsets,
    Activities,
    MaxSteps,       \* bound: steps of a test
    MaxRows,        \* bound: steps of all tests
    MaxWrites       \* bound: writes between a check and its compilation

ASSUME CompileAssumption ==
    None \notin Testsets /\ MaxSteps \in Nat /\ MaxWrites \in Nat

VARIABLES
    tests,          \* testset -> its steps in order
    archived,       \* activities hidden by the default scope
    request,        \* a request to run that has passed its check
    run             \* the compiled run

vars == <<variables, tests, archived, request, run>>

Static == None
Plain == [pointer : {None}, activity : Activities, datum : Elements \cup {Static}]
Pointers == [pointer : Testsets, activity : {None}, datum : {Static}]

\* test_ids: two tests, or one that comes twice and counts once
TestIds == {<<t, u>> : t, u \in Testsets}

HasRoom(t) ==
    /\ Len(tests[t]) < MaxSteps
    /\ Cardinality(UNION {{t2} \X DOMAIN tests[t2] : t2 \in Testsets}) < MaxRows

-----------------------------------------------------------------------------
(* Editing, see TestSteps; here a pointer is refused if it leads back. *)

\* a plain step takes its variable from a menu of the user's own
NewStep(u, t, step) ==
    /\ HasRoom(t)
    /\ \/ /\ step \in Plain /\ step.activity \notin archived
          /\ step.datum # Static => owner[step.datum] = u
       \/ /\ step \in Pointers /\ step.pointer # t
          /\ \A other \in ToSet(tests[step.pointer]) : other.pointer # t
    /\ tests' = [tests EXCEPT ![t] = Append(@, step)]
    /\ UNCHANGED <<variables, archived>>

DropStep(t, i) ==
    /\ tests' = [tests EXCEPT ![t] = RemoveAt(@, i)]
    /\ UNCHANGED <<variables, archived>>

\* duplicate_action: a variable of another user becomes one of the copier's,
\* with a value that names no user.  If the copier has the key already, its
\* save! raises when the copy is there, with the variable it was copied from.
CopyStep(u, t, i, to) ==
    LET step == tests[t][i]
        foreign == step.datum # Static /\ owner[step.datum] \notin {u, Gone} IN
    /\ HasRoom(to)
    /\ step.pointer = None /\ step.activity \notin archived
    /\ \/ /\ foreign => ~KeyIsFree(u, key[step.datum])
          /\ tests' = [tests EXCEPT ![to] = Append(@, step)]
          /\ UNCHANGED variables
       \/ /\ foreign /\ KeyIsFree(u, key[step.datum])
          /\ \E e \in Elements :
                /\ NextElement(e)
                /\ owner' = [owner EXCEPT ![e] = u]
                /\ key' = [key EXCEPT ![e] = key[step.datum]]
                /\ value' = [value EXCEPT ![e] = "ownerless"]
                /\ tests' = [tests EXCEPT ![to] = Append(@, [step EXCEPT !.datum = e])]
          /\ outdated' = {s \in Sessions : save[s] # None}
          /\ UNCHANGED <<save, raced>>
    /\ UNCHANGED archived

\* ActionSync archives an activity the API no longer lists
ArchiveActivity(a) ==
    /\ a \notin archived
    /\ archived' = archived \cup {a}
    /\ UNCHANGED <<variables, tests>>

-----------------------------------------------------------------------------
(* Compilation. *)

UsesVariable(step) == step.datum # Static /\ owner[step.datum] # Gone

\* user_has_variable; a scheduled run has the user nil
MayUse(u, step) == UsesVariable(step) => HasValue(u, key[step.datum])

(* Mutant: only the first of the tests is looked at. *)
CheckedFirst(u, choice) ==
    \A step \in ToSet(tests[choice[1]]) : MayUse(u, step)

\* check_owners_have_variables looks at the tests' own steps
Checked(u, choice) ==
    \A t \in ToSet(choice) : \A step \in ToSet(tests[t]) : MayUse(u, step)

(* Mutant: what a pointer stands for comes after the test's own steps. *)
ExpandPointersLast(t) ==
    tests[t] \o FlattenSeq([i \in DOMAIN tests[t] |->
        IF tests[t][i].pointer = None THEN << >> ELSE tests[tests[t][i].pointer]])

\* build_actions_from_pointer: the pointed-to test's own steps
Expand(t) ==
    FlattenSeq([i \in DOMAIN tests[t] |->
        IF tests[t][i].pointer = None THEN <<tests[t][i]>> ELSE tests[tests[t][i].pointer]])

\* what becomes of a step: a step without its object is posted without it
Compiled(u, step) ==
    [step |-> step,
     object |-> MayUse(u, step),
     data |-> IF step.datum = Static THEN "static"
              ELSE IF owner[step.datum] = Gone THEN "blank"
              ELSE IF MayUse(u, step) THEN "value" ELSE "none"]

\* the items of s at the places K
Only(s, K) == FlattenSeq([i \in DOMAIN s |-> IF i \in K THEN <<s[i]>> ELSE << >>])

\* steps without an activity or a name are not valid
Valid(steps) == {i \in DOMAIN steps : /\ steps[i].pointer = None
                                      /\ steps[i].activity \notin archived}

CompileTest(u, t) ==
    LET steps == Only(Expand(t), Valid(Expand(t))) IN
    [test |-> t, steps |-> [i \in DOMAIN steps |-> Compiled(u, steps[i])]]

\* tests without steps and repeated ones are passed over
Kept(choice) == {i \in DOMAIN choice : /\ tests[choice[i]] # << >>
                                       /\ \A j \in 1..i - 1 : choice[j] # choice[i]}

Compile(u, choice) ==
    LET chosen == Only(choice, Kept(choice)) IN
    [i \in DOMAIN chosen |-> CompileTest(u, chosen[i])]

\* POST runs: the test must be there and the user must have the values
CheckRun(u, choice) ==
    /\ request = None /\ Checked(u, choice)
    /\ request' = [user |-> u, choice |-> choice, writes |-> 0]
    /\ UNCHANGED <<variables, tests, archived, run>>

\* ... and Run.create, another transaction
CompileRun ==
    /\ request # None
    /\ run' = [user |-> request.user, checked |-> TRUE, current |-> request.writes = 0,
               choice |-> request.choice, tests |-> Compile(request.user, request.choice)]
    /\ request' = None
    /\ UNCHANGED <<variables, tests, archived>>

\* pop_off of a scheduled test
ScheduledRun(choice) ==
    /\ run' = [user |-> None, checked |-> FALSE, current |-> TRUE,
               choice |-> choice, tests |-> Compile(None, choice)]
    /\ UNCHANGED <<variables, tests, archived, request>>

-----------------------------------------------------------------------------
Init ==
    /\ InitVariables
    /\ tests = [t \in Testsets |-> << >>]
    /\ archived = {}
    /\ request = None /\ run = None

EditTests ==
    \E t \in Testsets :
        \/ \E i \in DOMAIN tests[t] : DropStep(t, i)
        \/ \E u \in Users :
              \/ \E step \in Plain \cup Pointers : NewStep(u, t, step)
              \/ \E i \in DOMAIN tests[t], to \in Testsets : CopyStep(u, t, i, to)

\* anything written meanwhile makes a check out of date
Edit ==
    /\ \/ NextVariables /\ UNCHANGED <<tests, archived>>
       \/ EditTests
       \/ \E a \in Activities : ArchiveActivity(a)
    /\ \/ request = None /\ request' = None
       \/ /\ request # None /\ request.writes < MaxWrites
          /\ request' = [request EXCEPT !.writes = @ + 1]
    /\ UNCHANGED run

Next ==
    /\ run = None
    /\ \/ Edit
       \/ CompileRun
       \/ \E choice \in TestIds :
             ScheduledRun(choice) \/ \E u \in Users : CheckRun(u, choice)

Spec == Init /\ [][Next]_vars

-----------------------------------------------------------------------------
(* Properties. *)

\* Steps, choices and requests are what the forms can send, and the variables
\* are in order, whoever copies a step from whom.
TypeOK ==
    /\ TypeVariables
    /\ tests \in [Testsets -> BoundedSeq(Plain \cup Pointers, MaxSteps)]
    /\ archived \subseteq Activities
    /\ request \in [user : Users, choice : TestIds, writes : 0..MaxWrites] \cup {None}

\* A run that passed the check of its user's variables has the object of every
\* step its tests list themselves.  An object is left out silently only if the
\* step came through a pointer, nobody checked (a scheduled run), or somebody
\* wrote between the check and the compilation.
CheckedStepsKeepObjects ==
    run # None /\ run.checked /\ run.current =>
        \A t \in ToSet(run.choice), i \in DOMAIN run.tests :
            \A j \in DOMAIN run.tests[i].steps :
                run.tests[i].steps[j].step \in ToSet(tests[t]) => run.tests[i].steps[j].object

\* the steps that a place of test t stands for: its own, or those of the test
\* it points to
StepsAt(t, i) ==
    IF tests[t][i].pointer = None THEN <<tests[t][i]>> ELSE tests[tests[t][i].pointer]

StepAt(t, place) == StepsAt(t, place[1])[place[2]]

\* the places of test t whose steps can be executed
Places(t) ==
    {place \in (DOMAIN tests[t]) \X (1..MaxSteps) :
        /\ place[2] \in DOMAIN StepsAt(t, place[1])
        /\ StepAt(t, place).pointer = None
        /\ StepAt(t, place).activity \notin archived}

Before(p, q) == p[1] < q[1] \/ (p[1] = q[1] /\ p[2] < q[2])

\* where place p comes among the places P
Rank(P, p) == Cardinality({q \in P : Before(q, p)}) + 1

\* steps are those that test t stands for, in the order of their places
Follows(t, steps) ==
    /\ Len(steps) = Cardinality(Places(t))
    /\ \A place \in Places(t) : steps[Rank(Places(t), place)].step = StepAt(t, place)

\* A run holds each chosen test that has steps once, in the order chosen, and in
\* it exactly the steps that can be executed: its own and, once per pointer,
\* those of the test the pointer stands for, in the order of their positions.
RunFollowsTests ==
    run # None =>
        /\ {run.tests[i].test : i \in DOMAIN run.tests}
             = {t \in ToSet(run.choice) : tests[t] # << >>}
        /\ Len(run.tests) = Cardinality({run.tests[i].test : i \in DOMAIN run.tests})
        /\ \A i, j \in DOMAIN run.tests, m \in DOMAIN run.choice :
              i < j /\ run.choice[m] = run.tests[j].test =>
                 \E l \in 1..m - 1 : run.choice[l] = run.tests[i].test
        /\ \A compiled \in ToSet(run.tests) : Follows(compiled.test, compiled.steps)
=============================================================================
