------------------------------ MODULE OrderSync ------------------------------
(***************************************************************************)
(* The pass of QueueRun (lib/tasks/queue_run.rb): poll the Web Action API  *)
(* for verdicts, then submit every test status that has no order yet.      *)
(*                                                                         *)
(* A test status is one (run test, browser) row of test_statuses.  To      *)
(* submit it the pass posts a locked order, saves its id, posts the run    *)
(* test's steps one at a time, each with its object, and unlocks the       *)
(* order.  Each request and each save that follows it is a step of its     *)
(* own, for the process may stop between them; a GET and the saves of what *)
(* it answered are one step, for only this pass writes those columns.      *)
(*                                                                         *)
(* The id of an order is its index in orders; the id the API gives a step  *)
(* of an order is represented by the order's id.                           *)
(***************************************************************************)
EXTENDS Integers, Sequences, FiniteSets

CONSTANTS
    RunTests,       \* run tests that users may compile
    Browsers,       \* browser types every run test is run on
    Archivable,     \* browser types the catalogue sync may archive
    NSteps,         \* steps of a run test (all run tests alike)
    ObjectSteps,    \* the steps that have an object identifier
    NoTest,         \* "no test status": not an element of TestStatuses
    GetLimit,       \* API_GET_LIMIT
    PostLimit,      \* API_POST_LIMIT
    FailureWindow,  \* days back of STATUS_FAILURE_WINDOW
    AgeOutWindow,   \* days back of STATUS_AGE_OUT_WINDOW
    MaxAttempts,    \* Delayed::Worker.max_attempts
    MaxFaults,      \* bound: requests that fail or whose answer is lost
    MaxCrashes,     \* bound: times the process dies inside a pass
    MaxForgets,     \* bound: orders that vanish from the API
    MaxTroubles,    \* bound: all of those, and browsers archived, together
    MaxClock        \* bound: days

Steps == 1..NSteps
TestStatuses == RunTests \X Browsers
Phases == {"idle", "tests", "testSteps", "actions", "post", "saveOrder",
           "steps", "saveStep", "object"}
Verdicts == {"pending", "passed", "failed"}
NoId == 0

ASSUME StepsAssumption == NSteps \in Nat /\ ObjectSteps \subseteq Steps
ASSUME NoTestAssumption == NoTest \notin TestStatuses
ASSUME WindowAssumption ==
    /\ FailureWindow \in Nat
    /\ AgeOutWindow \in Nat
    /\ FailureWindow <= AgeOutWindow
ASSUME BoundAssumption ==
    /\ MaxAttempts \in Nat \ {0}
    /\ GetLimit \in Nat
    /\ PostLimit \in Nat
    /\ MaxFaults \in Nat
    /\ MaxCrashes \in Nat
    /\ MaxForgets \in Nat
    /\ MaxTroubles \in Nat
    /\ MaxClock \in Nat
ASSUME ArchivableAssumption == Archivable \subseteq Browsers

VARIABLES
    born,       \* run test -> day it was compiled, 0 when not yet
    tsApi,      \* test_statuses.api_id
    tsSuccess,  \* test_statuses.success
    asApi,      \* action_statuses.api_id, per test status and step
    asSuccess,  \* action_statuses.success, per test status and step
    archived,   \* browser types hidden by the default scope
    orders,     \* what the Web Action API holds (external)
    pc,         \* where the pass is
    todo,       \* test statuses its current query returned, not yet visited
    cur,        \* the test status it is working on
    step,       \* the step it is posting
    chain,      \* who runs the pass: nobody, the rake task or a queued job
    attempts,   \* delayed_jobs.attempts of that job
    loadedAt,   \* day each kind of process evaluated the window constants
    clock, faults, crashes, forgets

db == <<born, tsApi, tsSuccess, asApi, asSuccess>>
pass == <<pc, todo, cur, step>>
sched == <<chain, attempts>>
env == <<clock, crashes, forgets, archived, loadedAt>>
vars == <<db, orders, pass, sched, env, faults>>

MayGoWrong == faults + crashes + forgets + Cardinality(archived) < MaxTroubles

-----------------------------------------------------------------------------
(* The rows the pass reads. *)

Created == {t \in TestStatuses : born[t[1]] > 0}

\* limit(n) without an order: any n of the rows when there are more
Batches(rows, n) == IF Cardinality(rows) <= n THEN {rows}
                    ELSE {b \in SUBSET rows : Cardinality(b) = n}

(* Mutant: a test is polled only while one of its steps is pending. *)
PendingTestsBySteps ==
    {t \in Created : /\ tsSuccess[t] = "pending" /\ tsApi[t] # NoId
                     /\ \E k \in Steps : asSuccess[t][k] = "pending"}

(* Mutant: a row that was given up is polled again. *)
PendingTestsAgain == {t \in Created : tsSuccess[t] # "passed" /\ tsApi[t] # NoId}

PendingTests == {t \in Created : tsSuccess[t] = "pending" /\ tsApi[t] # NoId}

(* Mutant: rows without a verdict are taken for rows without an order. *)
UnpostedTestsByVerdict == {t \in Created : tsSuccess[t] = "pending"}

UnpostedTests == {t \in Created : tsApi[t] = NoId}

PendingSteps == {p \in Created \X Steps :
                   asSuccess[p[1]][p[2]] = "pending" /\ asApi[p[1]][p[2]] # NoId}

\* the test statuses, on every browser, of the run tests of those steps
Siblings(batch) == {t \in Created : \E p \in batch : p[1][1] = t[1]}

-----------------------------------------------------------------------------
(* give_up_on_old_statuses: the windows are constants of the process. *)

Loaded == loadedAt[chain]
AgedOut(t) == born[t[1]] + AgeOutWindow < Loaded
FailOld(t) == born[t[1]] + FailureWindow < Loaded
(* Mutant: every error answer is taken for an old order's. *)
GivesUpOnAnyError(t, reply) == AgedOut(t) \/ reply = "error"
GivesUp(t, reply) == AgedOut(t) \/ (FailOld(t) /\ reply = "error")

-----------------------------------------------------------------------------
(* Requests.  "ok" is a code below 400, "error" one above 399, "raise" an  *)
(* exception of Net::HTTP; an order without an id is no order of the API.  *)

InApi(id) == id # NoId /\ ~orders[id].gone

Answers(id, reply) ==
    \/ /\ reply = IF InApi(id) THEN "ok" ELSE "error"
       /\ UNCHANGED faults
    \/ /\ MayGoWrong /\ faults < MaxFaults
       /\ reply \in {"error", "raise"}
       /\ faults' = faults + 1

\* a POST or PUT takes effect, does not, or does and its answer is lost
Takes(id, outcome) ==
    \/ /\ outcome = IF InApi(id) THEN "ok" ELSE "refused"
       /\ UNCHANGED faults
    \/ /\ MayGoWrong /\ faults < MaxFaults
       /\ outcome \in IF InApi(id) THEN {"refused", "lost"} ELSE {"refused"}
       /\ faults' = faults + 1

NewOrder(t) == [test |-> t, locked |-> TRUE, steps |-> 0, objects |-> {},
                verdict |-> "pending", results |-> [k \in Steps |-> "pending"],
                gone |-> FALSE]

-----------------------------------------------------------------------------
(* How a pass starts and ends. *)

Rest == todo' = {} /\ cur' = NoTest /\ step' = 0

(* Mutants: the last attempt counts one too many; a failed job is not retried. *)
FailOneMore ==
    /\ pc' = "idle" /\ Rest
    /\ IF chain = "job" /\ attempts < MaxAttempts
       THEN chain' = chain /\ attempts' = attempts + 1
       ELSE chain' = "none" /\ attempts' = 0
FailForGood == pc' = "idle" /\ Rest /\ chain' = "none" /\ attempts' = 0

\* an exception leaves work: rake stops, a job is retried until its last attempt
Fail ==
    /\ pc' = "idle" /\ Rest
    /\ IF chain = "job" /\ attempts + 1 < MaxAttempts
       THEN chain' = chain /\ attempts' = attempts + 1
       ELSE chain' = "none" /\ attempts' = 0

Goes(phase) == pc' = phase /\ UNCHANGED sched

\* get_outstanding_tests asks for the pending test statuses
Poll == /\ pc' = "tests"
        /\ todo' \in Batches(PendingTests, GetLimit)
        /\ UNCHANGED <<db, orders, cur, step, faults>>

\* rake queue_runs, refused while a job is queued: the pass runs in rake
StartRake ==
    /\ pc = "idle" /\ chain = "none"
    /\ chain' = "rake"
    /\ loadedAt' = [loadedAt EXCEPT !["rake"] = clock]
    /\ Poll
    /\ UNCHANGED <<attempts, clock, crashes, forgets, archived>>

\* the worker runs the queued job
BeginPass ==
    /\ pc = "idle" /\ chain = "job"
    /\ Poll
    /\ UNCHANGED <<sched, env>>

\* queue_next after both phases succeeded
Requeue ==
    /\ pc = "post" /\ todo = {}
    /\ pc' = "idle" /\ Rest
    /\ chain' = "job" /\ attempts' = 0
    /\ UNCHANGED <<db, orders, env, faults>>

-----------------------------------------------------------------------------
(* Polling: get_outstanding_tests, then get_outstanding_actions. *)

GiveUp(t) == /\ tsSuccess' = [tsSuccess EXCEPT ![t] = "failed"]
             /\ todo' = {}      \* return false: the rest is left for later
             /\ UNCHANGED <<born, tsApi, asApi, asSuccess, pc, cur, step, sched>>

PollTest(t) ==
    /\ pc = "tests" /\ t \in todo
    /\ \E reply \in {"ok", "error", "raise"} :
         /\ Answers(tsApi[t], reply)
         /\ \/ reply # "raise" /\ GivesUp(t, reply) /\ GiveUp(t)
            \/ reply = "ok" /\ ~GivesUp(t, reply)
               /\ tsSuccess' = [tsSuccess EXCEPT ![t] = orders[tsApi[t]].verdict]
               /\ todo' = todo \ {t} /\ cur' = t /\ Goes("testSteps")
               /\ UNCHANGED <<born, tsApi, asApi, asSuccess, step>>
            \/ (reply = "raise" \/ (reply = "error" /\ ~GivesUp(t, reply)))
               /\ Fail /\ UNCHANGED db
    /\ UNCHANGED <<orders, env>>

\* the steps of the order whose action status has the id the API answers with
Answered(t) == {k \in Steps : asApi[t][k] # NoId /\ asApi[t][k] = tsApi[t]}

(* Mutant: a step passed unless the API says that it failed. *)
RecordUnlessFailed(t, some) ==
    asSuccess' = [asSuccess EXCEPT ![t] =
        [k \in Steps |-> IF k \notin some THEN @[k]
                         ELSE IF orders[tsApi[t]].results[k] = "failed" THEN "failed"
                         ELSE "passed"]]

Record(t, some) ==
    asSuccess' = [asSuccess EXCEPT ![t] =
        [k \in Steps |-> IF k \in some THEN orders[tsApi[t]].results[k] ELSE @[k]]]

\* order_actions of the order: every answered step is overwritten; a failing
\* request, of the actions or of some step's suggestions, leaves the rest out
PollTestSteps ==
    /\ pc = "testSteps"
    /\ \E reply \in {"ok", "error", "raise"} :
         /\ Answers(tsApi[cur], reply)
         /\ \/ reply = "ok" /\ Record(cur, Answered(cur)) /\ Goes("tests")
               /\ cur' = NoTest /\ UNCHANGED <<todo, step>>
            \/ reply # "ok" /\ Fail
               /\ IF InApi(tsApi[cur])
                  THEN \E k \in 0..NSteps : Record(cur, Answered(cur) \cap 1..k)
                  ELSE UNCHANGED asSuccess
    /\ UNCHANGED <<born, tsApi, tsSuccess, asApi, orders, env>>

\* get_outstanding_actions asks for the pending action statuses
LoadActions ==
    /\ pc = "tests" /\ todo = {}
    /\ \E batch \in Batches(PendingSteps, GetLimit) : todo' = Siblings(batch)
    /\ Goes("actions")
    /\ UNCHANGED <<db, orders, cur, step, env, faults>>

PollActions(t) ==
    /\ pc = "actions" /\ t \in todo
    /\ \E reply \in {"ok", "error", "raise"} :
         /\ Answers(tsApi[t], reply)
         /\ \/ reply # "raise" /\ GivesUp(t, reply) /\ GiveUp(t)
            \/ reply = "ok" /\ ~GivesUp(t, reply)
               /\ Record(t, {k \in Answered(t) : asSuccess[t][k] = "pending"})
               /\ todo' = todo \ {t} /\ Goes("actions")
               /\ UNCHANGED <<born, tsApi, tsSuccess, asApi, cur, step>>
            \/ (reply = "raise" \/ (reply = "error" /\ ~GivesUp(t, reply)))
               /\ Fail /\ UNCHANGED db
    /\ UNCHANGED <<orders, env>>

-----------------------------------------------------------------------------
(* Submission: post_new, post_run_test and what it calls. *)

LoadPosts ==
    /\ pc = "actions" /\ todo = {}
    /\ todo' \in Batches(UnpostedTests, PostLimit)
    /\ Goes("post")
    /\ UNCHANGED <<db, orders, cur, step, env, faults>>

\* POST orders.json; browser_type is nil, and its key raises, once archived
PostOrder(t) ==
    /\ pc = "post" /\ t \in todo
    /\ \/ /\ t[2] \in archived
          /\ Fail /\ UNCHANGED <<orders, faults>>
       \/ /\ t[2] \notin archived
          /\ orders' = Append(orders, NewOrder(t)) /\ UNCHANGED faults
          /\ todo' = todo \ {t} /\ cur' = t /\ UNCHANGED step /\ Goes("saveOrder")
       \/ /\ t[2] \notin archived
          /\ MayGoWrong /\ faults < MaxFaults /\ faults' = faults + 1
          /\ orders' \in {orders, Append(orders, NewOrder(t))}
          /\ Fail
    /\ UNCHANGED <<db, env>>

\* test_status.update_attribute(:api_id, order_id)
SaveOrder ==
    /\ pc = "saveOrder"
    /\ tsApi' = [tsApi EXCEPT ![cur] = Len(orders)]
    /\ step' = 1 /\ Goes("steps")
    /\ UNCHANGED <<born, tsSuccess, asApi, asSuccess, orders, todo, cur, env, faults>>

(* Mutant: no errorizer, a refused request is taken for an accepted one. *)
SendUnchecked(changed, then) ==
    \E outcome \in {"ok", "refused", "lost"} :
        /\ Takes(tsApi[cur], outcome)
        /\ orders' = IF outcome = "refused" THEN orders
                     ELSE [orders EXCEPT ![tsApi[cur]] = changed]
        /\ IF outcome # "lost" THEN then ELSE Fail

\* A request about order cur: then says where the pass goes when it is answered
Send(changed, then) ==
    \E outcome \in {"ok", "refused", "lost"} :
        /\ Takes(tsApi[cur], outcome)
        /\ orders' = IF outcome = "refused" THEN orders
                     ELSE [orders EXCEPT ![tsApi[cur]] = changed]
        /\ IF outcome = "ok" THEN then ELSE Fail

\* POST order_actions.json for the next step of the run test
PostStep ==
    /\ pc = "steps" /\ step <= NSteps
    /\ Send([orders[tsApi[cur]] EXCEPT !.steps = step],
            Goes("saveStep") /\ UNCHANGED <<todo, cur, step>>)
    /\ UNCHANGED <<db, env>>

(* Mutant: the first action status of the step, whatever its browser. *)
SaveStepOnAnyBrowser ==
    /\ pc = "saveStep"
    /\ \E t \in TestStatuses :
         /\ t[1] = cur[1]
         /\ asApi' = [asApi EXCEPT ![t][step] = tsApi[cur]]
    /\ IF step \in ObjectSteps THEN Goes("object") /\ UNCHANGED step
                               ELSE Goes("steps") /\ step' = step + 1
    /\ UNCHANGED <<born, tsApi, tsSuccess, asSuccess, orders, todo, cur, env, faults>>

\* action_status.update_attribute(:api_id, order_action_id)
SaveStep ==
    /\ pc = "saveStep"
    /\ asApi' = [asApi EXCEPT ![cur][step] = tsApi[cur]]
    /\ IF step \in ObjectSteps THEN Goes("object") /\ UNCHANGED step
                               ELSE Goes("steps") /\ step' = step + 1
    /\ UNCHANGED <<born, tsApi, tsSuccess, asSuccess, orders, todo, cur, env, faults>>

\* POST the object, its data and its siblings; it counts when all are posted
PostObject ==
    /\ pc = "object"
    /\ Send([orders[tsApi[cur]] EXCEPT !.objects = @ \cup {step}],
            Goes("steps") /\ step' = step + 1 /\ UNCHANGED <<todo, cur>>)
    /\ UNCHANGED <<db, env>>

\* PUT locked=false: from here on the API may execute the order
Unlock ==
    /\ pc = "steps" /\ step > NSteps
    /\ Send([orders[tsApi[cur]] EXCEPT !.locked = FALSE],
            Goes("post") /\ cur' = NoTest /\ step' = 0 /\ UNCHANGED todo)
    /\ UNCHANGED <<db, env>>

-----------------------------------------------------------------------------
(* The world around the pass. *)

\* a user compiles a run: its statuses are saved together
CreateRun(rt) ==
    /\ born[rt] = 0
    /\ born' = [born EXCEPT ![rt] = clock]
    /\ UNCHANGED <<tsApi, tsSuccess, asApi, asSuccess, orders, pass, sched, env, faults>>

\* the process dies inside a pass; a job stays queued, a rake pass is lost
Crash ==
    /\ MayGoWrong /\ pc # "idle" /\ crashes < MaxCrashes
    /\ crashes' = crashes + 1
    /\ pc' = "idle" /\ Rest
    /\ chain' = IF chain = "job" THEN "job" ELSE "none"
    /\ loadedAt' = IF chain = "job" THEN [loadedAt EXCEPT !["job"] = clock] ELSE loadedAt
    /\ UNCHANGED <<db, orders, attempts, clock, forgets, archived, faults>>

\* bin/delayed_job stop and start between two jobs
Restart ==
    /\ pc = "idle" /\ loadedAt["job"] < clock
    /\ loadedAt' = [loadedAt EXCEPT !["job"] = clock]
    /\ UNCHANGED <<db, orders, pass, sched, clock, crashes, forgets, archived, faults>>

Tick ==
    /\ clock < MaxClock /\ clock' = clock + 1
    /\ UNCHANGED <<db, orders, pass, sched, crashes, forgets, archived, loadedAt, faults>>

\* BrowserSync archives a browser the API no longer lists
ArchiveBrowser(b) ==
    /\ MayGoWrong /\ b \in Archivable \ archived
    /\ archived' = archived \cup {b}
    /\ UNCHANGED <<db, orders, pass, sched, clock, crashes, forgets, loadedAt, faults>>

\* external: the API executes a step of an order that is not locked
ApiStep(o, k, v) ==
    /\ ~orders[o].locked /\ ~orders[o].gone /\ orders[o].verdict = "pending"
    /\ orders[o].results[k] = "pending" /\ v # "pending"
    /\ orders' = [orders EXCEPT ![o].results[k] = v]
    /\ UNCHANGED <<db, pass, sched, env, faults>>

\* external: the API decides the order, perhaps with steps it never reached
ApiFinish(o, v) ==
    /\ ~orders[o].locked /\ ~orders[o].gone
    /\ orders[o].verdict = "pending" /\ v # "pending"
    /\ orders' = [orders EXCEPT ![o].verdict = v]
    /\ UNCHANGED <<db, pass, sched, env, faults>>

\* external: the order disappears from the API
ApiForget(o) ==
    /\ MayGoWrong /\ ~orders[o].gone /\ forgets < MaxForgets
    /\ forgets' = forgets + 1
    /\ orders' = [orders EXCEPT ![o].gone = TRUE]
    /\ UNCHANGED <<db, pass, sched, clock, crashes, archived, loadedAt, faults>>

-----------------------------------------------------------------------------
(* What users see of a run. *)

(* Mutant: a run passed as soon as a test of it has, and none failed. *)
falsey_test_status_early(runTests) ==
    LET statuses == {tsSuccess[t] : t \in {u \in Created : u[1] \in runTests}}
    IN  IF "failed" \in statuses THEN "failed"
        ELSE IF "passed" \in statuses THEN "passed"
        ELSE IF "pending" \in statuses THEN "to run" ELSE "something went wrong"

\* the verdict of a run that has these run tests
falsey_test_status(runTests) ==
    LET statuses == {tsSuccess[t] : t \in {u \in Created : u[1] \in runTests}}
    IN  IF "failed" \in statuses THEN "failed"
        ELSE IF "pending" \in statuses THEN "to run"
        ELSE IF "passed" \in statuses THEN "passed" ELSE "something went wrong"

-----------------------------------------------------------------------------
Init ==
    /\ born = [rt \in RunTests |-> 0]
    /\ tsApi = [t \in TestStatuses |-> NoId]
    /\ tsSuccess = [t \in TestStatuses |-> "pending"]
    /\ asApi = [t \in TestStatuses |-> [k \in Steps |-> NoId]]
    /\ asSuccess = [t \in TestStatuses |-> [k \in Steps |-> "pending"]]
    /\ archived = {} /\ orders = << >>
    /\ pc = "idle" /\ todo = {} /\ cur = NoTest /\ step = 0
    /\ chain = "none" /\ attempts = 0
    /\ loadedAt = [c \in {"rake", "job"} |-> 1]
    /\ clock = 1 /\ faults = 0 /\ crashes = 0 /\ forgets = 0

\* what a started pass does without anybody's help
WorkerStep ==
    \/ BeginPass \/ Requeue \/ PollTestSteps \/ LoadActions \/ LoadPosts
    \/ SaveOrder \/ PostStep \/ SaveStep \/ PostObject \/ Unlock
    \/ \E t \in TestStatuses : PollTest(t) \/ PollActions(t) \/ PostOrder(t)

ApiMoves ==
    \E o \in DOMAIN orders :
        \/ \E v \in Verdicts : ApiFinish(o, v) \/ \E k \in Steps : ApiStep(o, k, v)
        \/ ApiForget(o)

Next ==
    \/ StartRake \/ WorkerStep
    \/ \E rt \in RunTests : CreateRun(rt)
    \/ Crash \/ Restart \/ Tick
    \/ \E b \in Browsers : ArchiveBrowser(b)
    \/ ApiMoves

Spec == Init /\ [][Next]_vars

(* The worker polls its queue for ever and runs a due job; nobody promises *)
(* to run rake, to restart the worker or to decide an order.               *)
FairSpec == Spec /\ WF_vars(WorkerStep)

-----------------------------------------------------------------------------
(* Properties. *)

Order == [test : TestStatuses, locked : BOOLEAN, steps : 0..NSteps,
          objects : SUBSET ObjectSteps, verdict : Verdicts,
          results : [Steps -> Verdicts], gone : BOOLEAN]

\* The rows, the API's orders and the pass's locals have the shape the code
\* gives them, and a job's attempts stay below the limit at which it is destroyed.
TypeOK ==
    /\ born \in [RunTests -> Nat]
    /\ tsApi \in [TestStatuses -> 0..Len(orders)]
    /\ tsSuccess \in [TestStatuses -> Verdicts]
    /\ asApi \in [TestStatuses -> [Steps -> 0..Len(orders)]]
    /\ asSuccess \in [TestStatuses -> [Steps -> Verdicts]]
    /\ archived \subseteq Browsers
    /\ orders \in Seq(Order)
    /\ pc \in Phases
    /\ todo \subseteq TestStatuses
    /\ cur \in TestStatuses \cup {NoTest}
    /\ step \in 0..NSteps + 1
    /\ chain \in {"none", "rake", "job"}
    /\ attempts \in 0..MaxAttempts - 1
    /\ loadedAt \in [{"rake", "job"} -> Nat]
    /\ clock \in Nat /\ faults \in Nat /\ crashes \in Nat /\ forgets \in Nat

Released == {o \in DOMAIN orders : ~orders[o].locked}

\* An order the API may execute carries every step of its run test and every
\* object of those steps: post_run_test unlocks last, so a pass that fails or
\* dies half way leaves a locked order behind, never a truncated test.
CompleteBeforeExecution ==
    \A o \in Released : orders[o].steps = NSteps /\ orders[o].objects = ObjectSteps

\* Whatever the API may execute, the database can find again: the test status
\* and all its action statuses hold that order's ids.  So an order abandoned
\* by a lost answer or a crash is never executed, and no test status has two
\* orders that are (a test is never run twice on a browser).
ReleasedOrderIsTracked ==
    \A o \in Released : /\ tsApi[orders[o].test] = o
                        /\ \A k \in Steps : asApi[orders[o].test][k] = o

\* A verdict of "passed", of a test or of one of its steps, is what the API
\* says of the order that was posted for that very row.
PassIsReal ==
    \A t \in TestStatuses :
        /\ tsSuccess[t] = "passed" =>
             tsApi[t] # NoId /\ orders[tsApi[t]].test = t
                             /\ orders[tsApi[t]].verdict = "passed"
        /\ \A k \in Steps : asSuccess[t][k] = "passed" =>
             tsApi[t] # NoId /\ orders[tsApi[t]].test = t
                             /\ orders[tsApi[t]].results[k] = "passed"

\* A run that is shown as passed was executed: each of its tests has, on every
\* browser, an order of its own that the API was free to execute, that carried
\* the whole test and that passed.  No mixture of lost answers, crashes, orders
\* abandoned half way and archived browsers makes up for one that did not.
PassedRunWasExecuted ==
    \A runTests \in SUBSET RunTests : falsey_test_status(runTests) = "passed" =>
        \A t \in Created : t[1] \in runTests =>
            /\ tsApi[t] # NoId
            /\ LET order == orders[tsApi[t]] IN
               /\ order.test = t /\ ~order.locked /\ order.verdict = "passed"
               /\ order.steps = NSteps /\ order.objects = ObjectSteps

\* A verdict of "failed" is the API's, or the row is older than the shorter
\* window: no error answer of the API fails a recent test.
FailureIsRealOrOld ==
    \A t \in TestStatuses : tsSuccess[t] = "failed" =>
        \/ tsApi[t] # NoId /\ orders[tsApi[t]].verdict = "failed"
        \/ born[t[1]] + FailureWindow < clock

\* api_id is written once: no pass submits a test status that has an order,
\* although its list of unposted rows was read before the submissions began.
ApiIdWriteOnce ==
    [][\A t \in TestStatuses : tsApi[t] # NoId => tsApi'[t] = tsApi[t]]_vars

\* A recorded verdict is final, except that give_up_on_old_statuses may turn
\* it to failed, and only for a row older than the shorter window.
VerdictChangesOnlyByAge ==
    [][\A t \in TestStatuses :
         tsSuccess[t] # "pending" /\ tsSuccess'[t] # tsSuccess[t] =>
           tsSuccess'[t] = "failed" /\ born[t[1]] + FailureWindow < clock]_vars

\* the execution of a row by the orders the API may execute: none, one that
\* holds the whole test and belongs to that row alone, or something amiss
Execution == [t \in TestStatuses |->
    LET mine == {o \in Released : orders[o].test = t} IN
    IF mine = {} THEN "waiting"
    ELSE IF \E o \in mine : mine = {o} /\ orders[o].steps = NSteps
                                     /\ orders[o].objects = ObjectSteps
         THEN orders[CHOOSE o \in mine : TRUE].verdict
    ELSE "amiss"]

Old == {t \in Created : born[t[1]] + FailureWindow < clock}

\* All that users may rely on at once: whatever requests are lost or repeated,
\* whatever dies, vanishes or is archived, each row is executed at most once and
\* whole, and its verdict goes from pending to the one reached, or to failed by
\* age, in steps of TestLifecycle.
Lifecycle == INSTANCE TestLifecycle WITH
    Rows <- TestStatuses, execution <- Execution, shown <- tsSuccess, old <- Old
LifecycleSpec == Lifecycle!Spec

\* Once a job carries the chain, every compiled test status gets an order,
\* in spite of lost answers and crashes (while fewer than max_attempts).
EventuallySubmitted ==
    \A t \in TestStatuses :
        t \in Created /\ chain = "job" ~> tsApi[t] # NoId

\* Once a job carries the chain, a verdict the API has reached is recorded.
VerdictRecorded ==
    \A t \in TestStatuses :
        (/\ chain = "job" /\ tsApi[t] # NoId
         /\ orders[tsApi[t]].verdict # "pending") ~> tsSuccess[t] # "pending"

\* What queue_run.rb line 3 says: orders not in the API are auto-failed once
\* they are older than the window.
VanishedIsFailed ==
    \A t \in TestStatuses :
        (/\ chain = "job" /\ tsApi[t] # NoId /\ orders[tsApi[t]].gone
         /\ born[t[1]] + FailureWindow < clock) ~> tsSuccess[t] # "pending"
=============================================================================
