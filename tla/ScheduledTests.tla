--------------------------- MODULE ScheduledTests ---------------------------
(***************************************************************************)
(* Scheduled tests (app/models/scheduled_test.rb) and the rake task that   *)
(* queues them again (lib/tasks/schedule_scheduled_tests.rb).              *)
(*                                                                         *)
(* Saving a new schedule queues a job for its date.  The job creates a run *)
(* and, when the schedule recurs, moves the date by the recurrence and     *)
(* queues the next job; it works on the row it loaded when it started.     *)
(* Editing or destroying a schedule leaves its queued job alone.           *)
(*                                                                         *)
(* A day is a unit of the clock; the 0.01 day by which the rake task       *)
(* postpones a missed schedule is later on the same day.                   *)
(***************************************************************************)
EXTENDS Integers, FiniteSets

CONSTANTS
    Schedules,      \* ids of scheduled_tests, never used twice
    Recurrences,    \* the recurrences users choose, in days
    Workers,        \* worker processes that serve the queue scheduled_tests
    Rakes,          \* processes that run rake schedule_scheduled_tests
    NoRow,          \* "no such row", of scheduled_tests, delayed_jobs or runs
    Slack,          \* how far back a date is accepted (1 hour)
    Horizon,        \* how far ahead a date is accepted (3 months)
    MaxAttempts,    \* Delayed::Worker.max_attempts
    MaxJobs,        \* bound: rows of delayed_jobs
    MaxClock,       \* bound: days
    MaxEdits,       \* bound: times users edit or break a schedule
    MaxFaults,      \* bound: executions that fail for no lasting reason
    MaxCrashes      \* bound: times a worker dies inside a job

Once == 0           \* recurring is nil
Ids == 1..MaxJobs
NoId == 0
NoTodo == {}

ASSUME RecurrenceAssumption == Recurrences \subseteq Nat \ {0}
ASSUME BoundAssumption ==
    /\ MaxClock \in Nat /\ Slack \in 0..MaxClock /\ Horizon \in Nat
    /\ MaxAttempts \in Nat \ {0} /\ MaxJobs \in Nat /\ MaxEdits \in Nat
    /\ MaxFaults \in Nat /\ MaxCrashes \in Nat

Row == [next : Int, recurring : Recurrences \cup {Once}]
Job == [sched : Schedules, runAt : Int, attempts : 0..MaxAttempts - 1,
        locked : BOOLEAN]
Run == [day : Nat, every : Recurrences \cup {Once}]

ASSUME NoRowAssumption == NoRow \notin Row \cup Job \cup Run

VARIABLES
    sched,      \* scheduled_tests: id -> its row, NoRow before and after
    created,    \* the ids that were given away
    broken,     \* schedules whose environment was destroyed
    jobs,       \* delayed_jobs of the queue scheduled_tests
    worker,     \* worker -> its job, how far pop_off got, the row it loaded
    rake,       \* rake process -> its phase and the rows it loaded for it
    lastRun,    \* the latest run of each schedule, with the recurrence it had
    clock, edits, faults, crashes

users == <<sched, created, broken>>
vars == <<users, jobs, worker, rake, lastRun, clock, edits, faults, crashes>>

Existing == {s \in Schedules : sched[s] # NoRow}
Queued == {id \in Ids : jobs[id] # NoRow}
JobsOf(s) == {id \in Queued : jobs[id].sched = s}

-----------------------------------------------------------------------------
(* Users. *)

\* schedule_next_test: a new row of delayed_jobs, in its first free place
Enqueue(s, date) ==
    \E id \in Ids :
        /\ jobs[id] = NoRow /\ \A other \in 1..(id - 1) : jobs[other] # NoRow
        /\ jobs' = [jobs EXCEPT ![id] = [sched |-> s, runAt |-> date,
                                         attempts |-> 0, locked |-> FALSE]]

\* valid_test_date; checked again on every save
ValidDates == clock - Slack .. clock + Horizon

\* create: the row and, after_create, its job, in one transaction
Create(s, row) ==
    /\ s \notin created /\ row.next \in ValidDates
    /\ created' = created \cup {s}
    /\ sched' = [sched EXCEPT ![s] = row]
    /\ Enqueue(s, row.next)
    /\ UNCHANGED <<broken, worker, rake, lastRun, clock, edits, faults, crashes>>

(* Mutant: an edit queues a job as a creation does. *)
EditQueues(s, row) ==
    /\ s \in Existing /\ row.next \in ValidDates
    /\ edits < MaxEdits /\ edits' = edits + 1
    /\ sched' = [sched EXCEPT ![s] = row]
    /\ broken' = broken \ {s}
    /\ Enqueue(s, row.next)
    /\ UNCHANGED <<created, worker, rake, lastRun, clock, faults, crashes>>

\* update: the date has to be valid anew and the environment to exist
Edit(s, row) ==
    /\ s \in Existing /\ row.next \in ValidDates
    /\ edits < MaxEdits /\ edits' = edits + 1
    /\ sched' = [sched EXCEPT ![s] = row]
    /\ broken' = broken \ {s}
    /\ UNCHANGED <<created, jobs, worker, rake, lastRun, clock, faults, crashes>>

\* destroy: the queued job stays
Destroy(s) ==
    /\ s \in Existing
    /\ sched' = [sched EXCEPT ![s] = NoRow]
    /\ UNCHANGED <<created, broken, jobs, worker, rake, lastRun, clock, edits,
                   faults, crashes>>

\* the environment of a schedule is destroyed
BreakEnvironment(s) ==
    /\ s \in Existing \ broken
    /\ edits < MaxEdits /\ edits' = edits + 1
    /\ broken' = broken \cup {s}
    /\ UNCHANGED <<sched, created, jobs, worker, rake, lastRun, clock, faults, crashes>>

-----------------------------------------------------------------------------
(* A worker and the job it executes. *)

Idle == [job |-> NoId, at |-> "idle", row |-> NoRow]

At(w, phase) == worker' = [worker EXCEPT ![w].at = phase]

(* Mutant: the job of a destroyed schedule is left in the queue. *)
StartKeepingLost(w, id) ==
    /\ worker[w].at = "idle"
    /\ id \in Queued /\ ~jobs[id].locked /\ jobs[id].runAt <= clock
    /\ jobs[id].sched \in Existing
    /\ jobs' = [jobs EXCEPT ![id].locked = TRUE]
    /\ worker' = [worker EXCEPT ![w] = [job |-> id, at |-> "loaded",
                                        row |-> sched[jobs[id].sched]]]
    /\ UNCHANGED <<users, rake, lastRun, clock, edits, faults, crashes>>

\* lock a due job and load its schedule; a job whose schedule is gone cannot be
\* deserialized and is destroyed at once, whatever its attempts
Start(w, id) ==
    /\ worker[w].at = "idle"
    /\ id \in Queued /\ ~jobs[id].locked /\ jobs[id].runAt <= clock
    /\ IF jobs[id].sched \in Existing
       THEN /\ jobs' = [jobs EXCEPT ![id].locked = TRUE]
            /\ worker' = [worker EXCEPT ![w] = [job |-> id, at |-> "loaded",
                                                row |-> sched[jobs[id].sched]]]
       ELSE jobs' = [jobs EXCEPT ![id] = NoRow] /\ UNCHANGED worker
    /\ UNCHANGED <<users, rake, lastRun, clock, edits, faults, crashes>>

(* Mutant: a schedule that was run is not run again. *)
CreateRunOnce(w) ==
    LET s == jobs[worker[w].job].sched
    IN  /\ worker[w].at = "loaded" /\ s \notin broken
        /\ lastRun' = IF lastRun[s] # NoRow THEN lastRun
                      ELSE [lastRun EXCEPT ![s] = [day |-> clock,
                                                every |-> worker[w].row.recurring]]
        /\ At(w, IF worker[w].row.recurring = Once THEN "done" ELSE "ran")
        /\ UNCHANGED <<users, jobs, rake, clock, edits, faults, crashes>>

\* Run.create!; a schedule that does not recur is done then
CreateRun(w) ==
    LET s == jobs[worker[w].job].sched
    IN  /\ worker[w].at = "loaded" /\ s \notin broken
        /\ lastRun' = [lastRun EXCEPT ![s] = [day |-> clock,
                                           every |-> worker[w].row.recurring]]
        /\ At(w, IF worker[w].row.recurring = Once THEN "done" ELSE "ran")
        /\ UNCHANGED <<users, jobs, rake, clock, edits, faults, crashes>>

(* Mutant: the next date counts from the old one. *)
SetWhenToRunFromNext(w) ==
    LET s == jobs[worker[w].job].sched
        date == worker[w].row.next + worker[w].row.recurring
    IN  /\ worker[w].at = "ran"
        /\ sched' = IF s \in Existing THEN [sched EXCEPT ![s].next = date] ELSE sched
        /\ worker' = [worker EXCEPT ![w].at = "moved", ![w].row.next = date]
        /\ UNCHANGED <<created, broken, jobs, rake, lastRun, clock, edits, faults, crashes>>

\* set_when_to_run: the recurrence that was loaded, from today, and only that column
SetWhenToRun(w) ==
    LET s == jobs[worker[w].job].sched
        date == clock + worker[w].row.recurring
    IN  /\ worker[w].at = "ran"
        /\ sched' = IF s \in Existing THEN [sched EXCEPT ![s].next = date] ELSE sched
        /\ worker' = [worker EXCEPT ![w] =
              [job |-> worker[w].job, at |-> "moved",
               row |-> [next |-> date, recurring |-> worker[w].row.recurring]]]
        /\ UNCHANGED <<created, broken, jobs, rake, lastRun, clock, edits, faults, crashes>>

ScheduleNextTest(w) ==
    /\ worker[w].at = "moved"
    /\ Enqueue(jobs[worker[w].job].sched, worker[w].row.next)
    /\ At(w, "done")
    /\ UNCHANGED <<users, rake, lastRun, clock, edits, faults, crashes>>

\* Run.create! raises without an environment; any step may fail by accident
Raise(w) ==
    /\ \/ worker[w].at = "loaded" /\ jobs[worker[w].job].sched \in broken
          /\ UNCHANGED faults
       \/ worker[w].at \in {"loaded", "ran", "moved"}
          /\ faults < MaxFaults /\ faults' = faults + 1
    /\ At(w, "raised")
    /\ UNCHANGED <<users, jobs, rake, lastRun, clock, edits, crashes>>

\* delayed_job destroys the row of a job that returned
Finish(w) ==
    /\ worker[w].at = "done"
    /\ jobs' = [jobs EXCEPT ![worker[w].job] = NoRow]
    /\ worker' = [worker EXCEPT ![w] = Idle]
    /\ UNCHANGED <<users, rake, lastRun, clock, edits, faults, crashes>>

(* Mutants: one attempt too many; a job that failed once is given up. *)
RetryOneMore(w) ==
    /\ worker[w].at = "raised"
    /\ LET job == jobs[worker[w].job]
       IN  jobs' = [jobs EXCEPT ![worker[w].job] =
                      IF job.attempts < MaxAttempts
                      THEN [job EXCEPT !.attempts = @ + 1, !.locked = FALSE]
                      ELSE NoRow]
    /\ worker' = [worker EXCEPT ![w] = Idle]
    /\ UNCHANGED <<users, rake, lastRun, clock, edits, faults, crashes>>
RetryNever(w) ==
    /\ worker[w].at = "raised"
    /\ jobs' = [jobs EXCEPT ![worker[w].job] = NoRow]
    /\ worker' = [worker EXCEPT ![w] = Idle]
    /\ UNCHANGED <<users, rake, lastRun, clock, edits, faults, crashes>>

\* and retries one that raised until it has spent its attempts
Retry(w) ==
    /\ worker[w].at = "raised"
    /\ LET job == jobs[worker[w].job]
       IN  jobs' = [jobs EXCEPT ![worker[w].job] =
                      IF job.attempts + 1 < MaxAttempts
                      THEN [sched |-> job.sched, runAt |-> job.runAt,
                            attempts |-> job.attempts + 1, locked |-> FALSE]
                      ELSE NoRow]
    /\ worker' = [worker EXCEPT ![w] = Idle]
    /\ UNCHANGED <<users, rake, lastRun, clock, edits, faults, crashes>>

\* the worker dies; the lock of its job expires
Crash(w) ==
    /\ worker[w].at # "idle"
    /\ crashes < MaxCrashes /\ crashes' = crashes + 1
    /\ jobs' = [jobs EXCEPT ![worker[w].job].locked = FALSE]
    /\ worker' = [worker EXCEPT ![w] = Idle]
    /\ UNCHANGED <<users, rake, lastRun, clock, edits, faults>>

-----------------------------------------------------------------------------
(* rake schedule_scheduled_tests. *)

Missed == {s \in Existing : sched[s].next < clock}
OutOfOrder == {s \in Missed : sched[s].recurring # Once}
NotRun == {s \in Missed : lastRun[s] = NoRow}
Outstanding == {s \in Existing : sched[s].next >= clock}

Phase(r, phase, rows) == rake' = [rake EXCEPT ![r] = [at |-> phase, todo |-> rows]]

(* Mutant: rake does not look at the queue. *)
GuardNothing(r) ==
    /\ rake[r].at = "idle"
    /\ Phase(r, "recurring", OutOfOrder)
    /\ UNCHANGED <<users, jobs, worker, lastRun, clock, edits, faults, crashes>>

\* the guard of the task, and the first query of fix_skipped_tests
Guard(r) ==
    /\ rake[r].at = "idle" /\ Queued = {}
    /\ Phase(r, "recurring", OutOfOrder)
    /\ UNCHANGED <<users, jobs, worker, lastRun, clock, edits, faults, crashes>>

\* reset_run_time; save! raises for a schedule without environment, and rake stops
ResetRunTime(r, s) ==
    /\ rake[r].at \in {"recurring", "notRun"} /\ s \in rake[r].todo
    /\ IF s \in broken
       THEN Phase(r, "idle", NoTodo) /\ UNCHANGED sched
       ELSE /\ Phase(r, rake[r].at, rake[r].todo \ {s})
            /\ sched' = IF s \in Existing THEN [sched EXCEPT ![s].next = clock] ELSE sched
    /\ UNCHANGED <<created, broken, jobs, worker, lastRun, clock, edits, faults, crashes>>

\* fix_not_run_past_tests
LoadNotRun(r) ==
    /\ rake[r].at = "recurring" /\ rake[r].todo = NoTodo
    /\ Phase(r, "notRun", NotRun)
    /\ UNCHANGED <<users, jobs, worker, lastRun, clock, edits, faults, crashes>>

(* Mutant: the query is made before the dates are corrected. *)
LoadOutstandingFirst(r) ==
    /\ rake[r].at = "recurring"
    /\ Phase(r, "schedule", {[sched |-> s, next |-> sched[s].next] : s \in Outstanding})
    /\ UNCHANGED <<users, jobs, worker, lastRun, clock, edits, faults, crashes>>

\* get_outstanding_tests, with the dates as they were loaded
LoadOutstanding(r) ==
    /\ rake[r].at = "notRun" /\ rake[r].todo = NoTodo
    /\ Phase(r, "schedule", {[sched |-> s, next |-> sched[s].next] : s \in Outstanding})
    /\ UNCHANGED <<users, jobs, worker, lastRun, clock, edits, faults, crashes>>

\* work: queue one of them
Schedule(r, row) ==
    /\ rake[r].at = "schedule" /\ row \in rake[r].todo
    /\ Enqueue(row.sched, row.next)
    /\ Phase(r, "schedule", rake[r].todo \ {row})
    /\ UNCHANGED <<users, worker, lastRun, clock, edits, faults, crashes>>

EndRake(r) ==
    /\ rake[r].at = "schedule" /\ rake[r].todo = NoTodo
    /\ Phase(r, "idle", NoTodo)
    /\ UNCHANGED <<users, jobs, worker, lastRun, clock, edits, faults, crashes>>

\* Days pass, but rake corrects the dates within the 0.01 day it adds to them.
Tick ==
    /\ clock < MaxClock /\ clock' = clock + 1
    /\ \A r \in Rakes : rake[r].at \notin {"recurring", "notRun"}
    /\ UNCHANGED <<users, jobs, worker, rake, lastRun, edits, faults, crashes>>

-----------------------------------------------------------------------------
Init ==
    /\ sched = [s \in Schedules |-> NoRow] /\ created = {} /\ broken = {}
    /\ jobs = [id \in Ids |-> NoRow]
    /\ worker = [w \in Workers |-> Idle]
    /\ rake = [r \in Rakes |-> [at |-> "idle", todo |-> NoTodo]]
    /\ lastRun = [s \in Schedules |-> NoRow] /\ clock = Slack
    /\ edits = 0 /\ faults = 0 /\ crashes = 0

PopOff(w) == CreateRun(w) \/ SetWhenToRun(w) \/ ScheduleNextTest(w)
             \/ Raise(w) \/ Finish(w) \/ Retry(w)

RakeStep(r) ==
    \/ LoadNotRun(r) \/ LoadOutstanding(r) \/ EndRake(r)
    \/ \E s \in Schedules : ResetRunTime(r, s)
    \/ \E row \in rake[r].todo : rake[r].at = "schedule" /\ Schedule(r, row)

Next ==
    \/ \E s \in Schedules :
          \/ Destroy(s) \/ BreakEnvironment(s)
          \/ \E next \in ValidDates, n \in Recurrences \cup {Once} :
                LET row == [next |-> next, recurring |-> n]
                IN  Create(s, row) \/ Edit(s, row)
    \/ \E w \in Workers :
          \/ \E id \in Ids : Start(w, id)
          \/ PopOff(w) \/ Crash(w)
    \/ \E r \in Rakes : Guard(r) \/ RakeStep(r)
    \/ Tick

Spec == Init /\ [][Next]_vars

(* A worker finishes its job and, polling for ever in the order of run_at, *)
(* comes to every due job; rake ends.  Nobody promises that time passes.   *)
FairSpec ==
    /\ Spec
    /\ \A w \in Workers : /\ WF_vars(PopOff(w))
                          /\ \A id \in Ids : SF_vars(Start(w, id))
    /\ \A r \in Rakes : WF_vars(RakeStep(r))

-----------------------------------------------------------------------------
(* Properties. *)

\* Rows, jobs, runs and the locals of workers and rake have their types; no job
\* outlives its last attempt.
TypeOK ==
    /\ sched \in [Schedules -> Row \cup {NoRow}]
    /\ Existing \subseteq created /\ created \subseteq Schedules
    /\ broken \subseteq created
    /\ jobs \in [Ids -> Job \cup {NoRow}]
    /\ worker \in [Workers ->
         [job : Ids \cup {NoId}, row : Row \cup {NoRow},
          at : {"idle", "loaded", "ran", "moved", "done", "raised"}]]
    /\ rake \in [Rakes ->
         [at : {"idle", "recurring", "notRun"}, todo : SUBSET Schedules]
         \cup [at : {"schedule"}, todo : SUBSET [sched : Schedules, next : Int]]]
    /\ lastRun \in [Schedules -> Run \cup {NoRow}] /\ clock \in 0..MaxClock
    /\ edits \in 0..MaxEdits /\ faults \in 0..MaxFaults /\ crashes \in 0..MaxCrashes

\* the jobs of a schedule, one that has queued its successor left out
Loops(s) == {id \in JobsOf(s) :
               ~\E w \in Workers : worker[w].job = id /\ worker[w].at = "done"}

\* A schedule has one loop, and one more at most for each rake task that passed
\* its guard when nothing was queued and for each worker that died inside a job,
\* however its users edit it and however often its jobs fail and are retried.
LoopsAreCounted ==
    \A s \in Schedules : Cardinality(Loops(s)) <= 1 + Cardinality(Rakes) + crashes

\* A schedule that recurs every n days is not run again within n days of a run,
\* except by the retry of the job that made that run: a job that has not been
\* tried is due n days after the last run, late as that run may have been.
RunsAreSpaced ==
    \A s \in Schedules : \A id \in JobsOf(s) :
        lastRun[s] # NoRow /\ jobs[id].attempts = 0 /\ ~jobs[id].locked
        => jobs[id].runAt >= lastRun[s].day + lastRun[s].every

\* The loop of an existing schedule ends only with a job that ran it and found
\* that it does not recur, or that failed for the last time it may.
LoopEndsOnlyByAttempts ==
    [][\A s \in Existing : Loops(s) # {} /\ Loops(s)' = {} =>
         \E w \in Workers :
            /\ Loops(s) = {worker[w].job}
            /\ \/ worker[w].at = "loaded" /\ worker[w].row.recurring = Once
               \/ /\ worker[w].at = "raised"
                  /\ jobs[worker[w].job].attempts = MaxAttempts - 1]_vars

\* A job that is due is executed, through crashes and retries: unless its schedule
\* is destroyed or has lost its environment, there is a run of that day or later.
\* Other causes for which every attempt to create the run fails, such as a schedule
\* all of whose tests or browsers are gone, are left out.
DueIsRun ==
    \A s \in Schedules, day \in 0..MaxClock :
        (\E id \in JobsOf(s) : jobs[id].runAt = day /\ day <= clock)
        ~> \/ sched[s] = NoRow \/ s \in broken
           \/ lastRun[s] # NoRow /\ lastRun[s].day >= day

\* A destroyed schedule leaves no due job behind for ever: neither a worker
\* that had loaded it nor rake, which may have, keeps its loop alive.
DestroyedIsForgotten ==
    \A s \in Schedules :
        s \in created /\ sched[s] = NoRow
        ~> [](\A id \in JobsOf(s) : jobs[id].runAt > clock)

\* When rake has queried the schedules to queue, every recurring one is among
\* them: fix_skipped_tests leaves no missed date behind, although users and
\* workers go on meanwhile.  Only a date of the last hour, which a user may set
\* while rake is at work, is overlooked.
RakeLeavesNoneBehind ==
    [][\A r \in Rakes :
         rake[r].at # "schedule" /\ rake'[r].at = "schedule" =>
           \A s \in Existing : sched[s].recurring # Once =>
             \/ sched[s].next \in clock - Slack .. clock - 1
             \/ \E row \in rake'[r].todo : row.sched = s]_vars
=============================================================================
