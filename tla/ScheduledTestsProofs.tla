------------------------ MODULE ScheduledTestsProofs ------------------------
(****************************************************************************)
(* Proofs about ScheduledTests, for any schedules, recurrences, workers     *)
(* and bounds: the rows keep their types, a loop ends only where it may,    *)
(* rake leaves no recurring schedule behind, and each loop of a schedule    *)
(* but one has a rake task or a crash of its own; without rake and crashes  *)
(* the runs of a schedule keep the distance of its recurrence.              *)
(****************************************************************************)
EXTENDS ScheduledTests, Counting

WorkerState == [job : Ids \cup {NoId}, row : Row \cup {NoRow},
                at : {"idle", "loaded", "ran", "moved", "done", "raised"}]
RakeState == [at : {"idle", "recurring", "notRun"}, todo : SUBSET Schedules]
             \cup [at : {"schedule"}, todo : SUBSET [sched : Schedules, next : Int]]

\* The tables and the locals of the processes, without the clock and the bounds.
Tables ==
    /\ sched \in [Schedules -> Row \cup {NoRow}]
    /\ jobs \in [Ids -> Job \cup {NoRow}]
    /\ worker \in [Workers -> WorkerState]
    /\ rake \in [Rakes -> RakeState]
    /\ lastRun \in [Schedules -> Run \cup {NoRow}]

\* The conjuncts of TypeOK about history and bounds.
Bounds ==
    /\ Existing \subseteq created /\ created \subseteq Schedules
    /\ broken \subseteq created /\ clock \in 0..MaxClock
    /\ edits \in 0..MaxEdits /\ faults \in 0..MaxFaults /\ crashes \in 0..MaxCrashes

\* A worker that is not idle holds a locked job of its own and the row it
\* loaded for it: what makes the later steps of pop_off well typed.
Holds(w) ==
    /\ worker[w].job \in Ids /\ jobs[worker[w].job] # NoRow
    /\ jobs[worker[w].job].locked
    /\ worker[w].row \in Row
    /\ \A v \in Workers \ {w} :
          worker[v].at # "idle" => worker[v].job # worker[w].job
HoldsItsJob == \A w \in Workers : worker[w].at # "idle" => Holds(w)

WorkInv == Tables /\ Bounds /\ HoldsItsJob

USE DEF NoId, Once

-----------------------------------------------------------------------------
(* Rows of the table of jobs. *)

\* A queued job is a row in a place that was free.
LEMMA EnqueueRow ==
    ASSUME NEW s \in Schedules, NEW date \in Int,
           jobs \in [Ids -> Job \cup {NoRow}], Enqueue(s, date)
    PROVE  \E id \in Ids :
              /\ jobs[id] = NoRow
              /\ jobs' = [jobs EXCEPT ![id] =
                    [sched |-> s, runAt |-> date, attempts |-> 0, locked |-> FALSE]]
              /\ [sched |-> s, runAt |-> date, attempts |-> 0, locked |-> FALSE] \in Job
<1> DEFINE new == [sched |-> s, runAt |-> date, attempts |-> 0, locked |-> FALSE]
<1>1. new \in Job
  BY BoundAssumption DEF Job
<1> QED BY <1>1 DEF Enqueue

LEMMA EnqueueType ==
    ASSUME NEW s \in Schedules, NEW date \in Int,
           jobs \in [Ids -> Job \cup {NoRow}], Enqueue(s, date)
    PROVE  jobs' \in [Ids -> Job \cup {NoRow}]
BY EnqueueRow

\* The lock of a job is all that Start and Crash change of it.
LEMMA LockType ==
    ASSUME jobs \in [Ids -> Job \cup {NoRow}], NEW id \in Ids, jobs[id] # NoRow,
           NEW b \in BOOLEAN, jobs' = [jobs EXCEPT ![id].locked = b]
    PROVE  /\ jobs' \in [Ids -> Job \cup {NoRow}]
           /\ jobs'[id] # NoRow /\ jobs'[id].locked = b
           /\ jobs'[id].sched = jobs[id].sched
           /\ jobs'[id].runAt = jobs[id].runAt /\ jobs'[id].attempts = jobs[id].attempts
           /\ \A other \in Ids \ {id} : jobs'[other] = jobs[other]
<1> DEFINE new == [jobs[id] EXCEPT !.locked = b]
<1>1. jobs[id] \in Job
  OBVIOUS
<1>2. /\ new \in Job /\ new.locked = b /\ new.sched = jobs[id].sched
      /\ new.runAt = jobs[id].runAt /\ new.attempts = jobs[id].attempts
  BY <1>1 DEF Job
<1>3. new # NoRow
  BY <1>2, NoRowAssumption
<1>4. jobs' = [jobs EXCEPT ![id] = new]
  OBVIOUS
<1> HIDE DEF new
<1> QED BY <1>2, <1>3, <1>4

\* A job that raised loses its lock and an attempt, or its row.
LEMMA RetryType ==
    ASSUME jobs \in [Ids -> Job \cup {NoRow}], NEW w \in Workers, Retry(w),
           worker[w].job \in Ids, jobs[worker[w].job] # NoRow
    PROVE  /\ jobs' \in [Ids -> Job \cup {NoRow}]
           /\ \A other \in Ids \ {worker[w].job} : jobs'[other] = jobs[other]
           /\ jobs'[worker[w].job] # NoRow =>
                /\ jobs'[worker[w].job].sched = jobs[worker[w].job].sched
                /\ jobs'[worker[w].job].attempts > 0
<1> DEFINE id == worker[w].job
           new == [sched |-> jobs[id].sched, runAt |-> jobs[id].runAt,
                   attempts |-> jobs[id].attempts + 1, locked |-> FALSE]
<1>1. jobs[id] \in Job
  OBVIOUS
<1>2. jobs[id].attempts + 1 < MaxAttempts =>
        /\ new \in Job /\ new.sched = jobs[id].sched /\ new.attempts > 0
  BY <1>1, BoundAssumption DEF Job
<1>3. jobs' = [jobs EXCEPT ![id] = IF jobs[id].attempts + 1 < MaxAttempts THEN new ELSE NoRow]
  BY DEF Retry
<1> HIDE DEF new, id
<1>4. id \in Ids
  BY DEF id
<1>5. /\ jobs' \in [Ids -> Job \cup {NoRow}]
      /\ \A other \in Ids \ {id} : jobs'[other] = jobs[other]
      /\ jobs'[id] # NoRow => jobs'[id].sched = jobs[id].sched /\ jobs'[id].attempts > 0
  BY <1>2, <1>3, <1>4
<1> QED BY <1>5 DEF id

\* What a worker that is not idle holds.
LEMMA HeldRow ==
    ASSUME WorkInv, NEW w \in Workers, worker[w].at # "idle"
    PROVE  /\ worker[w].job \in Ids /\ jobs[worker[w].job] \in Job
           /\ jobs[worker[w].job] # NoRow /\ jobs[worker[w].job].sched \in Schedules
           /\ worker[w].row \in Row /\ worker[w].row.next \in Int
           /\ worker[w].row.recurring \in Recurrences \cup {Once}
           /\ worker[w] \in WorkerState
<1>1. Holds(w)
  BY DEF WorkInv, HoldsItsJob
<1>2. jobs[worker[w].job] \in Job
  BY <1>1 DEF WorkInv, Holds, Tables
<1>3. worker[w] \in WorkerState
  BY DEF WorkInv, Tables
<1> QED BY <1>1, <1>2, <1>3 DEF Holds, Job, Row

-----------------------------------------------------------------------------
(* Types, and what a worker holds. *)

LEMMA TypesFit == WorkInv => TypeOK
BY DEF WorkInv, TypeOK, Tables, Bounds, WorkerState, RakeState

LEMMA WorkInit == Init => WorkInv
<1> SUFFICES ASSUME Init PROVE WorkInv
  OBVIOUS
<1>1. Tables
  <2>1. Idle \in WorkerState
    BY DEF Idle, WorkerState
  <2>2. [at |-> "idle", todo |-> NoTodo] \in RakeState
    BY DEF RakeState, NoTodo
  <2> QED BY <2>1, <2>2 DEF Init, Tables
<1>2. Bounds
  BY BoundAssumption DEF Init, Bounds, Existing
<1>3. HoldsItsJob
  BY DEF Init, HoldsItsJob, Idle
<1> QED BY <1>1, <1>2, <1>3 DEF WorkInv

\* A user's request.
LEMMA UsersTables ==
    ASSUME WorkInv, NEW s \in Schedules, NEW row \in Row,
           Create(s, row) \/ Edit(s, row) \/ Destroy(s) \/ BreakEnvironment(s)
    PROVE  Tables' /\ Bounds' /\ UNCHANGED worker
<1>1. row.next \in Int
  BY DEF Row
<1>2. jobs' \in [Ids -> Job \cup {NoRow}]
  BY <1>1, EnqueueType DEF Create, Edit, Destroy, BreakEnvironment, WorkInv, Tables
<1>3. sched' \in [Schedules -> Row \cup {NoRow}] /\ UNCHANGED <<worker, rake, lastRun>>
  BY DEF Create, Edit, Destroy, BreakEnvironment, WorkInv, Tables
<1>4. Tables'
  BY <1>2, <1>3 DEF WorkInv, Tables
<1>5. Bounds'
  BY BoundAssumption
     DEF Create, Edit, Destroy, BreakEnvironment, WorkInv, Bounds, Existing, Tables
<1> QED BY <1>3, <1>4, <1>5

\* The row of a schedule that exists may get another date.
LEMMA MoveDate ==
    ASSUME WorkInv, NEW s \in Schedules, NEW date \in Int,
           sched' = IF s \in Existing THEN [sched EXCEPT ![s].next = date] ELSE sched
    PROVE  /\ sched' \in [Schedules -> Row \cup {NoRow}]
           /\ Existing' = Existing
<1>1. sched \in [Schedules -> Row \cup {NoRow}]
  BY DEF WorkInv, Tables
<1>2. CASE s \in Existing
  <2> DEFINE new == [sched[s] EXCEPT !.next = date]
  <2>1. sched[s] \in Row /\ sched[s] # NoRow
    BY <1>1, <1>2 DEF Existing
  <2>2. new \in Row
    BY <2>1 DEF Row
  <2>3. new # NoRow
    BY <2>2, NoRowAssumption
  <2>4. sched' = [sched EXCEPT ![s] = new]
    BY <1>2
  <2> HIDE DEF new
  <2> QED BY <1>1, <2>1, <2>2, <2>3, <2>4 DEF Existing
<1>3. CASE s \notin Existing
  BY <1>1, <1>3 DEF Existing
<1> QED BY <1>2, <1>3

\* A phase of a worker.
LEMMA AtType ==
    ASSUME WorkInv, NEW w \in Workers,
           NEW phase \in {"idle", "loaded", "ran", "moved", "done", "raised"},
           At(w, phase)
    PROVE  /\ worker' \in [Workers -> WorkerState]
           /\ worker'[w].job = worker[w].job /\ worker'[w].row = worker[w].row
           /\ worker'[w].at = phase
           /\ \A v \in Workers \ {w} : worker'[v] = worker[v]
<1>1. worker \in [Workers -> WorkerState]
  BY DEF WorkInv, Tables
<1> DEFINE new == [worker[w] EXCEPT !.at = phase]
<1>2. worker[w] \in WorkerState
  BY <1>1
<1>3. new \in WorkerState /\ new.job = worker[w].job /\ new.row = worker[w].row /\ new.at = phase
  BY <1>2 DEF WorkerState
<1>4. worker' = [worker EXCEPT ![w] = new]
  BY DEF At
<1> HIDE DEF new
<1> QED BY <1>1, <1>3, <1>4

\* The steps of pop_off that only move on keep what the worker holds.
LEMMA AtHolds ==
    ASSUME WorkInv, NEW w \in Workers, worker[w].at # "idle",
           NEW phase \in {"loaded", "ran", "moved", "done", "raised"}, At(w, phase),
           \A id \in Ids : jobs[id] # NoRow => jobs'[id] = jobs[id]
    PROVE  HoldsItsJob'
<1> SUFFICES ASSUME NEW v \in Workers, worker'[v].at # "idle" PROVE Holds(v)'
  BY DEF HoldsItsJob
<1>1. /\ \A u \in Workers : /\ worker'[u].job = worker[u].job
                            /\ worker'[u].row = worker[u].row
                            /\ worker'[u].at # "idle" <=> worker[u].at # "idle"
  BY AtType
<1>2. Holds(v)
  BY <1>1 DEF WorkInv, HoldsItsJob
<1> QED BY <1>1, <1>2 DEF Holds

\* A worker that lets go of its job leaves the others what they hold.
LEMMA ReleaseHolds ==
    ASSUME WorkInv, NEW w \in Workers, worker[w].at # "idle",
           worker' = [worker EXCEPT ![w] = Idle],
           \A id \in Ids \ {worker[w].job} : jobs'[id] = jobs[id]
    PROVE  HoldsItsJob' /\ worker' \in [Workers -> WorkerState]
<1>1. worker \in [Workers -> WorkerState]
  BY DEF WorkInv, Tables
<1>2. Idle \in WorkerState /\ Idle.at = "idle"
  BY DEF Idle, WorkerState
<1>3. worker' \in [Workers -> WorkerState]
  BY <1>1, <1>2
<1> SUFFICES ASSUME NEW v \in Workers, worker'[v].at # "idle" PROVE Holds(v)'
  BY <1>3 DEF HoldsItsJob
<1>4. v # w /\ worker'[v] = worker[v]
  BY <1>1, <1>2
<1>5. Holds(v) /\ worker[v].job # worker[w].job
  BY <1>4 DEF WorkInv, HoldsItsJob, Holds
<1>6. \A u \in Workers : worker'[u].at # "idle" => worker'[u] = worker[u]
  BY <1>1, <1>2
<1>7. jobs'[worker[v].job] = jobs[worker[v].job]
  BY <1>5 DEF Holds
<1> QED BY <1>4, <1>5, <1>6, <1>7 DEF Holds

\* A worker takes a job and its row, or finds that the row is gone.
LEMMA StartStep ==
    ASSUME WorkInv, NEW w \in Workers, NEW id \in Ids, Start(w, id)
    PROVE  WorkInv'
<1>1. /\ jobs \in [Ids -> Job \cup {NoRow}] /\ worker \in [Workers -> WorkerState]
      /\ sched \in [Schedules -> Row \cup {NoRow}]
  BY DEF WorkInv, Tables
<1>2. /\ jobs[id] # NoRow /\ ~jobs[id].locked /\ jobs[id] \in Job
      /\ worker[w].at = "idle"
  BY <1>1 DEF Start, Queued
<1>3. \A v \in Workers : worker[v].at # "idle" => worker[v].job # id /\ v # w
  BY <1>2 DEF WorkInv, HoldsItsJob, Holds
<1>4. UNCHANGED <<users, rake, lastRun, clock, edits, faults, crashes>>
  BY DEF Start
<1>5. Bounds'
  BY <1>4 DEF WorkInv, Bounds, users, Existing
<1>6. CASE jobs[id].sched \in Existing
  <2> DEFINE s == jobs[id].sched
             taken == [job |-> id, at |-> "loaded", row |-> sched[s]]
  <2>1. s \in Schedules /\ sched[s] \in Row
    BY <1>1, <1>2, <1>6 DEF Existing, Job
  <2>2. jobs' = [jobs EXCEPT ![id].locked = TRUE] /\ worker' = [worker EXCEPT ![w] = taken]
    BY <1>6 DEF Start
  <2>3. taken \in WorkerState /\ taken.job = id /\ taken.at = "loaded" /\ taken.row \in Row
    BY <2>1 DEF WorkerState
  <2> HIDE DEF taken, s
  <2>4. /\ jobs' \in [Ids -> Job \cup {NoRow}]
        /\ jobs'[id] # NoRow /\ jobs'[id].locked = TRUE
        /\ \A other \in Ids \ {id} : jobs'[other] = jobs[other]
    BY <1>1, <1>2, <2>2, LockType
  <2>5. worker' \in [Workers -> WorkerState]
    BY <1>1, <2>2, <2>3
  <2>6. Tables'
    BY <1>4, <2>4, <2>5 DEF WorkInv, Tables, users
  <2>7. worker'[w] = taken /\ \A v \in Workers \ {w} : worker'[v] = worker[v]
    BY <1>1, <2>2
  <2>8. Holds(w)'
    BY <1>3, <2>3, <2>4, <2>7 DEF Holds
  <2>9. ASSUME NEW v \in Workers \ {w}, worker'[v].at # "idle" PROVE Holds(v)'
    <3>1. Holds(v) /\ worker[v].job # id
      BY <1>3, <2>7, <2>9 DEF WorkInv, HoldsItsJob
    <3>2. jobs'[worker[v].job] = jobs[worker[v].job]
      BY <2>4, <3>1 DEF Holds
    <3> QED BY <2>3, <2>7, <3>1, <3>2 DEF Holds
  <2> QED BY <1>5, <2>6, <2>8, <2>9 DEF WorkInv, HoldsItsJob
<1>7. CASE jobs[id].sched \notin Existing
  <2>1. jobs' = [jobs EXCEPT ![id] = NoRow] /\ worker' = worker
    BY <1>7 DEF Start
  <2>2. jobs' \in [Ids -> Job \cup {NoRow}] /\ \A other \in Ids \ {id} : jobs'[other] = jobs[other]
    BY <1>1, <2>1
  <2>3. Tables'
    BY <1>4, <2>1, <2>2 DEF WorkInv, Tables, users
  <2>4. HoldsItsJob'
    BY <1>3, <2>1, <2>2 DEF WorkInv, HoldsItsJob, Holds
  <2> QED BY <1>5, <2>3, <2>4 DEF WorkInv
<1> QED BY <1>6, <1>7

\* The steps of pop_off and what delayed_job does after them.
LEMMA PopOffStep ==
    ASSUME WorkInv, NEW w \in Workers, PopOff(w) \/ Crash(w)
    PROVE  WorkInv'
<1>1. worker[w].at # "idle"
  BY DEF PopOff, CreateRun, SetWhenToRun, ScheduleNextTest, Raise, Finish, Retry, Crash
<1>2. /\ worker[w].job \in Ids /\ jobs[worker[w].job] \in Job
      /\ jobs[worker[w].job] # NoRow /\ jobs[worker[w].job].sched \in Schedules
      /\ worker[w].row \in Row /\ worker[w].row.next \in Int
      /\ worker[w].row.recurring \in Recurrences \cup {Once}
  BY <1>1, HeldRow
<1>3. Tables /\ Bounds
  BY DEF WorkInv
<1>4. jobs \in [Ids -> Job \cup {NoRow}] /\ worker \in [Workers -> WorkerState]
  BY <1>3 DEF Tables
<1> DEFINE s == jobs[worker[w].job].sched
<1>5. CASE CreateRun(w)
  <2> DEFINE phase == IF worker[w].row.recurring = Once THEN "done" ELSE "ran"
             run == [day |-> clock, every |-> worker[w].row.recurring]
  <2>1. At(w, phase) /\ phase \in {"loaded", "ran", "moved", "done", "raised"}
    BY <1>5 DEF CreateRun
  <2>2. run \in Run
    BY <1>2, <1>3, BoundAssumption DEF Run, Bounds
  <2>3. lastRun' = [lastRun EXCEPT ![s] = run]
    BY <1>5 DEF CreateRun
  <2>4. UNCHANGED <<users, jobs, rake, clock, edits, faults, crashes>>
    BY <1>5 DEF CreateRun
  <2> HIDE DEF phase, run
  <2>5. worker' \in [Workers -> WorkerState]
    BY <2>1, AtType
  <2>6. Tables'
    BY <1>2, <1>3, <2>2, <2>3, <2>4, <2>5 DEF Tables, users
  <2>7. Bounds'
    BY <1>3, <2>4 DEF Bounds, Existing, users
  <2>8. HoldsItsJob'
    BY <1>1, <2>1, <2>4, AtHolds
  <2> QED BY <2>6, <2>7, <2>8 DEF WorkInv
<1>6. CASE SetWhenToRun(w)
  <2> DEFINE date == clock + worker[w].row.recurring
             new == [job |-> worker[w].job, at |-> "moved",
                     row |-> [next |-> date, recurring |-> worker[w].row.recurring]]
  <2>1. date \in Int
    <3>1. worker[w].row.recurring \in Nat
      <4>1. \A n \in Recurrences \cup {0} : n \in Nat
        BY RecurrenceAssumption
      <4>2. worker[w].row.recurring \in Recurrences \cup {0}
        BY <1>2
      <4> QED BY <4>1, <4>2
    <3>2. clock \in Nat
      BY <1>3, BoundAssumption DEF Bounds
    <3> QED BY <3>1, <3>2
  <2>2. new \in WorkerState /\ new.job = worker[w].job /\ new.row \in Row /\ new.at = "moved"
    BY <1>2, <2>1 DEF WorkerState, Row
  <2>3. /\ sched' = IF s \in Existing THEN [sched EXCEPT ![s].next = date] ELSE sched
        /\ worker' = [worker EXCEPT ![w] = new]
        /\ UNCHANGED <<created, broken, jobs, rake, lastRun, clock, edits, faults, crashes>>
    BY <1>6 DEF SetWhenToRun
  <2> HIDE DEF date, new
  <2>4. sched' \in [Schedules -> Row \cup {NoRow}] /\ Existing' = Existing
    BY <1>2, <2>1, <2>3, MoveDate
  <2>5. /\ worker' \in [Workers -> WorkerState] /\ worker'[w] = new
        /\ \A v \in Workers \ {w} : worker'[v] = worker[v]
    BY <1>4, <2>2, <2>3
  <2>6. Tables' /\ Bounds'
    BY <1>3, <2>3, <2>4, <2>5 DEF Tables, Bounds
  <2>7. ASSUME NEW v \in Workers, worker'[v].at # "idle" PROVE Holds(v)'
    <3>1. \A u \in Workers : /\ worker'[u].job = worker[u].job
                             /\ worker'[u].at # "idle" <=> worker[u].at # "idle"
      BY <1>1, <2>2, <2>5
    <3>2. Holds(v)
      BY <2>7, <3>1 DEF WorkInv, HoldsItsJob
    <3>3. worker'[v].row \in Row
      BY <2>2, <2>5, <3>2 DEF Holds
    <3> QED BY <2>3, <3>1, <3>2, <3>3 DEF Holds
  <2> QED BY <2>6, <2>7 DEF WorkInv, HoldsItsJob
<1>7. CASE ScheduleNextTest(w)
  <2>1. Enqueue(s, worker[w].row.next) /\ At(w, "done")
        /\ UNCHANGED <<users, rake, lastRun, clock, edits, faults, crashes>>
    BY <1>7 DEF ScheduleNextTest
  <2>2. jobs' \in [Ids -> Job \cup {NoRow}] /\ \A id \in Ids : jobs[id] # NoRow => jobs'[id] = jobs[id]
    <3>1. s \in Schedules /\ worker[w].row.next \in Int
      BY <1>2
    <3>2. PICK id \in Ids :
            /\ jobs[id] = NoRow
            /\ jobs' = [jobs EXCEPT ![id] =
                  [sched |-> s, runAt |-> worker[w].row.next, attempts |-> 0, locked |-> FALSE]]
            /\ [sched |-> s, runAt |-> worker[w].row.next, attempts |-> 0, locked |-> FALSE] \in Job
      <4> HIDE DEF s
      <4> QED BY <1>4, <2>1, <3>1, EnqueueRow
    <3> QED BY <1>4, <3>2
  <2>3. worker' \in [Workers -> WorkerState]
    BY <2>1, AtType
  <2>4. Tables' /\ Bounds'
    BY <1>3, <2>1, <2>2, <2>3 DEF Tables, Bounds, Existing, users
  <2>5. HoldsItsJob'
    BY <1>1, <2>1, <2>2, AtHolds
  <2> QED BY <2>4, <2>5 DEF WorkInv
<1>8. CASE Raise(w)
  <2>1. At(w, "raised") /\ UNCHANGED <<users, jobs, rake, lastRun, clock, edits, crashes>>
    BY <1>8 DEF Raise
  <2>2. faults' \in 0..MaxFaults
    BY <1>3, <1>8, BoundAssumption DEF Raise, Bounds
  <2>3. worker' \in [Workers -> WorkerState]
    BY <2>1, AtType
  <2>4. Tables' /\ Bounds'
    BY <1>3, <2>1, <2>2, <2>3 DEF Tables, Bounds, Existing, users
  <2>5. HoldsItsJob'
    BY <1>1, <2>1, AtHolds
  <2> QED BY <2>4, <2>5 DEF WorkInv
<1>9. CASE Finish(w) \/ Retry(w) \/ Crash(w)
  <2>1. /\ worker' = [worker EXCEPT ![w] = Idle]
        /\ UNCHANGED <<users, rake, lastRun, clock, edits, faults>>
    BY <1>9 DEF Finish, Retry, Crash
  <2>2. crashes' \in 0..MaxCrashes
    BY <1>3, <1>9, BoundAssumption DEF Finish, Retry, Crash, Bounds
  <2>3. /\ jobs' \in [Ids -> Job \cup {NoRow}]
        /\ \A id \in Ids \ {worker[w].job} : jobs'[id] = jobs[id]
    <3>1. CASE Finish(w)
      BY <1>2, <1>4, <3>1 DEF Finish
    <3>2. CASE Retry(w)
      BY <1>2, <1>4, <3>2, RetryType
    <3>3. CASE Crash(w)
      <4>1. jobs' = [jobs EXCEPT ![worker[w].job].locked = FALSE]
        BY <3>3 DEF Crash
      <4> QED BY <1>2, <1>4, <4>1, LockType
    <3> QED BY <1>9, <3>1, <3>2, <3>3
  <2>4. HoldsItsJob' /\ worker' \in [Workers -> WorkerState]
    BY <1>1, <2>1, <2>3, ReleaseHolds
  <2>5. Tables' /\ Bounds'
    BY <1>3, <2>1, <2>2, <2>3, <2>4 DEF Tables, Bounds, Existing, users
  <2> QED BY <2>4, <2>5 DEF WorkInv
<1> QED BY <1>5, <1>6, <1>7, <1>8, <1>9 DEF PopOff

\* Rake touches no job a worker holds.
LEMMA RakeStepTypes ==
    ASSUME WorkInv, NEW r \in Rakes, Guard(r) \/ RakeStep(r)
    PROVE  WorkInv'
<1>1. Tables /\ Bounds
  BY DEF WorkInv
<1> DEFINE Effect ==
      /\ UNCHANGED <<created, broken, worker, lastRun, clock, edits, faults, crashes>>
      /\ \E phase, rows : Phase(r, phase, rows) /\ [at |-> phase, todo |-> rows] \in RakeState
      /\ sched' \in [Schedules -> Row \cup {NoRow}] /\ Existing' = Existing
      /\ jobs' \in [Ids -> Job \cup {NoRow}]
      /\ \A id \in Ids : jobs[id] # NoRow => jobs'[id] = jobs[id]
<1>2. Effect
  <2>1. CASE Guard(r)
    <3>1. Phase(r, "recurring", OutOfOrder) /\ [at |-> "recurring", todo |-> OutOfOrder] \in RakeState
      BY <2>1 DEF Guard, RakeState, OutOfOrder, Missed, Existing
    <3> QED BY <1>1, <2>1, <3>1 DEF Guard, users, Tables, Existing
  <2>2. ASSUME NEW s \in Schedules, ResetRunTime(r, s) PROVE Effect
    <3>1. rake[r].todo \in SUBSET Schedules /\ rake[r] \in RakeState
          /\ rake[r].at \in {"recurring", "notRun"}
      BY <1>1, <2>2 DEF ResetRunTime, Tables, RakeState
    <3>2. \/ sched' = sched
          \/ sched' = IF s \in Existing THEN [sched EXCEPT ![s].next = clock] ELSE sched
      BY <2>2 DEF ResetRunTime
    <3>3. sched' \in [Schedules -> Row \cup {NoRow}] /\ Existing' = Existing
      <4>1. clock \in Int
        BY <1>1 DEF Bounds
      <4> QED BY <1>1, <3>2, <4>1, MoveDate DEF Tables, Existing
    <3>4. \E phase, rows : Phase(r, phase, rows) /\ [at |-> phase, todo |-> rows] \in RakeState
      <4>1. [at |-> "idle", todo |-> NoTodo] \in RakeState
            /\ [at |-> rake[r].at, todo |-> rake[r].todo \ {s}] \in RakeState
        BY <3>1 DEF RakeState, NoTodo
      <4> QED BY <2>2, <4>1 DEF ResetRunTime
    <3> QED BY <1>1, <2>2, <3>3, <3>4 DEF ResetRunTime, Tables
  <2>3. CASE LoadNotRun(r)
    <3>1. Phase(r, "notRun", NotRun) /\ [at |-> "notRun", todo |-> NotRun] \in RakeState
      BY <2>3 DEF LoadNotRun, RakeState, NotRun, Missed, Existing
    <3> QED BY <1>1, <2>3, <3>1 DEF LoadNotRun, users, Tables, Existing
  <2>4. CASE LoadOutstanding(r)
    <3> DEFINE rows == {[sched |-> s, next |-> sched[s].next] : s \in Outstanding}
    <3>1. \A s \in Outstanding : s \in Schedules /\ sched[s].next \in Int
      BY <1>1 DEF Outstanding, Existing, Tables, Row
    <3>2. rows \in SUBSET [sched : Schedules, next : Int]
      BY <3>1
    <3>3. Phase(r, "schedule", rows)
      BY <2>4 DEF LoadOutstanding
    <3> HIDE DEF rows
    <3>4. [at |-> "schedule", todo |-> rows] \in RakeState
      BY <3>2 DEF RakeState
    <3> QED BY <1>1, <2>4, <3>3, <3>4 DEF LoadOutstanding, users, Tables, Existing
  <2>5. ASSUME NEW row \in rake[r].todo, rake[r].at = "schedule", Schedule(r, row)
        PROVE Effect
    <3>1. rake[r].todo \in SUBSET [sched : Schedules, next : Int]
      BY <1>1, <2>5 DEF Tables, RakeState
    <3>2. row.sched \in Schedules /\ row.next \in Int
      BY <3>1
    <3>3. Phase(r, "schedule", rake[r].todo \ {row})
          /\ [at |-> "schedule", todo |-> rake[r].todo \ {row}] \in RakeState
      BY <2>5, <3>1 DEF Schedule, RakeState
    <3>4. /\ jobs' \in [Ids -> Job \cup {NoRow}]
          /\ \A id \in Ids : jobs[id] # NoRow => jobs'[id] = jobs[id]
      <4>1. Enqueue(row.sched, row.next) /\ jobs \in [Ids -> Job \cup {NoRow}]
        BY <1>1, <2>5 DEF Schedule, Tables
      <4>2. PICK id \in Ids, new \in Job :
              jobs[id] = NoRow /\ jobs' = [jobs EXCEPT ![id] = new]
        BY <3>2, <4>1, EnqueueRow
      <4> QED BY <4>1, <4>2
    <3> QED BY <1>1, <2>5, <3>3, <3>4 DEF Schedule, users, Tables, Existing
  <2>6. CASE EndRake(r)
    <3>1. Phase(r, "idle", NoTodo) /\ [at |-> "idle", todo |-> NoTodo] \in RakeState
      BY <2>6 DEF EndRake, RakeState, NoTodo
    <3> QED BY <1>1, <2>6, <3>1 DEF EndRake, users, Tables, Existing
  <2> HIDE DEF Effect
  <2> QED BY <2>1, <2>2, <2>3, <2>4, <2>5, <2>6 DEF RakeStep
<1>3. rake' \in [Rakes -> RakeState]
  BY <1>1, <1>2 DEF Phase, Tables
<1>4. Tables' /\ Bounds'
  BY <1>1, <1>2, <1>3 DEF Tables, Bounds
<1>5. HoldsItsJob'
  BY <1>2 DEF WorkInv, HoldsItsJob, Holds
<1> QED BY <1>4, <1>5 DEF WorkInv

LEMMA WorkStep == WorkInv /\ [Next]_vars => WorkInv'
<1>1. ASSUME WorkInv, NEW s \in Schedules, NEW row \in Row,
             Create(s, row) \/ Edit(s, row) \/ Destroy(s) \/ BreakEnvironment(s)
      PROVE  WorkInv'
  <2>1. Tables' /\ Bounds' /\ UNCHANGED worker
    BY <1>1, UsersTables
  <2>2. \A id \in Ids : jobs[id] # NoRow => jobs'[id] = jobs[id]
    <3>1. row.next \in Int
      BY DEF Row
    <3>2. jobs \in [Ids -> Job \cup {NoRow}]
      BY <1>1 DEF WorkInv, Tables
    <3> QED BY <1>1, <3>1, <3>2, EnqueueRow DEF Create, Edit, Destroy, BreakEnvironment
  <2>3. HoldsItsJob'
    BY <1>1, <2>1, <2>2 DEF WorkInv, HoldsItsJob, Holds
  <2> QED BY <2>1, <2>3 DEF WorkInv
<1>2. ASSUME WorkInv, Tick PROVE WorkInv'
  BY <1>2, BoundAssumption
     DEF Tick, WorkInv, Tables, Bounds, Existing, users, HoldsItsJob, Holds
<1>3. ASSUME WorkInv, UNCHANGED vars PROVE WorkInv'
  BY <1>3 DEF vars, users, WorkInv, Tables, Bounds, Existing, HoldsItsJob, Holds
<1>4. \A next \in ValidDates, n \in Recurrences \cup {Once} :
         WorkInv => [next |-> next, recurring |-> n] \in Row
  BY BoundAssumption DEF WorkInv, Bounds, ValidDates, Row
<1>5. [next |-> 0, recurring |-> Once] \in Row
  BY DEF Row
<1> QED BY <1>1, <1>2, <1>3, <1>4, <1>5, StartStep, PopOffStep, RakeStepTypes DEF Next

\* Whose step it is, and what it leaves alone.
LEMMA WhoSteps ==
    ASSUME Next
    PROVE  \/ /\ \E s \in Schedules : \E row :
                    Create(s, row) \/ Edit(s, row) \/ Destroy(s) \/ BreakEnvironment(s)
              /\ created \subseteq created'
              /\ UNCHANGED <<worker, rake, lastRun, clock, faults, crashes>>
           \/ \E w \in Workers :
                 /\ (\E id \in Ids : Start(w, id)) \/ PopOff(w) \/ Crash(w)
                 /\ lastRun' = lastRun \/ CreateRun(w)
                 /\ crashes' = crashes \/ crashes' = crashes + 1
                 /\ UNCHANGED <<created, broken, rake, clock, edits>>
           \/ /\ \E r \in Rakes : Guard(r) \/ RakeStep(r)
              /\ UNCHANGED <<created, broken, worker, lastRun, clock, edits, faults, crashes>>
           \/ /\ Tick /\ clock' = clock + 1
              /\ UNCHANGED <<users, jobs, worker, rake, lastRun, edits, faults, crashes>>
<1>1. ASSUME NEW s \in Schedules, NEW row,
             Create(s, row) \/ Edit(s, row) \/ Destroy(s) \/ BreakEnvironment(s)
      PROVE  /\ created \subseteq created'
             /\ UNCHANGED <<worker, rake, lastRun, clock, faults, crashes>>
  BY <1>1 DEF Create, Edit, Destroy, BreakEnvironment
<1>2. ASSUME NEW w \in Workers, (\E id \in Ids : Start(w, id)) \/ PopOff(w) \/ Crash(w)
      PROVE  /\ lastRun' = lastRun \/ CreateRun(w)
             /\ crashes' = crashes \/ crashes' = crashes + 1
             /\ UNCHANGED <<created, broken, rake, clock, edits>>
  <2>1. CASE \E id \in Ids : Start(w, id)
    BY <2>1 DEF Start, users
  <2>2. CASE CreateRun(w)
    BY <2>2 DEF CreateRun, users
  <2>3. CASE SetWhenToRun(w) \/ ScheduleNextTest(w) \/ Raise(w)
    BY <2>3 DEF SetWhenToRun, ScheduleNextTest, Raise, users
  <2>4. CASE Finish(w) \/ Retry(w) \/ Crash(w)
    BY <2>4 DEF Finish, Retry, Crash, users
  <2> QED BY <1>2, <2>1, <2>2, <2>3, <2>4 DEF PopOff
<1>3. ASSUME NEW r \in Rakes, Guard(r) \/ RakeStep(r)
      PROVE  UNCHANGED <<created, broken, worker, lastRun, clock, edits, faults, crashes>>
  BY <1>3 DEF Guard, RakeStep, ResetRunTime, LoadNotRun, LoadOutstanding, Schedule,
     EndRake, users
<1>4. CASE Tick
  BY <1>4 DEF Tick
<1>5. CASE \E s \in Schedules : \E row :
              Create(s, row) \/ Edit(s, row) \/ Destroy(s) \/ BreakEnvironment(s)
  BY <1>1, <1>5
<1>6. CASE \E w \in Workers : (\E id \in Ids : Start(w, id)) \/ PopOff(w) \/ Crash(w)
  BY <1>2, <1>6
<1>7. CASE \E r \in Rakes : Guard(r) \/ RakeStep(r)
  BY <1>3, <1>7
<1> QED BY <1>4, <1>5, <1>6, <1>7 DEF Next

(* Rows, jobs, runs and the locals of workers and rake keep their types.      *)
THEOREM TypesKept == Spec => []TypeOK
BY WorkInit, WorkStep, TypesFit, PTL DEF Spec

-----------------------------------------------------------------------------
(* The jobs of a schedule that go on. *)

Done(id) == \E w \in Workers : worker[w].job = id /\ worker[w].at = "done"

\* Without rake and crashes a schedule has one job that has not queued its
\* successor, and one that does not exist yet has no job at all and no run.
LoopInv ==
    /\ \A s \in Schedules : \A i, j \in Loops(s) : i = j
    /\ \A s \in Schedules \ created : JobsOf(s) = {} /\ lastRun[s] = NoRow

\* A step left this row of delayed_jobs alone, locked it, retried it or removed
\* it; a job that is done remains so until its row is removed.
Kept(id) ==
    jobs'[id] # NoRow =>
        /\ jobs[id] # NoRow /\ jobs'[id].sched = jobs[id].sched
        /\ jobs'[id].attempts = 0 /\ ~jobs'[id].locked => jobs'[id] = jobs[id]
        /\ Done(id) => Done(id)'

\* A step queued a job and kept the others.
Queues(id, s, date) ==
    /\ jobs[id] = NoRow
    /\ jobs'[id] = [sched |-> s, runAt |-> date, attempts |-> 0, locked |-> FALSE]
    /\ \A other \in Ids \ {id} : Kept(other)

LEMMA LoopMembers ==
    ASSUME NEW s \in Schedules
    PROVE  /\ Loops(s) = {id \in Ids : jobs[id] # NoRow /\ jobs[id].sched = s /\ ~Done(id)}
           /\ Loops(s)' = {id \in Ids : /\ jobs'[id] # NoRow /\ jobs'[id].sched = s
                                        /\ ~Done(id)'}
BY DEF Loops, JobsOf, Queued, Done

\* No row that exists changes when one is queued.
LEMMA EnqueueKeeps ==
    ASSUME NEW s \in Schedules, NEW date \in Int,
           jobs \in [Ids -> Job \cup {NoRow}], Enqueue(s, date),
           \A id \in Ids : Done(id) => Done(id)'
    PROVE  \E id \in Ids : Queues(id, s, date)
<1>1. PICK id \in Ids :
              /\ jobs[id] = NoRow
              /\ jobs' = [jobs EXCEPT ![id] =
                    [sched |-> s, runAt |-> date, attempts |-> 0, locked |-> FALSE]]
  BY EnqueueRow
<1>2. Queues(id, s, date)
  BY <1>1 DEF Queues, Kept
<1> QED BY <1>2

\* What a step does to the table of jobs.
LEMMA JobsEffect ==
    ASSUME WorkInv, Next
    PROVE  \/ \A id \in Ids : Kept(id)
           \/ \E s \in Schedules, row \in Row, id \in Ids :
                 Create(s, row) /\ Queues(id, s, row.next)
           \/ \E w \in Workers, old, id \in Ids, s \in Schedules :
                 /\ ScheduleNextTest(w) /\ old = worker[w].job /\ s = jobs[old].sched
                 /\ Queues(id, s, worker[w].row.next) /\ Done(old)'
           \/ \E w \in Workers : Crash(w) /\ \A id \in Ids \ {worker[w].job} : Kept(id)
           \/ \E r \in Rakes, id \in Ids, s \in Schedules : \E row \in rake[r].todo :
                 Schedule(r, row) /\ row.sched = s /\ Queues(id, s, row.next)
<1>1. /\ jobs \in [Ids -> Job \cup {NoRow}] /\ worker \in [Workers -> WorkerState]
      /\ clock \in 0..MaxClock /\ crashes \in 0..MaxCrashes
  BY DEF WorkInv, Tables, Bounds
<1>2. ASSUME UNCHANGED <<jobs, worker>> PROVE \A id \in Ids : Kept(id)
  BY <1>2 DEF Kept, Done
<1>3. ASSUME NEW s \in Schedules, NEW row \in Row, Create(s, row)
      PROVE  \E id \in Ids : Queues(id, s, row.next)
  <2>1. row.next \in Int /\ Enqueue(s, row.next) /\ worker' = worker
    BY <1>3 DEF Create, Row
  <2>2. \A id \in Ids : Done(id) => Done(id)'
    BY <2>1 DEF Done
  <2> QED BY <1>1, <2>1, <2>2, EnqueueKeeps
<1>4. ASSUME NEW w \in Workers, NEW id \in Ids, Start(w, id)
      PROVE  \A other \in Ids : Kept(other)
  <2>1. jobs[id] # NoRow /\ worker[w].at = "idle"
    BY <1>4 DEF Start, Queued
  <2>2. \A other \in Ids : Done(other) => Done(other)'
    BY <1>1, <1>4, <2>1 DEF Start, Done
  <2>3. CASE jobs[id].sched \in Existing
    <3>1. jobs' = [jobs EXCEPT ![id].locked = TRUE]
      BY <1>4, <2>3 DEF Start
    <3> QED BY <1>1, <2>1, <2>2, <3>1, LockType DEF Kept
  <2>4. CASE jobs[id].sched \notin Existing
    BY <1>1, <1>4, <2>2, <2>4 DEF Start, Kept
  <2> QED BY <2>3, <2>4
<1>5. ASSUME NEW w \in Workers, ScheduleNextTest(w)
      PROVE  \E old, id \in Ids, s \in Schedules :
                 /\ old = worker[w].job /\ s = jobs[old].sched
                 /\ Queues(id, s, worker[w].row.next) /\ Done(old)'
  <2>1. worker[w].at # "idle" /\ At(w, "done")
        /\ Enqueue(jobs[worker[w].job].sched, worker[w].row.next)
    BY <1>5 DEF ScheduleNextTest
  <2>2. PICK old \in Ids : old = worker[w].job /\ jobs[old].sched \in Schedules
    BY <2>1, HeldRow
  <2>3. PICK s \in Schedules : s = jobs[old].sched
    BY <2>2
  <2>4. PICK date \in Int : date = worker[w].row.next
    BY <2>1, HeldRow
  <2>5. /\ worker'[w].job = old /\ worker'[w].at = "done"
        /\ \A v \in Workers \ {w} : worker'[v] = worker[v]
    BY <2>1, <2>2, AtType
  <2>6. \A id \in Ids : Done(id) => Done(id)'
    BY <2>2, <2>5 DEF Done
  <2>7. Done(old)'
    BY <2>5 DEF Done
  <2>8. \E id \in Ids : Queues(id, s, date)
    BY <1>1, <2>1, <2>2, <2>3, <2>4, <2>6, EnqueueKeeps
  <2> QED BY <2>2, <2>3, <2>4, <2>7, <2>8
<1>6. ASSUME NEW w \in Workers, CreateRun(w) \/ SetWhenToRun(w) \/ Raise(w)
      PROVE  \A id \in Ids : Kept(id)
  <2>1. jobs' = jobs /\ worker[w].at \in {"loaded", "ran", "moved"}
        /\ \A v \in Workers \ {w} : worker'[v] = worker[v]
    BY <1>1, <1>6 DEF CreateRun, SetWhenToRun, Raise, At
  <2>2. \A id \in Ids : Done(id) => Done(id)'
    BY <2>1 DEF Done
  <2> QED BY <2>1, <2>2 DEF Kept
<1>7. ASSUME NEW w \in Workers, Finish(w) \/ Retry(w) PROVE \A id \in Ids : Kept(id)
  <2>1. worker[w].at \in {"done", "raised"} /\ \A v \in Workers \ {w} : worker'[v] = worker[v]
    BY <1>1, <1>7 DEF Finish, Retry
  <2>2. PICK old \in Ids : old = worker[w].job /\ jobs[old] # NoRow
    BY <2>1 DEF WorkInv, HoldsItsJob, Holds
  <2>3. \A id \in Ids \ {old} : Done(id) => Done(id)'
    BY <2>1, <2>2 DEF Done
  <2>4. /\ \A id \in Ids \ {old} : jobs'[id] = jobs[id]
        /\ jobs'[old] # NoRow =>
             Retry(w) /\ jobs'[old].sched = jobs[old].sched /\ jobs'[old].attempts > 0
    <3>1. CASE Finish(w)
      BY <1>1, <2>2, <3>1 DEF Finish
    <3>2. CASE Retry(w)
      BY <1>1, <2>2, <3>2, RetryType
    <3> QED BY <1>7, <3>1, <3>2
  <2>5. Retry(w) => ~Done(old)
    BY <2>2 DEF Retry, Done, WorkInv, HoldsItsJob, Holds
  <2>6. Kept(old)
    BY <2>2, <2>4, <2>5 DEF Kept
  <2>7. \A id \in Ids \ {old} : Kept(id)
    BY <2>3, <2>4 DEF Kept
  <2> QED BY <2>6, <2>7
<1>8. ASSUME NEW w \in Workers, Crash(w)
      PROVE  \A id \in Ids \ {worker[w].job} : Kept(id)
  <2>1. /\ worker[w].at # "idle" /\ worker' = [worker EXCEPT ![w] = Idle]
        /\ jobs' = [jobs EXCEPT ![worker[w].job].locked = FALSE]
    BY <1>8 DEF Crash
  <2>2. \A v \in Workers \ {w} : worker'[v] = worker[v]
    BY <1>1, <2>1
  <2>3. \A id \in Ids \ {worker[w].job} : jobs'[id] = jobs[id]
    BY <1>1, <2>1
  <2>4. \A id \in Ids \ {worker[w].job} : Done(id) => Done(id)'
    BY <2>2 DEF Done
  <2> QED BY <2>3, <2>4 DEF Kept
<1>9. \A next \in ValidDates, n \in Recurrences \cup {Once} :
         [next |-> next, recurring |-> n] \in Row
  BY <1>1, BoundAssumption DEF ValidDates, Row
<1>10. ASSUME NEW s \in Schedules, NEW row \in Row,
              Edit(s, row) \/ Destroy(s) \/ BreakEnvironment(s)
       PROVE  UNCHANGED <<jobs, worker>>
  BY <1>10 DEF Edit, Destroy, BreakEnvironment
<1>11. [next |-> 0, recurring |-> Once] \in Row
  BY DEF Row
<1>12. Tick => UNCHANGED <<jobs, worker>>
  BY DEF Tick
<1>13. CASE \E s \in Schedules :
          \/ Destroy(s) \/ BreakEnvironment(s)
          \/ \E next \in ValidDates, n \in Recurrences \cup {Once} :
                LET row == [next |-> next, recurring |-> n]
                IN  Create(s, row) \/ Edit(s, row)
  BY <1>2, <1>3, <1>9, <1>10, <1>11, <1>13
<1>14. CASE \E w \in Workers :
          \/ \E id \in Ids : Start(w, id)
          \/ PopOff(w) \/ Crash(w)
  BY <1>4, <1>5, <1>6, <1>7, <1>8, <1>14 DEF PopOff
<1>15. ASSUME NEW r \in Rakes, NEW row \in rake[r].todo, rake[r].at = "schedule",
              Schedule(r, row)
       PROVE  \E id \in Ids, s \in Schedules : row.sched = s /\ Queues(id, s, row.next)
  <2>1. rake[r].todo \in SUBSET [sched : Schedules, next : Int]
    BY <1>15 DEF WorkInv, Tables, RakeState
  <2>2. row.sched \in Schedules /\ row.next \in Int
    BY <2>1
  <2>3. Enqueue(row.sched, row.next) /\ worker' = worker
    BY <1>15 DEF Schedule
  <2>4. \A id \in Ids : Done(id) => Done(id)'
    BY <2>3 DEF Done
  <2> QED BY <1>1, <2>2, <2>3, <2>4, EnqueueKeeps
<1>16. ASSUME NEW r \in Rakes, Guard(r) \/ RakeStep(r),
              ~\E row \in rake[r].todo : rake[r].at = "schedule" /\ Schedule(r, row)
       PROVE  UNCHANGED <<jobs, worker>>
  BY <1>16 DEF Guard, RakeStep, LoadNotRun, LoadOutstanding, EndRake, ResetRunTime
<1>17. CASE \E r \in Rakes : Guard(r) \/ RakeStep(r)
  BY <1>2, <1>15, <1>16, <1>17
<1> QED BY <1>2, <1>12, <1>13, <1>14, <1>17 DEF Next

\* Without rake and crashes only users and the loops themselves queue jobs.
LEMMA QuietEffect ==
    ASSUME WorkInv, Next, Rakes = {}, MaxCrashes = 0
    PROVE  \/ \A id \in Ids : Kept(id)
           \/ \E s \in Schedules, row \in Row, id \in Ids :
                 Create(s, row) /\ Queues(id, s, row.next)
           \/ \E w \in Workers, old, id \in Ids, s \in Schedules :
                 /\ ScheduleNextTest(w) /\ old = worker[w].job /\ s = jobs[old].sched
                 /\ Queues(id, s, worker[w].row.next) /\ Done(old)'
<1>1. \A w \in Workers : ~Crash(w)
  BY DEF Crash, WorkInv, Bounds
<1> QED BY <1>1, JobsEffect

\* The job a worker that is not done executes is the one loop of its schedule.
LEMMA HeldIsLoop ==
    ASSUME WorkInv, NEW w \in Workers, worker[w].at \notin {"idle", "done"}
    PROVE  worker[w].job \in Loops(jobs[worker[w].job].sched)
<1>1. /\ worker[w].job \in Ids /\ jobs[worker[w].job] # NoRow
      /\ jobs[worker[w].job].sched \in Schedules
  BY HeldRow
<1>2. ~Done(worker[w].job)
  BY DEF WorkInv, HoldsItsJob, Holds, Done
<1> QED BY <1>1, <1>2, LoopMembers

\* A job is held of schedules that were created only.
LEMMA HeldIsCreated ==
    ASSUME WorkInv, LoopInv, NEW w \in Workers, worker[w].at # "idle"
    PROVE  jobs[worker[w].job].sched \in created
<1>1. /\ worker[w].job \in Ids /\ jobs[worker[w].job] # NoRow
      /\ jobs[worker[w].job].sched \in Schedules
  BY HeldRow
<1>2. worker[w].job \in JobsOf(jobs[worker[w].job].sched)
  BY <1>1 DEF JobsOf, Queued
<1> QED BY <1>1, <1>2 DEF LoopInv

LEMMA RunsChange ==
    ASSUME WorkInv, LoopInv, Next, NEW s \in Schedules, lastRun'[s] # lastRun[s]
    PROVE  \E w \in Workers : CreateRun(w) /\ jobs[worker[w].job].sched = s
<1>1. PICK w \in Workers : CreateRun(w)
  BY WhoSteps
<1>2. lastRun \in [Schedules -> Run \cup {NoRow}]
  BY DEF WorkInv, Tables
<1>3. jobs[worker[w].job].sched = s
  BY <1>1, <1>2 DEF CreateRun
<1> QED BY <1>1, <1>3

LEMMA LoopStep ==
    ASSUME WorkInv, LoopInv, Next, Rakes = {}, MaxCrashes = 0
    PROVE  LoopInv'
<1>1. \A s \in Schedules, id \in Ids :
         /\ Kept(id) /\ id \in Loops(s)' => id \in Loops(s)
         /\ Kept(id) /\ id \in JobsOf(s)' => id \in JobsOf(s)
  BY LoopMembers DEF Kept, JobsOf, Queued
<1>2. created \subseteq created' /\ \A s \in Schedules : \A row : Create(s, row) => s \in created'
  BY WhoSteps DEF Create, users
<1>3. ASSUME NEW s \in Schedules \ created' PROVE lastRun'[s] = NoRow
  <2>1. lastRun[s] = NoRow
    BY <1>2 DEF LoopInv
  <2>2. CASE lastRun'[s] # lastRun[s]
    <3>1. PICK w \in Workers : CreateRun(w) /\ jobs[worker[w].job].sched = s
      BY <2>2, RunsChange
    <3>2. worker[w].at # "idle"
      BY <3>1 DEF CreateRun
    <3> QED BY <1>2, <3>1, <3>2, HeldIsCreated
  <2> QED BY <2>1, <2>2
<1>4. CASE \A id \in Ids : Kept(id)
  <2>1. \A s \in Schedules : Loops(s)' \subseteq Loops(s) /\ JobsOf(s)' \subseteq JobsOf(s)
    BY <1>1, <1>4 DEF JobsOf, Queued, Loops
  <2> QED BY <1>2, <1>3, <2>1 DEF LoopInv
<1>5. ASSUME NEW s \in Schedules, NEW row \in Row, NEW id \in Ids,
             Create(s, row), Queues(id, s, row.next)
      PROVE  LoopInv'
  <2>1. s \notin created /\ JobsOf(s) = {}
    BY <1>5 DEF Create, LoopInv
  <2>2. \A other \in Ids \ {id} : Kept(other)
    BY <1>5 DEF Queues
  <2>3. jobs'[id].sched = s
    BY <1>5 DEF Queues
  <2>4. JobsOf(s)' \subseteq {id} /\ Loops(s)' \subseteq {id}
    BY <1>1, <2>1, <2>2 DEF JobsOf, Queued, Loops
  <2>5. \A t \in Schedules \ {s} : Loops(t)' \subseteq Loops(t) /\ JobsOf(t)' \subseteq JobsOf(t)
    BY <1>1, <2>2, <2>3 DEF JobsOf, Queued, Loops
  <2>6. s \in created'
    BY <1>2, <1>5
  <2> QED BY <1>2, <1>3, <2>4, <2>5, <2>6 DEF LoopInv
<1>6. ASSUME NEW w \in Workers, NEW old \in Ids, NEW id \in Ids, NEW s \in Schedules,
             ScheduleNextTest(w), old = worker[w].job, s = jobs[old].sched,
             Queues(id, s, worker[w].row.next), Done(old)'
      PROVE  LoopInv'
  <2>1. worker[w].at = "moved"
    BY <1>6 DEF ScheduleNextTest
  <2>2. s \in created
    BY <1>6, <2>1, HeldIsCreated
  <2>3. old \in Loops(s)
    BY <1>6, <2>1, HeldIsLoop
  <2>4. (\A other \in Ids \ {id} : Kept(other)) /\ jobs'[id].sched = s
    BY <1>6 DEF Queues
  <2>5. Loops(s)' \subseteq {id}
    <3> SUFFICES ASSUME NEW other \in Loops(s)', other # id PROVE FALSE
      OBVIOUS
    <3>1. other \in Ids /\ ~Done(other)'
      BY LoopMembers
    <3>2. other \in Loops(s)
      BY <1>1, <2>4, <3>1
    <3>3. other = old
      BY <2>3, <3>2 DEF LoopInv
    <3> QED BY <1>6, <3>1, <3>3
  <2>6. \A t \in Schedules \ {s} : Loops(t)' \subseteq Loops(t) /\ JobsOf(t)' \subseteq JobsOf(t)
    BY <1>1, <2>4 DEF JobsOf, Queued, Loops
  <2> QED BY <1>2, <1>3, <2>2, <2>5, <2>6 DEF LoopInv
<1> QED BY <1>4, <1>5, <1>6, QuietEffect

LEMMA LoopInit == Init => LoopInv
BY DEF Init, LoopInv, Loops, JobsOf, Queued

-----------------------------------------------------------------------------
(* How many loops a schedule has, with any number of rakes and crashes. *)

\* the rake tasks that may still queue the schedule
Restarting(s) ==
    {r \in Rakes :
       \/ rake[r].at \in {"recurring", "notRun"}
       \/ rake[r].at = "schedule" /\ \E row \in rake[r].todo : row.sched = s}

\* Loops alone are not inductive: two rake tasks that have passed their guards,
\* and a user who creates the schedule between them, each start one.
CountInv ==
    /\ \A r \in Rakes : rake[r].at = "schedule" =>
          \A a, b \in rake[r].todo : a.sched = b.sched => a = b
    /\ \A s \in Schedules :
          Cardinality(Loops(s)) + Cardinality(Restarting(s))
             <= (IF s \in created THEN 1 ELSE 0) + Cardinality(Rakes) + crashes

\* Nothing is counted that is not a natural number, before a step or after it.
LEMMA CountsAreFinite ==
    ASSUME IsFiniteSet(Rakes), NEW s \in Schedules
    PROVE  /\ Cardinality(Rakes) \in Nat
           /\ IsFiniteSet(Loops(s)) /\ Cardinality(Loops(s)) \in Nat
           /\ IsFiniteSet(Restarting(s)) /\ Cardinality(Restarting(s)) \in Nat
           /\ Cardinality(Restarting(s)) <= Cardinality(Rakes)
           /\ IsFiniteSet(Loops(s)') /\ Cardinality(Loops(s)') \in Nat
           /\ IsFiniteSet(Restarting(s)') /\ Cardinality(Restarting(s)') \in Nat
           /\ Cardinality(Restarting(s)') <= Cardinality(Rakes)
<1>1. /\ Loops(s) \subseteq 1..MaxJobs /\ Loops(s)' \subseteq 1..MaxJobs
      /\ Restarting(s) \subseteq Rakes /\ Restarting(s)' \subseteq Rakes
  BY DEF Loops, JobsOf, Queued, Ids, Restarting
<1>2. IsFiniteSet(1..MaxJobs)
  BY BoundAssumption, FS_Interval
<1>3. /\ IsFiniteSet(Loops(s)) /\ IsFiniteSet(Loops(s)')
      /\ IsFiniteSet(Restarting(s)) /\ Cardinality(Restarting(s)) <= Cardinality(Rakes)
      /\ IsFiniteSet(Restarting(s)') /\ Cardinality(Restarting(s)') <= Cardinality(Rakes)
  BY <1>1, <1>2, FS_Subset
<1> QED BY <1>3, FS_CardinalityType

\* Rake loads one row per schedule, and takes rows off its list only.
LEMMA OneRowStep ==
    ASSUME WorkInv, Next, NEW r \in Rakes, rake'[r].at = "schedule",
           rake[r].at = "schedule" =>
               \A a, b \in rake[r].todo : a.sched = b.sched => a = b
    PROVE  \A a, b \in rake'[r].todo : a.sched = b.sched => a = b
<1>1. rake \in [Rakes -> RakeState]
  BY DEF WorkInv, Tables
<1>2. CASE rake'[r] = rake[r]
  BY <1>2
<1>3. CASE rake'[r] # rake[r]
  <2>1. PICK q \in Rakes : Guard(q) \/ RakeStep(q)
    BY <1>3, WhoSteps
  <2>2. q = r
    BY <1>1, <1>3, <2>1 DEF Guard, RakeStep, ResetRunTime, LoadNotRun, LoadOutstanding,
       Schedule, EndRake, Phase
  <2>3. CASE LoadOutstanding(r)
    BY <1>1, <2>3 DEF LoadOutstanding, Phase
  <2>4. CASE \E row \in rake[r].todo : rake[r].at = "schedule" /\ Schedule(r, row)
    BY <1>1, <2>4 DEF Schedule, Phase
  <2>5. ~(Guard(r) \/ LoadNotRun(r) \/ EndRake(r) \/ \E s \in Schedules : ResetRunTime(r, s))
    BY <1>1 DEF Guard, LoadNotRun, EndRake, ResetRunTime, Phase
  <2> QED BY <2>1, <2>2, <2>3, <2>4, <2>5 DEF RakeStep
<1> QED BY <1>2, <1>3

\* Only a guard, which finds no job, lets another rake task restart a schedule.
LEMMA RestartingStep ==
    ASSUME WorkInv, Next, NEW s \in Schedules
    PROVE  \/ Restarting(s)' \subseteq Restarting(s)
           \/ jobs' = jobs /\ Loops(s)' = {}
<1>1. rake \in [Rakes -> RakeState]
  BY DEF WorkInv, Tables
<1>2. CASE \E r \in Rakes : Guard(r)
  <2>1. Loops(s) = {} /\ jobs' = jobs /\ worker' = worker
    BY <1>2 DEF Guard, Loops, JobsOf
  <2> QED BY <2>1 DEF Loops, JobsOf, Queued
<1>3. ASSUME NEW r \in Rakes, RakeStep(r) PROVE Restarting(s)' \subseteq Restarting(s)
  <2>1. \A q \in Rakes \ {r} : rake'[q] = rake[q]
    BY <1>1, <1>3 DEF RakeStep, ResetRunTime, LoadNotRun, LoadOutstanding, Schedule,
       EndRake, Phase
  <2>2. r \in Restarting(s)' => r \in Restarting(s)
    <3>1. CASE LoadNotRun(r) \/ LoadOutstanding(r) \/ EndRake(r)
               \/ \E t \in Schedules : ResetRunTime(r, t)
      BY <1>1, <3>1 DEF Restarting, ResetRunTime, LoadNotRun, LoadOutstanding, EndRake,
         Phase, NoTodo
    <3>2. CASE \E row \in rake[r].todo : rake[r].at = "schedule" /\ Schedule(r, row)
      BY <1>1, <3>2 DEF Restarting, Schedule, Phase
    <3> QED BY <1>3, <3>1, <3>2 DEF RakeStep
  <2> QED BY <2>1, <2>2 DEF Restarting
<1>4. CASE rake' = rake
  BY <1>4 DEF Restarting
<1> QED BY <1>2, <1>3, <1>4, WhoSteps

\* CountInv is inductive: a user creates the first loop, a rake task that queues
\* the schedule is no longer about to, a crash is counted, and a loop goes on as
\* another job.
LEMMA CountStep ==
    ASSUME IsFiniteSet(Rakes), WorkInv, CountInv, Next, NEW s \in Schedules
    PROVE  Cardinality(Loops(s)') + Cardinality(Restarting(s)')
              <= (IF s \in created' THEN 1 ELSE 0) + Cardinality(Rakes) + crashes'
<1> DEFINE Old == IF s \in created THEN 1 ELSE 0
           New == IF s \in created' THEN 1 ELSE 0
           Within == Cardinality(Loops(s)') + Cardinality(Restarting(s)')
                        <= New + Cardinality(Rakes) + crashes'
<1> SUFFICES Within
  OBVIOUS
<1>1. /\ Cardinality(Rakes) \in Nat
      /\ IsFiniteSet(Loops(s)) /\ Cardinality(Loops(s)) \in Nat
      /\ IsFiniteSet(Restarting(s)) /\ Cardinality(Restarting(s)) \in Nat
      /\ Cardinality(Loops(s)') \in Nat
      /\ IsFiniteSet(Restarting(s)') /\ Cardinality(Restarting(s)') \in Nat
      /\ Cardinality(Restarting(s)') <= Cardinality(Rakes)
  BY CountsAreFinite
<1>2. Cardinality(Loops(s)) + Cardinality(Restarting(s)) <= Old + Cardinality(Rakes) + crashes
  BY DEF CountInv
<1>3. crashes \in Nat /\ (crashes' = crashes \/ crashes' = crashes + 1)
  <2>1. crashes \in Nat
    BY BoundAssumption DEF WorkInv, Bounds
  <2> QED BY <2>1, WhoSteps
<1>4. created \subseteq created'
  BY WhoSteps DEF users
<1>5. Old \in {0, 1} /\ New \in {0, 1} /\ Old <= New
  BY <1>4
<1>6. \A id \in Ids : Kept(id) /\ id \in Loops(s)' => id \in Loops(s)
  BY LoopMembers DEF Kept
<1>7. \A id \in Loops(s)' : id \in Ids
  BY LoopMembers
<1> HIDE DEF Old, New, Within
<1>8. CASE Loops(s)' = {}
  <2>1. Cardinality(Loops(s)') = 0
    BY <1>8, FS_EmptySet
  <2> QED BY <1>1, <1>3, <1>5, <2>1 DEF Within
<1>9. CASE Loops(s)' # {}
  <2>1. IsFiniteSet(Restarting(s)) /\ Restarting(s)' \subseteq Restarting(s)
    BY <1>1, <1>9, RestartingStep
  <2>2. Cardinality(Restarting(s)') <= Cardinality(Restarting(s))
    BY <2>1, CountSubset
  <2>3. ASSUME Loops(s)' \subseteq Loops(s) PROVE Within
    <3>1. Cardinality(Loops(s)') <= Cardinality(Loops(s))
      BY <1>1, <2>3, CountSubset
    <3> QED BY <1>1, <1>2, <1>3, <1>5, <2>2, <3>1 DEF Within
  <2>4. ASSUME \E x : Loops(s)' \subseteq Loops(s) \cup {x},
               \/ Old = 0 /\ New = 1
               \/ crashes' = crashes + 1
               \/ Cardinality(Restarting(s)') <= Cardinality(Restarting(s)) - 1
        PROVE  Within
    <3>1. Cardinality(Loops(s)') <= Cardinality(Loops(s)) + 1
      BY <1>1, <2>4, CountOneMore
    <3> QED BY <1>1, <1>2, <1>3, <1>5, <2>2, <2>4, <3>1 DEF Within
  <2>5. CASE \A id \in Ids : Kept(id)
    BY <1>6, <1>7, <2>3, <2>5
  <2>6. ASSUME NEW t \in Schedules, NEW row \in Row, NEW id \in Ids,
               Create(t, row), Queues(id, t, row.next)
        PROVE  Within
    <3>1. (\A other \in Ids \ {id} : Kept(other)) /\ jobs'[id].sched = t
      BY <2>6 DEF Queues
    <3>2. CASE t = s
      <4>1. Old = 0 /\ New = 1
        BY <2>6, <3>2 DEF Create, Old, New
      <4>2. Loops(s)' \subseteq Loops(s) \cup {id}
        BY <1>6, <1>7, <3>1
      <4> QED BY <2>4, <4>1, <4>2
    <3>3. CASE t # s
      <4>1. id \notin Loops(s)'
        BY <3>1, <3>3, LoopMembers
      <4> QED BY <1>6, <1>7, <2>3, <3>1, <4>1
    <3> QED BY <3>2, <3>3
  <2>7. ASSUME NEW w \in Workers, NEW old \in Ids, NEW id \in Ids, NEW t \in Schedules,
               ScheduleNextTest(w), old = worker[w].job, t = jobs[old].sched,
               Queues(id, t, worker[w].row.next), Done(old)'
        PROVE  Within
    <3>1. (\A other \in Ids \ {id} : Kept(other)) /\ jobs'[id].sched = t
      BY <2>7 DEF Queues
    <3>2. CASE t = s
      <4>1. old \in Loops(s)
        BY <2>7, <3>2, HeldIsLoop DEF ScheduleNextTest
      <4>2. old \notin Loops(s)'
        BY <2>7, LoopMembers
      <4>3. Loops(s)' \subseteq (Loops(s) \ {old}) \cup {id}
        BY <1>6, <1>7, <3>1, <4>2
      <4>4. Cardinality(Loops(s)') <= Cardinality(Loops(s))
        BY <1>1, <4>1, <4>3, CountTrade
      <4> QED BY <1>1, <1>2, <1>3, <1>5, <2>2, <4>4 DEF Within
    <3>3. CASE t # s
      <4>1. id \notin Loops(s)'
        BY <3>1, <3>3, LoopMembers
      <4> QED BY <1>6, <1>7, <2>3, <3>1, <4>1
    <3> QED BY <3>2, <3>3
  <2>8. ASSUME NEW w \in Workers, Crash(w), \A id \in Ids \ {worker[w].job} : Kept(id)
        PROVE  Within
    <3>1. Loops(s)' \subseteq Loops(s) \cup {worker[w].job}
      BY <1>6, <1>7, <2>8
    <3>2. crashes' = crashes + 1
      BY <2>8 DEF Crash
    <3> QED BY <2>4, <3>1, <3>2
  <2>9. ASSUME NEW r \in Rakes, NEW id \in Ids, NEW t \in Schedules,
               NEW row \in rake[r].todo, Schedule(r, row), row.sched = t,
               Queues(id, t, row.next)
        PROVE  Within
    <3>1. (\A other \in Ids \ {id} : Kept(other)) /\ jobs'[id].sched = t
      BY <2>9 DEF Queues
    <3>2. CASE t = s
      <4>1. /\ rake[r].at = "schedule"
            /\ rake'[r] = [at |-> "schedule", todo |-> rake[r].todo \ {row}]
        BY <2>9 DEF Schedule, Phase, WorkInv, Tables
      <4>2. r \in Restarting(s)
        BY <2>9, <3>2, <4>1 DEF Restarting
      <4>3. r \notin Restarting(s)'
        BY <2>9, <3>2, <4>1 DEF Restarting, CountInv
      <4>4. Restarting(s)' \subseteq Restarting(s) \ {r}
        BY <2>1, <4>3
      <4>5. /\ IsFiniteSet(Restarting(s) \ {r})
            /\ Cardinality(Restarting(s) \ {r}) = Cardinality(Restarting(s)) - 1
        BY <2>1, <4>2, FS_RemoveElement
      <4>6. Cardinality(Restarting(s)') <= Cardinality(Restarting(s)) - 1
        BY <4>4, <4>5, CountSubset
      <4>7. Loops(s)' \subseteq Loops(s) \cup {id}
        BY <1>6, <1>7, <3>1
      <4> QED BY <2>4, <4>6, <4>7
    <3>3. CASE t # s
      <4>1. id \notin Loops(s)'
        BY <3>1, <3>3, LoopMembers
      <4> QED BY <1>6, <1>7, <2>3, <3>1, <4>1
    <3> QED BY <3>2, <3>3
  <2> QED BY <2>5, <2>6, <2>7, <2>8, <2>9, JobsEffect
<1> QED BY <1>8, <1>9

(* However its users edit a schedule, however often its jobs fail and however *)
(* many rake tasks, workers and crashes there are, each loop of a schedule    *)
(* but one has a rake task of its own that started it or a crash.             *)
THEOREM LoopsCounted ==
    ASSUME IsFiniteSet(Rakes)
    PROVE  Spec => []LoopsAreCounted
<1>1. Init => CountInv
  <2> SUFFICES ASSUME Init PROVE CountInv
    OBVIOUS
  <2>1. \A r \in Rakes : rake[r].at # "schedule"
    BY DEF Init
  <2>2. ASSUME NEW s \in Schedules
        PROVE  Cardinality(Loops(s)) + Cardinality(Restarting(s))
                  <= (IF s \in created THEN 1 ELSE 0) + Cardinality(Rakes) + crashes
    <3>1. Loops(s) = {} /\ Restarting(s) = {} /\ crashes = 0 /\ s \notin created
      BY DEF Init, Loops, JobsOf, Queued, Restarting
    <3>2. Cardinality({}) = 0 /\ Cardinality(Rakes) \in Nat
      BY FS_EmptySet, FS_CardinalityType
    <3> QED BY <3>1, <3>2
  <2> QED BY <2>1, <2>2 DEF CountInv
<1>2. WorkInv /\ CountInv /\ [Next]_vars => CountInv'
  <2>1. CASE WorkInv /\ CountInv /\ Next
    <3>1. \A r \in Rakes : rake'[r].at = "schedule" =>
             \A a, b \in rake'[r].todo : a.sched = b.sched => a = b
      BY <2>1, OneRowStep DEF CountInv
    <3>2. \A s \in Schedules :
             Cardinality(Loops(s)') + Cardinality(Restarting(s)')
                <= (IF s \in created' THEN 1 ELSE 0) + Cardinality(Rakes) + crashes'
      BY <2>1, CountStep
    <3> QED BY <3>1, <3>2 DEF CountInv
  <2>2. CASE CountInv /\ UNCHANGED vars
    BY <2>2 DEF CountInv, Loops, JobsOf, Queued, Restarting, vars, users
  <2> QED BY <2>1, <2>2
<1>3. WorkInv /\ CountInv => LoopsAreCounted
  <2> SUFFICES ASSUME WorkInv, CountInv, NEW s \in Schedules
               PROVE  Cardinality(Loops(s)) <= 1 + Cardinality(Rakes) + crashes
    BY DEF LoopsAreCounted
  <2>1. Cardinality(Loops(s)) + Cardinality(Restarting(s))
           <= (IF s \in created THEN 1 ELSE 0) + Cardinality(Rakes) + crashes
    BY DEF CountInv
  <2>2. /\ Cardinality(Loops(s)) \in Nat /\ Cardinality(Restarting(s)) \in Nat
        /\ Cardinality(Rakes) \in Nat /\ crashes \in Nat
    BY CountsAreFinite, BoundAssumption DEF WorkInv, Bounds
  <2> QED BY <2>1, <2>2
<1> QED BY <1>1, <1>2, <1>3, WorkInit, WorkStep, PTL DEF Spec

-----------------------------------------------------------------------------
(* Runs keep their distance. *)

\* Between the run and the next job the date a worker computes is late enough:
\* no other job of the schedule can have made a later run meanwhile.
RunFits(w, id, s) ==
    worker[w].job = id /\ jobs[id].sched = s =>
        /\ worker[w].at = "ran" =>
              /\ lastRun[s] # NoRow /\ lastRun[s].day <= clock
              /\ lastRun[s].every = worker[w].row.recurring
        /\ worker[w].at = "moved" =>
              /\ lastRun[s] # NoRow
              /\ worker[w].row.next >= lastRun[s].day + lastRun[s].every

SpaceInv ==
    /\ \A w \in Workers, id \in Ids, s \in Schedules : RunFits(w, id, s)
    /\ RunsAreSpaced

\* A worker gets to these phases by its own steps only.
LEMMA PhaseChange ==
    ASSUME WorkInv, Next, NEW w \in Workers, worker'[w] # worker[w],
           worker'[w].at \in {"ran", "moved"}
    PROVE  CreateRun(w) \/ SetWhenToRun(w)
<1>1. worker \in [Workers -> WorkerState]
  BY DEF WorkInv, Tables
<1>2. PICK v \in Workers : (\E id \in Ids : Start(v, id)) \/ PopOff(v) \/ Crash(v)
  BY WhoSteps
<1>3. v = w
  BY <1>1, <1>2 DEF Start, PopOff, CreateRun, SetWhenToRun, ScheduleNextTest, Raise,
     Finish, Retry, Crash, At
<1>4. CASE \E id \in Ids : Start(w, id)
  BY <1>1, <1>4 DEF Start
<1>5. CASE ScheduleNextTest(w)
  BY <1>5, AtType DEF ScheduleNextTest
<1>6. CASE Raise(w)
  BY <1>6, AtType DEF Raise
<1>7. CASE Finish(w) \/ Retry(w) \/ Crash(w)
  BY <1>1, <1>7 DEF Finish, Retry, Crash, Idle
<1> QED BY <1>2, <1>3, <1>4, <1>5, <1>6, <1>7 DEF PopOff

\* A job that is held keeps its schedule.
LEMMA HeldKept ==
    ASSUME WorkInv, Next, Rakes = {}, MaxCrashes = 0,
           NEW id \in Ids, jobs[id] # NoRow, jobs'[id] # NoRow
    PROVE  jobs'[id].sched = jobs[id].sched
BY QuietEffect DEF Queues, Kept

\* Only the one loop of a schedule runs it.
LEMMA RunByLoop ==
    ASSUME WorkInv, LoopInv, Next, NEW s \in Schedules, lastRun'[s] # lastRun[s]
    PROVE  \E w \in Workers :
              /\ CreateRun(w) /\ worker[w].at = "loaded"
              /\ worker[w].job \in Ids /\ jobs[worker[w].job].sched = s
              /\ jobs[worker[w].job].locked
              /\ \A id \in Loops(s) : id = worker[w].job
<1>1. PICK w \in Workers : CreateRun(w) /\ jobs[worker[w].job].sched = s
  BY RunsChange
<1>2. worker[w].at = "loaded"
  BY <1>1 DEF CreateRun
<1>3. worker[w].job \in Loops(s)
  BY <1>1, <1>2, HeldIsLoop
<1>4. worker[w].job \in Ids /\ jobs[worker[w].job].locked
  BY <1>2 DEF WorkInv, HoldsItsJob, Holds
<1> QED BY <1>1, <1>2, <1>3, <1>4 DEF LoopInv

LEMMA FitsStep ==
    ASSUME WorkInv, WorkInv', LoopInv, SpaceInv, Next, Rakes = {}, MaxCrashes = 0,
           NEW w \in Workers, NEW id \in Ids, NEW s \in Schedules,
           worker'[w].job = id, jobs'[id].sched = s, worker'[w].at \in {"ran", "moved"}
    PROVE  RunFits(w, id, s)'
<1>1. clock \in Nat /\ clock' \in Nat /\ clock <= clock'
  <2>1. clock \in Nat
    BY BoundAssumption DEF WorkInv, Bounds
  <2>2. clock' = clock \/ clock' = clock + 1
    BY WhoSteps
  <2> QED BY <2>1, <2>2
<1>2. jobs'[id] # NoRow
  BY DEF WorkInv, HoldsItsJob, Holds
<1>3. lastRun \in [Schedules -> Run \cup {NoRow}] /\ worker \in [Workers -> WorkerState]
  BY DEF WorkInv, Tables
<1>4. CASE worker'[w] = worker[w]
  <2>1. worker[w].at \in {"ran", "moved"} /\ worker[w].job = id
    BY <1>4
  <2>2. jobs[id] # NoRow /\ jobs[id].sched = s
    BY <1>2, <2>1, HeldRow, HeldKept
  <2>3. lastRun'[s] = lastRun[s]
    <3> SUFFICES ASSUME lastRun'[s] # lastRun[s] PROVE FALSE
      OBVIOUS
    <3>1. PICK v \in Workers :
              /\ worker[v].at = "loaded"
              /\ \A other \in Loops(s) : other = worker[v].job
      BY RunByLoop
    <3>2. id \in Loops(s)
      BY <2>1, <2>2, HeldIsLoop
    <3>3. v # w /\ worker[v].job = worker[w].job
      BY <2>1, <3>1, <3>2
    <3> QED BY <2>1, <3>1, <3>3 DEF WorkInv, HoldsItsJob, Holds
  <2>4. RunFits(w, id, s)
    BY DEF SpaceInv
  <2>5. lastRun[s] # NoRow => lastRun[s].day \in Nat
    BY <1>3 DEF Run
  <2> QED BY <1>1, <1>4, <2>1, <2>2, <2>3, <2>4, <2>5 DEF RunFits
<1>5. CASE CreateRun(w)
  <2> DEFINE phase == IF worker[w].row.recurring = Once THEN "done" ELSE "ran"
             run == [day |-> clock, every |-> worker[w].row.recurring]
  <2>1. /\ worker[w].at = "loaded" /\ At(w, phase) /\ jobs' = jobs
        /\ lastRun' = [lastRun EXCEPT ![jobs[worker[w].job].sched] = run]
        /\ phase \in {"done", "ran"}
    BY <1>5 DEF CreateRun
  <2>2. worker[w].row \in Row /\ worker[w].row.recurring \in Recurrences \cup {Once}
    BY <2>1, HeldRow
  <2>3. run \in Run /\ run.day = clock /\ run.every = worker[w].row.recurring
    BY <1>1, <2>2 DEF Run
  <2> HIDE DEF run, phase
  <2>4. worker'[w].job = worker[w].job /\ worker'[w].row = worker[w].row /\ worker'[w].at = phase
    BY <2>1, AtType
  <2>5. lastRun'[s] = run /\ run # NoRow
    BY <1>3, <2>1, <2>3, <2>4, NoRowAssumption
  <2>6. worker'[w].at = "ran"
    BY <2>1, <2>4
  <2> QED BY <1>1, <2>3, <2>4, <2>5, <2>6 DEF RunFits
<1>6. CASE SetWhenToRun(w)
  <2> DEFINE date == clock + worker[w].row.recurring
  <2>1. /\ worker[w].at = "ran" /\ jobs' = jobs /\ lastRun' = lastRun
        /\ worker' = [worker EXCEPT ![w] =
              [job |-> worker[w].job, at |-> "moved",
               row |-> [next |-> date, recurring |-> worker[w].row.recurring]]]
    BY <1>6 DEF SetWhenToRun
  <2>2. worker'[w].job = worker[w].job /\ worker'[w].at = "moved" /\ worker'[w].row.next = date
    BY <1>3, <2>1
  <2>3. /\ lastRun[s] # NoRow /\ lastRun[s].day <= clock
        /\ lastRun[s].every = worker[w].row.recurring
    BY <2>1, <2>2 DEF SpaceInv, RunFits
  <2>4. lastRun[s].day \in Nat /\ lastRun[s].every \in Recurrences \cup {0}
    BY <1>3, <2>3 DEF Run
  <2>5. \A n \in Recurrences \cup {0} : n \in Nat
    BY RecurrenceAssumption
  <2>6. date >= lastRun[s].day + lastRun[s].every
    BY <1>1, <2>3, <2>4, <2>5
  <2> HIDE DEF date
  <2> QED BY <2>1, <2>2, <2>3, <2>6 DEF RunFits
<1> QED BY <1>4, <1>5, <1>6, PhaseChange

LEMMA SpaceStep ==
    ASSUME WorkInv, WorkInv', LoopInv, SpaceInv, Next, Rakes = {}, MaxCrashes = 0
    PROVE  SpaceInv'
<1>1. ASSUME NEW w \in Workers, NEW id \in Ids, NEW s \in Schedules
      PROVE  RunFits(w, id, s)'
  BY FitsStep DEF RunFits
<1>2. ASSUME NEW s \in Schedules, NEW id \in Ids, jobs'[id] # NoRow, jobs'[id].sched = s,
             lastRun'[s] # NoRow, jobs'[id].attempts = 0, ~jobs'[id].locked
      PROVE  jobs'[id].runAt >= lastRun'[s].day + lastRun'[s].every
  <2>1. CASE lastRun'[s] # lastRun[s]
    <3>1. PICK w \in Workers :
              /\ CreateRun(w) /\ jobs[worker[w].job].locked
              /\ \A other \in Loops(s) : other = worker[w].job
      BY <2>1, RunByLoop
    <3>2. jobs' = jobs
      BY <3>1 DEF CreateRun
    <3>3. ~Done(id)
      BY <1>2, <3>2 DEF Done, WorkInv, HoldsItsJob, Holds
    <3>4. id \in Loops(s)
      BY <1>2, <3>2, <3>3, LoopMembers
    <3> QED BY <1>2, <3>1, <3>2, <3>4
  <2>2. CASE lastRun'[s] = lastRun[s] /\ Kept(id)
    <3>1. jobs'[id] = jobs[id] /\ jobs[id] # NoRow
      BY <1>2, <2>2 DEF Kept
    <3>2. id \in JobsOf(s)
      BY <1>2, <3>1 DEF JobsOf, Queued
    <3> QED BY <1>2, <2>2, <3>1, <3>2 DEF SpaceInv, RunsAreSpaced
  <2>3. ASSUME lastRun'[s] = lastRun[s], NEW t \in Schedules, NEW row \in Row, NEW new \in Ids,
               Create(t, row), Queues(new, t, row.next), ~Kept(id)
        PROVE  FALSE
    <3>1. id = new /\ s = t
      BY <1>2, <2>3 DEF Queues
    <3>2. lastRun[s] = NoRow
      BY <2>3, <3>1 DEF Create, LoopInv
    <3> QED BY <1>2, <2>3, <3>2
  <2>4. ASSUME lastRun'[s] = lastRun[s], NEW w \in Workers, NEW old \in Ids, NEW new \in Ids,
               NEW t \in Schedules, ScheduleNextTest(w), old = worker[w].job,
               t = jobs[old].sched, Queues(new, t, worker[w].row.next), ~Kept(id)
        PROVE  jobs'[id].runAt >= lastRun'[s].day + lastRun'[s].every
    <3>1. id = new /\ s = t /\ jobs'[id].runAt = worker[w].row.next
      BY <1>2, <2>4 DEF Queues
    <3>2. worker[w].row.next >= lastRun[s].day + lastRun[s].every
      BY <2>4, <3>1 DEF ScheduleNextTest, SpaceInv, RunFits
    <3> QED BY <2>4, <3>1, <3>2
  <2> QED BY <2>1, <2>2, <2>3, <2>4, QuietEffect
<1>3. RunsAreSpaced'
  BY <1>2 DEF RunsAreSpaced, JobsOf, Queued
<1> QED BY <1>1, <1>3 DEF SpaceInv

(* A job that was not tried yet is due a recurrence after the last run of its *)
(* schedule, if no worker dies and rake does not run.                         *)
THEOREM RunsSpaced ==
    ASSUME Rakes = {}, MaxCrashes = 0
    PROVE  Spec => []RunsAreSpaced
<1>1. Init => SpaceInv
  BY DEF Init, SpaceInv, RunFits, RunsAreSpaced, Idle, JobsOf, Queued
<1>2. WorkInv /\ LoopInv /\ [Next]_vars => LoopInv'
  <2>1. CASE WorkInv /\ LoopInv /\ Next
    BY <2>1, LoopStep
  <2>2. CASE LoopInv /\ UNCHANGED vars
    BY <2>2 DEF LoopInv, Loops, JobsOf, Queued, vars, users
  <2> QED BY <2>1, <2>2
<1>3. WorkInv /\ WorkInv' /\ LoopInv /\ SpaceInv /\ [Next]_vars => SpaceInv'
  <2>1. CASE WorkInv /\ WorkInv' /\ LoopInv /\ SpaceInv /\ Next
    BY <2>1, SpaceStep
  <2>2. CASE SpaceInv /\ UNCHANGED vars
    BY <2>2 DEF SpaceInv, RunFits, RunsAreSpaced, JobsOf, Queued, vars, users
  <2> QED BY <2>1, <2>2
<1>4. SpaceInv => RunsAreSpaced
  BY DEF SpaceInv
<1> QED BY <1>1, <1>2, <1>3, <1>4, LoopInit, WorkInit, WorkStep, PTL DEF Spec

-----------------------------------------------------------------------------
(* How a loop ends, with rake and crashes too. *)

\* Two steps can take the one loop of an existing schedule away.
LEMMA LoopEnd ==
    ASSUME WorkInv, Next, NEW s \in Existing, Loops(s) # {}, Loops(s)' = {}
    PROVE  \E w \in Workers :
              /\ Loops(s) = {worker[w].job}
              /\ \/ worker[w].at = "loaded" /\ worker[w].row.recurring = Once
                 \/ /\ worker[w].at = "raised"
                    /\ jobs[worker[w].job].attempts = MaxAttempts - 1
<1>1. /\ jobs \in [Ids -> Job \cup {NoRow}] /\ worker \in [Workers -> WorkerState]
      /\ s \in Schedules
  BY DEF WorkInv, Tables, Existing
<1>2. /\ Loops(s) = {id \in Ids : jobs[id] # NoRow /\ jobs[id].sched = s /\ ~Done(id)}
      /\ \A id \in Ids : jobs'[id] # NoRow /\ jobs'[id].sched = s => Done(id)'
  BY <1>1, LoopMembers
<1>3. ASSUME UNCHANGED worker, \A id \in Ids : jobs[id] # NoRow => jobs'[id] = jobs[id]
      PROVE  FALSE
  BY <1>2, <1>3 DEF Done
<1>4. ASSUME NEW w \in Workers, \A v \in Workers \ {w} : worker'[v] = worker[v],
             \A id \in Ids \ {worker[w].job} : jobs'[id] = jobs[id],
             worker'[w].job = worker[w].job \/ worker'[w].at # "done"
      PROVE  Loops(s) = {worker[w].job}
  <2>1. \A id \in Ids \ {worker[w].job} : Done(id)' => Done(id)
    BY <1>4 DEF Done
  <2>2. \A id \in Loops(s) : id = worker[w].job
    BY <1>2, <1>4, <2>1
  <2> QED BY <2>2
<1>5. ASSUME NEW w \in Workers, NEW id \in Ids, Start(w, id) PROVE FALSE
  <2>1. /\ worker[w].at = "idle" /\ jobs[id] # NoRow /\ ~jobs[id].locked
        /\ \A other \in Ids : Done(other)' => Done(other)
    BY <1>1, <1>5 DEF Start, Queued, Done
  <2>2. CASE jobs[id].sched \in Existing
    <3>1. jobs' = [jobs EXCEPT ![id].locked = TRUE]
      BY <1>5, <2>2 DEF Start
    <3>2. \A other \in Ids : jobs[other] # NoRow =>
             jobs'[other] # NoRow /\ jobs'[other].sched = jobs[other].sched
      BY <1>1, <2>1, <3>1, LockType
    <3> QED BY <1>2, <2>1, <3>2
  <2>3. CASE jobs[id].sched \notin Existing
    <3>1. \A other \in Ids \ {id} : jobs'[other] = jobs[other]
      BY <1>1, <1>5, <2>3 DEF Start
    <3> QED BY <1>2, <2>1, <2>3, <3>1
  <2> QED BY <2>2, <2>3
<1>6. ASSUME NEW w \in Workers, CreateRun(w)
      PROVE  Loops(s) = {worker[w].job} /\ worker[w].at = "loaded"
             /\ worker[w].row.recurring = Once
  <2> DEFINE phase == IF worker[w].row.recurring = Once THEN "done" ELSE "ran"
  <2>1. worker[w].at = "loaded" /\ jobs' = jobs /\ At(w, phase) /\ phase \in {"done", "ran"}
    BY <1>6 DEF CreateRun
  <2>2. /\ worker'[w].job = worker[w].job /\ worker'[w].at = phase
        /\ \A v \in Workers \ {w} : worker'[v] = worker[v]
    <3> HIDE DEF phase
    <3> QED BY <2>1, AtType
  <2>3. Loops(s) = {worker[w].job}
    BY <1>4, <2>1, <2>2
  <2>4. phase = "done"
    <3> SUFFICES ASSUME phase = "ran" PROVE FALSE
      BY <2>1
    <3>1. \A id \in Ids : Done(id)' => Done(id)
      BY <2>2 DEF Done
    <3> QED BY <1>2, <2>1, <3>1
  <2> QED BY <2>1, <2>3, <2>4
<1>7. ASSUME NEW w \in Workers, SetWhenToRun(w) \/ Raise(w) PROVE FALSE
  <2>1. jobs' = jobs /\ \A v \in Workers \ {w} : worker'[v] = worker[v]
    BY <1>1, <1>7 DEF SetWhenToRun, Raise, At
  <2>2. worker'[w].at # "done"
    BY <1>1, <1>7, AtType DEF SetWhenToRun, Raise
  <2>3. \A id \in Ids : Done(id)' => Done(id)
    BY <2>1, <2>2 DEF Done
  <2> QED BY <1>2, <2>1, <2>3
<1>8. ASSUME NEW w \in Workers, ScheduleNextTest(w) PROVE FALSE
  <2>1. worker[w].at = "moved" /\ At(w, "done")
        /\ Enqueue(jobs[worker[w].job].sched, worker[w].row.next)
    BY <1>8 DEF ScheduleNextTest
  <2>2. jobs[worker[w].job].sched \in Schedules /\ worker[w].row.next \in Int
        /\ worker[w].job \in Ids /\ jobs[worker[w].job] # NoRow
    BY <2>1, HeldRow
  <2>3. PICK id \in Ids :
              /\ jobs[id] = NoRow
              /\ jobs' = [jobs EXCEPT ![id] =
                    [sched |-> jobs[worker[w].job].sched, runAt |-> worker[w].row.next,
                     attempts |-> 0, locked |-> FALSE]]
              /\ [sched |-> jobs[worker[w].job].sched, runAt |-> worker[w].row.next,
                  attempts |-> 0, locked |-> FALSE] \in Job
    BY <1>1, <2>1, <2>2, EnqueueRow
  <2>4. /\ worker'[w].job = worker[w].job /\ worker'[w].at = "done"
        /\ \A v \in Workers \ {w} : worker'[v] = worker[v]
    BY <2>1, AtType
  <2>5. \A other \in Ids : other # worker[w].job /\ Done(other)' => Done(other)
    BY <2>4 DEF Done
  <2>6. ~Done(id)
    BY <2>3 DEF Done, WorkInv, HoldsItsJob, Holds
  <2>7. jobs'[id] # NoRow /\ jobs'[id].sched = jobs[worker[w].job].sched
    BY <1>1, <2>3, NoRowAssumption
  <2>8. jobs[worker[w].job].sched # s
    BY <1>2, <2>2, <2>3, <2>5, <2>6, <2>7
  <2>9. \A other \in Loops(s) : other # id /\ other # worker[w].job /\ jobs'[other] = jobs[other]
    BY <1>1, <1>2, <2>3, <2>8
  <2> QED BY <1>2, <2>5, <2>9
<1>9. ASSUME NEW w \in Workers, Finish(w) PROVE FALSE
  <2>1. /\ worker[w].at = "done" /\ worker' = [worker EXCEPT ![w] = Idle]
        /\ jobs' = [jobs EXCEPT ![worker[w].job] = NoRow]
    BY <1>9 DEF Finish
  <2>2. worker[w].job \in Ids /\ Done(worker[w].job)
    BY <2>1 DEF WorkInv, HoldsItsJob, Holds, Done
  <2>3. worker'[w].at # "done" /\ \A v \in Workers \ {w} : worker'[v] = worker[v]
    BY <1>1, <2>1 DEF Idle
  <2>4. \A id \in Ids \ {worker[w].job} : jobs'[id] = jobs[id]
    BY <1>1, <2>1
  <2>5. Loops(s) = {worker[w].job}
    BY <1>4, <2>3, <2>4
  <2> QED BY <1>2, <2>2, <2>5
<1>10. ASSUME NEW w \in Workers, Retry(w)
       PROVE  /\ Loops(s) = {worker[w].job} /\ worker[w].at = "raised"
              /\ jobs[worker[w].job].attempts = MaxAttempts - 1
  <2>1. worker[w].at = "raised" /\ worker' = [worker EXCEPT ![w] = Idle]
    BY <1>10 DEF Retry
  <2>2. worker[w].job \in Ids /\ jobs[worker[w].job] # NoRow /\ jobs[worker[w].job] \in Job
    BY <2>1, HeldRow
  <2>3. worker'[w].at # "done" /\ \A v \in Workers \ {w} : worker'[v] = worker[v]
    BY <1>1, <2>1 DEF Idle
  <2>4. /\ \A id \in Ids \ {worker[w].job} : jobs'[id] = jobs[id]
        /\ jobs'[worker[w].job] # NoRow =>
             jobs'[worker[w].job].sched = jobs[worker[w].job].sched
    BY <1>1, <1>10, <2>2, RetryType
  <2>5. Loops(s) = {worker[w].job}
    BY <1>4, <2>3, <2>4
  <2>6. \A id \in Ids : Done(id)' => Done(id)
    BY <2>3 DEF Done
  <2>7. jobs'[worker[w].job] = NoRow
    BY <1>2, <2>2, <2>4, <2>5, <2>6
  <2>8. ~(jobs[worker[w].job].attempts + 1 < MaxAttempts)
    <3> DEFINE job == jobs[worker[w].job]
               new == [sched |-> job.sched, runAt |-> job.runAt,
                       attempts |-> job.attempts + 1, locked |-> FALSE]
    <3> SUFFICES ASSUME job.attempts + 1 < MaxAttempts PROVE FALSE
      OBVIOUS
    <3>1. new \in Job
      BY <2>2, BoundAssumption DEF Job
    <3>2. jobs' = [jobs EXCEPT ![worker[w].job] = new]
      BY <1>10 DEF Retry
    <3> HIDE DEF new
    <3> QED BY <1>1, <2>2, <2>7, <3>1, <3>2, NoRowAssumption
  <2> QED BY <2>1, <2>2, <2>5, <2>8, BoundAssumption DEF Job
<1>11. ASSUME NEW w \in Workers, Crash(w) PROVE FALSE
  <2>1. /\ worker[w].at # "idle" /\ worker' = [worker EXCEPT ![w] = Idle]
        /\ jobs' = [jobs EXCEPT ![worker[w].job].locked = FALSE]
    BY <1>11 DEF Crash
  <2>2. worker[w].job \in Ids /\ jobs[worker[w].job] # NoRow
    BY <2>1, HeldRow
  <2>3. \A id \in Ids : jobs[id] # NoRow =>
           jobs'[id] # NoRow /\ jobs'[id].sched = jobs[id].sched
    BY <1>1, <2>1, <2>2, LockType
  <2>4. \A id \in Ids : Done(id)' => Done(id)
    BY <1>1, <2>1 DEF Done, Idle
  <2> QED BY <1>2, <2>3, <2>4
<1>12. ASSUME NEW r \in Rakes, Guard(r) \/ RakeStep(r) PROVE FALSE
  <2>1. UNCHANGED worker
    BY <1>12 DEF Guard, RakeStep, ResetRunTime, LoadNotRun, LoadOutstanding, Schedule, EndRake
  <2>2. \A id \in Ids : jobs[id] # NoRow => jobs'[id] = jobs[id]
    BY <1>1, <1>12 DEF Guard, RakeStep, ResetRunTime, LoadNotRun, LoadOutstanding,
       Schedule, EndRake, Enqueue
  <2> QED BY <1>3, <2>1, <2>2
<1>13. ASSUME NEW t \in Schedules, NEW row,
              Create(t, row) \/ Edit(t, row) \/ Destroy(t) \/ BreakEnvironment(t)
       PROVE  FALSE
  BY <1>1, <1>3, <1>13 DEF Create, Edit, Destroy, BreakEnvironment, Enqueue
<1>14. ~Tick
  BY <1>3 DEF Tick
<1>15. CASE \E w \in Workers : (\E id \in Ids : Start(w, id)) \/ PopOff(w) \/ Crash(w)
  BY <1>5, <1>6, <1>7, <1>8, <1>9, <1>10, <1>11, <1>15 DEF PopOff
<1> QED BY <1>12, <1>13, <1>14, <1>15 DEF Next

(* However many workers, rakes and crashes there are, the loop of a schedule  *)
(* ends where its job found it not to recur or was given up.                  *)
THEOREM LoopsEndByAttempts == Spec => LoopEndsOnlyByAttempts
<1>1. WorkInv /\ [Next]_vars =>
        [\A s \in Existing : Loops(s) # {} /\ Loops(s)' = {} =>
           \E w \in Workers :
              /\ Loops(s) = {worker[w].job}
              /\ \/ worker[w].at = "loaded" /\ worker[w].row.recurring = Once
                 \/ /\ worker[w].at = "raised"
                    /\ jobs[worker[w].job].attempts = MaxAttempts - 1]_vars
  BY LoopEnd
<1> QED BY <1>1, WorkInit, WorkStep, PTL DEF Spec, LoopEndsOnlyByAttempts

-----------------------------------------------------------------------------
(* What rake leaves behind. *)

\* The date of a recurring schedule is one that users may set.
Fits(s) == sched[s].recurring # Once => sched[s].next >= clock - Slack

\* While rake corrects dates, the recurring schedules that have a missed one are
\* on the list it works through.
CorrectedInv ==
    \A r \in Rakes, s \in Existing :
        /\ rake[r].at = "recurring" /\ s \notin rake[r].todo => Fits(s)
        /\ rake[r].at = "notRun" => Fits(s)

\* A step other than the clock's gives a schedule a date of today or later, or
\* one that a user may set, or leaves it as it was.
LEMMA DatesFit ==
    ASSUME WorkInv, Next, ~Tick, NEW s \in Existing'
    PROVE  /\ clock' = clock
           /\ Fits(s)' \/ (s \in Existing /\ sched'[s] = sched[s])
<1>1. /\ clock \in Nat /\ Slack \in Nat /\ sched \in [Schedules -> Row \cup {NoRow}]
      /\ s \in Schedules /\ sched'[s] # NoRow
  BY BoundAssumption DEF WorkInv, Tables, Bounds, Existing
<1>2. clock' = clock
  BY WhoSteps
<1>3. ASSUME sched' = sched
      PROVE  Fits(s)' \/ (s \in Existing /\ sched'[s] = sched[s])
  BY <1>1, <1>3 DEF Existing
<1>4. ASSUME NEW t \in Schedules, NEW next \in ValidDates, NEW n \in Recurrences \cup {Once},
             sched' = [sched EXCEPT ![t] = [next |-> next, recurring |-> n]]
      PROVE  Fits(s)' \/ (s \in Existing /\ sched'[s] = sched[s])
  BY <1>1, <1>2, <1>4 DEF ValidDates, Fits, Existing
<1>5. ASSUME NEW t \in Schedules, sched' = [sched EXCEPT ![t] = NoRow]
      PROVE  Fits(s)' \/ (s \in Existing /\ sched'[s] = sched[s])
  BY <1>1, <1>5 DEF Existing
<1>6. ASSUME NEW t \in Existing, NEW date \in Int, date >= clock,
             sched' = [sched EXCEPT ![t].next = date]
      PROVE  Fits(s)' \/ (s \in Existing /\ sched'[s] = sched[s])
  <2>1. t \in Schedules /\ sched[t] \in Row
    BY <1>1 DEF Existing
  <2>2. CASE s = t
    BY <1>1, <1>2, <1>6, <2>1, <2>2 DEF Fits, Row
  <2>3. CASE s # t
    BY <1>1, <1>6, <2>3 DEF Existing
  <2> QED BY <2>2, <2>3
<1>7. ASSUME NEW w \in Workers, SetWhenToRun(w)
      PROVE  Fits(s)' \/ (s \in Existing /\ sched'[s] = sched[s])
  <2> DEFINE t == jobs[worker[w].job].sched
             date == clock + worker[w].row.recurring
  <2>1. worker[w].at = "ran" /\ sched' = IF t \in Existing
                                         THEN [sched EXCEPT ![t].next = date] ELSE sched
    BY <1>7 DEF SetWhenToRun
  <2>2. worker[w].row \in Row
    BY <2>1 DEF WorkInv, HoldsItsJob, Holds
  <2>3. worker[w].row.recurring \in Nat
    <3>1. \A n \in Recurrences \cup {0} : n \in Nat
      BY RecurrenceAssumption
    <3>2. worker[w].row.recurring \in Recurrences \cup {0}
      BY <2>2 DEF Row
    <3> QED BY <3>1, <3>2
  <2>4. date \in Int /\ date >= clock
    BY <1>1, <2>3
  <2> HIDE DEF t, date
  <2> QED BY <1>3, <1>6, <2>1, <2>4
<1>8. ASSUME NEW r \in Rakes, NEW t \in Schedules, ResetRunTime(r, t)
      PROVE  Fits(s)' \/ (s \in Existing /\ sched'[s] = sched[s])
  BY <1>1, <1>3, <1>6, <1>8 DEF ResetRunTime
<1> QED
  BY <1>2, <1>3, <1>4, <1>5, <1>7, <1>8 DEF Next, Create, Edit, Destroy, BreakEnvironment,
     Start, PopOff, CreateRun, ScheduleNextTest, Raise, Finish, Retry, Crash, Guard,
     RakeStep, LoadNotRun, LoadOutstanding, EndRake, Schedule, users

\* Rake takes all missed schedules on its list and takes one off it with its
\* date corrected.
LEMMA CorrectedStep == WorkInv /\ CorrectedInv /\ [Next]_vars => CorrectedInv'
<1> SUFFICES ASSUME WorkInv, CorrectedInv, [Next]_vars PROVE CorrectedInv'
  OBVIOUS
<1>0. CASE UNCHANGED vars
  BY <1>0 DEF vars, users, CorrectedInv, Fits, Existing
<1>1. CASE Tick
  <2>1. UNCHANGED rake /\ \A r \in Rakes : rake[r].at \notin {"recurring", "notRun"}
    BY <1>1 DEF Tick
  <2> QED BY <2>1 DEF CorrectedInv
<1>2. CASE Next /\ ~Tick
  <2> SUFFICES ASSUME NEW r \in Rakes, NEW s \in Existing', ~Fits(s)',
                      rake'[r].at \in {"recurring", "notRun"}
               PROVE  rake'[r].at = "recurring" /\ s \in rake'[r].todo
    BY DEF CorrectedInv
  <2>1. /\ clock' = clock /\ s \in Existing /\ sched'[s] = sched[s] /\ ~Fits(s)
        /\ rake \in [Rakes -> RakeState] /\ clock \in Nat /\ Slack \in Nat
        /\ sched \in [Schedules -> Row \cup {NoRow}] /\ sched[s] \in Row /\ s \in Schedules
    BY <1>2, DatesFit, BoundAssumption DEF Fits, WorkInv, Tables, Bounds, Existing
  <2>2. CASE rake'[r] = rake[r]
    BY <2>1, <2>2 DEF CorrectedInv
  <2>3. CASE Guard(r)
    <3>1. s \in OutOfOrder
      BY <2>1 DEF Fits, OutOfOrder, Missed, Row
    <3> QED BY <2>1, <2>3, <3>1 DEF Guard, Phase
  <2>4. CASE LoadNotRun(r)
    BY <2>1, <2>4 DEF LoadNotRun, NoTodo, Phase, CorrectedInv
  <2>5. ASSUME NEW t \in Schedules, ResetRunTime(r, t)
        PROVE  rake'[r].at = "recurring" /\ s \in rake'[r].todo
    <3>1. t \notin broken /\ rake'[r] = [at |-> rake[r].at, todo |-> rake[r].todo \ {t}]
      BY <2>1, <2>5 DEF ResetRunTime, Phase
    <3>2. rake[r].at = "recurring" /\ s \in rake[r].todo
      BY <2>1, <2>5 DEF CorrectedInv, ResetRunTime
    <3>3. s # t
      <4> SUFFICES ASSUME s = t PROVE FALSE
        OBVIOUS
      <4>1. sched' = [sched EXCEPT ![s].next = clock]
        BY <2>1, <2>5, <3>1 DEF ResetRunTime
      <4>2. sched[s].next = clock
        BY <2>1, <4>1 DEF Row
      <4> QED BY <2>1, <4>2 DEF Fits
    <3> QED BY <3>1, <3>2, <3>3
  <2>6. CASE \E q \in Rakes : q # r /\ (Guard(q) \/ RakeStep(q))
    BY <2>1, <2>2, <2>6 DEF Guard, RakeStep, LoadNotRun, LoadOutstanding, EndRake,
       ResetRunTime, Schedule, Phase
  <2>7. CASE LoadOutstanding(r) \/ EndRake(r) \/ \E row \in rake[r].todo : Schedule(r, row)
    BY <2>1, <2>7 DEF LoadOutstanding, EndRake, Schedule, Phase
  <2> QED
    BY <1>2, <2>2, <2>3, <2>4, <2>5, <2>6, <2>7, WhoSteps DEF RakeStep
<1> QED BY <1>0, <1>1, <1>2

\* However many rakes, workers and users are at work, every recurring schedule
\* is queued by a rake that gets so far, unless its date is one of the last hour.
THEOREM NoneLeftBehind == Spec => RakeLeavesNoneBehind
<1>1. Init => CorrectedInv
  BY DEF Init, CorrectedInv
<1>2. WorkInv /\ CorrectedInv /\ [Next]_vars =>
        [\A r \in Rakes :
           rake[r].at # "schedule" /\ rake'[r].at = "schedule" =>
             \A s \in Existing : sched[s].recurring # Once =>
               \/ sched[s].next \in clock - Slack .. clock - 1
               \/ \E row \in rake'[r].todo : row.sched = s]_vars
  <2> SUFFICES ASSUME WorkInv, CorrectedInv, Next, NEW r \in Rakes,
                      rake[r].at # "schedule", rake'[r].at = "schedule",
                      NEW s \in Existing, sched[s].recurring # Once,
                      ~(sched[s].next \in clock - Slack .. clock - 1)
               PROVE  \E row \in rake'[r].todo : row.sched = s
    OBVIOUS
  <2>1. /\ rake \in [Rakes -> RakeState] /\ clock \in Nat /\ Slack \in Nat
        /\ sched[s] \in Row
    BY BoundAssumption DEF WorkInv, Tables, Bounds, Existing
  <2>2. LoadOutstanding(r)
    <3>1. PICK q \in Rakes : Guard(q) \/ RakeStep(q)
      BY WhoSteps
    <3>2. q = r
      BY <2>1, <3>1 DEF Guard, RakeStep, LoadNotRun, LoadOutstanding, EndRake,
         ResetRunTime, Schedule, Phase
    <3> QED BY <2>1, <3>1, <3>2 DEF Guard, RakeStep, LoadNotRun, EndRake,
               ResetRunTime, Schedule, Phase
  <2>3. Fits(s)
    BY <2>2 DEF LoadOutstanding, CorrectedInv
  <2>4. s \in Outstanding
    BY <2>1, <2>3 DEF Fits, Outstanding, Row
  <2>5. [sched |-> s, next |-> sched[s].next] \in rake'[r].todo
    BY <2>1, <2>2, <2>4 DEF LoadOutstanding, Phase
  <2> QED BY <2>5
<1> QED BY <1>1, <1>2, CorrectedStep, WorkInit, WorkStep, PTL DEF Spec, RakeLeavesNoneBehind
=============================================================================
