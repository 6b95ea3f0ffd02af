------------------------------ MODULE JobChains ------------------------------
(***************************************************************************)
(* The periodic jobs of lib/tasks: each is a delayed job whose execution   *)
(* queues its successor (handle_asynchronously :queue_next).  A rake task  *)
(* runs the first execution itself, unless a job of its queue exists.      *)
(*                                                                         *)
(* The catalogue syncs queue the successor in an ensure clause, the prune  *)
(* and run jobs only when the work succeeded, and the backup rescues every *)
(* error of its work.  A failed job is retried by delayed_job until it has *)
(* spent its attempts and is then destroyed.  The times at which jobs are  *)
(* due are left out: any waiting job may be the next one to run.           *)
(***************************************************************************)
EXTENDS Integers, FiniteSets

CONSTANTS
    Queues,         \* one queue per kind of job
    Ensured,        \* the queues whose job queues its successor in an ensure
    Rescued,        \* the queues whose work cannot fail
    Workers,        \* the worker processes of all:start
    Serves,         \* worker -> the queues it serves (--queues)
    Rakes,          \* processes that run a rake task
    NoJob,          \* "no delayed job": not a job record
    NoQueue,        \* "no rake task running": not a queue
    MaxAttempts,    \* Delayed::Worker.max_attempts
    MaxJobs,        \* bound: rows of delayed_jobs
    MaxFaults,      \* bound: executions that fail
    MaxCrashes      \* bound: times a worker dies inside a job

Ids == 1..MaxJobs
NoId == 0

ASSUME QueueAssumption == Ensured \subseteq Queues /\ Rescued \subseteq Queues
ASSUME WorkerAssumption == Serves \in [Workers -> SUBSET Queues]
ASSUME BoundAssumption ==
    /\ MaxAttempts \in Nat \ {0}
    /\ MaxJobs \in Nat
    /\ MaxFaults \in Nat
    /\ MaxCrashes \in Nat

Job == [queue : Queues, attempts : 0..MaxAttempts - 1, locked : BOOLEAN]
ASSUME NoJobAssumption == NoJob \notin Job /\ NoQueue \notin Queues

VARIABLES
    jobs,       \* delayed_jobs: id -> its row, NoJob when there is none
    worker,     \* worker -> the id of its job and how far it got with it
    rake,       \* rake process -> the queue whose first execution it runs
    begun,      \* the queues in which rake has ever started a chain
    faults, crashes

vars == <<jobs, worker, rake, begun, faults, crashes>>

JobsOf(q) == {id \in Ids : jobs[id] # NoJob /\ jobs[id].queue = q}

-----------------------------------------------------------------------------
\* a new row of the table, in its first free place
NewJob(q) ==
    \E id \in Ids :
        /\ jobs[id] = NoJob /\ \A other \in 1..(id - 1) : jobs[other] # NoJob
        /\ jobs' = [jobs EXCEPT ![id] =
                      [queue |-> q, attempts |-> 0, locked |-> FALSE]]

(* Mutant: a worker takes a row that another one has locked. *)
ReserveLocked(w, id) ==
    /\ worker[w].at = "idle"
    /\ jobs[id] # NoJob /\ jobs[id].queue \in Serves[w]
    /\ jobs' = [jobs EXCEPT ![id].locked = TRUE]
    /\ worker' = [worker EXCEPT ![w] = [job |-> id, at |-> "working"]]
    /\ UNCHANGED <<rake, begun, faults, crashes>>

\* a worker locks a due row of a queue it serves
Reserve(w, id) ==
    /\ worker[w].at = "idle"
    /\ jobs[id] # NoJob /\ ~jobs[id].locked /\ jobs[id].queue \in Serves[w]
    /\ jobs' = [jobs EXCEPT ![id].locked = TRUE]
    /\ worker' = [worker EXCEPT ![w] = [job |-> id, at |-> "working"]]
    /\ UNCHANGED <<rake, begun, faults, crashes>>

\* the work succeeds and queues its successor
Succeed(w) ==
    /\ worker[w].at = "working"
    /\ NewJob(jobs[worker[w].job].queue)
    /\ worker' = [worker EXCEPT ![w].at = "done"]
    /\ UNCHANGED <<rake, begun, faults, crashes>>

(* Mutant: the successor is queued only when the work succeeded. *)
RaisePlain(w) ==
    /\ worker[w].at = "working"
    /\ jobs[worker[w].job].queue \notin Rescued
    /\ faults < MaxFaults /\ faults' = faults + 1
    /\ UNCHANGED jobs
    /\ worker' = [worker EXCEPT ![w].at = "raised"]
    /\ UNCHANGED <<rake, begun, crashes>>
(* Mutant: the successor is queued in any case. *)
RaiseEnsured(w) ==
    /\ worker[w].at = "working"
    /\ jobs[worker[w].job].queue \notin Rescued
    /\ faults < MaxFaults /\ faults' = faults + 1
    /\ NewJob(jobs[worker[w].job].queue)
    /\ worker' = [worker EXCEPT ![w].at = "raised"]
    /\ UNCHANGED <<rake, begun, crashes>>

\* the work raises; the successor is queued all the same in an ensure clause
Raise(w) ==
    /\ worker[w].at = "working"
    /\ jobs[worker[w].job].queue \notin Rescued
    /\ faults < MaxFaults /\ faults' = faults + 1
    /\ IF jobs[worker[w].job].queue \in Ensured
       THEN NewJob(jobs[worker[w].job].queue)
       ELSE UNCHANGED jobs
    /\ worker' = [worker EXCEPT ![w].at = "raised"]
    /\ UNCHANGED <<rake, begun, crashes>>

\* delayed_job destroys the row of a job that returned
Destroy(w) ==
    /\ worker[w].at = "done"
    /\ jobs' = [jobs EXCEPT ![worker[w].job] = NoJob]
    /\ worker' = [worker EXCEPT ![w] = [job |-> NoId, at |-> "idle"]]
    /\ UNCHANGED <<rake, begun, faults, crashes>>

(* Mutant: one attempt too many. *)
RetryOneMore(w) ==
    /\ worker[w].at = "raised"
    /\ LET job == jobs[worker[w].job]
       IN  jobs' = [jobs EXCEPT ![worker[w].job] =
                      IF job.attempts < MaxAttempts
                      THEN [queue |-> job.queue, attempts |-> job.attempts + 1,
                            locked |-> FALSE]
                      ELSE NoJob]
    /\ worker' = [worker EXCEPT ![w] = [job |-> NoId, at |-> "idle"]]
    /\ UNCHANGED <<rake, begun, faults, crashes>>

\* and retries one that raised, until it has spent its attempts
Retry(w) ==
    /\ worker[w].at = "raised"
    /\ LET job == jobs[worker[w].job]
       IN  jobs' = [jobs EXCEPT ![worker[w].job] =
                      IF job.attempts + 1 < MaxAttempts
                      THEN [queue |-> job.queue, attempts |-> job.attempts + 1,
                            locked |-> FALSE]
                      ELSE NoJob]
    /\ worker' = [worker EXCEPT ![w] = [job |-> NoId, at |-> "idle"]]
    /\ UNCHANGED <<rake, begun, faults, crashes>>

\* a worker dies inside a job; its lock expires and the job runs again
Crash(w) ==
    /\ worker[w].at # "idle" /\ crashes < MaxCrashes
    /\ crashes' = crashes + 1
    /\ jobs' = [jobs EXCEPT ![worker[w].job].locked = FALSE]
    /\ worker' = [worker EXCEPT ![w] = [job |-> NoId, at |-> "idle"]]
    /\ UNCHANGED <<rake, begun, faults>>

-----------------------------------------------------------------------------
(* Rake. *)

\* before_sync_actions and the like abort when a job of the queue exists
Guard(r, q) ==
    /\ rake[r] = NoQueue /\ JobsOf(q) = {}
    /\ rake' = [rake EXCEPT ![r] = q]
    /\ UNCHANGED <<jobs, worker, begun, faults, crashes>>

\* the first execution, inside rake; it fails as any other may
RakeWork(r) ==
    /\ rake[r] # NoQueue
    /\ \/ /\ NewJob(rake[r]) /\ begun' = begun \cup {rake[r]}
          /\ UNCHANGED faults
       \/ /\ rake[r] \notin Rescued
          /\ faults < MaxFaults /\ faults' = faults + 1
          /\ IF rake[r] \in Ensured
             THEN NewJob(rake[r]) /\ begun' = begun \cup {rake[r]}
             ELSE UNCHANGED <<jobs, begun>>
    /\ rake' = [rake EXCEPT ![r] = NoQueue]
    /\ UNCHANGED <<worker, crashes>>

-----------------------------------------------------------------------------
Init ==
    /\ jobs = [id \in Ids |-> NoJob]
    /\ worker = [w \in Workers |-> [job |-> NoId, at |-> "idle"]]
    /\ rake = [r \in Rakes |-> NoQueue]
    /\ begun = {}
    /\ faults = 0 /\ crashes = 0

Execute(w) == Succeed(w) \/ Raise(w) \/ Destroy(w) \/ Retry(w)

Next ==
    \/ \E w \in Workers :
          \/ \E id \in Ids : Reserve(w, id)
          \/ Execute(w) \/ Crash(w)
    \/ \E r \in Rakes :
          \/ \E q \in Queues : Guard(r, q)
          \/ RakeWork(r)

Spec == Init /\ [][Next]_vars

-----------------------------------------------------------------------------
(* Properties. *)

\* Rows, workers and rake processes have their types; no row outlives its last
\* attempt.
TypeOK ==
    /\ jobs \in [Ids -> Job \cup {NoJob}]
    /\ worker \in [Workers -> [job : Ids \cup {NoId},
                               at : {"idle", "working", "done", "raised"}]]
    /\ rake \in [Rakes -> Queues \cup {NoQueue}] /\ begun \subseteq Queues
    /\ faults \in 0..MaxFaults /\ crashes \in 0..MaxCrashes

\* A worker that is not idle holds a locked row of a queue it serves, and no
\* two workers execute the same job.
HoldsItsJob ==
    \A w \in Workers :
        worker[w].at # "idle" => 
            /\ worker[w].job # NoId /\ jobs[worker[w].job] # NoJob
            /\ jobs[worker[w].job].locked
            /\ jobs[worker[w].job].queue \in Serves[w]
            /\ \A v \in Workers \ {w} : worker[v].job # worker[w].job

\* Once rake has started a catalogue sync its chain never ends: whatever fails,
\* is retried to death or crashes, a job of its queue is in the table.
EnsuredChainLives ==
    \A q \in begun \cap Ensured : JobsOf(q) # {}

\* The jobs of a queue that are still to run or running, a job that has queued
\* its successor and waits for its row to be destroyed left out.
Chains(q) == {id \in JobsOf(q) :
                ~\E w \in Workers : worker[w].job = id /\ worker[w].at = "done"}

\* Any other chain ends only when its one job fails for the last time it may,
\* wherever its successors are queued and executed meanwhile.
ChainEndsOnlyByAttempts ==
    [][\A q \in Queues : Chains(q) # {} /\ Chains(q)' = {} =>
         /\ q \notin Ensured \cup Rescued
         /\ \E w \in Workers : /\ worker[w].at = "raised"
                               /\ jobs[worker[w].job].attempts = MaxAttempts - 1
                               /\ Chains(q) = {worker[w].job}]_vars

\* A queue has no more chains than rake tasks that may pass their guards at once
\* and workers that died inside a job, whose successor may be queued already: a
\* chain forks by nothing else, not even when its jobs fail and are retried.  A
\* job that queues its successor in an ensure forks by a failure as well.
ForksAreCounted ==
    \A q \in Queues :
        Cardinality(Chains(q)) <=
            Cardinality(Rakes) + crashes + (IF q \in Ensured THEN faults ELSE 0)

\* What sync_actions.rake line 5 says: the job queue is protected, a second
\* chain of the same job is not started.
QueueProtected == \A q \in Queues : Cardinality(Chains(q)) <= 1
=============================================================================
