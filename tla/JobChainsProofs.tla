--------------------------- MODULE JobChainsProofs ---------------------------
(***************************************************************************)
(* Proofs about JobChains, for any queues, workers, rake processes and     *)
(* bounds: the table keeps its types, no two workers execute one job, the  *)
(* chain of a catalogue sync never ends, another one ends by attempts only *)
(* and forks by crashes only.                                              *)
(***************************************************************************)
EXTENDS JobChains, Counting

Finished(w) == worker[w].at \in {"done", "raised"}

\* a job that is still to run, or running and with its successor not queued
Unfinished(id, q) ==
    /\ jobs[id] # NoJob /\ jobs[id].queue = q
    /\ \A w \in Workers : Finished(w) => worker[w].job # id

\* idle workers hold no job; otherwise a lock would not tell that one is held
IdleHoldsNothing ==
    \A w \in Workers : worker[w].at = "idle" => worker[w].job = NoId

WorkInv == TypeOK /\ HoldsItsJob /\ IdleHoldsNothing

\* Every ensured chain has an unfinished job.  JobsOf(q) # {} alone is not
\* inductive: the only job may be one whose row is about to be destroyed.
ChainInv ==
    \A q \in begun \cap Ensured : \E id \in Ids : Unfinished(id, q)

USE DEF Ids, NoId

\* A queued job is a row in a place that was free.
LEMMA NewJobRow ==
    ASSUME NEW q \in Queues, jobs \in [Ids -> Job \cup {NoJob}], NewJob(q)
    PROVE  /\ jobs' \in [Ids -> Job \cup {NoJob}]
           /\ \E id \in Ids :
                /\ jobs[id] = NoJob /\ jobs'[id] # NoJob /\ jobs'[id].queue = q
                /\ \A other \in Ids \ {id} : jobs'[other] = jobs[other]
<1>1. PICK id \in Ids :
        /\ jobs[id] = NoJob
        /\ jobs' = [jobs EXCEPT ![id] =
                      [queue |-> q, attempts |-> 0, locked |-> FALSE]]
  BY DEF NewJob
<1> DEFINE new == [queue |-> q, attempts |-> 0, locked |-> FALSE]
<1>2. new \in Job
  BY BoundAssumption DEF Job
<1>3. new # NoJob
  BY <1>2, NoJobAssumption
<1>4. jobs' \in [Ids -> Job \cup {NoJob}]
  BY <1>1, <1>2
<1>5. jobs'[id] # NoJob /\ jobs'[id].queue = q
  BY <1>1, <1>3
<1>6. \A other \in Ids \ {id} : jobs'[other] = jobs[other]
  BY <1>1
<1> QED BY <1>1, <1>4, <1>5, <1>6

\* A row whose lock is taken away stays a row.
LEMMA UnlockedIsJob ==
    ASSUME NEW job \in Job
    PROVE  [job EXCEPT !.locked = FALSE] \in Job
BY DEF Job

\* A worker that is not idle holds a row of the table.
LEMMA HeldRow ==
    ASSUME WorkInv, NEW w \in Workers, worker[w].at # "idle"
    PROVE  /\ worker[w].job \in Ids /\ jobs[worker[w].job] \in Job
           /\ jobs[worker[w].job] # NoJob
           /\ jobs[worker[w].job].queue \in Queues
           /\ jobs[worker[w].job].attempts \in 0..MaxAttempts - 1
<1>1. worker[w].job \in Ids
  BY DEF WorkInv, TypeOK, HoldsItsJob
<1>2. jobs[worker[w].job] \in Job
  BY <1>1 DEF WorkInv, TypeOK, HoldsItsJob
<1> QED BY <1>1, <1>2, NoJobAssumption DEF Job

\* Held rows stay held when one worker moves on inside its job and the rows
\* that were there keep their locks and queues.
LEMMA StillHeld ==
    ASSUME WorkInv, NEW w \in Workers, NEW at \in {"done", "raised"},
           worker[w].at # "idle",
           worker' = [worker EXCEPT ![w].at = at],
           \A id \in Ids : jobs[id] # NoJob => jobs'[id] = jobs[id]
    PROVE  HoldsItsJob' /\ IdleHoldsNothing'
<1>1. \A v \in Workers : /\ worker'[v].job = worker[v].job
                         /\ (worker'[v].at # "idle") <=> (worker[v].at # "idle")
  BY DEF WorkInv, TypeOK
<1>2. HoldsItsJob'
  BY <1>1, HeldRow DEF WorkInv, HoldsItsJob
<1> QED BY <1>1, <1>2 DEF WorkInv, IdleHoldsNothing

\* Held rows stay held when one worker lets go of its job and no other row
\* changes.
LEMMA LetsGo ==
    ASSUME WorkInv, NEW w \in Workers, worker[w].at # "idle",
           worker' = [worker EXCEPT ![w] = [job |-> NoId, at |-> "idle"]],
           \A id \in Ids \ {worker[w].job} : jobs'[id] = jobs[id]
    PROVE  HoldsItsJob' /\ IdleHoldsNothing'
<1>1. /\ worker'[w] = [job |-> NoId, at |-> "idle"]
      /\ \A v \in Workers \ {w} : worker'[v] = worker[v]
  BY DEF WorkInv, TypeOK
<1>2. worker'[w].at = "idle" /\ worker'[w].job = NoId
  BY <1>1
<1>3. ASSUME NEW v \in Workers, worker'[v].at # "idle"
      PROVE  /\ worker'[v].job # NoId /\ jobs'[worker'[v].job] # NoJob
             /\ jobs'[worker'[v].job].locked
             /\ jobs'[worker'[v].job].queue \in Serves[v]
             /\ \A u \in Workers \ {v} : worker'[u].job # worker'[v].job
  <2>1. v # w /\ worker'[v] = worker[v] /\ worker[v].at # "idle"
    BY <1>1, <1>2, <1>3
  <2>2. worker[v].job \in Ids \ {worker[w].job}
    BY <2>1, HeldRow DEF WorkInv, HoldsItsJob
  <2>3. jobs'[worker'[v].job] = jobs[worker[v].job]
    BY <2>1, <2>2
  <2>4. \A u \in Workers \ {v} : worker'[u].job # worker'[v].job
    BY <1>1, <1>2, <2>1, <2>2 DEF WorkInv, HoldsItsJob
  <2> QED BY <2>1, <2>2, <2>3, <2>4 DEF WorkInv, HoldsItsJob
<1>4. HoldsItsJob'
  BY <1>3 DEF HoldsItsJob
<1>5. IdleHoldsNothing'
  BY <1>1, <1>2 DEF WorkInv, IdleHoldsNothing
<1> QED BY <1>4, <1>5

-----------------------------------------------------------------------------
(* Every step keeps the types. *)

\* Each action of a worker keeps the types.
LEMMA WorkerTypes ==
    ASSUME WorkInv, NEW w \in Workers,
           (\E id \in Ids : Reserve(w, id)) \/ Execute(w) \/ Crash(w)
    PROVE  TypeOK'
<1> USE BoundAssumption
<1>1. ASSUME NEW id \in Ids, Reserve(w, id) PROVE TypeOK'
  <2>1. jobs[id] \in Job
    BY <1>1 DEF WorkInv, TypeOK, Reserve
  <2>2. [jobs[id] EXCEPT !.locked = TRUE] \in Job
    BY <2>1 DEF Job
  <2> QED BY <1>1, <2>2 DEF WorkInv, TypeOK, Reserve
<1>2. ASSUME Succeed(w) PROVE TypeOK'
  <2>1. jobs' \in [Ids -> Job \cup {NoJob}]
    BY <1>2, HeldRow, NewJobRow DEF WorkInv, TypeOK, Succeed
  <2> QED BY <1>2, <2>1 DEF WorkInv, TypeOK, Succeed
<1>3. ASSUME Raise(w) PROVE TypeOK'
  <2>1. jobs' \in [Ids -> Job \cup {NoJob}]
    BY <1>3, HeldRow, NewJobRow DEF WorkInv, TypeOK, Raise
  <2> QED BY <1>3, <2>1 DEF WorkInv, TypeOK, Raise
<1>4. ASSUME Destroy(w) PROVE TypeOK'
  BY <1>4 DEF WorkInv, TypeOK, Destroy
<1>5. ASSUME Retry(w) PROVE TypeOK'
  <2> DEFINE job == jobs[worker[w].job]
  <2>1. job \in Job /\ job.attempts \in 0..MaxAttempts - 1
    BY <1>5, HeldRow DEF Retry
  <2>2. job.attempts + 1 < MaxAttempts =>
          [queue |-> job.queue, attempts |-> job.attempts + 1, locked |-> FALSE] \in Job
    BY <2>1, HeldRow DEF Job
  <2> QED BY <1>5, <2>2 DEF WorkInv, TypeOK, Retry
<1>6. ASSUME Crash(w) PROVE TypeOK'
  <2>1. jobs[worker[w].job] \in Job
    BY <1>6, HeldRow DEF Crash
  <2>2. [jobs[worker[w].job] EXCEPT !.locked = FALSE] \in Job
    BY <2>1 DEF Job
  <2>3. jobs' \in [Ids -> Job \cup {NoJob}]
    BY <1>6, <2>2 DEF WorkInv, TypeOK, Crash
  <2>4. worker' \in [Workers -> [job : Ids \cup {NoId},
                               at : {"idle", "working", "done", "raised"}]]
    BY <1>6 DEF WorkInv, TypeOK, Crash
  <2>5. crashes' \in 0..MaxCrashes
    BY <1>6 DEF WorkInv, TypeOK, Crash
  <2> QED BY <1>6, <2>3, <2>4, <2>5 DEF WorkInv, TypeOK, Crash
<1> QED BY <1>1, <1>2, <1>3, <1>4, <1>5, <1>6 DEF Execute

\* Each action of rake keeps the types.
LEMMA RakeTypes ==
    ASSUME WorkInv, NEW r \in Rakes,
           (\E q \in Queues : Guard(r, q)) \/ RakeWork(r)
    PROVE  TypeOK'
<1> USE BoundAssumption
<1>1. ASSUME NEW q \in Queues, Guard(r, q) PROVE TypeOK'
  BY <1>1 DEF WorkInv, TypeOK, Guard
<1>2. ASSUME RakeWork(r) PROVE TypeOK'
  <2>1. rake[r] \in Queues
    BY <1>2 DEF WorkInv, TypeOK, RakeWork
  <2>2. jobs' \in [Ids -> Job \cup {NoJob}]
    BY <1>2, <2>1, NewJobRow DEF WorkInv, TypeOK, RakeWork
  <2> QED BY <1>2, <2>1, <2>2 DEF WorkInv, TypeOK, RakeWork
<1> QED BY <1>1, <1>2

-----------------------------------------------------------------------------
(* Every step keeps the locks. *)

\* Each action of a worker keeps the locks.
LEMMA WorkerHolds ==
    ASSUME WorkInv, NEW w \in Workers,
           (\E id \in Ids : Reserve(w, id)) \/ Execute(w) \/ Crash(w)
    PROVE  HoldsItsJob' /\ IdleHoldsNothing'
<1>1. ASSUME NEW id \in Ids, Reserve(w, id)
      PROVE  HoldsItsJob' /\ IdleHoldsNothing'
  <2>1. /\ worker'[w].job = id /\ worker'[w].at = "working"
        /\ \A v \in Workers \ {w} : worker'[v] = worker[v]
    BY <1>1 DEF WorkInv, TypeOK, Reserve
  <2>2. jobs[id] \in Job /\ jobs' = [jobs EXCEPT ![id].locked = TRUE]
    BY <1>1 DEF WorkInv, TypeOK, Reserve
  <2>3. jobs'[id] \in Job /\ jobs'[id].locked /\ jobs'[id].queue = jobs[id].queue
    BY <2>2 DEF Job, WorkInv, TypeOK
  <2>4. \A v \in Workers : worker[v].job # id
    BY <1>1 DEF WorkInv, HoldsItsJob, IdleHoldsNothing, Reserve
  <2>5. \A other \in Ids \ {id} : jobs'[other] = jobs[other]
    BY <2>2 DEF WorkInv, TypeOK
  <2>6. ASSUME NEW v \in Workers, worker'[v].at # "idle"
        PROVE  /\ worker'[v].job # NoId /\ jobs'[worker'[v].job] # NoJob
               /\ jobs'[worker'[v].job].locked
               /\ jobs'[worker'[v].job].queue \in Serves[v]
               /\ \A u \in Workers \ {v} : worker'[u].job # worker'[v].job
    <3>1. CASE v = w
      <4>1. worker'[v].job = id /\ id # NoId
        BY <3>1, <2>1
      <4>2. jobs[id].queue \in Serves[v] /\ jobs'[id] # NoJob
        BY <1>1, <3>1, <2>3, NoJobAssumption DEF Reserve
      <4>3. \A u \in Workers \ {v} : worker'[u].job # id
        BY <3>1, <2>1, <2>4
      <4> QED BY <4>1, <4>2, <4>3, <2>3
    <3>2. CASE v # w
      <4>1. worker'[v] = worker[v] /\ worker[v].job \in Ids \ {id}
        BY <3>2, <2>1, <2>4, <2>6, HeldRow
      <4>2. jobs'[worker'[v].job] = jobs[worker[v].job]
        BY <4>1, <2>5
      <4> QED BY <2>1, <2>4, <2>6, <4>1, <4>2 DEF WorkInv, HoldsItsJob
    <3> QED BY <3>1, <3>2
  <2>7. HoldsItsJob'
    BY <2>6 DEF HoldsItsJob
  <2> QED BY <2>1, <2>7 DEF WorkInv, IdleHoldsNothing
<1>2. ASSUME Succeed(w) \/ Raise(w)
      PROVE  HoldsItsJob' /\ IdleHoldsNothing'
  <2>1. \A id \in Ids : jobs[id] # NoJob => jobs'[id] = jobs[id]
    BY <1>2, HeldRow, NewJobRow DEF WorkInv, TypeOK, Succeed, Raise
  <2> QED BY <1>2, <2>1, StillHeld DEF Succeed, Raise
<1>3. ASSUME Destroy(w) \/ Retry(w) \/ Crash(w)
      PROVE  HoldsItsJob' /\ IdleHoldsNothing'
  <2>1. \A id \in Ids \ {worker[w].job} : jobs'[id] = jobs[id]
    BY <1>3 DEF WorkInv, TypeOK, Destroy, Retry, Crash
  <2> QED BY <1>3, <2>1, LetsGo DEF Destroy, Retry, Crash
<1> QED BY <1>1, <1>2, <1>3 DEF Execute

\* Each action of rake keeps the locks.
LEMMA RakeHolds ==
    ASSUME WorkInv, NEW r \in Rakes,
           (\E q \in Queues : Guard(r, q)) \/ RakeWork(r)
    PROVE  HoldsItsJob' /\ IdleHoldsNothing'
<1>1. \A id \in Ids : jobs[id] # NoJob => jobs'[id] = jobs[id]
  BY NewJobRow DEF WorkInv, TypeOK, Guard, RakeWork
<1>2. worker' = worker
  BY DEF Guard, RakeWork
<1>3. HoldsItsJob'
  BY <1>1, <1>2, HeldRow DEF WorkInv, HoldsItsJob
<1> QED BY <1>2, <1>3 DEF WorkInv, IdleHoldsNothing

\* WorkInv is inductive.
LEMMA WorkStep == WorkInv /\ [Next]_vars => WorkInv'
<1> SUFFICES ASSUME WorkInv, [Next]_vars PROVE WorkInv'
  OBVIOUS
<1>1. CASE UNCHANGED vars
  BY <1>1 DEF vars, WorkInv, TypeOK, HoldsItsJob, IdleHoldsNothing
<1>2. ASSUME NEW w \in Workers,
             (\E id \in Ids : Reserve(w, id)) \/ Execute(w) \/ Crash(w)
      PROVE  WorkInv'
  BY <1>2, WorkerTypes, WorkerHolds DEF WorkInv
<1>3. ASSUME NEW r \in Rakes, (\E q \in Queues : Guard(r, q)) \/ RakeWork(r)
      PROVE  WorkInv'
  BY <1>3, RakeTypes, RakeHolds DEF WorkInv
<1> QED BY <1>1, <1>2, <1>3 DEF Next

\* The empty table satisfies it.
LEMMA WorkInit == Init => WorkInv
  BY BoundAssumption DEF Init, WorkInv, TypeOK, HoldsItsJob, IdleHoldsNothing

\* Rows, workers and rake processes have their types, for any constants.
THEOREM TableTypes == Spec => []TypeOK
<1>1. Spec => []WorkInv
  BY WorkInit, WorkStep, PTL DEF Spec
<1> QED BY <1>1, PTL DEF WorkInv

\* No two workers, of any number, execute the same job.
THEOREM ExclusiveJobs == Spec => []HoldsItsJob
<1>1. Spec => []WorkInv
  BY WorkInit, WorkStep, PTL DEF Spec
<1> QED BY <1>1, PTL DEF WorkInv

-----------------------------------------------------------------------------
(* Every step keeps an unfinished job in every ensured chain. *)

\* A step that adds a job of its queue keeps that queue's chain.
LEMMA SuccessorKeepsChain ==
    ASSUME WorkInv, NEW w \in Workers, NEW at \in {"done", "raised"},
           worker[w].at # "idle", NEW q \in Queues, NewJob(q),
           worker' = [worker EXCEPT ![w].at = at]
    PROVE  \E id \in Ids : Unfinished(id, q)'
<1>1. PICK id \in Ids :
        jobs[id] = NoJob /\ jobs'[id] # NoJob /\ jobs'[id].queue = q
  BY NewJobRow DEF WorkInv, TypeOK
<1>2. \A v \in Workers : worker'[v].job = worker[v].job
  BY DEF WorkInv, TypeOK
<1>3. \A v \in Workers : worker[v].at # "idle" => worker[v].job # id
  BY <1>1 DEF WorkInv, HoldsItsJob
<1>4. \A v \in Workers : worker'[v].at # "idle" => worker[v].at # "idle"
  BY DEF WorkInv, TypeOK
<1>5. \A v \in Workers : Finished(v)' => worker'[v].job # id
  BY <1>2, <1>3, <1>4 DEF Finished
<1> QED BY <1>1, <1>5 DEF Unfinished

\* A job that another worker finishes, or that nobody does, stays unfinished.
LEMMA OtherChainsGoOn ==
    ASSUME WorkInv, NEW w \in Workers, NEW q \in Queues,
           NEW id \in Ids, Unfinished(id, q),
           jobs'[id] # NoJob, jobs'[id].queue = q,
           \A v \in Workers \ {w} : worker'[v] = worker[v],
           Finished(w)' => worker'[w].job # id
    PROVE  Unfinished(id, q)'
  BY DEF Unfinished, Finished

\* ChainInv is inductive relative to WorkInv.
LEMMA ChainStep == WorkInv /\ ChainInv /\ [Next]_vars => ChainInv'
<1> SUFFICES ASSUME WorkInv, ChainInv, [Next]_vars,
                    NEW q \in (begun \cap Ensured)'
             PROVE  \E id \in Ids : Unfinished(id, q)'
  BY DEF ChainInv
<1>q. q \in Ensured /\ q \in Queues
  BY QueueAssumption
<1>1. CASE UNCHANGED vars
  BY <1>1 DEF vars, ChainInv, Unfinished, Finished
<1>2. ASSUME NEW w \in Workers,
             (\E id \in Ids : Reserve(w, id)) \/ Execute(w) \/ Crash(w)
      PROVE  \E id \in Ids : Unfinished(id, q)'
  <2>1. q \in begun
    BY <1>2 DEF Reserve, Execute, Succeed, Raise, Destroy, Retry, Crash
  <2>2. PICK id \in Ids : Unfinished(id, q)
    BY <1>q, <2>1 DEF ChainInv
  <2>3. \A v \in Workers \ {w} : worker'[v] = worker[v]
    BY <1>2 DEF WorkInv, TypeOK, Reserve, Execute, Succeed, Raise, Destroy, Retry, Crash
  <2>4. ASSUME NEW j \in Ids, Reserve(w, j) PROVE Unfinished(id, q)'
    <3>1. ~Finished(w)'
      BY <2>4 DEF WorkInv, TypeOK, Reserve, Finished
    <3>2. jobs[j] \in Job /\ jobs' = [jobs EXCEPT ![j].locked = TRUE]
      BY <2>4 DEF WorkInv, TypeOK, Reserve
    <3>3. jobs'[id] # NoJob /\ jobs'[id].queue = q
      BY <2>2, <3>2, NoJobAssumption DEF WorkInv, TypeOK, Unfinished, Job
    <3> QED BY <1>q, <2>2, <2>3, <3>1, <3>3, OtherChainsGoOn
  <2>5. ASSUME Succeed(w) \/ Raise(w) PROVE \E i \in Ids : Unfinished(i, q)'
    <3>1. CASE jobs[worker[w].job].queue = q
      <4>1. NewJob(q) /\ worker[w].at # "idle"
        BY <1>q, <2>5, <3>1 DEF Succeed, Raise
      <4>2. \E at \in {"done", "raised"} : worker' = [worker EXCEPT ![w].at = at]
        BY <2>5 DEF Succeed, Raise
      <4> QED BY <1>q, <4>1, <4>2, SuccessorKeepsChain
    <3>2. CASE jobs[worker[w].job].queue # q
      <4>1. worker'[w].job # id
        BY <2>2, <2>5, <3>2 DEF Unfinished, Succeed, Raise, WorkInv, TypeOK
      <4>2. jobs'[id] = jobs[id]
        BY <2>2, <2>5, HeldRow, NewJobRow
           DEF WorkInv, TypeOK, Succeed, Raise, Unfinished
      <4>3. Unfinished(id, q)'
        BY <1>q, <2>2, <2>3, <4>1, <4>2, OtherChainsGoOn DEF Unfinished
      <4> QED BY <4>3
    <3> QED BY <3>1, <3>2
  <2>6. ASSUME Destroy(w) \/ Retry(w) PROVE Unfinished(id, q)'
    <3>1. id # worker[w].job
      BY <2>2, <2>6 DEF Unfinished, Finished, Destroy, Retry
    <3>2. jobs'[id] = jobs[id]
      BY <2>6, <3>1 DEF WorkInv, TypeOK, Destroy, Retry
    <3>3. ~Finished(w)'
      BY <2>6 DEF WorkInv, TypeOK, Destroy, Retry, Finished
    <3> QED BY <1>q, <2>2, <2>3, <3>2, <3>3, OtherChainsGoOn DEF Unfinished
  <2>7. ASSUME Crash(w) PROVE Unfinished(id, q)'
    <3>1. ~Finished(w)'
      BY <2>7 DEF WorkInv, TypeOK, Crash, Finished
    <3>2. /\ jobs[worker[w].job] \in Job
          /\ jobs' = [jobs EXCEPT ![worker[w].job].locked = FALSE]
      BY <2>7, HeldRow DEF Crash
    <3>3. jobs'[id] # NoJob /\ jobs'[id].queue = q
      BY <2>2, <3>2, NoJobAssumption DEF WorkInv, TypeOK, Unfinished, Job
    <3> QED BY <1>q, <2>2, <2>3, <3>1, <3>3, OtherChainsGoOn
  <2> QED BY <1>2, <2>4, <2>5, <2>6, <2>7 DEF Execute
<1>3. ASSUME NEW r \in Rakes, (\E p \in Queues : Guard(r, p)) \/ RakeWork(r)
      PROVE  \E id \in Ids : Unfinished(id, q)'
  <2>1. worker' = worker
    BY <1>3 DEF Guard, RakeWork
  <2>2. CASE q \in begun
    <3>1. PICK id \in Ids : Unfinished(id, q)
      BY <1>q, <2>2 DEF ChainInv
    <3>2. jobs'[id] = jobs[id]
      BY <1>3, <3>1, NewJobRow
         DEF WorkInv, TypeOK, Guard, RakeWork, Unfinished
    <3> QED BY <2>1, <3>1, <3>2 DEF Unfinished, Finished
  <2>3. CASE q \notin begun
    <3>1. rake[r] = q /\ NewJob(q)
      BY <1>3, <2>3 DEF Guard, RakeWork
    <3>2. PICK id \in Ids :
            jobs[id] = NoJob /\ jobs'[id] # NoJob /\ jobs'[id].queue = q
      BY <1>q, <3>1, NewJobRow DEF WorkInv, TypeOK
    <3>3. \A w \in Workers : Finished(w) => worker[w].job # id
      BY <3>2 DEF WorkInv, HoldsItsJob, Finished
    <3> QED BY <2>1, <3>2, <3>3 DEF Unfinished, Finished
  <2> QED BY <2>2, <2>3
<1> QED BY <1>1, <1>2, <1>3 DEF Next

\* The chain of a catalogue sync that rake has started never ends, whatever
\* fails, is retried to death or crashes, for any queues, workers and bounds.
THEOREM EnsuredChainsLive == Spec => []EnsuredChainLives
<1>1. Init => ChainInv
  BY DEF Init, ChainInv
<1>2. WorkInv /\ ChainInv => EnsuredChainLives
  BY DEF ChainInv, EnsuredChainLives, JobsOf, Unfinished
<1> QED BY <1>1, <1>2, WorkInit, WorkStep, ChainStep, PTL DEF Spec

-----------------------------------------------------------------------------
(* How chains end. *)

\* Only rake starts chains, and only work that can fail raises.
OriginInv ==
    /\ \A id \in Ids : jobs[id] # NoJob => jobs[id].queue \in begun
    /\ \A w \in Workers : worker[w].at = "raised" => jobs[worker[w].job].queue \notin Rescued

\* A row that a step leaves in the table keeps its queue.
LEMMA QueuesStay ==
    ASSUME WorkInv, WorkInv', NEW w \in Workers,
           (\E id \in Ids : Reserve(w, id)) \/ Destroy(w) \/ Retry(w) \/ Crash(w),
           NEW id \in Ids, jobs'[id] # NoJob
    PROVE  jobs[id] # NoJob /\ jobs'[id].queue = jobs[id].queue
<1>1. ASSUME NEW j \in Ids, Reserve(w, j)
      PROVE  jobs[id] # NoJob /\ jobs'[id].queue = jobs[id].queue
  <2>1. jobs[j] \in Job /\ jobs[j] # NoJob /\ jobs' = [jobs EXCEPT ![j].locked = TRUE]
    BY <1>1 DEF WorkInv, TypeOK, Reserve
  <2> QED BY <2>1 DEF WorkInv, TypeOK, Job
<1>2. CASE Destroy(w)
  <2>1. jobs' = [jobs EXCEPT ![worker[w].job] = NoJob]
    BY <1>2 DEF Destroy
  <2> QED BY <2>1 DEF WorkInv, TypeOK
<1>3. ASSUME Retry(w) \/ Crash(w), id # worker[w].job
      PROVE  jobs[id] # NoJob /\ jobs'[id].queue = jobs[id].queue
  BY <1>3 DEF WorkInv, TypeOK, Retry, Crash
<1>4. CASE Retry(w) /\ id = worker[w].job
  <2>1. jobs[id] # NoJob
    BY <1>4, HeldRow DEF Retry
  <2>2. jobs'[id] = IF jobs[id].attempts + 1 < MaxAttempts
                    THEN [queue |-> jobs[id].queue, attempts |-> jobs[id].attempts + 1,
                          locked |-> FALSE]
                    ELSE NoJob
    BY <1>4 DEF WorkInv, TypeOK, Retry
  <2> QED BY <2>1, <2>2
<1>5. CASE Crash(w) /\ id = worker[w].job
  <2>1. jobs[id] # NoJob /\ jobs[id] \in Job
    BY <1>5, HeldRow DEF Crash
  <2>2. jobs'[id] = [jobs[id] EXCEPT !.locked = FALSE]
    BY <1>5 DEF WorkInv, TypeOK, Crash
  <2> QED BY <2>1, <2>2 DEF Job
<1> QED BY <1>1, <1>2, <1>3, <1>4, <1>5

\* A row is added by work that succeeds or is ensured, or by rake.
LEMMA RowsStay ==
    ASSUME WorkInv, NEW q \in Queues, NewJob(q), NEW id \in Ids, jobs'[id] # NoJob
    PROVE  jobs'[id].queue = q \/ (jobs[id] # NoJob /\ jobs'[id] = jobs[id])
BY NewJobRow DEF WorkInv, TypeOK

LEMMA OriginStep == WorkInv /\ WorkInv' /\ OriginInv /\ [Next]_vars => OriginInv'
<1> SUFFICES ASSUME WorkInv, WorkInv', OriginInv, [Next]_vars PROVE OriginInv'
  OBVIOUS
<1>1. CASE UNCHANGED vars
  BY <1>1 DEF vars, OriginInv
<1>2. ASSUME NEW w \in Workers,
             (\E id \in Ids : Reserve(w, id)) \/ Destroy(w) \/ Retry(w) \/ Crash(w)
      PROVE  OriginInv'
  <2>1. begun' = begun
    BY <1>2 DEF Reserve, Destroy, Retry, Crash
  <2>2. \A id \in Ids : jobs'[id] # NoJob => jobs'[id].queue \in begun'
    BY <1>2, <2>1, QueuesStay DEF OriginInv
  <2>3. ASSUME NEW v \in Workers, worker'[v].at = "raised"
        PROVE  jobs'[worker'[v].job].queue \notin Rescued
    <3>1. worker'[v] = worker[v]
      BY <1>2, <2>3 DEF WorkInv, TypeOK, Reserve, Destroy, Retry, Crash
    <3>2. worker'[v].job \in Ids /\ jobs'[worker'[v].job] # NoJob
      BY <2>3, HeldRow DEF WorkInv, TypeOK, HoldsItsJob
    <3> QED BY <1>2, <2>3, <3>1, <3>2, QueuesStay DEF OriginInv
  <2> QED BY <2>2, <2>3 DEF OriginInv
<1>3. ASSUME NEW w \in Workers, Succeed(w) \/ Raise(w) PROVE OriginInv'
  <2> DEFINE q == jobs[worker[w].job].queue
  <2>1. q \in Queues /\ q \in begun /\ begun' = begun
    BY <1>3, HeldRow DEF OriginInv, Succeed, Raise
  <2>2. NewJob(q) \/ jobs' = jobs
    BY <1>3 DEF Succeed, Raise
  <2> HIDE DEF q
  <2>3. \A id \in Ids : jobs'[id] # NoJob => jobs'[id].queue \in begun'
    BY <2>1, <2>2, RowsStay DEF OriginInv
  <2>4. \A id \in Ids : jobs[id] # NoJob => jobs'[id] = jobs[id]
    BY <2>1, <2>2, NewJobRow DEF WorkInv, TypeOK
  <2>5. ASSUME NEW v \in Workers, worker'[v].at = "raised"
        PROVE  jobs'[worker'[v].job].queue \notin Rescued
    <3>1. /\ worker'[v].job = worker[v].job /\ worker[v].at # "idle"
          /\ worker[v].at = "raised" \/ (v = w /\ Raise(w))
      BY <1>3, <2>5 DEF WorkInv, TypeOK, Succeed, Raise
    <3>2. jobs[worker[v].job].queue \notin Rescued
      BY <3>1 DEF OriginInv, Raise
    <3>3. jobs'[worker[v].job] = jobs[worker[v].job]
      BY <2>4, <3>1, HeldRow
    <3> QED BY <3>1, <3>2, <3>3
  <2> QED BY <2>3, <2>5 DEF OriginInv
<1>4. ASSUME NEW r \in Rakes, (\E q \in Queues : Guard(r, q)) \/ RakeWork(r)
      PROVE  OriginInv'
  <2>1. worker' = worker
    BY <1>4 DEF Guard, RakeWork
  <2>2. \/ jobs' = jobs /\ begun' = begun
        \/ NewJob(rake[r]) /\ begun' = begun \cup {rake[r]} /\ rake[r] \in Queues
    BY <1>4 DEF Guard, RakeWork, WorkInv, TypeOK
  <2>3. \A id \in Ids : jobs'[id] # NoJob => jobs'[id].queue \in begun'
    BY <2>2, RowsStay DEF OriginInv
  <2>4. \A id \in Ids : jobs[id] # NoJob => jobs'[id] = jobs[id]
    BY <2>2, NewJobRow DEF WorkInv, TypeOK
  <2>5. \A v \in Workers : worker[v].at = "raised" =>
           jobs'[worker[v].job] = jobs[worker[v].job]
    BY <2>4, HeldRow
  <2> QED BY <2>1, <2>3, <2>5 DEF OriginInv
<1> QED BY <1>1, <1>2, <1>3, <1>4 DEF Next, Execute

\* A job of a chain stays in it, unless its work succeeds, which queues another
\* one, or its last attempt has failed.
LEMMA LinksStay ==
    ASSUME WorkInv, WorkInv', [Next]_vars, NEW q \in Queues, NEW id \in Chains(q),
           Chains(q)' = {}
    PROVE  \E w \in Workers : Retry(w) /\ worker[w].job = id /\ jobs'[id] = NoJob
<1>0. /\ id \in Ids /\ jobs[id] # NoJob /\ jobs[id].queue = q
      /\ \A w \in Workers : worker[w].job = id => worker[w].at # "done"
  BY DEF Chains, JobsOf
<1>a. ASSUME NEW j \in Ids, jobs'[j] # NoJob, jobs'[j].queue = q,
             \A w \in Workers : worker'[w].job = j => worker'[w].at # "done"
      PROVE  FALSE
  BY <1>a DEF Chains, JobsOf
<1>1. ~UNCHANGED vars
  BY <1>0, <1>a DEF vars
<1>2. ASSUME NEW w \in Workers, NEW j \in Ids, Reserve(w, j) PROVE FALSE
  <2>1. jobs[j] \in Job /\ jobs' = [jobs EXCEPT ![j].locked = TRUE]
    BY <1>2 DEF WorkInv, TypeOK, Reserve
  <2>2. jobs'[id] # NoJob /\ jobs'[id].queue = q
    BY <1>0, <2>1, NoJobAssumption DEF WorkInv, TypeOK, Job
  <2>3. /\ worker'[w].at = "working"
        /\ \A v \in Workers \ {w} : worker'[v] = worker[v]
    BY <1>2 DEF WorkInv, TypeOK, Reserve
  <2> QED BY <1>0, <1>a, <2>2, <2>3
<1>3. ASSUME NEW w \in Workers, Succeed(w) PROVE FALSE
  <2>1. NewJob(jobs[worker[w].job].queue) /\ jobs[worker[w].job].queue \in Queues
    BY <1>3, HeldRow DEF Succeed
  <2>2. PICK new \in Ids :
          /\ jobs[new] = NoJob /\ jobs'[new] # NoJob
          /\ jobs'[new].queue = jobs[worker[w].job].queue
          /\ \A other \in Ids \ {new} : jobs'[other] = jobs[other]
    BY <2>1, NewJobRow DEF WorkInv, TypeOK
  <2>3. \A v \in Workers : /\ worker'[v].job = worker[v].job
                           /\ v # w => worker'[v] = worker[v]
    BY <1>3 DEF WorkInv, TypeOK, Succeed
  <2>4. CASE worker[w].job = id
    <3>1. \A v \in Workers : worker[v].at # "idle" => worker[v].job # new
      BY <2>2 DEF WorkInv, HoldsItsJob
    <3>2. \A v \in Workers : worker'[v].at = "done" => worker[v].at # "idle"
      BY <1>3 DEF WorkInv, TypeOK, Succeed
    <3> QED BY <1>0, <1>a, <2>2, <2>3, <2>4, <3>1, <3>2
  <2>5. CASE worker[w].job # id
    <3>1. jobs'[id] = jobs[id]
      BY <1>0, <2>2
    <3> QED BY <1>0, <1>a, <2>3, <2>5, <3>1
  <2> QED BY <2>4, <2>5
<1>4. ASSUME NEW w \in Workers, Raise(w) PROVE FALSE
  <2>1. jobs'[id] = jobs[id]
    BY <1>0, <1>4, HeldRow, NewJobRow DEF WorkInv, TypeOK, Raise
  <2>2. \A v \in Workers : /\ worker'[v].job = worker[v].job
                           /\ worker'[v].at = "done" => worker[v].at = "done"
    BY <1>4 DEF WorkInv, TypeOK, Raise
  <2> QED BY <1>0, <1>a, <2>1, <2>2
<1>5. ASSUME NEW w \in Workers, Destroy(w) \/ Retry(w) \/ Crash(w), worker[w].job # id
      PROVE  FALSE
  <2>1. jobs'[id] = jobs[id]
    BY <1>0, <1>5 DEF WorkInv, TypeOK, Destroy, Retry, Crash
  <2>2. /\ worker'[w].at = "idle"
        /\ \A v \in Workers \ {w} : worker'[v] = worker[v]
    BY <1>5 DEF WorkInv, TypeOK, Destroy, Retry, Crash
  <2> QED BY <1>0, <1>a, <2>1, <2>2
<1>6. ASSUME NEW w \in Workers, Retry(w) \/ Crash(w), worker[w].job = id, jobs'[id] # NoJob
      PROVE  FALSE
  <2>1. jobs'[id].queue = q
    BY <1>0, <1>6, QueuesStay
  <2>2. /\ worker'[w].at = "idle"
        /\ \A v \in Workers \ {w} : worker'[v] = worker[v]
    BY <1>6 DEF WorkInv, TypeOK, Retry, Crash
  <2> QED BY <1>0, <1>a, <1>6, <2>1, <2>2
<1>7. ASSUME NEW w \in Workers, Crash(w), worker[w].job = id PROVE FALSE
  <2>1. jobs[id] \in Job /\ jobs' = [jobs EXCEPT ![id].locked = FALSE]
    BY <1>7, HeldRow DEF Crash
  <2>2. jobs'[id] # NoJob
    <3>1. jobs'[id] = [jobs[id] EXCEPT !.locked = FALSE]
      <4>1. jobs \in [Ids -> Job \cup {NoJob}] /\ id \in Ids
        BY <1>0 DEF WorkInv, TypeOK
      <4> HIDE DEF Ids
      <4> QED BY <2>1, <4>1
    <3>2. jobs'[id] \in Job
      BY <2>1, <3>1, UnlockedIsJob
    <3> QED BY <3>2, NoJobAssumption
  <2> QED BY <1>6, <1>7, <2>2
<1>8. ASSUME NEW r \in Rakes, (\E p \in Queues : Guard(r, p)) \/ RakeWork(r) PROVE FALSE
  <2>1. worker' = worker
    BY <1>8 DEF Guard, RakeWork
  <2>2. jobs'[id] = jobs[id]
    BY <1>0, <1>8, NewJobRow DEF WorkInv, TypeOK, Guard, RakeWork
  <2> QED BY <1>0, <1>a, <2>1, <2>2
<1>9. ASSUME NEW w \in Workers, Destroy(w) PROVE worker[w].job # id
  BY <1>0, <1>9 DEF Destroy
<1> QED BY <1>1, <1>2, <1>3, <1>4, <1>5, <1>6, <1>7, <1>8, <1>9 DEF Next, Execute

\* A chain ends only with the last attempt of its one job, and never if the job
\* queues its successor in any case or cannot fail.
THEOREM ChainsEndByAttempts == Spec => ChainEndsOnlyByAttempts
<1> DEFINE Ends == \A q \in Queues : Chains(q) # {} /\ Chains(q)' = {} =>
                     /\ q \notin Ensured \cup Rescued
                     /\ \E w \in Workers : /\ worker[w].at = "raised"
                                           /\ jobs[worker[w].job].attempts = MaxAttempts - 1
                                           /\ Chains(q) = {worker[w].job}
           Inv == WorkInv /\ OriginInv /\ ChainInv
<1>1. ASSUME Inv, Inv', [Next]_vars PROVE Ends
  <2> SUFFICES ASSUME NEW q \in Queues, Chains(q) # {}, Chains(q)' = {}
               PROVE  /\ q \notin Ensured \cup Rescued
                      /\ \E w \in Workers :
                           /\ worker[w].at = "raised"
                           /\ jobs[worker[w].job].attempts = MaxAttempts - 1
                           /\ Chains(q) = {worker[w].job}
    OBVIOUS
  <2>1. PICK id \in Chains(q) : TRUE
    OBVIOUS
  <2>2. id \in Ids /\ jobs[id] # NoJob /\ jobs[id].queue = q
    BY <2>1 DEF Chains, JobsOf
  <2>3. PICK w \in Workers : Retry(w) /\ worker[w].job = id /\ jobs'[id] = NoJob
    BY <1>1, <2>1, LinksStay
  <2>4. worker[w].at = "raised" /\ jobs[id] \in Job
    BY <1>1, <2>3, HeldRow DEF Retry
  <2>5. jobs'[id] = IF jobs[id].attempts + 1 < MaxAttempts
                    THEN [queue |-> jobs[id].queue, attempts |-> jobs[id].attempts + 1,
                          locked |-> FALSE]
                    ELSE NoJob
    BY <1>1, <2>2, <2>3 DEF WorkInv, TypeOK, Retry
  <2>6. jobs[id].attempts = MaxAttempts - 1
    <3>1. jobs[id].attempts \in 0..MaxAttempts - 1
      BY <2>4 DEF Job
    <3>2. ~(jobs[id].attempts + 1 < MaxAttempts)
      <4> SUFFICES ASSUME jobs[id].attempts + 1 < MaxAttempts PROVE FALSE
        OBVIOUS
      <4>1. [queue |-> q, attempts |-> jobs[id].attempts + 1, locked |-> FALSE] \in Job
        BY <3>1, BoundAssumption DEF Job
      <4> QED BY <2>2, <2>3, <2>5, <4>1, NoJobAssumption
    <3> QED BY <3>1, <3>2, BoundAssumption
  <2>7. ASSUME NEW other \in Chains(q) PROVE other = id
    <3>1. PICK v \in Workers : Retry(v) /\ worker[v].job = other /\ jobs'[other] = NoJob
      BY <1>1, LinksStay
    <3>2. other \in Ids /\ jobs[other] # NoJob
      BY DEF Chains, JobsOf
    <3>3. \A j \in Ids \ {id} : jobs'[j] = jobs[j]
      BY <1>1, <2>3 DEF WorkInv, TypeOK, Retry
    <3> QED BY <3>1, <3>2, <3>3
  <2>8. q \notin Rescued
    BY <1>1, <2>2, <2>3, <2>4 DEF OriginInv
  <2>9. q \notin Ensured
    <3> SUFFICES ASSUME q \in Ensured PROVE FALSE
      OBVIOUS
    <3>1. q \in begun'
      BY <1>1, <2>2, <2>3 DEF OriginInv, Retry
    <3>2. PICK j \in Ids : Unfinished(j, q)'
      BY <1>1, <3>1 DEF ChainInv
    <3>3. j \in Chains(q)'
      BY <3>2 DEF Unfinished, Finished, Chains, JobsOf
    <3> QED BY <3>3
  <2> QED BY <2>1, <2>3, <2>4, <2>6, <2>7, <2>8, <2>9
<1>2. Init => Inv
  BY WorkInit DEF Init, OriginInv, ChainInv
<1>3. Inv /\ [Next]_vars => Inv'
  BY WorkStep, OriginStep, ChainStep
<1>4. Inv /\ Inv' /\ [Next]_vars => [Ends]_vars
  BY <1>1
<1> HIDE DEF Inv, Ends
<1>5. Spec => [][Ends]_vars
  BY <1>2, <1>3, <1>4, PTL DEF Spec
<1> QED BY <1>5 DEF ChainEndsOnlyByAttempts, Ends

-----------------------------------------------------------------------------
(* How many chains. *)

\* the rake processes that passed the guard of queue q and have not queued a job
Passed(q) == {r \in Rakes : rake[r] = q}

\* what the crashes and the failures so far may have added to queue q
Forks(q) == IF q \in Ensured THEN crashes + faults ELSE crashes

\* Chains alone are not inductive: two rake processes that have both passed the
\* guard will start one each.
ForkInv ==
    \A q \in Queues :
        Cardinality(Chains(q)) + Cardinality(Passed(q)) <= Cardinality(Rakes) + Forks(q)

\* Nothing is counted that is not a natural number.
LEMMA CountsAreFinite ==
    ASSUME IsFiniteSet(Rakes), WorkInv
    PROVE  /\ crashes \in Nat /\ faults \in Nat
           /\ Cardinality(Rakes) \in Nat
           /\ \A q \in Queues : /\ IsFiniteSet(Chains(q)) /\ Cardinality(Chains(q)) \in Nat
                                /\ IsFiniteSet(Passed(q)) /\ Cardinality(Passed(q)) \in Nat
                                /\ Cardinality(Passed(q)) <= Cardinality(Rakes)
                                /\ Forks(q) \in Nat
<1>1. crashes \in Nat /\ faults \in Nat
  BY BoundAssumption DEF WorkInv, TypeOK
<1>2. Cardinality(Rakes) \in Nat
  BY FS_CardinalityType
<1>3. ASSUME NEW q \in Queues
      PROVE  IsFiniteSet(Chains(q)) /\ Cardinality(Chains(q)) \in Nat
  <2>1. Chains(q) \subseteq 1..MaxJobs
    BY DEF Chains, JobsOf
  <2>2. IsFiniteSet(1..MaxJobs)
    BY BoundAssumption, FS_Interval
  <2>3. IsFiniteSet(Chains(q))
    BY <2>1, <2>2, FS_Subset
  <2> QED BY <2>3, FS_CardinalityType
<1>4. ASSUME NEW q \in Queues
      PROVE  /\ IsFiniteSet(Passed(q)) /\ Cardinality(Passed(q)) \in Nat
             /\ Cardinality(Passed(q)) <= Cardinality(Rakes)
  <2>1. Passed(q) \subseteq Rakes
    BY DEF Passed
  <2>2. IsFiniteSet(Passed(q)) /\ Cardinality(Passed(q)) <= Cardinality(Rakes)
    BY <2>1, FS_Subset
  <2> QED BY <2>2, FS_CardinalityType
<1> QED BY <1>1, <1>2, <1>3, <1>4 DEF Forks

\* A step that adds no job to a queue and lets none of its jobs that are done
\* run again adds no chain to it.
LEMMA NoNewLink ==
    ASSUME NEW q \in Queues,
           \A id \in Ids : jobs'[id] # NoJob /\ jobs'[id].queue = q =>
                             jobs[id] # NoJob /\ jobs[id].queue = q,
           \A id \in Ids, w \in Workers :
               jobs'[id] # NoJob /\ worker[w].job = id /\ worker[w].at = "done" =>
                   worker'[w].job = id /\ worker'[w].at = "done"
    PROVE  Chains(q)' \subseteq Chains(q)
<1>1. JobsOf(q)' \subseteq JobsOf(q)
  BY DEF JobsOf
<1> QED BY <1>1 DEF Chains, JobsOf

\* A step that queues one job and lets none that is done run again adds at most
\* the chain of that job, to its queue.
LEMMA OneNewLink ==
    ASSUME WorkInv, NEW p \in Queues, NewJob(p),
           \A w \in Workers : worker[w].at = "done" => worker'[w] = worker[w]
    PROVE  /\ \E new \in Ids : new \notin Chains(p) /\ Chains(p)' \subseteq Chains(p) \cup {new}
           /\ \A q \in Queues \ {p} : Chains(q)' \subseteq Chains(q)
<1>1. PICK new \in Ids :
        /\ jobs[new] = NoJob /\ jobs'[new] # NoJob /\ jobs'[new].queue = p
        /\ \A other \in Ids \ {new} : jobs'[other] = jobs[other]
  BY NewJobRow DEF WorkInv, TypeOK
<1>2. new \notin Chains(p)
  BY <1>1 DEF Chains, JobsOf
<1>3. Chains(p)' \subseteq Chains(p) \cup {new}
  BY <1>1 DEF Chains, JobsOf
<1>4. ASSUME NEW q \in Queues \ {p} PROVE Chains(q)' \subseteq Chains(q)
  BY <1>1 DEF Chains, JobsOf
<1> QED BY <1>2, <1>3, <1>4

\* ForkInv is inductive: a guard finds no chain, rake's first execution turns a
\* passed guard into a chain, and each other new chain has its crash or failure.
LEMMA ForkStep ==
    ASSUME IsFiniteSet(Rakes)
    PROVE  WorkInv /\ WorkInv' /\ ForkInv /\ [Next]_vars => ForkInv'
<1> DEFINE Within(q) == Cardinality(Chains(q)') + Cardinality(Passed(q)')
                           <= Cardinality(Rakes) + Forks(q)'
<1> SUFFICES ASSUME WorkInv, WorkInv', ForkInv, [Next]_vars, NEW q \in Queues
             PROVE  Within(q)
  BY DEF ForkInv
<1> HIDE DEF Within
<1>a. /\ Cardinality(Chains(q)) + Cardinality(Passed(q)) <= Cardinality(Rakes) + Forks(q)
      /\ IsFiniteSet(Chains(q)) /\ IsFiniteSet(Passed(q))
      /\ Cardinality(Chains(q)) \in Nat /\ Cardinality(Passed(q)) \in Nat
      /\ Cardinality(Rakes) \in Nat /\ Forks(q) \in Nat /\ crashes \in Nat /\ faults \in Nat
  BY CountsAreFinite DEF ForkInv
<1>b. /\ IsFiniteSet(Chains(q)') /\ Cardinality(Chains(q)') \in Nat
      /\ IsFiniteSet(Passed(q)') /\ Cardinality(Passed(q)') \in Nat
      /\ Cardinality(Passed(q)') <= Cardinality(Rakes)
      /\ Forks(q)' \in Nat
  <2>1. /\ Chains(q)' \subseteq 1..MaxJobs /\ IsFiniteSet(1..MaxJobs)
        /\ Passed(q)' \subseteq Rakes
    BY BoundAssumption, FS_Interval DEF Chains, JobsOf, Passed
  <2>2. /\ IsFiniteSet(Chains(q)') /\ IsFiniteSet(Passed(q)')
        /\ Cardinality(Passed(q)') <= Cardinality(Rakes)
    BY <2>1, FS_Subset
  <2>3. crashes' \in Nat /\ faults' \in Nat
    BY BoundAssumption DEF WorkInv, TypeOK
  <2>4. Forks(q)' = IF q \in Ensured THEN crashes' + faults' ELSE crashes'
    BY DEF Forks
  <2>5. \A c, f \in Nat : (IF q \in Ensured THEN c + f ELSE c) \in Nat
    OBVIOUS
  <2>6. Forks(q)' \in Nat
    BY <2>3, <2>4, <2>5, Zenon
  <2> QED BY <2>2, <2>6, FS_CardinalityType
<1>c. ASSUME Chains(q)' \subseteq Chains(q), Passed(q)' = Passed(q), Forks(q)' >= Forks(q)
      PROVE  Within(q)
  <2>1. Cardinality(Chains(q)') <= Cardinality(Chains(q))
    BY <1>a, <1>c, CountSubset
  <2> QED BY <1>a, <1>b, <1>c, <2>1 DEF Within
<1>d. ASSUME \E x : Chains(q)' \subseteq Chains(q) \cup {x}, Passed(q)' = Passed(q),
             Forks(q)' >= Forks(q) + 1
      PROVE  Within(q)
  <2>1. Cardinality(Chains(q)') <= Cardinality(Chains(q)) + 1
    BY <1>a, <1>d, CountOneMore
  <2> QED BY <1>a, <1>b, <1>d, <2>1 DEF Within
<1>1. CASE UNCHANGED vars
  <2>1. Chains(q)' = Chains(q) /\ Passed(q)' = Passed(q) /\ Forks(q)' = Forks(q)
    BY <1>1 DEF vars, Chains, JobsOf, Passed, Forks
  <2> QED BY <1>a, <1>c, <2>1
<1>2. ASSUME NEW w \in Workers,
             (\E id \in Ids : Reserve(w, id)) \/ Destroy(w) \/ Retry(w)
      PROVE  Within(q)
  <2>1. Passed(q)' = Passed(q) /\ Forks(q)' = Forks(q)
    BY <1>2 DEF Reserve, Destroy, Retry, Passed, Forks
  <2>2. \A id \in Ids : jobs'[id] # NoJob /\ jobs'[id].queue = q =>
                          jobs[id] # NoJob /\ jobs[id].queue = q
    BY <1>2, QueuesStay
  <2>3. ASSUME NEW id \in Ids, NEW v \in Workers, jobs'[id] # NoJob,
               worker[v].job = id, worker[v].at = "done"
        PROVE  worker'[v] = worker[v]
    BY <1>2, <2>3 DEF WorkInv, TypeOK, Reserve, Destroy, Retry
  <2>4. Chains(q)' \subseteq Chains(q)
    BY <2>2, <2>3, NoNewLink
  <2> QED BY <1>a, <1>c, <2>1, <2>4
<1>3. ASSUME NEW w \in Workers, Succeed(w) PROVE Within(q)
  <2>p. PICK p \in Queues : p = jobs[worker[w].job].queue
    BY <1>3, HeldRow DEF Succeed
  <2>1. /\ NewJob(p)
        /\ worker[w].job \in Ids /\ jobs[worker[w].job] # NoJob
        /\ Passed(q)' = Passed(q) /\ Forks(q)' = Forks(q)
    BY <1>3, <2>p, HeldRow DEF Succeed, Passed, Forks
  <2>2. PICK new \in Ids :
          /\ jobs[new] = NoJob /\ jobs'[new] # NoJob
          /\ jobs'[new].queue = p
          /\ \A other \in Ids \ {new} : jobs'[other] = jobs[other]
    BY <2>1, NewJobRow DEF WorkInv, TypeOK
  <2>3. /\ worker'[w].job = worker[w].job /\ worker'[w].at = "done"
        /\ worker[w].at = "working"
        /\ \A v \in Workers \ {w} : worker'[v] = worker[v]
    BY <1>3 DEF WorkInv, TypeOK, Succeed
  <2>4. CASE p = q
    <3>1. worker[w].job \in Chains(q)
      BY <2>1, <2>p, <2>3, <2>4 DEF Chains, JobsOf, WorkInv, HoldsItsJob
    <3>2. ASSUME NEW id \in Chains(q)', id # new
          PROVE  id \in Chains(q) /\ id # worker[w].job
      <4>1. /\ id \in Ids /\ jobs'[id] # NoJob /\ jobs'[id].queue = q
            /\ \A v \in Workers : worker'[v].job = id => worker'[v].at # "done"
        BY DEF Chains, JobsOf
      <4>2. id # worker[w].job
        BY <2>3, <4>1
      <4>3. \A v \in Workers : worker[v].job = id => worker[v].at # "done"
        BY <2>3, <4>1
      <4> QED BY <2>2, <3>2, <4>1, <4>2, <4>3 DEF Chains, JobsOf
    <3>3. Chains(q)' \subseteq (Chains(q) \ {worker[w].job}) \cup {new}
      BY <3>2
    <3>4. Cardinality(Chains(q)') <= Cardinality(Chains(q))
      BY <1>a, <3>1, <3>3, CountTrade
    <3> QED BY <1>a, <1>b, <2>1, <3>4 DEF Within
  <2>5. CASE p # q
    <3>1. \A id \in Ids : jobs'[id] # NoJob /\ jobs'[id].queue = q =>
                            jobs[id] # NoJob /\ jobs[id].queue = q
      BY <2>2, <2>5
    <3>2. Chains(q)' \subseteq Chains(q)
      BY <2>3, <3>1, NoNewLink
    <3> QED BY <1>a, <1>c, <2>1, <3>2
  <2> QED BY <2>4, <2>5
<1>4. ASSUME NEW w \in Workers, Raise(w) PROVE Within(q)
  <2>p. PICK p \in Queues : p = jobs[worker[w].job].queue
    BY <1>4, HeldRow DEF Raise
  <2>1. /\ Passed(q)' = Passed(q)
        /\ faults' = faults + 1 /\ crashes' = crashes
        /\ IF p \in Ensured THEN NewJob(p) ELSE jobs' = jobs
        /\ \A v \in Workers : worker[v].at = "done" => worker'[v] = worker[v]
    BY <1>4, <2>p DEF WorkInv, TypeOK, Raise, Passed
  <2>2. Forks(q)' >= Forks(q) /\ (q \in Ensured => Forks(q)' = Forks(q) + 1)
    BY <1>a, <2>1 DEF Forks
  <2>3. CASE p \in Ensured /\ q = p
    <3>1. \E new \in Ids : Chains(p)' \subseteq Chains(p) \cup {new}
      BY <2>1, <2>3, OneNewLink
    <3>2. \E x : Chains(q)' \subseteq Chains(q) \cup {x}
      BY <2>3, <3>1
    <3>3. Forks(q)' >= Forks(q) + 1
      BY <1>a, <1>b, <2>2, <2>3
    <3> QED BY <1>d, <2>1, <3>2, <3>3
  <2>4. CASE p \in Ensured /\ q # p
    <3>1. Chains(q)' \subseteq Chains(q)
      BY <2>1, <2>4, OneNewLink
    <3> QED BY <1>c, <2>1, <2>2, <3>1
  <2>5. CASE p \notin Ensured
    <3>1. Chains(q)' \subseteq Chains(q)
      BY <2>1, <2>5, NoNewLink
    <3> QED BY <1>c, <2>1, <2>2, <3>1
  <2> QED BY <2>3, <2>4, <2>5
<1>5. ASSUME NEW w \in Workers, Crash(w) PROVE Within(q)
  <2>1. /\ Passed(q)' = Passed(q) /\ Forks(q)' = Forks(q) + 1
        /\ \A v \in Workers \ {w} : worker'[v] = worker[v]
    BY <1>5, <1>a DEF Crash, Passed, Forks, WorkInv, TypeOK
  <2>2. \A id \in Ids : jobs'[id] # NoJob /\ jobs'[id].queue = q =>
                          jobs[id] # NoJob /\ jobs[id].queue = q
    BY <1>5, QueuesStay
  <2>3. Chains(q)' \subseteq Chains(q) \cup {worker[w].job}
    BY <2>1, <2>2 DEF Chains, JobsOf
  <2>4. Forks(q)' >= Forks(q) + 1
    BY <1>a, <2>1
  <2> QED BY <1>d, <2>1, <2>3, <2>4
<1>6. ASSUME NEW r \in Rakes, NEW p \in Queues, Guard(r, p) PROVE Within(q)
  <2>1. /\ jobs' = jobs /\ worker' = worker /\ Forks(q)' = Forks(q)
        /\ JobsOf(p) = {} /\ rake' = [rake EXCEPT ![r] = p] /\ rake[r] = NoQueue
    BY <1>6 DEF Guard, Forks
  <2>2. Chains(q)' = Chains(q)
    BY <2>1 DEF Chains, JobsOf
  <2>3. CASE p = q
    <3>1. Chains(q)' = {}
      BY <2>1, <2>2, <2>3 DEF Chains
    <3>2. Cardinality(Chains(q)') = 0
      BY <3>1, FS_EmptySet
    <3> QED BY <1>a, <1>b, <2>1, <3>2 DEF Within
  <2>4. CASE p # q
    <3>1. Passed(q)' = Passed(q)
      BY <2>1, <2>4, NoJobAssumption DEF Passed, WorkInv, TypeOK
    <3> QED BY <1>a, <1>c, <2>1, <2>2, <3>1
  <2> QED BY <2>3, <2>4
<1>7. ASSUME NEW r \in Rakes, RakeWork(r) PROVE Within(q)
  <2>p. PICK p \in Queues : p = rake[r]
    BY <1>7 DEF RakeWork, WorkInv, TypeOK
  <2>1. /\ worker' = worker /\ crashes' = crashes
        /\ jobs' = jobs \/ NewJob(p)
        /\ rake' = [rake EXCEPT ![r] = NoQueue]
    BY <1>7, <2>p DEF RakeWork, WorkInv, TypeOK
  <2>2. Forks(q)' >= Forks(q)
    BY <1>a, <1>7 DEF RakeWork, Forks
  <2>3. CASE p = q
    <3>1. r \in Passed(q) /\ Passed(q)' = Passed(q) \ {r}
      BY <2>1, <2>p, <2>3, NoJobAssumption DEF Passed, WorkInv, TypeOK
    <3>2. Cardinality(Passed(q)') = Cardinality(Passed(q)) - 1
      BY <1>a, <3>1, FS_RemoveElement
    <3>3. Cardinality(Chains(q)') <= Cardinality(Chains(q)) + 1
      <4>1. CASE jobs' = jobs
        <5>1. Chains(q)' = Chains(q)
          BY <2>1, <4>1 DEF Chains, JobsOf
        <5> QED BY <1>a, <5>1
      <4>2. CASE NewJob(p)
        <5>1. PICK new \in Ids : Chains(q)' \subseteq Chains(q) \cup {new}
          BY <2>1, <2>3, <4>2, OneNewLink
        <5> QED BY <1>a, <5>1, CountOneMore
      <4> QED BY <2>1, <4>1, <4>2
    <3> QED BY <1>a, <1>b, <2>2, <3>2, <3>3 DEF Within
  <2>4. CASE p # q
    <3>1. Passed(q)' = Passed(q)
      BY <2>1, <2>p, <2>4, NoJobAssumption DEF Passed, WorkInv, TypeOK
    <3>2. CASE jobs' = jobs
      <4>1. Chains(q)' = Chains(q)
        BY <2>1, <3>2 DEF Chains, JobsOf
      <4> QED BY <1>c, <2>2, <3>1, <4>1
    <3>3. CASE NewJob(p)
      <4>1. Chains(q)' \subseteq Chains(q)
        BY <2>1, <2>4, <3>3, OneNewLink
      <4> QED BY <1>c, <2>2, <3>1, <4>1
    <3> QED BY <2>1, <3>2, <3>3
  <2> QED BY <2>3, <2>4
<1> QED BY <1>1, <1>2, <1>3, <1>4, <1>5, <1>6, <1>7 DEF Next, Execute

\* The chains of a queue are no more than the rake tasks that may start one at
\* once and the workers that died inside a job, for any number of either: a chain
\* that queues its successor on success only does not fork by failures and
\* retries, and an ensured one forks by its failures.
THEOREM ForksCounted ==
    ASSUME IsFiniteSet(Rakes)
    PROVE  Spec => []ForksAreCounted
<1>1. Init => ForkInv
  <2> SUFFICES ASSUME Init, NEW q \in Queues
               PROVE  Cardinality(Chains(q)) + Cardinality(Passed(q))
                         <= Cardinality(Rakes) + Forks(q)
    BY DEF ForkInv
  <2>1. Chains(q) = {} /\ Passed(q) = {} /\ Forks(q) = 0
    BY NoJobAssumption DEF Init, Chains, JobsOf, Passed, Forks
  <2>2. Cardinality({}) = 0 /\ Cardinality(Rakes) \in Nat
    BY FS_EmptySet, FS_CardinalityType
  <2> QED BY <2>1, <2>2
<1>2. WorkInv /\ WorkInv' /\ ForkInv /\ [Next]_vars => ForkInv'
  BY ForkStep
<1>3. WorkInv /\ ForkInv => ForksAreCounted
  <2> SUFFICES ASSUME WorkInv, ForkInv, NEW q \in Queues
               PROVE  Cardinality(Chains(q)) <= Cardinality(Rakes) + crashes
                         + (IF q \in Ensured THEN faults ELSE 0)
    BY DEF ForksAreCounted
  <2>1. Cardinality(Chains(q)) + Cardinality(Passed(q)) <= Cardinality(Rakes) + Forks(q)
    BY DEF ForkInv
  <2>2. /\ Cardinality(Chains(q)) \in Nat /\ Cardinality(Passed(q)) \in Nat
        /\ Cardinality(Rakes) \in Nat /\ crashes \in Nat /\ faults \in Nat
    BY CountsAreFinite
  <2> QED BY <2>1, <2>2 DEF Forks
<1> QED BY <1>1, <1>2, <1>3, WorkInit, WorkStep, PTL DEF Spec
=============================================================================
