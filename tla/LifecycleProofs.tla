--------------------------- MODULE LifecycleProofs ---------------------------
(***************************************************************************)
(* OrderSync implements TestLifecycle, for any run tests, browsers, steps  *)
(* and bounds: every step of the pass and of the world around it releases, *)
(* decides, shows or gives up one row, lets rows age, or is a stutter.     *)
(***************************************************************************)
EXTENDS OrderSyncProofs

\* The invariants of the pass, of age, of passed verdicts and of decided orders.
LifeInv == IInv /\ AgeInv /\ RealInv /\ DecidedOK

LEMMA LifeInvariance == Spec => []LifeInv
<1>1. Init => DecidedOK
  BY DEF Init, DecidedOK
<1>2. IInv /\ DecidedOK /\ [Next]_vars => DecidedOK'
  <2>1. CASE DecidedOK /\ UNCHANGED vars
    BY <2>1 DEF DecidedOK, vars
  <2> QED BY <2>1, DecidedStep
<1>3. IInv /\ AgeInv /\ RealInv /\ DecidedOK => LifeInv
  BY DEF LifeInv
<1> QED BY <1>1, <1>2, <1>3, AgeInvariance, RealInvariance, PTL DEF Spec

-----------------------------------------------------------------------------
(* The execution of a row. *)

\* The order that the API may execute for row t, if any, is the one t holds.
Runs(t) == tsApi[t] # NoId /\ ~orders[tsApi[t]].locked

LEMMA ExecutionOfRow ==
    ASSUME IInv, OwnOrder, NEW t \in TestStatuses
    PROVE  Execution[t] = IF Runs(t) THEN orders[tsApi[t]].verdict ELSE "waiting"
<1> DEFINE mine == {o \in Released : orders[o].test = t}
<1>1. \A o \in mine : o = tsApi[t]
  BY DEF IInv, BuildInv, ReleasedOrderIsTracked
<1>2. CASE Runs(t)
  <2>1. tsApi[t] \in DOMAIN orders /\ orders[tsApi[t]].test = t
    BY <1>2 DEF Runs, OwnOrder, IInv, TypeInv, TypeOK, NoId
  <2>2. tsApi[t] \in Released
    BY <1>2, <2>1 DEF Runs, Released
  <2>3. mine = {tsApi[t]}
    BY <1>1, <2>1, <2>2
  <2>4. orders[tsApi[t]].steps = NSteps /\ orders[tsApi[t]].objects = ObjectSteps
    BY <2>2 DEF IInv, BuildInv, CompleteBeforeExecution
  <2>5. (CHOOSE o \in mine : TRUE) = tsApi[t]
    BY <2>3
  <2> QED BY <1>2, <2>3, <2>4, <2>5 DEF Execution
<1>3. CASE ~Runs(t)
  <2>1. mine = {}
    <3>1. ASSUME NEW o \in mine PROVE FALSE
      <4>1. o \in DOMAIN orders /\ ~orders[o].locked /\ o = tsApi[t]
        BY <1>1 DEF Released
      <4>2. o # NoId
        BY <4>1 DEF IInv, TypeInv, TypeOK, NoId
      <4> QED BY <1>3, <4>1, <4>2 DEF Runs
    <3> QED BY <3>1
  <2> QED BY <1>3, <2>1 DEF Execution
<1> QED BY <1>2, <1>3

\* Before and after a step.
Executions ==
    Execution = [t \in TestStatuses |->
                    IF Runs(t) THEN orders[tsApi[t]].verdict ELSE "waiting"]

LEMMA ExecutionsOfRows == IInv /\ OwnOrder => Executions
<1> SUFFICES ASSUME IInv, OwnOrder PROVE Executions
  OBVIOUS
<1>1. \A t \in TestStatuses :
         Execution[t] = IF Runs(t) THEN orders[tsApi[t]].verdict ELSE "waiting"
  BY ExecutionOfRow
<1>2. Execution = [t \in TestStatuses |-> Execution[t]]
  BY DEF Execution
<1> QED BY <1>1, <1>2 DEF Executions

LEMMA ExecutionsNext == IInv' /\ OwnOrder' => Executions'
BY ExecutionsOfRows, PTL

-----------------------------------------------------------------------------
(* What the steps do to it. *)

\* Only the unlocking and the API's decision change the lock or the verdict of
\* an order.
LEMMA OrderStays ==
    ASSUME IInv, Next, ~Unlock, ~\E i \in DOMAIN orders, v \in Verdicts : ApiFinish(i, v),
           NEW o \in DOMAIN orders
    PROVE  orders'[o].locked = orders[o].locked /\ orders'[o].verdict = orders[o].verdict
<1>1. /\ orders \in Seq(Order) /\ \A i \in DOMAIN orders : orders[i] \in Order
      /\ o \in 1..Len(orders)
  BY DEF IInv, TypeInv, TypeOK
<1>2. CASE orders' = orders
  BY <1>2
<1>3. CASE \E t \in TestStatuses : orders' = Append(orders, NewOrder(t))
  BY <1>1, <1>3
<1>4. CASE PostStep
  <2>1. orders' = orders \/ orders' = [orders EXCEPT ![tsApi[cur]] =
                                         [orders[tsApi[cur]] EXCEPT !.steps = step]]
    BY <1>4 DEF PostStep, Send
  <2>2. LET ord == [orders[o] EXCEPT !.steps = step]
        IN  ord.verdict = orders[o].verdict /\ ord.locked = orders[o].locked
    BY <1>1 DEF Order
  <2> QED BY <1>1, <2>1, <2>2
<1>5. CASE PostObject
  <2>1. orders' = orders \/ orders' = [orders EXCEPT ![tsApi[cur]] =
                             [orders[tsApi[cur]] EXCEPT !.objects = @ \cup {step}]]
    BY <1>5 DEF PostObject, Send
  <2>2. LET ord == [orders[o] EXCEPT !.objects = @ \cup {step}]
        IN  ord.verdict = orders[o].verdict /\ ord.locked = orders[o].locked
    BY <1>1 DEF Order
  <2> QED BY <1>1, <2>1, <2>2
<1>6. CASE ApiMoves
  <2>1. PICK i \in DOMAIN orders :
          (\E v \in Verdicts, k \in Steps : ApiStep(i, k, v)) \/ ApiForget(i)
    BY <1>6 DEF ApiMoves
  <2>2. CASE i # o
    BY <1>1, <2>1, <2>2 DEF ApiStep, ApiForget
  <2>3. CASE i = o
    <3>1. \/ \E v \in Verdicts, k \in Steps : orders' = [orders EXCEPT ![o].results[k] = v]
          \/ orders' = [orders EXCEPT ![o].gone = TRUE]
      BY <2>1, <2>3 DEF ApiStep, ApiForget
    <3> QED BY <1>1, <3>1 DEF Order
  <2> QED BY <2>2, <2>3
<1> QED
  BY <1>2, <1>3, <1>4, <1>5, <1>6 DEF Next, WorkerStep, StartRake, BeginPass,
     Poll, Requeue, PollTestSteps, LoadActions, LoadPosts, SaveOrder, SaveStep,
     PollTest, PollActions, PostOrder, CreateRun, Crash, Restart, Tick, ArchiveBrowser

\* So every other step leaves the executions as they are, the saving of an order
\* included, which is locked then.
LEMMA ExecutionStays ==
    ASSUME LifeInv, LifeInv', Next,
           ~Unlock, ~\E i \in DOMAIN orders, v \in Verdicts : ApiFinish(i, v)
    PROVE  Execution' = Execution
<1>1. Executions /\ Executions'
  BY ExecutionsOfRows, ExecutionsNext DEF LifeInv, RealInv
<1> SUFFICES ASSUME NEW t \in TestStatuses
             PROVE  /\ Runs(t)' <=> Runs(t)
                    /\ Runs(t) => orders'[tsApi'[t]].verdict = orders[tsApi[t]].verdict
  BY <1>1 DEF Executions
<1>2. CASE tsApi[t] # NoId
  <2>1. IInv
    BY DEF LifeInv
  <2>2. tsApi[t] \in DOMAIN orders
    BY <1>2, <2>1 DEF IInv, TypeInv, TypeOK, NoId
  <2>3. tsApi'[t] = tsApi[t]
    BY <1>2, <2>1, IdKept
  <2> QED BY <1>2, <2>1, <2>2, <2>3, OrderStays DEF Runs
<1>3. CASE tsApi[t] = NoId /\ SaveOrder
  <2>1. tsApi' = [tsApi EXCEPT ![cur] = Len(orders)] /\ orders' = orders
    BY <1>3 DEF SaveOrder
  <2>2. orders[Len(orders)].locked
    BY <1>3 DEF SaveOrder, LifeInv, IInv, BuildInv, SavingOK
  <2>3. tsApi'[t] \in {NoId, Len(orders)}
    BY <1>3, <2>1 DEF LifeInv, IInv, TypeInv, TypeOK
  <2> QED BY <1>3, <2>1, <2>2, <2>3 DEF Runs
<1>4. CASE tsApi[t] = NoId /\ ~SaveOrder
  <2>1. UNCHANGED tsApi
    BY <1>4 DEF Next, WorkerStep, StartRake, BeginPass, Poll, Requeue, PollTestSteps,
       LoadActions, LoadPosts, PostStep, SaveStep, PostObject, Unlock, PollTest,
       PollActions, PostOrder, GiveUp, CreateRun, Crash, Restart, Tick, ArchiveBrowser,
       ApiMoves, ApiFinish, ApiStep, ApiForget, db
  <2> QED BY <1>4, <2>1 DEF Runs
<1> QED BY <1>2, <1>3, <1>4

\* A row's order is no other row's.
LEMMA OrdersApart ==
    ASSUME OwnOrder, NEW t \in TestStatuses, NEW u \in TestStatuses,
           tsApi[t] # NoId, tsApi[u] = tsApi[t]
    PROVE  u = t
BY DEF OwnOrder

\* An unlocking that takes effect, whether or not it is answered, releases the
\* row being submitted.
LEMMA UnlockReleases ==
    ASSUME LifeInv, LifeInv', Unlock
    PROVE  [Lifecycle!Next]_(Lifecycle!vars)
<1> DEFINE o == tsApi[cur]
<1>1. Executions /\ Executions' /\ IInv /\ OwnOrder
  BY ExecutionsOfRows, ExecutionsNext DEF LifeInv, RealInv
<1>2. /\ orders \in Seq(Order) /\ tsApi \in [TestStatuses -> 0..Len(orders)]
      /\ pc = "steps" /\ cur \in TestStatuses
  BY <1>1 DEF Unlock, IInv, TypeInv, TypeOK, PhaseOK
<1>3. o # NoId /\ orders[o].test = cur /\ orders[o].locked /\ o \in DOMAIN orders
  BY <1>1, <1>2 DEF IInv, BuildInv, BuildingOK, NoId
<1>4. orders[o].verdict = "pending"
  BY <1>3 DEF LifeInv, DecidedOK
<1>5. UNCHANGED <<tsApi, tsSuccess, born, clock>>
  BY DEF Unlock, db, env
<1>6. UNCHANGED <<tsSuccess, Old>>
  BY <1>5 DEF Old, Created
<1>7. CASE orders' = orders
  <2>1. Execution' = Execution
    BY <1>1, <1>5, <1>7 DEF Executions, Runs
  <2> QED BY <1>6, <2>1 DEF Lifecycle!vars
<1>8. CASE orders' = [orders EXCEPT ![o] = [orders[o] EXCEPT !.locked = FALSE]]
  <2>1. /\ orders'[o].verdict = "pending" /\ ~orders'[o].locked
        /\ \A i \in DOMAIN orders : i # o => orders'[i] = orders[i]
    <3> DEFINE ord == [orders[o] EXCEPT !.locked = FALSE]
    <3>1. orders[o] \in Order
      BY <1>2, <1>3
    <3>2. ord.verdict = "pending" /\ ~ord.locked
      BY <1>4, <3>1 DEF Order
    <3>3. orders' = [orders EXCEPT ![o] = ord]
      BY <1>8
    <3> HIDE DEF ord
    <3> QED BY <1>2, <1>3, <3>2, <3>3
  <2>2. ASSUME NEW u \in TestStatuses, u # cur
        PROVE  Runs(u)' <=> Runs(u)
    <3>1. CASE tsApi[u] = NoId
      BY <1>5, <3>1 DEF Runs
    <3>2. CASE tsApi[u] # NoId
      <4>1. tsApi[u] # o /\ tsApi[u] \in DOMAIN orders
        BY <1>1, <1>2, <1>3, <2>2, <3>2, OrdersApart DEF NoId
      <4> QED BY <1>5, <2>1, <4>1 DEF Runs
    <3> QED BY <3>1, <3>2
  <2>3. ASSUME NEW u \in TestStatuses, u # cur, Runs(u)
        PROVE  orders'[tsApi'[u]].verdict = orders[tsApi[u]].verdict
    <3>1. tsApi[u] # o /\ tsApi[u] \in DOMAIN orders
      BY <1>1, <1>2, <1>3, <2>3, OrdersApart DEF NoId, Runs
    <3> QED BY <1>5, <2>1, <3>1
  <2>4. Execution[cur] = "waiting" /\ Execution'[cur] = "pending"
    BY <1>1, <1>2, <1>3, <1>5, <2>1 DEF Executions, Runs
  <2>5. \A u \in TestStatuses : u # cur => Execution'[u] = Execution[u]
    BY <1>1, <2>2, <2>3 DEF Executions
  <2>6. Execution' = [Execution EXCEPT ![cur] = "pending"]
    <3>1. /\ Execution' = [u \in TestStatuses |-> Execution'[u]]
          /\ Execution = [u \in TestStatuses |-> Execution[u]]
      BY DEF Execution
    <3> QED BY <1>2, <2>4, <2>5, <3>1
  <2>7. Lifecycle!Release(cur)
    BY <1>6, <2>4, <2>6 DEF Lifecycle!Release
  <2> QED BY <1>2, <2>7 DEF Lifecycle!Next
<1> QED BY <1>7, <1>8 DEF Unlock, Send

\* A decision of the API is one about the row that holds the order.
LEMMA FinishDecides ==
    ASSUME LifeInv, LifeInv', NEW o \in DOMAIN orders, NEW v \in Verdicts, ApiFinish(o, v)
    PROVE  [Lifecycle!Next]_(Lifecycle!vars)
<1> DEFINE t == orders[o].test
<1>1. Executions /\ Executions' /\ IInv /\ OwnOrder
  BY ExecutionsOfRows, ExecutionsNext DEF LifeInv, RealInv
<1>2. /\ orders \in Seq(Order) /\ tsApi \in [TestStatuses -> 0..Len(orders)]
      /\ orders[o] \in Order
  BY <1>1 DEF IInv, TypeInv, TypeOK
<1>3. /\ ~orders[o].locked /\ orders[o].verdict = "pending"
      /\ orders' = [orders EXCEPT ![o].verdict = v] /\ v \in {"passed", "failed"}
  BY DEF ApiFinish, Verdicts
<1>4. t \in TestStatuses /\ tsApi[t] = o /\ o # NoId
  <2>1. o \in Released
    BY <1>3 DEF Released
  <2> QED BY <1>1, <1>2, <2>1 DEF IInv, BuildInv, ReleasedOrderIsTracked, Order, NoId
<1>5. UNCHANGED <<tsApi, tsSuccess, born, clock>>
  BY DEF ApiFinish, db, env
<1>6. UNCHANGED <<tsSuccess, Old>>
  BY <1>5 DEF Old, Created
<1>7. /\ orders'[o].verdict = v /\ ~orders'[o].locked
      /\ \A i \in DOMAIN orders : i # o => orders'[i] = orders[i]
  BY <1>2, <1>3 DEF Order
<1>8. ASSUME NEW u \in TestStatuses, u # t
      PROVE  /\ Runs(u)' <=> Runs(u)
             /\ Runs(u) => orders'[tsApi'[u]].verdict = orders[tsApi[u]].verdict
  <2>1. CASE tsApi[u] = NoId
    BY <1>5, <2>1 DEF Runs
  <2>2. CASE tsApi[u] # NoId
    <3>1. tsApi[u] # o /\ tsApi[u] \in DOMAIN orders
      BY <1>1, <1>2, <1>4, <1>8, <2>2, OrdersApart DEF NoId
    <3> QED BY <1>5, <1>7, <3>1 DEF Runs
  <2> QED BY <2>1, <2>2
<1>9. Execution[t] = "pending" /\ Execution'[t] = v
  BY <1>1, <1>3, <1>4, <1>5, <1>7 DEF Executions, Runs
<1>10. \A u \in TestStatuses : u # t => Execution'[u] = Execution[u]
  BY <1>1, <1>8 DEF Executions
<1>11. Execution' = [Execution EXCEPT ![t] = v]
  <2>1. /\ Execution' = [u \in TestStatuses |-> Execution'[u]]
        /\ Execution = [u \in TestStatuses |-> Execution[u]]
    BY DEF Execution
  <2> HIDE DEF t
  <2> QED BY <1>4, <1>9, <1>10, <2>1
<1>12. Lifecycle!Decide(t, v)
  BY <1>6, <1>9, <1>11 DEF Lifecycle!Decide
<1> QED BY <1>3, <1>4, <1>12 DEF Lifecycle!Next

-----------------------------------------------------------------------------
(* Verdicts and age. *)

\* A step gives a verdict to one row at most.
LEMMA OneVerdict ==
    ASSUME IInv, Next, NEW t \in TestStatuses, tsSuccess'[t] # tsSuccess[t]
    PROVE  tsSuccess' = [tsSuccess EXCEPT ![t] = tsSuccess'[t]]
<1>1. PICK s \in TestStatuses : PollTest(s) \/ PollActions(s)
  BY DEF Next, WorkerStep, StartRake, BeginPass, Poll, Requeue, PollTestSteps,
     LoadActions, LoadPosts, SaveOrder, PostStep, SaveStep, PostObject, Unlock,
     PostOrder, CreateRun, Crash, Restart, Tick, ArchiveBrowser,
     ApiMoves, ApiFinish, ApiStep, ApiForget, db
<1>2. PICK v : tsSuccess' = [tsSuccess EXCEPT ![s] = v]
  BY <1>1 DEF PollTest, PollActions, GiveUp, db
<1>3. tsSuccess \in [TestStatuses -> Verdicts]
  BY DEF IInv, TypeInv, TypeOK
<1> QED BY <1>2, <1>3

\* A poll shows the verdict the execution reached, or gives up an old row.
LEMMA VerdictShown ==
    ASSUME LifeInv, LifeInv', Next, NEW t \in TestStatuses, tsSuccess'[t] # tsSuccess[t]
    PROVE  Lifecycle!Next
<1>1. Executions /\ Executions' /\ IInv /\ AgeInv /\ OwnOrder
  BY ExecutionsOfRows, ExecutionsNext DEF LifeInv, RealInv
<1>2. /\ UNCHANGED <<born, orders, tsApi, clock>>
      /\ \/ /\ tsSuccess[t] = "pending"
            /\ tsApi[t] # NoId /\ tsSuccess'[t] = orders[tsApi[t]].verdict
         \/ tsSuccess'[t] = "failed" /\ born[t[1]] + FailureWindow < clock
  BY <1>1, VerdictStep
<1>3. UNCHANGED <<Execution, Old>>
  BY <1>1, <1>2 DEF Executions, Runs, Old, Created
<1>4. tsSuccess' = [tsSuccess EXCEPT ![t] = tsSuccess'[t]]
  BY <1>1, OneVerdict
<1>5. CASE /\ tsSuccess[t] = "pending"
           /\ tsApi[t] # NoId /\ tsSuccess'[t] = orders[tsApi[t]].verdict
  <2>1. tsApi[t] \in DOMAIN orders /\ orders[tsApi[t]] \in Order
    BY <1>1, <1>5 DEF IInv, TypeInv, TypeOK, NoId
  <2>2. orders[tsApi[t]].verdict \in {"passed", "failed"}
    BY <1>5, <2>1 DEF Order, Verdicts
  <2>3. Runs(t)
    BY <1>5, <2>1, <2>2 DEF LifeInv, DecidedOK, Runs
  <2>4. Execution[t] = orders[tsApi[t]].verdict
    BY <1>1, <2>3 DEF Executions
  <2>5. Lifecycle!Show(t)
    BY <1>3, <1>4, <1>5, <2>2, <2>4 DEF Lifecycle!Show
  <2> QED BY <2>5 DEF Lifecycle!Next
<1>6. CASE tsSuccess'[t] = "failed" /\ born[t[1]] + FailureWindow < clock
  <2>1. born'[t[1]] > 0
    BY <1>6 DEF LifeInv, AgeInv, BornOK
  <2>2. t \in Old
    BY <1>2, <1>6, <2>1 DEF Old, Created
  <2>3. Lifecycle!GiveUp(t)
    BY <1>3, <1>4, <1>6, <2>2 DEF Lifecycle!GiveUp
  <2> QED BY <2>3 DEF Lifecycle!Next
<1> QED BY <1>2, <1>5, <1>6

\* Rows only get older.
LEMMA OldGrows ==
    ASSUME LifeInv, LifeInv', Next
    PROVE  Old \subseteq Old' /\ Old' \in SUBSET TestStatuses
<1>1. /\ clock <= clock' /\ clock \in Nat /\ clock' \in Nat /\ born \in [RunTests -> Nat]
      /\ \A rt \in RunTests : born[rt] > 0 => born'[rt] = born[rt]
  BY TimeGoesOn DEF LifeInv, IInv, TypeInv, TypeOK
<1>2. ASSUME NEW t \in Old PROVE t \in Old'
  <2>1. t \in TestStatuses /\ t[1] \in RunTests /\ born[t[1]] > 0
        /\ born[t[1]] + FailureWindow < clock
    BY DEF Old, Created, TestStatuses
  <2>2. born'[t[1]] = born[t[1]] /\ born[t[1]] \in Nat
    BY <1>1, <2>1
  <2>3. born'[t[1]] + FailureWindow < clock'
    BY <1>1, <2>1, <2>2, WindowAssumption
  <2> QED BY <2>1, <2>2, <2>3 DEF Old, Created
<1> QED BY <1>2 DEF Old, Created

-----------------------------------------------------------------------------
(* The refinement. *)

LEMMA LifecycleInit == Init => Lifecycle!Init
<1> SUFFICES ASSUME Init PROVE Lifecycle!Init
  OBVIOUS
<1>1. Released = {} /\ Created = {}
  BY DEF Init, Released, Created, TestStatuses
<1>2. Execution = [t \in TestStatuses |-> "waiting"] /\ Old = {}
  BY <1>1 DEF Execution, Old
<1> QED BY <1>2 DEF Init, Lifecycle!Init

LEMMA LifecycleStep ==
    LifeInv /\ LifeInv' /\ [Next]_vars => [Lifecycle!Next]_(Lifecycle!vars)
<1> SUFFICES ASSUME LifeInv, LifeInv', [Next]_vars
             PROVE  [Lifecycle!Next]_(Lifecycle!vars)
  OBVIOUS
<1>1. CASE UNCHANGED vars
  BY <1>1 DEF vars, db, env, Lifecycle!vars, Execution, Released, Old, Created
<1>2. CASE Unlock
  BY <1>2, UnlockReleases
<1>3. CASE \E o \in DOMAIN orders, v \in Verdicts : ApiFinish(o, v)
  BY <1>3, FinishDecides
<1>4. CASE Next /\ \E t \in TestStatuses : tsSuccess'[t] # tsSuccess[t]
  BY <1>4, VerdictShown
<1>5. CASE /\ Next /\ ~Unlock
           /\ ~\E o \in DOMAIN orders, v \in Verdicts : ApiFinish(o, v)
           /\ \A t \in TestStatuses : tsSuccess'[t] = tsSuccess[t]
  <2>1. Execution' = Execution
    BY <1>5, ExecutionStays
  <2>2. tsSuccess' = tsSuccess
    BY <1>5 DEF LifeInv, IInv, TypeInv, TypeOK
  <2>3. Lifecycle!Age
    BY <1>5, <2>1, <2>2, OldGrows DEF Lifecycle!Age
  <2> QED BY <2>3 DEF Lifecycle!Next
<1> QED BY <1>1, <1>2, <1>3, <1>4, <1>5

\* Whatever requests are lost or repeated, whatever dies, vanishes or is
\* archived, each row is executed at most once and whole, and users see the
\* verdict it reached, or a failure by age.
THEOREM LifecycleImplemented == Spec => LifecycleSpec
BY LifecycleInit, LifecycleStep, LifeInvariance, PTL DEF Spec, LifecycleSpec, Lifecycle!Spec
=============================================================================
