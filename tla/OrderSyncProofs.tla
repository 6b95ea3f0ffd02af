--------------------------- MODULE OrderSyncProofs ---------------------------
(* Theorems about OrderSync, for any run tests, browsers, steps and bounds. *)
EXTENDS OrderSync, TLAPS

(* What the local variables of a pass hold in each of its phases. *)
PhaseOK ==
    /\ pc # "idle" => chain # "none"
    /\ pc \in {"testSteps", "saveOrder", "steps", "saveStep", "object"} =>
         cur \in TestStatuses
    /\ pc \in {"steps", "saveStep", "object"} => step >= 1
    /\ pc \in {"saveStep", "object"} => step <= NSteps
    /\ pc = "object" => step \in ObjectSteps

TypeInv == TypeOK /\ PhaseOK

(* No row that the pass is still to submit has an order. *)
UnpostedOK ==
    /\ pc \in {"post", "saveOrder", "steps", "saveStep", "object"} =>
         \A t \in todo : tsApi[t] = NoId
    /\ pc \in {"saveOrder", "steps", "saveStep", "object"} => cur \notin todo

(* An order that was just posted is the last one and is still empty. *)
SavingOK ==
    pc = "saveOrder" =>
        /\ tsApi[cur] = NoId
        /\ Len(orders) > 0
        /\ orders[Len(orders)].test = cur
        /\ orders[Len(orders)].locked
        /\ orders[Len(orders)].steps = 0
        /\ orders[Len(orders)].objects = {}

(* The steps whose ids are saved, and those that the API already has. *)
Saved == IF pc = "object" THEN step ELSE step - 1
Sent == IF pc = "steps" THEN step - 1 ELSE step

(* The order being built is locked and holds exactly the steps before this one. *)
BuildingOK ==
    pc \in {"steps", "saveStep", "object"} =>
        /\ tsApi[cur] # NoId
        /\ orders[tsApi[cur]].test = cur
        /\ orders[tsApi[cur]].locked
        /\ orders[tsApi[cur]].steps = Sent
        /\ orders[tsApi[cur]].objects = ObjectSteps \cap 1..step - 1
        /\ \A k \in Steps : k <= Saved => asApi[cur][k] = tsApi[cur]

BuildInv == /\ UnpostedOK /\ SavingOK /\ BuildingOK
            /\ CompleteBeforeExecution /\ ReleasedOrderIsTracked
IInv == TypeInv /\ BuildInv

-----------------------------------------------------------------------------
(* limit(n) returns some of the rows, and nothing else. *)
LEMMA BatchesAreRows ==
    ASSUME NEW rows, NEW n, NEW batch \in Batches(rows, n)
    PROVE  batch \subseteq rows
BY DEF Batches

(* A failed pass leaves its phase and its locals well typed. *)
LEMMA FailTypes ==
    ASSUME TypeInv, Fail
    PROVE  /\ pc' = "idle" /\ todo' = {} /\ cur' = NoTest /\ step' = 0
           /\ step' \in 0..NSteps + 1
           /\ chain' \in {"none", "rake", "job"} /\ attempts' \in 0..MaxAttempts - 1
BY StepsAssumption, BoundAssumption DEF TypeInv, TypeOK, Fail, Rest

(* The schedule is untouched by a step that goes on to another phase. *)
LEMMA AnswersTypes ==
    ASSUME TypeInv, NEW id, NEW reply, Answers(id, reply)
    PROVE  faults' \in Nat
BY BoundAssumption DEF TypeInv, TypeOK, Answers

(* An answer below 400 is about an order the API holds. *)
LEMMA AnsweredOrder ==
    ASSUME TypeInv, NEW t \in TestStatuses, Answers(tsApi[t], "ok")
    PROVE  orders[tsApi[t]] \in Order /\ tsApi[t] \in DOMAIN orders
BY DEF TypeInv, TypeOK, Answers, InApi, NoId

(* A request that has an effect is about an order of the API. *)
LEMMA TakesTypes ==
    ASSUME TypeInv, NEW id \in 0..Len(orders), NEW outcome, Takes(id, outcome)
    PROVE  /\ faults' \in Nat
           /\ outcome # "refused" => id \in DOMAIN orders
BY BoundAssumption DEF TypeInv, TypeOK, Takes, InApi, NoId

(* Recording what the API answers keeps every step's verdict a verdict. *)
LEMMA RecordTypes ==
    ASSUME TypeInv, NEW t \in TestStatuses, NEW some \in SUBSET Answered(t),
           Record(t, some)
    PROVE  asSuccess' \in [TestStatuses -> [Steps -> Verdicts]]
<1>1. ASSUME NEW k \in some
      PROVE  orders[tsApi[t]].results[k] \in Verdicts
  <2>1. k \in Steps /\ tsApi[t] \in DOMAIN orders
    BY DEF Answered, TypeInv, TypeOK, NoId
  <2>2. orders[tsApi[t]] \in Order
    BY <2>1 DEF TypeInv, TypeOK
  <2> QED BY <2>1, <2>2 DEF Order
<1>2. [k \in Steps |-> IF k \in some THEN orders[tsApi[t]].results[k]
                       ELSE asSuccess[t][k]] \in [Steps -> Verdicts]
  BY <1>1 DEF TypeInv, TypeOK
<1> QED
  BY <1>2 DEF Record, TypeInv, TypeOK

(* An order with one field changed is an order. *)
LEMMA OrderFields ==
    ASSUME NEW ord \in Order
    PROVE  /\ \A n \in 0..NSteps : [ord EXCEPT !.steps = n] \in Order
           /\ \A s \in SUBSET ObjectSteps : [ord EXCEPT !.objects = s] \in Order
           /\ \A v \in Verdicts : [ord EXCEPT !.verdict = v] \in Order
           /\ \A k \in Steps, v \in Verdicts : [ord EXCEPT !.results[k] = v] \in Order
           /\ \A b \in BOOLEAN : [ord EXCEPT !.locked = b] \in Order
           /\ \A b \in BOOLEAN : [ord EXCEPT !.gone = b] \in Order
           /\ ord.objects \in SUBSET ObjectSteps
BY DEF Order

(* The sequence of orders stays well typed when one is changed or added. *)
LEMMA OrderAppended ==
    ASSUME TypeInv, NEW t \in TestStatuses
    PROVE  /\ NewOrder(t) \in Order
           /\ Append(orders, NewOrder(t)) \in Seq(Order)
           /\ Len(Append(orders, NewOrder(t))) = Len(orders) + 1
<1>1. NewOrder(t) \in Order
  BY StepsAssumption DEF NewOrder, Order, Verdicts
<1> QED BY <1>1 DEF TypeInv, TypeOK

LEMMA OrderChanged ==
    ASSUME TypeInv, NEW o \in DOMAIN orders, NEW ord \in Order
    PROVE  /\ [orders EXCEPT ![o] = ord] \in Seq(Order)
           /\ Len([orders EXCEPT ![o] = ord]) = Len(orders)
           /\ DOMAIN [orders EXCEPT ![o] = ord] = DOMAIN orders
BY DEF TypeInv, TypeOK

(* What a request about the order of cur does to the API's orders. *)
LEMMA SendTypes ==
    ASSUME TypeInv, cur \in TestStatuses, NEW changed, NEW outcome,
           Takes(tsApi[cur], outcome),
           tsApi[cur] \in DOMAIN orders => changed \in Order,
           orders' = IF outcome = "refused" THEN orders
                     ELSE [orders EXCEPT ![tsApi[cur]] = changed]
    PROVE  /\ faults' \in Nat
           /\ orders' \in Seq(Order) /\ Len(orders') = Len(orders)
<1>1. tsApi[cur] \in 0..Len(orders)
  BY DEF TypeInv, TypeOK
<1>2. /\ faults' \in Nat
      /\ outcome # "refused" => tsApi[cur] \in DOMAIN orders
  BY <1>1, TakesTypes
<1> QED
  BY <1>2, OrderChanged DEF TypeInv, TypeOK

-----------------------------------------------------------------------------
(* Every step preserves the type invariant. *)
LEMMA TypeStep ==
    ASSUME TypeInv, Next
    PROVE  TypeInv'
<1> USE DEF TypeInv, TypeOK, PhaseOK, Phases, Verdicts, vars, db, pass, sched, env
<1>1. CASE StartRake
  BY <1>1, BatchesAreRows DEF StartRake, Poll, PendingTests, Created, TestStatuses
<1>2. CASE BeginPass
  BY <1>2, BatchesAreRows DEF BeginPass, Poll, PendingTests, Created, TestStatuses
<1>3. CASE Requeue
  BY <1>3, StepsAssumption, BoundAssumption DEF Requeue, Rest
<1>4. CASE PollTestSteps
  <2>1. cur \in TestStatuses /\ chain # "none"
    BY <1>4 DEF PollTestSteps
  <2>2. PICK reply \in {"ok", "error", "raise"} :
          /\ Answers(tsApi[cur], reply)
          /\ \/ reply = "ok" /\ Record(cur, Answered(cur)) /\ Goes("tests")
                /\ cur' = NoTest /\ UNCHANGED <<todo, step>>
             \/ reply # "ok" /\ Fail
                /\ IF InApi(tsApi[cur])
                   THEN \E k \in 0..NSteps : Record(cur, Answered(cur) \cap 1..k)
                   ELSE UNCHANGED asSuccess
    BY <1>4 DEF PollTestSteps
  <2>3. faults' \in Nat
    BY <2>2, AnswersTypes
  <2>4. asSuccess' \in [TestStatuses -> [Steps -> Verdicts]]
    <3>1. CASE UNCHANGED asSuccess
      BY <3>1
    <3>2. CASE \E some \in SUBSET Answered(cur) : Record(cur, some)
      BY <2>1, <3>2, RecordTypes
    <3>3. \A k : Answered(cur) \cap 1..k \in SUBSET Answered(cur)
      OBVIOUS
    <3> QED BY <2>2, <3>1, <3>2, <3>3
  <2>5. CASE reply = "ok"
    BY <1>4, <2>2, <2>3, <2>4, <2>5 DEF PollTestSteps, Goes
  <2>6. CASE reply # "ok"
    BY <1>4, <2>2, <2>3, <2>4, <2>6, FailTypes DEF PollTestSteps
  <2> QED BY <2>5, <2>6
<1>5. CASE LoadActions
  BY <1>5 DEF LoadActions, Siblings, Created, Goes
<1>6. CASE LoadPosts
  BY <1>6, BatchesAreRows DEF LoadPosts, UnpostedTests, Created, Goes
<1>7. CASE SaveOrder
  BY <1>7, StepsAssumption DEF SaveOrder, Goes
<1>8. CASE PostStep
  <2>1. cur \in TestStatuses /\ step \in Nat
    BY <1>8, StepsAssumption DEF PostStep
  <2> DEFINE changed == [orders[tsApi[cur]] EXCEPT !.steps = step]
  <2>2. PICK outcome \in {"ok", "refused", "lost"} :
          /\ Takes(tsApi[cur], outcome)
          /\ orders' = IF outcome = "refused" THEN orders
                       ELSE [orders EXCEPT ![tsApi[cur]] = changed]
          /\ IF outcome = "ok" THEN Goes("saveStep") /\ UNCHANGED <<todo, cur, step>> ELSE Fail
    BY <1>8 DEF PostStep, Send
  <2>3. tsApi[cur] \in DOMAIN orders => changed \in Order
    <3>1. tsApi[cur] \in DOMAIN orders => orders[tsApi[cur]] \in Order
      OBVIOUS
    <3>2. step \in 0..NSteps
      BY <1>8, <2>1, StepsAssumption DEF PostStep
    <3> QED BY <3>1, <3>2, OrderFields
  <2> HIDE DEF changed
  <2>4. /\ faults' \in Nat
        /\ orders' \in Seq(Order) /\ Len(orders') = Len(orders)
    BY <2>1, <2>2, <2>3, SendTypes
  <2>5. CASE outcome = "ok"
    BY <1>8, <2>1, <2>2, <2>4, <2>5, StepsAssumption DEF PostStep, Goes, Steps
  <2>6. CASE outcome # "ok"
    BY <1>8, <2>2, <2>4, <2>6, FailTypes DEF PostStep
  <2> QED BY <2>5, <2>6
<1>9. CASE SaveStep
  <2>1. /\ pc = "saveStep" /\ cur \in TestStatuses /\ step \in Steps
        /\ tsApi[cur] \in 0..Len(orders)
    BY <1>9, StepsAssumption DEF SaveStep, Steps
  <2>2. asApi' \in [TestStatuses -> [Steps -> 0..Len(orders)]]
    BY <1>9, <2>1 DEF SaveStep
  <2>3. /\ pc' \in {"object", "steps"} /\ UNCHANGED sched
        /\ step' \in 0..NSteps + 1 /\ step' >= 1
        /\ pc' = "object" => step' \in ObjectSteps /\ step' <= NSteps
    BY <1>9, <2>1, StepsAssumption DEF SaveStep, Goes, Steps
  <2> QED BY <1>9, <2>1, <2>2, <2>3 DEF SaveStep
<1>10. CASE PostObject
  <2>1. cur \in TestStatuses /\ step \in Nat
    BY <1>10, StepsAssumption DEF PostObject
  <2> DEFINE changed == [orders[tsApi[cur]] EXCEPT !.objects = @ \cup {step}]
  <2>2. PICK outcome \in {"ok", "refused", "lost"} :
          /\ Takes(tsApi[cur], outcome)
          /\ orders' = IF outcome = "refused" THEN orders
                       ELSE [orders EXCEPT ![tsApi[cur]] = changed]
          /\ IF outcome = "ok" THEN Goes("steps") /\ step' = step + 1 /\ UNCHANGED <<todo, cur>> ELSE Fail
    BY <1>10 DEF PostObject, Send
  <2>3. tsApi[cur] \in DOMAIN orders => changed \in Order
    <3>1. tsApi[cur] \in DOMAIN orders => orders[tsApi[cur]] \in Order
      OBVIOUS
    <3> QED BY <1>10, <2>1, <3>1, OrderFields, StepsAssumption DEF PostObject, Steps
  <2> HIDE DEF changed
  <2>4. /\ faults' \in Nat
        /\ orders' \in Seq(Order) /\ Len(orders') = Len(orders)
    BY <2>1, <2>2, <2>3, SendTypes
  <2>5. CASE outcome = "ok"
    <3>1. /\ pc' = "steps" /\ chain # "none" /\ cur \in TestStatuses
          /\ UNCHANGED <<chain, attempts, todo, cur, born, tsApi, tsSuccess, asApi,
                         asSuccess, clock, crashes, forgets, archived, loadedAt>>
          /\ step' \in 0..NSteps + 1 /\ step' >= 1
      BY <1>10, <2>1, <2>2, <2>5, StepsAssumption DEF PostObject, Goes, Steps
    <3> QED BY <2>4, <3>1
  <2>6. CASE outcome # "ok"
    BY <1>10, <2>2, <2>4, <2>6, FailTypes DEF PostObject
  <2> QED BY <2>5, <2>6
<1>11. CASE Unlock
  <2>1. cur \in TestStatuses /\ step \in Nat
    BY <1>11, StepsAssumption DEF Unlock
  <2> DEFINE changed == [orders[tsApi[cur]] EXCEPT !.locked = FALSE]
  <2>2. PICK outcome \in {"ok", "refused", "lost"} :
          /\ Takes(tsApi[cur], outcome)
          /\ orders' = IF outcome = "refused" THEN orders
                       ELSE [orders EXCEPT ![tsApi[cur]] = changed]
          /\ IF outcome = "ok" THEN Goes("post") /\ cur' = NoTest /\ step' = 0 /\ UNCHANGED todo ELSE Fail
    BY <1>11 DEF Unlock, Send
  <2>3. tsApi[cur] \in DOMAIN orders => changed \in Order
    <3>1. tsApi[cur] \in DOMAIN orders => orders[tsApi[cur]] \in Order
      OBVIOUS
    <3> QED BY <1>11, <2>1, <3>1, OrderFields, StepsAssumption DEF Unlock, Steps
  <2> HIDE DEF changed
  <2>4. /\ faults' \in Nat
        /\ orders' \in Seq(Order) /\ Len(orders') = Len(orders)
    BY <2>1, <2>2, <2>3, SendTypes
  <2>5. CASE outcome = "ok"
    BY <1>11, <2>1, <2>2, <2>4, <2>5, StepsAssumption DEF Unlock, Goes, Steps
  <2>6. CASE outcome # "ok"
    BY <1>11, <2>2, <2>4, <2>6, FailTypes DEF Unlock
  <2> QED BY <2>5, <2>6
<1>12. CASE \E t \in TestStatuses : PollTest(t)
  <2>1. PICK t \in TestStatuses : PollTest(t)
    BY <1>12
  <2>2. PICK reply \in {"ok", "error", "raise"} :
          /\ Answers(tsApi[t], reply)
          /\ \/ reply # "raise" /\ GivesUp(t, reply) /\ GiveUp(t)
             \/ reply = "ok" /\ ~GivesUp(t, reply)
                /\ tsSuccess' = [tsSuccess EXCEPT ![t] = orders[tsApi[t]].verdict]
                /\ todo' = todo \ {t} /\ cur' = t /\ Goes("testSteps")
                /\ UNCHANGED <<born, tsApi, asApi, asSuccess, step>>
             \/ (reply = "raise" \/ (reply = "error" /\ ~GivesUp(t, reply)))
                /\ Fail /\ UNCHANGED db
    BY <2>1 DEF PollTest
  <2>3. faults' \in Nat
    BY <2>2, AnswersTypes
  <2>4. CASE GiveUp(t)
    BY <2>1, <2>3, <2>4 DEF PollTest, GiveUp
  <2>5. CASE reply = "ok" /\ ~GivesUp(t, reply)
             /\ tsSuccess' = [tsSuccess EXCEPT ![t] = orders[tsApi[t]].verdict]
             /\ todo' = todo \ {t} /\ cur' = t /\ Goes("testSteps")
             /\ UNCHANGED <<born, tsApi, asApi, asSuccess, step>>
    <3>1. orders[tsApi[t]] \in Order
      BY <2>2, <2>5, AnsweredOrder
    <3>2. orders[tsApi[t]].verdict \in Verdicts
      BY <3>1 DEF Order
    <3> QED BY <2>1, <2>3, <2>5, <3>2 DEF PollTest, Goes
  <2>6. CASE Fail /\ UNCHANGED db
    BY <2>1, <2>3, <2>6, FailTypes DEF PollTest
  <2> QED BY <2>2, <2>4, <2>5, <2>6
<1>13. CASE \E t \in TestStatuses : PollActions(t)
  <2>1. PICK t \in TestStatuses : PollActions(t)
    BY <1>13
  <2> DEFINE some == {k \in Answered(t) : asSuccess[t][k] = "pending"}
  <2>2. PICK reply \in {"ok", "error", "raise"} :
          /\ Answers(tsApi[t], reply)
          /\ \/ reply # "raise" /\ GivesUp(t, reply) /\ GiveUp(t)
             \/ Record(t, some) /\ todo' = todo \ {t} /\ Goes("actions")
                /\ UNCHANGED <<born, tsApi, tsSuccess, asApi, cur, step>>
             \/ Fail /\ UNCHANGED db
    BY <2>1 DEF PollActions
  <2>3. faults' \in Nat
    BY <2>2, AnswersTypes
  <2>4. CASE GiveUp(t)
    BY <2>1, <2>3, <2>4 DEF PollActions, GiveUp
  <2>5. CASE Record(t, some) /\ todo' = todo \ {t} /\ Goes("actions")
             /\ UNCHANGED <<born, tsApi, tsSuccess, asApi, cur, step>>
    <3>1. asSuccess' \in [TestStatuses -> [Steps -> Verdicts]]
      BY <2>5, RecordTypes
    <3> QED BY <2>1, <2>3, <2>5, <3>1 DEF PollActions, Goes
  <2>6. CASE Fail /\ UNCHANGED db
    BY <2>1, <2>3, <2>6, FailTypes DEF PollActions
  <2> QED BY <2>2, <2>4, <2>5, <2>6
<1>14. CASE \E t \in TestStatuses : PostOrder(t)
  <2>1. PICK t \in TestStatuses : PostOrder(t)
    BY <1>14
  <2>2. /\ orders' \in Seq(Order) /\ Len(orders') >= Len(orders)
        /\ faults' \in Nat
    <3>1. /\ Append(orders, NewOrder(t)) \in Seq(Order)
          /\ Len(Append(orders, NewOrder(t))) = Len(orders) + 1
      BY OrderAppended
    <3>2. orders' \in {orders, Append(orders, NewOrder(t))} /\ faults' \in {faults, faults + 1}
      BY <2>1 DEF PostOrder
    <3>3. CASE orders' = orders
      BY <3>2, <3>3
    <3>4. CASE orders' = Append(orders, NewOrder(t))
      <4>1. Len(orders) \in Nat
        OBVIOUS
      <4> QED BY <3>1, <3>2, <3>4, <4>1
    <3> QED BY <3>2, <3>3, <3>4
  <2>3. CASE Fail
    <3>1. UNCHANGED <<db, env>>
      BY <2>1 DEF PostOrder
    <3> QED BY <2>2, <2>3, <3>1, FailTypes
  <2>4. CASE todo' = todo \ {t} /\ cur' = t /\ UNCHANGED step /\ Goes("saveOrder")
    BY <2>1, <2>2, <2>4 DEF PostOrder, Goes
  <2> QED BY <2>1, <2>3, <2>4 DEF PostOrder
<1>15. CASE \E rt \in RunTests : CreateRun(rt)
  BY <1>15 DEF CreateRun
<1>16. CASE Crash
  BY <1>16, StepsAssumption DEF Crash, Rest
<1>17. CASE Restart
  BY <1>17 DEF Restart
<1>18. CASE Tick
  BY <1>18 DEF Tick
<1>19. CASE \E b \in Browsers : ArchiveBrowser(b)
  BY <1>19 DEF ArchiveBrowser
<1>20. CASE ApiMoves
  <2>1. PICK o \in DOMAIN orders :
          \/ \E v \in Verdicts : ApiFinish(o, v) \/ \E k \in Steps : ApiStep(o, k, v)
          \/ ApiForget(o)
    BY <1>20 DEF ApiMoves
  <2>2. PICK ord \in Order : orders' = [orders EXCEPT ![o] = ord]
    <3>1. orders[o] \in Order
      OBVIOUS
    <3>2. CASE \E v \in Verdicts : ApiFinish(o, v)
      BY <3>1, <3>2, OrderFields DEF ApiFinish
    <3>3. CASE \E v \in Verdicts, k \in Steps : ApiStep(o, k, v)
      BY <3>1, <3>3, OrderFields DEF ApiStep
    <3>4. CASE ApiForget(o)
      BY <3>1, <3>4, OrderFields DEF ApiForget
    <3> QED BY <2>1, <3>2, <3>3, <3>4
  <2>3. orders' \in Seq(Order) /\ Len(orders') = Len(orders)
    BY <2>2, OrderChanged
  <2>4. /\ UNCHANGED <<db, pass, sched, clock, crashes, archived, loadedAt, faults>>
        /\ forgets' \in Nat
    BY <2>1 DEF ApiFinish, ApiStep, ApiForget
  <2> QED BY <2>3, <2>4
<1> QED
  BY <1>1, <1>2, <1>3, <1>4, <1>5, <1>6, <1>7, <1>8, <1>9, <1>10, <1>11, <1>12,
     <1>13, <1>14, <1>15, <1>16, <1>17, <1>18, <1>19, <1>20 DEF Next, WorkerStep

(* The initial state is well typed. *)
LEMMA TypeInit == Init => TypeInv
BY StepsAssumption, BoundAssumption, ArchivableAssumption
   DEF Init, TypeInv, TypeOK, PhaseOK, Phases, Verdicts, NoId

(* A step of the specification, stuttering included, preserves the types. *)
LEMMA TypeInductive == TypeInv /\ [Next]_vars => TypeInv'
<1>1. CASE TypeInv /\ Next
  BY <1>1, TypeStep
<1>2. CASE TypeInv /\ UNCHANGED vars
  BY <1>2 DEF TypeInv, TypeOK, PhaseOK, vars, db, pass, sched, env
<1> QED BY <1>1, <1>2

(* Rows, orders and the locals of a pass always have their types, and a job   *)
(* that has spent its attempts is gone.                                       *)
THEOREM TypeSafety == Spec => []TypeOK
<1>1. Spec => []TypeInv
  BY TypeInit, TypeInductive, PTL DEF Spec
<1>2. TypeInv => TypeOK
  BY DEF TypeInv
<1> QED BY <1>1, <1>2, PTL

-----------------------------------------------------------------------------
(* Outside of submission, a step that leaves orders and ids alone keeps them  *)
(* consistent.                                                                *)
LEMMA QuietStep ==
    ASSUME BuildInv, UNCHANGED <<orders, tsApi, asApi>>,
           pc' \in {"idle", "tests", "testSteps", "actions"}
    PROVE  BuildInv'
BY DEF BuildInv, UnpostedOK, SavingOK, BuildingOK, CompleteBeforeExecution,
       ReleasedOrderIsTracked, Released

(* What the API does to an order it may execute, or forgets, is nothing the   *)
(* submission looks at.                                                       *)
LEMMA ForeignStep ==
    ASSUME TypeInv, BuildInv, UNCHANGED <<tsApi, asApi, pass>>,
           Len(orders') = Len(orders), DOMAIN orders' = DOMAIN orders,
           \A o \in DOMAIN orders :
              /\ orders'[o].test = orders[o].test
              /\ orders'[o].locked = orders[o].locked
              /\ orders'[o].steps = orders[o].steps
              /\ orders'[o].objects = orders[o].objects
    PROVE  BuildInv'
<1>1. UnpostedOK'
  BY DEF BuildInv, UnpostedOK, pass
<1>2. SavingOK'
  <2>1. Len(orders) > 0 => Len(orders) \in DOMAIN orders
    BY DEF TypeInv, TypeOK
  <2> QED BY <2>1 DEF BuildInv, SavingOK, pass
<1>3. BuildingOK'
  <2>1. pc \in {"steps", "saveStep", "object"} => tsApi[cur] \in DOMAIN orders
    BY DEF BuildInv, BuildingOK, TypeInv, TypeOK, PhaseOK, NoId
  <2> QED BY <2>1 DEF BuildInv, BuildingOK, Saved, Sent, pass
<1>4. CompleteBeforeExecution' /\ ReleasedOrderIsTracked'
  BY DEF BuildInv, CompleteBeforeExecution, ReleasedOrderIsTracked, Released
<1> QED BY <1>1, <1>2, <1>3, <1>4 DEF BuildInv

(* A new order is locked and therefore not released. *)
LEMMA AppendedNotReleased ==
    ASSUME TypeInv, NEW t \in TestStatuses, orders' = Append(orders, NewOrder(t))
    PROVE  /\ Released' = Released
           /\ \A o \in Released : orders'[o] = orders[o]
           /\ Len(orders') = Len(orders) + 1
           /\ orders'[Len(orders')] = NewOrder(t)
<1>1. /\ orders \in Seq(Order) /\ Len(orders) \in Nat
      /\ DOMAIN orders = 1..Len(orders)
  BY DEF TypeInv, TypeOK
<1>2. /\ Len(orders') = Len(orders) + 1
      /\ DOMAIN orders' = 1..Len(orders) + 1
      /\ \A o \in 1..Len(orders) : orders'[o] = orders[o]
      /\ orders'[Len(orders) + 1] = NewOrder(t)
  BY <1>1
<1>3. NewOrder(t).locked
  BY DEF NewOrder
<1> QED BY <1>1, <1>2, <1>3 DEF Released

(* Every order of the pass that is still being built is locked and exists. *)
LEMMA Building ==
    ASSUME TypeInv, BuildInv, pc \in {"steps", "saveStep", "object"}
    PROVE  /\ cur \in TestStatuses /\ tsApi[cur] \in DOMAIN orders
           /\ tsApi[cur] \notin Released
           /\ step \in 1..NSteps + 1
BY DEF TypeInv, TypeOK, PhaseOK, BuildInv, BuildingOK, Released, NoId

-----------------------------------------------------------------------------
(* Each step of submission preserves the build invariant.  A request about    *)
(* the order being built changes that order alone; refused, it changes none.  *)
LEMMA SendStep ==
    ASSUME TypeInv, BuildInv, pc \in {"steps", "saveStep", "object"},
           NEW changed, NEW outcome \in {"ok", "refused", "lost"},
           Takes(tsApi[cur], outcome),
           orders' = IF outcome = "refused" THEN orders
                     ELSE [orders EXCEPT ![tsApi[cur]] = changed]
    PROVE  /\ Len(orders') = Len(orders) /\ DOMAIN orders' = DOMAIN orders
           /\ \A o \in DOMAIN orders : o # tsApi[cur] => orders'[o] = orders[o]
           /\ outcome = "refused" => orders' = orders
           /\ outcome # "refused" => orders'[tsApi[cur]] = changed
BY Building DEF TypeInv, TypeOK

(* A posted order is locked, empty and the last; a row is posted only without *)
(* an id.                                                                     *)
LEMMA PostOrderStep ==
    ASSUME TypeInv, BuildInv, NEW t \in TestStatuses, PostOrder(t)
    PROVE  BuildInv'
<1>1. /\ pc = "post" /\ t \in todo /\ tsApi[t] = NoId
      /\ UNCHANGED <<tsApi, asApi>>
  BY DEF PostOrder, BuildInv, UnpostedOK, db
<1>2. CASE orders' = orders /\ Fail
  BY <1>1, <1>2, QuietStep DEF Fail
<1>3. CASE orders' = Append(orders, NewOrder(t))
  <2>1. /\ Released' = Released
        /\ \A o \in Released : orders'[o] = orders[o]
        /\ Len(orders') = Len(orders) + 1
        /\ orders'[Len(orders')] = NewOrder(t)
    BY <1>3, AppendedNotReleased
  <2>2. CompleteBeforeExecution' /\ ReleasedOrderIsTracked'
    BY <1>1, <2>1 DEF BuildInv, CompleteBeforeExecution, ReleasedOrderIsTracked
  <2>3. CASE Fail
    BY <2>2, <2>3 DEF Fail, BuildInv, UnpostedOK, SavingOK, BuildingOK
  <2>4. CASE todo' = todo \ {t} /\ cur' = t /\ UNCHANGED step /\ Goes("saveOrder")
    <3>1. UnpostedOK'
      BY <1>1, <2>4 DEF BuildInv, UnpostedOK, Goes
    <3>2. SavingOK'
      <4>1. Len(orders') > 0
        BY <2>1 DEF TypeInv, TypeOK
      <4> QED BY <1>1, <2>1, <2>4, <4>1 DEF SavingOK, NewOrder
    <3>3. BuildingOK'
      BY <2>4 DEF BuildingOK, Goes
    <3> QED BY <2>2, <3>1, <3>2, <3>3 DEF BuildInv
  <2> QED BY <1>1, <1>3, <2>3, <2>4 DEF PostOrder
<1> QED BY <1>2, <1>3 DEF PostOrder

(* The id is saved in a row that had none, so it hides no released order.     *)
LEMMA SaveOrderStep ==
    ASSUME TypeInv, BuildInv, SaveOrder
    PROVE  BuildInv'
<1>1. /\ pc = "saveOrder" /\ pc' = "steps" /\ step' = 1
      /\ cur \in TestStatuses /\ UNCHANGED <<orders, todo, cur, asApi>>
      /\ tsApi' = [tsApi EXCEPT ![cur] = Len(orders)]
      /\ tsApi \in [TestStatuses -> 0..Len(orders)]
  BY DEF SaveOrder, Goes, TypeInv, TypeOK, PhaseOK
<1>2. /\ tsApi'[cur] = Len(orders)
      /\ \A t \in TestStatuses : t # cur => tsApi'[t] = tsApi[t]
  BY <1>1
<1>3. UnpostedOK'
  BY <1>1, <1>2 DEF BuildInv, UnpostedOK, TypeInv, TypeOK
<1>4. SavingOK'
  BY <1>1 DEF SavingOK
<1>5. BuildingOK'
  <2>1. ObjectSteps \cap 1..step' - 1 = {}
    BY <1>1
  <2>2. Len(orders) # NoId
    BY <1>1 DEF BuildInv, SavingOK, NoId, TypeInv, TypeOK
  <2>3. \A k \in Steps : ~(k <= Saved')
    BY <1>1, StepsAssumption DEF Saved, Steps
  <2> QED BY <1>1, <1>2, <2>1, <2>2, <2>3 DEF BuildInv, SavingOK, BuildingOK, Sent
<1>6. CompleteBeforeExecution'
  BY <1>1 DEF BuildInv, CompleteBeforeExecution, Released
<1>7. ReleasedOrderIsTracked'
  <2>1. \A o \in Released : orders[o].test # cur
    BY <1>1 DEF BuildInv, SavingOK, ReleasedOrderIsTracked, Released, NoId, TypeInv, TypeOK
  <2>2. \A o \in Released : orders[o].test \in TestStatuses
    <3>1. \A o \in Released : orders[o] \in Order
      BY DEF Released, TypeInv, TypeOK
    <3> QED BY <3>1 DEF Order
  <2> QED BY <1>1, <1>2, <2>1, <2>2 DEF BuildInv, ReleasedOrderIsTracked, Released
<1> QED BY <1>3, <1>4, <1>5, <1>6, <1>7 DEF BuildInv

(* A posted step is the next one of the order being built.                    *)
LEMMA PostStepStep ==
    ASSUME TypeInv, BuildInv, PostStep
    PROVE  BuildInv'
<1> DEFINE o == tsApi[cur]
<1> DEFINE changed == [orders[o] EXCEPT !.steps = step]
<1>1. /\ pc \in {"steps", "object"} /\ UNCHANGED <<tsApi, asApi>>
  BY DEF PostStep, db
<1>2. /\ cur \in TestStatuses /\ o \in DOMAIN orders
      /\ o \notin Released /\ step \in 1..NSteps + 1
  BY <1>1, Building
<1>3. PICK outcome \in {"ok", "refused", "lost"} :
        /\ Takes(o, outcome)
        /\ orders' = IF outcome = "refused" THEN orders
                     ELSE [orders EXCEPT ![o] = changed]
        /\ IF outcome = "ok" THEN Goes("saveStep") /\ UNCHANGED <<todo, cur, step>> ELSE Fail
  BY DEF PostStep, Send
<1>4. /\ changed.test = orders[o].test /\ changed.locked = orders[o].locked
      /\ changed.objects = orders[o].objects /\ changed.steps = step
  <2>1. orders[o] \in Order
    BY <1>2 DEF TypeInv, TypeOK
  <2> QED BY <2>1 DEF Order
<1> HIDE DEF changed
<1>5. /\ Len(orders') = Len(orders) /\ DOMAIN orders' = DOMAIN orders
      /\ \A i \in DOMAIN orders : i # o => orders'[i] = orders[i]
      /\ outcome = "refused" => orders' = orders
      /\ outcome # "refused" => orders'[o] = changed
  BY <1>1, <1>3, SendStep
<1>6. CASE outcome = "refused"
  BY <1>1, <1>3, <1>5, <1>6, QuietStep DEF Fail
<1>7. CASE outcome # "refused"
  <2>1. Released' = Released /\ \A i \in Released : orders'[i] = orders[i]
    BY <1>2, <1>4, <1>5, <1>7 DEF Released
  <2>2. CompleteBeforeExecution' /\ ReleasedOrderIsTracked'
    BY <1>1, <2>1 DEF BuildInv, CompleteBeforeExecution, ReleasedOrderIsTracked
  <2>3. CASE Fail
    BY <2>2, <2>3 DEF Fail, BuildInv, UnpostedOK, SavingOK, BuildingOK
  <2>4. CASE Goes("saveStep") /\ UNCHANGED <<todo, cur, step>>
    <3>1. UnpostedOK' /\ SavingOK'
      BY <1>1, <2>4 DEF BuildInv, UnpostedOK, SavingOK, Goes
    <3>2. pc = "steps" /\ pc' = "saveStep"
      BY <2>4 DEF PostStep, Goes
    <3>3. BuildingOK'
      BY <1>1, <1>4, <1>5, <1>7, <2>4, <3>2 DEF BuildInv, BuildingOK, Saved, Sent
    <3> QED BY <2>2, <3>1, <3>3 DEF BuildInv
  <2> QED BY <1>3, <1>7, <2>3, <2>4
<1> QED BY <1>6, <1>7

(* A posted object belongs to the step whose id was saved last.               *)
LEMMA PostObjectStep ==
    ASSUME TypeInv, BuildInv, PostObject
    PROVE  BuildInv'
<1> DEFINE o == tsApi[cur]
<1> DEFINE changed == [orders[o] EXCEPT !.objects = @ \cup {step}]
<1>1. /\ pc \in {"steps", "object"} /\ UNCHANGED <<tsApi, asApi>>
  BY DEF PostObject, db
<1>2. /\ cur \in TestStatuses /\ o \in DOMAIN orders
      /\ o \notin Released /\ step \in 1..NSteps + 1
  BY <1>1, Building
<1>3. PICK outcome \in {"ok", "refused", "lost"} :
        /\ Takes(o, outcome)
        /\ orders' = IF outcome = "refused" THEN orders
                     ELSE [orders EXCEPT ![o] = changed]
        /\ IF outcome = "ok" THEN Goes("steps") /\ step' = step + 1 /\ UNCHANGED <<todo, cur>> ELSE Fail
  BY DEF PostObject, Send
<1>4. /\ changed.test = orders[o].test /\ changed.locked = orders[o].locked
      /\ changed.objects = orders[o].objects \cup {step}
      /\ changed.steps = orders[o].steps
  <2>1. orders[o] \in Order
    BY <1>2 DEF TypeInv, TypeOK
  <2> QED BY <2>1 DEF Order
<1> HIDE DEF changed
<1>5. /\ Len(orders') = Len(orders) /\ DOMAIN orders' = DOMAIN orders
      /\ \A i \in DOMAIN orders : i # o => orders'[i] = orders[i]
      /\ outcome = "refused" => orders' = orders
      /\ outcome # "refused" => orders'[o] = changed
  BY <1>1, <1>3, SendStep
<1>6. CASE outcome = "refused"
  BY <1>1, <1>3, <1>5, <1>6, QuietStep DEF Fail
<1>7. CASE outcome # "refused"
  <2>1. Released' = Released /\ \A i \in Released : orders'[i] = orders[i]
    BY <1>2, <1>4, <1>5, <1>7 DEF Released
  <2>2. CompleteBeforeExecution' /\ ReleasedOrderIsTracked'
    BY <1>1, <2>1 DEF BuildInv, CompleteBeforeExecution, ReleasedOrderIsTracked
  <2>3. CASE Fail
    BY <2>2, <2>3 DEF Fail, BuildInv, UnpostedOK, SavingOK, BuildingOK
  <2>4. CASE Goes("steps") /\ step' = step + 1 /\ UNCHANGED <<todo, cur>>
    <3>1. UnpostedOK' /\ SavingOK'
      BY <1>1, <2>4 DEF PostObject, BuildInv, UnpostedOK, SavingOK, Goes
    <3>2. pc = "object" /\ pc' = "steps" /\ step \in ObjectSteps
      BY <2>4 DEF PostObject, Goes, TypeInv, PhaseOK
    <3>3. ObjectSteps \cap 1..step' - 1 = (ObjectSteps \cap 1..step - 1) \cup {step}
      BY <1>2, <2>4, <3>2, StepsAssumption DEF Steps
    <3>4. step' - 1 = step
      BY <1>2, <2>4, StepsAssumption
    <3>5. BuildingOK'
      BY <1>1, <1>4, <1>5, <1>7, <2>4, <3>2, <3>3, <3>4
         DEF BuildInv, BuildingOK, Saved, Sent
    <3> QED BY <2>2, <3>1, <3>5 DEF BuildInv
  <2> QED BY <1>3, <1>7, <2>3, <2>4
<1> QED BY <1>6, <1>7

(* The step's id is saved for the order being built, which is not released.   *)
LEMMA SaveStepStep ==
    ASSUME TypeInv, BuildInv, SaveStep
    PROVE  BuildInv'
<1>1. /\ pc = "saveStep" /\ UNCHANGED <<orders, tsApi, todo, cur>>
      /\ asApi' = [asApi EXCEPT ![cur][step] = tsApi[cur]]
      /\ \/ step \in ObjectSteps /\ pc' = "object" /\ step' = step
         \/ step \notin ObjectSteps /\ pc' = "steps" /\ step' = step + 1
  BY DEF SaveStep, Goes
<1>2. /\ cur \in TestStatuses /\ tsApi[cur] \in DOMAIN orders
      /\ tsApi[cur] \notin Released /\ step \in Steps
  BY <1>1, Building, StepsAssumption DEF TypeInv, PhaseOK, Steps
<1>3. /\ \A t \in TestStatuses : t # cur => asApi'[t] = asApi[t]
      /\ \A k \in Steps : asApi'[cur][k] = IF k = step THEN tsApi[cur] ELSE asApi[cur][k]
  BY <1>1, <1>2 DEF TypeInv, TypeOK
<1>4. UnpostedOK' /\ SavingOK'
  BY <1>1 DEF BuildInv, UnpostedOK, SavingOK
<1>5. BuildingOK'
  <2>1. \A k \in Steps : k <= step => asApi'[cur][k] = tsApi[cur]
    BY <1>1, <1>2, <1>3, StepsAssumption DEF BuildInv, BuildingOK, Saved, Steps
  <2>2. Saved' = step /\ Sent' = step
    BY <1>1, <1>2, StepsAssumption DEF Saved, Sent, Steps
  <2>3. ObjectSteps \cap 1..step' - 1 = ObjectSteps \cap 1..step - 1
    BY <1>1, <1>2, StepsAssumption DEF Steps
  <2> QED BY <1>1, <2>1, <2>2, <2>3 DEF BuildInv, BuildingOK, Sent
<1>6. CompleteBeforeExecution'
  BY <1>1 DEF BuildInv, CompleteBeforeExecution, Released
<1>7. ReleasedOrderIsTracked'
  <2>1. \A o \in Released : orders[o].test # cur
    BY <1>2 DEF BuildInv, ReleasedOrderIsTracked
  <2>2. \A o \in Released : orders[o].test \in TestStatuses
    <3>1. \A o \in Released : orders[o] \in Order
      BY DEF Released, TypeInv, TypeOK
    <3> QED BY <3>1 DEF Order
  <2> QED BY <1>1, <1>3, <2>1, <2>2 DEF BuildInv, ReleasedOrderIsTracked, Released
<1> QED BY <1>4, <1>5, <1>6, <1>7 DEF BuildInv


(* The order is released when its last step has been posted and saved.        *)
LEMMA UnlockStep ==
    ASSUME TypeInv, BuildInv, Unlock
    PROVE  BuildInv'
<1> DEFINE o == tsApi[cur]
<1> DEFINE changed == [orders[o] EXCEPT !.locked = FALSE]
<1>1. /\ pc \in {"steps", "object"} /\ UNCHANGED <<tsApi, asApi>>
  BY DEF Unlock, db
<1>2. /\ cur \in TestStatuses /\ o \in DOMAIN orders
      /\ o \notin Released /\ step \in 1..NSteps + 1
  BY <1>1, Building
<1>3. PICK outcome \in {"ok", "refused", "lost"} :
        /\ Takes(o, outcome)
        /\ orders' = IF outcome = "refused" THEN orders
                     ELSE [orders EXCEPT ![o] = changed]
        /\ IF outcome = "ok" THEN Goes("post") /\ cur' = NoTest /\ step' = 0 /\ UNCHANGED todo ELSE Fail
  BY DEF Unlock, Send
<1>4. /\ changed.test = orders[o].test /\ changed.locked = FALSE
      /\ changed.objects = orders[o].objects /\ changed.steps = orders[o].steps
  <2>1. orders[o] \in Order
    BY <1>2 DEF TypeInv, TypeOK
  <2> QED BY <2>1 DEF Order
<1> HIDE DEF changed
<1>5. /\ Len(orders') = Len(orders) /\ DOMAIN orders' = DOMAIN orders
      /\ \A i \in DOMAIN orders : i # o => orders'[i] = orders[i]
      /\ outcome = "refused" => orders' = orders
      /\ outcome # "refused" => orders'[o] = changed
  BY <1>1, <1>3, SendStep
<1>6. CASE outcome = "refused"
  BY <1>1, <1>3, <1>5, <1>6, QuietStep DEF Fail
<1>7. CASE outcome # "refused"
  <2>1. /\ Released' = Released \cup {o}
        /\ \A i \in Released : orders'[i] = orders[i]
    BY <1>2, <1>4, <1>5, <1>7 DEF Released
  <2>2. pc = "steps" /\ step = NSteps + 1 /\ step - 1 = NSteps
    BY <1>2, StepsAssumption DEF Unlock
  <2>3. ObjectSteps \cap 1..step - 1 = ObjectSteps
    BY <2>2, StepsAssumption DEF Steps
  <2>4. /\ orders'[o].test = cur /\ orders'[o].steps = NSteps
        /\ orders'[o].objects = ObjectSteps
        /\ \A k \in Steps : asApi[cur][k] = o
    <3>1. Sent = NSteps /\ Saved = NSteps
      BY <2>2 DEF Sent, Saved
    <3>2. \A k \in Steps : k <= NSteps
      BY StepsAssumption DEF Steps
    <3>3. /\ orders[o].test = cur /\ orders[o].steps = NSteps
          /\ orders[o].objects = ObjectSteps
          /\ \A k \in Steps : asApi[cur][k] = o
      BY <2>2, <2>3, <3>1, <3>2 DEF BuildInv, BuildingOK
    <3> QED BY <1>4, <1>5, <1>7, <3>3
  <2>5. CompleteBeforeExecution' /\ ReleasedOrderIsTracked'
    BY <1>1, <2>1, <2>4 DEF BuildInv, CompleteBeforeExecution, ReleasedOrderIsTracked
  <2>6. CASE Fail
    BY <2>5, <2>6 DEF Fail, BuildInv, UnpostedOK, SavingOK, BuildingOK
  <2>7. CASE Goes("post") /\ UNCHANGED todo
    BY <1>1, <2>5, <2>7 DEF Goes, BuildInv, UnpostedOK, SavingOK, BuildingOK
  <2> QED BY <1>3, <1>7, <2>6, <2>7
<1> QED BY <1>6, <1>7

(* Every step preserves the build invariant. *)
LEMMA BuildStep ==
    ASSUME TypeInv, BuildInv, Next
    PROVE  BuildInv'
<1>1. CASE StartRake \/ BeginPass
  BY <1>1, QuietStep DEF StartRake, BeginPass, Poll, db
<1>2. CASE Requeue
  BY <1>2, QuietStep DEF Requeue, db
<1>3. CASE PollTestSteps
  <2>1. pc' \in {"tests", "idle"} /\ UNCHANGED <<orders, tsApi, asApi>>
    BY <1>3 DEF PollTestSteps, Goes, Fail
  <2> QED BY <2>1, QuietStep
<1>4. CASE LoadActions
  BY <1>4, QuietStep DEF LoadActions, Goes, db
<1>5. CASE LoadPosts
  <2>1. /\ pc' = "post" /\ UNCHANGED <<orders, tsApi, asApi>>
        /\ \A t \in todo' : tsApi'[t] = NoId
    BY <1>5, BatchesAreRows DEF LoadPosts, Goes, db, UnpostedTests
  <2> QED
    BY <2>1 DEF BuildInv, UnpostedOK, SavingOK, BuildingOK, CompleteBeforeExecution,
                ReleasedOrderIsTracked, Released
<1>6. CASE SaveOrder
  BY <1>6, SaveOrderStep
<1>7. CASE PostStep
  BY <1>7, PostStepStep
<1>8. CASE SaveStep
  BY <1>8, SaveStepStep
<1>9. CASE PostObject
  BY <1>9, PostObjectStep
<1>10. CASE Unlock
  BY <1>10, UnlockStep
<1>11. CASE \E t \in TestStatuses : PollTest(t)
  <2>1. /\ pc' \in {"tests", "testSteps", "idle"}
        /\ UNCHANGED <<orders, tsApi, asApi>>
    BY <1>11 DEF PollTest, GiveUp, Goes, Fail, db
  <2> QED BY <2>1, QuietStep
<1>12. CASE \E t \in TestStatuses : PollActions(t)
  <2>1. /\ pc' \in {"actions", "idle"}
        /\ UNCHANGED <<orders, tsApi, asApi>>
    BY <1>12 DEF PollActions, GiveUp, Goes, Fail, db
  <2> QED BY <2>1, QuietStep
<1>13. CASE \E t \in TestStatuses : PostOrder(t)
  BY <1>13, PostOrderStep
<1>14. CASE Crash
  BY <1>14, QuietStep DEF Crash, db
<1>15. CASE \/ \E rt \in RunTests : CreateRun(rt)
            \/ Restart \/ Tick
            \/ \E b \in Browsers : ArchiveBrowser(b)
  <2>1. UNCHANGED <<orders, tsApi, asApi, pass>>
    BY <1>15 DEF CreateRun, Restart, Tick, ArchiveBrowser, db
  <2> QED
    BY <2>1, ForeignStep
<1>16. CASE ApiMoves
  <2>1. PICK o \in DOMAIN orders :
          \/ \E v \in Verdicts : ApiFinish(o, v) \/ \E k \in Steps : ApiStep(o, k, v)
          \/ ApiForget(o)
    BY <1>16 DEF ApiMoves
  <2>2. UNCHANGED <<tsApi, asApi, pass>>
    BY <2>1 DEF ApiFinish, ApiStep, ApiForget, db
  <2>3. orders \in Seq(Order) /\ orders[o] \in Order
    BY DEF TypeInv, TypeOK
  <2>4. /\ Len(orders') = Len(orders) /\ DOMAIN orders' = DOMAIN orders
        /\ \A i \in DOMAIN orders : i # o => orders'[i] = orders[i]
    BY <2>1, <2>3 DEF ApiFinish, ApiStep, ApiForget
  <2>5. /\ orders'[o].test = orders[o].test
        /\ orders'[o].locked = orders[o].locked
        /\ orders'[o].steps = orders[o].steps
        /\ orders'[o].objects = orders[o].objects
    BY <2>1, <2>3 DEF ApiFinish, ApiStep, ApiForget, Order
  <2> QED BY <2>2, <2>4, <2>5, ForeignStep
<1> QED
  BY <1>1, <1>2, <1>3, <1>4, <1>5, <1>6, <1>7, <1>8, <1>9, <1>10, <1>11, <1>12,
     <1>13, <1>14, <1>15, <1>16 DEF Next, WorkerStep

(* The initial state builds nothing. *)
LEMMA BuildInit == Init => BuildInv
BY DEF Init, BuildInv, UnpostedOK, SavingOK, BuildingOK, CompleteBeforeExecution,
       ReleasedOrderIsTracked, Released

(* The inductive invariant holds in every reachable state. *)
LEMMA Invariance == Spec => []IInv
<1>1. Init => IInv
  BY TypeInit, BuildInit DEF IInv
<1>2. IInv /\ [Next]_vars => IInv'
  <2>1. CASE IInv /\ Next
    BY <2>1, TypeStep, BuildStep DEF IInv
  <2>2. CASE IInv /\ UNCHANGED vars
    <3>1. TypeInv'
      BY <2>2, TypeInductive DEF IInv
    <3>2. BuildInv'
      <4>1. UNCHANGED <<orders, tsApi, asApi, pass>>
        BY <2>2 DEF vars, db
      <4> QED BY <2>2, <4>1, ForeignStep DEF IInv
    <3> QED BY <3>1, <3>2 DEF IInv
  <2> QED BY <2>1, <2>2
<1> QED BY <1>1, <1>2, PTL DEF Spec

(* The API may execute only orders that carry every step and every object.    *)
THEOREM CompleteOrders == Spec => []CompleteBeforeExecution
<1>1. IInv => CompleteBeforeExecution
  BY DEF IInv, BuildInv
<1> QED BY <1>1, Invariance, PTL

(* The API may execute only orders whose ids the database holds, hence at     *)
(* most one order of a test status, whatever was lost or crashed before.      *)
THEOREM TrackedOrders == Spec => []ReleasedOrderIsTracked
<1>1. IInv => ReleasedOrderIsTracked
  BY DEF IInv, BuildInv
<1> QED BY <1>1, Invariance, PTL

(* SaveOrder alone writes an order id, in a row that has none.                *)
LEMMA IdKept ==
    ASSUME IInv, Next, NEW t \in TestStatuses, tsApi[t] # NoId
    PROVE  tsApi'[t] = tsApi[t]
<1>1. CASE SaveOrder
  <2>1. t # cur
    BY <1>1 DEF SaveOrder, IInv, BuildInv, SavingOK
  <2> QED BY <1>1, <2>1 DEF SaveOrder, IInv, TypeInv, TypeOK
<1>2. CASE ~SaveOrder
  BY <1>2 DEF Next, WorkerStep, StartRake, BeginPass, Poll, Requeue, PollTestSteps,
     LoadActions, LoadPosts, PostStep, SaveStep, PostObject, Unlock, PollTest,
     PollActions, PostOrder, GiveUp, CreateRun, Crash, Restart, Tick, ArchiveBrowser,
     ApiMoves, ApiFinish, ApiStep, ApiForget, db
<1> QED BY <1>1, <1>2

(* No step of the system replaces the order id of a test status.              *)
THEOREM WriteOnce == Spec => ApiIdWriteOnce
<1>1. IInv /\ [Next]_vars =>
        [\A t \in TestStatuses : tsApi[t] # NoId => tsApi'[t] = tsApi[t]]_vars
  BY IdKept
<1> QED BY <1>1, Invariance, PTL DEF Spec, ApiIdWriteOnce

-----------------------------------------------------------------------------
(* A process read the clock in the past; the pass visits, and gives verdicts  *)
(* to, compiled run tests only.                                               *)
ClockOK == clock >= 1 /\ \A c \in {"rake", "job"} : loadedAt[c] <= clock
BornOK == /\ \A t \in todo : born[t[1]] > 0
          /\ \A t \in TestStatuses : tsSuccess[t] # "pending" => born[t[1]] > 0

(* The rows still to be polled for a verdict have none. *)
PollOK == pc \in {"tests", "testSteps"} => \A t \in todo : tsSuccess[t] = "pending"

AgeInv == ClockOK /\ BornOK /\ PollOK /\ FailureIsRealOrOld

(* Orders are never removed, and what the API has decided stays decided.      *)
LEMMA OrderKept ==
    ASSUME IInv, Next, NEW o \in DOMAIN orders
    PROVE  /\ orders'[o].test = orders[o].test
           /\ orders[o].verdict # "pending" => orders'[o].verdict = orders[o].verdict
           /\ orders'[o].verdict # orders[o].verdict => ~orders[o].locked
           /\ ~orders[o].locked => ~orders'[o].locked
           /\ \A k \in Steps : orders[o].results[k] # "pending" =>
                 orders'[o].results[k] = orders[o].results[k]
<1>1. /\ orders \in Seq(Order) /\ \A i \in DOMAIN orders : orders[i] \in Order
      /\ o \in 1..Len(orders)
  BY DEF IInv, TypeInv, TypeOK
<1>2. CASE orders' = orders
  BY <1>2
<1>3. CASE \E t \in TestStatuses : orders' = Append(orders, NewOrder(t))
  BY <1>1, <1>3
<1>4. CASE PostStep
  <2>1. orders' = orders \/ orders' = [orders EXCEPT ![tsApi[cur]] =
                                         [orders[tsApi[cur]] EXCEPT !.steps = step]]
    BY <1>4 DEF PostStep, Send
  <2>2. LET ord == [orders[o] EXCEPT !.steps = step]
        IN  /\ ord.test = orders[o].test /\ ord.verdict = orders[o].verdict
            /\ ord.results = orders[o].results
            /\ ~orders[o].locked => ~ord.locked
    BY <1>1 DEF Order
  <2> QED BY <1>1, <2>1, <2>2
<1>5. CASE PostObject
  <2>1. orders' = orders \/ orders' = [orders EXCEPT ![tsApi[cur]] =
                             [orders[tsApi[cur]] EXCEPT !.objects = @ \cup {step}]]
    BY <1>5 DEF PostObject, Send
  <2>2. LET ord == [orders[o] EXCEPT !.objects = @ \cup {step}]
        IN  /\ ord.test = orders[o].test /\ ord.verdict = orders[o].verdict
            /\ ord.results = orders[o].results
            /\ ~orders[o].locked => ~ord.locked
    BY <1>1 DEF Order
  <2> QED BY <1>1, <2>1, <2>2
<1>6. CASE Unlock
  <2>1. orders' = orders \/ orders' = [orders EXCEPT ![tsApi[cur]] =
                                         [orders[tsApi[cur]] EXCEPT !.locked = FALSE]]
    BY <1>6 DEF Unlock, Send
  <2>2. LET ord == [orders[o] EXCEPT !.locked = FALSE]
        IN  /\ ord.test = orders[o].test /\ ord.verdict = orders[o].verdict
            /\ ord.results = orders[o].results
            /\ ~ord.locked
    BY <1>1 DEF Order
  <2> QED BY <1>1, <2>1, <2>2
<1>7. CASE ApiMoves
  <2>1. PICK i \in DOMAIN orders :
          \/ \E v \in Verdicts : ApiFinish(i, v) \/ \E k \in Steps : ApiStep(i, k, v)
          \/ ApiForget(i)
    BY <1>7 DEF ApiMoves
  <2>2. CASE i # o
    BY <1>1, <2>1, <2>2 DEF ApiFinish, ApiStep, ApiForget
  <2>3. CASE i = o /\ \E v \in Verdicts : ApiFinish(i, v)
    <3>1. PICK v \in Verdicts :
            /\ ~orders[o].locked /\ orders[o].verdict = "pending"
            /\ orders' = [orders EXCEPT ![o].verdict = v]
      BY <2>3 DEF ApiFinish
    <3>2. /\ orders'[o].test = orders[o].test /\ orders'[o].results = orders[o].results
          /\ orders'[o].locked = orders[o].locked
      BY <1>1, <3>1 DEF Order
    <3> QED BY <3>1, <3>2
  <2>4. CASE i = o /\ \E v \in Verdicts, k \in Steps : ApiStep(i, k, v)
    <3>1. PICK v \in Verdicts, k \in Steps :
            /\ orders[o].results[k] = "pending"
            /\ orders' = [orders EXCEPT ![o].results[k] = v]
      BY <2>4 DEF ApiStep
    <3>2. /\ orders'[o].test = orders[o].test /\ orders'[o].verdict = orders[o].verdict
          /\ orders'[o].locked = orders[o].locked
          /\ orders'[o].results = [orders[o].results EXCEPT ![k] = v]
      BY <1>1, <3>1 DEF Order
    <3>3. orders[o].results \in [Steps -> Verdicts]
      BY <1>1 DEF Order
    <3> QED BY <3>1, <3>2, <3>3
  <2>5. CASE i = o /\ ApiForget(i)
    BY <1>1, <2>5 DEF ApiForget, Order
  <2> QED BY <2>1, <2>2, <2>3, <2>4, <2>5
<1> QED
  BY <1>2, <1>3, <1>4, <1>5, <1>6, <1>7 DEF Next, WorkerStep, StartRake, BeginPass,
     Poll, Requeue, PollTestSteps, LoadActions, LoadPosts, SaveOrder, SaveStep,
     PollTest, PollActions, PostOrder, CreateRun, Crash, Restart, Tick, ArchiveBrowser

(* Time goes on, and the birth of a compiled run test does not change.        *)
LEMMA TimeGoesOn ==
    ASSUME IInv, AgeInv, Next
    PROVE  /\ clock <= clock' /\ ClockOK'
           /\ \A rt \in RunTests : born[rt] > 0 => born'[rt] = born[rt]
<1>6. ASSUME WorkerStep
      PROVE  UNCHANGED <<born, clock, loadedAt>>
  BY <1>6 DEF WorkerStep, BeginPass, Poll, Requeue, PollTestSteps, LoadActions,
     LoadPosts, SaveOrder, PostStep, SaveStep, PostObject, Unlock, PollTest,
     PollActions, PostOrder, GiveUp, db, env
<1> USE DEF IInv, TypeInv, TypeOK, AgeInv, ClockOK
<1>1. CASE Tick
  BY <1>1 DEF Tick, db
<1>2. CASE StartRake \/ Crash \/ Restart
  BY <1>2 DEF StartRake, Poll, Crash, Restart, db
<1>3. CASE \E rt \in RunTests : CreateRun(rt)
  BY <1>3 DEF CreateRun, env
<1>4. CASE \E b \in Browsers : ArchiveBrowser(b)
  BY <1>4 DEF ArchiveBrowser, db
<1>5. CASE ApiMoves
  BY <1>5 DEF ApiMoves, ApiFinish, ApiStep, ApiForget, db, env
<1> QED BY <1>1, <1>2, <1>3, <1>4, <1>5, <1>6 DEF Next

(* A pass visits compiled run tests only, and gives verdicts to no others.    *)
LEMMA BornStep ==
    ASSUME IInv, AgeInv, Next
    PROVE  BornOK'
<1>1. \A rt \in RunTests : born[rt] > 0 => born'[rt] > 0
  BY TimeGoesOn
<1>2. \A t \in TestStatuses : t[1] \in RunTests
  BY DEF TestStatuses
<1>3. todo \subseteq TestStatuses
  BY DEF IInv, TypeInv, TypeOK
<1>4. \A t \in todo' : t \in TestStatuses /\ born[t[1]] > 0
  <2>1. CASE todo' \subseteq todo
    BY <1>3, <2>1 DEF AgeInv, BornOK
  <2>2. CASE StartRake \/ BeginPass
    BY <2>2, BatchesAreRows DEF StartRake, BeginPass, Poll, PendingTests, Created
  <2>3. CASE LoadActions
    BY <2>3 DEF LoadActions, Siblings, Created
  <2>4. CASE LoadPosts
    BY <2>4, BatchesAreRows DEF LoadPosts, UnpostedTests, Created
  <2>5. CASE PostStep \/ PostObject \/ Unlock
    <3>1. todo' \in {todo, {}}
      BY <2>5 DEF PostStep, PostObject, Unlock, Send, Fail, Rest
    <3> QED BY <3>1, <2>1
  <2>6. CASE Requeue \/ PollTestSteps \/ SaveOrder \/ SaveStep \/ Crash
    <3>1. todo' \in {todo, {}}
      BY <2>6 DEF Requeue, PollTestSteps, SaveOrder, SaveStep, Crash, Fail, Rest
    <3> QED BY <3>1, <2>1
  <2>7. CASE \E t \in TestStatuses : PollTest(t) \/ PollActions(t) \/ PostOrder(t)
    <3>1. PICK t \in TestStatuses : todo' \in {todo \ {t}, {}}
      BY <2>7 DEF PollTest, PollActions, PostOrder, Fail, Rest, GiveUp
    <3> QED BY <3>1, <2>1
  <2>8. CASE \/ \E rt \in RunTests : CreateRun(rt)
             \/ Restart \/ Tick \/ ApiMoves
             \/ \E b \in Browsers : ArchiveBrowser(b)
    <3>1. UNCHANGED todo
      BY <2>8 DEF CreateRun, Restart, Tick, ArchiveBrowser, ApiMoves, ApiFinish,
         ApiStep, ApiForget, pass
    <3> QED BY <3>1, <2>1
  <2> QED
    BY <2>2, <2>3, <2>4, <2>5, <2>6, <2>7, <2>8 DEF Next, WorkerStep
<1>5. \A t \in TestStatuses : tsSuccess'[t] # tsSuccess[t] => t \in todo
  BY DEF Next, WorkerStep, StartRake, BeginPass, Poll, Requeue, PollTestSteps,
     LoadActions, LoadPosts, SaveOrder, PostStep, SaveStep, PostObject, Unlock, PollTest,
     PollActions, PostOrder, GiveUp, CreateRun, Crash, Restart, Tick, ArchiveBrowser,
     ApiMoves, ApiFinish, ApiStep, ApiForget, db, IInv, TypeInv, TypeOK
<1> QED BY <1>1, <1>2, <1>4, <1>5 DEF AgeInv, BornOK

(* Only a poll changes a verdict: to what the API says of the row's order, or *)
(* to failed when the row is older than a window of the process.              *)
LEMMA VerdictStep ==
    ASSUME IInv, AgeInv, Next, NEW t \in TestStatuses, tsSuccess'[t] # tsSuccess[t]
    PROVE  /\ UNCHANGED <<born, orders, tsApi, clock>>
           /\ \/ /\ tsSuccess[t] = "pending"
                 /\ tsApi[t] # NoId /\ tsSuccess'[t] = orders[tsApi[t]].verdict
              \/ tsSuccess'[t] = "failed" /\ born[t[1]] + FailureWindow < clock
<1>1. PICK s \in TestStatuses : PollTest(s) \/ PollActions(s)
  BY DEF Next, WorkerStep, StartRake, BeginPass, Poll, Requeue, PollTestSteps,
     LoadActions, LoadPosts, SaveOrder, PostStep, SaveStep, PostObject, Unlock,
     PostOrder, CreateRun, Crash, Restart, Tick, ArchiveBrowser,
     ApiMoves, ApiFinish, ApiStep, ApiForget, db
<1>2. UNCHANGED <<born, orders, tsApi, clock>>
  BY <1>1 DEF PollTest, PollActions, GiveUp, db, env
<1>3. pc # "idle" /\ s \in todo
  BY <1>1 DEF PollTest, PollActions
<1>4. \/ /\ tsSuccess' = [tsSuccess EXCEPT ![s] = orders[tsApi[s]].verdict]
         /\ Answers(tsApi[s], "ok") /\ pc = "tests"
      \/ /\ tsSuccess' = [tsSuccess EXCEPT ![s] = "failed"]
         /\ \E reply : GivesUp(s, reply)
  BY <1>1 DEF PollTest, PollActions, GiveUp, db
<1>5. t = s
  BY <1>4 DEF IInv, TypeInv, TypeOK
<1>6. CASE Answers(tsApi[s], "ok") /\ pc = "tests"
           /\ tsSuccess' = [tsSuccess EXCEPT ![s] = orders[tsApi[s]].verdict]
  <2>1. tsApi[s] # NoId
    BY <1>6, BoundAssumption DEF Answers, InApi
  <2>2. tsSuccess[s] = "pending"
    BY <1>3, <1>6 DEF AgeInv, PollOK
  <2> QED BY <1>2, <1>5, <1>6, <2>1, <2>2 DEF IInv, TypeInv, TypeOK
<1>7. CASE tsSuccess' = [tsSuccess EXCEPT ![s] = "failed"]
           /\ \E reply : GivesUp(s, reply)
  <2>1. /\ loadedAt[chain] <= clock /\ loadedAt[chain] \in Nat /\ clock \in Nat
        /\ born[s[1]] \in Nat
    BY <1>3 DEF IInv, TypeInv, TypeOK, PhaseOK, AgeInv, ClockOK, TestStatuses
  <2>2. born[s[1]] + FailureWindow < loadedAt[chain]
    BY <1>7, <2>1, WindowAssumption DEF GivesUp, AgedOut, FailOld, Loaded
  <2>3. born[s[1]] + FailureWindow < clock
    BY <2>1, <2>2, WindowAssumption
  <2> QED BY <1>2, <1>5, <1>7, <2>3 DEF IInv, TypeInv, TypeOK
<1> QED BY <1>4, <1>6, <1>7

(* The rows a poll has not visited yet keep waiting for their verdict.        *)
LEMMA PollStep ==
    ASSUME IInv, AgeInv, Next
    PROVE  PollOK'
<1>1. CASE pc' \notin {"tests", "testSteps"}
  BY <1>1 DEF PollOK
<1>2. CASE StartRake \/ BeginPass
  <2>1. todo' \subseteq PendingTests /\ UNCHANGED tsSuccess
    BY <1>2, BatchesAreRows DEF StartRake, BeginPass, Poll, db
  <2> QED BY <2>1 DEF PollOK, PendingTests
<1>3. CASE \E t \in TestStatuses : PollTest(t) /\ pc' \in {"tests", "testSteps"}
  <2>1. PICK t \in TestStatuses : PollTest(t)
    BY <1>3
  <2>2. todo' = {} \/ (todo' = todo \ {t} /\ pc = "tests"
                       /\ \E v : tsSuccess' = [tsSuccess EXCEPT ![t] = v])
    BY <2>1 DEF PollTest, GiveUp, Fail, Rest
  <2> QED BY <2>2 DEF AgeInv, PollOK, IInv, TypeInv, TypeOK
<1>4. CASE pc \in {"tests", "testSteps"} /\ UNCHANGED <<todo, tsSuccess>>
  BY <1>4 DEF AgeInv, PollOK
<1>5. CASE PollTestSteps
  <2>1. pc = "testSteps" /\ UNCHANGED tsSuccess /\ todo' \in {todo, {}}
    BY <1>5 DEF PollTestSteps, Fail, Rest
  <2> QED BY <2>1 DEF AgeInv, PollOK
<1>6. CASE PostStep \/ PostObject \/ Unlock
  <2>1. pc' \notin {"tests", "testSteps"}
    BY <1>6 DEF PostStep, PostObject, Unlock, Send, Goes, Fail
  <2> QED BY <2>1, <1>1
<1>7. CASE \E t \in TestStatuses : PollActions(t)
  <2>1. pc' \notin {"tests", "testSteps"}
    BY <1>7 DEF PollActions, GiveUp, Goes, Fail
  <2> QED BY <2>1, <1>1
<1>8. CASE UNCHANGED pass /\ UNCHANGED tsSuccess
  BY <1>8 DEF AgeInv, PollOK, pass
<1> QED
  BY <1>1, <1>2, <1>3, <1>5, <1>6, <1>7, <1>8 DEF Next, WorkerStep, Requeue,
     LoadActions, LoadPosts, SaveOrder, SaveStep, PostOrder, CreateRun, Crash, Restart,
     Tick, ArchiveBrowser, ApiMoves, ApiFinish, ApiStep, ApiForget, Goes, Fail, db

(* A failure keeps its reason: the API's verdict stays and the row gets older. *)
LEMMA FailureStep ==
    ASSUME IInv, AgeInv, Next
    PROVE  FailureIsRealOrOld'
<1> SUFFICES ASSUME NEW t \in TestStatuses, tsSuccess'[t] = "failed"
             PROVE  \/ tsApi'[t] # NoId /\ orders'[tsApi'[t]].verdict = "failed"
                    \/ born'[t[1]] + FailureWindow < clock'
  BY DEF FailureIsRealOrOld
<1>1. CASE tsSuccess'[t] # tsSuccess[t]
  BY <1>1, VerdictStep
<1>2. CASE tsSuccess[t] = "failed" /\ tsApi[t] # NoId /\ orders[tsApi[t]].verdict = "failed"
  <2>1. tsApi[t] \in DOMAIN orders
    BY <1>2 DEF IInv, TypeInv, TypeOK, NoId
  <2> QED BY <1>2, <2>1, IdKept, OrderKept
<1>3. CASE tsSuccess[t] = "failed" /\ born[t[1]] + FailureWindow < clock
  <2>1. t[1] \in RunTests /\ born[t[1]] > 0
    BY <1>3 DEF TestStatuses, AgeInv, BornOK
  <2>2. born'[t[1]] = born[t[1]] /\ clock <= clock'
    BY <2>1, TimeGoesOn
  <2>3. clock \in Nat /\ clock' \in Nat /\ born[t[1]] \in Nat
    BY <2>1, TypeStep DEF IInv, TypeInv, TypeOK
  <2> QED BY <1>3, <2>2, <2>3, WindowAssumption
<1> QED BY <1>1, <1>2, <1>3 DEF AgeInv, FailureIsRealOrOld

(* Ages and verdicts stay consistent in every reachable state. *)
LEMMA AgeInvariance == Spec => [](IInv /\ AgeInv)
<1>1. Init => AgeInv
  BY DEF Init, AgeInv, ClockOK, BornOK, PollOK, FailureIsRealOrOld
<1>2. IInv /\ AgeInv /\ [Next]_vars => AgeInv'
  <2>1. CASE IInv /\ AgeInv /\ Next
    BY <2>1, TimeGoesOn, BornStep, PollStep, FailureStep DEF AgeInv
  <2>2. CASE AgeInv /\ UNCHANGED vars
    BY <2>2 DEF AgeInv, ClockOK, BornOK, PollOK, FailureIsRealOrOld, vars, db, pass, env
  <2> QED BY <2>1, <2>2
<1> QED BY <1>1, <1>2, Invariance, PTL DEF Spec

(* No row is failed that is neither failed by the API nor older than three    *)
(* days: a recent order survives every error answer.                          *)
THEOREM FailuresAreRealOrOld == Spec => []FailureIsRealOrOld
<1>1. AgeInv => FailureIsRealOrOld
  BY DEF AgeInv
<1> QED BY <1>1, AgeInvariance, PTL

(* A recorded verdict changes only to failed, and only by age.                *)
THEOREM VerdictsAreFinalButForAge == Spec => VerdictChangesOnlyByAge
<1>1. IInv /\ AgeInv /\ [Next]_vars =>
        [\A t \in TestStatuses :
           tsSuccess[t] # "pending" /\ tsSuccess'[t] # tsSuccess[t] =>
             tsSuccess'[t] = "failed" /\ born[t[1]] + FailureWindow < clock]_vars
  BY VerdictStep
<1> QED BY <1>1, AgeInvariance, PTL DEF Spec, VerdictChangesOnlyByAge

-----------------------------------------------------------------------------
(* The order a row holds is the one posted for it. *)
OwnOrder == \A t \in TestStatuses : tsApi[t] # NoId => orders[tsApi[t]].test = t

RealInv == OwnOrder /\ PassIsReal

(* SaveOrder writes the id of the order posted for that row, and orders never *)
(* change hands.                                                              *)
LEMMA OwnOrderStep ==
    ASSUME IInv, OwnOrder, Next
    PROVE  OwnOrder'
<1> SUFFICES ASSUME NEW t \in TestStatuses, tsApi'[t] # NoId
             PROVE  orders'[tsApi'[t]].test = t
  BY DEF OwnOrder
<1>1. CASE tsApi[t] # NoId
  <2>1. tsApi[t] \in DOMAIN orders
    BY <1>1 DEF IInv, TypeInv, TypeOK, NoId
  <2> QED BY <1>1, <2>1, IdKept, OrderKept DEF OwnOrder
<1>2. CASE tsApi[t] = NoId /\ SaveOrder
  <2>1. tsApi' = [tsApi EXCEPT ![cur] = Len(orders)] /\ orders' = orders
    BY <1>2 DEF SaveOrder
  <2>2. orders[Len(orders)].test = cur
    BY <1>2 DEF SaveOrder, IInv, BuildInv, SavingOK
  <2>3. t = cur /\ tsApi'[t] = Len(orders)
    BY <1>2, <2>1 DEF IInv, TypeInv, TypeOK
  <2> QED BY <2>1, <2>2, <2>3
<1>3. CASE tsApi[t] = NoId /\ ~SaveOrder
  <2>1. UNCHANGED tsApi
    BY <1>3 DEF Next, WorkerStep, StartRake, BeginPass, Poll, Requeue, PollTestSteps,
       LoadActions, LoadPosts, PostStep, SaveStep, PostObject, Unlock, PollTest,
       PollActions, PostOrder, GiveUp, CreateRun, Crash, Restart, Tick, ArchiveBrowser,
       ApiMoves, ApiFinish, ApiStep, ApiForget, db
  <2> QED BY <1>3, <2>1
<1> QED BY <1>1, <1>2, <1>3

(* A step's verdict is written as the API answers it for the row's order.     *)
LEMMA StepVerdict ==
    ASSUME IInv, Next, NEW t \in TestStatuses, NEW k \in Steps,
           asSuccess'[t][k] # asSuccess[t][k]
    PROVE  /\ UNCHANGED <<orders, tsApi>> /\ tsApi[t] # NoId
           /\ asSuccess'[t][k] = orders[tsApi[t]].results[k]
<1>1. PollTestSteps \/ \E s \in TestStatuses : PollActions(s)
  BY DEF Next, WorkerStep, StartRake, BeginPass, Poll, Requeue, PollTest,
     LoadActions, LoadPosts, SaveOrder, PostStep, SaveStep, PostObject, Unlock,
     PostOrder, GiveUp, CreateRun, Crash, Restart, Tick, ArchiveBrowser,
     ApiMoves, ApiFinish, ApiStep, ApiForget, db
<1>2. UNCHANGED <<orders, tsApi>>
  BY <1>1 DEF PollTestSteps, PollActions, GiveUp, db
<1>3. PICK s \in TestStatuses : \E some \in SUBSET Answered(s) : Record(s, some)
  <2>1. CASE PollTestSteps
    <3>1. cur \in TestStatuses
      BY <2>1 DEF PollTestSteps, IInv, TypeInv, PhaseOK
    <3>2. asSuccess' # asSuccess
      OBVIOUS
    <3>3. \E some \in SUBSET Answered(cur) : Record(cur, some)
      BY <2>1, <3>2 DEF PollTestSteps
    <3> QED BY <3>1, <3>3, Zenon
  <2>2. ASSUME NEW s \in TestStatuses, PollActions(s)
        PROVE  \E some \in SUBSET Answered(s) : Record(s, some)
    <3> DEFINE open == {j \in Answered(s) : asSuccess[s][j] = "pending"}
    <3>1. asSuccess' # asSuccess
      OBVIOUS
    <3>2. Record(s, open)
      BY <2>2, <3>1 DEF PollActions, GiveUp, db
    <3>3. open \in SUBSET Answered(s)
      OBVIOUS
    <3> HIDE DEF open
    <3> QED BY <3>2, <3>3
  <2> QED BY <1>1, <2>1, <2>2
<1>4. PICK some \in SUBSET Answered(s) : Record(s, some)
  BY <1>3
<1>5. t = s /\ k \in some /\ asSuccess'[t][k] = orders[tsApi[t]].results[k]
  BY <1>4 DEF Record, IInv, TypeInv, TypeOK
<1>6. tsApi[t] # NoId
  BY <1>4, <1>5 DEF Answered
<1> QED BY <1>2, <1>5, <1>6

(* A passed verdict keeps its reason. *)
LEMMA RealStep ==
    ASSUME IInv, AgeInv, RealInv, Next
    PROVE  RealInv'
<1>1. OwnOrder'
  BY OwnOrderStep DEF RealInv
<1>2. ASSUME NEW t \in TestStatuses, tsApi[t] # NoId
      PROVE  /\ tsApi'[t] = tsApi[t] /\ tsApi[t] \in DOMAIN orders
             /\ orders[tsApi[t]].verdict = "passed" => orders'[tsApi[t]].verdict = "passed"
             /\ \A k \in Steps : orders[tsApi[t]].results[k] = "passed" =>
                                   orders'[tsApi[t]].results[k] = "passed"
  <2>1. tsApi[t] \in DOMAIN orders
    BY <1>2 DEF IInv, TypeInv, TypeOK, NoId
  <2> QED BY <1>2, <2>1, IdKept, OrderKept
<1>3. ASSUME NEW t \in TestStatuses, tsSuccess'[t] = "passed"
      PROVE  tsApi'[t] # NoId /\ orders'[tsApi'[t]].verdict = "passed"
  <2>1. CASE tsSuccess'[t] # tsSuccess[t]
    BY <1>3, <2>1, VerdictStep
  <2>2. CASE tsSuccess'[t] = tsSuccess[t]
    BY <1>2, <1>3, <2>2 DEF RealInv, PassIsReal
  <2> QED BY <2>1, <2>2
<1>4. ASSUME NEW t \in TestStatuses, NEW k \in Steps, asSuccess'[t][k] = "passed"
      PROVE  tsApi'[t] # NoId /\ orders'[tsApi'[t]].results[k] = "passed"
  <2>1. CASE asSuccess'[t][k] # asSuccess[t][k]
    BY <1>4, <2>1, StepVerdict
  <2>2. CASE asSuccess'[t][k] = asSuccess[t][k]
    BY <1>2, <1>4, <2>2 DEF RealInv, PassIsReal
  <2> QED BY <2>1, <2>2
<1> QED BY <1>1, <1>3, <1>4 DEF RealInv, OwnOrder, PassIsReal

LEMMA RealInvariance == Spec => [](IInv /\ RealInv)
<1>1. Init => RealInv
  BY DEF Init, RealInv, OwnOrder, PassIsReal
<1>2. IInv /\ AgeInv /\ RealInv /\ [Next]_vars => RealInv'
  <2>1. CASE IInv /\ AgeInv /\ RealInv /\ Next
    BY <2>1, RealStep
  <2>2. CASE RealInv /\ UNCHANGED vars
    BY <2>2 DEF RealInv, OwnOrder, PassIsReal, vars, db
  <2> QED BY <2>1, <2>2
<1> QED BY <1>1, <1>2, AgeInvariance, PTL DEF Spec

(* No fault, crash, lost answer or age ever turns into a passed verdict.      *)
THEOREM PassesAreReal == Spec => []PassIsReal
<1>1. RealInv => PassIsReal
  BY DEF RealInv
<1> QED BY <1>1, RealInvariance, PTL

-----------------------------------------------------------------------------
(* What a run that is shown as passed went through. *)

\* The API decides released orders only.
DecidedOK == \A o \in DOMAIN orders : orders[o].verdict # "pending" => ~orders[o].locked

LEMMA DecidedStep ==
    ASSUME IInv, DecidedOK, Next
    PROVE  DecidedOK'
<1>1. \A o \in DOMAIN orders :
         orders'[o].verdict # "pending" => ~orders'[o].locked
  BY OrderKept DEF DecidedOK
<1>2. \A o \in DOMAIN orders' \ DOMAIN orders : orders'[o].verdict = "pending"
  <2>1. CASE DOMAIN orders' = DOMAIN orders
    BY <2>1
  <2>2. CASE \E t \in TestStatuses : orders' = Append(orders, NewOrder(t))
    <3>1. PICK t \in TestStatuses : orders' = Append(orders, NewOrder(t))
      BY <2>2
    <3>2. orders \in Seq(Order) /\ NewOrder(t).verdict = "pending"
      BY DEF IInv, TypeInv, TypeOK, NewOrder
    <3> HIDE DEF NewOrder
    <3> QED BY <3>1, <3>2
  <2>3. CASE PostStep \/ PostObject \/ Unlock \/ ApiMoves
    BY <2>1, <2>3 DEF PostStep, PostObject, Unlock, Send, ApiMoves, ApiFinish, ApiStep,
       ApiForget, IInv, TypeInv, TypeOK
  <2> QED
    BY <2>1, <2>2, <2>3 DEF Next, WorkerStep, StartRake, BeginPass,
       Poll, Requeue, PollTestSteps, LoadActions, LoadPosts, SaveOrder, SaveStep,
       PollTest, PollActions, PostOrder, CreateRun, Crash, Restart, Tick, ArchiveBrowser
<1> QED BY <1>1, <1>2 DEF DecidedOK

(* A run is shown as passed only after each of its tests was executed whole,  *)
(* on every browser, by an order of its own that passed.                      *)
THEOREM PassedRunsWereExecuted == Spec => []PassedRunWasExecuted
<1>1. Init => DecidedOK
  BY DEF Init, DecidedOK
<1>2. IInv /\ DecidedOK /\ [Next]_vars => DecidedOK'
  <2>1. CASE DecidedOK /\ UNCHANGED vars
    BY <2>1 DEF DecidedOK, vars
  <2> QED BY <2>1, DecidedStep
<1>3. IInv /\ RealInv /\ DecidedOK => PassedRunWasExecuted
  <2> SUFFICES ASSUME IInv, RealInv, DecidedOK, NEW runTests \in SUBSET RunTests,
                      falsey_test_status(runTests) = "passed",
                      NEW t \in Created, t[1] \in runTests
               PROVE  /\ tsApi[t] # NoId /\ orders[tsApi[t]].test = t
                      /\ ~orders[tsApi[t]].locked /\ orders[tsApi[t]].verdict = "passed"
                      /\ orders[tsApi[t]].steps = NSteps
                      /\ orders[tsApi[t]].objects = ObjectSteps
    BY DEF PassedRunWasExecuted
  <2> DEFINE statuses == {tsSuccess[u] : u \in {v \in Created : v[1] \in runTests}}
  <2>1. "failed" \notin statuses /\ "pending" \notin statuses
    BY DEF falsey_test_status
  <2>2. t \in TestStatuses /\ tsSuccess[t] \in statuses
    BY DEF Created
  <2>3. tsSuccess[t] \in Verdicts
    BY <2>2 DEF IInv, TypeInv, TypeOK
  <2>4. tsSuccess[t] = "passed"
    BY <2>1, <2>2, <2>3 DEF Verdicts
  <2>5. tsApi[t] # NoId /\ orders[tsApi[t]].test = t /\ orders[tsApi[t]].verdict = "passed"
    BY <2>2, <2>4 DEF RealInv, PassIsReal
  <2>6. tsApi[t] \in DOMAIN orders
    BY <2>2, <2>5 DEF IInv, TypeInv, TypeOK, NoId
  <2>7. ~orders[tsApi[t]].locked
    BY <2>5, <2>6 DEF DecidedOK
  <2>8. tsApi[t] \in Released
    BY <2>6, <2>7 DEF Released
  <2>9. orders[tsApi[t]].steps = NSteps /\ orders[tsApi[t]].objects = ObjectSteps
    BY <2>8 DEF IInv, BuildInv, CompleteBeforeExecution
  <2> QED BY <2>5, <2>7, <2>9
<1> QED BY <1>1, <1>2, <1>3, RealInvariance, PTL DEF Spec
=============================================================================
