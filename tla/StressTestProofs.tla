-------------------------- MODULE StressTestProofs -------------------------
(***************************************************************************)
(* Machine-checked proofs about StressTest, for every value of its         *)
(* constants.                                                              *)
(***************************************************************************)
EXTENDS StressTestInv, FiniteSetTheorems, TLAPS

\* The values of the state's variables, without the counters of the queue.
USE DEF ConnState, ReqState, ReadingState, WorkState, LoopState, AssertSites

\* A queue that grows by a task is still a queue.
LEMMA AppendType ==
    ASSUME TasksTypeOK, NEW i \in Task, AddTask_ToBeDeleted(i)
    PROVE  to_delete_task_list' \in Seq(DELETE_NODE)
<1>1. 0 \in 0 .. TIMEOUT_FOR_RELEASE + 1
  BY ReleaseAssumption
<1>2. [ptask |-> i, age |-> 0] \in DELETE_NODE
  BY <1>1 DEF DELETE_NODE
<1> QED
  BY <1>2 DEF TasksTypeOK, AddTask_ToBeDeleted

\* What a callback or a pool thread does to one task keeps the types.
LEMMA TaskStepType ==
    ASSUME TypeOK, NEW i \in Task, Callback(i) \/ PoolThread(i)
    PROVE  TypeOK'
<1> USE DEF TypeOK, TaskTypeOK, UvTypeOK, TasksTypeOK, taskVars
<1>1. CASE PoolThread(i)
  BY <1>1 DEF PoolThread, WorkInit, WorkConnect
<1>2. CASE Callback(i) /\ AfterWork(i)
  BY <1>2 DEF Callback, AfterWork
<1>3. CASE Callback(i) /\ OnConnectOk(i)
  BY <1>3 DEF Callback, OnConnectOk, do_write, do_read
<1>4. CASE Callback(i) /\ OnConnectFailed(i)
  BY <1>4, AppendType DEF Callback, OnConnectFailed, uv_close, StopReading
<1>5. CASE Callback(i) /\ WriteOk(i)
  BY <1>5 DEF Callback, WriteOk
<1>6. CASE Callback(i) /\ \E s \in {"ECONNRESET", "ECANCELED"} : WriteFailed(i, s)
  BY <1>6 DEF Callback, WriteFailed, FailedAssert, uv_close, StopReading
<1>7. CASE Callback(i) /\ \E s \in {"ECONNRESET", "EOF", "ETIMEDOUT"} : ReadFailed(i, s)
  BY <1>7 DEF Callback, ReadFailed, FailedAssert
<1>8. CASE Callback(i) /\ RecvEnd(i)
  BY <1>8 DEF Callback, RecvEnd, do_close, uv_close, StopReading
<1>9. CASE Callback(i) /\ CloseCb(i)
  BY <1>9, AppendType DEF Callback, CloseCb
<1>10. CASE Callback(i) /\ ReadAborted(i) /\ UNCHANGED <<taskVars, asserts>>
  BY <1>10 DEF Callback, ReadAborted
<1> QED
  BY <1>1, <1>2, <1>3, <1>4, <1>5, <1>6, <1>7, <1>8, <1>9, <1>10 DEF Callback

\* So does the sweep, and the clock.
LEMMA QueueStepType ==
    ASSUME TypeOK, TimerReleaseCb \/ Second
    PROVE  TypeOK'
<1> USE DEF TypeOK, TaskTypeOK, UvTypeOK, TasksTypeOK, uvVars
<1>1. CASE TimerReleaseCb
  <2>1. PICK n \in 1 .. Len(to_delete_task_list) :
           /\ task_list' = task_list \ {to_delete_task_list[j].ptask : j \in 1 .. n}
           /\ to_delete_task_list' =
                  SubSeq(to_delete_task_list, n + 1, Len(to_delete_task_list))
           /\ UNCHANGED <<cur_id, delete_immediately>>
    BY <1>1 DEF TimerReleaseCb, DeleteTask_ToBeDeleted
  <2>2. to_delete_task_list' \in Seq(DELETE_NODE)
    BY <2>1
  <2> QED
    BY <1>1, <2>1, <2>2 DEF TimerReleaseCb
<1>2. CASE Second
  <2> DEFINE Aged(node) ==
          [node EXCEPT !.age = IF @ <= TIMEOUT_FOR_RELEASE THEN @ + 1 ELSE @]
  <2>1. ASSUME NEW node \in DELETE_NODE
        PROVE  Aged(node) \in DELETE_NODE
    BY <2>1, ReleaseAssumption DEF DELETE_NODE
  <2>2. to_delete_task_list' =
           [j \in 1 .. Len(to_delete_task_list) |-> Aged(to_delete_task_list[j])]
    BY <1>2 DEF Second, Tick
  <2>3. to_delete_task_list' \in Seq(DELETE_NODE)
    <3> HIDE DEF Aged
    <3>1. \A j \in 1 .. Len(to_delete_task_list) :
             Aged(to_delete_task_list[j]) \in DELETE_NODE
      BY <2>1
    <3> QED
      BY <2>2, <3>1
  <2> QED
    BY <1>2, <2>3 DEF Second, Tick
<1> QED
  BY <1>1, <1>2

\* So does everything main and the timer that posts tasks do.
LEMMA MainStepType ==
    ASSUME TypeOK,
           \/ \E n \in 0 .. task_add_once : FloodBegin(n) \/ TimerCb(n)
           \/ SignalCb \/ RunReturns \/ CloseLoop \/ Uninit
    PROVE  TypeOK'
<1> USE DEF TypeOK, TaskTypeOK, UvTypeOK, TasksTypeOK, uvVars, taskVars, vars_task
<1>1. ASSUME NEW n \in 0 .. task_add_once, PostTasks(n, task_add_once)
      PROVE  TaskTypeOK'
  <2>1. NewIds(n) \subseteq Task /\ cur_id + n \in 0 .. MaxId
    BY <1>1, MaxIdAssumption, ConfigAssumption DEF PostTasks, Add, NewIds, Task
  <2> QED
    BY <1>1, <2>1 DEF PostTasks, Add, FailedAssert
<1>2. CASE \E n \in 0 .. task_add_once : FloodBegin(n) \/ TimerCb(n)
  BY <1>1, <1>2 DEF FloodBegin, TimerCb, timer_cb
<1>3. CASE SignalCb \/ RunReturns
  BY <1>3 DEF SignalCb, RunReturns
<1>4. CASE CloseLoop
  BY <1>4 DEF CloseLoop, StopReading
<1>5. CASE Uninit
  BY <1>5 DEF Uninit, Clear, FailedAssert
<1> QED
  BY <1>2, <1>3, <1>4, <1>5

\* The types hold in every reachable state.
THEOREM TypeCorrect == Spec => []TypeOK
<1>1. Init => TypeOK
  <2> SUFFICES ASSUME Init PROVE TypeOK
    OBVIOUS
  <2> QED
    BY MaxIdAssumption, ConfigAssumption
    DEF Init, TaskInit, UvInit, TasksInit, TypeOK, TaskTypeOK, UvTypeOK, TasksTypeOK
<1>2. TypeOK /\ [Next]_vars => TypeOK'
  <2> SUFFICES ASSUME TypeOK, [Next]_vars PROVE TypeOK'
    OBVIOUS
  <2>1. CASE \E i \in Task : Callback(i) \/ PoolThread(i)
    BY <2>1, TaskStepType
  <2>2. CASE TimerReleaseCb \/ Second
    BY <2>2, QueueStepType
  <2>3. CASE \/ \E n \in 0 .. task_add_once : FloodBegin(n) \/ TimerCb(n)
             \/ SignalCb \/ RunReturns \/ CloseLoop \/ Uninit
    BY <2>3, MainStepType
  <2>4. CASE Exited \/ UNCHANGED vars
    BY <2>4 DEF Exited, vars, uvVars, taskVars, TypeOK, TaskTypeOK, UvTypeOK, TasksTypeOK
  <2> QED
    BY <2>1, <2>2, <2>3, <2>4 DEF Next
<1> QED
  BY <1>1, <1>2, PTL DEF Spec
----------------------------------------------------------------------------
\* Retired(i) and RetiredOnce say of the queue what they say of its tasks.
LEMMA RetiredAppend ==
    ASSUME TypeOK, NEW i \in Task, AddTask_ToBeDeleted(i)
    PROVE  /\ \A k \in Task : Retired(k)' <=> Retired(k) \/ k = i
           /\ RetiredOnce /\ ~Retired(i) /\ i \in task_list
                /\ UNCHANGED <<task_list, loop>> => RetiredOnce'
<1> DEFINE q == to_delete_task_list
<1>1. q \in Seq(DELETE_NODE)
  BY DEF TypeOK, TaskTypeOK, TasksTypeOK
<1>2. /\ Len(q') = Len(q) + 1
      /\ \A j \in 1 .. Len(q) : q'[j] = q[j]
      /\ q'[Len(q) + 1].ptask = i
  BY <1>1 DEF AddTask_ToBeDeleted
<1>3. Len(q) \in Nat
  BY <1>1
<1>4. \A j \in 1 .. Len(q') : j \in 1 .. Len(q) \/ j = Len(q) + 1
  BY <1>2, <1>3
<1>5. \A j \in 1 .. Len(q) : j \in 1 .. Len(q')
  BY <1>2, <1>3
<1>6. Len(q) + 1 \in 1 .. Len(q')
  BY <1>2, <1>3
<1> HIDE DEF q
<1>7. \A k \in Task : Retired(k)' <=> Retired(k) \/ k = i
  BY <1>2, <1>4, <1>5, <1>6 DEF Retired, q
<1>8. ASSUME RetiredOnce, ~Retired(i), i \in task_list, UNCHANGED <<task_list, loop>>
      PROVE  RetiredOnce'
  BY <1>2, <1>4, <1>8 DEF Retired, RetiredOnce, Before, q
<1> QED
  BY <1>7, <1>8

\* A step of task i alone, before the program has exited, need only be looked
\* at for task i.
LEMMA LocalStep ==
    ASSUME IInv, TypeOK', Before, NEW i \in Task,
           UNCHANGED <<cur_id, task_list, loop>>,
           \A k \in Task \ {i} : /\ conn'[k] = conn[k] /\ req'[k] = req[k]
                                /\ reading'[k] = reading[k] /\ work'[k] = work[k],
           work[i] = "none" <=> work'[i] = "none",
           StageInv(i)',
           FreedInv(i)',
           \/ UNCHANGED to_delete_task_list
           \/ AddTask_ToBeDeleted(i) /\ ~Retired(i) /\ i \in task_list,
           RetiredInv(i)'
    PROVE  IInv'
<1>1. IdsInv'
  BY DEF IInv, IdsInv
<1>2. (\A k \in Task : k # i => (Retired(k)' <=> Retired(k))) /\ RetiredOnce'
  <2>1. CASE UNCHANGED to_delete_task_list
    BY <2>1 DEF Retired, RetiredOnce, Before, IInv
  <2>2. CASE AddTask_ToBeDeleted(i) /\ ~Retired(i) /\ i \in task_list
    BY <2>2, RetiredAppend DEF IInv
  <2> QED
    BY <2>1, <2>2
<1>3. ASSUME NEW k \in Task PROVE (StageInv(k) /\ RetiredInv(k))'
  <2>1. CASE k = i
    BY <2>1
  <2>2. CASE k # i
    BY <2>2, <1>2 DEF IInv, StageInv, RetiredInv, PoolDone, Quiet
  <2> QED
    BY <2>1, <2>2
<1>4. ASSUME NEW k \in Task PROVE FreedInv(k)'
  <2>1. CASE k = i
    BY <2>1
  <2>2. CASE k # i
    BY <2>2 DEF IInv, FreedInv, PoolDone, Quiet, Before
  <2> QED
    BY <2>1, <2>2
<1> QED
  BY <1>1, <1>2, <1>3, <1>4 DEF IInv, Before

\* What the program waits for cannot happen once it has exited.
LEMMA ExitedIsQuiet ==
    ASSUME IInv, NEW i \in Task, Callback(i) \/ PoolThread(i)
    PROVE  Before /\ UNCHANGED loop
  BY DEF IInv, Before, LoopAlive, Callback, LoopRuns, PoolThread, WorkInit, WorkConnect

\* No step of one task breaks the invariant.
LEMMA TaskStepIInv ==
    ASSUME IInv, NEW i \in Task, Callback(i) \/ PoolThread(i)
    PROVE  IInv'
<1> USE DEF TaskTypeOK, UvTypeOK, TasksTypeOK, taskVars
<1>1. TypeOK /\ TypeOK' /\ Before /\ UNCHANGED loop
  BY TaskStepType, ExitedIsQuiet DEF IInv
<1>2. /\ StageInv(i) /\ RetiredInv(i) /\ FreedInv(i)
      /\ work[i] = "none" <=> i > cur_id
  BY <1>1 DEF IInv, IdsInv
<1>3. ASSUME UNCHANGED taskVars,
             \A k \in Task \ {i} : /\ conn'[k] = conn[k] /\ req'[k] = req[k]
                                  /\ reading'[k] = reading[k] /\ work'[k] = work[k],
             work[i] # "none" /\ work'[i] # "none",
             StageInv(i)',
             i \in task_list \/ FreedInv(i)',
             ~Retired(i) \/ RetiredInv(i)'
      PROVE  IInv'
  <2>1. Retired(i)' <=> Retired(i)
    BY <1>3 DEF Retired
  <2> QED
    BY <1>1, <1>3, <2>1, LocalStep DEF FreedInv, RetiredInv
<1>4. ASSUME AddTask_ToBeDeleted(i), ~Retired(i), i \in task_list,
             UNCHANGED <<cur_id, task_list>>,
             \A k \in Task \ {i} : /\ conn'[k] = conn[k] /\ req'[k] = req[k]
                                  /\ reading'[k] = reading[k] /\ work'[k] = work[k],
             work[i] # "none" /\ work'[i] # "none",
             StageInv(i)',
             (PoolDone(i) /\ Quiet(i) /\ conn[i] \in {"closing", "closed"})'
      PROVE  IInv'
  BY <1>1, <1>4, LocalStep DEF FreedInv, RetiredInv
<1> USE DEF StageInv, RetiredInv, FreedInv, PoolDone, Quiet
<1>5. CASE PoolThread(i)
  BY <1>1, <1>2, <1>3, <1>5 DEF TypeOK, PoolThread, WorkInit, WorkConnect
<1>6. CASE Callback(i) /\ AfterWork(i)
  BY <1>1, <1>2, <1>3, <1>6 DEF TypeOK, Callback, AfterWork
<1>7. CASE Callback(i) /\ OnConnectOk(i)
  BY <1>1, <1>2, <1>3, <1>7 DEF TypeOK, Callback, OnConnectOk, do_write, do_read
<1>8. CASE Callback(i) /\ OnConnectFailed(i)
  <2>1. work[i] # "none" /\ i \in task_list /\ ~Retired(i)
    BY <1>1, <1>2, <1>8 DEF TypeOK, OnConnectFailed, Task
  <2>2. CASE uv_is_closing(i)
    BY <1>1, <1>2, <1>3, <1>8, <2>1, <2>2 DEF TypeOK, Callback, OnConnectFailed, uv_close
  <2>3. CASE ~uv_is_closing(i)
    BY <1>1, <1>2, <1>4, <1>8, <2>1, <2>3
    DEF TypeOK, Callback, OnConnectFailed, uv_close, StopReading
  <2> QED
    BY <2>2, <2>3
<1>9. CASE Callback(i) /\ WriteOk(i)
  BY <1>1, <1>2, <1>3, <1>9 DEF TypeOK, Callback, WriteOk
<1>10. CASE Callback(i) /\ \E s \in {"ECONNRESET", "ECANCELED"} : WriteFailed(i, s)
  BY <1>1, <1>2, <1>3, <1>10
  DEF TypeOK, Callback, WriteFailed, uv_close, uv_is_closing, StopReading
<1>11. CASE Callback(i) /\ \E s \in {"ECONNRESET", "EOF", "ETIMEDOUT"} : ReadFailed(i, s)
  BY <1>1, <1>2, <1>3, <1>11 DEF TypeOK, Callback, ReadFailed, uv_is_closing
<1>12. CASE Callback(i) /\ RecvEnd(i)
  <2>1. i \in task_list /\ ~Retired(i) /\ conn[i] = "open" /\ PoolDone(i)
    BY <1>1, <1>2, <1>12 DEF TypeOK, RecvEnd, Task
  <2> QED
    BY <1>1, <1>2, <1>12, <2>1, LocalStep
    DEF TypeOK, Callback, RecvEnd, do_close, uv_close, uv_is_closing, StopReading, Retired
<1>13. CASE Callback(i) /\ CloseCb(i)
  <2>1. CASE conn[i] = "closing_cb"
    <3>1. work[i] # "none" /\ i \in task_list /\ ~Retired(i) /\ PoolDone(i)
      BY <1>1, <1>2, <2>1 DEF TypeOK, Task
    <3> QED
      BY <1>1, <1>2, <1>4, <1>13, <2>1, <3>1
      DEF TypeOK, Callback, CloseCb, EndgameReady, ReqsPending
  <2>2. CASE conn[i] = "closing"
    BY <1>1, <1>2, <1>3, <1>13, <2>2
    DEF TypeOK, Callback, CloseCb, EndgameReady, ReqsPending
  <2> QED
    BY <1>13, <2>1, <2>2 DEF CloseCb
<1>14. CASE Callback(i) /\ ReadAborted(i) /\ UNCHANGED <<taskVars, asserts>>
  BY <1>1, <1>2, <1>3, <1>14 DEF TypeOK, Callback, ReadAborted
<1> QED
  BY <1>5, <1>6, <1>7, <1>8, <1>9, <1>10, <1>11, <1>12, <1>13, <1>14 DEF Callback

\* Neither does a batch of new tasks: none of the new ids is queued or freed.
LEMMA PostIInv ==
    ASSUME IInv, NEW n \in 0 .. task_add_once, FloodBegin(n) \/ TimerCb(n)
    PROVE  IInv'
<1>1. TypeOK /\ TypeOK'
  BY MainStepType DEF IInv
<1>2. Before /\ Before' /\ PostTasks(n, task_add_once)
  BY DEF FloodBegin, TimerCb, TimerRuns, timer_cb, Before
<1>3. /\ n \in Nat /\ cur_id \in Nat /\ cur_id' = cur_id + n
      /\ \A i \in Task : i \in Nat /\ (i \in NewIds(n) <=> cur_id < i /\ i <= cur_id + n)
  BY <1>1, <1>2, ConfigAssumption, MaxIdAssumption
  DEF TypeOK, TaskTypeOK, TasksTypeOK, PostTasks, Add, NewIds, Task
<1>4. IdsInv'
  BY <1>1, <1>2, <1>3, MaxIdAssumption
  DEF IInv, IdsInv, TypeOK, TaskTypeOK, TasksTypeOK, UvTypeOK, PostTasks, Add, NewIds, Task
<1>5. ASSUME NEW i \in Task PROVE (StageInv(i) /\ RetiredInv(i) /\ FreedInv(i))'
  <2>1. /\ StageInv(i) /\ RetiredInv(i) /\ FreedInv(i)
        /\ work[i] = "none" <=> i > cur_id
    BY <1>2 DEF IInv, IdsInv
  <2>2. /\ work'[i] = IF i \in NewIds(n) THEN "queued" ELSE work[i]
        /\ Retired(i)' <=> Retired(i)
        /\ task_list' = task_list \cup NewIds(n)
        /\ UNCHANGED <<conn, req, reading>>
    BY <1>2 DEF PostTasks, Add, Retired
  <2> QED
    BY <1>3, <2>1, <2>2 DEF StageInv, RetiredInv, FreedInv, PoolDone, Quiet
<1>6. RetiredOnce'
  BY <1>2 DEF IInv, RetiredOnce, PostTasks, Add
<1> QED
  BY <1>1, <1>2, <1>4, <1>5, <1>6 DEF IInv

\* Neither does the sweep: the tasks it frees are closed for good, and they
\* are in no other place of the queue.
LEMMA SweepIInv ==
    ASSUME IInv, TimerReleaseCb
    PROVE  IInv'
<1> DEFINE q == to_delete_task_list
<1>1. TypeOK /\ TypeOK' /\ Before /\ Before' /\ EndgamesDrained
  BY QueueStepType DEF IInv, TimerReleaseCb, TimerRuns, Before
<1>2. PICK n \in 1 .. Len(q) :
         /\ \A j \in 1 .. n : Erasable(q[j])
         /\ task_list' = task_list \ {q[j].ptask : j \in 1 .. n}
         /\ q' = SubSeq(q, n + 1, Len(q))
         /\ UNCHANGED <<cur_id, delete_immediately>>
  BY DEF TimerReleaseCb, DeleteTask_ToBeDeleted
<1>3. q \in Seq(DELETE_NODE) /\ Len(q) \in Nat /\ n \in Nat /\ 1 <= n /\ n <= Len(q)
  BY <1>1, <1>2 DEF TypeOK, TaskTypeOK, TasksTypeOK
<1>4. Len(q') = Len(q) - n /\ \A j \in 1 .. Len(q') : q'[j] = q[j + n]
  BY <1>2, <1>3
<1>5. \A j \in 1 .. Len(q') : /\ j + n \in 1 .. Len(q)
                             /\ j + n \notin 1 .. n
                             /\ \A k \in 1 .. Len(q') : j + n = k + n => j = k
  BY <1>3, <1>4
<1>6. 1 .. n \subseteq 1 .. Len(q)
  BY <1>3
<1>7. \A j \in 1 .. Len(q) : q[j].ptask \in Task
  <2>1. \A j \in 1 .. Len(q) : q[j] \in DELETE_NODE
    BY <1>3
  <2> QED
    BY <2>1 DEF DELETE_NODE
<1> HIDE DEF q
<1>8. RetiredOnce'
  <2>1. \A j, k \in 1 .. Len(q) : q[j].ptask = q[k].ptask => j = k
    BY <1>1 DEF IInv, RetiredOnce, q
  <2>2. \A j \in 1 .. Len(q) : q[j].ptask \in task_list
    BY <1>1 DEF IInv, RetiredOnce, q
  <2>3. ASSUME NEW j \in 1 .. Len(q')
        PROVE  /\ q'[j].ptask \in task_list'
               /\ \A k \in 1 .. Len(q') : q'[j].ptask = q'[k].ptask => j = k
    <3>1. \A m \in 1 .. n : m \in 1 .. Len(q) /\ m # j + n
      BY <1>5, <1>6, <2>3
    <3>2. q'[j].ptask \notin {q[m].ptask : m \in 1 .. n}
      BY <1>4, <1>5, <2>1, <2>3, <3>1
    <3>3. q'[j].ptask \in task_list
      BY <1>4, <1>5, <2>2, <2>3
    <3>4. ASSUME NEW k \in 1 .. Len(q'), q'[j].ptask = q'[k].ptask
          PROVE  j = k
      BY <1>4, <1>5, <2>1, <2>3, <3>4
    <3> QED
      BY <1>2, <3>2, <3>3, <3>4
  <2> QED
    BY <2>3 DEF RetiredOnce, q
<1>9. \A i \in Task : Retired(i)' => Retired(i)
  BY <1>4, <1>5 DEF Retired, q
<1>10. ASSUME NEW j \in 1 .. n
       PROVE  LET i == q[j].ptask IN PoolDone(i) /\ Quiet(i) /\ conn[i] = "closed"
  <2> DEFINE i == q[j].ptask
  <2>1. i \in Task /\ Retired(i) /\ RetiredInv(i)
    BY <1>6, <1>7, <1>10 DEF IInv, Retired, q
  <2>2. PoolDone(i) /\ Quiet(i) /\ conn[i] \in {"closing", "closed"}
    BY <2>1 DEF RetiredInv
  <2>3. ~EndgameReady(i)
    BY <1>1, <2>1 DEF EndgamesDrained
  <2> QED
    BY <2>2, <2>3 DEF EndgameReady, ReqsPending, Quiet
<1>11. ASSUME NEW i \in Task PROVE (StageInv(i) /\ RetiredInv(i) /\ FreedInv(i))'
  <2>1. StageInv(i) /\ RetiredInv(i) /\ FreedInv(i)
    BY <1>1 DEF IInv
  <2> QED
    BY <1>2, <1>9, <1>10, <2>1
    DEF TimerReleaseCb, uvVars, StageInv, RetiredInv, FreedInv, PoolDone, Quiet
<1>12. IdsInv'
  BY <1>2 DEF IInv, IdsInv, TimerReleaseCb, uvVars
<1> QED
  BY <1>1, <1>8, <1>11, <1>12 DEF IInv

\* The clock changes the age of the queue's nodes, not their tasks.
LEMMA TickKeepsTasks ==
    ASSUME TypeOK, Second
    PROVE  /\ Len(to_delete_task_list') = Len(to_delete_task_list)
           /\ \A j \in 1 .. Len(to_delete_task_list) :
                  to_delete_task_list'[j].ptask = to_delete_task_list[j].ptask
<1> DEFINE q == to_delete_task_list
           Aged(node) ==
               [node EXCEPT !.age = IF @ <= TIMEOUT_FOR_RELEASE THEN @ + 1 ELSE @]
<1>1. q \in Seq(DELETE_NODE) /\ Len(q) \in Nat
  BY DEF TypeOK, TaskTypeOK, TasksTypeOK
<1>2. \A node \in DELETE_NODE : Aged(node).ptask = node.ptask
  BY DEF DELETE_NODE
<1>3. q' = [j \in 1 .. Len(q) |-> Aged(q[j])]
  BY DEF Second, Tick
<1>4. \A j \in 1 .. Len(q) : q[j] \in DELETE_NODE
  BY <1>1
<1> HIDE DEF Aged, q
<1>5. Len(q') = Len(q) /\ \A j \in 1 .. Len(q) : q'[j] = Aged(q[j])
  BY <1>1, <1>3
<1> QED
  BY <1>2, <1>4, <1>5 DEF q

\* Neither does anything else the main thread or the clock does.
LEMMA MainIInv ==
    ASSUME IInv, Second \/ SignalCb \/ RunReturns \/ CloseLoop \/ Uninit
    PROVE  IInv'
<1>1. TypeOK /\ TypeOK' /\ Before
  BY QueueStepType, MainStepType
  DEF IInv, Before, Second, SignalCb, RunReturns, CloseLoop, Uninit
<1>2. CASE SignalCb \/ RunReturns
  <2>1. Before' /\ UNCHANGED <<conn, req, reading, work, cur_id, task_list,
                               to_delete_task_list>>
    BY <1>2 DEF SignalCb, RunReturns, Before, vars_task, uvVars, taskVars
  <2>2. \A i \in Task : (StageInv(i) /\ RetiredInv(i) /\ FreedInv(i))'
    BY <1>1, <2>1 DEF IInv, StageInv, RetiredInv, FreedInv, PoolDone, Quiet, Retired
  <2> QED
    BY <1>1, <2>1, <2>2 DEF IInv, IdsInv, RetiredOnce
<1>3. CASE Second
  <2>1. /\ Len(to_delete_task_list') = Len(to_delete_task_list)
        /\ \A j \in 1 .. Len(to_delete_task_list) :
               to_delete_task_list'[j].ptask = to_delete_task_list[j].ptask
    BY <1>1, <1>3, TickKeepsTasks
  <2>2. \A i \in Task : Retired(i)' <=> Retired(i)
    BY <2>1 DEF Retired
  <2>3. RetiredOnce'
    BY <1>1, <1>3, <2>1 DEF IInv, RetiredOnce, Before, Second, Tick
  <2> QED
    BY <1>1, <1>3, <2>2, <2>3
    DEF Second, Tick, uvVars, IInv, IdsInv, StageInv, RetiredInv, FreedInv, PoolDone,
        Quiet, Before, LoopAlive
<1>4. CASE CloseLoop
  <2>1. ASSUME NEW i \in Task PROVE (StageInv(i) /\ RetiredInv(i) /\ FreedInv(i))'
    <3>1. StageInv(i) /\ RetiredInv(i) /\ FreedInv(i)
      BY <1>1 DEF IInv
    <3> QED
      BY <1>1, <1>4, <3>1
      DEF CloseLoop, taskVars, StopReading, StageInv, RetiredInv, FreedInv, PoolDone,
          Quiet, Retired, TypeOK, TaskTypeOK, UvTypeOK
  <2> QED
    BY <1>1, <1>4, <2>1 DEF CloseLoop, taskVars, IInv, IdsInv, RetiredOnce, Before
<1>5. CASE Uninit
  BY <1>1, <1>5
  DEF Uninit, Clear, uvVars, IInv, IdsInv, StageInv, RetiredInv, PoolDone, Quiet,
      RetiredOnce, Retired, Before, LoopAlive, ReqsPending
<1> QED
  BY <1>2, <1>3, <1>4, <1>5

\* The invariant is inductive, so it holds in every reachable state.
THEOREM Invariant == Spec => []IInv
<1>1. Init => IInv
  <2> SUFFICES ASSUME Init PROVE IInv
    OBVIOUS
  <2>1. TypeOK
    BY MaxIdAssumption, ConfigAssumption
    DEF Init, TaskInit, UvInit, TasksInit, TypeOK, TaskTypeOK, UvTypeOK, TasksTypeOK
  <2>2. \A i \in Task : i > 0
    BY MaxIdAssumption DEF Task
  <2>3. loop # "exited"
    BY DEF Init
  <2> QED
    BY <2>1, <2>2, <2>3
    DEF Init, TaskInit, UvInit, TasksInit, IInv, IdsInv, StageInv, RetiredInv, FreedInv,
        PoolDone, Quiet, RetiredOnce, Retired, Before
<1>2. IInv /\ [Next]_vars => IInv'
  <2> SUFFICES ASSUME IInv, [Next]_vars PROVE IInv'
    OBVIOUS
  <2>1. CASE \E i \in Task : Callback(i) \/ PoolThread(i)
    BY <2>1, TaskStepIInv
  <2>2. CASE \E n \in 0 .. task_add_once : FloodBegin(n) \/ TimerCb(n)
    BY <2>2, PostIInv
  <2>3. CASE TimerReleaseCb
    BY <2>3, SweepIInv
  <2>4. CASE Second \/ SignalCb \/ RunReturns \/ CloseLoop \/ Uninit
    BY <2>4, MainIInv
  <2>5. CASE Exited \/ UNCHANGED vars
    <3>1. UNCHANGED <<conn, req, reading, work, cur_id, task_list, to_delete_task_list,
                      delete_immediately, asserts, loop>>
      BY <2>5 DEF Exited, vars, uvVars, taskVars
    <3>2. TypeOK'
      BY <3>1 DEF IInv, TypeOK, TaskTypeOK, UvTypeOK, TasksTypeOK
    <3>3. \A i \in Task : (StageInv(i) /\ RetiredInv(i))'
      BY <3>1 DEF IInv, StageInv, RetiredInv, PoolDone, Quiet, Retired
    <3>4. IdsInv' /\ RetiredOnce'
      BY <3>1 DEF IInv, IdsInv, RetiredOnce, Before
    <3>5. (Before => \A i \in Task : FreedInv(i))' /\ (~Before => ~LoopAlive)'
      BY <3>1 DEF IInv, FreedInv, PoolDone, Quiet, Before, LoopAlive, ReqsPending
    <3> QED
      BY <3>2, <3>3, <3>4, <3>5 DEF IInv
  <2> QED
    BY <2>1, <2>2, <2>3, <2>4, <2>5 DEF Next
<1> QED
  BY <1>1, <1>2, PTL DEF Spec

\* However the callbacks of a task fail, it is queued to be freed at most once,
\* and it is still in the map for as long as it is queued.
THEOREM QueuedOnce == Spec => []RetiredOnce
<1>1. IInv => RetiredOnce
  BY DEF IInv
<1> QED
  BY <1>1, Invariant, PTL

\* Neither the sweep nor uninit frees the memory of a handle or a request that
\* libuv has not finished with.
THEOREM FreeIsSafe == Spec => []FreedAfterLibuv
<1>1. IInv => FreedAfterLibuv
  <2> SUFFICES ASSUME IInv, NEW i \in Task, LibuvHolds(i)
               PROVE  i \in task_list
    BY DEF FreedAfterLibuv
  <2>1. Before
    BY DEF IInv, LibuvHolds, LoopAlive
  <2>2. StageInv(i) /\ FreedInv(i) /\ (work[i] = "none" <=> i > cur_id)
    BY <2>1 DEF IInv, IdsInv
  <2>3. i \in Nat /\ cur_id \in Nat
    BY MaxIdAssumption DEF IInv, TypeOK, TaskTypeOK, TasksTypeOK, Task
  <2> QED
    BY <2>2, <2>3 DEF LibuvHolds, StageInv, FreedInv, PoolDone, Quiet, ReqsPending
<1> QED
  BY <1>1, Invariant, PTL
----------------------------------------------------------------------------
\* A batch adds at most its own size to the map; a sweep adds nothing.
LEMMA CountStep ==
    ASSUME TypeOK, TypeOK', NEW n \in Nat, task_list' \subseteq task_list \cup NewIds(n)
    PROVE  Count \in Nat /\ Count' \in Nat /\ Count' <= Count + n
<1>1. cur_id \in Int /\ cur_id + 1 \in Int /\ cur_id + n \in Int /\ MaxId \in Int
  BY MaxIdAssumption DEF TypeOK, TaskTypeOK, TasksTypeOK
<1>2. IsFiniteSet(NewIds(n)) /\ Cardinality(NewIds(n)) = n
  BY <1>1, FS_Interval DEF NewIds
<1>3. IsFiniteSet(task_list)
  <2>1. IsFiniteSet(Task)
    BY <1>1, FS_Interval DEF Task
  <2> QED
    BY <2>1, FS_Subset DEF TypeOK, TaskTypeOK, TasksTypeOK
<1> DEFINE all == task_list \cup NewIds(n)
<1>4. /\ IsFiniteSet(all)
      /\ Cardinality(all) = Cardinality(task_list) + n - Cardinality(task_list \cap NewIds(n))
  BY <1>2, <1>3, FS_Union
<1>5. IsFiniteSet(task_list \cap NewIds(n))
  BY <1>2, FS_Subset
<1>6. IsFiniteSet(task_list') /\ Cardinality(task_list') <= Cardinality(all)
  BY <1>4, FS_Subset
<1>7. /\ Cardinality(task_list) \in Nat /\ Cardinality(task_list') \in Nat
      /\ Cardinality(all) \in Nat /\ Cardinality(task_list \cap NewIds(n)) \in Nat
  BY <1>3, <1>4, <1>5, <1>6, FS_CardinalityType
<1> HIDE DEF all
<1> QED
  BY <1>4, <1>6, <1>7 DEF Count

\* The map never holds task_min_running + task_add_once tasks or more: the
\* bound that the capacity MAX_TASK_COUNT of the map has to leave room for.
THEOREM MapIsBounded == Spec => []TaskBound
<1>1. Init => TaskBound
  BY FS_EmptySet, ConfigAssumption DEF Init, TaskInit, TasksInit, TaskBound, Count
<1>2. TypeOK /\ TypeOK' /\ TaskBound /\ [Next]_vars => TaskBound'
  <2> SUFFICES ASSUME TypeOK, TypeOK', TaskBound, [Next]_vars PROVE TaskBound'
    OBVIOUS
  <2>1. CASE \E n \in 0 .. task_add_once : FloodBegin(n) \/ TimerCb(n)
    <3>1. PICK n \in 0 .. task_add_once : FloodBegin(n) \/ TimerCb(n)
      BY <2>1
    <3>2. Count < task_min_running /\ task_list' = task_list \cup NewIds(n)
      BY <3>1 DEF FloodBegin, TimerCb, timer_cb, PostTasks, Add
    <3>3. n \in Nat /\ n <= task_add_once /\ task_add_once \in Nat
      BY ConfigAssumption, MaxIdAssumption
    <3> QED
      BY <3>2, <3>3, CountStep, ConfigAssumption DEF TaskBound
  <2>2. CASE task_list' \subseteq task_list
    <3>1. Count \in Nat /\ Count' \in Nat /\ Count' <= Count + 0
      BY <2>2, CountStep
    <3>2. task_min_running \in Nat /\ task_add_once \in Nat
      BY ConfigAssumption, MaxIdAssumption
    <3> QED
      BY <3>1, <3>2 DEF TaskBound
  <2>3. CASE \E i \in Task : Callback(i) \/ PoolThread(i)
    <3>1. task_list' = task_list
      BY <2>3
      DEF Callback, PoolThread, WorkInit, WorkConnect, AfterWork, OnConnectOk,
          OnConnectFailed, WriteOk, WriteFailed, ReadFailed, RecvEnd, CloseCb,
          ReadAborted, taskVars
    <3> QED
      BY <2>2, <3>1
  <2>4. CASE \/ TimerReleaseCb \/ SignalCb \/ RunReturns \/ CloseLoop \/ Uninit
             \/ Second \/ Exited \/ UNCHANGED vars
    <3>1. task_list' \subseteq task_list
      BY <2>4
      DEF TimerReleaseCb, DeleteTask_ToBeDeleted, SignalCb, RunReturns, CloseLoop,
          Uninit, Clear, Second, Tick, Exited, vars, vars_task, taskVars
    <3> QED
      BY <2>2, <3>1
  <2> QED
    BY <2>1, <2>3, <2>4 DEF Next
<1> QED
  BY <1>1, <1>2, TypeCorrect, PTL DEF Spec
=============================================================================
