--------------------------- MODULE ProgressProofs --------------------------
(***************************************************************************)
(* What moves a task and the queue forward: no callback starts over what   *)
(* another has ended, and no due task waits behind one that is not.        *)
(***************************************************************************)
EXTENDS StressTestProofs

\* The values of the state's variables.
USE DEF ConnState, ReqState, ReadingState, WorkState, LoopState

\* The measure is the sum of four naturals, so it cannot go down for ever.
LEMMA LeftIsNat ==
    ASSUME TypeOK, NEW i \in Task
    PROVE  /\ WorkLeft(work[i]) \in Nat /\ ConnLeft(conn[i]) \in Nat
           /\ ReqLeft(req[i]) \in Nat /\ ReadLeft(reading[i]) \in Nat
           /\ StepsLeft(i) \in Nat
<1> USE DEF TypeOK, TaskTypeOK, UvTypeOK
<1>1. WorkLeft(work[i]) \in Nat
  BY DEF WorkLeft
<1>2. ConnLeft(conn[i]) \in Nat
  BY DEF ConnLeft
<1>3. ReqLeft(req[i]) \in Nat
  BY DEF ReqLeft
<1>4. ReadLeft(reading[i]) \in Nat
  BY DEF ReadLeft
<1> QED
  BY <1>1, <1>2, <1>3, <1>4 DEF StepsLeft

\* The values that the steps below compare.
LEMMA LeftValues ==
    /\ /\ WorkLeft("none") = 8 /\ WorkLeft("queued") = 7 /\ WorkLeft("init") = 6
       /\ WorkLeft("returning") = 1 /\ WorkLeft("finished") = 0
    /\ /\ ConnLeft("zeroed") = 2 /\ ConnLeft("open") = 2 /\ ConnLeft("closing") = 1
       /\ ConnLeft("closing_cb") = 1 /\ ConnLeft("closed") = 0
    /\ ReqLeft("connect") = 4 /\ ReqLeft("write") = 1 /\ ReqLeft("idle") = 0
    /\ ReadLeft("on") = 2 /\ ReadLeft("aborting") = 1 /\ ReadLeft("off") = 0
BY DEF WorkLeft, ConnLeft, ReqLeft, ReadLeft

TaskState(i) == <<conn[i], req[i], reading[i], work[i]>>

RunsDown(i) == TaskState(i)' = TaskState(i) \/ StepsLeft(i)' < StepsLeft(i)

\* A callback or a pool thread takes its own task nearer its end.
LEMMA TaskRunsDown ==
    ASSUME IInv, NEW i \in Task, Callback(i) \/ PoolThread(i)
    PROVE  \A k \in Task : RunsDown(k)
<1>1. TypeOK /\ TypeOK' /\ StageInv(i)
  BY TaskStepType DEF IInv
<1> USE DEF TypeOK, TaskTypeOK, UvTypeOK
<1>2. ASSUME NEW k \in Task \ {i} PROVE TaskState(k)' = TaskState(k)
  BY <1>1, <1>2
  DEF TaskState, Callback, PoolThread, WorkInit, WorkConnect, AfterWork, OnConnectOk,
      do_write, do_read, OnConnectFailed, WriteOk, WriteFailed, ReadFailed, RecvEnd, do_close,
      uv_close, CloseCb, ReadAborted
<1>3. \* The four parts of the measure, before and after the step.
      /\ WorkLeft(work[i]) \in Nat /\ ConnLeft(conn[i]) \in Nat
      /\ ReqLeft(req[i]) \in Nat /\ ReadLeft(reading[i]) \in Nat
      /\ StepsLeft(i) = WorkLeft(work[i]) + ConnLeft(conn[i])
                          + ReqLeft(req[i]) + ReadLeft(reading[i])
      /\ WorkLeft(work'[i]) \in Nat /\ ConnLeft(conn'[i]) \in Nat
      /\ ReqLeft(req'[i]) \in Nat /\ ReadLeft(reading'[i]) \in Nat
      /\ StepsLeft(i)' = WorkLeft(work'[i]) + ConnLeft(conn'[i])
                           + ReqLeft(req'[i]) + ReadLeft(reading'[i])
  BY <1>1, LeftIsNat DEF StepsLeft, WorkLeft, ConnLeft, ReqLeft, ReadLeft
<1>4. StepsLeft(i)' < StepsLeft(i)
  <2>1. CASE WorkInit(i) \/ WorkConnect(i)
    BY <1>1, <1>3, <2>1, LeftValues DEF WorkInit, WorkConnect, StageInv, PoolDone, Quiet
  <2>2. CASE AfterWork(i)
    BY <1>1, <1>3, <2>2, LeftValues DEF AfterWork
  <2>3. CASE OnConnectOk(i)
    BY <1>1, <1>3, <2>3, LeftValues DEF OnConnectOk, do_write, do_read, StageInv
  <2>4. CASE OnConnectFailed(i)
    BY <1>1, <1>3, <2>4, LeftValues
    DEF OnConnectFailed, uv_close, uv_is_closing, StopReading
  <2>5. CASE WriteOk(i)
    BY <1>1, <1>3, <2>5, LeftValues DEF WriteOk
  <2>6. CASE \E s \in {"ECONNRESET", "ECANCELED"} : WriteFailed(i, s)
    BY <1>1, <1>3, <2>6, LeftValues DEF WriteFailed, uv_close, uv_is_closing, StopReading
  <2>7. CASE \E s \in {"ECONNRESET", "EOF", "ETIMEDOUT"} : ReadFailed(i, s)
    BY <1>1, <1>3, <2>7, LeftValues DEF ReadFailed, uv_is_closing
  <2>8. CASE RecvEnd(i)
    <3>1. conn[i] = "open"
      BY <1>1, <2>8 DEF RecvEnd, StageInv
    <3> QED
      BY <1>1, <1>3, <2>8, <3>1, LeftValues
      DEF RecvEnd, do_close, uv_close, uv_is_closing, StopReading
  <2>9. CASE CloseCb(i)
    BY <1>1, <1>3, <2>9, LeftValues DEF CloseCb, EndgameReady
  <2>10. CASE ReadAborted(i)
    BY <1>1, <1>3, <2>10, LeftValues DEF ReadAborted
  <2> QED
    BY <2>1, <2>2, <2>3, <2>4, <2>5, <2>6, <2>7, <2>8, <2>9, <2>10
    DEF Callback, PoolThread
<1> QED
  BY <1>2, <1>4 DEF RunsDown

\* Neither does any step of the main thread give a task more to do.
LEMMA MainRunsDown ==
    ASSUME IInv,
           \/ \E n \in 0 .. task_add_once : FloodBegin(n) \/ TimerCb(n)
           \/ TimerReleaseCb \/ Second \/ SignalCb \/ RunReturns \/ CloseLoop
           \/ Uninit \/ Exited \/ UNCHANGED vars,
           NEW i \in Task
    PROVE  RunsDown(i)
<1>1. TypeOK
  BY DEF IInv
<1>2. CASE \E n \in 0 .. task_add_once : FloodBegin(n) \/ TimerCb(n)
  <2>1. PICK n \in 0 .. task_add_once : FloodBegin(n) \/ TimerCb(n)
    BY <1>2
  <2>2. /\ work'[i] = IF i \in NewIds(n) THEN "queued" ELSE work[i]
        /\ UNCHANGED <<conn, req, reading>>
    BY <2>1 DEF FloodBegin, TimerCb, timer_cb, PostTasks
  <2>3. i \in NewIds(n) => work[i] = "none"
    <3>1. i \in NewIds(n) => i > cur_id
      BY <1>1, ConfigAssumption, MaxIdAssumption
      DEF NewIds, TypeOK, TaskTypeOK, TasksTypeOK, Task
    <3> QED
      BY <3>1 DEF IInv, IdsInv
  <2> QED
    BY <1>1, <2>2, <2>3, LeftIsNat, LeftValues DEF RunsDown, TaskState, StepsLeft
<1>3. CASE CloseLoop
  <2>1. CASE conn[i] = "open"
    BY <1>1, <1>3, <2>1, LeftIsNat, LeftValues
    DEF CloseLoop, StopReading, RunsDown, StepsLeft
  <2>2. CASE conn[i] # "open"
    BY <1>3, <2>2 DEF CloseLoop, RunsDown, TaskState
  <2> QED
    BY <2>1, <2>2
<1>4. CASE \/ TimerReleaseCb \/ Second \/ SignalCb \/ RunReturns
           \/ Uninit \/ Exited \/ UNCHANGED vars
  BY <1>4
  DEF TimerReleaseCb, Second, SignalCb, RunReturns, Uninit, Exited, vars, vars_task,
      uvVars, RunsDown, TaskState
<1> QED
  BY <1>2, <1>3, <1>4

\* Every step that changes what libuv has of a task takes it nearer its end:
\* the callbacks of task.cpp and http_task.cpp never begin a second connect,
\* write, read or close, whichever of them failed before.
THEOREM RunDown == Spec => TasksRunDown
<1>1. IInv /\ [Next]_vars => [\A i \in Task : RunsDown(i)]_vars
  BY TaskRunsDown, MainRunsDown DEF Next
<1>2. Spec => [][\A i \in Task : RunsDown(i)]_vars
  BY <1>1, Invariant, PTL DEF Spec
<1>3. (\A i \in Task : RunsDown(i)) <=>
         \A i \in Task :
            \/ <<conn[i], req[i], reading[i], work[i]>>' = <<conn[i], req[i], reading[i], work[i]>>
            \/ StepsLeft(i)' < StepsLeft(i)
  BY DEF RunsDown, TaskState
<1> QED
  BY <1>2, <1>3, PTL DEF TasksRunDown
----------------------------------------------------------------------------
\* What is queued now is younger than all that is queued already.
LEMMA AppendAges ==
    ASSUME TypeOK, AgeInv, NEW i \in Task, AddTask_ToBeDeleted(i)
    PROVE  AgeInv'
<1> DEFINE q == to_delete_task_list
<1>1. q \in Seq(DELETE_NODE) /\ Len(q) \in Nat
  BY DEF TypeOK, TaskTypeOK, TasksTypeOK
<1>2. \A j \in 1 .. Len(q) : q[j] \in DELETE_NODE
  BY <1>1
<1>3. \A j \in 1 .. Len(q) : q[j].age >= 0
  BY <1>2 DEF DELETE_NODE
<1>4. /\ Len(q') = Len(q) + 1
      /\ \A j \in 1 .. Len(q) : q'[j] = q[j]
      /\ q'[Len(q) + 1].age = 0
  BY <1>1 DEF AddTask_ToBeDeleted
<1> HIDE DEF q
<1>5. ASSUME NEW j \in 1 .. Len(q'), NEW k \in 1 .. Len(q'), j <= k
      PROVE  q'[k].age <= q'[j].age
  <2>1. CASE k \in 1 .. Len(q)
    <3>1. j \in 1 .. Len(q)
      BY <1>1, <1>4, <1>5, <2>1
    <3> QED
      BY <1>4, <1>5, <2>1, <3>1 DEF AgeInv, q
  <2>2. CASE k = Len(q) + 1
    <3>1. j \in 1 .. Len(q) \/ j = Len(q) + 1
      BY <1>1, <1>4
    <3> QED
      BY <1>3, <1>4, <2>2, <3>1
  <2> QED
    BY <1>1, <1>4, <2>1, <2>2
<1> QED
  BY <1>5 DEF AgeInv, q

\* A sweep takes the oldest.
LEMMA SweepAges ==
    ASSUME TypeOK, AgeInv, TimerReleaseCb
    PROVE  AgeInv'
<1> DEFINE q == to_delete_task_list
<1>1. PICK n \in 1 .. Len(q) : q' = SubSeq(q, n + 1, Len(q))
  BY DEF TimerReleaseCb, DeleteTask_ToBeDeleted
<1>2. q \in Seq(DELETE_NODE) /\ Len(q) \in Nat /\ n \in Nat
  BY <1>1 DEF TypeOK, TaskTypeOK, TasksTypeOK
<1>3. Len(q') = Len(q) - n /\ \A j \in 1 .. Len(q') : q'[j] = q[j + n]
  BY <1>1, <1>2
<1> HIDE DEF q
<1>4. \A j, k \in 1 .. Len(q') :
         j <= k => j + n \in 1 .. Len(q) /\ k + n \in 1 .. Len(q) /\ j + n <= k + n
  BY <1>2, <1>3
<1> QED
  BY <1>3, <1>4 DEF AgeInv, q

\* A second makes all of them older, up to the same limit.
LEMMA TickAges ==
    ASSUME TypeOK, AgeInv, Second
    PROVE  AgeInv'
<1> DEFINE q == to_delete_task_list
           Older(a) == IF a <= TIMEOUT_FOR_RELEASE THEN a + 1 ELSE a
           Aged(node) ==
               [node EXCEPT !.age = IF @ <= TIMEOUT_FOR_RELEASE THEN @ + 1 ELSE @]
<1>1. q \in Seq(DELETE_NODE) /\ Len(q) \in Nat
  BY DEF TypeOK, TaskTypeOK, TasksTypeOK
<1>2. \A node \in DELETE_NODE : Aged(node).age = Older(node.age) /\ node.age \in Nat
  BY ReleaseAssumption DEF DELETE_NODE
<1>3. q' = [j \in 1 .. Len(q) |-> Aged(q[j])]
  BY DEF Second, Tick
<1>4. \A j \in 1 .. Len(q) : q[j] \in DELETE_NODE
  BY <1>1
<1>5. \A a, b \in Nat : b <= a => Older(b) <= Older(a)
  BY ReleaseAssumption
<1> HIDE DEF Aged, Older, q
<1>6. Len(q') = Len(q) /\ \A j \in 1 .. Len(q) : q'[j] = Aged(q[j])
  BY <1>1, <1>3
<1> QED
  BY <1>2, <1>4, <1>5, <1>6 DEF AgeInv, q

\* The queue is in the order of its ages.
THEOREM AgesOrdered == Spec => []AgeInv
<1>1. Init => AgeInv
  BY DEF Init, TaskInit, TasksInit, AgeInv
<1>2. TypeOK /\ AgeInv /\ [Next]_vars => AgeInv'
  <2> SUFFICES ASSUME TypeOK, AgeInv, [Next]_vars PROVE AgeInv'
    OBVIOUS
  <2>1. ASSUME UNCHANGED to_delete_task_list PROVE AgeInv'
    BY <2>1 DEF AgeInv
  <2>2. ASSUME NEW i \in Task, Callback(i) \/ PoolThread(i) PROVE AgeInv'
    <3>1. AddTask_ToBeDeleted(i) \/ UNCHANGED to_delete_task_list
      BY <2>2
      DEF Callback, PoolThread, WorkInit, WorkConnect, AfterWork, OnConnectOk,
          OnConnectFailed, WriteOk, WriteFailed, ReadFailed, RecvEnd, CloseCb,
          ReadAborted, taskVars
    <3> QED
      BY <2>1, <3>1, AppendAges
  <2>3. CASE \/ \E n \in 0 .. task_add_once : FloodBegin(n) \/ TimerCb(n)
             \/ SignalCb \/ RunReturns \/ CloseLoop \/ Uninit \/ Exited
             \/ UNCHANGED vars
    BY <2>1, <2>3
    DEF FloodBegin, TimerCb, timer_cb, PostTasks, Add, SignalCb, RunReturns, CloseLoop,
        Uninit, Clear, Exited, vars, vars_task, taskVars
  <2> QED
    BY <2>2, <2>3, SweepAges, TickAges DEF Next
<1> QED
  BY <1>1, <1>2, TypeCorrect, PTL DEF Spec

\* No task that is past its time waits behind one that may not be freed yet:
\* that DeleteTask_ToBeDeleted stops at the first such node keeps nobody.
THEOREM NoDueBlocked == Spec => []DueNotBlocked
<1>1. IInv /\ AgeInv => DueNotBlocked
  <2> DEFINE q == to_delete_task_list
  <2> SUFFICES ASSUME IInv, AgeInv, NEW k \in 1 .. Len(q), q[k].age > TIMEOUT_FOR_RELEASE,
                      NEW j \in 1 .. k
               PROVE  Erasable(q[j])
    BY DEF DueNotBlocked
  <2>1. q \in Seq(DELETE_NODE) /\ Len(q) \in Nat
    BY DEF IInv, TypeOK, TaskTypeOK, TasksTypeOK
  <2>2. j \in 1 .. Len(q) /\ j <= k
    BY <2>1
  <2>3. q[j] \in DELETE_NODE /\ q[k] \in DELETE_NODE
    BY <2>1, <2>2
  <2>4. q[k].age <= q[j].age
    BY <2>2 DEF AgeInv
  <2>5. q[j].age > TIMEOUT_FOR_RELEASE /\ q[j].ptask \in Task
    BY <2>3, <2>4, ReleaseAssumption DEF DELETE_NODE
  <2>6. RetiredInv(q[j].ptask) /\ Retired(q[j].ptask)
    BY <2>2, <2>5 DEF IInv, Retired
  <2> QED
    BY <2>5, <2>6
    DEF RetiredInv, Quiet, Erasable, uv_is_closing, ReqsPending, ActiveCnt
<1> QED
  BY <1>1, AgesOrdered, Invariant, PTL
=============================================================================
