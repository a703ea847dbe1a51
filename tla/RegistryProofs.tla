--------------------------- MODULE RegistryProofs --------------------------
(***************************************************************************)
(* The program implements TaskRegistry, for every value of its constants:  *)
(* each of its steps is a step of the registry or leaves it as it is.      *)
(***************************************************************************)
EXTENDS StressTestProofs, SequenceTheorems

\* The tasks of a queue of nodes.
TasksOf(nodes) == [j \in 1 .. Len(nodes) |-> nodes[j].ptask]

\* The registry's live tasks and its queue, as the program keeps them.
Live  == {i \in task_list : ~Retired(i)}
Queue == TasksOf(to_delete_task_list)

\* The queue of tasks is a sequence like the queue of nodes it comes from.
LEMMA QueueType ==
    ASSUME NEW nodes \in Seq(DELETE_NODE)
    PROVE  /\ TasksOf(nodes) \in Seq(Task)
           /\ Len(TasksOf(nodes)) = Len(nodes)
           /\ Len(nodes) \in Nat
           /\ \A j \in 1 .. Len(nodes) : TasksOf(nodes)[j] = nodes[j].ptask
<1>1. \A j \in 1 .. Len(nodes) : nodes[j] \in DELETE_NODE
  OBVIOUS
<1>2. \A j \in 1 .. Len(nodes) : nodes[j].ptask \in Task
  BY <1>1 DEF DELETE_NODE
<1> QED
  BY <1>2 DEF TasksOf

\* For the two queues of a step.
LEMMA QueueOfStep ==
    ASSUME TypeOK, TypeOK'
    PROVE  /\ to_delete_task_list \in Seq(DELETE_NODE)
           /\ to_delete_task_list' \in Seq(DELETE_NODE)
           /\ Queue \in Seq(Task) /\ Queue' \in Seq(Task)
           /\ Len(Queue) = Len(to_delete_task_list) /\ Len(Queue) \in Nat
           /\ Len(Queue') = Len(to_delete_task_list') /\ Len(Queue') \in Nat
           /\ \A j \in 1 .. Len(Queue) : Queue[j] = to_delete_task_list[j].ptask
           /\ \A j \in 1 .. Len(Queue') : Queue'[j] = to_delete_task_list'[j].ptask
<1>1. /\ to_delete_task_list \in Seq(DELETE_NODE)
      /\ to_delete_task_list' \in Seq(DELETE_NODE)
  BY DEF TypeOK, TaskTypeOK, TasksTypeOK
<1> QED
  BY <1>1, QueueType DEF Queue

\* A task is in the map either live or queued, and queued in one place only:
\* the registry counts what Count counts.
LEMMA CountSplit ==
    ASSUME IInv, Before
    PROVE  Cardinality(Live) + Len(to_delete_task_list) = Count
<1> DEFINE q == to_delete_task_list
           D == 1 .. Len(q)
           gone == {i \in task_list : Retired(i)}
           f == [j \in D |-> q[j].ptask]
<1>1. TypeOK /\ Len(q) \in Nat
  BY DEF IInv, TypeOK, TaskTypeOK, TasksTypeOK
<1>2. IsFiniteSet(task_list)
  <2>1. IsFiniteSet(Task)
    BY MaxIdAssumption, FS_Interval DEF Task
  <2> QED
    BY <1>1, <2>1, FS_Subset DEF TypeOK, TaskTypeOK, TasksTypeOK
<1>3. IsFiniteSet(D) /\ Cardinality(D) = Len(q)
  <2>1. 1 \in Int /\ Len(q) \in Int
    BY <1>1
  <2> HIDE DEF q
  <2>2. IsFiniteSet(D) /\ Cardinality(D) = IF 1 > Len(q) THEN 0 ELSE Len(q) - 1 + 1
    BY <2>1, FS_Interval
  <2> QED
    BY <1>1, <2>2
<1>4. /\ \A j \in D : q[j].ptask \in gone
      /\ \A i \in gone : \E j \in D : q[j].ptask = i
      /\ \A j, k \in D : q[j].ptask = q[k].ptask => j = k
  BY DEF IInv, RetiredOnce, Retired
<1>5. f \in Bijection(D, gone)
  <2> HIDE DEF D, gone
  <2>1. f \in [D -> gone]
    BY <1>4
  <2>2. f \in Injection(D, gone)
    BY <2>1, <1>4 DEF Injection, IsInjective
  <2>3. f \in Surjection(D, gone)
    BY <2>1, <1>4 DEF Surjection
  <2> QED
    BY <2>2, <2>3 DEF Bijection
<1>6. IsFiniteSet(gone) /\ Cardinality(gone) = Len(q)
  BY <1>3, <1>5, FS_Bijection DEF ExistsBijection
<1>7. /\ Live = task_list \ gone /\ task_list \cap gone = gone
  BY DEF Live
<1>8. Cardinality(task_list \ gone) = Cardinality(task_list) - Cardinality(task_list \cap gone)
  <2> HIDE DEF gone
  <2> QED
    BY <1>2, FS_Difference
<1>9. Cardinality(Live) = Cardinality(task_list) - Cardinality(gone)
  BY <1>7, <1>8
<1>10. Cardinality(task_list) \in Nat
  BY <1>2, FS_CardinalityType
<1> HIDE DEF gone, q
<1> QED
  BY <1>1, <1>6, <1>9, <1>10 DEF Count, q

\* A step that keeps the map, the queue's tasks and the program running is
\* none of the registry's business.
LEMMA RegistryStutter ==
    ASSUME TypeOK, TypeOK', UNCHANGED <<cur_id, task_list>>, Before' = Before,
           Len(to_delete_task_list') = Len(to_delete_task_list),
           \A j \in 1 .. Len(to_delete_task_list) :
               to_delete_task_list'[j].ptask = to_delete_task_list[j].ptask
    PROVE  UNCHANGED Registry!registryVars
<1>1. Queue' = Queue
  BY DEF Queue, TasksOf
<1>2. Live' = Live
  BY DEF Live, Retired
<1> QED
  BY <1>1, <1>2 DEF Registry!registryVars, Queue, TasksOf, Live

\* A successful batch is a Post, an empty one is no step.
LEMMA PostStep ==
    ASSUME IInv, IInv', NEW n \in 0 .. task_add_once, FloodBegin(n) \/ TimerCb(n)
    PROVE  [Registry!Next]_(Registry!registryVars)
<1>1. /\ TypeOK /\ TypeOK' /\ Before /\ Before' /\ n \in Nat /\ cur_id \in Nat
      /\ n = 0 \/ n \in 1 .. task_add_once
  BY ConfigAssumption, MaxIdAssumption
  DEF IInv, TypeOK, TaskTypeOK, TasksTypeOK, FloodBegin, TimerCb, TimerRuns, Before
<1>2. /\ Count < task_min_running
      /\ cur_id + n <= MaxId /\ cur_id' = cur_id + n
      /\ task_list' = task_list \cup NewIds(n)
      /\ UNCHANGED to_delete_task_list
  BY DEF FloodBegin, TimerCb, timer_cb, PostTasks, Add
<1>3. CASE n = 0
  <2>1. NewIds(n) = {}
    BY <1>1, <1>3 DEF NewIds
  <2> QED
    BY <1>1, <1>2, <1>3, <2>1, RegistryStutter
<1>4. CASE n \in 1 .. task_add_once
  <2>1. \A i \in NewIds(n) : ~Retired(i)
    <3>1. \A i \in NewIds(n) : i \notin task_list
      BY <1>1 DEF IInv, IdsInv, NewIds
    <3> QED
      BY <1>1, <3>1 DEF IInv, RetiredOnce, Retired
  <2>2. \A i : Retired(i)' <=> Retired(i)
    BY <1>2 DEF Retired
  <2>3. Live' = Live \cup (cur_id + 1 .. cur_id + n)
    BY <1>2, <2>1, <2>2 DEF Live, NewIds
  <2>4. Len(Queue) = Len(to_delete_task_list) /\ Queue' = Queue
    BY <1>1, <1>2, QueueOfStep DEF Queue
  <2>5. Cardinality(Live) + Len(Queue) < task_min_running
    BY <1>1, <1>2, <2>4, CountSplit
  <2> DEFINE kept == IF Before THEN Queue ELSE <<>>
  <2>6. Cardinality(Live) + Len(kept) < task_min_running /\ kept' = kept
    BY <1>1, <2>4, <2>5
  <2>7. (~Before)' = ~Before /\ ~(~Before)
    BY <1>1
  <2>8. Registry!Cardinality(Live) = Cardinality(Live)
    BY DEF Registry!Cardinality, Cardinality
  <2>9. Registry!Post(n)
    BY <1>2, <2>3, <2>6, <2>7, <2>8 DEF Registry!Post, Live, Queue, TasksOf
  <2> QED
    BY <1>4, <2>9 DEF Registry!Next
<1> QED
  BY <1>1, <1>3, <1>4

\* Queueing a task is a Retire.
LEMMA RetireStep ==
    ASSUME IInv, IInv', Before, Before', NEW i \in Task, AddTask_ToBeDeleted(i),
           ~Retired(i), i \in task_list, UNCHANGED <<cur_id, task_list>>
    PROVE  Registry!Next
<1> DEFINE q == to_delete_task_list
<1>1. /\ q \in Seq(DELETE_NODE) /\ Queue \in Seq(Task) /\ Queue' \in Seq(Task)
      /\ Len(Queue) = Len(q) /\ Len(Queue') = Len(q') /\ Len(q) \in Nat
      /\ \A j \in 1 .. Len(Queue) : Queue[j] = q[j].ptask
      /\ \A j \in 1 .. Len(Queue') : Queue'[j] = q'[j].ptask
  BY QueueOfStep DEF IInv
<1>2. /\ Len(q') = Len(q) + 1
      /\ \A j \in 1 .. Len(q) : q'[j] = q[j]
      /\ q'[Len(q) + 1].ptask = i
  BY <1>1 DEF AddTask_ToBeDeleted
<1>3. Queue' = Append(Queue, i)
  <2> HIDE DEF q
  <2>1. /\ Append(Queue, i) \in Seq(Task) /\ Len(Append(Queue, i)) = Len(Queue) + 1
        /\ \A j \in 1 .. Len(Queue) : Append(Queue, i)[j] = Queue[j]
        /\ Append(Queue, i)[Len(Queue) + 1] = i
    BY <1>1, AppendProperties
  <2>2. \A j \in 1 .. Len(Queue') : j \in 1 .. Len(Queue) \/ j = Len(Queue) + 1
    BY <1>1, <1>2
  <2>3. \A j \in 1 .. Len(Queue') : Queue'[j] = Append(Queue, i)[j]
    BY <1>1, <1>2, <2>1, <2>2
  <2>4. Len(Queue') = Len(Append(Queue, i))
    BY <1>1, <1>2, <2>1
  <2> QED
    BY <1>1, <2>1, <2>3, <2>4, SeqEqual
<1>4. \A k \in Task : Retired(k)' <=> Retired(k) \/ k = i
  BY RetiredAppend DEF IInv
<1>5. task_list \subseteq Task
  BY DEF IInv, TypeOK, TaskTypeOK, TasksTypeOK
<1>6. Live' = Live \ {i} /\ i \in Live
  BY <1>4, <1>5 DEF Live
<1> HIDE DEF q
<1>7. Registry!Retire(i)
  BY <1>3, <1>6 DEF Registry!Retire, Live, Queue, TasksOf
<1> QED
  BY <1>6, <1>7 DEF Registry!Next, Live

\* A callback retires its task or leaves the registry as it is; a pool thread
\* always does the latter.
LEMMA TaskStep ==
    ASSUME IInv, IInv', NEW i \in Task, Callback(i) \/ PoolThread(i)
    PROVE  [Registry!Next]_(Registry!registryVars)
<1>1. TypeOK /\ TypeOK' /\ Before /\ Before' /\ UNCHANGED loop
  BY ExitedIsQuiet DEF IInv, Before
<1>2. /\ StageInv(i) /\ RetiredInv(i) /\ FreedInv(i)
      /\ work[i] = "none" <=> i > cur_id
      /\ i \in Nat /\ cur_id \in Nat
  BY <1>1, MaxIdAssumption DEF IInv, IdsInv, TypeOK, TaskTypeOK, TasksTypeOK, Task
<1>3. CASE UNCHANGED <<cur_id, task_list, to_delete_task_list>>
  BY <1>1, <1>3, RegistryStutter
<1>4. CASE Callback(i) /\ OnConnectFailed(i)
  <2>1. CASE UNCHANGED to_delete_task_list
    BY <1>3, <1>4, <2>1 DEF OnConnectFailed
  <2>2. CASE ~uv_is_closing(i) /\ AddTask_ToBeDeleted(i)
    <3>1. PoolDone(i) /\ conn[i] \notin {"closing", "closed"}
      BY <1>2, <1>4, <2>2
      DEF OnConnectFailed, uv_is_closing, StageInv, PoolDone, Quiet
    <3>2. ~Retired(i) /\ i \in task_list
      BY <1>2, <3>1 DEF RetiredInv, FreedInv, PoolDone
    <3> QED
      BY <1>1, <1>4, <2>2, <3>2, RetireStep DEF OnConnectFailed
  <2> QED
    BY <1>4, <2>1, <2>2 DEF OnConnectFailed
<1>5. CASE Callback(i) /\ CloseCb(i)
  <2>1. CASE UNCHANGED to_delete_task_list
    BY <1>3, <1>5, <2>1 DEF CloseCb
  <2>2. CASE conn[i] = "closing_cb" /\ AddTask_ToBeDeleted(i)
    <3>1. ~Retired(i) /\ i \in task_list
      BY <1>2, <2>2 DEF StageInv, RetiredInv, FreedInv, PoolDone
    <3> QED
      BY <1>1, <1>5, <2>2, <3>1, RetireStep DEF CloseCb
  <2> QED
    BY <1>5, <2>1, <2>2 DEF CloseCb
<1>6. CASE \/ PoolThread(i)
           \/ AfterWork(i) \/ OnConnectOk(i) \/ WriteOk(i) \/ RecvEnd(i)
           \/ \E s \in {"ECONNRESET", "ECANCELED"} : WriteFailed(i, s)
           \/ \E s \in {"ECONNRESET", "EOF", "ETIMEDOUT"} : ReadFailed(i, s)
           \/ ReadAborted(i) /\ UNCHANGED <<taskVars, asserts>>
  <2>1. UNCHANGED <<cur_id, task_list, to_delete_task_list>>
    BY <1>6
    DEF PoolThread, WorkInit, WorkConnect, AfterWork, OnConnectOk, WriteOk, RecvEnd,
        WriteFailed, ReadFailed, taskVars
  <2> QED
    BY <1>3, <2>1
<1> QED
  BY <1>4, <1>5, <1>6 DEF Callback

\* A sweep of n nodes is a Sweep(n).
LEMMA SweepStep ==
    ASSUME IInv, IInv', TimerReleaseCb
    PROVE  Registry!Next
<1> DEFINE q == to_delete_task_list
<1>1. /\ TypeOK /\ TypeOK' /\ Before /\ Before' /\ UNCHANGED loop
  BY DEF IInv, TimerReleaseCb, TimerRuns, Before
<1>2. PICK n \in 1 .. Len(q) :
         /\ n <= CHECK_DELETE_COUNT
         /\ task_list' = task_list \ {q[j].ptask : j \in 1 .. n}
         /\ q' = SubSeq(q, n + 1, Len(q))
         /\ UNCHANGED cur_id
  BY DEF TimerReleaseCb, DeleteTask_ToBeDeleted
<1>3. /\ q \in Seq(DELETE_NODE) /\ Queue \in Seq(Task) /\ Queue' \in Seq(Task)
      /\ Len(Queue) = Len(q) /\ Len(Queue') = Len(q') /\ Len(q) \in Nat
      /\ \A j \in 1 .. Len(Queue) : Queue[j] = q[j].ptask
      /\ \A j \in 1 .. Len(Queue') : Queue'[j] = q'[j].ptask
  BY <1>1, QueueOfStep
<1>4. n \in Nat /\ 1 <= n /\ n <= Len(q)
  BY <1>2, <1>3
<1>5. Len(q') = Len(q) - n /\ \A j \in 1 .. Len(q') : q'[j] = q[j + n]
  BY <1>2, <1>3, <1>4
<1>6. \A j \in 1 .. Len(q') : j + n \in 1 .. Len(q) /\ j + n \notin 1 .. n
  BY <1>3, <1>4, <1>5
<1>7. \A j \in 1 .. Len(q) : j \in 1 .. n \/ \E k \in 1 .. Len(q') : j = k + n
  <2> SUFFICES ASSUME NEW j \in 1 .. Len(q), j \notin 1 .. n
               PROVE  j - n \in 1 .. Len(q') /\ j = (j - n) + n
    OBVIOUS
  <2> QED
    BY <1>3, <1>4, <1>5
<1>8. 1 .. n \subseteq 1 .. Len(q)
  BY <1>3, <1>4
<1> HIDE DEF q
<1>9. Queue' = SubSeq(Queue, n + 1, Len(Queue))
  <2>1. /\ SubSeq(Queue, n + 1, Len(Queue)) \in Seq(Task)
        /\ Len(SubSeq(Queue, n + 1, Len(Queue))) = Len(Queue) - n
        /\ \A j \in 1 .. Len(Queue) - n :
               SubSeq(Queue, n + 1, Len(Queue))[j] = Queue[j + n]
    BY <1>3, <1>4
  <2>2. \A j \in 1 .. Len(Queue') : Queue'[j] = SubSeq(Queue, n + 1, Len(Queue))[j]
    BY <1>3, <1>5, <1>6, <2>1
  <2> QED
    BY <1>3, <1>5, <2>1, <2>2, SeqEqual
<1>10. Live' = Live
  <2>1. ASSUME NEW i
        PROVE  i \in Live' <=> i \in Live
    <3>1. CASE \E j \in 1 .. n : q[j].ptask = i
      BY <1>2, <1>8, <3>1 DEF Live, Retired, q
    <3>2. CASE ~ \E j \in 1 .. n : q[j].ptask = i
      <4>1. i \in task_list' <=> i \in task_list
        BY <1>2, <3>2
      <4>2. Retired(i)' => Retired(i)
        BY <1>5, <1>6 DEF Retired, q
      <4>3. Retired(i) => Retired(i)'
        BY <1>5, <1>7, <3>2 DEF Retired, q
      <4> QED
        BY <4>1, <4>2, <4>3 DEF Live
    <3> QED
      BY <3>1, <3>2
  <2> QED
    BY <2>1
<1>11. n \in 1 .. CHECK_DELETE_COUNT /\ n <= Len(Queue)
  BY <1>2, <1>3, <1>4, ReleaseAssumption
<1>12. Registry!Sweep(n)
  BY <1>1, <1>2, <1>9, <1>10, <1>11 DEF Registry!Sweep, Live, Queue, TasksOf
<1> QED
  BY <1>11, <1>12 DEF Registry!Next

\* The clock, and main until uninit, do nothing the registry can see.
LEMMA QuietStep ==
    ASSUME IInv, IInv',
           Second \/ SignalCb \/ RunReturns \/ CloseLoop \/ Exited \/ UNCHANGED vars
    PROVE  UNCHANGED Registry!registryVars
<1>1. TypeOK /\ TypeOK'
  BY DEF IInv
<1>2. CASE Second
  <2>1. UNCHANGED <<cur_id, task_list, loop>>
    BY <1>2 DEF Second, Tick
  <2> QED
    BY <1>1, <1>2, <2>1, TickKeepsTasks, RegistryStutter DEF Before
<1>3. CASE SignalCb \/ RunReturns \/ CloseLoop
  <2>1. UNCHANGED <<cur_id, task_list, to_delete_task_list>> /\ Before /\ Before'
    BY <1>3 DEF SignalCb, RunReturns, CloseLoop, vars_task, taskVars, Before
  <2> QED
    BY <1>1, <2>1, RegistryStutter
<1>4. CASE Exited \/ UNCHANGED vars
  <2>1. UNCHANGED <<cur_id, task_list, to_delete_task_list, loop>>
    BY <1>4 DEF Exited, vars, taskVars
  <2> QED
    BY <1>1, <2>1, RegistryStutter DEF Before
<1> QED
  BY <1>2, <1>3, <1>4

\* uninit is the registry's Stop: nothing of the map is left, and the queue's
\* nodes are never looked at again.
LEMMA StopStep ==
    ASSUME Uninit
    PROVE  Registry!Next
<1>1. Before /\ ~Before' /\ task_list' = {} /\ cur_id' = cur_id
  BY DEF Uninit, Clear, Before
<1>2. Live' = {}
  BY <1>1 DEF Live
<1>3. Registry!Stop
  BY <1>1, <1>2 DEF Registry!Stop, Live
<1> QED
  BY <1>3 DEF Registry!Next

\* The program implements the registry: ids in order and never reused, each
\* task queued once, freed in queue order and at most CHECK_DELETE_COUNT at a
\* time, and no batch at task_min_running or above.
THEOREM Refinement == Spec => RefinesRegistry
<1>1. Init => Registry!Init
  <2> SUFFICES ASSUME Init PROVE Registry!Init
    OBVIOUS
  <2>1. cur_id = 0 /\ task_list = {} /\ to_delete_task_list = <<>> /\ Before
    BY DEF Init, TaskInit, TasksInit, Before
  <2>2. Queue = <<>> /\ Live = {}
    BY <2>1 DEF Queue, TasksOf, Live
  <2> QED
    BY <2>1, <2>2 DEF Registry!Init, Queue, TasksOf, Live
<1>2. IInv /\ IInv' /\ [Next]_vars => [Registry!Next]_(Registry!registryVars)
  <2> SUFFICES ASSUME IInv, IInv', [Next]_vars
               PROVE  [Registry!Next]_(Registry!registryVars)
    OBVIOUS
  <2>1. CASE \E i \in Task : Callback(i) \/ PoolThread(i)
    BY <2>1, TaskStep
  <2>2. CASE \E n \in 0 .. task_add_once : FloodBegin(n) \/ TimerCb(n)
    BY <2>2, PostStep
  <2>3. CASE TimerReleaseCb
    BY <2>3, SweepStep
  <2>4. CASE Second \/ SignalCb \/ RunReturns \/ CloseLoop \/ Exited \/ UNCHANGED vars
    BY <2>4, QuietStep
  <2>5. CASE Uninit
    BY <2>5, StopStep
  <2> QED
    BY <2>1, <2>2, <2>3, <2>4, <2>5 DEF Next
<1> QED
  BY <1>1, <1>2, Invariant, PTL DEF Spec, RefinesRegistry, Registry!Spec
=============================================================================
