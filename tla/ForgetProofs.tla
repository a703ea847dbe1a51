---------------------------- MODULE ForgetProofs ---------------------------
(***************************************************************************)
(* What becomes of a task before the key is pressed, and of its handle     *)
(* when the program exits.  Where the proof needs that every connect and   *)
(* every read starts a request, it is in WorkConnect, which models the     *)
(* result that work_uv_cb drops, and in OnConnectOk.                       *)
(***************************************************************************)
EXTENDS StressTestProofs

\* The values of the state's variables.
USE DEF ConnState, ReqState, ReadingState, WorkState, LoopState, AssertSites

\* A step of task i alone need only be looked at for task i.
LEMMA LocalForget ==
    ASSUME TypeOK, ForgetInv, NEW i \in Task, UNCHANGED <<task_list, loop>>,
           \A k \in Task \ {i} : /\ conn'[k] = conn[k] /\ req'[k] = req[k]
                                 /\ reading'[k] = reading[k] /\ work'[k] = work[k],
           UNCHANGED to_delete_task_list \/ AddTask_ToBeDeleted(i),
           OpenInv(i)',
           BeforeKey => PendingInv(i)'
    PROVE  ForgetInv'
<1>1. \A k \in Task : Retired(k) => Retired(k)'
  BY RetiredAppend DEF Retired
<1>2. ASSUME NEW k \in Task \ {i} PROVE OpenInv(k)'
  BY <1>2 DEF ForgetInv, OpenInv, PoolDone
<1>3. ASSUME BeforeKey, NEW k \in Task \ {i} PROVE PendingInv(k)'
  BY <1>1, <1>3 DEF ForgetInv, PendingInv
<1> QED
  BY <1>2, <1>3 DEF ForgetInv, BeforeKey

LEMMA TaskStepForget ==
    ASSUME IInv, ForgetInv, NEW i \in Task, Callback(i) \/ PoolThread(i)
    PROVE  ForgetInv'
<1> USE DEF TypeOK, TaskTypeOK, UvTypeOK, TasksTypeOK, taskVars
<1>1. TypeOK /\ TypeOK' /\ UNCHANGED loop
  BY TaskStepType, ExitedIsQuiet DEF IInv
<1>2. StageInv(i) /\ OpenInv(i) /\ (BeforeKey => PendingInv(i))
  BY DEF IInv, ForgetInv
<1>3. ASSUME UNCHANGED taskVars,
             \A k \in Task \ {i} : /\ conn'[k] = conn[k] /\ req'[k] = req[k]
                                   /\ reading'[k] = reading[k] /\ work'[k] = work[k],
             OpenInv(i)',
             BeforeKey => (work[i] = "init" => conn[i] = "open")',
             conn'[i] \in {"closing", "closed"} => conn[i] \in {"closing", "closed"}
      PROVE  ForgetInv'
  BY <1>1, <1>2, <1>3, LocalForget DEF PendingInv, Retired
<1>4. ASSUME AddTask_ToBeDeleted(i), UNCHANGED task_list,
             \A k \in Task \ {i} : /\ conn'[k] = conn[k] /\ req'[k] = req[k]
                                   /\ reading'[k] = reading[k] /\ work'[k] = work[k],
             conn'[i] \in {"closing", "closed"}, work[i] # "init", UNCHANGED work
      PROVE  ForgetInv'
  <2>1. Retired(i)'
    BY <1>1, <1>4, RetiredAppend
  <2> QED
    BY <1>1, <1>4, <2>1, LocalForget DEF PendingInv, OpenInv
<1> USE DEF StageInv, OpenInv, PendingInv, PoolDone, Quiet
<1>5. CASE PoolThread(i)
  BY <1>1, <1>2, <1>3, <1>5
  DEF PoolThread, WorkInit, WorkConnect, Connects, uv_is_closing
<1>6. CASE Callback(i) /\ AfterWork(i)
  BY <1>1, <1>2, <1>3, <1>6 DEF AfterWork
<1>7. CASE Callback(i) /\ OnConnectOk(i)
  <2>1. /\ conn[i] = "open" /\ UNCHANGED <<conn, work, taskVars>>
        /\ \A k \in Task \ {i} : req'[k] = req[k] /\ reading'[k] = reading[k]
    BY <1>1, <1>7 DEF OnConnectOk, do_write, do_read
  <2>2. Connects => reading'[i] = "on"
    BY <1>1, <1>7 DEF OnConnectOk, do_read, Connects
  <2> QED
    BY <1>1, <1>2, <1>3, <2>1, <2>2
<1>8. CASE Callback(i) /\ OnConnectFailed(i)
  <2>1. CASE uv_is_closing(i)
    BY <1>1, <1>2, <1>3, <1>8, <2>1 DEF OnConnectFailed, uv_is_closing
  <2>2. CASE ~uv_is_closing(i)
    BY <1>1, <1>2, <1>4, <1>8, <2>2 DEF OnConnectFailed, uv_close, StopReading
  <2> QED
    BY <2>1, <2>2
<1>9. CASE Callback(i) /\ WriteOk(i)
  BY <1>1, <1>2, <1>3, <1>9 DEF WriteOk
<1>10. CASE Callback(i) /\ \E s \in {"ECONNRESET", "ECANCELED"} : WriteFailed(i, s)
  BY <1>1, <1>2, <1>3, <1>10 DEF WriteFailed, uv_close, uv_is_closing, StopReading
<1>11. CASE Callback(i) /\ \E s \in {"ECONNRESET", "EOF", "ETIMEDOUT"} : ReadFailed(i, s)
  BY <1>1, <1>2, <1>3, <1>11 DEF ReadFailed, uv_is_closing
<1>12. CASE Callback(i) /\ RecvEnd(i)
  <2>1. OpenInv(i)' /\ (BeforeKey => PendingInv(i)')
    BY <1>1, <1>2, <1>12 DEF RecvEnd, do_close, uv_close, uv_is_closing, StopReading
  <2>2. /\ UNCHANGED <<req, work, task_list, to_delete_task_list>>
        /\ \A k \in Task \ {i} : conn'[k] = conn[k] /\ reading'[k] = reading[k]
    BY <1>1, <1>12 DEF RecvEnd, do_close, uv_close
  <2> QED
    BY <1>1, <2>1, <2>2, LocalForget
<1>13. CASE Callback(i) /\ CloseCb(i)
  <2>1. CASE conn[i] = "closing_cb"
    BY <1>1, <1>2, <1>4, <1>13, <2>1 DEF CloseCb
  <2>2. CASE conn[i] = "closing"
    BY <1>1, <1>2, <1>3, <1>13, <2>2 DEF CloseCb
  <2> QED
    BY <1>13, <2>1, <2>2 DEF CloseCb
<1>14. CASE Callback(i) /\ ReadAborted(i) /\ UNCHANGED <<taskVars, asserts>>
  BY <1>1, <1>2, <1>3, <1>14 DEF ReadAborted
<1> QED
  BY <1>5, <1>6, <1>7, <1>8, <1>9, <1>10, <1>11, <1>12, <1>13, <1>14 DEF Callback

\* A sweep takes out of the queue only what it takes out of the map.
LEMMA SweepForget ==
    ASSUME TypeOK, ForgetInv, TimerReleaseCb
    PROVE  ForgetInv'
<1> DEFINE q == to_delete_task_list
<1>1. PICK n \in 1 .. Len(q) :
         /\ task_list' = task_list \ {q[j].ptask : j \in 1 .. n}
         /\ q' = SubSeq(q, n + 1, Len(q))
  BY DEF TimerReleaseCb, DeleteTask_ToBeDeleted
<1>2. q \in Seq(DELETE_NODE) /\ Len(q) \in Nat /\ n \in Nat /\ 1 <= n /\ n <= Len(q)
  BY <1>1 DEF TypeOK, TaskTypeOK, TasksTypeOK
<1>3. Len(q') = Len(q) - n /\ \A j \in 1 .. Len(q') : q'[j] = q[j + n]
  BY <1>1, <1>2
<1>4. \A j \in 1 .. Len(q) :
         \/ j \in 1 .. n
         \/ j - n \in 1 .. Len(q') /\ q'[j - n] = q[j]
  BY <1>2, <1>3
<1> HIDE DEF q
<1>5. \A i \in Task : Retired(i) => Retired(i)' \/ i \notin task_list'
  BY <1>1, <1>4 DEF Retired, q
<1>6. task_list' \subseteq task_list
  BY <1>1
<1> QED
  BY <1>5, <1>6
  DEF TimerReleaseCb, uvVars, ForgetInv, OpenInv, PendingInv, PoolDone, BeforeKey

LEMMA MainForget ==
    ASSUME IInv, IInv', ForgetInv,
           \/ \E n \in 0 .. task_add_once : FloodBegin(n) \/ TimerCb(n)
           \/ Second \/ SignalCb \/ RunReturns \/ CloseLoop \/ Uninit
    PROVE  ForgetInv'
<1>1. CASE CloseLoop
  <2>1. \A i \in Task : conn'[i] # "open"
    BY <1>1 DEF CloseLoop
  <2> QED
    BY <1>1, <2>1 DEF CloseLoop, ForgetInv, OpenInv, BeforeKey
<1>2. CASE Uninit
  BY <1>2 DEF Uninit, uvVars, ForgetInv, OpenInv, PoolDone, BeforeKey
<1>3. CASE SignalCb \/ RunReturns
  BY <1>3
  DEF SignalCb, RunReturns, vars_task, uvVars, taskVars, ForgetInv, OpenInv, PendingInv,
      PoolDone, BeforeKey, Retired
<1>4. CASE Second
  <2>1. \A i \in Task : Retired(i) => Retired(i)'
    BY <1>4, TickKeepsTasks DEF IInv, Retired
  <2> QED
    BY <1>4, <2>1
    DEF Second, Tick, uvVars, ForgetInv, OpenInv, PendingInv, PoolDone, BeforeKey
<1>5. CASE \E n \in 0 .. task_add_once : FloodBegin(n) \/ TimerCb(n)
  <2>1. PICK n \in 0 .. task_add_once : FloodBegin(n) \/ TimerCb(n)
    BY <1>5
  <2>2. /\ BeforeKey
        /\ work' = [i \in Task |-> IF i \in NewIds(n) THEN "queued" ELSE work[i]]
        /\ UNCHANGED <<conn, req, reading, to_delete_task_list>>
        /\ task_list' = task_list \cup NewIds(n)
    BY <2>1 DEF FloodBegin, TimerCb, TimerRuns, timer_cb, PostTasks, Add, BeforeKey
  <2>3. ASSUME NEW i \in Task PROVE OpenInv(i)' /\ PendingInv(i)'
    <3>1. OpenInv(i) /\ PendingInv(i) /\ StageInv(i)'
      BY <2>2 DEF ForgetInv, IInv
    <3>2. Retired(i)' <=> Retired(i)
      BY <2>2 DEF Retired
    <3> QED
      BY <2>2, <3>1, <3>2 DEF OpenInv, PendingInv, StageInv, PoolDone
  <2> QED
    BY <2>3 DEF ForgetInv
<1> QED
  BY <1>1, <1>2, <1>3, <1>4, <1>5

\* The strengthening holds, whatever the faults and with or without callbacks.
THEOREM PendingAlways == Spec => []ForgetInv
<1>1. Init => ForgetInv
  BY DEF Init, TaskInit, UvInit, TasksInit, ForgetInv, OpenInv, PendingInv, PoolDone
<1>2. IInv /\ IInv' /\ ForgetInv /\ [Next]_vars => ForgetInv'
  <2> SUFFICES ASSUME IInv, IInv', ForgetInv, [Next]_vars PROVE ForgetInv'
    OBVIOUS
  <2>1. CASE \E i \in Task : Callback(i) \/ PoolThread(i)
    BY <2>1, TaskStepForget
  <2>2. CASE TimerReleaseCb
    BY <2>2, SweepForget DEF IInv
  <2>3. CASE \/ \E n \in 0 .. task_add_once : FloodBegin(n) \/ TimerCb(n)
             \/ Second \/ SignalCb \/ RunReturns \/ CloseLoop \/ Uninit
    BY <2>3, MainForget
  <2>4. CASE Exited \/ UNCHANGED vars
    <3>1. UNCHANGED <<conn, req, reading, work, task_list, to_delete_task_list, loop>>
      BY <2>4 DEF Exited, vars, uvVars, taskVars
    <3> QED
      BY <3>1 DEF ForgetInv, OpenInv, PendingInv, PoolDone, BeforeKey, Retired
  <2> QED
    BY <2>1, <2>2, <2>3, <2>4 DEF Next
<1> QED
  BY <1>1, <1>2, Invariant, PTL DEF Spec

\* What an id given out means for its work item, and for its place in the map.
LEMMA PostedTask ==
    ASSUME IInv, NEW i \in Task
    PROVE  /\ i \in 1 .. cur_id => work[i] # "none"
           /\ i \in task_list => i \in 1 .. cur_id
  BY MaxIdAssumption DEF IInv, IdsInv, TypeOK, TaskTypeOK, TasksTypeOK, Task

\* Until the key is pressed each task is queued to be freed, has a callback on
\* its way, or is one whose uv_tcp_connect started nothing.
THEOREM ForgottenOnlyOpen == Spec => []ForgottenIsOpen
<1>1. IInv /\ ForgetInv => ForgottenIsOpen
  <2> SUFFICES ASSUME IInv, ForgetInv, BeforeKey, NEW i \in task_list
               PROVE  Retired(i) \/ InProgress(i) \/ (conn[i] = "open" /\ ~ReqsPending(i))
    BY DEF ForgottenIsOpen
  <2>1. i \in Task /\ TypeOK
    BY DEF IInv, TypeOK, TaskTypeOK, TasksTypeOK
  <2>2. StageInv(i) /\ PendingInv(i) /\ work[i] # "none"
    BY <2>1, PostedTask DEF IInv, ForgetInv
  <2> QED
    BY <2>1, <2>2
    DEF StageInv, PendingInv, PoolDone, InProgress, ReqsPending, TypeOK, TaskTypeOK, UvTypeOK
<1> QED
  BY <1>1, PendingAlways, Invariant, PTL

\* If every connect and every read starts a request, then until the key is
\* pressed each task is queued to be freed or has a callback on its way.
THEOREM NoneForgotten == ASSUME Connects PROVE Spec => []NoTaskForgotten
<1>1. IInv /\ ForgetInv /\ ForgottenIsOpen => NoTaskForgotten
  <2> SUFFICES ASSUME IInv, ForgetInv, ForgottenIsOpen, BeforeKey, NEW i \in task_list
               PROVE  Retired(i) \/ InProgress(i)
    BY DEF NoTaskForgotten
  <2>1. i \in Task /\ TypeOK
    BY DEF IInv, TypeOK, TaskTypeOK, TasksTypeOK
  <2>2. OpenInv(i) /\ work[i] # "none"
    BY <2>1, PostedTask DEF IInv, ForgetInv
  <2>3. CASE conn[i] = "open" /\ ~ReqsPending(i)
    BY <2>1, <2>2, <2>3
    DEF OpenInv, PoolDone, InProgress, ReqsPending, TypeOK, TaskTypeOK, UvTypeOK
  <2> QED
    BY <2>3 DEF ForgottenIsOpen
<1> QED
  BY <1>1, ForgottenOnlyOpen, PendingAlways, Invariant, PTL

\* If every connect and every read starts a request, every handle that was ever
\* opened is closed when the program exits, also those opened during close_loop,
\* and the assertion on uv_loop_close holds.
THEOREM ExitsClean == ASSUME Connects PROVE Spec => []CleanExit
<1> DEFINE Closed == \A i \in 1 .. cur_id : conn[i] = "closed"
           Accepted == "uv_loop_close" \notin asserts
<1>1. ASSUME IInv, ForgetInv, ~LoopAlive PROVE Closed
  <2> SUFFICES ASSUME NEW i \in 1 .. cur_id PROVE conn[i] = "closed"
    OBVIOUS
  <2>1. i \in Task /\ TypeOK
    BY <1>1, MaxIdAssumption DEF IInv, TypeOK, TaskTypeOK, TasksTypeOK, Task
  <2>2. StageInv(i) /\ OpenInv(i) /\ work[i] # "none"
    BY <1>1, <2>1, PostedTask DEF IInv, ForgetInv
  <2>3. work[i] = "finished" /\ Quiet(i) /\ conn[i] \notin {"closing", "closing_cb"}
    BY <1>1, <2>1, <2>2
    DEF LoopAlive, ReqsPending, Quiet, TypeOK, TaskTypeOK, UvTypeOK
  <2> QED
    BY <2>1, <2>2, <2>3
    DEF StageInv, OpenInv, PoolDone, Quiet, TypeOK, TaskTypeOK, UvTypeOK
<1>2. ASSUME IInv, ForgetInv, Accepted, [Next]_vars PROVE Accepted'
  <2>1. CASE Uninit
    <3>1. ~LoopAlive /\ TypeOK
      BY <1>2, <2>1 DEF Uninit, IInv
    <3>2. \A i \in Task : conn[i] # "open"
      <4> SUFFICES ASSUME NEW i \in Task PROVE conn[i] # "open"
        OBVIOUS
      <4>1. CASE i \in 1 .. cur_id
        BY <1>1, <1>2, <3>1, <4>1
      <4>2. CASE i \notin 1 .. cur_id
        <5>1. work[i] = "none"
          BY <1>2, <3>1, <4>2, MaxIdAssumption
          DEF IInv, IdsInv, Task, TypeOK, TaskTypeOK, TasksTypeOK
        <5> QED
          BY <1>2, <5>1 DEF IInv, StageInv
      <4> QED
        BY <4>1, <4>2
    <3> QED
      BY <1>2, <2>1, <3>2 DEF Uninit, FailedAssert
  <2>2. CASE \E i \in Task : Callback(i) \/ PoolThread(i)
    <3>1. \A i \in Task : \/ AfterWork(i) \/ OnConnectFailed(i) \/ WriteOk(i)
                          \/ RecvEnd(i) \/ CloseCb(i)
                          \/ UNCHANGED <<taskVars, asserts>> \/ PoolThread(i)
                          => UNCHANGED asserts
      BY DEF AfterWork, OnConnectFailed, WriteOk, RecvEnd, CloseCb,
             PoolThread, WorkInit, WorkConnect
    <3>2. \A i \in Task : \A s : WriteFailed(i, s) \/ ReadFailed(i, s) => Accepted'
      BY <1>2 DEF WriteFailed, ReadFailed, FailedAssert
    <3>3. \A i \in Task : OnConnectOk(i) => Accepted'
      BY <1>2 DEF OnConnectOk
    <3> QED
      BY <1>2, <2>2, <3>1, <3>2, <3>3 DEF Callback
  <2>3. CASE \E n \in 0 .. task_add_once : FloodBegin(n) \/ TimerCb(n)
    BY <1>2, <2>3 DEF FloodBegin, TimerCb, timer_cb, PostTasks, FailedAssert
  <2>4. CASE \/ TimerReleaseCb \/ Second \/ SignalCb \/ RunReturns \/ CloseLoop
             \/ Exited \/ UNCHANGED vars
    BY <1>2, <2>4
    DEF TimerReleaseCb, Second, SignalCb, RunReturns, CloseLoop, Exited, vars, vars_task
  <2> QED
    BY <1>2, <2>1, <2>2, <2>3, <2>4 DEF Next
<1>3. Init => Accepted
  BY DEF Init, TaskInit
<1>4. IInv /\ ForgetInv /\ Accepted => CleanExit
  <2>1. IInv /\ loop = "exited" => ~LoopAlive
    BY DEF IInv, Before
  <2> QED
    BY <1>1, <2>1 DEF CleanExit
<1> QED
  BY <1>2, <1>3, <1>4, PendingAlways, Invariant, PTL DEF Spec
=============================================================================
