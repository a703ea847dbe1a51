----------------------------- MODULE StressTest ----------------------------
(***************************************************************************)
(* The program of src/src/Main.cpp: the two timers, the signal handlers,   *)
(* and main from init to uninit, over the tasks of module TcpTask.         *)
(***************************************************************************)
EXTENDS TcpTask

CONSTANTS
    task_min_running,       \* main_config.task_min_running
    task_add_once,          \* main_config.task_add_once
    flood_begin             \* main_config.flood_begin

\* main raises both counts to at least 1.  The bound MaxId admits one batch.
ASSUME ConfigAssumption ==
    /\ task_min_running \in Nat \ {0}
    /\ task_add_once \in 1 .. MaxId
    /\ flood_begin \in BOOLEAN

VARIABLE
    loop            \* where the main thread is

\* "flood": before uv_run, with flood_begin.  "run": in uv_run.  "stopping":
\* uv_stop was called in this iteration.  "getchar": uv_run has returned.
\* "close_loop": in the uv_run of close_loop.  "exited": uninit is done.
LoopState == {"flood", "run", "stopping", "getchar", "close_loop", "exited"}

vars == <<uvVars, taskVars, asserts, loop>>

TypeOK == TaskTypeOK /\ loop \in LoopState

\* init may fail, on the script file only; main then goes straight to its end.
Init ==
    /\ TaskInit
    /\ loop \in {IF flood_begin THEN "flood" ELSE "run"}
                  \cup (IF HTTP THEN {} ELSE {"getchar"})
----------------------------------------------------------------------------
\* <= for <.
Slip_timer_cb(n) ==
    /\ Count <= task_min_running
    /\ PostTasks(n, task_add_once)

\* timer_cb: one batch when there are too few tasks; n posts succeed.
timer_cb(n) ==
    /\ Count < task_min_running
    /\ PostTasks(n, task_add_once)

\* main calls timer_cb once before uv_run; it asks for Count itself, too.
FloodBegin(n) ==
    /\ loop = "flood"
    /\ loop' = "run"
    /\ timer_cb(n)

\* Timers run at the start of an iteration: no endgame is left over.
TimerRuns == loop = "run" /\ EndgamesDrained

TimerCb(n) ==
    /\ TimerRuns
    /\ timer_cb(n)
    /\ UNCHANGED loop

TimerReleaseCb ==
    /\ TimerRuns
    /\ DeleteTask_ToBeDeleted
    /\ UNCHANGED <<uvVars, asserts, loop>>

\* SIGINT, SIGBREAK or SIGHUP: uv_stop.
SignalCb ==
    /\ loop = "run"
    /\ loop' = "stopping"
    /\ UNCHANGED vars_task

\* uv_run returns at the end of the iteration; main waits for a key.
RunReturns ==
    /\ loop = "stopping"
    /\ EndgamesDrained
    /\ loop' = "getchar"
    /\ UNCHANGED vars_task

\* A key, then uninit: close_walk_cb closes, without a callback, every handle
\* that is not closing; the timers and the signal handles go too.
CloseLoop ==
    /\ loop = "getchar"
    /\ loop' = "close_loop"
    /\ conn' = [i \in Task |-> IF conn[i] = "open" THEN "closing" ELSE conn[i]]
    /\ reading' = [i \in Task |-> IF conn[i] = "open" THEN StopReading(reading[i])
                                                     ELSE reading[i]]
    /\ UNCHANGED <<req, work, taskVars, asserts>>

\* tasks.Clear() before the loop has closed every handle.
SlipUninit ==
    /\ loop = "close_loop"
    /\ loop' = "exited"
    /\ Clear
    /\ UNCHANGED <<uvVars, asserts>>

\* uninit first waits for every task to be freed.
SlipUninitWaits ==
    /\ loop = "close_loop"
    /\ ~LoopAlive
    /\ task_list = {}
    /\ loop' = "exited"
    /\ UNCHANGED <<uvVars, taskVars, asserts>>

\* The uv_run of close_loop returns when nothing is left alive; uv_loop_close
\* is refused if some handle was never closed; tasks.Clear() frees every task.
Uninit ==
    /\ loop = "close_loop"
    /\ ~LoopAlive
    /\ loop' = "exited"
    /\ Clear
    /\ FailedAssert("uv_loop_close", \A i \in Task : conn[i] # "open")
    /\ UNCHANGED uvVars

Exited == loop = "exited" /\ UNCHANGED vars
----------------------------------------------------------------------------
\* A callback runs on the loop thread, inside one of the two uv_runs.
LoopRuns == loop \in {"run", "stopping", "close_loop"}

Callback(i) ==
    /\ LoopRuns
    /\ \/ AfterWork(i)
       \/ OnConnectOk(i)
       \/ OnConnectFailed(i)
       \/ WriteOk(i)
       \/ \E s \in {"ECONNRESET", "ECANCELED"} : WriteFailed(i, s)
       \/ \E s \in {"ECONNRESET", "EOF", "ETIMEDOUT"} : ReadFailed(i, s)
       \/ RecvEnd(i)
       \/ CloseCb(i)
       \/ ReadAborted(i) /\ UNCHANGED <<taskVars, asserts>>
    /\ UNCHANGED loop

\* A thread of libuv's pool, whatever the main thread does.
PoolThread(i) == (WorkInit(i) \/ WorkConnect(i)) /\ UNCHANGED loop

Second ==
    /\ loop \in {"run", "stopping"}
    /\ Tick
    /\ UNCHANGED <<uvVars, asserts, loop>>

Next ==
    \/ \E n \in 0 .. task_add_once : FloodBegin(n) \/ TimerCb(n)
    \/ TimerReleaseCb
    \/ SignalCb
    \/ RunReturns
    \/ CloseLoop
    \/ Uninit
    \/ Second
    \/ \E i \in Task : Callback(i) \/ PoolThread(i)
    \/ Exited

Spec == Init /\ [][Next]_vars

\* What one of the callbacks of Callback(i) is due for, taken by itself.
OnLoop(A)    == LoopRuns /\ A /\ UNCHANGED loop
WriteEnds(i) == WriteOk(i) \/ \E s \in {"ECONNRESET", "ECANCELED"} : WriteFailed(i, s)
ReadEnds(i)  == RecvEnd(i) \/ \E s \in {"ECONNRESET", "EOF", "ETIMEDOUT"} : ReadFailed(i, s)

\* The loop and the pool threads are scheduled; timers come due; a connect or
\* a write gets an answer; a name is resolved in the end; every peer either
\* sends the whole page or drops the connection; somebody presses the key.
Fairness ==
    /\ WF_vars(TimerCb(task_add_once)) /\ WF_vars(TimerReleaseCb)
    /\ WF_vars(Second)
    /\ WF_vars(RunReturns) /\ WF_vars(CloseLoop) /\ WF_vars(Uninit)
    /\ \A i \in Task :
        /\ WF_vars(PoolThread(i))
        /\ WF_vars(OnLoop(AfterWork(i)))
        /\ WF_vars(OnLoop(OnConnectOk(i) \/ OnConnectFailed(i)))
        /\ WF_vars(OnLoop(WriteEnds(i)))
        /\ WF_vars(OnLoop(ReadEnds(i)))
        /\ WF_vars(OnLoop(CloseCb(i) \/ (ReadAborted(i) /\ UNCHANGED <<taskVars, asserts>>)))

FairSpec == Spec /\ Fairness
----------------------------------------------------------------------------
Before    == loop # "exited"
BeforeKey == loop \notin {"close_loop", "exited"}

\* Every node of the queue is a task of the map, and no task is queued twice:
\* DeleteTask_ToBeDeleted reads piter->ptask of a freed task otherwise.  A
\* task can see a failed read, a failed write and a do_close, each calling
\* uv_close.
RetiredOnce ==
    Before =>
        \A j \in 1 .. Len(to_delete_task_list) :
            /\ to_delete_task_list[j].ptask \in task_list
            /\ \A k \in 1 .. Len(to_delete_task_list) :
                   to_delete_task_list[j].ptask = to_delete_task_list[k].ptask => j = k

\* What libuv or a pool thread may still touch of a task's handle and of its
\* connect or write request.  The work item itself is not part of it: the sweep
\* does not look at work_req, and only time keeps it from freeing a task whose
\* after_work_cb is still due.
LibuvHolds(i) ==
    \/ work[i] \in {"queued", "init"}
    \/ ReqsPending(i)
    \/ conn[i] \in {"closing", "closing_cb"}
    \/ conn[i] = "open" /\ Before

\* A task is freed (by the sweep or by uninit) only after libuv is done with
\* its handle and its connect or write request, whichever callbacks failed.
FreedAfterLibuv == \A i \in Task : LibuvHolds(i) => i \in task_list

\* A callback is on its way to task i that can still end it.
InProgress(i) ==
    work[i] \in {"queued", "init"} \/ ReqsPending(i) \/ conn[i] = "closing_cb"

\* Until the key is pressed, a task that is not queued to be freed has a
\* callback coming that will bring it there: no task is forgotten in the map,
\* whichever of its connect, write, read and close callbacks fail.
NoTaskForgotten ==
    BeforeKey => \A i \in task_list : Retired(i) \/ InProgress(i)

\* With no assumption on connects, reads or callbacks, a task is forgotten in
\* one way only: its handle was opened and no request of it was ever started,
\* or none is left.  No closed handle is forgotten, whoever closed it.
ForgottenIsOpen ==
    BeforeKey =>
        \A i \in task_list :
            Retired(i) \/ InProgress(i) \/ (conn[i] = "open" /\ ~ReqsPending(i))

\* The order of the queue, the clock and the three tests of the handle agree:
\* no node that is past its time waits behind one that may not be freed yet,
\* although the sweep stops at the first such node.
DueNotBlocked ==
    \A k \in 1 .. Len(to_delete_task_list) :
        to_delete_task_list[k].age > TIMEOUT_FOR_RELEASE =>
            \A j \in 1 .. k : Erasable(to_delete_task_list[j])

\* If every connect and every read starts a request, the program leaves no
\* handle behind, whether or not its write could be started:
\* even those that a pool thread opens after close_walk_cb has gone through
\* the loop are closed, by their own callbacks, before the uv_run of
\* close_loop returns, and uv_loop_close is not refused.
CleanExit ==
    loop = "exited" =>
        /\ \A i \in 1 .. cur_id : conn[i] = "closed"
        /\ "uv_loop_close" \notin asserts

\* How many steps libuv can still take for a task, at most.
WorkLeft(w) == CASE w = "none" -> 8 [] w = "queued" -> 7 [] w = "init" -> 6
                 [] w = "returning" -> 1 [] w = "finished" -> 0
ConnLeft(c) == CASE c \in {"zeroed", "open"} -> 2 [] c \in {"closing", "closing_cb"} -> 1
                 [] c = "closed" -> 0
ReqLeft(r)  == CASE r = "connect" -> 4 [] r = "write" -> 1 [] r = "idle" -> 0
ReadLeft(r) == CASE r = "on" -> 2 [] r = "aborting" -> 1 [] r = "off" -> 0

StepsLeft(i) == WorkLeft(work[i]) + ConnLeft(conn[i]) + ReqLeft(req[i]) + ReadLeft(reading[i])

\* Every step that changes what libuv has of a task takes it nearer its end, so
\* a posted task sees at most nine of them: whichever callbacks fail, and
\* whoever closes the handle, no read, write, connect or close starts over.
TasksRunDown ==
    [][\A i \in Task :
           \/ <<conn[i], req[i], reading[i], work[i]>>' = <<conn[i], req[i], reading[i], work[i]>>
           \/ StepsLeft(i)' < StepsLeft(i)]_vars

\* The tasks in the map never exceed one batch more than the configured
\* minimum less one, however slowly they are freed.
TaskBound == Count < task_min_running + task_add_once

\* A task queued to be freed is freed, unless the program is stopped first.
RetiredIsFreed ==
    \A i \in Task : Retired(i) ~> (i \notin task_list \/ loop # "run")

\* A posted task ends up queued to be freed, unless the program is stopped.
PostedIsRetired ==
    \A i \in Task : i \in task_list ~> (Retired(i) \/ loop # "run")

\* While fewer than task_min_running tasks are in progress, further tasks are
\* added (as long as the bound MaxId leaves room for a batch).
TasksAreAdded ==
    \A k \in 0 .. MaxId - task_add_once :
        /\ loop = "run"
        /\ cur_id = k
        /\ Cardinality({i \in task_list : InProgress(i)}) < task_min_running
        ~> (cur_id > k \/ loop # "run")

\* After a signal, or after init has failed, the program exits, whatever the
\* tasks were doing.
StopCompletes == loop \in {"stopping", "getchar"} ~> loop = "exited"
----------------------------------------------------------------------------
\* The container as its users see it.  After uninit nothing is left of it.
Registry == INSTANCE TaskRegistry WITH
    MaxPosted  <- MaxId,
    SweepLimit <- CHECK_DELETE_COUNT,
    MinRunning <- task_min_running,
    BatchSize  <- task_add_once,
    posted     <- cur_id,
    live       <- {i \in task_list : ~Retired(i)},
    retired    <- IF Before THEN [j \in 1 .. Len(to_delete_task_list) |->
                                      to_delete_task_list[j].ptask]
                            ELSE <<>>,
    stopped    <- ~Before

\* The program implements TaskRegistry: ids in order and never reused, each
\* task queued once, freed in queue order and at most CHECK_DELETE_COUNT at a
\* time, and none posted at task_min_running or above.
RefinesRegistry == Registry!Spec
=============================================================================
