----------------------------- MODULE ThreadPool ----------------------------
(***************************************************************************)
(* Class CThreadPool of src/src/threadpool.cpp: one caller that owns the   *)
(* pool, and its threads.  The program compiles the class and does not use *)
(* it at this commit.                                                      *)
(*                                                                         *)
(* ThreadProc tests m_tasks without the mutex, and waits on the condition  *)
(* without holding it.  uv_mutex_t is a recursive CRITICAL_SECTION on      *)
(* Windows: the wait leaves it once whoever owns it, and the thread owns   *)
(* it when the wait returns, up to its next wait.  To leave a mutex nobody *)
(* owns is undefined: it has no effect, or the mutex is of no use any more.*)
(***************************************************************************)
EXTENDS Integers, Sequences, FiniteSets

CONSTANTS
    Thread,         \* bound: the THREAD_NODEs ever made
    Caller,         \* the thread that calls the public functions
    NoOwner,        \* nobody owns m_mutex
    Broken,         \* nobody will ever own it again
    MaxTask         \* bound: calls of AddTask

ASSUME PoolAssumption ==
    /\ Caller # NoOwner /\ Broken \notin {Caller, NoOwner}
    /\ {Caller, NoOwner, Broken} \cap Thread = {}
    /\ MaxTask \in Nat

VARIABLES
    m_threads,      \* the nodes of the pool, oldest first
    is_exit,        \* the flag in each node
    m_tasks,        \* the tasks not yet taken; a task is its number
    added,          \* calls of AddTask so far
    worker,         \* the task each thread has taken last
    pc,             \* where each thread is in ThreadProc
    caller,         \* what the caller is doing
    owner, count,   \* m_mutex: its owner, and how often it has entered
    ran,            \* history: the tasks run to their end
    crashed,        \* history: front() was called on an empty list
    stolen,         \* history: a wait has left the mutex for another owner
    crowded,        \* history: two threads have existed at the same time
    slept,          \* history: the threads that have begun a wait
    late            \* history: the threads told to exit between test and wait

mutexVars == <<owner, count>>
history   == <<ran, crashed, stolen, crowded, slept, late>>
poolVars  == <<m_threads, is_exit>>
vars      == <<poolVars, m_tasks, added, worker, pc, caller, mutexVars, history>>

\* ThreadProc by line: 23, 28, 34, 35, 36, 39, 25, in the wait, its return.
PC == {"none", "test", "exit?", "lock", "front", "pop", "run", "wait", "sleep", "woken", "done"}

\* "del": joining the last thread.  "stop", "join": the two loops of WaitAll.
CallerState == [op : {"idle", "push", "unlock", "del", "stop", "join"}, i : Nat]

TypeOK ==
    /\ m_threads \in Seq(Thread)
    /\ is_exit \in [Thread -> BOOLEAN]
    /\ m_tasks \in Seq(1 .. MaxTask)
    /\ added \in 0 .. MaxTask
    /\ worker \in [Thread -> 0 .. MaxTask]
    /\ pc \in [Thread -> PC]
    /\ caller \in CallerState /\ (caller.op = "push" => added < MaxTask)
    /\ owner \in Thread \cup {Caller, NoOwner, Broken} /\ count \in Nat
    /\ ran \subseteq 0 .. MaxTask
    /\ crashed \in BOOLEAN /\ stolen \in BOOLEAN /\ crowded \in BOOLEAN
    /\ slept \subseteq Thread /\ late \subseteq Thread

Idle == [op |-> "idle", i |-> 0]

\* CThreadPool(0); AddThread adds the threads.
Init ==
    /\ m_threads = <<>>
    /\ is_exit = [t \in Thread |-> FALSE]
    /\ m_tasks = <<>> /\ added = 0
    /\ worker = [t \in Thread |-> 0]
    /\ pc = [t \in Thread |-> "none"]
    /\ caller = Idle
    /\ owner = NoOwner /\ count = 0
    /\ ran = {} /\ crashed = FALSE /\ stolen = FALSE /\ crowded = FALSE
    /\ slept = {} /\ late = {}
----------------------------------------------------------------------------
\* uv_mutex_lock, by a pool thread or the caller.
Enter(who) ==
    /\ owner \in {NoOwner, who}
    /\ owner' = who
    /\ count' = count + 1

\* uv_mutex_unlock, and the wait: nobody asks who calls.
Leave ==
    \/ /\ count > 0
       /\ count' = count - 1
       /\ owner' = IF count > 1 THEN owner ELSE NoOwner
    \/ /\ count = 0
       /\ owner' \in {owner, Broken}
       /\ UNCHANGED count

\* uv_cond_signal wakes one sleeping thread if there is any: what p becomes.
Signalled(p) ==
    LET sleepers == {t \in Thread : p[t] = "sleep"}
    IN  IF sleepers = {} THEN {p} ELSE {[p EXCEPT ![t] = "woken"] : t \in sleepers}

Goto(t, there) == pc' = [pc EXCEPT ![t] = there]
----------------------------------------------------------------------------
\* The inner while asks for a task alone.
SlipTest(t) ==
    /\ pc[t] = "test"
    /\ Goto(t, IF m_tasks = <<>> THEN "wait" ELSE "exit?")
    /\ UNCHANGED <<poolVars, m_tasks, added, worker, caller, mutexVars, history>>

\* The inner while of ThreadProc; the mutex is not held.
Test(t) ==
    /\ pc[t] = "test"
    /\ Goto(t, IF m_tasks = <<>> /\ ~is_exit[t] THEN "wait" ELSE "exit?")
    /\ UNCHANGED <<poolVars, m_tasks, added, worker, caller, mutexVars, history>>

\* uv_cond_wait leaves the mutex and sleeps ...
Wait(t) ==
    /\ pc[t] = "wait"
    /\ Goto(t, "sleep")
    /\ Leave
    /\ stolen' = (stolen \/ owner \notin {t, NoOwner, Broken})
    /\ slept' = slept \cup {t}
    /\ UNCHANGED <<poolVars, m_tasks, added, worker, caller, ran, crashed, crowded, late>>

\* ... may wake without a signal ...
Spurious(t) ==
    /\ pc[t] = "sleep"
    /\ Goto(t, "woken")
    /\ UNCHANGED <<poolVars, m_tasks, added, worker, caller, mutexVars, history>>

\* if for while: a thread that has been woken does not test again.
SlipWoken(t) ==
    /\ pc[t] = "woken"
    /\ Goto(t, "exit?")
    /\ Enter(t)
    /\ UNCHANGED <<poolVars, m_tasks, added, worker, caller, history>>

\* The wait returns without the mutex.
SlipWokenFree(t) ==
    /\ pc[t] = "woken"
    /\ Goto(t, "test")
    /\ UNCHANGED <<poolVars, m_tasks, added, worker, caller, mutexVars, history>>

\* ... and returns with the mutex.
Woken(t) ==
    /\ pc[t] = "woken"
    /\ Goto(t, "test")
    /\ Enter(t)
    /\ UNCHANGED <<poolVars, m_tasks, added, worker, caller, history>>

\* The exit is tested in the inner while alone.
SlipExitTest(t) ==
    /\ pc[t] = "exit?"
    /\ Goto(t, "lock")
    /\ UNCHANGED <<poolVars, m_tasks, added, worker, caller, mutexVars, history>>

\* A thread told to exit keeps the signal to itself.
SlipExitSignal(t) ==
    /\ pc[t] = "exit?"
    /\ Goto(t, IF is_exit[t] THEN "done" ELSE "lock")
    /\ UNCHANGED <<poolVars, m_tasks, added, worker, caller, mutexVars, history>>

\* A thread told to exit passes the signal on and ends, with the mutex if it
\* has it.
ExitTest(t) ==
    /\ pc[t] = "exit?"
    /\ IF is_exit[t] THEN pc' \in Signalled([pc EXCEPT ![t] = "done"])
                     ELSE Goto(t, "lock")
    /\ UNCHANGED <<poolVars, m_tasks, added, worker, caller, mutexVars, history>>

\* uv_mutex_lock is missing.
SlipLock(t) ==
    /\ pc[t] = "lock"
    /\ Goto(t, "front")
    /\ UNCHANGED <<poolVars, m_tasks, added, worker, caller, mutexVars, history>>

Lock(t) ==
    /\ pc[t] = "lock"
    /\ Goto(t, "front")
    /\ Enter(t)
    /\ UNCHANGED <<poolVars, m_tasks, added, worker, caller, history>>

\* worker = m_tasks.front().  Of an empty list it is garbage, and calling it
\* ends the program.
Front(t) ==
    /\ pc[t] = "front"
    /\ \/ /\ m_tasks # <<>>
          /\ worker' = [worker EXCEPT ![t] = Head(m_tasks)]
          /\ Goto(t, "pop")
          /\ UNCHANGED crashed
       \/ /\ m_tasks = <<>>
          /\ crashed' = TRUE
          /\ UNCHANGED <<worker, pc>>
    /\ UNCHANGED <<poolVars, m_tasks, added, caller, mutexVars, ran, stolen, crowded,
                   slept, late>>

\* pop_back for pop_front.
SlipPop(t) ==
    /\ pc[t] = "pop"
    /\ m_tasks' = SubSeq(m_tasks, 1, Len(m_tasks) - 1)
    /\ Leave
    /\ Goto(t, "run")
    /\ UNCHANGED <<poolVars, added, worker, caller, history>>

\* m_tasks.pop_front(), of what is left once the mutex was stolen, and the
\* unlock.
Pop(t) ==
    /\ pc[t] = "pop"
    /\ m_tasks' = IF m_tasks = <<>> THEN <<>> ELSE Tail(m_tasks)
    /\ Leave
    /\ Goto(t, "run")
    /\ UNCHANGED <<poolVars, added, worker, caller, history>>

\* worker.worker(worker.context), to its end.
Run(t) ==
    /\ pc[t] = "run"
    /\ ran' = ran \cup {worker[t]}
    /\ Goto(t, "test")
    /\ UNCHANGED <<poolVars, m_tasks, added, worker, caller, mutexVars, crashed, stolen,
                   crowded, slept, late>>
----------------------------------------------------------------------------
\* AddThread(1): one new node, its thread started.
AddThread(t) ==
    /\ caller = Idle
    /\ pc[t] = "none"
    /\ Goto(t, "test")
    /\ m_threads' = Append(m_threads, t)
    /\ crowded' = (crowded \/ \E u \in Thread : pc[u] \notin {"none", "done"})
    /\ UNCHANGED <<is_exit, m_tasks, added, worker, caller, mutexVars, ran, crashed,
                   stolen, slept, late>>

Tell(t) ==
    /\ is_exit' = [is_exit EXCEPT ![t] = TRUE]
    /\ pc' \in Signalled(pc)
    /\ late' = late \cup {u \in Thread : u = t /\ pc[u] = "wait"}
    /\ UNCHANGED <<ran, crashed, stolen, crowded, slept>>

\* DelThread: the last thread is told to exit ...
DelThread ==
    /\ caller = Idle
    /\ m_threads # <<>>
    /\ caller' = [op |-> "del", i |-> Len(m_threads)]
    /\ Tell(m_threads[Len(m_threads)])
    /\ UNCHANGED <<m_threads, m_tasks, added, worker, mutexVars>>

\* ... joined, and its node deleted.
DelJoin ==
    /\ caller.op = "del"
    /\ pc[m_threads[caller.i]] = "done"
    /\ m_threads' = SubSeq(m_threads, 1, Len(m_threads) - 1)
    /\ caller' = Idle
    /\ UNCHANGED <<is_exit, m_tasks, added, worker, pc, mutexVars, history>>

\* WaitAll: the loop that tells each thread to exit ...
WaitAll ==
    /\ caller = Idle
    /\ caller' = [op |-> "stop", i |-> 1]
    /\ UNCHANGED <<poolVars, m_tasks, added, worker, pc, mutexVars, history>>

WaitAllStop ==
    /\ caller.op = "stop"
    /\ \/ /\ caller.i <= Len(m_threads)
          /\ Tell(m_threads[caller.i])
          /\ caller' = [op |-> "stop", i |-> caller.i + 1]
       \/ /\ caller.i > Len(m_threads)
          /\ caller' = [op |-> "join", i |-> 1]
          /\ UNCHANGED <<is_exit, pc, history>>
    /\ UNCHANGED <<m_threads, m_tasks, added, worker, mutexVars>>

\* ... and the loop that joins them.  The nodes stay.
WaitAllJoin ==
    /\ caller.op = "join"
    /\ \/ /\ caller.i <= Len(m_threads)
          /\ pc[m_threads[caller.i]] = "done"
          /\ caller' = [op |-> "join", i |-> caller.i + 1]
       \/ /\ caller.i > Len(m_threads)
          /\ caller' = Idle
    /\ UNCHANGED <<poolVars, m_tasks, added, worker, pc, mutexVars, history>>

\* AddTask: lock ...
AddTask ==
    /\ caller = Idle
    /\ added < MaxTask
    /\ Enter(Caller)
    /\ caller' = [op |-> "push", i |-> 0]
    /\ UNCHANGED <<poolVars, m_tasks, added, worker, pc, history>>

\* push_front for push_back.
SlipAddPush ==
    /\ caller.op = "push"
    /\ added' = added + 1
    /\ m_tasks' = <<added + 1>> \o m_tasks
    /\ pc' \in Signalled(pc)
    /\ caller' = [op |-> "unlock", i |-> 0]
    /\ UNCHANGED <<poolVars, worker, mutexVars, history>>

\* ... push_back and signal ...
AddPush ==
    /\ caller.op = "push"
    /\ added' = added + 1
    /\ m_tasks' = Append(m_tasks, added + 1)
    /\ pc' \in Signalled(pc)
    /\ caller' = [op |-> "unlock", i |-> 0]
    /\ UNCHANGED <<poolVars, worker, mutexVars, history>>

\* ... and unlock.
AddUnlock ==
    /\ caller.op = "unlock"
    /\ Leave
    /\ caller' = Idle
    /\ UNCHANGED <<poolVars, m_tasks, added, worker, pc, history>>
----------------------------------------------------------------------------
ThreadProc(t) ==
    Test(t) \/ Wait(t) \/ Woken(t) \/ ExitTest(t) \/ Lock(t) \/ Front(t) \/ Pop(t) \/ Run(t)

\* One call after another: SetThreadNumber, DelThread(n), ReleaseThreads and
\* the destructor are sequences of these.
Call ==
    \/ \E t \in Thread : AddThread(t)
    \/ DelThread \/ WaitAll \/ AddTask

Calling == DelJoin \/ WaitAllStop \/ WaitAllJoin \/ AddPush \/ AddUnlock

Next ==
    /\ ~crashed
    /\ \/ \E t \in Thread : ThreadProc(t) \/ Spurious(t)
       \/ Call
       \/ Calling

Spec == Init /\ [][Next]_vars

\* The threads run and so does a call that was begun; tasks end.
FairSpec ==
    /\ Spec
    /\ \A t \in Thread : WF_vars(~crashed /\ ThreadProc(t))
    /\ WF_vars(~crashed /\ Calling)
----------------------------------------------------------------------------
\* The lines that change m_tasks or rely on its front.
Inside(t) == pc[t] \in {"front", "pop"}

\* As long as no wait has left the mutex for another owner, the list is
\* changed by one thread at a time: the recursive mutex that a woken thread
\* carries around does no harm to that.
OneInside ==
    ~stolen =>
        /\ \A t, u \in Thread : Inside(t) /\ Inside(u) => t = u
        /\ caller.op = "push" => \A t \in Thread : ~Inside(t)

Queued(k)  == \E j \in 1 .. Len(m_tasks) : m_tasks[j] = k
Running(k) == \E t \in Thread : pc[t] = "run" /\ worker[t] = k

\* Under the same condition each task added is in the list, or being run by
\* one thread, or has been run: none is lost and none is run twice, and the
\* list keeps the order of the calls.
TaskConserved ==
    ~stolen =>
        /\ \A j \in 1 .. Len(m_tasks) : m_tasks[j] = added - Len(m_tasks) + j
        /\ \A k \in 1 .. added : Queued(k) \/ Running(k) \/ k \in ran
        /\ \A k \in ran : ~Queued(k) /\ ~Running(k)
        /\ \A t, u \in Thread :
               pc[t] = "run" /\ pc[u] = "run" /\ worker[t] = worker[u] => t = u

\* front() is called on an empty list only if two threads have existed at the
\* same time: the test without the mutex is enough for a pool of one thread,
\* spurious wake-ups and stolen mutexes included.
SoloSafe == crashed => crowded

\* How many lines of ThreadProc a thread has yet to pass before it is done,
\* once it is told to exit.
LinesLeft(p) ==
    CASE p = "lock" -> 6 [] p \in {"front", "wait"} -> 5 [] p \in {"pop", "sleep"} -> 4
      [] p \in {"run", "woken"} -> 3 [] p = "test" -> 2 [] p = "exit?" -> 1
      [] p \in {"none", "done"} -> 0

\* A thread told to exit only goes on towards its end, however many tasks are
\* added and whoever else is signalled: it runs one more task at most, and
\* waits only if it had decided to when it was told.  What can still keep its
\* join from returning is that it never leaves that wait, or never gets the
\* mutex.
ExitRunsDown ==
    [][\A t \in Thread :
           is_exit[t] => pc'[t] = pc[t] \/ LinesLeft(pc'[t]) < LinesLeft(pc[t])]_vars

\* Until a wait has left the mutex for another owner, a thread that has begun
\* to wait once owns it from the return of each wait to the beginning of the
\* next: while it runs a task, and for ever if it ends.  So only the first wait
\* of a thread ever leaves the mutex of another.
WaiterOwns ==
    ~stolen => \A t \in slept : pc[t] \notin {"sleep", "woken"} => owner = t

\* WaitAll signals once per thread, before all of them are told, and a signal
\* may wake a thread that goes back to sleep; yet while WaitAll joins, whoever
\* sleeps still has a thread ahead of it that will pass the signal on, unless
\* it was told to exit between its test and its wait.
WaitAllWakes ==
    caller.op = "join" =>
        \A t \in Thread \ late :
            pc[t] = "sleep" =>
                \E u \in Thread :
                    is_exit[u] /\ pc[u] \notin {"none", "wait", "sleep", "done"}

\* In a pool that has had one thread at a time a join returns, unless the
\* thread was between its test and its wait when it was told to exit (that
\* signal is lost), or an earlier thread has ended with the mutex, or a wait
\* has broken it.
JoinReturns ==
    \A t \in Thread :
        /\ ~crowded
        /\ caller.op \in {"del", "join"}
        /\ caller.i \in 1 .. Len(m_threads)
        /\ m_threads[caller.i] = t
        /\ pc[t] \notin {"wait", "sleep"}
        /\ owner \in {NoOwner, t}
        ~> (caller.op \notin {"del", "join"} \/ pc[t] = "done")
----------------------------------------------------------------------------
\* The pool as its caller sees it.
Pool == INSTANCE TaskPool WITH
    given    <- added,
    waiting  <- m_tasks,
    running  <- {worker[t] : t \in {u \in Thread : pc[u] = "run"}},
    finished <- ran,
    spoilt   <- stolen

\* The class implements TaskPool: with any number of threads and however the
\* lock, the copy of the front, the pop and the signals interleave, the tasks
\* are started in the order of AddTask, each by one thread and once.
ImplementsPool == Pool!Spec
=============================================================================
