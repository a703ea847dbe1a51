-------------------------- MODULE ThreadPoolProofs -------------------------
(***************************************************************************)
(* The safety of CThreadPool, for any number of threads and tasks.         *)
(***************************************************************************)
EXTENDS ThreadPool, SequenceTheorems, TLAPS

\* Who is inside, or adding, owns the mutex.
MutexInv ==
    ~stolen =>
        /\ \A t \in Thread : Inside(t) => owner = t
        /\ caller.op \in {"push", "unlock"} => owner = Caller

Taken == added - Len(m_tasks)

\* The tasks 1 .. Taken have left the list, each in the hands of one thread
\* until it is in ran; the others are in the list in order.
QueueInv ==
    ~stolen =>
        /\ Taken \in Nat
        /\ \A j \in 1 .. Len(m_tasks) : m_tasks[j] = Taken + j
        /\ \A t \in Thread : pc[t] = "pop" => m_tasks # <<>> /\ worker[t] = Taken + 1
        /\ \A t \in Thread : pc[t] = "run" => worker[t] \in (1 .. Taken) \ ran
        /\ \A t, u \in Thread :
               pc[t] = "run" /\ pc[u] = "run" /\ worker[t] = worker[u] => t = u
        /\ ran \subseteq 1 .. Taken
        /\ \A k \in 1 .. Taken : Running(k) \/ k \in ran

Live(t) == pc[t] \notin {"none", "done"}

\* A thread on its way to front() has seen a task.
Seen(t) == pc[t] \in {"lock", "front", "pop"} \/ (pc[t] = "exit?" /\ ~is_exit[t])

\* A single thread that has seen a task still finds it.
SoloInv ==
    ~crowded =>
        /\ ~crashed
        /\ \A t, u \in Thread : Live(t) /\ Live(u) => t = u
        /\ \A t \in Thread : Seen(t) => m_tasks # <<>>

\* A thread that has waited holds the mutex once at every line, and twice at
\* those between the lock and the unlock of line 34 to 37.
HeldInv ==
    ~stolen =>
        \A t \in slept :
            pc[t] \notin {"sleep", "woken"} =>
                owner = t /\ count >= IF Inside(t) THEN 2 ELSE 1

\* WaitAll has told every thread that exists.
AllTold == caller.op = "join" \/ (caller.op = "stop" /\ caller.i > Len(m_threads))

\* A thread that will pass a signal on.
OnItsWay(t) == is_exit[t] /\ pc[t] \notin {"none", "wait", "sleep", "done"}

\* Every thread is that of a node; WaitAll has told those up to caller.i; only
\* a thread told late can be about to wait; once all are told, one that sleeps
\* has another ahead of it.
WakeInv ==
    /\ \A t \in Thread : Live(t) => \E j \in 1 .. Len(m_threads) : m_threads[j] = t
    /\ caller.op = "del" => caller.i = Len(m_threads)
    /\ caller.op = "stop" =>
           \A j \in 1 .. Len(m_threads) : j < caller.i => is_exit[m_threads[j]]
    /\ caller.op = "join" => \A t \in Thread : Live(t) => is_exit[t]
    /\ \A t \in Thread : is_exit[t] /\ pc[t] = "wait" => t \in late
    /\ AllTold => \A t \in Thread \ late : pc[t] = "sleep" => \E u \in Thread : OnItsWay(u)

PoolInv == TypeOK /\ MutexInv /\ QueueInv /\ SoloInv
----------------------------------------------------------------------------
USE PoolAssumption

\* A signal moves at most one sleeping thread, to the return of its wait.
LEMMA SignalMoves ==
    ASSUME NEW p \in [Thread -> PC], NEW r \in Signalled(p)
    PROVE  /\ r \in [Thread -> PC]
           /\ \A t \in Thread : r[t] = p[t] \/ (p[t] = "sleep" /\ r[t] = "woken")
<1>1. CASE r = p
    BY <1>1
<1>2. ASSUME NEW s \in Thread, p[s] = "sleep", r = [p EXCEPT ![s] = "woken"]
      PROVE  /\ r \in [Thread -> PC]
             /\ \A t \in Thread : r[t] = p[t] \/ (p[t] = "sleep" /\ r[t] = "woken")
    BY <1>2 DEF PC
<1> QED
    BY <1>1, <1>2 DEF Signalled

\* What the four signalling steps do to a thread.
LEMMA SignalStep ==
    ASSUME TypeOK,
           \/ \E t \in Thread : ExitTest(t) /\ is_exit[t]
           \/ DelThread \/ WaitAllStop \/ AddPush
    PROVE  /\ pc' \in [Thread -> PC]
           /\ \A u \in Thread :
                  \/ pc'[u] = pc[u]
                  \/ pc[u] = "sleep" /\ pc'[u] = "woken"
                  \/ pc[u] = "exit?" /\ is_exit[u] /\ pc'[u] = "done"
<1> DEFINE Q == /\ pc' \in [Thread -> PC]
                /\ \A u \in Thread :
                       \/ pc'[u] = pc[u]
                       \/ pc[u] = "sleep" /\ pc'[u] = "woken"
                       \/ pc[u] = "exit?" /\ is_exit[u] /\ pc'[u] = "done"
<1>0. pc \in [Thread -> PC]
    BY DEF TypeOK
<1>1. ASSUME NEW t \in Thread, ExitTest(t), is_exit[t] PROVE Q
    <2> DEFINE p == [pc EXCEPT ![t] = "done"]
    <2>1. p \in [Thread -> PC]
        BY <1>0 DEF PC
    <2>2. pc' \in Signalled(p) /\ pc[t] = "exit?"
        BY <1>1 DEF ExitTest
    <2>3. /\ pc' \in [Thread -> PC]
          /\ \A u \in Thread : pc'[u] = p[u] \/ (p[u] = "sleep" /\ pc'[u] = "woken")
        <3> HIDE DEF p
        <3> QED
            BY <2>1, <2>2, SignalMoves
    <2> QED
        BY <1>0, <1>1, <2>2, <2>3
<1>2. ASSUME pc' \in Signalled(pc) PROVE Q
    BY <1>0, <1>2, SignalMoves
<1>3. CASE DelThread
    BY <1>2, <1>3 DEF DelThread, Tell
<1>4. CASE WaitAllStop
    BY <1>0, <1>2, <1>4 DEF WaitAllStop, Tell
<1>5. CASE AddPush
    BY <1>2, <1>5 DEF AddPush
<1> QED
    BY <1>1, <1>3, <1>4, <1>5

\* To tell a thread to exit changes its flag, the program counters and caller.
LEMMA TellFrame ==
    ASSUME DelThread \/ WaitAllStop
    PROVE  UNCHANGED <<m_threads, m_tasks, added, worker, owner, count, ran, crashed,
                       stolen, crowded, slept>>
BY DEF DelThread, WaitAllStop, Tell, mutexVars, history

LEMMA TypesStep == TypeOK /\ [Next]_vars => TypeOK'
<1> SUFFICES ASSUME TypeOK, [Next]_vars PROVE TypeOK'
    OBVIOUS
<1> USE DEF TypeOK, CallerState, poolVars, mutexVars, history, Goto
<1>1. ASSUME NEW t \in Thread, Test(t) PROVE TypeOK'
    BY <1>1 DEF Test, PC
<1>2. ASSUME NEW t \in Thread, Wait(t) PROVE TypeOK'
    BY <1>2 DEF Wait, Leave, PC
<1>3. ASSUME NEW t \in Thread, Spurious(t) PROVE TypeOK'
    BY <1>3 DEF Spurious, PC
<1>4. ASSUME NEW t \in Thread, Woken(t) PROVE TypeOK'
    BY <1>4 DEF Woken, Enter, PC
<1>5. ASSUME NEW t \in Thread, ExitTest(t) PROVE TypeOK'
    <2>1. CASE is_exit[t]
        BY <1>5, <2>1, SignalStep DEF ExitTest
    <2>2. CASE ~is_exit[t]
        BY <1>5, <2>2 DEF ExitTest, PC
    <2> QED
        BY <2>1, <2>2
<1>6. ASSUME NEW t \in Thread, Lock(t) PROVE TypeOK'
    BY <1>6 DEF Lock, Enter, PC
<1>7. ASSUME NEW t \in Thread, Front(t) PROVE TypeOK'
    <2>1. m_tasks # <<>> => Head(m_tasks) \in 0 .. MaxTask
        <3>1. 1 .. MaxTask \subseteq 0 .. MaxTask
            OBVIOUS
        <3> QED
            BY <3>1, HeadTailProperties
    <2>2. worker' \in [Thread -> 0 .. MaxTask]
        BY <1>7, <2>1 DEF Front
    <2>3. pc' \in [Thread -> PC] /\ crashed' \in BOOLEAN
        BY <1>7 DEF Front, PC
    <2> QED
        BY <1>7, <2>2, <2>3 DEF Front
<1>8. ASSUME NEW t \in Thread, Pop(t) PROVE TypeOK'
    <2>1. m_tasks' \in Seq(1 .. MaxTask)
        BY <1>8, HeadTailProperties DEF Pop
    <2>2. owner' \in Thread \cup {Caller, NoOwner, Broken} /\ count' \in Nat
        BY <1>8 DEF Pop, Leave
    <2>3. pc' \in [Thread -> PC]
        BY <1>8 DEF Pop, PC
    <2> QED
        BY <1>8, <2>1, <2>2, <2>3 DEF Pop
<1>9. ASSUME NEW t \in Thread, Run(t) PROVE TypeOK'
    BY <1>9 DEF Run, PC
<1>10. ASSUME NEW t \in Thread, AddThread(t) PROVE TypeOK'
    BY <1>10 DEF AddThread, PC
<1>11. CASE DelThread
    <2>1. pc' \in [Thread -> PC]
        BY <1>11, SignalStep
    <2>2. is_exit' \in [Thread -> BOOLEAN]
        BY <1>11 DEF DelThread, Tell
    <2>3. caller' \in CallerState /\ caller'.op # "push"
        BY <1>11 DEF DelThread
    <2>4. /\ m_threads' \in Seq(Thread) /\ m_tasks' \in Seq(1 .. MaxTask)
          /\ UNCHANGED <<added, worker, owner, count, ran, crashed, stolen, crowded, slept>>
          /\ late' \subseteq Thread
        BY <1>11, TellFrame DEF DelThread, Tell
    <2>5. caller' \in CallerState /\ (caller'.op = "push" => added' < MaxTask)
        BY <2>3
    <2>6. /\ owner' \in Thread \cup {Caller, NoOwner, Broken} /\ count' \in Nat
          /\ ran' \subseteq 0 .. MaxTask
          /\ crashed' \in BOOLEAN /\ stolen' \in BOOLEAN /\ crowded' \in BOOLEAN
          /\ slept' \subseteq Thread /\ late' \subseteq Thread
        BY <2>4
    <2>7. added' \in 0 .. MaxTask /\ worker' \in [Thread -> 0 .. MaxTask]
        BY <2>4
    <2> HIDE DEF CallerState
    <2> QED
        BY <2>1, <2>2, <2>4, <2>5, <2>6, <2>7
<1>12. CASE DelJoin
    <2>1. SubSeq(m_threads, 1, Len(m_threads) - 1) \in Seq(Thread)
        <3>1. \A j \in 1 .. Len(m_threads) - 1 : m_threads[j] \in Thread
            OBVIOUS
        <3> QED
            BY <3>1, SubSeqProperties
    <2> QED
        BY <1>12, <2>1 DEF DelJoin, Idle
<1>13. CASE WaitAll
    BY <1>13 DEF WaitAll
<1>14. CASE WaitAllStop
    <2>1. CASE caller.i <= Len(m_threads)
        <3>1. pc' \in [Thread -> PC]
            BY <1>14, SignalStep
        <3>3. is_exit' = [is_exit EXCEPT ![m_threads[caller.i]] = TRUE]
            BY <1>14, <2>1 DEF WaitAllStop, Tell
        <3>2. caller' = [op |-> "stop", i |-> caller.i + 1]
            BY <1>14, <2>1 DEF WaitAllStop
        <3>4. is_exit' \in [Thread -> BOOLEAN]
            BY <3>3
        <3>5. late' \subseteq Thread
            BY <1>14, <2>1 DEF WaitAllStop, Tell
        <3>6. caller' \in CallerState /\ caller'.op # "push"
            BY <3>2
        <3> HIDE DEF CallerState
        <3> QED
            BY <1>14, <3>1, <3>4, <3>5, <3>6, TellFrame
    <2>2. CASE ~(caller.i <= Len(m_threads))
        <3>1. caller' = [op |-> "join", i |-> 1] /\ UNCHANGED <<is_exit, pc, late>>
            BY <1>14, <2>2 DEF WaitAllStop
        <3>2. caller' \in CallerState /\ caller'.op # "push"
            BY <3>1
        <3> HIDE DEF CallerState
        <3> QED
            BY <1>14, <3>1, <3>2, TellFrame
    <2> QED
        BY <2>1, <2>2
<1>15. CASE WaitAllJoin
    BY <1>15 DEF WaitAllJoin, Idle
<1>16. CASE AddTask
    BY <1>16 DEF AddTask, Enter
<1>17. CASE AddPush
    BY <1>17, SignalStep DEF AddPush
<1>18. CASE AddUnlock
    BY <1>18 DEF AddUnlock, Leave, Idle
<1>19. CASE UNCHANGED vars
    BY <1>19 DEF vars
<1> QED
    BY <1>1, <1>2, <1>3, <1>4, <1>5, <1>6, <1>7, <1>8, <1>9, <1>10, <1>11, <1>12,
       <1>13, <1>14, <1>15, <1>16, <1>17, <1>18, <1>19
       DEF Next, ThreadProc, Call, Calling
----------------------------------------------------------------------------
LEMMA MutexStep == TypeOK /\ MutexInv /\ [Next]_vars => MutexInv'
<1> SUFFICES ASSUME TypeOK, MutexInv, [Next]_vars PROVE MutexInv'
    OBVIOUS
<1> USE DEF TypeOK, MutexInv, Inside, poolVars, mutexVars, history, Goto
<1>1. ASSUME NEW t \in Thread, Test(t) PROVE MutexInv'
    BY <1>1 DEF Test
<1>2. ASSUME NEW t \in Thread, Wait(t) PROVE MutexInv'
    BY <1>2 DEF Wait, Leave
<1>3. ASSUME NEW t \in Thread, Spurious(t) PROVE MutexInv'
    BY <1>3 DEF Spurious
<1>4. ASSUME NEW t \in Thread, Woken(t) PROVE MutexInv'
    BY <1>4 DEF Woken, Enter
<1>5. ASSUME NEW t \in Thread, ExitTest(t) PROVE MutexInv'
    <2>1. CASE is_exit[t]
        BY <1>5, <2>1, SignalStep DEF ExitTest
    <2>2. CASE ~is_exit[t]
        BY <1>5, <2>2 DEF ExitTest
    <2> QED
        BY <2>1, <2>2
<1>6. ASSUME NEW t \in Thread, Lock(t) PROVE MutexInv'
    BY <1>6 DEF Lock, Enter
<1>7. ASSUME NEW t \in Thread, Front(t) PROVE MutexInv'
    BY <1>7 DEF Front
<1>8. ASSUME NEW t \in Thread, Pop(t) PROVE MutexInv'
    BY <1>8 DEF Pop, Leave
<1>9. ASSUME NEW t \in Thread, Run(t) PROVE MutexInv'
    BY <1>9 DEF Run
<1>10. ASSUME NEW t \in Thread, AddThread(t) PROVE MutexInv'
    BY <1>10 DEF AddThread
<1>11. CASE DelThread
    BY <1>11, SignalStep DEF DelThread, Tell
<1>12. CASE DelJoin
    BY <1>12 DEF DelJoin, Idle
<1>13. CASE WaitAll
    BY <1>13 DEF WaitAll
<1>14. CASE WaitAllStop
    <2>1. caller'.op \notin {"push", "unlock"}
        BY <1>14 DEF WaitAllStop
    <2> QED
        BY <1>14, <2>1, SignalStep, TellFrame
<1>15. CASE WaitAllJoin
    BY <1>15 DEF WaitAllJoin, Idle
<1>16. CASE AddTask
    BY <1>16 DEF AddTask, Enter
<1>17. CASE AddPush
    BY <1>17, SignalStep DEF AddPush
<1>18. CASE AddUnlock
    BY <1>18 DEF AddUnlock, Leave, Idle
<1>19. CASE UNCHANGED vars
    BY <1>19 DEF vars
<1> QED
    BY <1>1, <1>2, <1>3, <1>4, <1>5, <1>6, <1>7, <1>8, <1>9, <1>10, <1>11, <1>12,
       <1>13, <1>14, <1>15, <1>16, <1>17, <1>18, <1>19
       DEF Next, ThreadProc, Call, Calling
----------------------------------------------------------------------------
\* What a step needs to know of a list: its first and its other elements.
LEMMA TailOfTasks ==
    ASSUME m_tasks \in Seq(1 .. MaxTask), m_tasks # <<>>
    PROVE  /\ Len(m_tasks) >= 1 /\ Len(Tail(m_tasks)) = Len(m_tasks) - 1
           /\ Head(m_tasks) = m_tasks[1]
           /\ \A j \in 1 .. Len(m_tasks) - 1 : Tail(m_tasks)[j] = m_tasks[j + 1]
BY HeadTailProperties

\* A step that moves no thread to pop or run, or away from them, and leaves
\* the list alone.
LEMMA QueueFrame ==
    ASSUME QueueInv, UNCHANGED <<m_tasks, added, worker, ran>>, stolen => stolen',
           \A t \in Thread : \A p \in {"pop", "run"} : pc'[t] = p <=> pc[t] = p
    PROVE  QueueInv'
BY DEF QueueInv, Taken, Running

LEMMA QueueStep == TypeOK /\ MutexInv /\ QueueInv /\ [Next]_vars => QueueInv'
<1> SUFFICES ASSUME TypeOK, MutexInv, QueueInv, [Next]_vars PROVE QueueInv'
    OBVIOUS
<1> USE DEF TypeOK, poolVars, mutexVars, history, Goto
<1>1. ASSUME NEW t \in Thread, Test(t) PROVE QueueInv'
    BY <1>1, QueueFrame DEF Test
<1>2. ASSUME NEW t \in Thread, Wait(t) PROVE QueueInv'
    BY <1>2, QueueFrame DEF Wait
<1>3. ASSUME NEW t \in Thread, Spurious(t) PROVE QueueInv'
    BY <1>3, QueueFrame DEF Spurious
<1>4. ASSUME NEW t \in Thread, Woken(t) PROVE QueueInv'
    BY <1>4, QueueFrame DEF Woken
<1>5. ASSUME NEW t \in Thread, ExitTest(t) PROVE QueueInv'
    <2>1. CASE is_exit[t]
        BY <1>5, <2>1, SignalStep, QueueFrame DEF ExitTest
    <2>2. CASE ~is_exit[t]
        BY <1>5, <2>2, QueueFrame DEF ExitTest
    <2> QED
        BY <2>1, <2>2
<1>6. ASSUME NEW t \in Thread, Lock(t) PROVE QueueInv'
    BY <1>6, QueueFrame DEF Lock
<1>7. ASSUME NEW t \in Thread, Front(t) PROVE QueueInv'
    <2>1. CASE m_tasks = <<>>
        BY <1>7, <2>1, QueueFrame DEF Front
    <2>2. CASE m_tasks # <<>>
        <3>1. Head(m_tasks) = m_tasks[1] /\ 1 \in 1 .. Len(m_tasks)
            BY <2>2, TailOfTasks
        <3>2. /\ pc' = [pc EXCEPT ![t] = "pop"] /\ pc[t] = "front"
              /\ worker' = [worker EXCEPT ![t] = Head(m_tasks)]
              /\ UNCHANGED <<m_tasks, added, ran, stolen>>
            BY <1>7, <2>2 DEF Front
        <3>3. /\ \A u \in Thread \ {t} : pc'[u] = pc[u] /\ worker'[u] = worker[u]
              /\ pc'[t] = "pop" /\ worker'[t] = m_tasks[1]
            BY <3>1, <3>2
        <3>4. \A k : Running(k)' <=> Running(k)
            BY <3>2, <3>3 DEF Running
        <3> QED
            BY <2>2, <3>1, <3>2, <3>3, <3>4 DEF QueueInv, Taken
    <2> QED
        BY <2>1, <2>2
<1>8. ASSUME NEW t \in Thread, Pop(t) PROVE QueueInv'
    <2> SUFFICES ASSUME ~stolen PROVE QueueInv'
        BY <1>8 DEF Pop, QueueInv
    <2>1. m_tasks # <<>> /\ worker[t] = Taken + 1
        BY <1>8 DEF Pop, QueueInv
    <2>2. /\ pc' = [pc EXCEPT ![t] = "run"] /\ pc[t] = "pop"
          /\ m_tasks' = Tail(m_tasks)
          /\ UNCHANGED <<added, worker, ran, stolen>>
        BY <1>8, <2>1 DEF Pop
    <2>3. /\ Len(m_tasks') = Len(m_tasks) - 1 /\ Taken' = Taken + 1
          /\ \A j \in 1 .. Len(m_tasks') : m_tasks'[j] = m_tasks[j + 1]
        BY <2>1, <2>2, TailOfTasks DEF Taken
    <2>4. \A u \in Thread : u # t => pc[u] # "pop"
        BY <1>8 DEF Pop, MutexInv, Inside
    <2>5. /\ \A u \in Thread \ {t} : pc'[u] = pc[u] /\ pc'[u] # "pop"
          /\ pc'[t] = "run"
        BY <2>2, <2>4
    <2>6. Taken \in Nat /\ Len(m_tasks) \in Nat
        BY DEF QueueInv
    <2>7. \A j \in 1 .. Len(m_tasks') : m_tasks'[j] = Taken' + j
        BY <2>3, <2>6 DEF QueueInv
    <2>8. \A u \in Thread : pc'[u] = "run" => worker'[u] \in (1 .. Taken') \ ran'
        BY <2>1, <2>2, <2>3, <2>5, <2>6 DEF QueueInv
    <2>9. \A u, v \in Thread :
              pc'[u] = "run" /\ pc'[v] = "run" /\ worker'[u] = worker'[v] => u = v
        BY <2>1, <2>2, <2>5, <2>6 DEF QueueInv
    <2>10. \A k \in 1 .. Taken' : Running(k)' \/ k \in ran'
        <3>1. \A k : Running(k) => Running(k)'
            BY <2>2, <2>5 DEF Running
        <3>2. \A k : k = Taken + 1 => Running(k)'
            BY <2>1, <2>2, <2>5 DEF Running
        <3>3. \A k \in 1 .. Taken + 1 : k \in 1 .. Taken \/ k = Taken + 1
            BY <2>6
        <3>4. \A k \in 1 .. Taken : Running(k) \/ k \in ran
            BY DEF QueueInv
        <3> QED
            BY <2>2, <2>3, <3>1, <3>2, <3>3, <3>4
    <2> QED
        BY <2>2, <2>3, <2>5, <2>6, <2>7, <2>8, <2>9, <2>10 DEF QueueInv
<1>9. ASSUME NEW t \in Thread, Run(t) PROVE QueueInv'
    <2>1. /\ pc' = [pc EXCEPT ![t] = "test"] /\ pc[t] = "run"
          /\ ran' = ran \cup {worker[t]}
          /\ UNCHANGED <<m_tasks, added, worker, stolen>>
        BY <1>9 DEF Run
    <2>2. /\ \A u \in Thread \ {t} : pc'[u] = pc[u]
          /\ pc'[t] = "test" /\ Taken' = Taken
        BY <2>1 DEF Taken
    <2>3. \A k : Running(k) => Running(k)' \/ k \in ran'
        BY <2>1, <2>2 DEF Running
    <2> QED
        BY <2>1, <2>2, <2>3 DEF QueueInv
<1>10. ASSUME NEW t \in Thread, AddThread(t) PROVE QueueInv'
    BY <1>10, QueueFrame DEF AddThread
<1>11. CASE DelThread
    BY <1>11, SignalStep, QueueFrame, TellFrame
<1>12. CASE DelJoin
    BY <1>12, QueueFrame DEF DelJoin
<1>13. CASE WaitAll
    BY <1>13, QueueFrame DEF WaitAll
<1>14. CASE WaitAllStop
    BY <1>14, SignalStep, QueueFrame, TellFrame
<1>15. CASE WaitAllJoin
    BY <1>15, QueueFrame DEF WaitAllJoin
<1>16. CASE AddTask
    BY <1>16, QueueFrame DEF AddTask
<1>17. CASE AddPush
    <2> SUFFICES ASSUME ~stolen PROVE QueueInv'
        BY <1>17 DEF AddPush, QueueInv
    <2>1. /\ added' = added + 1 /\ m_tasks' = Append(m_tasks, added + 1)
          /\ UNCHANGED <<worker, ran, stolen>>
        BY <1>17 DEF AddPush
    <2>2. /\ Len(m_tasks') = Len(m_tasks) + 1 /\ m_tasks'[Len(m_tasks) + 1] = added + 1
          /\ \A j \in 1 .. Len(m_tasks) : m_tasks'[j] = m_tasks[j]
        BY <2>1
    <2>3. Taken' = Taken /\ Taken \in Nat /\ Len(m_tasks) \in Nat
        BY <2>1, <2>2 DEF Taken, QueueInv
    <2>4. \A t \in Thread : \A p \in {"pop", "run"} : pc'[t] = p <=> pc[t] = p
        BY <1>17, SignalStep
    <2>5. \A t \in Thread : pc[t] # "pop"
        BY <1>17 DEF AddPush, MutexInv, Inside
    <2>6. \A j \in 1 .. Len(m_tasks') : m_tasks'[j] = Taken' + j
        <3>1. \A j \in 1 .. Len(m_tasks) : m_tasks'[j] = Taken' + j
            BY <2>2, <2>3 DEF QueueInv
        <3>2. m_tasks'[Len(m_tasks) + 1] = Taken' + (Len(m_tasks) + 1)
            BY <2>2, <2>3 DEF Taken
        <3>3. \A j \in 1 .. Len(m_tasks') : j \in 1 .. Len(m_tasks) \/ j = Len(m_tasks) + 1
            BY <2>2, <2>3
        <3> QED
            BY <3>1, <3>2, <3>3
    <2>7. \A k : Running(k)' <=> Running(k)
        BY <2>1, <2>4 DEF Running
    <2> QED
        BY <2>1, <2>3, <2>4, <2>5, <2>6, <2>7 DEF QueueInv
<1>18. CASE AddUnlock
    BY <1>18, QueueFrame DEF AddUnlock
<1>19. CASE UNCHANGED vars
    BY <1>19, QueueFrame DEF vars
<1> QED
    BY <1>1, <1>2, <1>3, <1>4, <1>5, <1>6, <1>7, <1>8, <1>9, <1>10, <1>11, <1>12,
       <1>13, <1>14, <1>15, <1>16, <1>17, <1>18, <1>19
       DEF Next, ThreadProc, Call, Calling
----------------------------------------------------------------------------
LEMMA SoloFrame ==
    ASSUME SoloInv, UNCHANGED crashed, crowded => crowded',
           m_tasks # <<>> => m_tasks' # <<>>,
           \A t \in Thread : (Live(t)' => Live(t)) /\ (Seen(t)' => Seen(t))
    PROVE  SoloInv'
BY DEF SoloInv

LEMMA SoloStep == TypeOK /\ SoloInv /\ [Next]_vars => SoloInv'
<1> SUFFICES ASSUME TypeOK, SoloInv, [Next]_vars PROVE SoloInv'
    OBVIOUS
<1> USE DEF TypeOK, poolVars, mutexVars, history, Goto
<1>1. ASSUME NEW t \in Thread, Test(t) PROVE SoloInv'
    <2>1. \A u \in Thread : Live(u)' => Live(u)
        BY <1>1 DEF Test, Live
    <2>2. \A u \in Thread : Seen(u)' => Seen(u) \/ m_tasks # <<>>
        BY <1>1 DEF Test, Seen
    <2> QED
        BY <1>1, <2>1, <2>2 DEF Test, SoloInv
<1>2. ASSUME NEW t \in Thread, Wait(t) PROVE SoloInv'
    BY <1>2, SoloFrame DEF Wait, Live, Seen
<1>3. ASSUME NEW t \in Thread, Spurious(t) PROVE SoloInv'
    BY <1>3, SoloFrame DEF Spurious, Live, Seen
<1>4. ASSUME NEW t \in Thread, Woken(t) PROVE SoloInv'
    BY <1>4, SoloFrame DEF Woken, Live, Seen
<1>5. ASSUME NEW t \in Thread, ExitTest(t) PROVE SoloInv'
    <2>1. CASE is_exit[t]
        <3>1. \A u \in Thread : (Live(u)' => Live(u)) /\ (Seen(u)' => Seen(u))
            BY <1>5, <2>1, SignalStep DEF ExitTest, Live, Seen
        <3> QED
            BY <1>5, <3>1, SoloFrame DEF ExitTest
    <2>2. CASE ~is_exit[t]
        BY <1>5, <2>2, SoloFrame DEF ExitTest, Live, Seen
    <2> QED
        BY <2>1, <2>2
<1>6. ASSUME NEW t \in Thread, Lock(t) PROVE SoloInv'
    BY <1>6, SoloFrame DEF Lock, Live, Seen
<1>7. ASSUME NEW t \in Thread, Front(t) PROVE SoloInv'
    <2>1. CASE m_tasks = <<>>
        BY <1>7, <2>1 DEF Front, SoloInv, Seen
    <2>2. CASE m_tasks # <<>>
        BY <1>7, <2>2, SoloFrame DEF Front, Live, Seen
    <2> QED
        BY <2>1, <2>2
<1>8. ASSUME NEW t \in Thread, Pop(t) PROVE SoloInv'
    <2> SUFFICES ASSUME ~crowded PROVE SoloInv'
        BY <1>8 DEF Pop, SoloInv
    <2>1. \A u \in Thread : Live(u) => u = t
        BY <1>8 DEF Pop, SoloInv, Live
    <2>2. \A u \in Thread : ~Seen(u)'
        BY <1>8, <2>1 DEF Pop, Seen, Live
    <2>3. \A u \in Thread : Live(u)' => Live(u)
        BY <1>8 DEF Pop, Live
    <2> QED
        BY <1>8, <2>2, <2>3 DEF Pop, SoloInv
<1>9. ASSUME NEW t \in Thread, Run(t) PROVE SoloInv'
    BY <1>9, SoloFrame DEF Run, Live, Seen
<1>10. ASSUME NEW t \in Thread, AddThread(t) PROVE SoloInv'
    <2> SUFFICES ASSUME ~crowded' PROVE SoloInv'
        BY DEF SoloInv
    <2>1. ~crowded /\ \A u \in Thread : ~Live(u)
        BY <1>10 DEF AddThread, Live
    <2>2. \A u \in Thread : (Live(u)' => u = t) /\ (Seen(u)' => Seen(u))
        BY <1>10, <2>1 DEF AddThread, Live, Seen
    <2> QED
        BY <1>10, <2>1, <2>2 DEF AddThread, SoloInv
<1>11. CASE DelThread
    <2>1. \A u \in Thread : (Live(u)' => Live(u)) /\ (Seen(u)' => Seen(u))
        BY <1>11, SignalStep DEF DelThread, Tell, Live, Seen
    <2> QED
        BY <1>11, <2>1, SoloFrame, TellFrame
<1>12. CASE DelJoin
    BY <1>12, SoloFrame DEF DelJoin, Live, Seen
<1>13. CASE WaitAll
    BY <1>13, SoloFrame DEF WaitAll, Live, Seen
<1>14. CASE WaitAllStop
    <2>1. \A u \in Thread : is_exit[u] => is_exit'[u]
        BY <1>14 DEF WaitAllStop, Tell
    <2>2. \A u \in Thread : (Live(u)' => Live(u)) /\ (Seen(u)' => Seen(u))
        BY <1>14, <2>1, SignalStep DEF Live, Seen
    <2> QED
        BY <1>14, <2>2, SoloFrame, TellFrame
<1>15. CASE WaitAllJoin
    BY <1>15, SoloFrame DEF WaitAllJoin, Live, Seen
<1>16. CASE AddTask
    BY <1>16, SoloFrame DEF AddTask, Live, Seen
<1>17. CASE AddPush
    <2>1. \A u \in Thread : (Live(u)' => Live(u)) /\ (Seen(u)' => Seen(u))
        BY <1>17, SignalStep DEF AddPush, Live, Seen
    <2>2. Append(m_tasks, added + 1) # <<>>
        <3>1. Len(Append(m_tasks, added + 1)) = Len(m_tasks) + 1
            OBVIOUS
        <3>2. Len(m_tasks) + 1 # Len(<<>>)
            OBVIOUS
        <3> QED
            BY <3>1, <3>2
    <2> QED
        BY <1>17, <2>1, <2>2, SoloFrame DEF AddPush
<1>18. CASE AddUnlock
    BY <1>18, SoloFrame DEF AddUnlock, Live, Seen
<1>19. CASE UNCHANGED vars
    BY <1>19, SoloFrame DEF vars, Live, Seen
<1> QED
    BY <1>1, <1>2, <1>3, <1>4, <1>5, <1>6, <1>7, <1>8, <1>9, <1>10, <1>11, <1>12,
       <1>13, <1>14, <1>15, <1>16, <1>17, <1>18, <1>19
       DEF Next, ThreadProc, Call, Calling
----------------------------------------------------------------------------
\* PoolInv holds at the start and every step keeps it.
THEOREM PoolSafe == Spec => []PoolInv
<1>1. Init => PoolInv
    <2> SUFFICES ASSUME Init PROVE PoolInv
        OBVIOUS
    <2>1. TypeOK
        <3>1. /\ <<>> \in Seq(Thread) /\ <<>> \in Seq(1 .. MaxTask)
              /\ caller \in CallerState /\ caller.op # "push"
            BY DEF Init, Idle, CallerState
        <3>2. 0 \in 0 .. MaxTask /\ {} \subseteq 0 .. MaxTask
            OBVIOUS
        <3>3. /\ is_exit \in [Thread -> BOOLEAN] /\ pc \in [Thread -> PC]
              /\ worker \in [Thread -> 0 .. MaxTask]
            BY <3>2 DEF Init, PC
        <3> QED
            BY <3>1, <3>2, <3>3 DEF Init, TypeOK
    <2>2. MutexInv
        BY DEF Init, Idle, MutexInv, Inside
    <2>3. QueueInv
        BY DEF Init, QueueInv, Taken, Running
    <2>4. SoloInv
        BY DEF Init, SoloInv, Live, Seen
    <2> QED
        BY <2>1, <2>2, <2>3, <2>4 DEF PoolInv
<1>2. PoolInv /\ [Next]_vars => PoolInv'
    BY TypesStep, MutexStep, QueueStep, SoloStep DEF PoolInv
<1> QED
    BY <1>1, <1>2, PTL DEF Spec

\* As long as no wait has left the mutex for another owner, one thread at a
\* time is between the lock and the unlock (threadpool.cpp:34-37, 118-126).
THEOREM PoolOneInside == Spec => []OneInside
<1>1. PoolInv => OneInside
    BY DEF PoolInv, TypeOK, MutexInv, OneInside, Inside
<1> QED
    BY <1>1, PoolSafe, PTL

\* ... and no task is lost, run twice or taken out of order.
THEOREM PoolTaskConserved == Spec => []TaskConserved
<1>1. PoolInv => TaskConserved
    <2> SUFFICES ASSUME TypeOK, QueueInv, ~stolen PROVE TaskConserved
        BY DEF PoolInv, TaskConserved
    <2>1. Taken \in Nat /\ Len(m_tasks) \in Nat /\ added \in Nat /\ added = Taken + Len(m_tasks)
        BY DEF TypeOK, QueueInv, Taken
    <2>2. \A j \in 1 .. Len(m_tasks) : m_tasks[j] = Taken + j
        BY DEF QueueInv
    <2>3. \A k \in 1 .. added : Queued(k) \/ Running(k) \/ k \in ran
        <3> TAKE k \in 1 .. added
        <3>1. CASE k \in 1 .. Taken
            BY <3>1 DEF QueueInv
        <3>2. CASE k \notin 1 .. Taken
            <4>1. k - Taken \in 1 .. Len(m_tasks) /\ m_tasks[k - Taken] = k
                BY <2>1, <2>2, <3>2
            <4> QED
                BY <4>1 DEF Queued
        <3> QED
            BY <3>1, <3>2
    <2>4. \A k \in ran : ~Queued(k) /\ ~Running(k)
        <3> TAKE k \in ran
        <3>1. k \in 1 .. Taken
            BY DEF QueueInv
        <3>2. ~Queued(k)
            BY <2>1, <2>2, <3>1 DEF Queued
        <3>3. ~Running(k)
            BY DEF QueueInv, Running
        <3> QED
            BY <3>2, <3>3
    <2>5. \A t, u \in Thread :
              pc[t] = "run" /\ pc[u] = "run" /\ worker[t] = worker[u] => t = u
        BY DEF QueueInv
    <2> QED
        BY <2>2, <2>3, <2>4, <2>5 DEF TaskConserved, Taken
<1> QED
    BY <1>1, PoolSafe, PTL

\* A pool that has had one thread at a time never calls front() on an empty
\* list (threadpool.cpp:23-35).
THEOREM PoolSoloSafe == Spec => []SoloSafe
<1>1. PoolInv => SoloSafe
    BY DEF PoolInv, TypeOK, SoloInv, SoloSafe
<1> QED
    BY <1>1, PoolSafe, PTL
----------------------------------------------------------------------------
\* The tasks in the hands of the threads.
Hands == {worker[t] : t \in {u \in Thread : pc[u] = "run"}}

LEMMA HandsAre == \A k : k \in Hands <=> Running(k)
BY DEF Hands, Running

\* A step that moves no thread to run or away from it leaves each task in the
\* hands it is in.
LEMMA HandsFrame ==
    ASSUME \A t \in Thread : /\ pc'[t] = "run" <=> pc[t] = "run"
                             /\ pc[t] = "run" => worker'[t] = worker[t]
    PROVE  Hands' = Hands
<1>1. \A k : k \in Hands' <=> k \in Hands
    BY DEF Hands
<1> QED
    BY <1>1

PoolStep == Pool!Next \/ UNCHANGED Pool!vars

\* What PoolStep says, in the variables of the class.
LEMMA PoolStepIs ==
    /\ stolen' => PoolStep
    /\ UNCHANGED <<added, m_tasks, ran, stolen, Hands>> => PoolStep
    /\ UNCHANGED stolen /\ Pool!Add => PoolStep
    /\ UNCHANGED stolen /\ Pool!Start => PoolStep
    /\ UNCHANGED stolen /\ Pool!End => PoolStep
BY DEF PoolStep, Pool!Next, Pool!vars, Hands

\* One thread takes the front, and nobody has it or has had it.
LEMMA PopStarts ==
    ASSUME PoolInv, NEW t \in Thread, Pop(t), ~stolen
    PROVE  Pool!Start
<1> USE DEF PoolInv, TypeOK, Goto
<1>1. m_tasks # <<>> /\ worker[t] = Taken + 1 /\ Taken \in Nat
    BY DEF Pop, QueueInv
<1>2. /\ Head(m_tasks) = worker[t]
      /\ Head(m_tasks) \notin ran
      /\ ~Running(Head(m_tasks))
    <2>1. Head(m_tasks) = m_tasks[1] /\ 1 \in 1 .. Len(m_tasks)
        BY <1>1, TailOfTasks
    <2>2. Head(m_tasks) = Taken + 1
        BY <2>1 DEF QueueInv
    <2>3. Taken + 1 \notin 1 .. Taken
        BY <1>1
    <2> QED
        BY <1>1, <2>2, <2>3 DEF QueueInv, Running
<1>3. /\ pc' = [pc EXCEPT ![t] = "run"] /\ pc[t] = "pop"
      /\ m_tasks' = Tail(m_tasks)
      /\ UNCHANGED <<added, worker, ran, stolen>>
    BY <1>1 DEF Pop, history
<1>4. Hands' = Hands \cup {Head(m_tasks)}
    <2>1. \A u \in Thread : pc'[u] = "run" <=> pc[u] = "run" \/ u = t
        BY <1>3
    <2>2. \A k : k \in Hands' <=> k \in Hands \/ k = worker[t]
        BY <1>3, <2>1 DEF Hands
    <2> QED
        BY <1>2, <2>2
<1>5. Head(m_tasks) \notin Hands
    BY <1>2, HandsAre
<1> QED
    BY <1>1, <1>2, <1>3, <1>4, <1>5 DEF Pool!Start, Hands

\* ... and the same thread ends it, and leaves it to no other.
LEMMA RunEnds ==
    ASSUME PoolInv, NEW t \in Thread, Run(t), ~stolen
    PROVE  Pool!End
<1> USE DEF PoolInv, TypeOK, Goto
<1>1. /\ pc' = [pc EXCEPT ![t] = "test"] /\ pc[t] = "run"
      /\ ran' = ran \cup {worker[t]}
      /\ UNCHANGED <<m_tasks, added, worker, stolen>>
    BY DEF Run
<1>2. worker[t] \notin ran /\ Running(worker[t])
    BY <1>1 DEF QueueInv, Running
<1>3. \A u \in Thread : pc[u] = "run" /\ worker[u] = worker[t] => u = t
    BY <1>1 DEF QueueInv
<1>4. Hands' = Hands \ {worker[t]}
    <2>1. \A u \in Thread : pc'[u] = "run" <=> pc[u] = "run" /\ u # t
        BY <1>1
    <2>2. \A k : k \in Hands' <=> k \in Hands /\ k # worker[t]
        BY <1>1, <1>3, <2>1 DEF Hands
    <2> QED
        BY <2>2
<1>5. worker[t] \in Hands \ ran
    BY <1>2, HandsAre
<1> QED
    BY <1>1, <1>4, <1>5 DEF Pool!End, Hands

\* Every step of the class is one of TaskPool's, or none.
LEMMA PoolMaps == PoolInv /\ [Next]_vars => PoolStep
<1> SUFFICES ASSUME PoolInv, [Next]_vars PROVE PoolStep
    OBVIOUS
<1> USE DEF poolVars, mutexVars, history
<1>1. TypeOK /\ pc \in [Thread -> PC]
    BY DEF PoolInv, TypeOK
<1>2. stolen => stolen'
    <2>1. ASSUME NEW t \in Thread, ThreadProc(t) \/ Spurious(t) PROVE stolen => stolen'
        BY <2>1
        DEF ThreadProc, Test, Wait, Spurious, Woken, ExitTest, Lock, Front, Pop, Run
    <2>2. CASE Call \/ Calling \/ UNCHANGED vars
        BY <2>2, TellFrame
        DEF Call, AddThread, WaitAll, AddTask, Calling, DelJoin,
            WaitAllJoin, AddPush, AddUnlock, vars
    <2> QED
        BY <2>1, <2>2 DEF Next
<1>3. ASSUME UNCHANGED <<added, m_tasks, ran, worker>>, UNCHANGED stolen \/ stolen',
             \A t \in Thread : pc'[t] = "run" <=> pc[t] = "run"
      PROVE  PoolStep
    <2>1. Hands' = Hands
        BY <1>3, HandsFrame
    <2> QED
        BY <1>3, <2>1, PoolStepIs
<1>4. ASSUME NEW t \in Thread, Test(t) \/ Wait(t) \/ Spurious(t) \/ Woken(t) \/ Lock(t)
      PROVE  PoolStep
    BY <1>1, <1>3, <1>4 DEF Test, Wait, Spurious, Woken, Lock, Goto, TypeOK
<1>5. ASSUME NEW t \in Thread, ExitTest(t) PROVE PoolStep
    <2>1. \A u \in Thread : pc'[u] = "run" <=> pc[u] = "run"
        BY <1>1, <1>5, SignalStep DEF ExitTest, Goto
    <2> QED
        BY <1>3, <1>5, <2>1 DEF ExitTest
<1>6. ASSUME NEW t \in Thread, Front(t) PROVE PoolStep
    <2>1. Hands' = Hands
        BY <1>1, <1>6, HandsFrame DEF Front, Goto, TypeOK
    <2> QED
        BY <1>6, <2>1, PoolStepIs DEF Front
<1>7. ASSUME NEW t \in Thread, Pop(t) PROVE PoolStep
    BY <1>2, <1>7, PopStarts, PoolStepIs DEF Pop
<1>8. ASSUME NEW t \in Thread, Run(t) PROVE PoolStep
    BY <1>2, <1>8, RunEnds, PoolStepIs DEF Run
<1>9. CASE AddPush
    <2>1. \A t \in Thread : pc'[t] = "run" <=> pc[t] = "run"
        BY <1>1, <1>9, SignalStep
    <2>2. Hands' = Hands
        BY <1>9, <2>1, HandsFrame DEF AddPush
    <2> QED
        BY <1>9, <2>2, PoolStepIs DEF AddPush, Pool!Add, Hands
<1>10. ASSUME NEW t \in Thread, AddThread(t) PROVE PoolStep
    BY <1>1, <1>3, <1>10 DEF AddThread, Goto
<1>11. CASE DelThread \/ WaitAllStop
    <2>1. \A t \in Thread : pc'[t] = "run" <=> pc[t] = "run"
        BY <1>1, <1>11, SignalStep
    <2> QED
        BY <1>3, <1>11, <2>1, TellFrame
<1>12. CASE WaitAll \/ AddTask \/ DelJoin \/ WaitAllJoin \/ AddUnlock \/ UNCHANGED vars
    BY <1>3, <1>12 DEF WaitAll, AddTask, DelJoin, WaitAllJoin, AddUnlock, vars
<1> QED
    BY <1>4, <1>5, <1>6, <1>7, <1>8, <1>9, <1>10, <1>11, <1>12
    DEF Next, ThreadProc, Call, Calling

\* CThreadPool starts the tasks in the order of AddTask, each by one thread and
\* once, whatever the number of its threads (threadpool.cpp:20-45, 116-127).
THEOREM PoolImplements == Spec => ImplementsPool
<1>1. Init => Pool!Init
    BY DEF Init, Pool!Init
<1>2. PoolInv /\ [Next]_vars => [Pool!Next]_(Pool!vars)
    BY PoolMaps DEF PoolStep
<1> QED
    BY <1>1, <1>2, PoolSafe, PTL DEF Spec, ImplementsPool, Pool!Spec
----------------------------------------------------------------------------
\* The values that the steps below compare.
LEMMA LinesLeftValues ==
    /\ LinesLeft("lock") = 6 /\ LinesLeft("front") = 5 /\ LinesLeft("wait") = 5
    /\ LinesLeft("pop") = 4 /\ LinesLeft("sleep") = 4
    /\ LinesLeft("run") = 3 /\ LinesLeft("woken") = 3
    /\ LinesLeft("test") = 2 /\ LinesLeft("exit?") = 1
    /\ LinesLeft("none") = 0 /\ LinesLeft("done") = 0
BY DEF LinesLeft

GoesOn(t) == is_exit[t] => pc'[t] = pc[t] \/ LinesLeft(pc'[t]) < LinesLeft(pc[t])

\* A node has a thread from the start, so only threads are told to exit, the
\* loop of WaitAll included.
NodesInv ==
    /\ \A j \in 1 .. Len(m_threads) : pc[m_threads[j]] # "none"
    /\ \A t \in Thread : is_exit[t] => pc[t] # "none"
    /\ caller.op = "stop" => caller.i \in Nat \ {0}

\* A step that makes no node and no thread.
LEMMA NodesFrame ==
    ASSUME TypeOK, NodesInv, \A t \in Thread : pc[t] # "none" => pc'[t] # "none",
           UNCHANGED poolVars, UNCHANGED caller \/ caller'.op # "stop" \/ caller'.i = 1
    PROVE  NodesInv'
<1>1. \A j \in 1 .. Len(m_threads) : m_threads[j] \in Thread
    BY DEF TypeOK
<1> QED
    BY <1>1 DEF NodesInv, poolVars

LEMMA NodesStep == TypeOK /\ NodesInv /\ [Next]_vars => NodesInv'
<1> SUFFICES ASSUME TypeOK, NodesInv, [Next]_vars PROVE NodesInv'
    OBVIOUS
<1> DEFINE ns == m_threads
<1>1. /\ ns \in Seq(Thread) /\ Len(ns) \in Nat
      /\ pc \in [Thread -> PC] /\ is_exit \in [Thread -> BOOLEAN]
      /\ \A j \in 1 .. Len(ns) : ns[j] \in Thread
    BY DEF TypeOK
<1>2. ASSUME NEW t \in Thread, ThreadProc(t) \/ Spurious(t) PROVE NodesInv'
    <2>1. CASE ExitTest(t)
        <3>1. CASE is_exit[t]
            <4>1. \A u \in Thread : pc[u] # "none" => pc'[u] # "none"
                BY <2>1, <3>1, SignalStep
            <4> QED
                BY <2>1, <4>1, NodesFrame DEF ExitTest, poolVars
        <3>2. CASE ~is_exit[t]
            BY <1>1, <2>1, <3>2, NodesFrame DEF ExitTest, Goto, poolVars
        <3> QED
            BY <3>1, <3>2
    <2>2. CASE Test(t) \/ Wait(t) \/ Spurious(t) \/ Woken(t) \/ Lock(t) \/ Front(t)
                 \/ Pop(t) \/ Run(t)
        BY <1>1, <2>2, NodesFrame
        DEF Test, Wait, Spurious, Woken, Lock, Front, Pop, Run, Goto, poolVars
    <2> QED
        BY <1>2, <2>1, <2>2 DEF ThreadProc
<1>3. ASSUME NEW t \in Thread, AddThread(t) PROVE NodesInv'
    <2>1. /\ Len(ns') = Len(ns) + 1 /\ ns'[Len(ns) + 1] = t
          /\ \A j \in 1 .. Len(ns) : ns'[j] = ns[j]
        BY <1>1, <1>3 DEF AddThread
    <2>2. \A j \in 1 .. Len(ns') : j \in 1 .. Len(ns) \/ j = Len(ns) + 1
        BY <1>1, <2>1
    <2>3. pc' = [pc EXCEPT ![t] = "test"] /\ UNCHANGED is_exit
        BY <1>3 DEF AddThread, Goto
    <2> HIDE DEF ns
    <2>4. \A j \in 1 .. Len(ns') : pc'[ns'[j]] # "none"
        BY <1>1, <2>1, <2>2, <2>3 DEF NodesInv, ns
    <2> QED
        BY <1>1, <1>3, <2>3, <2>4 DEF AddThread, NodesInv, ns
<1>4. CASE DelThread \/ WaitAllStop
    <2>1. \A u \in Thread : pc[u] # "none" => pc'[u] # "none"
        BY <1>4, SignalStep
    <2>2. /\ UNCHANGED m_threads
          /\ \/ UNCHANGED is_exit
             \/ \E j \in 1 .. Len(ns) : is_exit' = [is_exit EXCEPT ![ns[j]] = TRUE]
        <3>1. CASE DelThread
            <4>1. Len(ns) \in 1 .. Len(ns)
                BY <1>1, <3>1 DEF DelThread
            <4> QED
                BY <3>1, <4>1 DEF DelThread, Tell
        <3>2. CASE WaitAllStop
            <4>1. CASE caller.i <= Len(m_threads) /\ Tell(m_threads[caller.i])
                <5>1. is_exit' = [is_exit EXCEPT ![ns[caller.i]] = TRUE]
                    BY <4>1 DEF Tell
                <5>2. caller.i \in 1 .. Len(ns)
                    BY <1>1, <3>2, <4>1 DEF WaitAllStop, NodesInv
                <5> QED
                    BY <3>2, <4>1, <5>1, <5>2 DEF WaitAllStop
            <4>2. CASE UNCHANGED is_exit
                BY <3>2, <4>2 DEF WaitAllStop
            <4> QED
                BY <3>2, <4>1, <4>2 DEF WaitAllStop
        <3> QED
            BY <1>4, <3>1, <3>2
    <2> QED
        <3>1. caller'.op = "stop" => caller'.i \in Nat \ {0}
            BY <1>4 DEF DelThread, WaitAllStop, NodesInv
        <3> QED
            BY <1>1, <2>1, <2>2, <3>1 DEF NodesInv
<1>5. CASE DelJoin
    <2>1. /\ m_threads' = SubSeq(ns, 1, Len(ns) - 1)
          /\ UNCHANGED <<is_exit, pc>>
        BY <1>5 DEF DelJoin
    <2>2. \A j \in 1 .. Len(m_threads') : j \in 1 .. Len(ns) /\ m_threads'[j] = ns[j]
        BY <1>1, <2>1
    <2> QED
        BY <1>5, <2>1, <2>2 DEF DelJoin, Idle, NodesInv
<1>6. CASE AddPush
    <2>1. \A u \in Thread : pc[u] # "none" => pc'[u] # "none"
        BY <1>6, SignalStep
    <2> QED
        BY <1>6, <2>1, NodesFrame DEF AddPush
<1>7. CASE WaitAll \/ AddTask \/ WaitAllJoin \/ AddUnlock \/ UNCHANGED vars
    BY <1>7, NodesFrame
    DEF WaitAll, AddTask, WaitAllJoin, AddUnlock, Idle, vars, poolVars
<1> QED
    BY <1>2, <1>3, <1>4, <1>5, <1>6, <1>7 DEF Next, Call, Calling

LEMMA ExitStep ==
    ASSUME TypeOK, NodesInv, [Next]_vars, NEW t \in Thread
    PROVE  GoesOn(t)
<1> USE LinesLeftValues DEF GoesOn
<1>1. pc \in [Thread -> PC] /\ (is_exit[t] => pc[t] # "none")
    BY DEF TypeOK, NodesInv
<1>2. ASSUME NEW u \in Thread, ThreadProc(u) \/ Spurious(u) PROVE GoesOn(t)
    <2>1. CASE ExitTest(u)
        <3>1. CASE is_exit[u]
            BY <2>1, <3>1, SignalStep
        <3>2. CASE ~is_exit[u]
            BY <1>1, <2>1, <3>2 DEF ExitTest, Goto
        <3> QED
            BY <3>1, <3>2
    <2>2. CASE Test(u) \/ Wait(u) \/ Spurious(u) \/ Woken(u) \/ Lock(u) \/ Front(u)
                 \/ Pop(u) \/ Run(u)
        BY <1>1, <2>2
        DEF Test, Wait, Spurious, Woken, Lock, Front, Pop, Run, Goto
    <2> QED
        BY <1>2, <2>1, <2>2 DEF ThreadProc
<1>3. CASE DelThread \/ WaitAllStop \/ AddPush
    BY <1>3, SignalStep
<1>4. ASSUME NEW u \in Thread, AddThread(u) PROVE GoesOn(t)
    BY <1>1, <1>4 DEF AddThread, Goto
<1>5. CASE WaitAll \/ AddTask \/ DelJoin \/ WaitAllJoin \/ AddUnlock \/ UNCHANGED vars
    BY <1>5 DEF WaitAll, AddTask, DelJoin, WaitAllJoin, AddUnlock, vars
<1> QED
    BY <1>2, <1>3, <1>4, <1>5 DEF Next, Call, Calling

\* A thread told to exit only goes on towards its end (threadpool.cpp:23-32):
\* it runs one more task at most and does not decide to wait again.
THEOREM PoolExitRunsDown == Spec => ExitRunsDown
<1>1. Init => NodesInv
    BY DEF Init, NodesInv, Idle
<1>2. TypeOK /\ NodesInv /\ [Next]_vars => NodesInv'
    BY NodesStep
<1>3. TypeOK /\ NodesInv /\ [Next]_vars => [\A t \in Thread : GoesOn(t)]_vars
    BY ExitStep
<1>4. PoolInv => TypeOK
    BY DEF PoolInv
<1>5. Spec => [][\A t \in Thread : GoesOn(t)]_vars
    BY <1>1, <1>2, <1>3, <1>4, PoolSafe, PTL DEF Spec
<1>6. (\A t \in Thread : GoesOn(t)) <=>
         \A t \in Thread :
             is_exit[t] => pc'[t] = pc[t] \/ LinesLeft(pc'[t]) < LinesLeft(pc[t])
    BY DEF GoesOn
<1> QED
    BY <1>5, <1>6, PTL DEF ExitRunsDown
----------------------------------------------------------------------------
\* A step that moves no thread that has waited, except into its wait or
\* towards the return of it or its end, and leaves the mutex alone.
LEMMA HeldFrame ==
    ASSUME TypeOK, HeldInv, UNCHANGED <<owner, count, slept>>, stolen => stolen',
           \A u \in Thread :
               /\ pc'[u] \notin {"sleep", "woken"} => pc[u] \notin {"sleep", "woken"}
               /\ Inside(u)' => Inside(u)
    PROVE  HeldInv'
<1>1. slept \subseteq Thread /\ count \in Nat
    BY DEF TypeOK
<1>2. ASSUME ~stolen', NEW u \in slept', pc'[u] \notin {"sleep", "woken"}
      PROVE  owner' = u /\ count' >= IF Inside(u)' THEN 2 ELSE 1
    <2>1. owner = u /\ count >= IF Inside(u) THEN 2 ELSE 1
        BY <1>1, <1>2 DEF HeldInv
    <2>2. u \in Thread /\ (Inside(u)' => Inside(u))
        BY <1>1, <1>2
    <2> HIDE DEF Inside
    <2> QED
        BY <1>1, <2>1, <2>2
<1> QED
    BY <1>2 DEF HeldInv

LEMMA HeldStep == TypeOK /\ MutexInv /\ HeldInv /\ [Next]_vars => HeldInv'
<1> SUFFICES ASSUME TypeOK, MutexInv, HeldInv, [Next]_vars PROVE HeldInv'
    OBVIOUS
<1> USE DEF poolVars, mutexVars, history, Goto
<1>1. /\ pc \in [Thread -> PC] /\ count \in Nat /\ slept \subseteq Thread
      /\ owner \in Thread \cup {Caller, NoOwner, Broken}
    BY DEF TypeOK
<1>2. ASSUME NEW t \in Thread, Test(t) \/ Run(t) \/ AddThread(t) PROVE HeldInv'
    BY <1>1, <1>2 DEF Test, Run, AddThread, HeldInv, Inside
<1>3. ASSUME NEW t \in Thread, Spurious(t) PROVE HeldInv'
    BY <1>1, <1>3 DEF Spurious, HeldInv, Inside
<1>4. ASSUME NEW t \in Thread, Wait(t) PROVE HeldInv'
    <2> SUFFICES ASSUME ~stolen' PROVE HeldInv'
        BY DEF HeldInv
    <2>1. ~stolen /\ owner \in {t, NoOwner, Broken}
        BY <1>4 DEF Wait
    <2>2. \A u \in slept : u # t => pc[u] \in {"sleep", "woken"}
        BY <1>1, <2>1 DEF HeldInv
    <2>3. \A u \in slept' : pc'[u] \in {"sleep", "woken"}
        BY <1>1, <1>4, <2>2 DEF Wait
    <2> QED
        BY <2>3 DEF HeldInv
<1>5. ASSUME NEW t \in Thread, Woken(t) PROVE HeldInv'
    BY <1>1, <1>5 DEF Woken, Enter, HeldInv, Inside
<1>6. ASSUME NEW t \in Thread, ExitTest(t) PROVE HeldInv'
    <2>1. CASE is_exit[t]
        BY <1>6, <2>1, SignalStep, HeldFrame DEF ExitTest, Inside
    <2>2. CASE ~is_exit[t]
        BY <1>1, <1>6, <2>2, HeldFrame DEF ExitTest, Inside
    <2> QED
        BY <2>1, <2>2
<1>7. ASSUME NEW t \in Thread, Lock(t) PROVE HeldInv'
    BY <1>1, <1>7 DEF Lock, Enter, HeldInv, Inside
<1>8. ASSUME NEW t \in Thread, Front(t) PROVE HeldInv'
    BY <1>1, <1>8 DEF Front, HeldInv, Inside
<1>9. ASSUME NEW t \in Thread, Pop(t) PROVE HeldInv'
    <2>1. ~stolen => owner = t
        BY <1>9 DEF Pop, MutexInv, Inside
    <2> QED
        BY <1>1, <1>9, <2>1 DEF Pop, Leave, HeldInv, Inside
<1>10. CASE DelThread \/ WaitAllStop
    BY <1>10, SignalStep, HeldFrame, TellFrame DEF Inside
<1>11. CASE AddPush
    BY <1>11, SignalStep, HeldFrame DEF AddPush, Inside
<1>12. CASE AddTask
    BY <1>1, <1>12 DEF AddTask, Enter, HeldInv, Inside
<1>13. CASE AddUnlock
    <2>1. ~stolen => owner = Caller
        BY <1>13 DEF AddUnlock, MutexInv
    <2> QED
        BY <1>1, <1>13, <2>1 DEF AddUnlock, HeldInv, Inside
<1>14. CASE DelJoin \/ WaitAll \/ WaitAllJoin \/ UNCHANGED vars
    BY <1>14, HeldFrame DEF DelJoin, WaitAll, WaitAllJoin, Inside, vars
<1>15. ASSUME NEW t \in Thread, ThreadProc(t) PROVE HeldInv'
    BY <1>2, <1>4, <1>5, <1>6, <1>7, <1>8, <1>9, <1>15 DEF ThreadProc
<1>16. CASE Call \/ Calling
    BY <1>2, <1>10, <1>11, <1>12, <1>13, <1>14, <1>16 DEF Call, Calling
<1> QED
    BY <1>3, <1>14, <1>15, <1>16 DEF Next

\* A thread that has waited keeps the mutex from the return of one wait to the
\* beginning of the next, its tasks and its end included (threadpool.cpp:25-39),
\* so only a first wait leaves the mutex for another owner.
THEOREM PoolWaiterOwns == Spec => []WaiterOwns
<1>1. Init => HeldInv
    BY DEF Init, HeldInv
<1>2. PoolInv => TypeOK /\ MutexInv
    BY DEF PoolInv
<1>3. HeldInv => WaiterOwns
    BY DEF HeldInv, WaiterOwns
<1> QED
    BY <1>1, <1>2, <1>3, HeldStep, PoolSafe, PTL DEF Spec
----------------------------------------------------------------------------
\* A signal that leaves a thread asleep has woken another.
LEMMA SignalWakes ==
    ASSUME NEW p \in [Thread -> PC], NEW r \in Signalled(p), NEW v \in Thread, r[v] = "sleep"
    PROVE  \E s \in Thread : p[s] = "sleep" /\ r[s] = "woken"
BY DEF Signalled, PC

\* Once WaitAll has told every thread, no live thread has not been told.
LEMMA AllAreTold ==
    ASSUME TypeOK, WakeInv, AllTold, NEW t \in Thread, Live(t)
    PROVE  is_exit[t]
<1>1. PICK j \in 1 .. Len(m_threads) : m_threads[j] = t
    BY DEF WakeInv
<1>2. CASE caller.op = "join"
    BY <1>2 DEF WakeInv
<1>3. CASE caller.op = "stop" /\ caller.i > Len(m_threads)
    <2>1. j < caller.i
        BY <1>3 DEF TypeOK, CallerState
    <2> QED
        BY <1>1, <1>3, <2>1 DEF WakeInv
<1> QED
    BY <1>2, <1>3 DEF AllTold

\* A step that makes, tells and begins to tell no thread.
LEMMA WakeFrame ==
    ASSUME TypeOK, WakeInv, UNCHANGED <<m_threads, is_exit, late>>,
           \/ UNCHANGED caller
           \/ caller'.op \notin {"del", "stop", "join"}
           \/ caller.op = "join" /\ caller'.op = "join",
           \A u \in Thread :
               /\ Live(u)' => Live(u)
               /\ is_exit[u] /\ pc'[u] = "wait" => pc[u] = "wait"
               /\ pc'[u] = "sleep" => pc[u] \in {"sleep", "wait"},
           AllTold /\ (\E u \in Thread : OnItsWay(u)) =>
               \/ \E u \in Thread : OnItsWay(u)'
               \/ \A v \in Thread : pc'[v] # "sleep"
    PROVE  WakeInv'
<1>1. ASSUME AllTold', NEW v \in Thread \ late, pc'[v] = "sleep"
      PROVE  \E u \in Thread : OnItsWay(u)'
    <2>1. AllTold
        BY <1>1 DEF AllTold
    <2>2. pc[v] # "wait"
        <3> SUFFICES ASSUME pc[v] = "wait" PROVE FALSE
            OBVIOUS
        <3>1. is_exit[v]
            BY <2>1, AllAreTold DEF Live
        <3> QED
            BY <1>1, <3>1 DEF WakeInv
    <2>3. pc[v] = "sleep"
        BY <1>1, <2>2
    <2> QED
        BY <1>1, <2>1, <2>3 DEF WakeInv
<1>2. caller'.op \in {"del", "stop"} => UNCHANGED caller
    OBVIOUS
<1>3. caller'.op = "join" => caller.op = "join"
    OBVIOUS
<1> HIDE DEF OnItsWay
<1> QED
    BY <1>1, <1>2, <1>3 DEF WakeInv

LEMMA WakeStep == TypeOK /\ NodesInv /\ WakeInv /\ [Next]_vars => WakeInv'
<1> SUFFICES ASSUME TypeOK, NodesInv, WakeInv, [Next]_vars PROVE WakeInv'
    OBVIOUS
<1> USE DEF poolVars, mutexVars, history, Goto
<1>1. /\ pc \in [Thread -> PC] /\ is_exit \in [Thread -> BOOLEAN]
      /\ m_threads \in Seq(Thread) /\ Len(m_threads) \in Nat /\ caller.i \in Nat
      /\ \A j \in 1 .. Len(m_threads) : m_threads[j] \in Thread
    BY DEF TypeOK, CallerState
<1>2. ASSUME NEW t \in Thread,
             Test(t) \/ Wait(t) \/ Spurious(t) \/ Woken(t) \/ (ExitTest(t) /\ ~is_exit[t])
                 \/ Lock(t) \/ Front(t) \/ Pop(t) \/ Run(t)
      PROVE  WakeInv'
    <2>1. /\ UNCHANGED <<m_threads, is_exit, late, caller>>
          /\ \A u \in Thread :
                 /\ Live(u)' => Live(u)
                 /\ is_exit[u] /\ pc'[u] = "wait" => pc[u] = "wait"
                 /\ pc'[u] = "sleep" => pc[u] \in {"sleep", "wait"}
                 /\ OnItsWay(u) => OnItsWay(u)'
        BY <1>1, <1>2
        DEF Test, Wait, Spurious, Woken, ExitTest, Lock, Front, Pop, Run, Live, OnItsWay
    <2> QED
        BY <2>1, WakeFrame
<1>3. ASSUME NEW t \in Thread, ExitTest(t), is_exit[t] PROVE WakeInv'
    <2> DEFINE p == [pc EXCEPT ![t] = "done"]
    <2>1. /\ p \in [Thread -> PC] /\ pc' \in Signalled(p)
          /\ UNCHANGED <<m_threads, is_exit, late, caller>>
        BY <1>1, <1>3 DEF ExitTest, PC
    <2>2. \A u \in Thread :
              /\ Live(u)' => Live(u)
              /\ pc'[u] = "wait" => pc[u] = "wait"
              /\ pc'[u] = "sleep" => pc[u] = "sleep"
        BY <1>3, SignalStep DEF Live
    <2>3. ASSUME AllTold, NEW v \in Thread, pc'[v] = "sleep"
          PROVE  \E u \in Thread : OnItsWay(u)'
        <3>1. PICK s \in Thread : p[s] = "sleep" /\ pc'[s] = "woken"
            <4> HIDE DEF p
            <4> QED
                BY <2>1, <2>3, SignalWakes
        <3>2. is_exit[s]
            BY <1>1, <2>3, <3>1, AllAreTold DEF Live
        <3> QED
            BY <2>1, <3>1, <3>2 DEF OnItsWay
    <2> QED
        BY <2>1, <2>2, <2>3, WakeFrame
<1>4. ASSUME NEW t \in Thread, AddThread(t) PROVE WakeInv'
    <2>1. /\ Len(m_threads') = Len(m_threads) + 1 /\ m_threads'[Len(m_threads) + 1] = t
          /\ \A j \in 1 .. Len(m_threads) : m_threads'[j] = m_threads[j]
        BY <1>1, <1>4 DEF AddThread
    <2>2. /\ caller.op = "idle" /\ pc' = [pc EXCEPT ![t] = "test"]
          /\ UNCHANGED <<caller, is_exit, late>>
        BY <1>4 DEF AddThread, Idle
    <2>3. \A u \in Thread : Live(u)' => \E j \in 1 .. Len(m_threads') : m_threads'[j] = u
        <3>1. \A u \in Thread \ {t} : Live(u)' => Live(u)
            BY <1>1, <2>2 DEF Live
        <3>2. \A j \in 1 .. Len(m_threads) : j \in 1 .. Len(m_threads')
            BY <1>1, <2>1
        <3>3. Len(m_threads) + 1 \in 1 .. Len(m_threads')
            BY <1>1, <2>1
        <3> QED
            BY <2>1, <3>1, <3>2, <3>3 DEF WakeInv
    <2>4. \A u \in Thread : is_exit'[u] /\ pc'[u] = "wait" => u \in late'
        BY <1>1, <2>2 DEF WakeInv
    <2> QED
        BY <2>2, <2>3, <2>4 DEF WakeInv, AllTold
<1>5. ASSUME NEW t \in Thread, Tell(t)
      PROVE  /\ \A u \in Thread : /\ Live(u)' => Live(u)
                                  /\ is_exit[u] => is_exit'[u]
             /\ is_exit'[t]
             /\ \A u \in Thread : is_exit'[u] /\ pc'[u] = "wait" => u \in late'
             /\ \A v \in Thread : pc'[v] = "sleep" =>
                    \E s \in Thread : Live(s) /\ pc'[s] = "woken"
    <2>1. /\ is_exit' = [is_exit EXCEPT ![t] = TRUE] /\ pc' \in Signalled(pc)
          /\ late' = late \cup {u \in Thread : u = t /\ pc[u] = "wait"}
        BY <1>5 DEF Tell
    <2>2. \A u \in Thread : pc'[u] = pc[u] \/ (pc[u] = "sleep" /\ pc'[u] = "woken")
        BY <1>1, <2>1, SignalMoves
    <2>3. \A v \in Thread : pc'[v] = "sleep" =>
              \E s \in Thread : pc[s] = "sleep" /\ pc'[s] = "woken"
        BY <1>1, <2>1, SignalWakes
    <2>4. \A u \in Thread : is_exit'[u] /\ pc'[u] = "wait" => u \in late'
        <3> TAKE u \in Thread
        <3>1. CASE u = t
            BY <2>1, <2>2, <3>1
        <3>2. CASE u # t
            BY <1>1, <2>1, <2>2, <3>2 DEF WakeInv
        <3> QED
            BY <3>1, <3>2
    <2> QED
        BY <1>1, <2>1, <2>2, <2>3, <2>4 DEF Live
<1>6. CASE DelThread
    <2>1. /\ Len(m_threads) \in 1 .. Len(m_threads) /\ Tell(m_threads[Len(m_threads)])
          /\ caller' = [op |-> "del", i |-> Len(m_threads)] /\ UNCHANGED m_threads
        BY <1>1, <1>6 DEF DelThread
    <2>2. /\ \A u \in Thread : Live(u)' => Live(u)
          /\ \A u \in Thread : is_exit'[u] /\ pc'[u] = "wait" => u \in late'
        BY <1>1, <1>5, <2>1
    <2> QED
        BY <2>1, <2>2 DEF WakeInv, AllTold
<1>7. CASE DelJoin
    <2>1. /\ m_threads' = SubSeq(m_threads, 1, Len(m_threads) - 1)
          /\ caller.op = "del" /\ caller' = Idle /\ pc[m_threads[caller.i]] = "done"
          /\ UNCHANGED <<is_exit, pc, late>>
        BY <1>7 DEF DelJoin
    <2>2. /\ caller.i = Len(m_threads)
          /\ \A j \in 1 .. Len(m_threads) - 1 :
                 j \in 1 .. Len(m_threads') /\ m_threads'[j] = m_threads[j]
        BY <1>1, <2>1 DEF WakeInv
    <2>3. ASSUME NEW u \in Thread, Live(u)
          PROVE  \E j \in 1 .. Len(m_threads') : m_threads'[j] = u
        <3>1. PICK j \in 1 .. Len(m_threads) : m_threads[j] = u
            BY <2>3 DEF WakeInv
        <3>2. j # Len(m_threads)
            BY <2>1, <2>2, <2>3, <3>1 DEF Live
        <3> QED
            BY <1>1, <2>2, <3>1, <3>2
    <2>4. \A u \in Thread : Live(u)' <=> Live(u)
        BY <2>1 DEF Live
    <2> QED
        BY <2>1, <2>3, <2>4 DEF WakeInv, AllTold, Idle
<1>8. CASE WaitAll
    <2>1. /\ caller' = [op |-> "stop", i |-> 1]
          /\ UNCHANGED <<m_threads, is_exit, pc, late>>
        BY <1>8 DEF WaitAll
    <2>2. ASSUME AllTold', NEW v \in Thread PROVE ~Live(v)
        <3>1. Len(m_threads) = 0
            BY <1>1, <2>1, <2>2 DEF AllTold
        <3> QED
            BY <3>1 DEF WakeInv
    <2>3. \A u \in Thread : Live(u)' <=> Live(u)
        BY <2>1 DEF Live
    <2>4. \A v \in Thread : pc'[v] = "sleep" => Live(v)
        BY <2>1 DEF Live
    <2>5. \A j \in 1 .. Len(m_threads') : ~(j < caller'.i)
        BY <2>1
    <2>6. caller'.op = "stop"
        BY <2>1
    <2> QED
        BY <2>1, <2>2, <2>3, <2>4, <2>5, <2>6 DEF WakeInv
<1>9. CASE WaitAllStop
    <2> DEFINE i == caller.i
    <2>1. CASE i <= Len(m_threads) /\ Tell(m_threads[i]) /\ caller' = [op |-> "stop", i |-> i + 1]
        <3>1. UNCHANGED m_threads /\ caller.op = "stop" /\ i \in 1 .. Len(m_threads)
            BY <1>1, <1>9, <2>1 DEF WaitAllStop, NodesInv
        <3>2. /\ \A u \in Thread : (Live(u)' => Live(u)) /\ (is_exit[u] => is_exit'[u])
              /\ is_exit'[m_threads[i]]
              /\ \A u \in Thread : is_exit'[u] /\ pc'[u] = "wait" => u \in late'
              /\ \A v \in Thread : pc'[v] = "sleep" =>
                     \E s \in Thread : Live(s) /\ pc'[s] = "woken"
            BY <1>1, <1>5, <2>1, <3>1
        <3>3. caller'.op = "stop" /\ caller'.i = i + 1
            BY <2>1
        <3>4. \A j \in 1 .. Len(m_threads) : j < i + 1 => is_exit'[m_threads[j]]
            <4> TAKE j \in 1 .. Len(m_threads)
            <4>1. CASE j = i
                BY <3>2, <4>1
            <4>2. CASE j # i
                <5>1. j < i + 1 => j < i
                    BY <1>1, <3>1, <4>2
                <5> QED
                    BY <1>1, <3>1, <3>2, <5>1 DEF WakeInv
            <4> QED
                BY <4>1, <4>2
        <3>5. ASSUME AllTold', NEW v \in Thread, pc'[v] = "sleep"
              PROVE  \E u \in Thread : OnItsWay(u)'
            <4>1. PICK s \in Thread : Live(s) /\ pc'[s] = "woken"
                BY <3>2, <3>5
            <4>2. PICK j \in 1 .. Len(m_threads) : m_threads[j] = s
                BY <4>1 DEF WakeInv
            <4>3. j < i + 1
                BY <1>1, <3>1, <3>3, <3>5 DEF AllTold
            <4> QED
                BY <3>4, <4>1, <4>2, <4>3 DEF OnItsWay
        <3> HIDE DEF i
        <3> QED
            BY <3>1, <3>2, <3>3, <3>4, <3>5 DEF WakeInv
    <2>2. CASE i > Len(m_threads) /\ caller' = [op |-> "join", i |-> 1]
        <3>1. caller.op = "stop" /\ AllTold /\ UNCHANGED <<m_threads, is_exit, pc, late>>
            BY <1>1, <1>9, <2>2 DEF WaitAllStop, AllTold
        <3>2. \A u \in Thread : Live(u) => is_exit[u]
            BY <3>1, AllAreTold
        <3>3. caller'.op = "join"
            BY <2>2
        <3>4. \A u \in Thread : (Live(u)' <=> Live(u)) /\ (OnItsWay(u)' <=> OnItsWay(u))
            BY <3>1 DEF Live, OnItsWay
        <3> QED
            BY <3>1, <3>2, <3>3, <3>4 DEF WakeInv
    <2> QED
        BY <1>9, <2>1, <2>2 DEF WaitAllStop
<1>10. CASE WaitAllJoin
    <2>1. /\ UNCHANGED <<m_threads, is_exit, pc, late>>
          /\ caller.op = "join" /\ caller'.op \in {"idle", "join"}
        BY <1>10 DEF WaitAllJoin, Idle
    <2>2. \A u \in Thread : (Live(u)' <=> Live(u)) /\ (OnItsWay(u)' <=> OnItsWay(u))
        BY <2>1 DEF Live, OnItsWay
    <2> QED
        BY <2>1, <2>2, WakeFrame
<1>11. CASE AddTask \/ AddUnlock
    <2>1. /\ UNCHANGED <<m_threads, is_exit, pc, late>>
          /\ caller'.op \in {"idle", "push"} /\ ~AllTold
        BY <1>11 DEF AddTask, AddUnlock, Idle, AllTold
    <2>2. \A u \in Thread : Live(u)' <=> Live(u)
        BY <2>1 DEF Live
    <2> QED
        BY <2>1, <2>2, WakeFrame
<1>12. CASE AddPush
    <2>1. /\ UNCHANGED <<m_threads, is_exit, late>>
          /\ caller'.op = "unlock" /\ ~AllTold
        BY <1>12 DEF AddPush, AllTold
    <2>2. \A u \in Thread :
              /\ Live(u)' => Live(u)
              /\ pc'[u] = "wait" => pc[u] = "wait"
              /\ pc'[u] = "sleep" => pc[u] = "sleep"
        BY <1>12, SignalStep DEF Live
    <2> QED
        BY <2>1, <2>2, WakeFrame
<1>13. CASE UNCHANGED vars
    <2>1. UNCHANGED <<m_threads, is_exit, pc, late, caller>>
        BY <1>13 DEF vars
    <2>2. \A u \in Thread : (Live(u)' <=> Live(u)) /\ (OnItsWay(u)' <=> OnItsWay(u))
        BY <2>1 DEF Live, OnItsWay
    <2> QED
        BY <2>1, <2>2, WakeFrame
<1>14. ASSUME NEW t \in Thread, ThreadProc(t) \/ Spurious(t) PROVE WakeInv'
    BY <1>2, <1>3, <1>14 DEF ThreadProc
<1>15. CASE Call \/ Calling
    BY <1>4, <1>6, <1>7, <1>8, <1>9, <1>10, <1>11, <1>12, <1>15 DEF Call, Calling
<1> QED
    BY <1>13, <1>14, <1>15 DEF Next

\* While WaitAll joins, a thread that sleeps has another ahead of it that will
\* pass the signal on (threadpool.cpp:28-32), unless it was told to exit
\* between its test and its wait.
THEOREM PoolWaitAllWakes == Spec => []WaitAllWakes
<1>1. Init => NodesInv /\ WakeInv
    BY DEF Init, NodesInv, WakeInv, AllTold, Live, Idle
<1>2. TypeOK /\ NodesInv /\ [Next]_vars => NodesInv'
    BY NodesStep
<1>3. PoolInv => TypeOK
    BY DEF PoolInv
<1>4. WakeInv => WaitAllWakes
    BY DEF WakeInv, WaitAllWakes, AllTold, OnItsWay
<1> QED
    BY <1>1, <1>2, <1>3, <1>4, WakeStep, PoolSafe, PTL DEF Spec
=============================================================================
