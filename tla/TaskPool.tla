------------------------------ MODULE TaskPool ----------------------------
(***************************************************************************)
(* What CThreadPool of src/src/threadpool.cpp promises its caller: the     *)
(* tasks are started in the order of the calls of AddTask, each of them by *)
(* one thread and once.  The promise ends when a thread has left the mutex *)
(* while another one owned it, which the class does not prevent.           *)
(***************************************************************************)
EXTENDS Naturals, Sequences

VARIABLES
    given,          \* calls of AddTask so far; a task is its number
    waiting,        \* the tasks no thread has taken, oldest first
    running,        \* the tasks that a thread has taken and not ended
    finished,       \* the tasks that have ended
    spoilt          \* the mutex has been left for another owner

vars == <<given, waiting, running, finished, spoilt>>

Init ==
    /\ given = 0
    /\ waiting = <<>>
    /\ running = {} /\ finished = {}
    /\ spoilt = FALSE

Add ==
    /\ given' = given + 1
    /\ waiting' = Append(waiting, given + 1)
    /\ UNCHANGED <<running, finished>>

Start ==
    /\ waiting # <<>>
    /\ waiting' = Tail(waiting)
    /\ Head(waiting) \notin running \cup finished
    /\ running' = running \cup {Head(waiting)}
    /\ UNCHANGED <<given, finished>>

End ==
    \E k \in running \ finished :
        /\ running' = running \ {k}
        /\ finished' = finished \cup {k}
        /\ UNCHANGED <<given, waiting>>

Next ==
    \/ (Add \/ Start \/ End) /\ UNCHANGED spoilt
    \/ spoilt'

Spec == Init /\ [][Next]_vars
=============================================================================
