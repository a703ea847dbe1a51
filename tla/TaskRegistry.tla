---------------------------- MODULE TaskRegistry ---------------------------
(***************************************************************************)
(* What the task container promises its users, with no network in sight:   *)
(* ids are given out in order and never again, a task is retired at most   *)
(* once, retired tasks are freed in the order they were retired, a sweep   *)
(* frees a bounded number of them, and tasks are posted only while fewer   *)
(* than the minimum exist.  StressTest implements this specification.      *)
(***************************************************************************)
EXTENDS Naturals, Sequences, FiniteSets

CONSTANTS
    MaxPosted,      \* bound: tasks ever posted
    SweepLimit,     \* tasks one sweep may free
    MinRunning,     \* post only while fewer tasks exist
    BatchSize       \* tasks posted at a time

VARIABLES
    posted,         \* ids 1 .. posted have been given out
    live,           \* the posted tasks not yet retired
    retired,        \* the retired tasks not yet freed, oldest first
    stopped         \* uninit has freed everything

registryVars == <<posted, live, retired, stopped>>

Init == posted = 0 /\ live = {} /\ retired = <<>> /\ stopped = FALSE

Post(n) ==
    /\ ~stopped
    /\ Cardinality(live) + Len(retired) < MinRunning
    /\ posted + n <= MaxPosted
    /\ posted' = posted + n
    /\ live' = live \cup (posted + 1 .. posted + n)
    /\ UNCHANGED <<retired, stopped>>

Retire(i) ==
    /\ ~stopped
    /\ i \in live
    /\ live' = live \ {i}
    /\ retired' = Append(retired, i)
    /\ UNCHANGED <<posted, stopped>>

Sweep(n) ==
    /\ ~stopped
    /\ n \in 1 .. SweepLimit
    /\ n <= Len(retired)
    /\ retired' = SubSeq(retired, n + 1, Len(retired))
    /\ UNCHANGED <<posted, live, stopped>>

Stop ==
    /\ ~stopped
    /\ stopped' = TRUE
    /\ live' = {}
    /\ retired' = <<>>
    /\ UNCHANGED posted

Next ==
    \/ \E n \in 1 .. BatchSize : Post(n)
    \/ \E i \in live : Retire(i)
    \/ \E n \in 1 .. SweepLimit : Sweep(n)
    \/ Stop

Spec == Init /\ [][Next]_registryVars
=============================================================================
