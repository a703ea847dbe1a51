--------------------------- MODULE StressTestInv ---------------------------
(***************************************************************************)
(* The inductive invariant behind RetiredOnce and FreedAfterLibuv.         *)
(* Neither is inductive by itself: whether a callback may queue a task     *)
(* once more, or a sweep may free it, depends on how far the pool thread   *)
(* got and on which of the two kinds of uv_close the handle has seen.      *)
(***************************************************************************)
EXTENDS StressTest

\* Exactly the ids given out have a work item; only they are in the map.
IdsInv ==
    /\ task_list \subseteq 1 .. cur_id
    /\ \A i \in Task : work[i] = "none" <=> i > cur_id

PoolDone(i) == work[i] \in {"returning", "finished"}
Quiet(i)    == req[i] = "idle" /\ reading[i] = "off"

\* The handle is untouched until the pool thread initialises it, and silent
\* until the pool thread connects it; it is read only while it is open, and
\* not before the connect request has been answered.
StageInv(i) ==
    /\ work[i] \in {"none", "queued"} <=> conn[i] = "zeroed"
    /\ ~PoolDone(i) => Quiet(i) /\ conn[i] # "closing_cb"
    /\ reading[i] = "on" => conn[i] = "open"
    /\ req[i] = "connect" => reading[i] = "off"

\* A queued task will never see another callback that could queue it.
RetiredInv(i) ==
    Retired(i) => PoolDone(i) /\ Quiet(i) /\ conn[i] \in {"closing", "closed"}

\* A task the sweep has freed is out of libuv's hands for good.
FreedInv(i) ==
    i <= cur_id /\ i \notin task_list => PoolDone(i) /\ Quiet(i) /\ conn[i] = "closed"

IInv ==
    /\ TypeOK
    /\ IdsInv
    /\ \A i \in Task : StageInv(i) /\ RetiredInv(i)
    /\ RetiredOnce
    /\ Before => \A i \in Task : FreedInv(i)
    /\ ~Before => ~LoopAlive
----------------------------------------------------------------------------
(***************************************************************************)
(* The strengthening behind NoTaskForgotten, ForgottenIsOpen and           *)
(* CleanExit: an open handle is connecting or reading, if uv_tcp_connect   *)
(* and uv_read_start always start a request, and until the key is pressed  *)
(* every other one is on its way into the queue or in it.                  *)
(***************************************************************************)
\* on_init gives each task an address, and every uv_tcp_connect starts a
\* request and every uv_read_start a read.
Connects == HTTP /\ Faults \cap {"connect", "read"} = {}

OpenInv(i) ==
    Connects /\ PoolDone(i) /\ conn[i] = "open" => req[i] = "connect" \/ reading[i] = "on"

PendingInv(i) ==
    /\ work[i] = "init" => conn[i] = "open"
    /\ conn[i] \in {"closing", "closed"} => Retired(i) \/ i \notin task_list

ForgetInv ==
    /\ \A i \in Task : OpenInv(i)
    /\ BeforeKey => \A i \in Task : PendingInv(i)
----------------------------------------------------------------------------
(***************************************************************************)
(* The strengthening behind DueNotBlocked: the queue is in the order in    *)
(* which its nodes were queued, and their ages with it.                    *)
(***************************************************************************)
AgeInv ==
    \A j, k \in 1 .. Len(to_delete_task_list) :
        j <= k => to_delete_task_list[k].age <= to_delete_task_list[j].age
=============================================================================
