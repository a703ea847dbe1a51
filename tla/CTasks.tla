------------------------------- MODULE CTasks ------------------------------
(***************************************************************************)
(* Class CTasks of src/src/task.h: the map of the tasks (task_list, keyed  *)
(* by id) and the queue of the tasks that may be freed                     *)
(* (to_delete_task_list).  A task is its id.  A queue node carries the     *)
(* whole seconds since it was queued, t - time_deleted, saturating one     *)
(* past the timeout it is compared with.                                   *)
(*                                                                         *)
(* An operator whose name begins with Slip is not the code's: it is a      *)
(* plausible mistake in the operator that follows it, kept to show that    *)
(* the properties notice it (PROJECT.json, "mutants").                     *)
(***************************************************************************)
EXTENDS Libuv, Sequences, FiniteSets

CONSTANTS
    CHECK_DELETE_COUNT,     \* nodes one sweep may free
    TIMEOUT_FOR_RELEASE     \* seconds a node waits unless delete_immediately

ASSUME ReleaseAssumption ==
    /\ CHECK_DELETE_COUNT \in Nat \ {0}
    /\ TIMEOUT_FOR_RELEASE \in Nat

VARIABLES
    cur_id,                 \* the last id given out
    task_list,              \* the ids of the tasks in the map
    to_delete_task_list,    \* the queue of DELETE_NODEs
    delete_immediately      \* the flag in each task

taskVars == <<cur_id, task_list, to_delete_task_list, delete_immediately>>

DELETE_NODE == [ptask : Task, age : 0 .. TIMEOUT_FOR_RELEASE + 1]

TasksTypeOK ==
    /\ cur_id \in 0 .. MaxId
    /\ task_list \subseteq Task
    /\ to_delete_task_list \in Seq(DELETE_NODE)
    /\ delete_immediately \in [Task -> BOOLEAN]

TasksInit ==
    /\ cur_id = 0
    /\ task_list = {}
    /\ to_delete_task_list = <<>>
    /\ delete_immediately = [i \in Task |-> FALSE]

Count == Cardinality(task_list)

\* cur_id++ for ++cur_id.
SlipNewIds(n) == cur_id .. cur_id + n - 1

\* The ids the next n calls of Add give out.
NewIds(n) == cur_id + 1 .. cur_id + n

\* n calls of Add.  The model's bound MaxId is a guard.
Add(n) ==
    /\ cur_id + n <= MaxId
    /\ cur_id' = cur_id + n
    /\ task_list' = task_list \cup NewIds(n)
    /\ UNCHANGED <<to_delete_task_list, delete_immediately>>

\* push_front for push_back.
SlipAddTask_ToBeDeleted(i) ==
    to_delete_task_list' = <<[ptask |-> i, age |-> 0]>> \o to_delete_task_list

AddTask_ToBeDeleted(i) ==
    to_delete_task_list' = Append(to_delete_task_list, [ptask |-> i, age |-> 0])

\* && for ||.
SlipErasable(node) ==
    /\ delete_immediately[node.ptask] /\ node.age > TIMEOUT_FOR_RELEASE
    /\ uv_is_closing(node.ptask)
    /\ ~ReqsPending(node.ptask)
    /\ ~ActiveCnt(node.ptask)

Erasable(node) ==
    /\ delete_immediately[node.ptask] \/ node.age > TIMEOUT_FOR_RELEASE
    /\ uv_is_closing(node.ptask)
    /\ ~ReqsPending(node.ptask)
    /\ ~ActiveCnt(node.ptask)

\* The node is erased, its task is not.
SlipDeleteTask_ToBeDeleted ==
    /\ to_delete_task_list # <<>>
    /\ Erasable(Head(to_delete_task_list))
    /\ to_delete_task_list' = Tail(to_delete_task_list)
    /\ UNCHANGED <<cur_id, task_list, delete_immediately>>

\* The sweep frees from the head and stops at the first node that may not be
\* freed yet, at the end, or after CHECK_DELETE_COUNT nodes.  A sweep that
\* frees nothing changes nothing.
DeleteTask_ToBeDeleted ==
    \E n \in 1 .. Len(to_delete_task_list) :
        /\ n <= CHECK_DELETE_COUNT
        /\ \A j \in 1 .. n : Erasable(to_delete_task_list[j])
        /\ \/ n = CHECK_DELETE_COUNT
           \/ \A j \in 1 .. Len(to_delete_task_list) :
                  j = n + 1 => ~Erasable(to_delete_task_list[j])
        /\ task_list' = task_list \ {to_delete_task_list[j].ptask : j \in 1 .. n}
        /\ to_delete_task_list' =
               SubSeq(to_delete_task_list, n + 1, Len(to_delete_task_list))
        /\ UNCHANGED <<cur_id, delete_immediately>>

\* Clear empties the map and leaves the queue as it is.
Clear ==
    /\ task_list' = {}
    /\ UNCHANGED <<cur_id, to_delete_task_list, delete_immediately>>

\* time(NULL) moves to the next second; it is taken never to go back.
Tick ==
    /\ \E j \in 1 .. Len(to_delete_task_list) :
           to_delete_task_list[j].age <= TIMEOUT_FOR_RELEASE
    /\ to_delete_task_list' =
           [j \in 1 .. Len(to_delete_task_list) |->
               [to_delete_task_list[j] EXCEPT
                   !.age = IF @ <= TIMEOUT_FOR_RELEASE THEN @ + 1 ELSE @]]
    /\ UNCHANGED <<cur_id, task_list, delete_immediately>>

Retired(i) == \E j \in 1 .. Len(to_delete_task_list) : to_delete_task_list[j].ptask = i
=============================================================================
