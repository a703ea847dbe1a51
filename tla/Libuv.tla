------------------------------- MODULE Libuv -------------------------------
(***************************************************************************)
(* What src/src/task.cpp relies on in libuv (a library outside the         *)
(* repository): the TCP handle of a task, the one request slot of a task,  *)
(* its pending read, and the work item handed to libuv's thread pool.      *)
(*                                                                         *)
(* A handle that uv_close has been called on stays in the loop until its   *)
(* endgame, which runs at the end of a loop iteration once no request of   *)
(* the handle is pending; only then is the close callback called.  Timers  *)
(* run at the start of an iteration, so they see the endgames drained.     *)
(***************************************************************************)
EXTENDS Naturals

CONSTANT
    MaxId           \* bound: tasks ever created (cur_id is a uint64_t)

ASSUME MaxIdAssumption == MaxId \in Nat

Task == 1 .. MaxId

VARIABLES
    conn,           \* uv_tcp_t conn: the state of the task's handle
    req,            \* connect_req: what the one request slot is used for
    reading,        \* the read request of conn
    work            \* work_req: the item in libuv's thread pool

uvVars == <<conn, req, reading, work>>

\* "closing" is uv_close(handle, NULL); "closing_cb" is uv_close(handle, close_cb).
ConnState    == {"zeroed", "open", "closing", "closing_cb", "closed"}
ReqState     == {"idle", "connect", "write"}
ReadingState == {"off", "on", "aborting"}
WorkState    == {"none", "queued", "init", "returning", "finished"}

UvTypeOK ==
    /\ conn \in [Task -> ConnState]
    /\ req \in [Task -> ReqState]
    /\ reading \in [Task -> ReadingState]
    /\ work \in [Task -> WorkState]

UvInit ==
    /\ conn = [i \in Task |-> "zeroed"]
    /\ req = [i \in Task |-> "idle"]
    /\ reading = [i \in Task |-> "off"]
    /\ work = [i \in Task |-> "none"]

uv_is_closing(i) == conn[i] \in {"closing", "closing_cb", "closed"}

\* conn.reqs_pending # 0 and conn.activecnt # 0 of the Windows uv_tcp_t.
ReqsPending(i) == req[i] # "idle" \/ reading[i] # "off"
ActiveCnt(i)   == req[i] # "idle" \/ reading[i] = "on"

EndgameReady(i) == conn[i] \in {"closing", "closing_cb"} /\ ~ReqsPending(i)
EndgamesDrained == \A i \in Task : ~EndgameReady(i)

\* uv_run goes on while this holds (the signal and timer handles apart).
LoopAlive ==
    \E i \in Task : \/ work[i] \in {"queued", "init", "returning"}
                    \/ ReqsPending(i)
                    \/ conn[i] \in {"closing", "closing_cb"}

\* The read request a close or an uv_read_stop leaves behind completes later.
StopReading(r) == IF r = "on" THEN "aborting" ELSE r

\* uv_close on a handle already closing has no effect (it trips an assertion
\* inside libuv's own debug build).
uv_close(i, how) ==
    \/ /\ uv_is_closing(i)
       /\ UNCHANGED <<conn, reading>>
    \/ /\ ~uv_is_closing(i)
       /\ conn' = [conn EXCEPT ![i] = how]
       /\ reading' = [reading EXCEPT ![i] = StopReading(@)]

\* The read request of a handle that is closing comes back cancelled; libuv
\* calls no callback for it.
ReadAborted(i) ==
    /\ reading[i] = "aborting"
    /\ reading' = [reading EXCEPT ![i] = "off"]
    /\ UNCHANGED <<conn, req, work>>
=============================================================================
