------------------------------- MODULE TcpTask -----------------------------
(***************************************************************************)
(* One tcp_task from tcp_task_post to the queue of tasks to be freed:      *)
(* src/src/task.cpp with the callbacks of src/src/http_task.cpp.  One      *)
(* action is one callback (run to completion on the loop thread), or one   *)
(* libuv call of work_uv_cb (run on a thread of libuv's pool).             *)
(***************************************************************************)
EXTENDS CTasks

CONSTANTS
    HTTP,           \* init installed the http_* callbacks (else all are NULL)
    Faults          \* what the environment may do beyond the ordinary

\* "dns": gethostbyname fails.  "connect": uv_tcp_connect fails at once and
\* starts no request.  "write", "read": uv_write or uv_read_start on a fresh
\* connection fails at once.  "timeout": a connection breaks with UV_ETIMEDOUT.
ASSUME EnvAssumption ==
    /\ HTTP \in BOOLEAN
    /\ Faults \subseteq {"dns", "connect", "write", "read", "timeout"}

VARIABLE
    asserts         \* the ASSERTs found false so far (a Debug build aborts at
                    \* the first; in a Release build ASSERT is compiled out)

AssertSites ==
    {"tcp_task_post", "do_write", "do_read", "read_cb", "write_cb", "uv_loop_close"}

FailedAssert(site, cond) ==
    asserts' = IF cond THEN asserts ELSE asserts \cup {site}

vars_task == <<uvVars, taskVars, asserts>>

TaskTypeOK ==
    /\ UvTypeOK
    /\ TasksTypeOK
    /\ asserts \subseteq AssertSites

TaskInit == UvInit /\ TasksInit /\ asserts = {}
----------------------------------------------------------------------------
\* n of the task_add_once calls of tcp_task_post find on_init willing.  It is
\* http_on_init that fails, with "dns"; the ASSERT is the caller's.
PostTasks(n, wanted) ==
    /\ n = wanted \/ (HTTP /\ "dns" \in Faults)
    /\ Add(n)
    /\ work' = [i \in Task |-> IF i \in NewIds(n) THEN "queued" ELSE work[i]]
    /\ FailedAssert("tcp_task_post", n = wanted)
    /\ UNCHANGED <<conn, req, reading>>

\* work_uv_cb, on a pool thread: uv_tcp_init ...
WorkInit(i) ==
    /\ work[i] = "queued"
    /\ work' = [work EXCEPT ![i] = "init"]
    /\ conn' = [conn EXCEPT ![i] = "open"]
    /\ UNCHANGED <<req, reading, taskVars, asserts>>

\* ... then uv_tcp_connect, whose result is stored and never looked at.  The
\* loop thread may have closed the handle in between; libuv then may or may
\* not refuse.  Without on_init the address is all zeros, which names no
\* address family: libuv always refuses it.
WorkConnect(i) ==
    /\ work[i] = "init"
    /\ work' = [work EXCEPT ![i] = "returning"]
    /\ \/ HTTP /\ req' = [req EXCEPT ![i] = "connect"]
       \/ (~HTTP \/ "connect" \in Faults \/ uv_is_closing(i)) /\ UNCHANGED req
    /\ UNCHANGED <<conn, reading, taskVars, asserts>>

\* The loop thread takes the finished item back; after_work_cb is empty.
AfterWork(i) ==
    /\ work[i] = "returning"
    /\ work' = [work EXCEPT ![i] = "finished"]
    /\ UNCHANGED <<conn, req, reading, taskVars, asserts>>
----------------------------------------------------------------------------
\* uv_write and uv_read_start; ok: the call returns 0.  The ASSERT of
\* http_on_connected_successful repeats the one inside.
do_write(i, ok) == req' = [req EXCEPT ![i] = IF ok THEN "write" ELSE "idle"]
do_read(i, ok)  == reading' = [reading EXCEPT ![i] = IF ok THEN "on" ELSE @]

\* on_connected_successful writes and forgets to read.
SlipOnConnectOk(i) ==
    /\ req[i] = "connect"
    /\ conn[i] = "open"
    /\ do_write(i, HTTP)
    /\ UNCHANGED <<conn, reading, work, taskVars, asserts>>

\* on_connect, status 0, which libuv never gives for a handle that is closing:
\* http_on_connected_successful writes the request through connect_req and
\* then reads, whether or not the write could be started; without callbacks
\* on_connect only reads.  Neither failure closes the handle.
OnConnectOk(i) ==
    /\ req[i] = "connect"
    /\ conn[i] = "open"
    /\ \E sent, started \in BOOLEAN :
        /\ sent \/ (HTTP /\ "write" \in Faults)
        /\ started \/ "read" \in Faults
        /\ do_write(i, HTTP /\ sent)
        /\ do_read(i, started)
        /\ asserts' = asserts \cup (IF sent THEN {} ELSE {"do_write"})
                              \cup (IF started THEN {} ELSE {"do_read"})
    /\ UNCHANGED <<conn, work, taskVars>>

\* uv_close with close_cb, and the task queued here as well.
SlipOnConnectFailed(i) ==
    /\ req[i] = "connect"
    /\ ~uv_is_closing(i)
    /\ req' = [req EXCEPT ![i] = "idle"]
    /\ uv_close(i, "closing_cb")
    /\ AddTask_ToBeDeleted(i)
    /\ UNCHANGED <<work, cur_id, task_list, delete_immediately, asserts>>

\* uv_close without close_cb, and the task not queued here.
SlipOnConnectFailedUnqueued(i) ==
    /\ req[i] = "connect"
    /\ req' = [req EXCEPT ![i] = "idle"]
    /\ uv_close(i, "closing")
    /\ UNCHANGED <<work, taskVars, asserts>>

\* on_connect, any other status (UV_ECANCELED when the handle was closed):
\* a handle already closing is left to whoever closed it.
OnConnectFailed(i) ==
    /\ req[i] = "connect"
    /\ req' = [req EXCEPT ![i] = "idle"]
    /\ \/ /\ uv_is_closing(i)
          /\ UNCHANGED <<conn, reading, to_delete_task_list>>
       \/ /\ ~uv_is_closing(i)
          /\ uv_close(i, "closing")
          /\ AddTask_ToBeDeleted(i)
    /\ UNCHANGED <<work, cur_id, task_list, delete_immediately, asserts>>

\* on_send_ok starts the read, once more.
SlipWriteOk(i) ==
    /\ req[i] = "write"
    /\ req' = [req EXCEPT ![i] = "idle"]
    /\ do_read(i, TRUE)
    /\ UNCHANGED <<conn, work, taskVars, asserts>>

WriteOk(i) ==
    /\ req[i] = "write"
    /\ req' = [req EXCEPT ![i] = "idle"]
    /\ UNCHANGED <<conn, reading, work, taskVars, asserts>>

\* write_cb with an error closes the handle without asking whether it is
\* closing already.  uv_close cancels a write that is still pending.
WriteFailed(i, status) ==
    /\ req[i] = "write"
    /\ status = "ECONNRESET" \/ (status = "ECANCELED" /\ uv_is_closing(i))
    /\ req' = [req EXCEPT ![i] = "idle"]
    /\ FailedAssert("write_cb", status \in {"ECONNRESET", "EOF"})
    /\ uv_close(i, "closing_cb")
    /\ UNCHANGED <<work, taskVars>>

\* read_cb with nread < 0; libuv has stopped reading.
ReadFailed(i, status) ==
    /\ reading[i] = "on"
    /\ status \in {"ECONNRESET", "EOF"} \/ (status = "ETIMEDOUT" /\ "timeout" \in Faults)
    /\ FailedAssert("read_cb", status \in {"ECONNRESET", "EOF"})
    /\ reading' = [reading EXCEPT ![i] = "off"]
    /\ conn' = [conn EXCEPT ![i] = IF uv_is_closing(i) THEN @ ELSE "closing_cb"]
    /\ UNCHANGED <<req, work, taskVars>>

\* uv_close without close_cb.
Slip_do_close(i, release_it) ==
    /\ uv_close(i, "closing")
    /\ delete_immediately' = [delete_immediately EXCEPT ![i] = release_it]

\* do_close(ptask, release_it): uv_read_stop, uv_close, then the flag.
do_close(i, release_it) ==
    /\ uv_close(i, "closing_cb")
    /\ delete_immediately' = [delete_immediately EXCEPT ![i] = release_it]

\* release_it frees the task there and then.
SlipRecvEnd(i) ==
    /\ HTTP
    /\ reading[i] = "on"
    /\ do_close(i, TRUE)
    /\ task_list' = task_list \ {i}
    /\ UNCHANGED <<req, work, cur_id, to_delete_task_list, asserts>>

\* read_cb with data: http_on_recv closes the task once the end of the page
\* is in.  Any other data changes nothing modelled here.
RecvEnd(i) ==
    /\ HTTP
    /\ reading[i] = "on"
    /\ do_close(i, TRUE)
    /\ UNCHANGED <<req, work, cur_id, task_list, to_delete_task_list, asserts>>

\* The endgame of a closed handle, and close_cb if uv_close was given it.
CloseCb(i) ==
    /\ EndgameReady(i)
    /\ conn' = [conn EXCEPT ![i] = "closed"]
    /\ \/ conn[i] = "closing_cb" /\ AddTask_ToBeDeleted(i)
       \/ conn[i] = "closing" /\ UNCHANGED to_delete_task_list
    /\ UNCHANGED <<req, reading, work, cur_id, task_list, delete_immediately, asserts>>
=============================================================================
