------------------------------ MODULE MCClaims -----------------------------
(***************************************************************************)
(* What the text of the program says of itself and the program does not    *)
(* do: assertions of the source and descriptions of its options.  Each     *)
(* definition is the property of one run that TLC finds violated.          *)
(***************************************************************************)
EXTENDS MCStressTest

CONSTANT
    task_count      \* main_config.task_count, which no code reads but to print

\* ASSERT(r >= 0) in timer_cb: every task of a batch is posted.
PostAssertHolds == "tcp_task_post" \notin asserts

\* ASSERT(status == UV_ECONNRESET || status == UV_EOF) in write_cb: a write
\* fails in no other way.
WriteAssertHolds == "write_cb" \notin asserts

\* ASSERT(r == 0) in uninit: close_loop has closed every handle of the loop.
LoopCloseAssertHolds == "uv_loop_close" \notin asserts

\* "execute times": the program runs at most task_count tasks.
TaskCountHonoured == cur_id <= task_count

\* "When the running instance count less than a certain value
\* <task_min_running>, automatically increase the number of running instance".
RunningIsTopped == TasksAreAdded
=============================================================================
