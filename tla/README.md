# EasyStressTest: TLA+ models, checks and proofs

EasyStressTest opens TCP connections to one server, a batch at a time, keeps a
minimum number of tasks going, and frees each task some time after its
connection has ended. It is about 1400 lines of C++ on libuv. Its difficulty is
not size but ownership: a task's memory holds the libuv handle, the request and
the work item, callbacks of five kinds and a pool thread touch it, several of
them may close it, and a timer frees it.

## The system

| component | state | operations | talks to |
|---|---|---|---|
| `CTasks` (task.h, task.cpp) | `task_list` (id to task), `to_delete_task_list`, `cur_id` | `Add`, `AddTask_ToBeDeleted`, `DeleteTask_ToBeDeleted`, `Clear`, `Count` | called by the timers, `tcp_task_post`, `on_connect`, `close_cb`, `uninit` |
| `tcp_task` (task.cpp) | per task: handle `conn`, `connect_req`, `work_req`, `delete_immediately` | `tcp_task_post`, `work_uv_cb`, `on_connect`, `write_cb`, `read_cb`, `close_cb`, `do_read`, `do_write`, `do_close` | libuv, `CTasks`, the installed callbacks |
| `http_task` (http_task.cpp) | `strHtml`, `total_len` in the task's spare bytes | the `http_on_*` callbacks | `do_write`, `do_read`, `do_close` |
| Main (Main.cpp) | the loop, two timers, three signal handles, `main_config` | `timer_cb`, `timer_release_cb`, `signal_unexpected_cb`, `init`, `uninit`, `main` | everything |
| libuv (external) | handles, requests, thread pool, loop | `uv_close`, `uv_read_start`, `uv_run`, ... | calls the callbacks |
| `CThreadPool` (threadpool.cpp) | thread list, task list, mutex, condition | `AddTask`, `ThreadProc`, `DelThread`, `WaitAll` | nothing: compiled, not used |
| command line (Main.cpp:169-241) | `main_config` | option parsing | Main |
| `third/hash` | none | Jenkins and Murmur3 hashes | nothing: not called |

What is hard in it:

* **Interleaving.** `work_uv_cb` runs on libuv's pool threads and initialises and
  connects a handle of a loop the main thread is running, or closing.
* **Several closers.** A failed connect, a failed write, a failed read, the end
  of the page and the shutdown walk each call `uv_close`, with two different
  close callbacks; only some of them ask whether the handle is closing.
* **Deferred freeing.** A task is queued when its close callback runs (or, on one
  path, before), and freed later by a sweep that looks at the queue's head only.
* **Partial failure.** `gethostbyname` may fail inside a batch, `uv_tcp_connect`
  may fail at once, and so may `uv_write` and `uv_read_start` when it has
  connected; later, reads and writes fail independently of each other.
* **Shutdown** at any moment, with work items still in the pool.

What makes the components correct: no task is queued or freed twice, none is
freed while libuv holds it, each posted task is freed in the end, the map stays
bounded, tasks keep being added, and the program exits. Beside that core,
`http_on_recv` must not cut a page off before its end, in whatever reads it
arrives (that it notices every end is not claimed: by its own comment it does
not); the thread pool must neither lose a task nor take one from an empty list, and its
joins must return; the settings must be what the command line asked for; and a
hash must depend on the bytes of the key and not on where the key lies.

## Modules

| module | what it is |
|---|---|
| `Libuv` | external: what task.cpp relies on. `conn`, `req`, `reading`, `work` give each task's handle, request slot, read request and work item |
| `CTasks` | extends `Libuv`: the class `CTasks`, its clock included |
| `TcpTask` | extends `CTasks`: the callbacks of task.cpp with the `http_on_*` functions they call, one action per callback |
| `StressTest` | extends `TcpTask`: timers, signals, start and shutdown; `Next`, fairness and the properties |
| `TaskRegistry` | abstract specification of the container; `StressTest!RefinesRegistry` maps onto it |
| `StressTestInv` | the inductive invariants `IInv`, `ForgetInv` and `AgeInv` |
| `HttpScan` | `http_data` and `http_on_recv`: the search for the end of a page that arrives in chunks |
| `ThreadPool` | `CThreadPool`: `ThreadProc` line by line, one caller, a recursive mutex and a condition |
| `TaskPool` | abstract specification of the pool; `ThreadPool!ImplementsPool` maps onto it |
| `Options` | the command line: main's option loop up to the branch of `init` on the script options |
| `Hash` | `hash_init` and the three hash functions: what they read and where it enters the state |
| `StressTestProofs`, `ForgetProofs`, `ProgressProofs`, `RegistryProofs`, `HttpScanProofs`, `ThreadPoolProofs`, `HashProofs`, `OptionsProofs` | TLAPS proofs |
| `MCStressTest`, `MCHttpScan`, `MCAlgorithms`, `MCClaims` | instances for TLC; `MCAlgorithms` puts `Options` and `Hash`, which share nothing, side by side; `MCClaims` holds what the program's text says and the program does not do |

`HttpScan` decides when `TcpTask!RecvEnd` happens. `TcpTask` leaves that open (any
read may bring the end of the page), so that its properties hold for every page
and every server; the two are not composed.

### State and code

* A task is its id. `task_list` is the set of ids in the map; a queue node is the
  id and its age in seconds, `t - time_deleted`, which stops one past
  `TIMEOUT_FOR_RELEASE` since nothing compares it with more. `Second` is the
  clock, taken never to go back as `time(NULL)` may. Ids are never reused (`cur_id` is a `uint64_t`; `MaxId` bounds it and is
  a guard of `Add`). That the map's allocator reuses a freed node's memory is not
  modelled.
* `conn[i]` is `zeroed` (as `timer_cb` builds the task), `open` (after `uv_tcp_init`),
  `closing` (`uv_close(.., NULL)`), `closing_cb` (`uv_close(.., close_cb)`) or
  `closed` (endgame done). `reqs_pending` and `activecnt`, which the sweep reads,
  are fields of libuv's Windows handle; the program is built for Windows with
  them, and the model follows Windows: endgames run at the end of a loop
  iteration, timers at its start, so a timer sees no endgame left over
  (`TimerRuns`).
* `uv_close` on a closing handle does nothing. That is libuv's release
  behaviour; a debug libuv stops there.
* `work[i]` is the pool's item: `queued`, `init` (between `uv_tcp_init` and
  `uv_tcp_connect`), `returning`, `finished`. The two libuv calls of a pool
  thread are separate steps and interleave with everything the main thread does.
* A callback on the loop thread runs to completion, so it is one action,
  including the `http_on_*` function it calls and the effect on `CTasks`. The
  mutex of the queue is always taken and released within one callback.
* `ASSERT` does nothing in a release build and aborts in a debug build. `asserts`
  collects the assertions found false, and the program goes on, as the release
  build does.
* `HTTP` is FALSE in script mode. `init` then may fail (the program goes straight
  to `getchar`), no callback is installed, and the task's address stays zero, so
  `uv_tcp_connect` refuses every task.
* `Faults` says what the environment may do: `dns` (a name does not resolve),
  `connect`, `write` and `read` (`uv_tcp_connect`, `uv_write`, `uv_read_start` fail
  at once), `timeout` (a read ends with `UV_ETIMEDOUT`). Refused connects, resets, end of file and cancelled requests
  are always possible.
* `loop` is where the main thread is, from the flood start to `exited`.

`HttpScan`: of the page only the offsets of `</html>`, `</HTML>` and the blank line
matter, so a page is three sets of offsets and what has been received is a
length. The window of 40 bytes, the lengths of the patterns and the largest chunk
are constants. `find` returns the first place of a pattern, `EndFound` says why
the others need not be told apart. The search is incomplete, as the comment over
it says ("This is an error"): a read brings up to 1024 bytes and the search goes
back 40. An end is missed when more than 29 bytes lie between its tag and its
blank line and behind it at the time of the search, and a missed end is never found
later; the task then reads until the peer ends the connection. `EndNoticed` says
which ends are missed, `AtOnceOrNever` that a later call never makes up for it.

`ThreadPool`: `pc` names the lines of `ThreadProc`; the wait is three steps (leave
the mutex and sleep, wake, own the mutex again). The test of line 23 is one step
without the mutex. The mutex is a Windows `CRITICAL_SECTION`: its owner may enter
it again, and `uv_cond_wait` and the unlock leave it whoever calls. A thread that
leaves a section another owns takes one entry off it, and the history variable
`stolen` records that it happened, so that the properties state what holds until
then. To leave a section nobody owns, which is what the first wait of every
thread may do, is undefined: either it has no effect or the section is of no use
from then on (`Broken`). `crashed` records a
`front()` of an empty list, which ends the program; `crowded`, that two threads
have existed at once; `slept`, which threads have begun a wait; `late`, which were
told to exit between their test and their wait. One thread calls the public functions, as `main` would.

`Options`: `strstr` looks for an option anywhere in an argument, so an argument is
the function from the options found in it to what follows each (a number, or a
path); `word` is what `stricmp` compares. Counts are kept modulo `UintSize`.

`Hash`: a hash is determined by where each byte of the key is added to the
registers, and in which round; the arithmetic between rounds is left out. A
place is a byte of a register. `absorbed` is a set, so a byte added twice at one
place would not show, and the twelve cases of each tail are one formula: what is
checked is where bytes go, case by case against the others, not the text of the
cases. `build` has the two macros that choose the code:
`ENDIAN_BIG` (0 in hash.h as it stands) and `VALGRIND`.

Operators whose names begin with `Slip` are not the code's. Each is a plausible
mistake in the operator below it, and `PROJECT.json` ("mutants") names the
property that notices it.

## Runs

| run | bounds | shows |
|---|---|---|
| `core` | 3 ids, batches of up to 2, minimum 2, sweep limit 2, timeout 1, flood start, `dns`, `connect` and `read` faults | `TypeOK`, `IInv`, `RetiredOnce`, `FreedAfterLibuv`, `ForgottenIsOpen`, `DueNotBlocked`, `RefinesRegistry`, `TasksRunDown` |
| `forget` | 3 ids, batches of up to 2, minimum 1 (so `TaskBound` is tight at 2), `dns`, `write` and `timeout` faults | `ForgetInv`, `NoTaskForgotten`, `CleanExit`, `TaskBound` |
| `live` | 3 ids, batches of up to 2, minimum 1 so that tasks must be freed before the next batch, `dns` faults, fairness | `RetiredIsFreed`, `PostedIsRetired`, `TasksAreAdded`, `StopCompletes` |
| `script` | script mode, 4 ids in batches of 2, fairness | `FreedAfterLibuv`, `StopCompletes` |
| `http` | 13 bytes in chunks of up to 13, window 6, patterns of 3 and 2 bytes, up to two `</html>`, one `</HTML>`, two blank lines | `NotCutShort`, `EndNoticed`, `AtOnceOrNever` |
| `pool` | 2 threads, 3 tasks, spurious wake-ups, fairness | `OneInside`, `TaskConserved`, `SoloSafe`, `WaiterOwns`, `WaitAllWakes`, `JoinReturns`, `ImplementsPool`, `ExitRunsDown` |
| `algorithms` | 2 arguments out of 49 kinds, 4-bit counts; keys of 0 to 40 bytes at all alignments, three hashes, four builds | `CountsAsAsked`, `ScriptOnlyIfBoth`, `SameAnywhere`, `InWordsOfKey`, `OnlyEmptyUnmixed` |

Why the bounds are enough: tasks share only the queue, the map's size and the
main thread's phase. Three ids give a queue longer than the sweep limit, a head
that blocks others, partial batches and a second batch that needs a sweep; two
give every interleaving of two connections. The safety properties do not rest
on the bounds: they are proved below. `TIMEOUT_FOR_RELEASE` is 1 in the source
and in `core`; elsewhere 0, which keeps "not yet" and "old enough" apart.
`core` counts states that differ in the history `asserts` alone as one (`VIEW`): no
action reads it, nor does any property of that run but `TypeOK`, which is proved.
In `http` the window holds a tag, a blank line and one byte more, and a chunk may be
twice the window, as the code's reads are longer than its window: ends just inside
and just outside it occur, ends cut at every byte, and ends missed. In `pool` two threads are enough for every race between a test and a
`front()`, and three tasks for a list in which order shows. In `algorithms` a key
of 40 bytes has three full blocks of 12 and two of 16, with every tail; and two
arguments are enough for "the last one counts". `CHECK_DEADLOCK FALSE` stands
where the modelled code really stops: `http_on_recv` after the close, `main` after
its option loop, a hash after its return, and a pool that has crashed, has no
more thread to make, or joins a thread that sleeps.

Five runs check what the program's text says and TLC finds it violated
(`PROJECT.json`, "findings"): `post_assert` (a failed name lookup trips the
assertion of `timer_cb`), `write_assert` (the program's own `uv_close` cancels a
write, which `write_cb` asserts cannot be), `loop_close_assert` (a handle
initialised after `close_loop`'s walk is never closed), `task_count` (the option
is never obeyed), `topping` (a dropped result of `uv_tcp_connect` makes a task
count as running for ever, so none is added).

### Fairness

`Fairness` is weak fairness throughout: the pool threads run; both timers come
due and the clock moves; the loop delivers completed work, endgames and
cancelled reads; a connect or a write gets some answer; every peer in the end
sends the whole page or drops the connection; a name resolves in the end; and
somebody presses the key after `Press any key to continue`. That a peer
eventually ends the connection is an assumption about servers, not about the
code: the program has no read timeout. Signals are never forced.

In `ThreadPool` a thread's next line is weakly fair, and so are the steps of a call
once it is begun; no call, no spurious wake-up and no signal is forced, and a task
ends. `JoinReturns` names exactly the cases in which a join may hang, instead of
assuming them away: two threads at once, the signal that falls between the test
and the wait, a mutex that an ended thread took with it, and a broken one. Two
properties say what is true in those cases. `WaiterOwns`: a thread owns the mutex
from its first wait on whenever it is not waiting, so it ends with it, and only
the first wait of a thread can take the mutex from another. `WaitAllWakes`: for any
number of threads, the only sleepers that `WaitAll` can lose are those told between
test and wait. That `DelThread` with two threads may signal the wrong one, and then
join for ever, is what the code does; no property denies it. Nor does any
speak of the list once `stolen` holds.

## Proofs

All for every value of the constants, from the named assumptions
`MaxIdAssumption`, `ReleaseAssumption`, `EnvAssumption` and `ConfigAssumption`.

* `TypeCorrect`: `Spec => []TypeOK`.
* `Invariant`: `Spec => []IInv`. Neither `RetiredOnce` nor `FreedAfterLibuv` is
  inductive. `IInv` adds three things: `StageInv` (what a handle can be while
  its work item is in the pool; nothing is closed with a callback before the
  pool thread is done), `RetiredInv` (a queued task has no request left and was
  closed either without callback or completely, so no callback can queue it
  again), and `FreedInv` (a task the sweep freed is closed for good; this is
  where it matters that timers run after endgames). `LocalStep` reduces a step
  of one task to facts about that task; there is one case per callback.
* `QueuedOnce` and `FreeIsSafe` follow from `IInv`. The proof also shows that the
  sweep's tests of `uv_is_closing`, `reqs_pending` and `activecnt` are never
  false for a queued task: `RetiredInv` already implies them. What the sweep
  does need is the order of endgames and timers.
* `MapIsBounded`: `Spec => []TaskBound`, by counting what a batch adds.
* `PendingAlways`: `Spec => []ForgetInv`, with no assumption. `ForgetInv` joins
  `PendingInv` (until the key is pressed, a handle closed, or closing without a
  callback, is one whose task is queued or freed, and the pool thread connects
  an open handle) and `OpenInv` (if `Connects`, an open handle past its connect
  call is connecting or reading, at all times, shutdown included). `Connects`
  says that callbacks are installed and that every `uv_tcp_connect` and
  `uv_read_start` starts what it is asked for; the proof uses it in two steps,
  `WorkConnect` (the dropped result of task.cpp:172) and `OnConnectOk` (that of
  `do_read`, which only an `ASSERT` looks at). A failed `uv_write` needs no such
  assumption: the read goes on. `LocalForget` reduces a step of one task to that task.
* `ForgottenOnlyOpen`: `Spec => []ForgottenIsOpen`. Without `Connects` a task can
  still be forgotten in one way only, with its handle open and no request left;
  no closed handle is forgotten, whichever of its closers came first.
* `NoneForgotten` and `ExitsClean`, both `ASSUME Connects`: `Spec => []NoTaskForgotten`
  and `Spec => []CleanExit`. The latter is about the handles a pool thread opens
  after `close_walk_cb` has gone through the loop: when `uv_run` returns nothing
  is pending (`~LoopAlive`), so each work item is finished, and `OpenInv` leaves no
  handle open. The run `loop_close_assert` shows that the assumption is needed.
* `RunDown`: `Spec => TasksRunDown`. `StepsLeft` is a sum over the four parts libuv
  has of a task; posting a task leaves nine, and each later change of its handle,
  request, read or work item takes off at least one. `StageInv` is needed: a
  connect is answered only while nothing is read, and a page ends only on an open
  handle. It is the part of termination the prover can do, that nothing goes on
  for ever; that it goes on at all is fairness, in the run `live`.
* `AgesOrdered` and `NoDueBlocked`: `Spec => []AgeInv` and `Spec => []DueNotBlocked`.
  The queue's ages never increase towards its tail: a new node is the youngest, a
  sweep takes the oldest, a second ages all alike up to the limit. With
  `RetiredInv`, which makes the sweep's three tests of the handle true, every
  node up to the last one that is past its time may be freed, so the sweep stops
  short of that one by `CHECK_DELETE_COUNT` alone.
* `Refinement`: `Spec => RefinesRegistry`. One lemma per kind of step: a batch is
  a `Post` (its ids are new, so none is queued; `CountSplit` shows that the map's
  size is what the registry counts, by a bijection from the queue to the retired
  tasks), queueing is a `Retire`, a sweep a `Sweep`, `uninit` the `Stop`; all else
  leaves the registry as it is. `IInv` is needed for all of them.
* `PageNotCutShort`, `EndIsNoticed` and `EndAtOnceOrNever` (`HttpScanProofs`), from
  `ScanAssumption`: for every page, every window and every chunk size, the code's 40
  and 1024 among them. `FoundIsEnd` and `EndIsFound` say that the search finds only
  ends, and every end in the window. `NothingFound` is the invariant behind the other
  two: while the task reads, the search of what has been received finds nothing. A
  later call looks at a later window, so (`FoundBefore`) an end it finds whose last
  byte it did not bring, the call before would have found.
* `PoolOneInside`, `PoolTaskConserved`, `PoolSoloSafe` (`ThreadPoolProofs`), from
  `PoolAssumption`: any number of threads and tasks. `PoolInv` joins `MutexInv`
  (who is inside owns the mutex until it is stolen), `QueueInv` (list, running and
  run tasks partition the tasks added) and `SoloInv` (with one thread, a
  non-empty list stays non-empty from the test to `front()`).
* `PoolImplements`: `Spec => ImplementsPool`, from the same invariant. A task is
  running in `TaskPool` while a thread is at the line that calls it, so `Pop` is its
  `Start` (the thread's copy of the front is still the front: `QueueInv`), `Run` its
  `End` (no other thread holds the task) and `AddPush` its `Add`; all else leaves it
  as it is. `spoilt` is `stolen`: from then on nothing is promised.
* `PoolExitRunsDown`: `Spec => ExitRunsDown`. `LinesLeft` counts the lines between a
  thread that has been told to exit and its end, and no step of any thread or call
  raises it. `NodesInv` is needed: only started threads are told, so `AddThread`
  never starts one that has been told already.
* `PoolWaiterOwns`: `Spec => []WaiterOwns`. The invariant is `HeldInv`: a thread that has
  slept owns the mutex and has entered it once at least, twice inside the lock;
  the unlock of line 36 takes off one entry of two, so it never frees it.
* `PoolWaitAllWakes`: `Spec => []WaitAllWakes`. The invariant `WakeInv` says that each
  thread that has not ended is that of a node, that `WaitAll` has told the nodes it has
  passed, and that only a thread told late can be told and about to wait. Once all
  are told, a sleeper that is not `late` always has a told thread ahead of it that
  will reach the signal of line 25: either that thread signals, which wakes another,
  or it was itself the last. `AllAreTold` keeps a woken thread from sleeping again.
* `HashSameAnywhere`, `HashInWordsOfKey`, `HashOnlyEmptyUnmixed` (`HashProofs`), from
  `HashAssumption`: keys of any length. `ReadBelongs` shows that the three ways of
  reading agree; the rest is arithmetic of blocks, by induction over the loop.
* `OptionsCounts`, `OptionsScript` (`OptionsProofs`), from `OptionsAssumption` and
  `ArgumentAssumption`: any set of arguments, any number of them, counts of any
  width. The invariant is `Follows`: a field has its default until it is asked for,
  then what the last request stores. `SetByTaken` shows that the branch taken by
  the else-if chain is the one `Asked` speaks of, `AskedAppend` what one more
  argument does to it.

Model-checked only: the liveness properties `RetiredIsFreed`, `PostedIsRetired`,
`TasksAreAdded`, `StopCompletes` and `JoinReturns` (fairness is beyond the prover).
`NoDueBlocked`, `RunDown`, `ExitsClean` and `PoolExitRunsDown` are the safety halves of
the first, second, fourth and fifth. What the five runs with an expected violation
check is false, and so has no theorem.

## Not modelled, and why

* `work_req` at the sweep: the sweep does not test it, and only the time in the
  queue keeps a task whose `after_work_cb` is due from being freed.
  `FreedAfterLibuv` speaks of the handle and of the connect and write request.
* Data races inside libuv when pool threads call `uv_tcp_init` and
  `uv_tcp_connect`; the model takes each call as atomic.
* `connect_req` used as a `uv_write_t`, the string of `http_data` that is never
  destroyed, calls on a deleted loop in `uninit`: matters of memory layout.
* Data: addresses, the content of the page apart from its end, log output.
  `HttpScan` stays below 2^31 bytes, where `(int)offset` keeps its sign.
* The arithmetic of the hashes (`mix`, `final`, `fmix32`), and with it how well they
  spread keys; key lengths from 2^31 on, for which `(int)length` is negative.
* `CThreadPool` with more than one calling thread: nothing calls it at all. Data
  races on `m_tasks` inside `size()`, `push_back` and `pop_front` are taken as atomic.
* Compiling and running a script with tcc.
* Build scripts and console set-up: no state.

The help text asks for `-tcc==***` and `-libpath==***` (Main.cpp:325-326) while the
code looks for `-tcc=` and `-libpath=` (Main.cpp:211, 215): typed as printed, the
paths begin with `=`. No run shows it, since paths are not spelled out.

## Plan

Done: the core (`Libuv`, `CTasks`, `TcpTask`, `StressTest`, `TaskRegistry`) with its
invariants, liveness and refinement; `HttpScan`, `ThreadPool`, `Options` and `Hash`;
the proofs above. Left to prove: what `TaskRegistry` and `TaskPool` mean for their
users, stated of those two modules alone. Left to model: `TcpTask` composed with
`HttpScan`, which would replace the open choice of `RecvEnd` by the search;
`work_req` and the timing that keeps the sweep from it.
