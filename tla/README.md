# Verification of the coroutine runtime of cocoyaxi

cocoyaxi (`src/src`, headers in `src/include/co`) is a C++ base library whose core is
a Go-style coroutine runtime: N scheduler threads that run stackful coroutines on a
few shared stacks, woken by an epoll each, and the synchronisation objects coroutines
and plain threads share (mutex, event, channel, wait group, pool). On top of it are
sockets and I/O events, a tcp server, rpc, http, and next to it a logger, a timed task
scheduler and ordinary utilities (json, flags, strings, files).

This directory holds TLA+ models of the runtime, TLC configurations that check them on
small instances, and TLAPS proofs that hold for every instance. `PROJECT.json` lists
the runs, the lines of code each definition stands for, the hazards and the theorems.

    tlc -config Mutex.cfg MCMutex           # a run
    tlapm MutexProofs.tla                   # a proof

## 1. Inventory

The part that carries the library's own logic is `src/src/co`; what is hard about it is
that most of its operations are a critical section followed by something done after the
lock was released (a `yield`, an `add_ready_task`, a `notify`), so that other threads get
in between.

| component | state | operations | what it touches |
|---|---|---|---|
| scheduler loop (`co/sched.cc` 165-273, `sched.h` 253-278) | `_new_tasks`, `_ready_tasks` under `_mtx`, `_stopped`, `_ev`, loop-local vectors | `add_new_task`, `add_ready_task`, `loop`, `stop` | called from any thread; calls `Epoll::wait/signal`, `resume` |
| wake-up pipe (`co/epoll/epoll.h`, `epoll.cc` 8-22, 139-155) | `_signaled` (atomic), a pipe registered edge-triggered | `signal`, `wait`, `handle_ev_pipe` | written by any thread, drained by the loop |
| timers (`sched.h` 280-325, `sched.cc` 275-304) | multimap, hint `_it`, `_wait_ms`, `co->it`, `waitx_t::state` | `add_timer`, `sleep`, `del_timer`, `check_timeout` | race with `signal` for `waitx_t::state` |
| coroutine pool (`sched.h` 145-250) | `_c`, `_o`, `_use_count`, `_v0`, `_vc`, `_blks` | `pop`, `push` | one scheduler |
| switching and stacks (`sched.cc` 82-163, `sched.h` 63-143, 415-452) | `Stack::co`, `Coroutine::ctx/pbuf`, `_bufs`, `_running` | `new_coroutine`, `resume`, `yield`, `save_stack`, `recycle` | one scheduler |
| scheduler manager (`sched.cc` 306-398) | the list of schedulers, `g_nco`, `is_active` | `go`, `next_sched`, `stop` | creates, stops and deletes schedulers |
| mutex (`co.cc` 30-202) | `_lock`, `_wq`, `_cv` | `lock`, `try_lock`, `unlock` | yields, `add_ready_task` |
| event (`co.cc` 204-354), sync_event (356-419) | `_wc`, `_wt`, `_sn`, `_signaled`, `waitx_t` | `wait(ms)`, `signal`, `reset` | yields, timers, `add_ready_task` |
| channels (`co.cc` 421-1229) | ring buffer or list, `_full`, `_wq`, waiting `waitx_t` | `read`, `write`, `close`, `done` | as event |
| wait group (`co.cc` 1430-1500) | counter + event | `add`, `done`, `wait` | event |
| pool of objects (`co.cc` 1265-1361) | a stack of objects per scheduler | `push`, `pop`, `clear` | starts coroutines, wait group; user callbacks |
| epoll registration (`epoll.cc` 24-137, `sock_ctx.h`) | per descriptor: the reading and the writing coroutine of a scheduler | `add_ev_read/write`, `del_ev_*`, `close` | the loop resumes by it |
| I/O event, sockets, hooks (`io_event.cc`, `sock.cc`, `hook.cc`) | a registration and a timer; blocking flags per descriptor | `wait`, `recv`, `send`, `connect`, ... | epoll registration, timers |
| tasked (`tasked.cc`) | list of timed tasks, a new-task list | `run_in`, `run_every`, `run_daily`, `stop` | one thread plus callers |
| logger (`log/log.cc`) | per-thread buffers, level files, `_stop` | `push`, flush thread, `rotate`, signal handler | all threads |
| tcp server/client, rpc, http, ssl (`so/`) | `_status`, reference and connection counts | `start`, `exit`, accept loop, connection reuse | coroutines, sockets |
| json (`json.cc`, `json.h`) | trees of headers and blocks; the parser's two stacks | `set`, `push_back`, `add_member`, `remove`, `dup`, ...; `parse_from`, `str` | a thread's allocator |
| flag, strings, containers, fs, os, time, rand, hash | data only | | none |

The components meet in four places: `add_ready_task` (anybody makes a coroutine ready),
`resume`/`yield` (the scheduler and its coroutines alternate), the compare-and-swap on
`waitx_t::state` (a signal and a timer race for a coroutine), and `SockCtx` (the epoll
finds the coroutine that waits for a descriptor).

Behaviours that are hard, and the properties that make the components right:

- *scheduler loop and pipe*: a task added while the loop decides to sleep must wake it;
  the flag that saves bytes must not save the only one. Each task is resumed once per
  addition and in order, a batch ends, `stop` returns, and before the loop has ended only if its
  wait ends by itself.
- *switching*: a coroutine finds its own frames although others ran on its stack; no
  buffer has two users; nothing refers to a coroutine that has ended.
- *coroutine pool*: an index is handed out once; memory of a live coroutine is not freed.
- *mutex*: exclusion, the lock is never lost between the release of `_m` and the wake-up,
  a queued coroutine is in one place, nobody overtakes the queue, a queued coroutine gets
  the lock.
- *event*: a coroutine is resumed once, by the signal or by the timeout; a `waitx_t` is
  freed by exactly one party; a signal is not lost; all waiters return.
- *channel*: an element is delivered once, also when the writer times out; `close` wakes
  everybody; *wait group*: `wait` returns when the counter is 0.
- *epoll registration*: the event resumes the coroutine that waits, and not one that has
  ended since; *tasked*: no task early or lost; *logger*: no line lost on an orderly stop;
  *tcp server*: no use after the accept loop has deleted it.
- *scheduler manager and pool of objects*: no scheduler is deleted while anybody may still use
  it; an object of a pool is in one place, and destroyed once.
- *json*: whatever calls are made, every block has one owner; a text is read for what the
  grammar says, and leaves nothing behind when it is wrong.

`PROJECT.json` has every component with its status, and each hazard at its line.

## 2. Modules

One module per component; `MC*` modules hold the definitions TLC needs for an instance,
`*Proofs` modules the theorems. Everywhere a critical section under a `std::mutex` is one
action, and what the code does after releasing it (`yield`, `add_ready_task`, `notify`) is
an action of its own. Operators called *slips* are plausible mistakes, each named after
the operation it would replace; they are not part of any next-state relation.

    HandoffLock, MutexQueue <- Mutex <- MCMutex, MutexProofs
    Mailbox <- SchedLoop <- MCSchedLoop, SchedLoopProofs;  SockIo <- MCSchedLoop, SchedLoopProofs
    SharedStack, CoroutinePool, TimerManager, Hook <- MCScheduler
    SchedManager <- ObjectPool <- MCScheduler <- SchedulerProofs <- ObjectProofs
    Event <- WaitGroup <- MCEvent <- EventProofs
    PipeWaiters <- Pipe, PipeCap <- MCPipe <- PipeProofs;  Channel <- Pipe, PipeCap
    TcpServer <- Rpc <- MCServices, RpcProofs;  Http <- MCServices, RpcProofs
    JsonTree, JsonParser, JsonText <- MCServices;  Logger, LogFile, Tasked <- MCLogger <- LibraryProofs

(`A <- B`: B extends A, takes an instance of it or, for the abstract HandoffLock, Mailbox and
Channel, implements it.) An MC module that composes parts that do not touch each other has
a variable `part`: each behaviour is one of one part.

**SchedLoop** (`sched.cc` `loop`, `stop`; `TaskManager`; the pipe of `Epoll`). `newq`, `readyq`
are the queues under `_mtx`, `newBatch`, `readyBatch` the loop's vectors, `signaled` and
`pipe` the flag and the bytes, `edge` what edge-triggered epoll has still to report, `loop`
the program counter of the loop. Adding a task is three steps: append, exchange the flag,
write the byte. The loop checks `_stopped`, waits, handles each reported event (the pipe is
drained, then the flag cleared), swaps the queues, resumes the batch, handles timers. What
a resumed coroutine does is open, except that it may add tasks to its own scheduler. `ev` and `wt` are
`_signaled` and `_wt` of `_ev`, the `sync_event` that `stop` waits for and the loop signals last; that wait
has no predicate (`co.cc` 373), so that with `SpuriousWakeups` it may end by itself (`SpuriousWakeup`).
**Mailbox** is what others rely on: tasks are resumed in order, once each.

**SharedStack** (`resume`, `yield`, `save_stack`, `new_coroutine`, `recycle`). The frames of a
coroutine are a value (whose, which version); `content` says what is on a stack, `data`
what is in a buffer. `resume` evicts the owner of the stack into its buffer and copies the
resumed coroutine's frames back.

**TimerManager** (`add_timer`, `sleep`, `del_timer`, `check_timeout`, and the loop around them). `timers`
is the multimap in order, `hint` the iterator `_it`, `it` and `waitx` what each coroutine holds of
its timer; `waitMs` is `_wait_ms`, and `looked` says when `check_timeout` last read the clock. Waiters sleep,
wait for I/O (the loop deletes their timer) or for an event (a signal may win the race).

**CoroutinePool** (`pop`, `push`), over the block size `N`; `holders` counts how often an index
has been popped without being pushed and is the yardstick, not part of the code.

**SchedManager** (`go`, `next_sched`, `SchedManager::stop`). Of a scheduler there is its `queue`, what it
is `running`, `flag` (`_stopped`) and whether its `loop` is over; `exist` are those not deleted. A `go` is up to three steps (read
`g_nco`, increment it, add the task), between which `stop` may proceed. The wait for a scheduler may end though its
loop has not (`WaitEnded`): those it has happened to are `early`, and if one of them is still in `loop()` when the first
scheduler is deleted, the behaviour ends there (`Defined`), since what the code then does is undefined. **ObjectPool** (`co::pool`) runs
on it: `mem` and `size` are the vectors, `walk` the loops of the coroutines `clear` starts, `todo` its wait
group. A vector that is popped from keeps its memory, so that a walk under way sees what was there.

**Mutex** (`lock`, `try_lock`, `unlock`). `wq` is `_wq` (a `NullPtr` stands for a thread), `ready`
the inboxes of the schedulers, `running` the coroutine each scheduler has resumed.
`UnlockToCoroutine` is followed by `UnlockAddReady`, `UnlockToThread` by `UnlockNotify`. **MutexQueue**
is `mutex_impl::queue`, the blocks behind `_wq`; in the run it goes along with `wq`.
**HandoffLock** is the abstract lock: with somebody in line the lock is passed on, never freed.

**Event** (`wait(ms)`, `signal`, `reset` of `event_impl`; `check_timeout`; `resume`). `wc`, `wt`,
`signaled` are the members, `newer` the threads whose copy of `_sn` is older than `_sn`, `h`
the list a `signal` still has to walk after it released `_m`. `state` and `owner` are the
waitx_t on the heap; memory reuse is explicit: a waitx_t is free or in use, at one of
`Waitx` addresses. `sync_event_impl` is the thread branch of the same code.

**PipeWaiters, Pipe, PipeCap** (`pipe_impl`, `pipe_impl_cap`). PipeWaiters is the code both
classes repeat: the queue `_wq`, claiming a waiter (`Claim`, with the compare-and-swap),
the ends of a wait (`ResumeReady`, `TimeOut`, `ThreadReturn`) and `close`. Pipe adds the ring
with `_rx`, `_wx`, `_full`, PipeCap the list with `_size`. Each branch of `read` and `write` is an
action. Capacity and timeout are chosen when the channel is created (`cap`, `timed`). An element is
a token written once (`out`: not written yet, `got`: read); tokens and free addresses are taken
smallest first, since which one it is makes no difference. Each coroutine has its own scheduler here, of
which only the wake-ups are kept; the loop and the timers themselves are the business of
SchedLoop and Event. **Channel** is a line of elements from which the oldest is taken; the line of a
channel is what is in its buffer and, behind it, the elements of the writers that wait (`Line`, `Behind`).

**WaitGroup** (`add`, `done`, `wait`) extends Event and adds the counter; `done` and the `signal` that
follows are two actions. It is used in rounds, see the module's header.

**SockIo** (`accept`, `connect`, `recv`, `recvn`, `send`, `close`, `shutdown` of `sock.cc`, `io_event::wait`, `Epoll`'s
`add_ev_*`/`del_ev_*`, `SockCtx`, and `loop` looking a coroutine up). `ctx` is the table of `SockCtx`,
`interest` and `edge` the kernel's side of each epoll, `ready` the conditions of a descriptor. A
number that was closed may be opened again. Every round of the `do` loop in a call is a
`Wait` of its own with its own timer. The hook of `poll` for one descriptor is there, too
(`pollin`, `pollout`): unlike the others it removes both directions when it returns.

**Hook** (`hook.cc`). `ctx` is the table of `HookCtx` by number, `file`, `kind`, `kernelNb` and `down` the
kernel's open files behind the numbers, `userNb` and `userMs` what the user asked for. `CallBegins`
to `WaitEnds` is `do_hook` around any of the calls that read, write or accept, a step for each
system call; how the wait itself ends is SockIo's business. The calls of one step (`close`,
`dup`, `fcntl`, ...) are made by anybody, a coroutine or a thread. `Odd` allows uses of a descriptor
that the hooks do not follow, one by one (see below).

**TcpServer** (`tcp::Server`): the accept loop, the references `_count`, `exit` and `stop`. `exit` holds no
reference: once the server has deleted itself, what it reads of it is any value. **Rpc** adds
what a connection does (`on_connection`: header, length, body, reply, idle connections), the
client's `call` and `close`, and the two streams between them, in pieces small enough that a
time-out can fall into the middle of a message. **Http** is `on_connection` of `so/http.cc`: `net` are the
bytes on their way, `buf` and `rest` the two buffers, `spot` where the code is; each `recv` takes
any number of the bytes that are there. What is within a line counts as one byte, line ends as two.

**JsonTree** (`Json`, `xx::Array`): `root` is what the variables of a program point to, headers with the
capacity of their block; `live` counts the blocks in use; `val` is what the calls should have made, computed on values
that know nothing of pointers. A call takes its arguments from variables or from their elements, and
leaves null there as the code does. **JsonParser** (`Parser::parse`): `stack` and `ustack` are the
parser's two stacks, `label` the label the code is at, and a text is a sequence of tokens; the
meaning of a text is a recursive definition of the grammar of what the code takes: a comma may follow the last
element, and a key is anything from a quote to the next (`KeyToken`), since `parse_key` does not look at escapes. So
`{"\x":1}` is taken, and `{"a\"b":1}`, whose key ends at the backslash, is not; a string that
is a value ends at the first quote that is not escaped.
**JsonText** (`parse_string`, `parse_unicode`, `parse_key`, `parse_number`, the escapes `_json2str` writes): positions in the text
as in the code, against a reading from left to right; integers have `Width` bits, and the
limits they are compared with have as many digits as fit that width. A number of floating point is just that, unless
it is too large for a double, which is one of 10^`MaxExp` or more: those the code refuses (`Overflows`).

**Logger** (`class Logger`): `push` of level and topic logs, the logging thread, `stop`, the fatal log; a
buffer is a sequence of log numbers, so that order and loss can be told. **LogFile** (`class
LogFile`): the current file, rotation by size and by day, the list of old files in memory
and in `xx_old.log`; the process may end between any two changes of the disk (`Restart`).

**Tasked** (`TaskedImpl`): the two lists, the loop's `ms` and `sec`, `stop` by several threads; a clock of
ticks, so that rounds shorter than a second occur.

External to `src/`, and modelled by how the code uses them: `epoll_wait` on an edge-triggered
descriptor and `epoll_ctl`, sockets, `std::condition_variable` (spurious wake-ups, a timeout that comes with a
notification) and `malloc` (any free address).

## 3. Runs

Every passing run visits all reachable states of its instance, chosen small but so that
every branch of the code and every pair of racing steps occurs. The longest takes about
three minutes with two workers.

| run | instance | shows |
|---|---|---|
| `mutex` | 2 coroutines on 2 schedulers, 2 threads, spurious wake-ups, blocks of 2 entries | one owner and no lost lock, one place per waiter, the blocks are a queue, refinement of HandoffLock; a waiter gets the lock |
| `loop` | tasks: 2 adders, 2 stoppers, the running coroutine, 3 tasks, spurious wake-ups; sockets: 2 coroutines on one scheduler or on two, 1 descriptor, `recv` and `poll` with a timeout, `connect` and `accept` without, threads that close and shut down, refusals of `epoll_ctl` | no lost wake-up; the first `stop` returns, early only by a spurious wake-up, batches end, refinement of Mailbox with its liveness; an event reaches the coroutine that waits for it, nobody else is resumed, waits end |
| `scheduler` | stacks: 4 coroutines on 2 stacks, 3 buffers, `MaxBufs` = 1; pool: `N` = 3, `MaxLive` = 7, `MaxBlock` = 6; timers: 2 coroutines, delays 0 and 2, clock to 4; hooks: 2 coroutines, 1 thread, 2 numbers, 2 open files; objects: 2 schedulers, 2 coroutines, 1 thread, 2 objects, `MaxCap` = 1, cleared by a coroutine or the thread | frames are found as left and no buffer is shared; indices are handed out once, no block freed early or lost; the hint is never dangling, no timer fires early, the loop does not sleep past a deadline; no coroutine blocks its scheduler in a call, and calls wait as their user asked; schedulers outlive whoever uses them unless a wait of `stop` ends by itself, the first coroutines are spread evenly; an object is in one place and destroyed once, `clear` leaves nothing behind |
| `event` | untimed: 2 coroutines, 2 threads, both kinds of event; timed: c1 and t1 with a timeout, t2 without, manual reset, spurious wake-ups; group: 2 workers in a batch, 2 waiters in turn | one of signal and timer resumes a coroutine; no `waitx_t` used after its release; no signal lost, no waiter forgotten; waits return, that of a group not early |
| `chan` | ring: capacity 2 with 1 coroutine and 2 threads, each reads, writes and closes, capacity 0 with 1 reader and 1 writer; list: capacity 2 and none; 3 elements; with and without timeouts, spurious wake-ups | delivery once and in order, no needless wait, one wake-up each, heap; calls return |
| `services` | rpc: 2 connections, 1 caller of `exit`, 2 calls, reads that time out after any piece, `MaxIdle` = 1; http: 2 requests of 16 forms, `MaxBody` = 4, their bytes cut anywhere; tree: 2 variables, 2 keys, blocks of 2 entries, 3 elements, 5 blocks in use; parser: texts of 8 tokens; scalars: strings and keys of 5 characters, all pairs of `\\u` at the limits of the ranges, numbers of 5 characters, integers of 4 bits, doubles below 1000 | the server outlives its connections, a call returns its own answer, a server told to exit goes away; requests are handled as they were sent; values are what the calls made them and leak nothing; a text is taken if and only if the grammar has it (with keys as the code cuts them), and for what it says; strings and numbers mean what they say, and a number is refused only if it is none or too large |
| `logger` | logger: 2 threads, 2 buffers of 2 logs, 2 logs each, stop and fatal logs; file: 2 chunks a file, 2 files, days of 3, 5 chunks, restarts; tasked: 2 tasks, 2 stoppers, delays 0 to 2, 2 ticks a second | logs in order, all written once stopped, none lost in a rotation or a restart; no task more than a second late; every `stop` returns |
| `pool_third_block`, `event_stale_waitx`, `chan_unbuffered_many`, `tasked_early`, `hook_connect` | see below | the code disagrees with its documentation |

Why the bounds are enough. *Mutex*: every kind of waker and woken occurs (a coroutine that
unlocks must yield before another of its scheduler runs; somebody on another thread), the second
thread makes `notify_one` ambiguous; blocks of two have a first and a last entry, and
four waiters need more than one block (13 entries in the code); the exclusion properties are
proved for any number. *SchedLoop*: two adders race for the flag, the
third signaler is the running coroutine; the queues hold several tasks, and nothing in the
code looks beyond the head. *SharedStack*: three coroutines on one stack make chains of
evictions, the fourth feeds the same buffer list from another stack (three of them can be evicted at a
time); `MaxBufs` = 1 exercises
both the full and the empty list (128 in the code). *CoroutinePool*: 2N + 1 coroutines is
the most for which the properties hold, whatever N: with one more, a third block is needed
(`pool_third_block`); N = 3 has a first, a middle and a last offset. *TimerManager*: two timers
are before, behind or at the same time as each other, and the hint points to either; the clock goes on
for two whole delays. *Event*: three waiters make a
list with a head, a middle and a last entry; `Waitx` has an address for each concurrent
waiter and those left by timeouts. `MaxWt` bounds `_wt`, which spurious wake-ups could raise for
ever. *Channels*: the buffer of two blocks is
full with a writer waiting behind it, both positions go around the ring, and timed-out waiters
lie before and behind live ones; as many addresses as callers suffice, and a call that finds no
free address is merely delayed. *WaitGroup*: several workers so that
the last one is not the first, `MaxWaits` = 1 waiter per round. *SockIo*: all races are about
one descriptor, its two directions, and one coroutine that leaves while the other comes.
`send` is the loop of `recv` in the other direction. *Hook*: two numbers are copies of each other or of a
number that changes hands, two files the old and the new one behind a number. *Http*: the second
request may come with the first; bodies contain line ends, empty lines and halves of them, two are
too long, chunks end where a read ends.
*Rpc*: one connection in use and one idle when the server is told to exit, and a second call after
one that failed. *SchedManager and ObjectPool*: with two schedulers one is deleted before the
other and `go` wraps around; objects are pushed, popped and kept back on both while both are walked over.
*JsonTree*: blocks of two entries grow with the third element, two members make an object grow; five blocks allow
an array in an object. *JsonParser*: eight tokens nest three deep and fail at each label, with and without elements
at each level. *JsonText*: an escaped quote before, between and behind others; the largest and the smallest integer and their neighbours have
as many characters as the limits; with five characters a number reaches 1000 by its digits or by its exponent, and stays
below it with zeros in front, behind the point or a negative exponent. *Logger*: buffers overflow with the third log, and a thread logs while
the other stops the logger. *LogFile*: `EndOfTime` and `Chunks` allow three files, one more than
is kept. *Tasked*: `Horizon` leaves three rounds; a task is repeated at least twice.

Deadlock is checked for Mutex and CoroutinePool, where somebody can always
move. It is off where the program may rightly stop: a stopped scheduler, waiters whom
nobody signals (Event), a channel when nobody reads or writes any more, a server that has gone,
a clock at its bound. Symmetry is used in `scheduler` only, whose properties are invariants and
whose instance treats the buffers and the coroutines of a stack alike.

Each property of a passing run has a slip listed in `PROJECT.json` under `mutants` that makes
the same run fail.

### Where the code and its documentation disagree

Five runs end in a counterexample; each checks one statement of the documentation.

- `pool_third_block` (`sched.h` 174): when a scheduler has filled more than two blocks of
  coroutines and the pool has gone back to a smaller block, `pop` may continue with a block
  that is in use and hand out a live coroutine. It takes at least 2 x 4096 + 2 coroutines.
- `event_stale_waitx` (`co.cc` 256): a `waitx_t` left by a timed-out coroutine is reused without
  setting its `co`; the signal goes to the former coroutine, the waiter sleeps on.
- `chan_unbuffered_many` (`co.cc` 568, 685): on an unbuffered channel nothing tells waiting readers
  from waiting writers; a second reader is "served" by the first.
- `tasked_early` (`tasked.cc` 93): `sec` keeps its value when a round took less than a second, which
  each `run_in(f, 0)` can cause; the counts of all tasks are then lowered by the same seconds again.

- `hook_connect` (`hook.cc` 495): the hook of `connect` makes the socket blocking again when it is
  done, but leaves the mark by which later calls take it for non-blocking.

The same models show more, which no run of this directory repeats; each takes one change:

- `FirstStopWaits` fails without its exception (`co.cc` 373): `Sched::stop` takes any return of `_cv.wait` for the signal
  of its loop. A spurious wake-up ends it while the loop goes on, although it is to "stop the scheduler thread" (`sched.h`
  404), and `SchedManager::stop` then deletes a scheduler that runs (`sched.cc` 388). Nothing else ends it early, nor
  has a scheduler deleted under those who use it: that is what `FirstStopWaits` and `SchedulersOutlive` say.
- `KeysRead` fails for keys with a quote (`json.cc` 739, 157): keys are written and read without escapes, so that an
  object with such a key is written as a text that is refused or says something else, while `json.h` 505 calls parsing
  "inverse to stringify".
- `TrueOnlyIfSignaled` fails with `SpuriousWakeups = TRUE` (`co.cc` 289), as `stop` does: a thread without a timeout
  waits without a predicate, so a spurious wake-up ends `wait()` as if the event had been
  signaled, and leaves `_wt` too high by one. The timed part of `event` allows spurious wake-ups and is
  exempt from this property.
- `ChanCallsReturn` without its `cap > 0` fails (`co.cc` 786): `_full` is set for good on an unbuffered
  channel (`co.cc` 435), which therefore never counts as empty, and `close` wakes none of its readers.
- `WaitsReturn` fails with `MaxWaits = 2` (`co.cc` 1477): the event behind a wait group is auto-reset,
  and if the signal comes first only one of two waiters returns, while `wait_group.h` 30 says
  "blocks until the counter becomes 0".
- `WaitCoversAll` fails if `Batches` has single workers (`co.cc` 1473), which is how `src/test/co/chan1.cc`
  80 adds them: the counter passing through 0 in between lets a later `wait` return at once.
- `ThreadsReturn` fails with `Early = TRUE`: `log.h` 131 says "A fatal log will terminate the program.", but
  the thread that logs fatally in a static initialiser, before `g_init_done` is set (`log.cc` 661),
  waits for ever.
- `EventsReachWaiters` fails with `Alone = FALSE`: `add_ev_read` takes any registration of the number for
  the caller's (`epoll.cc` 35), so that a coroutine whose descriptor was closed by somebody else
  and opened anew is never resumed.
- `CallsAsAsked` fails with any member of `OddUses` in `Odd`: the table is by number, and a mode that is
  changed through a copy of a descriptor (`hook.cc` 276) or a number that `co::close` has
  closed (`sock.cc` 48) is not followed; `shutdown` clears what is known of a socket that can still
  be used, or was never connected (`hook.cc` 440-462).
- `exit` of a tcp server goes on reading `_status` of an object that may have deleted itself
  (`tcp.cc` 237-254); in the model the read returns anything. And an `exit` that comes before `listen` has
  its connection refused, after which `accept` waits for ever: `ExitEnds` starts from a listening server.

- `ObjectsSafe` fails with `Yields = {TRUE}` (`co.cc` 1340): `pool.h` 14 says "It is designed to be coroutine-safe, users
  do not need to lock it", but if the callback that destroys objects yields, another coroutine of the
  scheduler may pop an object that has been destroyed, and what it pushes meanwhile is dropped by `v.clear()`.
- `TreeSound` fails with `DupEmptied = TRUE` (`json.cc` 982, 992): the copy of an array or object that was emptied gets a block
  for 0 elements, the next `push_back` doubles it to 0 and writes behind it.
- `AsAsked` of JsonTree leaves arrays without a block (`json::array()`, `parse("[]")`) out when it reads by index: `get(i)`
  (`json.cc` 849) and `set(i, v)` (`json.cc` 915) read the size through a null pointer, while `json.h` 269
  says of an index that is not valid "the return value is a reference to a null object".

Read in the code and not in any model: a log written by a `write_cb` while `stop` holds the mutex
waits for itself (`log.cc` 515-525); two files opened in the same millisecond get the same
name; `log_max_file_num` 0 never rotates; `accept` polls without a pause while `epoll_ctl` refuses;
a task that calls `stop` of its own task scheduler waits for itself; `x = x["a"]` and `x.push_back(x)` of a Json
free what they are about to read; a wait of 2^31 ms and more becomes a negative timeout of `epoll_wait`, which means for ever
(`sched.cc` 173).

## 4. Fairness

Liveness is checked under fairness that the code's scheduling gives:

- *threads* (users, `Adder`, `Stopper`): weak fairness on the steps they have begun, never
  on beginning one. Nobody has to lock, wait, signal, add a task or stop.
- *the scheduler loop*: weak fairness on its own steps. `WaitPipe` has strong fairness:
  while an edge is pending, epoll reports it even if other descriptors keep becoming
  ready, since the kernel rotates its ready list. `WaitOther` (an event or a timeout of
  `epoll_wait`) is not fair.
- *coroutines*: a coroutine that runs yields in the end (`Park`, `Leave`, weak or strong
  fairness): that is the contract of cooperative scheduling. Without it no coroutine of
  the same scheduler makes progress, in the code as in the models.
- *scheduler steps in Mutex and Event* (`Resume`, `Unpark`, `SchedStep`, `CheckTimeout`):
  strong fairness, because the step is disabled whenever another coroutine of the same
  scheduler runs. It is justified by the run `loop`: a batch ends (`LoopGoesOn`), so the loop
  comes round to every ready coroutine and every timer.
- *unlock* in Mutex has strong fairness: the critical section ends. Nothing is assumed of
  spurious wake-ups, of the thread `notify_one` picks, or of the value of `r`.
- *channels*: weak fairness of whatever a call has begun (`Proceed`, `Close`) and, with a
  timeout, of its deadline (`Expire`). Each coroutine has a scheduler to itself there, which
  the run `loop` shows to come round to it. Nobody has to read, write or close. A thread that is
  woken for nothing waits anew for the whole timeout (`co.cc` 640), so that a thread woken
  spuriously for ever would never return: spurious wake-ups are assumed to end at some time.
- *wait group*: as Event; besides, a worker that was added calls `done` in the end (strong
  fairness, since it may share its scheduler), without which `wait` has nothing to wait for.
- *sockets*: weak fairness of a call under way, strong fairness of its `Wait` and of the
  coroutine's `Leave` (another coroutine of its scheduler may run in between), of each step of the loop, and of a timer that
  is set being due. Nothing is assumed of peers: a call without a timeout ends only if its condition comes about.
- *tcp server and rpc*: weak fairness of the server's, each connection's and the client's steps
  once they can be taken; a read on an idle connection times out in the end (`recv` has a
  timeout). Nobody has to connect, to call or to exit.
- *logger and tasked*: weak fairness of the library's threads and of what a caller has begun;
  waits for an event end after their timeout. Nobody has to log, to add a task or to stop.

## 5. Proofs

Eight modules hold theorems about every instance: any sets of coroutines, threads, tasks,
stacks, buffers, elements, descriptors, connections, workers, and any delays and bounds. What is assumed of the
constants is in the `ASSUME`s of the modules, which TLC evaluates in every run: names of different kinds differ,
each coroutine has a scheduler or a stack, numbers are natural, a block of the pool or of the queue of a mutex has an index, at least one log file
is kept, only the last chunk of an http request is empty, and sets that the code counts (`Conn`,
`Worker`, the `Thread`s of an event) are finite. Where a theorem assumes more, it is a hypothesis of
the theorem, listed below; each of them is the instance of the run, and what happens without it is in
section 3. None of the properties is inductive by itself: each proof goes by an invariant that holds
initially, is preserved by each action and implies the property.

- **MutexProofs**: `TypeCorrect`, `Exclusion` (`MutualExclusion`), `NeverLost` (`LockedHasOwner`),
  `OnePlace` (`WaiterInOnePlace`), the first two as `OwnedByOne` (`OneOwner`), and `Implements` (`HandsOff`),
  the refinement of HandoffLock. `IInv` is `TypeOK`, `TokenInv` and `WaitInv`. The lock is a token:
  the one who is *active* (in the critical section, or past `unlock` with a coroutine still to
  make ready) has it, or one scheduler's inbox holds the coroutine it was passed to
  (`TokenInv`). A waiting coroutine is in the queue once, or is the target of an unlock, or in
  its inbox (`WaitInv`). Exclusion needs the token, because between `_m.unlock()` and
  `add_ready_task` the owner is in neither `_lock` nor `_wq`. For the refinement each action is
  mapped to a step of the abstract lock or to a stutter; that a lock is never freed while
  somebody is in line needs `LineEmptyIfFree`. `QueueStaysInOrder` (`QueueInOrder`), for blocks of any size: the rests
  of the blocks, one behind the other, are the queue (`QueueInv`), and only a block that is alone may have
  nothing left (`BlocksOK`), so that `pop_front` finds what was pushed first.
- **SchedLoopProofs**, the loop: `TypeCorrect`, `WakeupNotLost`, `FlagNotStuck`, `OneByte`, `StopIsFinal`, and
  `ImplementsMailbox`, the safety part of the refinement. `WakeInv` relates the flag, the byte,
  the edge and the positions of all signalers and of the loop; `StopInv` and `BatchInv` tie
  `_stopped`, `_ev` and the batches to the loop's position: `_ev` is set only by a loop that has ended, and who left
  the wait without it is still counted in `_wt`. The refinement needs only that
  every step appends to or removes from the head of the rows `batch \o queue`.
- **SchedLoopProofs**, the sockets: `EventsReach` (`EventsReachWaiters`) and `ResumesWaiting`
  (`ResumedOnlyWaiting`), if `Alone = TRUE`: nobody closes or shuts down a descriptor, or begins a call on a
  direction of it, while others use it. In `SockInv`, `Apart` makes a registration one's own, so that
  `AddedIsRegistered` and `RegistrationLive` follow whoever else comes and goes; `NotMissed` extends
  "the event is not lost" to the time between a `recv` that would block and the next `wait`, and
  `Broken` makes the event mask of a descriptor in error find its waiter.
- **SchedulerProofs**, the stacks: `StacksTyped`, `OwnFrames`, `FramesSafe`, `OneUserPerBuffer`, `NoDeadOwner`, and
  three of them as `FramesKept` (`FramesIntact`). Here the properties form the invariant together, with
  two facts added: the owner of a stack has been started, the running coroutine is live;
  `FreshIsFirst` rides along for the coroutines that have not started.
- **SchedulerProofs**, the pool of coroutines: `PoolStaysSound` (`PoolSound`) for any block size, if at most
  `2 * N + 1` coroutines are alive at a time. `CountsExact` says of each block how many of its indices are out, `FreeOnce` that the list kept of a
  block has each free index once. Then a full pool has all its indices out (`BlocksFull`), so that no more than three
  blocks are ever used (`WithinThree`); without the bound the run `pool_third_block` hands out
  an index in use.
- **SchedulerProofs**, timers, manager and hooks: `TimersStay` (`TimersKept`): the map is in order of time (`InOrderOfTime`), so that the hint
  finds its place and the loop its deadline; `ClaimedOnce` says for each position of a coroutine who may
  claim its `waitx_t`, `DueOnce` that `check_timeout` collects it once. `ManagerOutlives` (`SchedulersOutlive`):
  calls to a scheduler are made by what runs in its own loop or before `stop` (`RunsInLoop`, `NoCallsAtStop`), a scheduler
  is deleted when its loop has ended or its wait came back early (`EndedBeforeDeleted`), and numbers of coroutines are given once,
  which spreads the first of them. `CallsStayAsAsked` (`CallsAsAsked`), if `Odd = {}`: `ContextsRight` relates the table
  of `HookCtx` to the kernel's files and to what the user asked for. The mark implies non-blocking in the kernel only for
  sockets that can still be used, and while a `connect` has the socket blocking or not, it is alone with it (`ConnectsAlone`).
- **ObjectProofs**: `ObjectsStay` (`ObjectsSafe`), if `Yields = {FALSE}`: the callback that destroys an object does
  not yield, and up to where a scheduler is deleted that still runs (`Defined`). Then a walk over a stack has the scheduler for itself (`WalksUndisturbed`), each object is in
  one slot or one hand (`Placed`), a wait group counts the walks to come (`GroupCounts`), and what was
  there when `clear` began is in front of a walk that has not ended (`LeftBehind`).
- **EventProofs**: `ResumedOnce` (`ResumedAndFreedOnce`), `SleepersWake` (`WakeupsSignaled`), `SignalsAnswered`
  (`NoSignalLost`). A `waitx_t` that waits or has timed out is in one list once: `_wc`, or that of a `signal` under way
  (`InOneList`), and belongs to the one coroutine that refers to it (`Owned`, `Owning`), which is
  ready if and only if its `waitx_t` is, never both by signal and by timeout (`ReadyOnce`). `_wt` is
  at least the number of threads that wait (`AllCounted`), which is why a signal is not dropped.
  `WaitsForAll` (`WaitCoversAll`), if `Batches \subseteq {Worker}` (the workers of a round are added at once): as long as
  one of them is still to finish, or the last to signal, nothing of an earlier round can wake anybody (`SignaledAtEnd`).
  These are about `MCSpec`, whose parts say who uses timeouts; with timeouts for several coroutines a
  sleeper may be forgotten, see `event_stale_waitx`.
- **PipeProofs**: `WaitersStayServed` (`WaitersServed`) and `WaitsStayNeeded` (`WaitsNeeded`) of both channels, and
  `NothingIsLost` (`NothingLost`) and `FirstInIsFirstOut` (`FirstInFirstOut`), if a channel without a buffer has one reader and one writer (`OneEach`; what
  happens otherwise is in `chan_unbuffered_many`). `CallsInv` is what PipeWaiters keeps for either channel: a `waitx`
  that waits or is ready belongs to the one call that refers to it (`Belongs`), is in the queue once until
  somebody serves it (`QueuedOnce`), and who was served is told once (`ToldOnce`). Each action is then read
  as one of a few changes to those that wait (`Serve`, `Begins`, `Ends`, `Told`, `Quiet`), so that the rest is
  shown for each change once. `WaitsRing` and `WaitsList` say who may wait: `_rx = _wx` with `_full` tells right
  (`RingOK`), and a buffer is filled or emptied only after the queue was looked through. `ElemsInv` makes
  each element held by one `waitx` at most, in the buffer or outside; `Occupied` are the blocks of the ring
  between the positions, which `Contents` lists in order. For `FirstInFirstOut`, the refinement of Channel by both, each
  action is read as one move of the line (`Moves`). `Round` says which block is the i-th of a ring, so that what is in the buffer
  grows at its end and shrinks at its front (`ContentsPut`, `ContentsTake`, `ContentsTurn`); the places of the writers in the queue can be counted up in one
  way only (`CountedOnce`), so that one more writer comes last, the one served was first, and one that
  gives up leaves the others in their order (`BehindMore`, `BehindServed`, `BehindGone`). That a writer waits only while the buffer is full
  (`WaitsNeeded`) makes it stand behind what the channel may hold.
- **RpcProofs**: `Outlives` (`ServerOutlives`) for any server, `ServesRpc`, that Rpc refines it, hence
  `RpcOutlives`; `NoneAfterExit` (`NoneAccepted`): once `exit` has returned no connection is served any more. The count is the
  loop's reference and one for each connection served (`Counted`), the last one deletes (`DeletedByLast`); and the connection
  `exit` makes to itself is accepted only when the status is set (`StopIsOrdered`). `AnswersOwn` (`AnswersOwnCall`):
  `RpcInv` says for each stage of a call what is in the two streams: pieces of this call only, the body behind the header,
  nothing of a call that failed (`OneCallAtATime`).
- **RpcProofs**, http: `RequestsStayAsSent` (`RequestsAsSent`) for requests of any length, in any number of chunks, and cut
  anywhere. `HttpInv` says for each place of `on_connection` what the bytes read and those on their way are together: what the
  client sent, from the request that is read on (`AtHead`, `AtBody`), from a line of a chunk or the end of the line before
  (`AtChunk`), within a chunk (`AtData`), behind the last one (`AtTrailer`, `AtHandle`); and what has been read of a body is
  its beginning. Where the line or the head ends then follows from what is sent, however much of it is there (`FindInLine`,
  `FindInHead`), so that each step takes a whole part of it, and who waits for more has not got it yet (`NoIdleWait`).
- **LibraryProofs**: `AllWrittenWhenStopped` (`StoppedAllWritten`): `_stop` moves with one starter, the writer and
  one stopper (`StarterIsUnique`, `StopperIsUnique`, `WriterFollows`). `NoneOverdue` (`TasksInTime`): the count of a task reaches 0
  no later than it is due (`CountsDown`), although the loop counts seconds and rounds are shorter; what the
  early ones lose is in `tasked_early`. `LogFilesKept` (`FilesKept`), for any sizes and restarts: the list that counts is
  `_old_paths` between the two steps in which it is written to `xx_old.log`, and `xx_old.log` otherwise (`ListsAgree`); the files
  that were rotated are in it (`FilesListed`), and the name the next rotation will use is free (`NameIsFree`).
  `LogsStayInOrder` (`LogsInOrder`): no log is twice in a buffer or in two of them, and the next one is new (`StoredOnce`, `OneBufferEach`,
  `Numbered`), so that what a full buffer drops is dropped from the order of what was accepted, too.

The provers have no induction over data, whose theorems take an operator as a parameter. What is
needed of sequences of any length (`Joined` of Http, `FlattenSeq` of the blocks, `Without` of Logger) is shown
by the least number for which it would fail: the sets `0..n` are finite, the library's theorem about
finite sets says that they are well-founded under inclusion, and `WFMin` is about a set, not an operator (`LeastNumber`,
`Induction`).

What stays with TLC: all liveness properties, which are out of the prover's reach, and the
liveness part of `EveryTaskResumed`; `TextRead`, `ScalarsRead` and `TreeSound` of json, whose values are
trees of any depth and defined by `RECURSIVE` operators, which the prover cannot expand. Every other invariant and action property that a run checks is
stated by a theorem.

## 6. What is not modelled

Data and formatting (flags, strings, http texts, hashes; of json what is printed prettily, the values of floating point and conversions), the context switch itself,
other platforms (the models follow the Linux build), vendored code. They have no shared state
of their own, or none that TLC could tell more about than a unit test. Of the hooks: the loops
of `select`, `epoll_wait` and `poll` of several descriptors, which ask the kernel every few
milliseconds, the sleeps, the calls that resolve names under a mutex, timeouts cut at 65535 ms
(`hook.cc` 51). Of http: parsing within a line, limits on the head, 100 Continue, the client.

Concurrent code that is left: the handler of a fatal signal (`log.cc` 933), which takes buffers
whose mutex the interrupted thread may hold; SSL beyond a handshake that fails.

Memory order is sequentially consistent in the models: `waitx_t::state` is read and
written only by compare-and-swap or by the one who owns it, and everything else is
accessed under a lock; `_stopped` and `_signaled` are atomics with the default order.
Running out of memory is not modelled.

## 7. Plan

Done in this order: Mutex, SchedLoop, SharedStack, CoroutinePool, Event, the channels,
WaitGroup (the core of `src/co` that every user of the library goes through), then TimerManager,
MutexQueue, SockIo, TcpServer and Rpc, Logger and LogFile, Tasked, Hook, Http, then SchedManager,
ObjectPool and json.

Next, to model: LruMap, rpc over http, flags.

Next, to prove: json, if its values are made the nodes of one table, as in the block of memory the code
keeps, instead of trees.
