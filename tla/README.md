# faio: models, checks and proofs

faio is a header-only C++23 coroutine runtime on io_uring: worker threads with
work-stealing queues, timing wheels, coroutine synchronisation primitives,
TCP/UDP, and HTTP/1.1 and HTTP/2 on top. This directory holds TLA+ models of it,
the TLC configurations that check them, and TLAPS proofs. `PROJECT.json` maps
every definition to the lines it models and lists runs, mutants, findings,
hazards and theorems.

    tlc -workers 2 -config MCLocalQueue.cfg MCLocalQueue     # one run
    tlapm Sync_proofs.tla                                    # one of the *_proofs

Paths below are relative to `src/include/faio/detail/`.

## 1. Inventory

| Component | State | Operations | Talks to | What is hard | What makes it correct |
|---|---|---|---|---|---|
| `runtime/core/queue.hpp` LocalQueue, GlobalQueue | packed head (steal, local), tail, array; a locked deque and a closed flag | push_back, push_back_batch, try_pop, be_stolen_by, handle_overflow; push_back(_batch), try_pop(_batch), close | workers call them; overflow and refill connect the two | lock-free, one producer, many consumers; 32-bit indices wrap; a thief copies outside of any lock | a task is in one place and runs once; no slot is overwritten while somebody may read it |
| `runtime/core/worker.hpp` Worker | queue, one-slot task cache, tick, is_searching, is_shutdown | run: tick, periodic, get_next_task, task_steal, drive_io, sleep | StateMachine, Shared, IOEngine | sleeping while work arrives; stealing; starvation; shutdown | no lost wakeup, global queue served, every worker leaves after close |
| `runtime/core/state_machine.hpp` | working, searching, sleepers | worker_to_notify, set/cancel_sleeping, set/cancel_searching, contains | workers | counters and list change in different steps | counters agree with the workers |
| `runtime/core/shared.hpp`, `poller.hpp` | global queue, worker table, latches, threads | push to global queue, wake_up_one/all/if_work_pending, close, join | workers, user threads | close races workers about to wait; object lifetimes | the destructor returns |
| `runtime/core/io_engine.hpp`, `io/uring/*` | ring, waker (eventfd, flag), timer, submission tick | drive, wait_and_drive, wake_up, start_watch, submit, reset_and_submit | kernel, workers | a completion is seen later than what it reports; entries wait for a submission | a wakeup ends the wait; nothing is held back while the worker waits |
| `runtime/core/timer/*` | six levels of wheels, start, count | add_task, remove_task, poll, next_deadline_ms | IOEngine, sleep, timeout | level changes, turning, removal by a recomputed slot | none lost, none early, none late |
| `coroutine/task.hpp`, `runtime/context.hpp` | promise, caller, tracker, result slots | co_await, final_suspend, spawn, block_on, wait_all | workers | the tracker lives on the caller's stack; thread-local tracker | block_on returns after the last subtask, once |
| `sync/mutex.hpp` | atomic list head, FIFO list | lock, try_lock, unlock | workers' local queues | lock-free lists, handover | exclusion, FIFO, nobody forgotten |
| `sync/condition_variable.hpp` | atomic list head | wait, notify_one, notify_all | mutex | pop from a lock-free list, wait/notify race | no lost notification |
| `sync/channel/*` | ring buffer, waiting senders and receivers, handle counts | send, recv, copy and close of handles, destroy | mutex | handover versus buffer, close without the mutex | each value once, nobody waits in vain, the end only after the last value |
| `time/*`, `io/base/io_registrant.hpp`, `io/awaiter/*` | operation, timer task, result; an interval's deadline | submit, complete, time out; tick, reset | timer, ring | a timeout races the completion; missed ticks | one completion, one resume; ticks on the grid |
| `net/*` | file descriptors | connect, accept, read, write_all, write_v | io | short writes, cut reads | all bytes or an error |
| `http/http_server.hpp` | routes, middlewares, handlers; listener | use, on_error, fallback, handle, dispatch; bind, run, detect_protocol | sessions, net | priorities of routes; the preface in pieces; exceptions | the documented route wins; each byte reaches the session once |
| `http/v1/*` | parser, aggregate, queue of parsed messages | run, callbacks, write_response; request | llhttp, net | pipelining, messages cut anywhere, keep-alive | requests whole and in order, responses in theirs |
| `http/v2/*` | nghttp2 session, slots of streams, queue of whole requests | initialize, run, callbacks, submit_response, send_data; request | nghttp2, net | interleaved streams, resets, flow control | a stream carries its own request and response |
| `http/http_stream.hpp`, `http/types.hpp` | a client session; requests and responses | connect, request, close | sessions | Auto's fallback | an answer or an error |

Left out altogether: the fastlog library, llhttp and nghttp2 (external: what the
sessions need of them is modelled), benchmarks, examples, scripts.

## 2. Modules

| Module | Models | Abstraction |
|---|---|---|
| `LocalQueue` | `queue.hpp`, and the refill of `Worker::get_next_task` | One action per atomic access. Index variables hold unwrapped counts; every comparison and difference of the code goes through `Diff`, `SameIndex` or `SameHead`, which see them modulo `Modulus` (2^32). |
| `TaskPool` | what the queues promise together | A task is new, ready, done, or dropped by a push after close. |
| `Scheduler` | `worker.hpp`, `state_machine.hpp`, `shared.hpp`, `poller.hpp`, `IOEngine::drive` | The queues are atomic here. One step is a critical section of `StateMachine::_mutex`, an atomic counter, an access to a queue, or a wakeup. |
| `Mutex` | `mutex.hpp` | A list is the sequence of its nodes; a compare-exchange sees its head. |
| `FifoLock` | what the mutex promises | An owner and a queue. |
| `LockClients` | coroutines with Awaiters of a Mutex | A coroutine that has unlocked may be in a new `lock()` before `unlock()` is over: each has two Awaiters ("parties"). |
| `CondVar` | `condition_variable.hpp`, over `LockClients` | The list is `head` and `next`, node by node. |
| `Channel`, `RingBuffer` | `sync/channel/*`, over `LockClients` | A critical section is one or two steps; destroy, without the mutex, two of its own. |
| `Sync` | composes CondVar and Channel over one Mutex | `Roles` are what the coroutines may begin as. |
| `BlockOn` | `coroutine/task.hpp`, `spawn`, `block_on`, `wait_all` | Queues are "ready to be taken by any worker"; a wrapper and the task in it are one coroutine. |
| `Waker` | `waker.hpp` | The eventfd is a bounded counter; the kernel completes its read at any time. |
| `WakeSignal` | what the waker promises | A signal set while asleep wakes. |
| `TimerWheel` | `timer.hpp`, `wheel.hpp` | A task's path through the wheels is a position, of which the levels are the digits. Operators on a timer record. |
| `Interval` | `interval.hpp` | Operators on a deadline and a behaviour. |
| `IoEngine` | `io_engine.hpp`, `io_uring.hpp`, `io_registrant.hpp`, `timer/task.hpp`, `sleep.hpp`, `timeout.hpp`; composes Waker, TimerWheel, Interval | One worker's engine; drive is three steps (completions, timer, watch and submission) with the kernel and the clock between them. |
| `Router` | `HttpRouter` | A path is the sequence of the tokens that the code tells apart. |
| `Stream` | `stream_read.hpp`, `stream_write.hpp`, `FileDescriptor` | Two bounded buffers of byte tokens; a read takes any part, a write what there is room for. |
| `HttpTypes`, `Http1`, `Http2` | the sessions and their callbacks | A message is a few bytes or frames; parsing is a fold of the callbacks over them. |
| `HttpServer` | `HttpServer`, `HttpStream`; composes Router, Stream, Http1, Http2 | One connection, with a client of faio or one of another make. |
| `LocalQueue_proofs`, `Scheduler_proofs`, `Sync_proofs`, `BlockOn_proofs`, `IoEngine_proofs` | | Theorems about the module each is named after; `Sync_proofs` begins with those about Mutex. |
| `Http_proofs`, `HttpAnswers_proofs` | | Theorems about HttpServer and the sessions; the second, about what a client gets. |
| `Counting_proofs` | | How often a task occurs in sequences, sets and arrays; induction over the numbers. For `LocalQueue_proofs`, `Scheduler_proofs` and `Http_proofs`. |
| `MCLocalQueue`, `MCScheduler`, `MCSync`, `MCBlockOn`, `MCIo`, `MCHttp` | | The instances TLC checks. |

### LocalQueue

`head[w]`, `tail[w]`, `slots[w]` are `_head`, `_tail`, `_tasks` of worker w's
queue; `global`, `closed` the GlobalQueue. `pc`, `reg`, `num`, `copied`,
`victim`, `hand` are a thread's position and locals. `submitted`, `dropped` and
`runs` are history. push_back is `PushBack`, `PushLoad`, then `PushWrite`, or
`PushGlobal` (a thief is active), or `OverflowCAS`, `OverflowMove`,
`PushGlobal`. try_pop is `TryPop`, `PopCAS`, `PopTake`. The refill is
`FetchSize`, `FetchPop`, `FetchPush`. be_stolen_by is `BeStolenBy`, `StealTail`,
`StealCAS`, `StealCopy` (once per task), `StealCommit`, `StealFinish`. A load of
`_tail` by the owner, its only writer, is merged with the next access. A weak
compare-exchange that fails for no reason only repeats its loop and is left out.

### Scheduler

`pc[w]` is the place of a worker in `run()`; `after[w]` is where it returns from
`drive` or `wake_up_one`. `Submit`, `Close`, `WakeUpAll`, `Join` belong to the
thread that owns the runtime. A call of wake_up_one is two steps, `WorkerToNotify`
(the critical section that takes a worker off the sleepers) and `WakeUp` (its waker
is written), between which the worker may wake by itself and go back to sleep; a
submission's wake_up_all is a step after its push. What a coroutine does between two suspensions is
`Spawn`, `Unpark` (a primitive makes another coroutine ready) and `Suspend`
(it ends, waits for IO or a timer, or waits in a primitive); `IoCompletes` is
the kernel, or a timer that expires. `signal[w]` is "the waker has a wakeup that
`drive` has not consumed", which `Waker` shows to be what the eventfd provides.
The queue lengths a searcher compares in `task_steal` are read in one step.
A push that overflows into a closed queue throws: on the worker's own stack
nothing catches it (`DriveThrows`), in a coroutine the coroutine may.

### Mutex, CondVar, Channel

`Mutex` keeps `_state` as `free` and the list it heads; `State` is the pointer
value that a compare-exchange sees. `unlock()` hands the lock over in one step:
the handle goes into the task cache of the unlocking worker, which nobody can
steal from, so the waiter cannot run before `unlock()` has read its `_next`.

`LockClients` lets a module use the mutex step by step: `BeginLock` and `Leave`
are a coroutine's call of lock and its unlock, whose own steps (`LockSteps`,
`UnlockSteps`) interleave with everybody's. `act[u]` is where coroutine u is in
its own code. In `CondVar` a waiter pushes its Awaiter and unlocks
(`WaitSuspend`), a notifier loads the head, reads its `_next` and exchanges
(`NotifyLoad`, `NotifyRead`, `NotifyPop`), with the mutex or without it. notify_all
takes the list and resumes its nodes in one step: the one it has just pushed is in
the task cache of its own worker, from which nobody steals, until it has read that
node's `_next` and pushes the next. The users share tokens: the predicate is that
there is one. Any number of coroutines notify, as the code has nothing that keeps
them apart. When one takes nodes off between another's load and its compare-exchange
(`Races`), the second may read `_next` of nullptr, or of an Awaiter whose coroutine
has gone on, and store what it read there as the head; `raced` remembers that it may
have come to that, and from then on nothing is claimed of the list. A notifier that
would read nullptr, or resume a coroutine that is not suspended, takes no further
step: the program has no behaviour there. `NotifiersHoldMutex` is the rule of use
under which this never happens. In `Channel` the decision to wait and the entry into
the waiting list are two steps, since `destroy`, which runs without the mutex, may
come in between; `wsend` and `wrecv` hold coroutines, `res` the `_result` of each.

### BlockOn

`current[w]` is the thread_local `current_tracker` of worker w, which stays
whatever coroutine w runs next; `pending`, `ready` and `slot` are a call's
tracker, its signal and its result slots. `tree` (whose task spawned it) and
`joined` (what was counted before the count reached zero) are history. `Await`
passes control to a task and `FinishAwaited` back; `FinishSpawned` runs the
completion callback; `FinishThrowing` ends the process as final_awaiter does.

### IoEngine, TimerWheel, Interval, Waker

`drive()` is `Completions`, `PollTimer`, `WatchAndSubmit`. The first takes `Batch`
completions at most, as peek_batch does; those without user data (of cancels and of the
waker) may stand anywhere among the others. A client's operation
goes from prepared (in the submission queue) to flying, to posted (in the
completion queue), and back to none; its user data is named by the client, so
that a coroutine that awaits in a loop has its next operation's user data where
the last one's was, as its frame has. A cancel, which carries a pointer, finds
whatever operation is there by then. `TimerWheel` keeps what the code computes:
positions are counted from the moment of the call in `add_task` and
`remove_task`, from `start` in `poll`; a root of level 1 or more turns by whole
slots only. `hollow` is the empty child that a level-up leaves in slot 0 and
that `next_deadline_ms` takes for the next event.

### Router, sessions, server

`RegisterRoute` and `Dispatch` follow HttpRouter: exact static route, any-method
static route, then dynamic routes by pattern, middlewares, fallback, error
handler; `fails` is the set of callables that throw, `stops` of middlewares that
answer. `RequestsFindTheirRoute` compares with a reference (`Fits`, `Wanted`) that
knows only the sequence of registrations.

In `Http1` and `Http2` the state of a session is a record; the parser's
callbacks are functions of it, folded over the bytes a read returned. A read may
end anywhere, a write may be short anywhere. The server answers what `Dispatch`
says. A faio client sends its requests one after the other; the raw clients
pipeline them, send malformed bytes, interleave and reset streams, stop in the
preface, or leave. A read that nghttp2 refuses ends either session of HTTP/2, and
so does a client's loop that has nothing to read or write before its response is whole.

## 3. Runs

| Run | Instance | Properties | Result |
|---|---|---|---|
| localqueue | 2 workers, 3 tasks, capacity 2, indices modulo 8 starting at 6 | TypeOK, IndexOrder, ClaimIsExclusive, SlotsNeverClash, Conservation, PoolSpec | pass, 33k states |
| scheduler | 2 workers, 2 tasks that may wait and be stolen | TypeOK, SearchersAreCounted, NoLostWakeup, OnePlace | pass, 2.87M states |
| scheduler_live | 1 worker, 3 tasks, FairSpec | GlobalNotStarved, ShutdownCompletes | pass, 261k states |
| sync | 3 coroutines on a mutex, as plain users, around a condition variable (1 or 2 notifiers), or around a channel | TypeOK, MutualExclusion, WaitersAreListed, SleepersAreChained, NoLostNotify, NobodyWaitsInVain, ExactlyOnce, DrainedBeforeClosed, FifoSpec, WaitersAreServed | pass, 142k states |
| blockon | a block_on and a wait_all of two, 1 spawned task, 2 workers | TypeOK, WaitsForRegistered, SlotsAreFilled, CallsReturn | pass, 210k states |
| io | 2 coroutines, both with operations and timeouts, one that also sleeps and ticks | TypeOK, WatchIsArmed, NothingIsHeldBack, CompletionsAreAwaited, TimersAreKept, EarlyOnlyByLag, IntervalsKeepTheGrid, SignalSpec | pass, 1.83M states |
| http | 3 registrations, 2 routers that serve, 10 clients | HttpTypeOK, RequestsFindTheirRoute, RequestsArriveWhole, ResponsesInOrder, AnswersAreOwn, RequestsReturn | pass, 129k states |
| mutex_try | 3 coroutines, TrySpec | TryLockNeedsFree | violated |
| block_on_early | a block_on, 2 spawned tasks, 2 workers | WaitsForSpawned | violated |
| timer_touches | as io | FinishedIoIsLeftAlone | violated |
| channel_close | as sync, around a channel | ClosingWakesAll | violated |
| http_throws | as http, served by the fast router alone | FailuresAreContained | violated |

### What they show

*Queues and workers.* Whatever the interleaving of push, overflow, pop, refill and
theft, a task is in exactly one place until it is run, and no slot is written
that somebody still has to read; the queues together are the pool that
`TaskPool` describes (PoolSpec, a refinement). That a ready task is run in the end
is not claimed: `get_next_local_task` serves the task cache before the queue, and a
queue of one cannot be stolen from. A push to the global queue or a close is never slept through, wherever it falls in the
protocol of `sleep()`; the searching counter agrees with the workers that search
or were notified; a task of the global queue is taken however long two
coroutines make each other ready; and after close every worker is joined.

*Synchronisation.* The mutex stays a FIFO lock (`FifoLock`) under each of its
users. No notification is lost between a waiter's test and its suspension, no
waiter on the lock-free list of a condition variable is dropped or resumed twice,
whatever is pushed meanwhile and however many notify, as long as no notify takes nodes
off under another; a notifier at a time serves everybody who waits. A channel hands
over each value once, whichever of buffer and waiting senders it comes from,
leaves nobody waiting for what is already there, and reports the end only when
nothing is left. (Who decides to wait while the channel closes may wait for
ever: see the violations.)

*Tasks.* `block_on` and `wait_all` return, with every slot filled, and not before
what their trackers have counted is over.

*IO engine.* A worker waits only with the waker armed and with nothing prepared
that the kernel has not been given; a completion's user data is still awaited;
no rotation or change of level drops a timer; a sleep is early by no more than
the age of the timer's start; ticks stay on the grid. The waker implements
`WakeSignal` in the middle of all that.

*HTTP.* However reads cut the bytes and writes fall short, a session queues each
request once and whole, answers on the connection or stream it came from, in
HTTP/1.1 in order, and faio's client returns exactly that answer, or an error.
The router finds what its documented priorities name.

### The violations

Each is a short TLC trace and a finding in `PROJECT.json`.

- `try_lock` takes a locked mutex: it compares with the value it has just loaded.
- A coroutine that suspends and goes on on another worker spawns under whatever
  tracker that worker has: `block_on` returns before all its children have ended.
- A completion and the end of its timeout fall into one drive: `remove_task` returns
  at once, the deadline being past, and `poll` overwrites the result with -ETIMEDOUT
  and prepares a cancel (timer_touches).
- `destroy` closes a channel without its mutex: a coroutine that found the channel
  open and enters a waiting list after `destroy` has walked over it stays there.
- A handler's exception ends the process when only static routes are registered,
  since the fast path of `dispatch` has no try block.

Met while modelling, and no run of their own:

- `remove_task` looks for a timer task in the slot of the time that is left now,
  which need not be the one that `add_task` chose: it counts the task off and may not
  find it, although docs/定时器.md:394 has it removed. The task expires later, and
  cancels what operation has its user data by then.
- A sleep registered while the timer's start is old ends early by that age
  (`timer.hpp:213`), although `sleep.hpp:25` says that it ends at its deadline;
  EarlyOnlyByLag is what holds.
- A notify that empties a condition variable's list under another: the other's failed
  compare-exchange loads nullptr, and its loop reads `_next` of it
  (`condition_variable.hpp:60`; section 2, CondVar).
- `_working` is not restored by a worker that wakes for a completion or a global
  task, and drifts down (`state_machine.hpp:144`). No wakeup is lost by it within
  the bounds, because `push_back_task_to_global_queue` calls `wake_up_all` too;
  a search that depends on `should_wakeup` comes later, or never once the counter
  has wrapped.
- The comment in `set_searching` that at most half of the workers search does not
  hold, since its test and its increment are two steps. It does no harm:
  SearchersAreCounted says that every searcher is counted down again.
- Completions that overflow a local queue after close make `drive` throw on the
  worker's own stack (`io_engine.hpp:57`): ShutdownCompletes admits "terminated"
  beside the join.
- The remainder of a turn of a root of level 1 or more is forgotten
  (`timer.hpp:380`), so that timers of 64 ms and more may be late. Nothing
  promises that they are not.

### Bounds, and why they are enough

- LocalQueue: capacity 2 is the smallest queue that can be halved, and three
  tasks fill it and overflow. Starting at 6 modulo 8 makes every index wrap.
  `Window` bounds how far an index advances: more than the tasks can drive it
  here, and less than `Modulus`. Two thieves at one queue are beyond this
  instance; its safety properties are proved for any
  number of workers (section 4).
- Scheduler: `Waiters` are the coroutines that may wait. `Period` is a common
  multiple of the two intervals (61 in the code), since `_tick` matters only
  modulo them; `scheduler` drives IO and looks at the global queue on every tick,
  `scheduler_live` on every second. `WordSize` 3 makes the drift of `_working` wrap.
- Sync: three coroutines are the least that make a list of two behind a holder,
  a notifier behind two waiters, and two senders behind a buffer of one. `Init`
  chooses how they use the mutex; `MaxTokens` 2 bounds how often the notifier
  signals, `MaxSends` 1 the values of a sender. Two notifiers share
  one waiter here, two waiters one notifier; the proofs speak of any number of both.
- BlockOn: one `block_on` and one `wait_all` of two tasks share two workers, so
  that their trackers can be mistaken for each other; `Kids` bounds what is
  spawned, `MaxParks` how often a coroutine suspends, which once is enough to
  change the worker.
- IoEngine: a wheel has `SlotSize` 2 slots (64 in the code) and three levels;
  delays of 1 and 4 and a period of 2 make roots of all three. `MaxTime` 3 passes
  several slots and missed ticks; `calls` counts awaits, wakeups and resets, of
  which there are `MaxOps` 3 altogether: the operation whose timeout goes stale, the next one, and
  one more. `SubmitInterval` 2 lets an entry wait for the next, `Batch` 1 leaves a
  completion in the queue for the next drive.
- HTTP: three registrations, of eight patterns and every method, are enough for
  a route twice, or a dynamic one between two others. Requests have a body of two
  parts or none; buffers hold 3 and 4 tokens, fewer than any message, so that
  writes fall short. `Window` is one DATA frame of two; `MaxReads` 3 (2048 in the
  code) lets the client give up. `Programs` are the clients, `Served` the routers
  (one with the fast path, one with middleware, error handler and parameters).

Every cfg says CHECK_DEADLOCK FALSE: each of these programs may stop, when its
tasks are done, its operations used up, the runtime joined, the client gone.
That nobody stops who still has something to do is what NoLostWakeup,
NobodyWaitsInVain, NothingIsHeldBack and the liveness properties say.

### Fairness

- Scheduler: threads are scheduled (WF on a worker's steps), the kernel completes
  the read of a non-zero eventfd, a coroutine suspends or ends (faio is
  cooperative, and promises nothing about one that does not). Nothing makes an
  operation complete or a suspended coroutine ready.
- LocalQueue: none; its run checks safety alone.
- Sync: every coroutine that can go on does (WF for each); a holder unlocks. A notifier
  that has read nullptr cannot go on, and may hold the mutex: the liveness of FifoSpec
  and WaitersAreServed is claimed of behaviours in which notifies do not race.
- BlockOn: callers, workers and whatever ends a suspension go on (WF).
- IoEngine: the kernel completes a read that can complete and the wait that has a
  completion returns (WF); nothing else is fair.
- HTTP: the coroutines at both ends are resumed when they can go on (WF on
  `Client`, `Server`); a client of another make owes nothing.

## 4. Proofs

`LocalQueue_proofs` proves, for every set of workers and tasks, every capacity
that divides the index width, and every starting index:

- `TypeCorrect`: Spec => []TypeOK. The part that is not about types: no thread
  ever holds a null handle, which would be resumed.
- `IndexOrderAlways`: steal <= local head <= tail and tail - steal <= Capacity.
- `ClaimIsExclusiveAlways`: one thief at a time, and nobody moves its claim.
- `SlotsNeverClashAlways`: the slots of live tasks are distinct, and no thread
  writes one of them.
- `ConservationAlways`: a submitted task is in one place, once: in an array, in a
  thread's hand, in the global queue, dropped or run. No other is in any.
- `QueuesImplementPool`: Spec => PoolSpec.

The first four follow from the inductive invariant `Inv`, which adds to the types and
`IndexOrder`, `ClaimIsExclusive`:

- `OwnerInv`, `ThiefInv`: what a thread's loaded values still mean. The owner is
  the only one to move the tail, and others only move the head forward, so that
  room seen by `push_back` or `remain_size` does not shrink, and an overflow that
  wins its compare-exchange saw the present queue. `steal_num` is at most half of
  what is published, and the thief's own array is at most half full, so that what
  it copies fits.
- `PopApart`: the task an owner has popped and not yet read lies outside the
  range of the thief.
- `LiveSlotsFull`: every live index holds a task. Without it nothing says that
  what is popped, moved or copied is not null.

`SlotsNeverClash` then follows because the live indices of a queue lie in a
window of `Capacity` (`LiveInWindow`, `WindowFits`).

Assumptions: `Capacity` positive and a divisor of `Modulus`, `Null` is no task,
the workers are finitely many (a sum over them must exist),
and `Window < Modulus`: no thread sleeps through 2^32 operations on one queue
between its load and its compare-exchange. `ModInjective`, `SameIndexIsEqual`
and `DiffIsMinus` show that under it the wrapped comparisons are exact.

Conservation speaks of an index, live or not, and of slots that wrap; `CountInv`
turns it into arithmetic. To `Inv` it adds `HandInv` (between operations a hand is
empty, and before half of a full queue is moved it holds the one task to push) and
`Balance`: for each task the occurrences in `Contents`, the hands, the global queue
and the dropped, and its runs, add up to one if it was submitted and to zero if not.
`Contents` is what the arrays hold at their live indices; `LiveParts` splits these
into what w's own thread makes of them (`Mine`) and what thieves have claimed
(`Claims`). Each action is then shown to take from one term what it gives to another
(`Counts`): a publication adds a range of indices (`RangeFilled`), a compare-exchange
moves indices from one part to another and changes no slot (`SameContents`), a
thief's copy is in its own array before it leaves its victim's (`StealCopyCounts`). That
no writer touches a live slot, on which every one of these depends, is
`SlotsNeverClash`. From CountInv a task is never dropped and run, nor run twice (`Books`), so
that each step changes one task's standing in `TaskPool` as that module allows, or,
if it is a push that throws, drops all that its thread holds.

`Sync_proofs` proves of the mutex, for every set of coroutines that lock and unlock
(`Spec`, without `try_lock`, which breaks exclusion):

- `TypeCorrect`: Spec => []TypeOK, so that `unlock()` by a holder never reaches its
  `std::terminate`.
- `MutualExclusionAlways` and `WaitersAreListedAlways`.
- `ImplementsFifoLock`: Spec => Fifo!Init /\ [][Fifo!Next]_Fifo!vars, the safety
  part of FifoSpec, under the mapping of owner to `Holder` and queue to `Waiters`.

The inductive invariant is TypeOK, MutualExclusion and `ListInv`, which speaks of
the two lists one by one, and adds what an unlock in progress knows: it has found
`_fifo_awaiters` empty and is the only one to fill it, and newcomers once seen are
still there when it takes the list. WaitersAreListed alone is not inductive:
without these two an exchange could drop an older list or take an empty one.
The one assumption is that the mutex's address and nullptr differ and are no
Awaiter's address. Lemmas on sequences (`ConsFacts`, `TailFacts`, `ReverseFacts`,
`ConcatFacts`) say that adding, taking, reversing and joining lose and repeat
nobody; `NewcomerIsLast` and `FirstIsFirst` carry the refinement.

Then it proves of `SyncSpec`, for any coroutines, roles, capacity and number of values:

- `UsesTheMutex`: SyncSpec => Init /\ [][Next]_vars. Whatever a coroutine does in its own
  code, a condition variable or a channel, it is a step of the mutex or leaves it alone:
  it locks only with an Awaiter of its own that is free and unlocks only what it holds.
- `SyncMutualExclusion`, `SyncImplementsFifoLock`: so what is proved of `Spec` holds there.
- `SleepersAreChainedAlways`, `NoLostNotifyAlways`, for any number of notifiers: until
  a notify takes nodes off under another, the list holds exactly those who sleep, and
  nobody sleeps on a condition that came true with no notify on its way.
- `LockedNotifiesKeepTheList`: where every notify is called with the mutex held
  (`NotifiersHoldMutex`), notifies never race, so that both hold without that condition.
- `NobodyWaitsInVainAlways`, `ExactlyOnceAlways`, `DrainedBeforeClosedAlways`.

The inductive invariant is `LockInv`, `CvInv`, `ChInv`. `LockInv` adds to that of the
mutex what ties coroutines to their parties: whoever is leaving a critical section still
holds the mutex, and only they unlock (`Parting`); and whoever stands between two steps
of its own critical section is inside (`HeldActs`). `CvInv` is of types and, unless
`raced`, `Orderly`: that some sequence of coroutines is linked by `head` and `next` and
is exactly who sleeps (`Chained`), and that the waiter each notifier has read still
sleeps, with the same successor (`SeenInv`): so a compare-exchange that succeeds drops
nobody. The notifier that succeeds takes that away from the others that are at work,
which is what `raced` records. `TokenInv` gives NoLostNotify as a count: while somebody
sleeps there are no more tokens than coroutines on their way to one. `ChInv` says that
no side has fewer handles than owners, that one side has none once `destroy` runs, and
that one coroutine at most walks over the lists (`HandleInv`); that the lists are of
those who wait (`QueueInv`); what a decision to wait rests on until the entry, though
`destroy` comes between (`DecisionInv`); and what `_result` says of who has been resumed
(`ResultInv`).
Lemmas on the ring buffer (`RingFacts`, `PushFacts`, `PopFacts`) show that its
`cap + 1` cells, indexed modulo their number, are a queue of at most `cap` values; those on
occurrences (`Times...`) count a value's places. Assumptions: the coroutines are finitely
many, none is Null; the parties are the mutex's coroutines; roles have, as channel::make
gives, one first sender and one first receiver.

`Scheduler_proofs` proves, for any number of workers and tasks, and any sizes and
intervals:

- `TypeCorrect`, `SearchersAreCountedAlways`, `NoLostWakeupAlways`.

NoLostWakeup speaks of workers that wait; its invariant must speak of all those
that may come to wait without looking again. `Committed(w)` is that worker w does
not look at the global queue before it waits, and `GlobalSeen` that with a task
there some worker is signalled or is not committed; `PastFlag` and `CloseSeen` are the
same for the shutdown flag, `EmptyHanded` for a worker's own queue. They rest on
`Sleepers`, `SearchFlag` and `Counting` (the list names only
workers that sleep or have left for good, a worker's flag is false while it
sleeps, and the counter is the number of workers that have the flag, or stand
between it and the counter). After `std::terminate` (`Dead`) nothing moves and
nothing is claimed but the types. Assumption: the workers are finitely many, and
the capacity is two at least.

`OnePlaceAlways` counts. The places of a handle are a sum
over nine variables (`Total`); lemmas say what an append, a tail, a cut and an
assignment to one worker's part make of each term, and each action is shown to
take from one term what it gives to another (`Keeps`), or, where a push throws
after close, only to take (`Drops`). Two things make it inductive: a worker that
looks for a task has none in its hands, so that none is overwritten
(`HandsFree`), and the coroutine a worker runs is not at the same time ended,
parked or in flight, which is OnePlace itself.

`BlockOn_proofs` proves, for any threads that call, coroutines and roots:

- `TypeCorrect`, `WaitsForRegisteredAlways`, `SlotsAreFilledAlways`.

The invariant is an equation, `Counting`: a call's `pending` is the number of its
roots and of coroutines spawned under its tracker that have not ended. From it
follows that who counts down to zero is the last (`CountedDown`), so that the signal
means that all is over (`Signalling`), and that a root which has ended has filled its
slot (`Filling`). `Waiting` and `Begun` keep awaited coroutines and
idle callers apart from those counted. Assumptions: each call has a root, no root
belongs to two, and what is spawned is finite.

`IoEngine_proofs` proves, for any coroutines, delays, period, wheel size, number of
levels, submit interval, batch and eventfd maximum, and any bounds on calls and time:

- `TypeCorrect`, `WatchIsArmedAlways` and `NothingIsHeldBackAlways`.
- `CompletionsAreAwaitedAlways`: whatever is in the completion queue belongs to an
  operation whose coroutine still waits, once each.
- `TimersAreKeptAlways`: a sleeping coroutine's task is in the wheels, and so is the
  one that an awaited operation's `timer_task` points to.
- `EarlyOnlyByLagAlways`, an action property: a sleep that ends early does so by
  no more than the timer's start was behind when it began, and than the top
  wheel has clamped.
- `IntervalsKeepTheGridAlways`: Spec => IntervalsKeepTheGrid, an action property,
  from the arithmetic of `NextTimeout` (`WholePeriods`, `PastTheEnd`,
  `NextTimeoutFacts`).
- `ImplementsWakeSignal`: Spec => Signal!Init /\ [][Signal!Next]_Signal!vars, the
  safety part of SignalSpec: a wakeup once given is taken back only by a drive of
  a worker that does not wait.

The inductive invariant has three parts that hardly touch. `WakerInv`, `Armed`,
`AllSubmitted`, `IntervalInv`: WatchIsArmed alone is not inductive, since it is by `_flag`
that `start_watch` infers whether a read is in flight, so the invariant says that
the two agree both ways; NothingIsHeldBack must hold from the submission on, in
"driven" too, for nothing that the worker does between that and the wait prepares an
entry. `OpInv` says that an operation's state, its client's and the completion
queue agree, one completion each. `TimerInv` says of the wheels that a sleeper has one task
there, whose position stands for an instant before its deadline by no more than
`lag` (`DueInTime`); that every other task is of an operation, perhaps of one that is
over, which `remove_task` did not find (`TasksOwned`); and that a client which runs has no
timer task left to remove (`TimersOwned`), without which `remove_task` could be given
what the wheels no longer hold. The steps rest on lemmas of
what `add_task`, `remove_task` and `poll` do to the set of tasks, of which positions are
digits of powers of the slot count (`PowerFacts`, `AddTaskFacts`, `RemoveTaskFacts`,
`PollFacts`). Assumptions: `MaxCount`, `Period`, `SubmitInterval` and `Batch` positive, two
slots in a wheel at least.

`Http_proofs` proves, for any programs (what a client of another make writes
included), routers, buffers, window and turns of the client's read loop:

- `HttpTypeCorrect`: Spec => []HttpTypeOK; with it, that no direction of the wire
  holds more than its space, that `send_data` never uses more window than it has,
  and that the client's read loop ends within its turns.
- `ResponsesInOrderAlways`: Spec => []ResponsesInOrder.

ResponsesInOrder looks at what is on the wire; the inductive invariant `HttpInv`
relates it to what is still to be written. For HTTP/1.1 (`Writing1`), `written`
and the two pieces that `write_response` has left are together the bytes of the
responses made, and between two responses nothing is left; a short write moves
bytes from the pieces to `written`, whichever piece it ends in (`AdvanceRest`). For
HTTP/2 (`Server2OK`), every frame given to the wire or copied for it is the next
one of the response made to its stream, counted on that stream alone
(`FramesFollow`); every entry of nghttp2's queue holds what follows the frames that
its stream has been given, and no stream has two (`QueueFollows`), which holds
because a stream is taken for a request once, when it ends, and is in one of the
queue of requests, the handler's hands and the responses made (`TakenOnce`).
Without the last, a handler could answer a stream twice and mix two responses
on it. Assumption: what a client writes are bytes and frames of the kinds the
parsers tell apart, the malformed ones included (`HttpAssumption`).

A session parses by a fold over what a read returned. That a fold leads from a set
of sessions to itself when each step does (`ProcessFramesStays` and the others)
needs that the function which the community modules' fold chooses exists
(`FoldExists`, by induction over the number of bytes). For the two theorems above it
does not matter what the bytes say.

`HttpAnswers_proofs` proves of the same, for any programs, routers, buffers, window and
turns:

- `AnswersAreOwnAlways`: Spec => []AnswersAreOwn. Whatever the reads and writes cut,
  `request()` of a client of faio returns the whole of the response that the handler
  made to that request, and nothing of another.

Here it matters what the bytes say. While the client goes on (`Talking1`,
`Talking2`), the invariant `AnswersInv` says where both sides are:

- HTTP/1.1: what the client has still to write, what is on its way and what was read to
  tell the protocol are together the end of the request it is at, of which the
  session has queued nothing before its last byte is in (`Asks1`); and the bytes on
  their way back, with those `write_response` has left, begin where the client's
  parser is in the response (`Hears1`, `Parsed`). The callbacks are followed through
  the nine bytes of a response, one by one (`ResponseByteParsed`), and a read of any
  number of them by the fold (`ResponseFed`). So the parser is between messages, with
  an empty queue, whenever the next response begins.
- HTTP/2: the client has used the streams up to the one of its request, and all it sends
  is frames of these and frames of no stream (`Asks2`); the frames that were written
  and not yet read are those that the slots of the client lack (`Hears2`,
  `HasSlots`), so that a slot is complete only with the frames of one response, which
  `FramesFollow` of `HttpInv` says are in order.

With it goes what both need of the connection (`Around`): before the client connects
nothing has happened; until there is a session no end of the stream and no reset can
be seen, so that `detect_protocol` sends a client of faio to the session of its own
protocol; and whoever has left keeps no bytes (`Silent`). A client that has failed is
spoken of no more, but the answers it has got remain (`Answered1`, `Answered2`).

The folds of the other modules are recursive functions (`Power`, `QueuePushAll`,
`TimerAfterCompletions`), about which one proves by induction. The
library's induction theorems take an operator as a parameter, which the
installed provers cannot instantiate; `NatSetInduction` (a set of numbers with 0 and
the successors of its members is Nat), a consequence of the well-founded order
on finite sets, takes a set instead.

Only model-checked:

- Liveness (the fairness part of FifoSpec and SignalSpec,
  ShutdownCompletes, GlobalNotStarved, CallsReturn, WaitersAreServed,
  RequestsReturn), which is out of TLAPS's reach here, as is ENABLED.
- HTTP: RequestsArriveWhole, which speaks of clients of another make too and holds
  of those that number what they write in order, not of any (a program may write the
  bytes of request 2 first); RequestsFindTheirRoute, which compares the router's
  matching with that of the documentation over paths of any length.

## 5. Plan

Modelled: what section 2 lists. What is left, most useful first:

1. A submission queue that fills up (`get_sqe` fails): the awaiters throw, the
   waker stays unarmed, a cancel is dropped.
2. Lifetimes: of trackers (a waiter that spins past `mark_ready`, a coroutine
   that spawns under a tracker that is gone) and of workers at the end of
   RuntimePoller.

### Not modelled

- UDP, addresses and socket options (system calls one to one), configuration (its
  numbers are CONSTANTS), errors, formatting, utilities, logging.
- The C++ memory model: every module is sequentially consistent. `unlock()`'s
  acquire-only compare-exchange is listed as a hazard.
- Memory: frames of spawned coroutines that nobody destroys (`task.hpp:93`), slots
  of HTTP/2 streams that only grow (`session_callbacks.hpp:171`).
- Clock widths, but for the wait without a timer, whose timeout is converted to a
  negative one (`io_engine.hpp:29`): it may end at once (`WaitTimesOut`).
- What becomes of a condition variable's list after a notifier has read `_next` of
  nullptr, or of memory that was given back and used anew (section 2, CondVar).
- Chunked bodies, upgrades and 1xx answers, and servers that are not faio's; Auto
  falls back to HTTP/1.1 only at `connect`, which is how it is modelled.
