----------------------------- MODULE Scheduler ------------------------------
(***************************************************************************)
(* The worker threads of faio (runtime/core/worker.hpp), the StateMachine  *)
(* that counts them and keeps the sleepers, the Shared object that wakes   *)
(* them, the eventfd Waker of each IOEngine, and the start and shutdown of *)
(* RuntimePoller.                                                          *)
(*                                                                         *)
(* The queues are atomic here: LocalQueue shows what their operations do   *)
(* when they interleave.  One step is one access to state that other       *)
(* threads see: a critical section of StateMachine::_mutex, an atomic      *)
(* counter, the global queue, an eventfd.  A timer that expires is one     *)
(* more completion of the worker's engine.                                 *)
(***************************************************************************)
EXTENDS Integers, FiniteSets, SequencesExt

CONSTANTS
  Workers,         \* worker threads
  Main,            \* the thread that owns the RuntimePoller
  Tasks,           \* coroutine handles
  None,            \* std::nullopt
  Capacity,        \* LOCAL_QUEUE_CAPACITY
  IoInterval,      \* Config::_io_interval
  GlobalInterval,  \* Config::_global_queue_interval
  Period,          \* a common multiple of the two: ticks are counted modulo it
  WordSize,        \* 2^64: the width of the std::size_t counters
  Waiters          \* bound: the coroutines that may wait; the others just end

Threads == Workers \cup {Main}
NumWorkers == Cardinality(Workers)
Half == Capacity \div 2

\* Where a call of wake_up_one or drive may return to.
Labels == {"idle", "all", "loop", "running", "waiting", "update", "periodic", "woken"}

ASSUME SchedulerAssumption ==
  /\ IsFiniteSet(Workers) /\ Workers # {} /\ Main \notin Workers
  /\ None \notin Tasks \cup Workers \cup Labels
  /\ Capacity \in Nat \ {0, 1}
  /\ IoInterval \in Nat \ {0} /\ GlobalInterval \in Nat \ {0}
  /\ Period \in Nat \ {0}
  /\ Period % IoInterval = 0 /\ Period % GlobalInterval = 0
  /\ Waiters \subseteq Tasks
  /\ WordSize \in Nat /\ NumWorkers < WordSize

VARIABLES
  global,       \* GlobalQueue::_queue
  closed,       \* GlobalQueue::_closed
  working,      \* ThreadCounters::_working
  searching,    \* ThreadCounters::_searching
  sleepers,     \* StateMachine::_sleepers
  cache,        \* Worker::_task_cache
  local,        \* Worker::_local_queue
  isSearching,  \* Worker::_is_searching
  isShutdown,   \* Worker::_is_shutdown
  tick,         \* Worker::_tick, as far as the two intervals see it
  task,         \* the coroutine the worker runs or is about to run
  inflight,     \* IO and timers the worker's engine waits for
  cq,           \* completions of those, not yet driven
  signal,       \* the worker's Waker has a wakeup its engine has not driven
  pc,           \* where each thread stands
  after,        \* where it goes when wake_up_one or drive returns
  arg,          \* the worker to wake up, or the victim of a theft
  fresh,        \* tasks nobody has submitted yet
  parked,       \* tasks suspended in a synchronisation primitive
  ended         \* tasks that have returned

queues == <<global, cache, local>>
machine == <<working, searching, sleepers>>
kernel == <<inflight, cq>>
flags == <<isSearching, isShutdown>>
life == <<fresh, parked, ended>>
control == <<pc, after, arg>>
vars == <<queues, closed, machine, kernel, signal, flags, task, tick, life,
          control>>

Init ==
  /\ global = << >> /\ closed = FALSE
  /\ working = NumWorkers /\ searching = 0 /\ sleepers = << >>
  /\ cache = [w \in Workers |-> None]
  /\ local = [w \in Workers |-> << >>]
  /\ isSearching = [w \in Workers |-> FALSE]
  /\ isShutdown = [w \in Workers |-> FALSE]
  /\ tick = [w \in Workers |-> 0]
  /\ task = [w \in Workers |-> None]
  /\ inflight = [w \in Workers |-> {}]
  /\ cq = [w \in Workers |-> << >>]
  /\ signal = [w \in Workers |-> FALSE]
  /\ pc = [th \in Threads |-> IF th = Main THEN "idle" ELSE "loop"]
  /\ after = [th \in Threads |-> None]
  /\ arg = [th \in Threads |-> None]
  /\ fresh = Tasks
  /\ parked = {}
  /\ ended = {}

Jump(th, label, return, value) ==
  /\ pc' = [pc EXCEPT ![th] = label]
  /\ after' = [after EXCEPT ![th] = return]
  /\ arg' = [arg EXCEPT ![th] = value]

Goto(th, label) == Jump(th, label, None, None)
Call(th, sub, return) == Jump(th, sub, return, None)

-----------------------------------------------------------------------------
(* StateMachine and Shared.                                                *)

ShouldWakeup == searching = 0 /\ working < NumWorkers

\* wake_up_one, its critical section: worker_to_notify takes the last sleeper.
\* _working and _sleepers change only under _mutex, so that its two checks
\* amount to one.
WorkerToNotify(th) ==
  /\ pc[th] = "notify" /\ arg[th] = None
  /\ IF ShouldWakeup /\ sleepers # << >>
       THEN /\ working' = (working + 1) % WordSize
            /\ searching' = searching + 1
            /\ sleepers' = Front(sleepers)
            /\ Jump(th, "notify", after[th], Last(sleepers))
       ELSE Goto(th, after[th]) /\ UNCHANGED machine
  /\ UNCHANGED <<queues, closed, kernel, signal, flags, task, tick, life>>

\* wake_up_one: the Waker of the worker it has taken is written.
WakeUp(th) ==
  /\ pc[th] = "notify" /\ arg[th] # None
  /\ signal' = [signal EXCEPT ![arg[th]] = TRUE]
  /\ Goto(th, after[th])
  /\ UNCHANGED <<queues, closed, machine, kernel, flags, task, tick, life>>

\* The kernel completes an operation, or a timer expires.
IoCompletes(w, t) ==
  /\ t \in inflight[w]
  /\ inflight' = [inflight EXCEPT ![w] = @ \ {t}]
  /\ cq' = [cq EXCEPT ![w] = Append(@, t)]
  /\ UNCHANGED <<queues, closed, machine, signal, flags, task, tick, life,
                 control>>

-----------------------------------------------------------------------------
(* The thread that owns the runtime: submissions from outside, and the     *)
(* destructor of RuntimePoller.                                            *)

\* Mutant of Submit: a push to the global queue does not wake up all.
SubmitWakesOne(t) ==
  /\ pc[Main] = "idle"
  /\ t \in fresh
  /\ fresh' = fresh \ {t}
  /\ global' = Append(global, t)
  /\ Call(Main, "notify", "idle")
  /\ UNCHANGED <<cache, local, closed, machine, kernel, signal, flags, task,
                 tick, parked, ended>>

\* push_back_task_to_global_queue: push, then wake_up_one and wake_up_all.
Submit(t) ==
  /\ pc[Main] = "idle"
  /\ t \in fresh
  /\ fresh' = fresh \ {t}
  /\ global' = Append(global, t)
  /\ Call(Main, "notify", "all")
  /\ UNCHANGED <<cache, local, closed, machine, kernel, signal, flags, task,
                 tick, parked, ended>>

\* Shared::close: close the global queue, then wake_up_all.
Close ==
  /\ pc[Main] = "idle"
  /\ closed' = TRUE
  /\ Goto(Main, "all")
  /\ UNCHANGED <<queues, machine, kernel, signal, flags, task, tick, life>>

\* Mutant of WakeUpAll: only the registered sleepers are signalled.
WakeUpAllSleepers ==
  /\ pc[Main] = "all"
  /\ signal' = [w \in Workers |-> signal[w] \/ Contains(sleepers, w)]
  /\ Goto(Main, IF closed THEN "join" ELSE "idle")
  /\ UNCHANGED <<queues, closed, machine, kernel, flags, task, tick, life>>

\* wake_up_all, from a submission or from close, which wait_for_all follows.
WakeUpAll ==
  /\ pc[Main] = "all"
  /\ signal' = [w \in Workers |-> TRUE]
  /\ Goto(Main, IF closed THEN "join" ELSE "idle")
  /\ UNCHANGED <<queues, closed, machine, kernel, flags, task, tick, life>>

\* wait_for_all.
Join ==
  /\ pc[Main] = "join"
  /\ \A w \in Workers : pc[w] = "gone"
  /\ Goto(Main, "joined")
  /\ UNCHANGED <<queues, closed, machine, kernel, signal, flags, task, tick,
                 life>>

-----------------------------------------------------------------------------
(* Worker::run.                                                            *)

\* The loop test, tick, and the decision whether periodic has work to do.
Loop(w) ==
  /\ pc[w] = "loop"
  /\ LET count == (tick[w] + 1) % Period
     IN  IF isShutdown[w]
           THEN Goto(w, "latch") /\ UNCHANGED tick
           ELSE /\ tick' = [tick EXCEPT ![w] = count]
                /\ IF count % IoInterval = 0
                     THEN Call(w, "drive", "periodic")
                     ELSE Goto(w, "get")
  /\ UNCHANGED <<queues, closed, machine, kernel, signal, flags, task, life>>

\* ~Worker: _shutdown_latch.arrive_and_wait, then the members are destroyed.
Leave(w) ==
  /\ pc[w] = "latch"
  /\ \A v \in Workers : pc[v] \in {"latch", "gone"}
  /\ Goto(w, "gone")
  /\ UNCHANGED <<queues, closed, machine, kernel, signal, flags, task, tick,
                 life>>

\* LocalQueue::push_back on a pair <<local, global>>: a full queue sends its
\* older half and the new task to the global queue.
QueuePush(q, t) ==
  IF Len(q[1]) < Capacity
    THEN <<Append(q[1], t), q[2]>>
    ELSE <<SubSeq(q[1], Half + 1, Len(q[1])),
           q[2] \o Append(SubSeq(q[1], 1, Half), t)>>

QueuePushAll(q, ts) ==
  LET pushed[n \in 0 .. Len(ts)] ==
        IF n = 0 THEN q ELSE QueuePush(pushed[n - 1], ts[n])
  IN  pushed[Len(ts)]

SetQueues(w, q) ==
  /\ local' = [local EXCEPT ![w] = q[1]]
  /\ global' = q[2]

\* A closed global queue throws at the overflow.
PushThrows(w, count) == closed /\ Len(local[w]) + count > Capacity

\* std::terminate, for an exception nothing catches.
Terminate ==
  /\ pc' = [th \in Threads |-> "terminated"]
  /\ UNCHANGED <<after, arg>>

\* should_notify, evaluated after the completions were pushed.
ShouldNotify(w) == ~isSearching[w] /\ Len(local'[w]) > 1

\* IOEngine::drive: a push per completion.  It has seen a wakeup if the kernel
\* has posted its CQE by now, and one is left if another thread has written
\* since (see Waker).  Then drive_io notifies a sleeper if this worker has more
\* than one task queued; periodic and sleep go on to update the flag.
Drive(w) ==
  /\ pc[w] = "drive"
  /\ ~PushThrows(w, Len(cq[w]))
  /\ SetQueues(w, QueuePushAll(<<local[w], global>>, cq[w]))
  /\ cq' = [cq EXCEPT ![w] = << >>]
  /\ \E seen, left \in BOOLEAN :
       /\ (seen \/ left) = signal[w]
       /\ signal' = [signal EXCEPT ![w] = left]
       /\ LET found == cq[w] # << >> \/ seen
              next == IF after[w] = "idle" /\ found THEN "loop" ELSE "update"
          IN  IF found /\ after[w] # "woken" /\ ShouldNotify(w)
                THEN Call(w, "notify", next)
                ELSE Jump(w, next, after[w], None)
  /\ UNCHANGED <<cache, closed, machine, inflight, flags, task, tick, life>>

\* Nothing catches what a push from drive throws on the worker's thread.
DriveThrows(w) ==
  /\ pc[w] = "drive"
  /\ PushThrows(w, Len(cq[w]))
  /\ Terminate
  /\ UNCHANGED <<queues, closed, machine, kernel, signal, flags, task, tick,
                 life>>

\* update_shutdown_flag, which periodic, sleep and sleep's loop call next.
UpdateShutdownFlag(w) ==
  /\ pc[w] = "update"
  /\ isShutdown' = [isShutdown EXCEPT ![w] = @ \/ closed]
  /\ Goto(w, CASE after[w] = "woken" -> "cancel"
               [] after[w] = "idle"  -> "sleep"
               [] OTHER              -> "get")
  /\ UNCHANGED <<queues, closed, machine, kernel, signal, isSearching, task,
                 tick, life>>

-----------------------------------------------------------------------------
(* Finding a task.                                                         *)

\* excute: cancel_searching does nothing for a worker that does not search.
GotoExcute(w) == Goto(w, IF isSearching[w] THEN "exec" ELSE "running")

TakeGlobal(w) ==
  /\ global # << >>
  /\ task' = [task EXCEPT ![w] = Head(global)]
  /\ global' = Tail(global)
  /\ UNCHANGED <<cache, local>>

\* get_next_local_task: the cached task before the queue.
HasTask(w) == cache[w] # None \/ local[w] # << >>

TakeLocal(w) ==
  \/ /\ cache[w] # None
     /\ task' = [task EXCEPT ![w] = cache[w]]
     /\ cache' = [cache EXCEPT ![w] = None]
     /\ UNCHANGED <<local, global>>
  \/ /\ cache[w] = None /\ local[w] # << >>
     /\ task' = [task EXCEPT ![w] = Head(local[w])]
     /\ local' = [local EXCEPT ![w] = Tail(@)]
     /\ UNCHANGED <<cache, global>>

\* The refill: up to half a queue of global tasks, the last one to run now.
TakeBatch(w) ==
  LET room == Capacity - Len(local[w])
      n == Min({Len(global), room, Half})
  IN  /\ n > 0
      /\ task' = [task EXCEPT ![w] = global[n]]
      /\ local' = [local EXCEPT ![w] = @ \o SubSeq(global, 1, n - 1)]
      /\ global' = SubSeq(global, n + 1, Len(global))
      /\ UNCHANGED cache

\* get_next_task on every _global_queue_interval-th tick.
GlobalFirst(w) ==
  \/ TakeGlobal(w) /\ GotoExcute(w)
  \/ global = << >> /\ TakeLocal(w) /\ GotoExcute(w)
  \/ /\ global = << >> /\ ~HasTask(w)
     /\ Goto(w, "search")
     /\ UNCHANGED <<queues, task>>

\* get_next_task on any other tick.
LocalFirst(w) ==
  \/ TakeLocal(w) /\ GotoExcute(w)
  \/ ~HasTask(w) /\ TakeBatch(w) /\ GotoExcute(w)
  \/ /\ ~HasTask(w) /\ global = << >>
     /\ Goto(w, "search")
     /\ UNCHANGED <<queues, task>>

\* Mutant of GlobalTurn: local tasks always go first.
GlobalTurnNever(w) == FALSE

GlobalTurn(w) == tick[w] % GlobalInterval = 0

GetNextTask(w) ==
  /\ pc[w] = "get"
  /\ IF GlobalTurn(w) THEN GlobalFirst(w) ELSE LocalFirst(w)
  /\ UNCHANGED <<closed, machine, kernel, signal, flags, tick, life>>

\* set_searching: the test of the limit and the increment are two accesses.
SetSearching(w) ==
  /\ pc[w] = "search"
  /\ \/ isSearching[w] /\ Goto(w, "scan")
     \/ /\ ~isSearching[w] /\ 2 * searching < NumWorkers
        /\ Goto(w, "search_inc")
     \/ /\ ~isSearching[w] /\ 2 * searching >= NumWorkers
        /\ Call(w, "drive", "idle")
  /\ UNCHANGED <<queues, closed, machine, kernel, signal, flags, task, tick,
                 life>>

IncNumSearching(w) ==
  /\ pc[w] = "search_inc"
  /\ searching' = searching + 1
  /\ isSearching' = [isSearching EXCEPT ![w] = TRUE]
  /\ Goto(w, "scan")
  /\ UNCHANGED <<queues, closed, working, sleepers, kernel, signal, isShutdown,
                 task, tick, life>>

\* task_steal: the longest queue of a worker that does not search itself, or
\* one task of the global queue.
Victims(w) ==
  LET busy == {v \in Workers \ {w} : local[v] # << >> /\ ~isSearching[v]}
  IN  {v \in busy : \A u \in busy : Len(local[u]) <= Len(local[v])}

Scan(w) ==
  /\ pc[w] = "scan"
  /\ \/ /\ \E v \in Victims(w) : Jump(w, "steal", None, v)
        /\ UNCHANGED <<queues, task>>
     \/ /\ Victims(w) = {}
        /\ TakeGlobal(w)
        /\ GotoExcute(w)
     \/ /\ Victims(w) = {} /\ global = << >>
        /\ Call(w, "drive", "idle")
        /\ UNCHANGED <<queues, task>>
  /\ UNCHANGED <<closed, machine, kernel, signal, flags, tick, life>>

\* Mutant of BeStolenBy: the victim keeps the last of the stolen tasks.
BeStolenByKeepsLast(w) ==
  LET v == arg[w]
      n == Len(local[v]) \div 2
  IN
  /\ pc[w] = "steal"
  /\ \/ /\ n > 0
        /\ task' = [task EXCEPT ![w] = local[v][n]]
        /\ local' = [local EXCEPT ![w] = @ \o SubSeq(local[v], 1, n - 1),
                                  ![v] = SubSeq(@, n, Len(@))]
        /\ GotoExcute(w)
     \/ /\ n = 0
        /\ Call(w, "drive", "idle")
        /\ UNCHANGED <<task, local>>
  /\ UNCHANGED <<global, cache, closed, machine, kernel, signal, flags, tick,
                 life>>

\* be_stolen_by: half of what the victim has by now.
BeStolenBy(w) ==
  LET v == arg[w]
      n == Len(local[v]) \div 2
  IN
  /\ pc[w] = "steal"
  /\ \/ /\ n > 0
        /\ task' = [task EXCEPT ![w] = local[v][n]]
        /\ local' = [local EXCEPT ![w] = @ \o SubSeq(local[v], 1, n - 1),
                                  ![v] = SubSeq(@, n + 1, Len(@))]
        /\ GotoExcute(w)
     \/ /\ n = 0
        /\ Call(w, "drive", "idle")
        /\ UNCHANGED <<task, local>>
  /\ UNCHANGED <<global, cache, closed, machine, kernel, signal, flags, tick,
                 life>>

-----------------------------------------------------------------------------
(* Running a task.                                                         *)

\* cancel_searching: the last searcher wakes another.
CancelSearching(w) ==
  /\ pc[w] = "exec"
  /\ isSearching' = [isSearching EXCEPT ![w] = FALSE]
  /\ searching' = searching - 1
  /\ IF searching = 1
       THEN Call(w, "notify", "running")
       ELSE Goto(w, "running")
  /\ UNCHANGED <<queues, closed, working, sleepers, kernel, signal, isShutdown,
                 task, tick, life>>

\* push_back_task_to_local_queue(t), from the running coroutine.  A throwing
\* overflow has already removed half of the queue; the coroutine may catch it.
PushLocal(w, t) ==
  \/ /\ cache[w] = None
     /\ cache' = [cache EXCEPT ![w] = t]
     /\ UNCHANGED <<local, global, control>>
  \/ /\ cache[w] # None /\ ~PushThrows(w, 1)
     /\ SetQueues(w, QueuePush(<<local[w], global>>, cache[w]))
     /\ cache' = [cache EXCEPT ![w] = t]
     /\ Call(w, "notify", "running")
  \/ /\ cache[w] # None /\ PushThrows(w, 1)
     /\ local' = [local EXCEPT ![w] = SubSeq(@, Half + 1, Len(@))]
     /\ UNCHANGED <<cache, global>>
     /\ UNCHANGED control \/ Terminate

Spawn(w, t) ==
  /\ pc[w] = "running" /\ t \in fresh
  /\ fresh' = fresh \ {t}
  /\ PushLocal(w, t)
  /\ UNCHANGED <<closed, machine, kernel, signal, flags, task, tick, parked,
                 ended>>

\* A synchronisation primitive makes a suspended coroutine ready.
Unpark(w, t) ==
  /\ pc[w] = "running" /\ t \in parked
  /\ parked' = parked \ {t}
  /\ PushLocal(w, t)
  /\ UNCHANGED <<closed, machine, kernel, signal, flags, task, tick, fresh,
                 ended>>

\* The coroutine ends, waits for IO, or waits in a primitive.
Suspend(w) ==
  /\ pc[w] = "running"
  /\ \/ ended' = ended \cup {task[w]} /\ UNCHANGED <<inflight, parked>>
     \/ /\ task[w] \in Waiters
        /\ inflight' = [inflight EXCEPT ![w] = @ \cup {task[w]}]
        /\ UNCHANGED <<parked, ended>>
     \/ /\ task[w] \in Waiters
        /\ parked' = parked \cup {task[w]}
        /\ UNCHANGED <<inflight, ended>>
  /\ task' = [task EXCEPT ![w] = None]
  /\ Goto(w, "loop")
  /\ UNCHANGED <<queues, closed, machine, cq, signal, flags, tick, fresh>>

-----------------------------------------------------------------------------
(* Worker::sleep.                                                          *)

\* Mutant of SetSleeping: Worker::_is_searching keeps its value.
SetSleepingStillSearching(w) ==
  /\ pc[w] = "sleep"
  /\ IF HasTask(w)
       THEN Goto(w, "loop") /\ UNCHANGED <<machine, isSearching>>
       ELSE /\ working' = (working - 1) % WordSize
            /\ sleepers' = Append(sleepers, w)
            /\ searching' = IF isSearching[w] THEN searching - 1 ELSE searching
            /\ UNCHANGED isSearching
            /\ Goto(w, IF isSearching[w] /\ searching = 1
                         THEN "pending" ELSE "waiting")
  /\ UNCHANGED <<queues, closed, kernel, signal, isShutdown, task, tick, life>>

\* set_sleeping: the last searcher looks for work once more.
SetSleeping(w) ==
  /\ pc[w] = "sleep"
  /\ IF HasTask(w)
       THEN Goto(w, "loop") /\ UNCHANGED <<machine, isSearching>>
       ELSE /\ working' = (working - 1) % WordSize
            /\ sleepers' = Append(sleepers, w)
            /\ searching' = IF isSearching[w] THEN searching - 1 ELSE searching
            /\ isSearching' = [isSearching EXCEPT ![w] = FALSE]
            /\ Goto(w, IF isSearching[w] /\ searching = 1
                         THEN "pending" ELSE "waiting")
  /\ UNCHANGED <<queues, closed, kernel, signal, isShutdown, task, tick, life>>

WakeUpIfWorkPending(w) ==
  /\ pc[w] = "pending"
  /\ IF global # << >> \/ \E v \in Workers : local[v] # << >>
       THEN Call(w, "notify", "waiting")
       ELSE Goto(w, "waiting")
  /\ UNCHANGED <<queues, closed, machine, kernel, signal, flags, task, tick,
                 life>>

\* while (!_is_shutdown) wait_and_drive: blocks until there is a completion.
WaitAndDrive(w) ==
  /\ pc[w] = "waiting"
  /\ \/ isShutdown[w] /\ Goto(w, "loop")
     \/ /\ ~isShutdown[w] /\ (cq[w] # << >> \/ signal[w])
        /\ Call(w, "drive", "woken")
  /\ UNCHANGED <<queues, closed, machine, kernel, signal, flags, task, tick,
                 life>>

\* cancel_sleeping: own reasons to stay awake, or somebody's notification.
CancelSleeping(w) ==
  /\ pc[w] = "cancel"
  /\ Goto(w, IF HasTask(w) \/ global # << >> THEN "cancel_own" ELSE "contains")
  /\ UNCHANGED <<queues, closed, machine, kernel, signal, flags, task, tick,
                 life>>

\* Mutant of CancelOwn: the worker always leaves its sleep as a searcher.
CancelOwnSearching(w) ==
  /\ pc[w] = "cancel_own"
  /\ isSearching' = [isSearching EXCEPT ![w] = TRUE]
  /\ sleepers' = RemoveFirst(sleepers, w)
  /\ Goto(w, "loop")
  /\ UNCHANGED <<queues, closed, working, searching, kernel, signal,
                 isShutdown, task, tick, life>>

\* StateMachine::cancel_sleeping leaves _working alone.
CancelOwn(w) ==
  /\ pc[w] = "cancel_own"
  /\ isSearching' = [isSearching EXCEPT ![w] = ~Contains(sleepers, w)]
  /\ sleepers' = RemoveFirst(sleepers, w)
  /\ Goto(w, "loop")
  /\ UNCHANGED <<queues, closed, working, searching, kernel, signal,
                 isShutdown, task, tick, life>>

StillSleeping(w) ==
  /\ pc[w] = "contains"
  /\ IF Contains(sleepers, w)
       THEN Goto(w, "waiting") /\ UNCHANGED isSearching
       ELSE /\ isSearching' = [isSearching EXCEPT ![w] = TRUE]
            /\ Goto(w, "loop")
  /\ UNCHANGED <<queues, closed, machine, kernel, signal, isShutdown, task,
                 tick, life>>

-----------------------------------------------------------------------------
WorkerStep(w) ==
  \/ Loop(w) \/ Leave(w)
  \/ Drive(w) \/ DriveThrows(w) \/ UpdateShutdownFlag(w)
  \/ GetNextTask(w) \/ SetSearching(w) \/ IncNumSearching(w) \/ Scan(w)
  \/ BeStolenBy(w) \/ CancelSearching(w) \/ SetSleeping(w)
  \/ WakeUpIfWorkPending(w) \/ WaitAndDrive(w)
  \/ CancelSleeping(w) \/ CancelOwn(w) \/ StillSleeping(w)

Next ==
  \/ \E w \in Workers :
       \/ WorkerStep(w) \/ Suspend(w)
       \/ \E t \in Tasks : Spawn(w, t) \/ Unpark(w, t) \/ IoCompletes(w, t)
  \/ \E th \in Threads : WorkerToNotify(th) \/ WakeUp(th)
  \/ \E t \in Tasks : Submit(t)
  \/ Close \/ WakeUpAll \/ Join

Spec == Init /\ [][Next]_vars

(***************************************************************************)
(* Threads are scheduled, the kernel completes the read of a non-zero      *)
(* eventfd, and a resumed coroutine ends or suspends: faio is cooperative  *)
(* and promises nothing about one that does not.  Nothing makes an         *)
(* operation complete or a suspended coroutine ready.                      *)
(***************************************************************************)
Fairness ==
  /\ \A w \in Workers :
       /\ WF_vars(WorkerStep(w))
       /\ WF_vars(Suspend(w))
  /\ \A th \in Threads : WF_vars(WorkerToNotify(th)) /\ WF_vars(WakeUp(th))
  /\ WF_vars(WakeUpAll) /\ WF_vars(Join)

FairSpec == Spec /\ Fairness

-----------------------------------------------------------------------------
(* Properties.                                                             *)

Sleeping == {"pending", "waiting", "cancel", "cancel_own", "contains"}

WorkerPCs == Sleeping \cup
  {"loop", "latch", "gone", "drive", "get", "search",
   "search_inc", "scan", "steal", "exec", "running", "sleep",
   "update", "notify", "terminated"}

MainPCs == {"idle", "notify", "all", "join", "joined", "terminated"}

\* Types; in particular _searching is never decremented below zero, which
\* ThreadCounters asserts in dec_num_searching and dec_num_working.
TypeOK ==
  /\ global \in Seq(Tasks) /\ closed \in BOOLEAN
  /\ working \in 0 .. WordSize - 1
  /\ searching \in 0 .. NumWorkers
  /\ sleepers \in Seq(Workers)
  /\ cache \in [Workers -> Tasks \cup {None}]
  /\ local \in [Workers -> Seq(Tasks)]
  /\ \A w \in Workers : Len(local[w]) <= Capacity
  /\ isSearching \in [Workers -> BOOLEAN]
  /\ isShutdown \in [Workers -> BOOLEAN]
  /\ tick \in [Workers -> 0 .. Period - 1]
  /\ task \in [Workers -> Tasks \cup {None}]
  /\ inflight \in [Workers -> SUBSET Tasks]
  /\ cq \in [Workers -> Seq(Tasks)]
  /\ signal \in [Workers -> BOOLEAN]
  /\ pc \in [Threads -> WorkerPCs \cup MainPCs]
  /\ \A w \in Workers : pc[w] \in WorkerPCs
  /\ pc[Main] \in MainPCs
  /\ after \in [Threads -> Labels \cup {None}]
  /\ arg \in [Threads -> Workers \cup {None}]
  /\ fresh \subseteq Tasks /\ parked \subseteq Tasks /\ ended \subseteq Tasks

\* w has announced that it sleeps and has not announced otherwise.
Asleep(w) ==
  \/ pc[w] \in Sleeping
  \/ pc[w] \in {"drive", "update"} /\ after[w] = "woken"
  \/ pc[w] = "notify" /\ after[w] = "waiting"

\* w was taken from the sleepers by a notification it has yet to notice.
Notified(w) == Asleep(w) /\ ~Contains(sleepers, w)

\* _searching counts exactly the workers that search and those that a
\* notification has turned into searchers in their sleep; a sleeper does not
\* search; and nobody sleeps twice.  If a searcher were counted for ever, no
\* worker would be notified again.
SearchersAreCounted ==
  /\ \A i, j \in DOMAIN sleepers : i # j => sleepers[i] # sleepers[j]
  /\ \A w \in Workers : Asleep(w) => ~isSearching[w]
  /\ (\A w \in Workers : ~isShutdown[w] /\ pc[w] # "terminated") =>
       /\ searching = Cardinality({w \in Workers : isSearching[w] \/ Notified(w)})
       /\ \A w \in Workers : Contains(sleepers, w) => Asleep(w)

\* w cannot leave io_uring_wait_cqe without some thread's or the kernel's help.
Blocked(w) ==
  /\ pc[w] = "waiting" /\ ~isShutdown[w]
  /\ cq[w] = << >> /\ ~signal[w]

\* No wakeup is lost, wherever the push or the close falls between a worker's
\* last look at the queues and its wait: a worker never waits while it has a
\* task of its own, and while a task is in the global queue, or after close,
\* not all workers are blocked with nobody about to wake one.
NoLostWakeup ==
  /\ \A w \in Workers : Blocked(w) => ~HasTask(w)
  /\ global # << >> /\ pc[Main] \notin {"notify", "all"} =>
       \E w \in Workers : ~Blocked(w)
  /\ closed /\ pc[Main] # "all" => \A w \in Workers : ~Blocked(w)

\* How many places a coroutine handle is in.
Places(t) ==
  Cardinality({w \in Workers : cache[w] = t})
  + Cardinality({w \in Workers : task[w] = t})
  + Cardinality({w \in Workers : t \in inflight[w]})
  + Cardinality({p \in UNION {{w} \X DOMAIN local[w] : w \in Workers} :
                   local[p[1]][p[2]] = t})
  + Cardinality({p \in UNION {{w} \X DOMAIN cq[w] : w \in Workers} :
                   cq[p[1]][p[2]] = t})
  + Cardinality({i \in DOMAIN global : global[i] = t})
  + Cardinality({t} \cap parked) + Cardinality({t} \cap fresh)
  + Cardinality({t} \cap ended)

\* Whatever overflow, refill, theft, completion and wakeup do with it, a
\* coroutine is never resumed twice, and until the runtime closes never lost.
OnePlace ==
  \A t \in Tasks :
    /\ Places(t) <= 1
    /\ ~closed => Places(t) = 1

\* docs: the global queue is not starved by local work, even by coroutines
\* that keep making each other ready: a task leaves it, or the runtime closes.
GlobalNotStarved ==
  \A t \in Tasks :
    Contains(global, t) ~> (~Contains(global, t) \/ closed)

\* After close every worker leaves its loop, even one that always has a task
\* to run or is about to block, and the destructor returns; or completions that
\* overflow a local queue after close have thrown and ended the process.
ShutdownCompletes == closed ~> (pc[Main] \in {"joined", "terminated"})

=============================================================================
