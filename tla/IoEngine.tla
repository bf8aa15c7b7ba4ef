------------------------------ MODULE IoEngine ------------------------------
(***************************************************************************)
(* The IOEngine of one worker (runtime/core/io_engine.hpp): a submission   *)
(* and a completion queue, the Waker and the Timer, with the coroutines    *)
(* that use them through Sleep, Interval, the awaiters of io/ and Timeout. *)
(*                                                                         *)
(* The worker runs coroutines, drives the engine (completions, then the    *)
(* timer, then the waker and the submission) and waits in the ring; time   *)
(* passes, the kernel completes and cancels, and other threads wake up     *)
(* between any two of these steps.  The user data of an operation lives in *)
(* its coroutine's frame: a coroutine that awaits in a loop has the next   *)
(* operation's user data where the last one's was.                         *)
(***************************************************************************)
EXTENDS Waker, TimerWheel, Interval, SequencesExt

CONSTANTS
  Clients,          \* the coroutines,
  Sleepers,         \* those that sleep,
  Tickers,          \* that await an interval,
  IoUsers,          \* and that await operations
  SubmitInterval,   \* Config::_submit_interval
  Batch,            \* LOCAL_QUEUE_CAPACITY: how many completions a drive takes
  Delays,           \* the durations a client sleeps or sets as a timeout
  MaxOps,           \* bound: awaits, wakeups and resets altogether
  MaxTime           \* bound: the clock's last instant

\* The submission queue (num_events entries) is never full.
ASSUME EngineAssumption ==
  /\ UNION {Sleepers, Tickers, IoUsers} \subseteq Clients
  /\ SubmitInterval \in Nat \ {0} /\ Batch \in Nat \ {0} /\ Delays \subseteq Nat
  /\ MaxOps \in Nat /\ MaxTime \in Nat

VARIABLES
  pc,      \* the worker: drive, poll and watch are the parts of drive();
           \* driven, then awake (running coroutines) or waiting
  now,     \* the steady clock
  tm,      \* the Timer
  iv,      \* an Interval the clients share
  who,     \* a client: ready, woken (in the local queue), asleep or io
  gen,     \* how many awaits a client has begun
  calls,   \* how many awaits, wakeups and resets there have been
  lag,     \* ghost: how far before its deadline a client's sleep was placed
  op,      \* its operation: none, prepared (in the SQ), flying or posted
  timer,   \* io_user_data_t::timer_task
  asked,   \* how many cancels for its user data are in the SQ
  cancels, \* and how many the kernel has
  tick,    \* IOuring::_submit_tick
  cq,      \* the completions of clients' operations in the completion queue
  nulls    \* and how many of cancels, whose user data is null

engineVars == <<pc, now, tm, iv, who, gen, calls, lag, op, timer, asked, cancels, tick, cq, nulls>>
vars == <<wakerVars, engineVars>>

\* A null timer_task.
NoTask == [owner |-> "null", gen |-> 0, kind |-> "none", deadline |-> 0]

Task(c, kind, d) == [owner |-> c, gen |-> gen[c] + 1, kind |-> kind,
                     deadline |-> d]

Init ==
  /\ WakerInit
  /\ pc = "drive"     \* run() drives the engine before its first wait
  /\ now = 0
  /\ tm = NewTimer(0)
  /\ iv = NewInterval(0)
  /\ who = [c \in Clients |-> "ready"]
  /\ gen = [c \in Clients |-> 0]
  /\ calls = 0
  /\ lag = [c \in Clients |-> 0]
  /\ op = [c \in Clients |-> "none"]
  /\ timer = [c \in Clients |-> NoTask]
  /\ asked = [c \in Clients |-> 0]
  /\ cancels = [c \in Clients |-> 0]
  /\ tick = 0
  /\ cq = <<>>
  /\ nulls = 0

-----------------------------------------------------------------------------
(* The coroutines.                                                         *)

\* The worker pops and resumes a coroutine; the awaiter it waited in, with
\* its user data, is gone.
Resume(c) ==
  /\ pc = "awake" /\ who[c] = "woken"
  /\ who' = [who EXCEPT ![c] = "ready"]
  /\ timer' = [timer EXCEPT ![c] = NoTask]
  /\ lag' = [lag EXCEPT ![c] = 0]
  /\ UNCHANGED <<wakerVars, pc, now, tm, iv, gen, calls, op, asked, cancels, tick, cq, nulls>>

Counted == calls < MaxOps /\ calls' = calls + 1

Begins(c) ==
  /\ pc = "awake" /\ who[c] = "ready"
  /\ Counted
  /\ gen' = [gen EXCEPT ![c] = @ + 1]

\* Sleep: await_ready for a deadline that has passed, else await_suspend.
SleepUntil(c, d) ==
  /\ Begins(c)
  /\ IF d <= now THEN UNCHANGED <<tm, who, lag>>
     ELSE /\ tm' = AddTask(tm, Task(c, "sleep", d), now)
          /\ lag' = [lag EXCEPT ![c] = Lead(tm, d, now)]
          /\ who' = [who EXCEPT ![c] = "asleep"]

Sleep(c) ==
  /\ c \in Sleepers
  /\ \E d \in Delays : SleepUntil(c, now + d)
  /\ UNCHANGED <<wakerVars, pc, now, iv, op, timer, asked, cancels, tick, cq, nulls>>

\* tick(), after set_missed_tick_behavior or not, computes the next deadline,
\* and the client awaits the last.
TickInterval(c) ==
  /\ c \in Tickers
  /\ \E b \in Behaviors : iv' = Ticked(Behaving(iv, b), now)
  /\ SleepUntil(c, iv.deadline)
  /\ UNCHANGED <<wakerVars, pc, now, op, timer, asked, cancels, tick, cq, nulls>>

\* reset, reset_immediately, reset_after and reset_at.
ResetInterval(c) ==
  /\ c \in Tickers
  /\ pc = "awake" /\ who[c] = "ready" /\ Counted
  /\ \E d \in {0, Period} : iv' = Reset(iv, now + d)
  /\ UNCHANGED <<wakerVars, pc, now, tm, who, gen, lag, op, timer, asked, cancels, tick, cq, nulls>>

\* io_uring_submit: the kernel takes what the submission queue holds.
Submitted(f) ==
  [c \in Clients |-> IF f[c] = "prepared" THEN "flying" ELSE f[c]]

CancelsSubmitted ==
  /\ cancels' = [c \in Clients |-> cancels[c] + asked[c]]
  /\ asked' = [c \in Clients |-> 0]

\* IOuring::submit, from an awaiter whose entry has just been prepared.
Submit(c) ==
  LET prepared == [op EXCEPT ![c] = "prepared"] IN
  IF tick + 1 = SubmitInterval
    THEN tick' = 0 /\ op' = Submitted(prepared) /\ CancelsSubmitted
    ELSE tick' = tick + 1 /\ op' = prepared /\ UNCHANGED <<asked, cancels>>

\* An awaiter's constructor and its await_suspend; with a timeout, Timeout's
\* await_suspend before it.
StartIo(c) ==
  /\ c \in IoUsers
  /\ Begins(c)
  /\ \/ UNCHANGED <<tm, timer>>
     \/ \E d \in Delays : LET t == Task(c, "io", now + d) IN
          /\ tm' = AddTask(tm, t, now)
          /\ timer' = [timer EXCEPT ![c] = t]
  /\ Submit(c)
  /\ who' = [who EXCEPT ![c] = "io"]
  /\ UNCHANGED <<wakerVars, pc, now, iv, lag, cq, nulls>>

-----------------------------------------------------------------------------
(* The kernel, other threads and the clock.                                *)

Complete(c) ==
  /\ op[c] = "flying"
  /\ op' = [op EXCEPT ![c] = "posted"]
  /\ cq' = Append(cq, c)
  /\ UNCHANGED <<wakerVars, pc, now, tm, iv, who, gen, calls, lag, timer, asked, cancels, tick, nulls>>

\* A cancel finds an operation by its user data, whichever it is by then, and
\* may come too late for it; its own completion has a null user data.
Cancel(c) ==
  /\ cancels[c] > 0
  /\ cancels' = [cancels EXCEPT ![c] = @ - 1]
  /\ nulls' = nulls + 1
  /\ \/ /\ op[c] = "flying"
        /\ op' = [op EXCEPT ![c] = "posted"]
        /\ cq' = Append(cq, c)
     \/ UNCHANGED <<op, cq>>
  /\ UNCHANGED <<wakerVars, pc, now, tm, iv, who, gen, calls, lag, timer, asked, tick>>

WakerWritten ==
  /\ Counted
  /\ WakeUp
  /\ UNCHANGED <<pc, now, tm, iv, who, gen, lag, op, timer, asked, cancels, tick, cq, nulls>>

WakerRead == ReadCompletes /\ UNCHANGED engineVars

Tick ==
  /\ now < MaxTime
  /\ now' = now + 1
  /\ UNCHANGED <<wakerVars, pc, tm, iv, who, gen, calls, lag, op, timer, asked, cancels, tick, cq, nulls>>

-----------------------------------------------------------------------------
(* The worker's drive and wait.                                            *)

Posted == {c \in Clients : \E i \in 1 .. Len(cq) : cq[i] = c}

\* The timer task of each of the first k completed operations is removed.
TimerAfterCompletions(k) ==
  LET remove(t, c) == IF timer[c] = NoTask THEN t
                      ELSE RemoveTask(t, timer[c], now)
      removed[n \in 0 .. k] ==
        IF n = 0 THEN tm ELSE remove(removed[n - 1], cq[n])
  IN  removed[k]

\* Whose operations those are.
Peeked(k) == {c \in Clients : \E i \in 1 .. k : cq[i] = c}

\* How many completions there are, of which peek_batch takes Batch at most.
Completed == Len(cq) + nulls + cqes

\* Mutant of Completions: the queue is not consumed.
CompletionsUnseen ==
  /\ pc = "drive"
  /\ tm' = TimerAfterCompletions(Len(cq))
  /\ who' = [c \in Clients |-> IF c \in Posted THEN "woken" ELSE who[c]]
  /\ op' = [c \in Clients |-> IF c \in Posted THEN "none" ELSE op[c]]
  /\ SkipNulls
  /\ nulls' = 0
  /\ pc' = "poll"
  /\ UNCHANGED <<now, iv, gen, calls, lag, timer, asked, cancels, tick, cq>>

\* drive: peek_batch, for every completion with user data remove its timer
\* task, set its result and push its coroutine; consume.  How the null ones
\* lie among the others in the queue is left open.
Completions ==
  /\ pc = "drive"
  /\ \E k \in 0 .. Len(cq) :
       /\ tm' = TimerAfterCompletions(k)
       /\ who' = [c \in Clients |-> IF c \in Peeked(k) THEN "woken" ELSE who[c]]
       /\ op' = [c \in Clients |-> IF c \in Peeked(k) THEN "none" ELSE op[c]]
       /\ cq' = [i \in 1 .. Len(cq) - k |-> cq[i + k]]
  /\ nulls' \in 0 .. nulls
  /\ SkipNulls
  /\ Completed' = Completed - Min({Batch, Completed})
  /\ pc' = "poll"
  /\ UNCHANGED <<now, iv, gen, calls, lag, timer, asked, cancels, tick>>

\* How many tasks of a kind a client has among tasks.
Of(c, kind, tasks) ==
  Cardinality({t \in tasks : t.owner = c /\ t.kind = kind})

\* Timer::poll.  A sleeper is pushed; a task of an operation writes a result
\* and a null timer_task into the user data, and prepares a cancel.
PollTimer ==
  /\ pc = "poll"
  /\ LET gone == Expired(tm, now) IN
       /\ who' = [c \in Clients |->
                    IF Of(c, "sleep", gone) > 0 THEN "woken" ELSE who[c]]
       /\ timer' = [c \in Clients |->
                      IF Of(c, "io", gone) > 0 THEN NoTask ELSE timer[c]]
       /\ asked' = [c \in Clients |-> asked[c] + Of(c, "io", gone)]
  /\ tm' = Poll(tm, now)
  /\ pc' = "watch"
  /\ UNCHANGED <<wakerVars, now, iv, gen, calls, lag, op, cancels, tick, cq, nulls>>

\* Mutant of WatchAndSubmit: it submits as the awaiters do, once in a while.
WatchAndMaybeSubmit ==
  /\ pc = "watch"
  /\ StartWatch
  /\ tick' = (tick + 1) % SubmitInterval
  /\ IF tick' = 0 THEN op' = Submitted(op) /\ CancelsSubmitted
     ELSE UNCHANGED <<op, asked, cancels>>
  /\ pc' = "driven"
  /\ UNCHANGED <<now, tm, iv, who, gen, calls, lag, timer, cq, nulls>>

\* start_watch and reset_and_submit.
WatchAndSubmit ==
  /\ pc = "watch"
  /\ StartWatch
  /\ tick' = 0
  /\ op' = Submitted(op)
  /\ CancelsSubmitted
  /\ pc' = "driven"
  /\ UNCHANGED <<now, tm, iv, who, gen, calls, lag, timer, cq, nulls>>

Goes(from, to) ==
  /\ pc = from
  /\ pc' = to
  /\ UNCHANGED <<wakerVars, now, tm, iv, who, gen, calls, lag, op, timer, asked, cancels, tick, cq, nulls>>

\* After a drive the worker runs coroutines and drives again, or, with none
\* of them in its queue, waits.
Run == Goes("driven", "awake")
DriveAgain == Goes("awake", "drive")

Wait ==
  /\ \A c \in Clients : who[c] # "woken"
  /\ Goes("driven", "waiting")

\* io_uring_wait_cqe_timeout returns when there is a completion,
WaitReturns ==
  /\ cqes + nulls > 0 \/ cq # <<>>
  /\ Goes("waiting", "drive")

\* or at the timer's next deadline.  Without a timer the timeout is the
\* largest size_t, converted to a negative timespec: it may end at once.
WaitTimesOut ==
  /\ tm.entries > 0 => now >= NextDeadline(tm)
  /\ Goes("waiting", "drive")

ClientNext(c) ==
  \/ Resume(c) \/ Sleep(c) \/ TickInterval(c) \/ ResetInterval(c)
  \/ StartIo(c) \/ Complete(c) \/ Cancel(c)

Next ==
  \/ \E c \in Clients : ClientNext(c)
  \/ WakerWritten \/ WakerRead \/ Tick
  \/ Completions \/ PollTimer \/ WatchAndSubmit
  \/ Run \/ DriveAgain \/ Wait \/ WaitReturns \/ WaitTimesOut

\* The kernel completes a read that can complete, and a thread whose wait is
\* over is scheduled.
Spec ==
  /\ Init /\ [][Next]_vars
  /\ WF_vars(WakerRead) /\ WF_vars(WaitReturns)

-----------------------------------------------------------------------------
(* Properties.                                                             *)

Tasks == [owner : Clients, gen : 1 .. MaxOps, kind : {"sleep", "io"},
          deadline : Nat]

TypeOK ==
  /\ counter \in 0 .. MaxCount /\ flag \in 0 .. MaxCount
  /\ reading \in BOOLEAN /\ cqes \in Nat
  /\ pc \in {"drive", "poll", "watch", "driven", "awake", "waiting"}
  /\ now \in 0 .. MaxTime
  /\ tm.start \in 0 .. now /\ tm.entries \in Nat
  /\ tm.level \in NoWheel .. MaxLevel /\ Held(tm) \subseteq Tasks
  /\ who \in [Clients -> {"ready", "woken", "asleep", "io"}]
  /\ gen \in [Clients -> 0 .. MaxOps] /\ calls \in 0 .. MaxOps
  /\ lag \in [Clients -> Nat]
  /\ op \in [Clients -> {"none", "prepared", "flying", "posted"}]
  /\ timer \in [Clients -> Tasks \cup {NoTask}]
  /\ asked \in [Clients -> Nat] /\ cancels \in [Clients -> Nat]
  /\ tick \in 0 .. SubmitInterval - 1
  /\ cq \in Seq(Clients) /\ nulls \in Nat

\* There is never more than one read in flight, which would let two of them
\* write _flag, and the worker never waits without one unless a completion
\* is there to end the wait (Waker::start_watch, IOEngine::drive).
WatchIsArmed ==
  /\ reading => flag = 0
  /\ pc \in {"driven", "awake", "waiting"} => reading \/ cqes > 0

\* The worker never waits for an operation, or with a cancel, it has not
\* given to the kernel (reset_and_submit at the end of drive, and a drive
\* before every wait).
NothingIsHeldBack ==
  pc = "waiting" =>
    \A c \in Clients : op[c] # "prepared" /\ asked[c] = 0

\* A completion's user data belongs to an operation that is still awaited:
\* drive never writes into the frame of a coroutine that has gone on, and
\* no operation completes twice (IOEngine::drive).
CompletionsAreAwaited ==
  /\ \A c \in Posted : who[c] = "io" /\ op[c] = "posted"
  /\ IsInjective(cq)

\* A sleeper's task is in the wheels, and so is the task an awaited
\* operation's timer_task points to, which remove_task dereferences: no
\* rotation and no level-down drops one (Timer::poll, advance_start).
TimersAreKept ==
  /\ \A c \in Clients : who[c] = "asleep" =>
       \E t \in Held(tm) :
         t.owner = c /\ t.gen = gen[c] /\ t.kind = "sleep"
  /\ \A c \in Clients :
       who[c] = "io" /\ timer[c] # NoTask => timer[c] \in Held(tm)

\* A sleep ends no earlier than its deadline less the age the timer's start
\* had when it began and what a clamp took off, whatever is added, removed,
\* levelled and rotated in between (Timer::add_task_impl, poll).
EarlyOnlyByLag ==
  [][\A c \in Clients : \A t \in Held(tm) :
       who[c] = "asleep" /\ who'[c] = "woken"
         /\ t.owner = c /\ t.gen = gen[c]
       => now >= t.deadline - lag[c]]_vars

\* Whatever ticks are missed, an interval that bursts or skips stays on the
\* grid of its period, and one that skips is never left in the past
\* (Interval::next_timeout).
IntervalsKeepTheGrid ==
  [][iv' # iv /\ gen' # gen =>
       /\ iv'.behavior # "Delay" => (iv'.deadline - iv.deadline) % Period = 0
       /\ iv'.behavior # "Burst" => iv'.deadline > now]_vars

\* The waker keeps the promise of WakeSignal through the whole engine.
Signal == INSTANCE WakeSignal WITH
  signal <- counter > 0 \/ cqes > 0,
  asleep <- pc = "waiting"

SignalSpec == Signal!Spec

\* When an operation has completed first, the timer leaves its user data alone
\* (docs), in the drive that finds the completion, too (IOEngine::drive).
FinishedIoIsLeftAlone ==
  [][pc = "poll" =>
       \A t \in Held(tm) \ Held(tm)' :
         t.kind = "io" => who[t.owner] = "io" /\ gen[t.owner] = t.gen]_vars
=============================================================================
