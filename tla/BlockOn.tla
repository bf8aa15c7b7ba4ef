------------------------------ MODULE BlockOn -------------------------------
(***************************************************************************)
(* Coroutines and the calls that wait for them: task (coroutine/task.hpp), *)
(* spawn, block_on and wait_all (runtime/context.hpp).                     *)
(*                                                                         *)
(* A caller's thread submits its tasks, each in a wrapper coroutine, and   *)
(* waits for a tracker to count down.  spawn registers a coroutine with    *)
(* the tracker that the WORKER's thread_local current_tracker points to;   *)
(* that pointer stays when a coroutine is suspended and the worker runs    *)
(* another one.  The run queues are abstract here (see Scheduler): a       *)
(* coroutine that is ready may be taken by any worker.  A wrapper and the  *)
(* task in it are one coroutine.                                           *)
(***************************************************************************)
EXTENDS Integers, Sequences, FiniteSets, SequencesExt

CONSTANTS
  Workers,
  Callers,     \* threads that call block_on (one task) or wait_all
  Tasks,       \* each caller's tasks, a sequence of coroutines
  Kids,        \* coroutines the others may spawn or await
  Null,        \* nullptr, or nobody
  MaxParks     \* bound: suspensions in a behaviour

Mains == UNION {ToSet(Tasks[t]) : t \in Callers}
Coros == Mains \cup Kids

ASSUME TasksAssumption ==
  /\ Tasks \in [Callers -> Seq(Mains)]
  /\ \A t \in Callers : Tasks[t] # << >> /\ IsInjective(Tasks[t])
  /\ \A t, u \in Callers : t # u => ToSet(Tasks[t]) \cap ToSet(Tasks[u]) = {}
  /\ Mains \cap Kids = {}
  /\ Null \notin Coros \cup Callers \cup {"value", "exception"}
  /\ IsFiniteSet(Kids) /\ MaxParks \in Nat

VARIABLES
  call,      \* where each caller stands
  pending,   \* pending_count of its tracker
  ready,     \* the tracker's completion is signalled
  slot,      \* result_slot of each task
  at,        \* where each coroutine stands
  running,   \* the coroutine each worker runs
  current,   \* current_tracker of each worker, named by its caller
  prev,      \* prev_tracker in each wrapper
  notify,    \* _on_complete_arg of each coroutine
  awaiter,   \* _caller of each coroutine
  parks,     \* suspensions so far
  tree,      \* ghost: the caller whose task spawned it, however indirectly
  joined,    \* ghost: the coroutines a tracker counted before it reached 0
  crashed    \* std::terminate was called

vars == <<call, pending, ready, slot, at, running, current, prev, notify,
          awaiter, parks, tree, joined, crashed>>

CallerOf(m) == CHOOSE t \in Callers : Contains(Tasks[t], m)

Init ==
  /\ call = [t \in Callers |-> "idle"]
  /\ pending = [t \in Callers |-> 0]
  /\ ready = [t \in Callers |-> FALSE]
  /\ slot = [m \in Mains |-> Null]
  /\ at = [c \in Coros |-> "unborn"]
  /\ running = [w \in Workers |-> Null]
  /\ current = [w \in Workers |-> Null]
  /\ prev = [m \in Mains |-> Null]
  /\ notify = [c \in Coros |-> Null]
  /\ awaiter = [c \in Coros |-> Null]
  /\ parks = 0
  /\ tree = [c \in Coros |-> IF c \in Mains THEN CallerOf(c) ELSE Null]
  /\ joined = [t \in Callers |-> {}]
  /\ crashed = FALSE

-----------------------------------------------------------------------------
(* block_on and wait_all, on the caller's thread.                          *)

\* Mutant of Call: only the first task is counted.
CallCountsFirst(t) ==
  /\ call[t] = "idle"
  /\ pending' = [pending EXCEPT ![t] = 1]
  /\ joined' = [joined EXCEPT ![t] = ToSet(Tasks[t])]
  /\ call' = [call EXCEPT ![t] = "submit"]
  /\ UNCHANGED <<ready, slot, at, running, current, prev, notify, awaiter,
                 parks, tree, crashed>>

\* The tracker is made, and counts every task before one is submitted.
Call(t) ==
  /\ call[t] = "idle"
  /\ pending' = [pending EXCEPT ![t] = Len(Tasks[t])]
  /\ joined' = [joined EXCEPT ![t] = ToSet(Tasks[t])]
  /\ call' = [call EXCEPT ![t] = "submit"]
  /\ UNCHANGED <<ready, slot, at, running, current, prev, notify, awaiter,
                 parks, tree, crashed>>

\* Wrap the next task and push it to the global queue.
Submit(t) ==
  /\ call[t] = "submit"
  /\ \E i \in DOMAIN Tasks[t] :
       /\ \A j \in DOMAIN Tasks[t] : at[Tasks[t][j]] = "unborn" <=> i <= j
       /\ at' = [at EXCEPT ![Tasks[t][i]] = "submitted"]
       /\ call' = [call EXCEPT ![t] =
                     IF i = Len(Tasks[t]) THEN "wait" ELSE "submit"]
  /\ UNCHANGED <<pending, ready, slot, running, current, prev, notify, awaiter,
                 parks, tree, joined, crashed>>

\* wait_all_done() returns.
WaitAllDone(t) ==
  /\ call[t] = "wait" /\ ready[t]
  /\ call' = [call EXCEPT ![t] = "get"]
  /\ UNCHANGED <<pending, ready, slot, at, running, current, prev, notify,
                 awaiter, parks, tree, joined, crashed>>

\* get() waits for each slot in turn, and throws the first exception.
Get(t) ==
  /\ call[t] = "get"
  /\ \E i \in DOMAIN Tasks[t] :
       /\ \A j \in 1 .. i - 1 : slot[Tasks[t][j]] = "value"
       /\ \/ slot[Tasks[t][i]] = "exception"
          \/ slot[Tasks[t][i]] = "value" /\ i = Len(Tasks[t])
  /\ call' = [call EXCEPT ![t] = "returned"]
  /\ UNCHANGED <<pending, ready, slot, at, running, current, prev, notify,
                 awaiter, parks, tree, joined, crashed>>

-----------------------------------------------------------------------------
(* A worker takes a coroutine and resumes it.                              *)

\* A wrapper starts: current_tracker is saved and set.
Enter(w, m) ==
  /\ running[w] = Null /\ at[m] = "submitted"
  /\ running' = [running EXCEPT ![w] = m]
  /\ at' = [at EXCEPT ![m] = "runs"]
  /\ prev' = [prev EXCEPT ![m] = current[w]]
  /\ current' = [current EXCEPT ![w] = CallerOf(m)]
  /\ UNCHANGED <<call, pending, ready, slot, notify, awaiter, parks, tree,
                 joined, crashed>>

Resume(w, c) ==
  /\ running[w] = Null /\ at[c] = "queued"
  /\ running' = [running EXCEPT ![w] = c]
  /\ at' = [at EXCEPT ![c] = "runs"]
  /\ UNCHANGED <<call, pending, ready, slot, current, prev, notify, awaiter,
                 parks, tree, joined, crashed>>

\* It awaits IO, a timer or a lock, and the worker goes on with another one ...
Park(w) ==
  LET c == running[w] IN
  /\ c # Null /\ at[c] = "runs" /\ parks < MaxParks
  /\ running' = [running EXCEPT ![w] = Null]
  /\ at' = [at EXCEPT ![c] = "parked"]
  /\ parks' = parks + 1
  /\ UNCHANGED <<call, pending, ready, slot, current, prev, notify, awaiter,
                 tree, joined, crashed>>

\* ... until it has happened.
Wake(c) ==
  /\ at[c] = "parked"
  /\ at' = [at EXCEPT ![c] = "queued"]
  /\ UNCHANGED <<call, pending, ready, slot, running, current, prev, notify,
                 awaiter, parks, tree, joined, crashed>>

\* It has counted down, or nobody counts it.
Ended(c) == at[c] \in {"signals", "signals, throws", "done"}

\* Mutant of Spawn: the callback is set, register_subtask is not called.
SpawnUnregistered(w, k) ==
  LET c == running[w] IN
  /\ c # Null /\ at[c] = "runs" /\ at[k] = "unborn"
  /\ at' = [at EXCEPT ![k] = "queued"]
  /\ tree' = [tree EXCEPT ![k] = tree[c]]
  /\ notify' = [notify EXCEPT ![k] = current[w]]
  /\ joined' = IF current[w] = Null THEN joined
               ELSE [joined EXCEPT ![current[w]] = @ \cup {k}]
  /\ UNCHANGED <<call, pending, ready, slot, running, current, prev, awaiter,
                 parks, crashed>>

\* spawn: registered with this worker's current_tracker, if it has one.
Spawn(w, k) ==
  LET c == running[w]  t == current[w] IN
  /\ c # Null /\ at[c] = "runs" /\ at[k] = "unborn"
  /\ at' = [at EXCEPT ![k] = "queued"]
  /\ tree' = [tree EXCEPT ![k] = tree[c]]
  /\ IF t = Null
       THEN UNCHANGED <<pending, notify, joined>>
       ELSE /\ pending' = [pending EXCEPT ![t] = @ + 1]
            /\ notify' = [notify EXCEPT ![k] = t]
            /\ joined' = IF \A d \in joined[t] : Ended(d) THEN joined
                         ELSE [joined EXCEPT ![t] = @ \cup {k}]
  /\ UNCHANGED <<call, ready, slot, running, current, prev, awaiter, parks,
                 crashed>>

\* co_await a task: control goes to it at once, on this worker.
Await(w, k) ==
  LET c == running[w] IN
  /\ c # Null /\ at[c] = "runs" /\ at[k] = "unborn"
  /\ at' = [at EXCEPT ![k] = "runs", ![c] = "awaits"]
  /\ running' = [running EXCEPT ![w] = k]
  /\ awaiter' = [awaiter EXCEPT ![k] = c]
  /\ tree' = [tree EXCEPT ![k] = tree[c]]
  /\ UNCHANGED <<call, pending, ready, slot, current, prev, notify, parks,
                 joined, crashed>>

-----------------------------------------------------------------------------
(* A coroutine ends.                                                       *)

\* complete_subtask: whoever counts down to 0 signals, in a later step.
CountDown(w, c, t) ==
  /\ pending' = [pending EXCEPT ![t] = @ - 1]
  /\ IF pending[t] = 1
       THEN at' = [at EXCEPT ![c] = "signals"] /\ UNCHANGED running
       ELSE /\ at' = [at EXCEPT ![c] = "done"]
            /\ running' = [running EXCEPT ![w] = Null]

\* An awaited task: its awaiter goes on, on this worker.
FinishAwaited(w) ==
  LET c == running[w] IN
  /\ c \in Kids /\ at[c] = "runs" /\ awaiter[c] # Null
  /\ at' = [at EXCEPT ![c] = "done", ![awaiter[c]] = "runs"]
  /\ running' = [running EXCEPT ![w] = awaiter[c]]
  /\ UNCHANGED <<call, pending, ready, slot, current, prev, notify, awaiter,
                 parks, tree, joined, crashed>>

\* A spawned coroutine: final_awaiter runs _on_complete.
FinishSpawned(w) ==
  LET c == running[w] IN
  /\ c \in Kids /\ at[c] = "runs" /\ awaiter[c] = Null
  /\ IF notify[c] # Null
       THEN CountDown(w, c, notify[c])
       ELSE /\ at' = [at EXCEPT ![c] = "done"]
            /\ running' = [running EXCEPT ![w] = Null]
            /\ UNCHANGED pending
  /\ UNCHANGED <<call, ready, slot, current, prev, notify, awaiter, parks,
                 tree, joined, crashed>>

\* ... and terminates the program when it ended by an exception.
FinishThrowing(w) ==
  LET c == running[w] IN
  /\ c \in Kids /\ at[c] = "runs" /\ awaiter[c] = Null
  /\ IF notify[c] # Null /\ pending[notify[c]] = 1
       THEN at' = [at EXCEPT ![c] = "signals, throws"] /\ UNCHANGED crashed
       ELSE at' = [at EXCEPT ![c] = "done"] /\ crashed' = TRUE
  /\ pending' = IF notify[c] = Null THEN pending
                ELSE [pending EXCEPT ![notify[c]] = @ - 1]
  /\ UNCHANGED <<call, ready, slot, running, current, prev, notify, awaiter,
                 parks, tree, joined>>

\* The task in a wrapper returned or threw: the wrapper fills the slot ...
FillSlot(w) ==
  LET m == running[w] IN
  /\ m \in Mains /\ at[m] = "runs"
  /\ \E result \in {"value", "exception"} :
       slot' = [slot EXCEPT ![m] = result]
  /\ at' = [at EXCEPT ![m] = "filled"]
  /\ UNCHANGED <<call, pending, ready, running, current, prev, notify, awaiter,
                 parks, tree, joined, crashed>>

\* Mutant of LeaveWrapper: an exception skips the end of the wrapper.
LeaveWrapperIfNoThrow(w) ==
  LET m == running[w] IN
  /\ m \in Mains /\ at[m] = "filled"
  /\ IF slot[m] = "value"
       THEN /\ current' = [current EXCEPT ![w] = prev[m]]
            /\ CountDown(w, m, CallerOf(m))
       ELSE /\ at' = [at EXCEPT ![m] = "done"]
            /\ running' = [running EXCEPT ![w] = Null]
            /\ UNCHANGED <<current, pending>>
  /\ UNCHANGED <<call, ready, slot, prev, notify, awaiter, parks, tree, joined,
                 crashed>>

\* ... puts prev_tracker into the current_tracker of the worker it is on now,
\* and counts down.
LeaveWrapper(w) ==
  LET m == running[w] IN
  /\ m \in Mains /\ at[m] = "filled"
  /\ current' = [current EXCEPT ![w] = prev[m]]
  /\ CountDown(w, m, CallerOf(m))
  /\ UNCHANGED <<call, ready, slot, prev, notify, awaiter, parks, tree, joined,
                 crashed>>

\* mark_ready.
Signal(w) ==
  LET c == running[w] IN
  /\ c # Null /\ at[c] \in {"signals", "signals, throws"}
  /\ ready' = [ready EXCEPT ![IF c \in Mains THEN CallerOf(c)
                              ELSE notify[c]] = TRUE]
  /\ at' = [at EXCEPT ![c] = "done"]
  /\ running' = [running EXCEPT ![w] = Null]
  /\ crashed' = (at[c] = "signals, throws")
  /\ UNCHANGED <<call, pending, slot, current, prev, notify, awaiter, parks,
                 tree, joined>>

-----------------------------------------------------------------------------
CallStep(t) == Call(t) \/ Submit(t) \/ WaitAllDone(t) \/ Get(t)

WorkStep(w) ==
  \/ \E m \in Mains : Enter(w, m)
  \/ \E c \in Coros : Resume(w, c)
  \/ Park(w)
  \/ \E k \in Kids : Spawn(w, k) \/ Await(w, k)
  \/ FinishAwaited(w) \/ FinishSpawned(w) \/ FinishThrowing(w)
  \/ FillSlot(w) \/ LeaveWrapper(w) \/ Signal(w)

Next ==
  /\ ~crashed
  /\ \/ \E t \in Callers : CallStep(t)
     \/ \E w \in Workers : WorkStep(w)
     \/ \E c \in Coros : Wake(c)

Fairness ==
  /\ \A t \in Callers : WF_vars(~crashed /\ CallStep(t))
  /\ \A w \in Workers : WF_vars(~crashed /\ WorkStep(w))
  /\ \A c \in Coros : WF_vars(~crashed /\ Wake(c))

Spec == Init /\ [][Next]_vars /\ Fairness

-----------------------------------------------------------------------------
(* Properties.                                                             *)

Standing ==
  {"unborn", "submitted", "queued", "runs", "parked", "awaits", "filled",
   "signals", "signals, throws", "done"}

\* Types; pending_count, a std::size_t, never wraps below zero.
TypeOK ==
  /\ call \in [Callers -> {"idle", "submit", "wait", "get", "returned"}]
  /\ pending \in [Callers -> Nat]
  /\ ready \in [Callers -> BOOLEAN]
  /\ slot \in [Mains -> {"value", "exception", Null}]
  /\ at \in [Coros -> Standing]
  /\ running \in [Workers -> Coros \cup {Null}]
  /\ current \in [Workers -> Callers \cup {Null}]
  /\ prev \in [Mains -> Callers \cup {Null}]
  /\ notify \in [Coros -> Callers \cup {Null}]
  /\ awaiter \in [Coros -> Coros \cup {Null}]
  /\ parks \in 0 .. MaxParks
  /\ tree \in [Coros -> Callers \cup {Null}]
  /\ joined \in [Callers -> SUBSET Coros]
  /\ crashed \in BOOLEAN

\* context.hpp: block_on and wait_all return only when their tasks, and all
\* the coroutines registered while the count was above zero, have ended,
\* whoever registered them and whichever workers they ran on.
WaitsForRegistered ==
  \A t \in Callers :
    ready[t] \/ call[t] \in {"get", "returned"}
      => \A c \in joined[t] : Ended(c)

\* The slots a call reads are filled before its tracker is signalled: get()
\* never blocks, and the wrappers write to slots that still exist.
SlotsAreFilled ==
  \A t \in Callers : ready[t] => \A m \in ToSet(Tasks[t]) : slot[m] # Null

\* Every call returns in the end, although coroutines of other calls were
\* registered with its tracker.
CallsReturn ==
  \A t \in Callers : <>(call[t] = "returned" \/ crashed)

\* docs: block_on returns only when all sub-tasks spawned by its
\* main task have ended as well.
WaitsForSpawned ==
  \A t \in Callers :
    call[t] = "returned"
      => \A c \in Coros : tree[c] = t => Ended(c)
=============================================================================
