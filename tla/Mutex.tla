------------------------------- MODULE Mutex --------------------------------
(***************************************************************************)
(* The coroutine mutex of faio (sync/mutex.hpp).  _state is one atomic     *)
(* pointer: the mutex's own address when unlocked, nullptr when locked     *)
(* without newcomers, else the head of the LIFO list of Awaiters that have *)
(* come since the holder last looked.  unlock turns that list around into  *)
(* _fifo_awaiters and hands the lock to its first node.                    *)
(*                                                                         *)
(* A list is the sequence of its nodes; a compare-exchange sees its head   *)
(* only.  An Awaiter is named by its coroutine: a coroutine that waits     *)
(* again may well have its Awaiter at the same address.                    *)
(***************************************************************************)
EXTENDS SequencesExt

CONSTANTS
  Coroutines,
  Unlocked,    \* unlocking_state(): the address of the mutex
  Null         \* nullptr, which is locking_state()

ASSUME PointerAssumption ==
  Unlocked # Null /\ {Unlocked, Null} \cap Coroutines = {}

VARIABLES
  free,     \* _state is unlocking_state()
  lifo,     \* the list _state heads when it is not
  fifo,     \* the list _fifo_awaiters heads
  pc,       \* where each coroutine stands
  reg       \* the value of _state it has loaded

vars == <<free, lifo, fifo, pc, reg>>

State == IF free THEN Unlocked ELSE IF lifo = << >> THEN Null ELSE lifo[1]

Init ==
  /\ free = TRUE
  /\ lifo = << >>
  /\ fifo = << >>
  /\ pc = [c \in Coroutines |-> "out"]
  /\ reg = [c \in Coroutines |-> Null]

Goto(c, label) == pc' = [pc EXCEPT ![c] = label]
Load(c) == reg' = [reg EXCEPT ![c] = State]
Forget(c) == reg' = [reg EXCEPT ![c] = Null]

-----------------------------------------------------------------------------
(* co_await mutex.lock().                                                  *)

Lock(c) ==
  /\ pc[c] = "out"
  /\ Load(c)
  /\ Goto(c, "lock")
  /\ UNCHANGED <<free, lifo, fifo>>

\* Mutant of LockFree: the compare-exchange became a store.
LockFreeByStore(c) ==
  /\ pc[c] = "lock"
  /\ reg[c] = Unlocked
  /\ free' = FALSE
  /\ Goto(c, "held")
  /\ Forget(c)
  /\ UNCHANGED <<lifo, fifo>>

\* The mutex looked free, and still is.
LockFree(c) ==
  /\ pc[c] = "lock"
  /\ reg[c] = Unlocked /\ State = Unlocked
  /\ free' = FALSE
  /\ Goto(c, "held")
  /\ Forget(c)
  /\ UNCHANGED <<lifo, fifo>>

\* The mutex looked locked, and _state is what it was: the Awaiter becomes the
\* head of the list, and the coroutine is suspended.
LockWait(c) ==
  /\ pc[c] = "lock"
  /\ reg[c] # Unlocked /\ State = reg[c]
  /\ lifo' = <<c>> \o lifo
  /\ Goto(c, "parked")
  /\ Forget(c)
  /\ UNCHANGED <<free, fifo>>

\* A weak compare-exchange fails, possibly for no reason, and loads _state.
LockRetry(c) ==
  /\ pc[c] = "lock"
  /\ Load(c)
  /\ UNCHANGED <<free, lifo, fifo, pc>>

-----------------------------------------------------------------------------
(* unlock().                                                               *)

\* Hand the lock to the first waiter.  Its handle goes into the unlocking
\* worker's task cache, where nobody else can take it before unlock() has
\* read _fifo_awaiters->_next.
HandOver(c, waiters) ==
  /\ pc' = [pc EXCEPT ![c] = "out", ![Head(waiters)] = "held"]
  /\ fifo' = Tail(waiters)

\* Waiters of an earlier round are left.
UnlockNext(c) ==
  /\ pc[c] = "held"
  /\ ~free /\ fifo # << >>
  /\ HandOver(c, fifo)
  /\ UNCHANGED <<free, lifo, reg>>

\* Otherwise try to unlock, unless newcomers are already seen.  A holder that
\* finds the mutex unlocked terminates the program.
Unlock(c) ==
  /\ pc[c] = "held"
  /\ free \/ fifo = << >>
  /\ Goto(c, IF free THEN "terminated"
             ELSE IF State = Null THEN "unlock" ELSE "take")
  /\ UNCHANGED <<free, lifo, fifo, reg>>

\* Mutant of UnlockCAS: the compare-exchange became a store.
UnlockByStore(c) ==
  /\ pc[c] = "unlock"
  /\ free' = TRUE
  /\ Goto(c, "out")
  /\ UNCHANGED <<lifo, fifo, reg>>

UnlockCAS(c) ==
  /\ pc[c] = "unlock"
  /\ IF State = Null
       THEN free' = TRUE /\ Goto(c, "out")
       ELSE Goto(c, "take") /\ UNCHANGED free
  /\ UNCHANGED <<lifo, fifo, reg>>

\* Mutant of UnlockTake: the list is not turned around.
UnlockTakeLifo(c) ==
  /\ pc[c] = "take"
  /\ lifo # << >>
  /\ lifo' = << >>
  /\ HandOver(c, lifo)
  /\ UNCHANGED <<free, reg>>

\* Take the whole list, reverse it, hand over.
UnlockTake(c) ==
  /\ pc[c] = "take"
  /\ lifo # << >>
  /\ lifo' = << >>
  /\ HandOver(c, Reverse(lifo))
  /\ UNCHANGED <<free, reg>>

-----------------------------------------------------------------------------
(* try_lock(): whatever value of _state it has loaded, the compare-exchange *)
(* replaces that value by locking_state().                                  *)

TryLock(c) ==
  /\ pc[c] = "out"
  /\ Load(c)
  /\ Goto(c, "try")
  /\ UNCHANGED <<free, lifo, fifo>>

TryLockCAS(c) ==
  /\ pc[c] = "try"
  /\ IF State = reg[c]
       THEN free' = FALSE /\ lifo' = << >> /\ Goto(c, "held")
       ELSE Goto(c, "out") /\ UNCHANGED <<free, lifo>>
  /\ Forget(c)
  /\ UNCHANGED fifo

-----------------------------------------------------------------------------
UnlockStep(c) ==
  UnlockNext(c) \/ Unlock(c) \/ UnlockCAS(c) \/ UnlockTake(c)

LockStep(c) == LockFree(c) \/ LockWait(c) \/ LockRetry(c)

Next == \E c \in Coroutines : Lock(c) \/ LockStep(c) \/ UnlockStep(c)

\* Every holder unlocks in the end.
Fairness == \A c \in Coroutines : WF_vars(UnlockStep(c))

\* Coroutines that lock and unlock but never call try_lock.
Spec == Init /\ [][Next]_vars /\ Fairness

TryNext == Next \/ \E c \in Coroutines : TryLock(c) \/ TryLockCAS(c)

\* Coroutines that also call try_lock.
TrySpec == Init /\ [][TryNext]_vars

-----------------------------------------------------------------------------
(* Properties.                                                             *)

Pointers == Coroutines \cup {Unlocked, Null}

\* Types; no holder ever finds the mutex unlocked, which terminates.
TypeOK ==
  /\ free \in BOOLEAN
  /\ lifo \in Seq(Coroutines) /\ fifo \in Seq(Coroutines)
  /\ pc \in [Coroutines ->
               {"out", "lock", "parked", "held", "unlock", "take"}]
  /\ reg \in [Coroutines -> Pointers]

Holds(c) == pc[c] \in {"held", "unlock", "take"}

Holder ==
  IF \E c \in Coroutines : Holds(c)
    THEN CHOOSE c \in Coroutines : Holds(c) ELSE Null

\* The waiters, the one that has waited longest first.
Waiters == fifo \o Reverse(lifo)

\* One holder at a time, an unlock in progress included, and the mutex is
\* unlocked exactly when there is none: no handover is lost between the
\* failed compare-exchange of unlock and its exchange.
MutualExclusion ==
  /\ \A c, d \in Coroutines : Holds(c) /\ Holds(d) => c = d
  /\ free <=> \A c \in Coroutines : ~Holds(c)

\* The two lists hold every suspended coroutine, each exactly once, and an
\* unlocked mutex has none: nobody is left in a list that nobody looks at,
\* and unlock never takes an empty list.
WaitersAreListed ==
  /\ \A c \in Coroutines : pc[c] = "parked" <=> Contains(Waiters, c)
  /\ \A i, j \in DOMAIN Waiters : i # j => Waiters[i] # Waiters[j]
  /\ free => Waiters = << >>
  /\ \A c \in Coroutines : pc[c] = "take" => lifo # << >>

\* docs: first come, first served, by direct handover.
Fifo == INSTANCE FifoLock WITH
  Nobody <- Null, owner <- Holder, queue <- Waiters

\* mutex.hpp and docs: try_lock returns true only if the mutex was unlocked.
TryLockNeedsFree ==
  [][\A c \in Coroutines :
       pc[c] = "try" /\ pc'[c] = "held" => free]_vars
=============================================================================
