---------------------------- MODULE LockClients -----------------------------
(***************************************************************************)
(* Coroutines that use the mutex of Mutex.tla inside a larger operation.   *)
(* An awaiter that suspends its coroutine unlocks the mutex afterwards     *)
(* (std::lock_guard with adopt_lock), on a worker thread that goes on      *)
(* unlocking while the coroutine may already run again elsewhere and lock. *)
(* Each user therefore has two Awaiters of the mutex, and takes for a new  *)
(* lock() the one that its last, perhaps unfinished, unlock() does not use.*)
(***************************************************************************)
EXTENDS Mutex, FiniteSets

CONSTANT Users

Parties == Users \X {1, 2}

\* The mutex is locked by the parties.
ASSUME ClientsAssumption ==
  Coroutines = Parties /\ IsFiniteSet(Users) /\ Null \notin Users

VARIABLES
  act,       \* what each user does, or waits for
  ticket,    \* which of its Awaiters a user's current or last lock() uses
  leaving    \* parties whose lock_guard is being destroyed

clientVars == <<act, ticket, leaving>>

Mine(u) == <<u, ticket[u]>>
Other(u) == <<u, 3 - ticket[u]>>

\* Inside the critical section: locked, and unlock() not called yet.
Inside(u) == pc[Mine(u)] = "held" /\ Mine(u) \notin leaving

ClientInit ==
  /\ Init
  /\ ticket = [u \in Users |-> 1]
  /\ leaving = {}

\* co_await mutex.lock(), with the Awaiter that is not in use.
BeginLock(u, label) ==
  /\ \/ pc[Mine(u)] = "out" /\ Lock(Mine(u)) /\ UNCHANGED ticket
     \/ /\ pc[Mine(u)] # "out" /\ Lock(Other(u))
        /\ ticket' = [ticket EXCEPT ![u] = 3 - @]
  /\ act' = [act EXCEPT ![u] = label]
  /\ UNCHANGED leaving

\* The critical section ends; UnlockSteps follow.
Become(u, label) == act' = [act EXCEPT ![u] = label]

Leave(u, label) ==
  /\ leaving' = leaving \cup {Mine(u)}
  /\ Become(u, label)
  /\ UNCHANGED ticket

LockSteps(p) == LockStep(p) /\ UNCHANGED clientVars

UnlockSteps(p) ==
  /\ p \in leaving
  /\ UnlockStep(p)
  /\ leaving' = IF pc'[p] = "out" THEN leaving \ {p} ELSE leaving
  /\ UNCHANGED <<act, ticket>>

\* A user that only locks and unlocks, forever.
PlainLock(u) == act[u] = "plain" /\ BeginLock(u, "plain locked")

PlainUnlock(u) ==
  /\ act[u] = "plain locked" /\ Inside(u)
  /\ Leave(u, "plain")
  /\ UNCHANGED vars
=============================================================================
