-------------------------------- MODULE Sync --------------------------------
(***************************************************************************)
(* The coroutine mutex under each of its uses: by coroutines that only     *)
(* lock and unlock, by a condition variable, and by a channel.             *)
(***************************************************************************)
EXTENDS CondVar, Channel

CONSTANT Roles    \* what the coroutines begin with; Init chooses

FirstActs ==
  {"plain", "wait", "load", "notifier", "producer", "new producer",
   "consumer", "new consumer", "idle"}

Alone(role, first) ==
  \A u, v \in Users : role[u] = first /\ role[v] = first => u = v

\* channel::make returns one handle of each kind.
ASSUME RolesAssumption ==
  \A role \in Roles :
    /\ role \in [Users -> FirstActs]
    /\ Alone(role, "producer") /\ Alone(role, "consumer")

SyncVars == <<vars, clientVars, cvVars, chVars>>

SyncInit ==
  /\ ClientInit
  /\ CvInit
  /\ ChInit
  /\ act \in Roles

UserStep(u) ==
  \/ (PlainLock(u) \/ PlainUnlock(u)) /\ UNCHANGED <<cvVars, chVars>>
  \/ CvStep(u) /\ UNCHANGED chVars
  \/ ChStep(u) /\ UNCHANGED cvVars

MutexStep(p) ==
  (LockSteps(p) \/ UnlockSteps(p)) /\ UNCHANGED <<cvVars, chVars>>

SyncNext ==
  \/ \E p \in Parties : MutexStep(p)
  \/ \E u \in Users : UserStep(u)

SyncSpec == SyncInit /\ [][SyncNext]_SyncVars

\* Coroutines that are ready are run.
SyncFairSpec ==
  /\ SyncSpec
  /\ \A p \in Parties : WF_SyncVars(MutexStep(p))
  /\ \A u \in Users : WF_SyncVars(UserStep(u))

-----------------------------------------------------------------------------
(* Properties.                                                             *)

\* docs: under all its users the mutex is FifoLock: first come, first served,
\* by direct handover.  And everybody who waits gets the lock, unless
\* notifies have raced: a notifier that reads nullptr may hold the mutex.
FifoSpec ==
  /\ Fifo!Init /\ [][Fifo!Next]_Fifo!vars
  /\ Fifo!Releases \/ <>raced
=============================================================================
