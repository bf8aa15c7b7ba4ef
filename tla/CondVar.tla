------------------------------ MODULE CondVar -------------------------------
(***************************************************************************)
(* The condition variable of faio (sync/condition_variable.hpp): a         *)
(* lock-free LIFO list of Awaiters beside a coroutine mutex.  wait pushes  *)
(* its Awaiter while it holds the mutex and unlocks afterwards; the        *)
(* notify calls take nodes off the list, with or without the mutex.        *)
(*                                                                         *)
(* Its users here share a number of tokens: a waiter waits for one and     *)
(* takes it, a notifier adds one and notifies.  A user's Awaiter has the   *)
(* same address each time it waits.                                        *)
(*                                                                         *)
(* Any number of users notify, as nothing in the code keeps them apart.    *)
(* The loop of notify_one reads _next of a node that another notify may    *)
(* have taken off meanwhile, or of nullptr when the list has been emptied: *)
(* raced remembers that a notify took nodes off under another.  Where the  *)
(* program has no behaviour left (nullptr is read, a coroutine that is not *)
(* suspended is resumed) the notifier takes no further step.               *)
(***************************************************************************)
EXTENDS LockClients

CONSTANT MaxTokens    \* bound: tokens a notifier hands out

VARIABLES
  head,      \* _awaiters
  next,      \* _next of each user's Awaiter
  seen,      \* notify_one: the head it has loaded, and the _next it has read
  tokens,    \* what the predicate of wait looks at
  given,     \* tokens handed out so far
  raced      \* history: nodes were taken off while another notify was at work

cvVars == <<head, next, seen, tokens, given, raced>>

CvInit ==
  /\ head = Null
  /\ next = [u \in Users |-> Null]
  /\ seen = [u \in Users |-> <<Null, Null>>]
  /\ tokens = 0
  /\ given = 0
  /\ raced = FALSE

\* The nodes of the list, in its order.
Chain ==
  LET at[k \in 1 .. Cardinality(Users) + 1] ==
        IF k = 1 THEN head
        ELSE IF at[k - 1] = Null THEN Null ELSE next[at[k - 1]]
  IN  [k \in 1 .. Cardinality({i \in DOMAIN at : at[i] # Null}) |-> at[k]]

\* Another notify_one is between its load of the head and its exchange.
Races(u) == \E w \in Users \ {u} : act[w] \in {"read", "pop"}

-----------------------------------------------------------------------------
(* co_await mutex.lock(); co_await cv.wait(mutex, tokens > 0);             *)
(* take one; mutex.unlock().                                               *)

WaitBegin(u) == act[u] = "wait" /\ BeginLock(u, "test") /\ UNCHANGED cvVars

\* The predicate, in wait's loop.
WaitTest(u) ==
  /\ act[u] = "test" /\ Inside(u)
  /\ IF tokens > 0
       THEN tokens' = tokens - 1 /\ Leave(u, "served")
       ELSE Become(u, "push") /\ UNCHANGED <<ticket, leaving, tokens>>
  /\ UNCHANGED <<vars, head, next, seen, given, raced>>

\* Mutant of WaitSuspend: the Awaiter is pushed after the mutex is unlocked.
WaitUnlockFirst(u) ==
  /\ act[u] = "push"
  /\ IF Inside(u)
       THEN Leave(u, "push") /\ UNCHANGED <<head, next>>
       ELSE /\ next' = [next EXCEPT ![u] = head]
            /\ head' = u
            /\ Become(u, "asleep")
            /\ UNCHANGED <<ticket, leaving>>
  /\ UNCHANGED <<vars, seen, tokens, given, raced>>

\* await_suspend: push, then the guard's destructor unlocks.  The weak
\* compare-exchange that publishes the node reloads _next until it succeeds.
WaitSuspend(u) ==
  /\ act[u] = "push" /\ Inside(u)
  /\ next' = [next EXCEPT ![u] = head]
  /\ head' = u
  /\ Leave(u, "asleep")
  /\ UNCHANGED <<vars, seen, tokens, given, raced>>

\* Notified: co_await mutex.lock() again, even before that unlock is over.
WaitAgain(u) == act[u] = "notified" /\ BeginLock(u, "test") /\ UNCHANGED cvVars

-----------------------------------------------------------------------------
(* co_await mutex.lock(); add a token; then notify and unlock in either    *)
(* order.                                                                  *)

NotifierBegin(u) ==
  /\ act[u] = "notifier" /\ given < MaxTokens
  /\ BeginLock(u, "give")
  /\ UNCHANGED cvVars

Give(u) ==
  /\ act[u] = "give" /\ Inside(u)
  /\ tokens' = tokens + 1
  /\ given' = given + 1
  /\ \/ Become(u, "load") /\ UNCHANGED <<ticket, leaving>>
     \/ Leave(u, "load")
  /\ UNCHANGED <<vars, head, next, seen, raced>>

Notified(u, label) ==
  IF Inside(u) THEN Leave(u, label)
  ELSE Become(u, label) /\ UNCHANGED <<ticket, leaving>>

\* notify_one: load the head, and return when there is none.
NotifyLoad(u) ==
  /\ act[u] = "load"
  /\ seen' = [seen EXCEPT ![u] = <<head, Null>>]
  /\ IF head = Null
       THEN Notified(u, "notifier")
       ELSE Become(u, "read") /\ UNCHANGED <<ticket, leaving>>
  /\ UNCHANGED <<vars, head, next, tokens, given, raced>>

\* ... read its _next, an argument of the compare-exchange: anything, when the
\* Awaiter is one of a coroutine that has been resumed ...
NotifyRead(u) ==
  /\ act[u] = "read" /\ seen[u][1] # Null
  /\ \E n \in IF act[seen[u][1]] = "asleep" THEN {next[seen[u][1]]}
               ELSE Users \cup {Null} :
       seen' = [seen EXCEPT ![u] = <<seen[u][1], n>>]
  /\ Become(u, "pop")
  /\ UNCHANGED <<vars, ticket, leaving, head, next, tokens, given, raced>>

\* Mutant of NotifyPop: a plain store instead of the compare-exchange.
NotifyPopByStore(u) ==
  /\ act[u] = "pop"
  /\ head' = seen[u][2]
  /\ next' = [next EXCEPT ![seen[u][1]] = Null]
  /\ act' = [act EXCEPT ![u] = "notifier", ![seen[u][1]] = "notified"]
  /\ leaving' = IF Inside(u) THEN leaving \cup {Mine(u)} ELSE leaving
  /\ raced' = (raced \/ Races(u))
  /\ UNCHANGED <<vars, ticket, seen, tokens, given>>

\* ... and take the node off, push its coroutine on the run queue; or start
\* again with the head the failed compare-exchange has loaded.
NotifyPop(u) ==
  /\ act[u] = "pop"
  /\ IF head = seen[u][1]
       THEN /\ act[head] = "asleep"
            /\ head' = seen[u][2]
            /\ next' = [next EXCEPT ![head] = Null]
            /\ act' = [act EXCEPT ![u] = "notifier", ![head] = "notified"]
            /\ leaving' = IF Inside(u) THEN leaving \cup {Mine(u)}
                          ELSE leaving
            /\ raced' = (raced \/ Races(u))
            /\ UNCHANGED seen
       ELSE /\ seen' = [seen EXCEPT ![u] = <<head, Null>>]
            /\ Become(u, "read")
            /\ UNCHANGED <<head, next, leaving, raced>>
  /\ UNCHANGED <<vars, ticket, tokens, given>>

\* Mutant of NotifyAll: only the first node of the chain is resumed.
NotifyAllFirst(u) ==
  /\ act[u] = "load"
  /\ head' = Null
  /\ act' = [w \in Users |->
               IF w = u THEN "notifier"
               ELSE IF head = w THEN "notified" ELSE act[w]]
  /\ leaving' = IF Inside(u) THEN leaving \cup {Mine(u)} ELSE leaving
  /\ raced' = (raced \/ Races(u))
  /\ UNCHANGED <<vars, ticket, next, seen, tokens, given>>

\* notify_all: take the whole list off, and resume every node of it.
NotifyAll(u) ==
  /\ act[u] = "load"
  /\ \A w \in Users : Contains(Chain, w) => act[w] = "asleep"
  /\ head' = Null
  /\ act' = [w \in Users |->
               IF w = u THEN "notifier"
               ELSE IF Contains(Chain, w) THEN "notified" ELSE act[w]]
  /\ leaving' = IF Inside(u) THEN leaving \cup {Mine(u)} ELSE leaving
  /\ raced' = (raced \/ Races(u))
  /\ UNCHANGED <<vars, ticket, next, seen, tokens, given>>

-----------------------------------------------------------------------------
CvStep(u) ==
  \/ WaitBegin(u) \/ WaitTest(u) \/ WaitSuspend(u) \/ WaitAgain(u)
  \/ NotifierBegin(u) \/ Give(u) \/ NotifyLoad(u) \/ NotifyRead(u)
  \/ NotifyPop(u) \/ NotifyAll(u)

-----------------------------------------------------------------------------
(* Properties.                                                             *)

\* A coroutine that waits is in the list exactly once, and nobody else is.
ListOfSleepers ==
  /\ \A u \in Users : act[u] = "asleep" <=> Contains(Chain, u)
  /\ \A i, j \in DOMAIN Chain : i # j => Chain[i] # Chain[j]

\* condition_variable.hpp: as long as no notify has taken nodes off under
\* another, no notify loses a node or resumes one twice, and none is left with
\* a node of a coroutine that runs, whatever is pushed meanwhile and however
\* many notifiers follow each other, with the mutex or without.
SleepersAreChained == raced \/ ListOfSleepers

\* The wakeup is not lost between the test of the predicate and the
\* suspension: when a coroutine sleeps although there is a token, a notify is
\* still to come or another waiter is on its way to the token.
NoLostNotify ==
  \/ raced
  \/ tokens > 0 /\ (\E u \in Users : act[u] = "asleep")
       => \E u \in Users :
            act[u] \in {"load", "read", "pop", "notified", "test", "push"}

\* docs: notify_one and notify_all wake those who wait.  With no fewer tokens
\* than waiters, everybody who sleeps is served in the end, unless a notify
\* has taken nodes off under another.
WaitersAreServed ==
  \A u \in Users : act[u] = "asleep" ~> act[u] = "served" \/ raced

\* Every notify is called with the mutex locked, which nothing in the code
\* asks for: a rule of use under which notifies never race.
NotifiersHoldMutex ==
  \A u \in Users : act[u] \in {"load", "read", "pop"} => Inside(u)
=============================================================================
