------------------------------ MODULE FifoLock ------------------------------
(***************************************************************************)
(* What sync::mutex promises to coroutines: one owner at a time, and those *)
(* that had to wait get the lock in the order in which they began to wait, *)
(* each of them handed it directly by its predecessor.                     *)
(***************************************************************************)
EXTENDS Sequences

CONSTANTS Coroutines, Nobody
VARIABLES owner, queue

vars == <<owner, queue>>

Init == owner = Nobody /\ queue = << >>

Waiting(c) == \E i \in DOMAIN queue : queue[i] = c

\* A free lock is taken at once; only a free one can be.
Acquire(c) ==
  /\ owner = Nobody /\ queue = << >>
  /\ owner' = c
  /\ UNCHANGED queue

Enqueue(c) ==
  /\ owner \notin {Nobody, c} /\ ~Waiting(c)
  /\ queue' = Append(queue, c)
  /\ UNCHANGED owner

Release ==
  /\ owner # Nobody
  /\ IF queue = << >>
       THEN owner' = Nobody /\ UNCHANGED queue
       ELSE owner' = Head(queue) /\ queue' = Tail(queue)

Next ==
  \/ \E c \in Coroutines : Acquire(c) \/ Enqueue(c)
  \/ Release

\* An owner lets the lock go in the end.
Releases == WF_vars(Release)

Spec == Init /\ [][Next]_vars /\ Releases
=============================================================================
