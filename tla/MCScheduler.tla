---------------------------- MODULE MCScheduler -----------------------------
(* Scheduler on small instances.                                           *)
EXTENDS Scheduler

Symmetry == Permutations(Workers) \cup Permutations(Waiters)
            \cup Permutations(Tasks \ Waiters)
=============================================================================
