------------------------------ MODULE TaskPool ------------------------------
(***************************************************************************)
(* What the run queues of faio's workers promise together, whatever moves  *)
(* a task makes between them: a task is executed once at most, and after   *)
(* its submission; only the closing of the global queue takes one away     *)
(* unexecuted.  That a ready task is executed in the end is no promise of  *)
(* theirs: a worker serves its task cache before its queue.                *)
(***************************************************************************)
CONSTANT Tasks
VARIABLES state, closed

vars == <<state, closed>>

Init ==
  /\ state = [t \in Tasks |-> "new"]
  /\ closed = FALSE

Submit(t) ==
  /\ state[t] = "new"
  /\ state' = [state EXCEPT ![t] = "ready"]
  /\ UNCHANGED closed

Execute(t) ==
  /\ state[t] = "ready"
  /\ state' = [state EXCEPT ![t] = "done"]
  /\ UNCHANGED closed

\* A push that throws drops every task of the batch.
Drop(S) ==
  /\ closed
  /\ \A t \in S : state[t] \in {"new", "ready"}
  /\ state' = [t \in Tasks |-> IF t \in S THEN "dropped" ELSE state[t]]
  /\ UNCHANGED closed

Close ==
  /\ closed' = TRUE
  /\ UNCHANGED state

Next ==
  \/ \E t \in Tasks : Submit(t) \/ Execute(t)
  \/ \E S \in SUBSET Tasks : Drop(S)
  \/ Close

Spec == Init /\ [][Next]_vars
=============================================================================
