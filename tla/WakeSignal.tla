----------------------------- MODULE WakeSignal -----------------------------
(***************************************************************************)
(* What a worker's Waker promises the Scheduler: a wakeup given at any     *)
(* moment, also between the worker's last look at its completions and its  *)
(* wait, ends that wait; wakeups may merge, and none is forgotten until    *)
(* the engine has been driven.                                             *)
(***************************************************************************)
VARIABLES
  signal,   \* a wakeup has been given and not been driven
  asleep    \* the worker is in IOuring::wait

vars == <<signal, asleep>>

Init == signal = FALSE /\ asleep = FALSE

WakeUp == signal' = TRUE /\ UNCHANGED asleep

\* Driving the engine may clear the signal, or come too early for it.
Drive ==
  /\ ~asleep
  /\ signal' \in {FALSE, signal}
  /\ UNCHANGED asleep

Wait ==
  /\ asleep' = TRUE
  /\ UNCHANGED signal

Return ==
  /\ asleep' = FALSE
  /\ UNCHANGED signal

Next == WakeUp \/ Drive \/ Wait \/ Return

Spec == Init /\ [][Next]_vars /\ WF_vars(signal /\ asleep /\ Return)
=============================================================================
