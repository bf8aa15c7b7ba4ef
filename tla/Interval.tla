------------------------------ MODULE Interval ------------------------------
(***************************************************************************)
(* The periodic timer of faio (time/interval.hpp): the instant of the next *)
(* tick, which tick() computes when it is called, before it sleeps.        *)
(***************************************************************************)
EXTENDS Integers

CONSTANT Period

ASSUME PeriodAssumption == Period \in Nat \ {0}

Behaviors == {"Burst", "Delay", "Skip"}

\* Interval: the first tick is one period after the start.
NewInterval(start) == [deadline |-> start + Period, behavior |-> "Burst"]

\* Mutant of NextTimeout: Skip forgets to go past the last missed tick.
NextTimeoutSkipShort(iv, now) ==
  CASE iv.behavior = "Delay" -> now + Period
    [] iv.behavior = "Skip" /\ iv.deadline < now ->
         iv.deadline + ((now - iv.deadline) \div Period) * Period
    [] OTHER -> iv.deadline + Period

NextTimeout(iv, now) ==
  CASE iv.behavior = "Delay" -> now + Period
    [] iv.behavior = "Skip" /\ iv.deadline < now ->
         iv.deadline + ((now - iv.deadline) \div Period + 1) * Period
    [] OTHER -> iv.deadline + Period

\* tick: the Sleep it returns ends at the deadline from before.
Ticked(iv, now) == [iv EXCEPT !.deadline = NextTimeout(iv, now)]

\* set_missed_tick_behavior.
Behaving(iv, behavior) == [iv EXCEPT !.behavior = behavior]

\* reset, reset_immediately, reset_after and reset_at: a new deadline.
Reset(iv, deadline) == [iv EXCEPT !.deadline = deadline]
=============================================================================
