------------------------------- MODULE Waker --------------------------------
(***************************************************************************)
(* The Waker of one worker (io/uring/waker.hpp): an eventfd other threads  *)
(* write, a read of it that start_watch prepares, and the completion of    *)
(* that read, which the kernel posts whenever it likes.  IoEngine composes *)
(* it with the ring and the timer.                                         *)
(***************************************************************************)
EXTENDS Integers

CONSTANT MaxCount   \* the largest value the eventfd's counter takes

ASSUME WakerAssumption == MaxCount \in Nat \ {0}

VARIABLES
  counter,   \* the eventfd
  flag,      \* Waker::_flag, the buffer of the read
  reading,   \* the read is submitted and has not completed
  cqes       \* completions of reads (null user data) in the completion queue

wakerVars == <<counter, flag, reading, cqes>>

\* Mutant of WakerInit: _flag starts at 0, as if a read were in flight.
InitUnwatched == counter = 0 /\ flag = 0 /\ reading = FALSE /\ cqes = 0

WakerInit == counter = 0 /\ flag = 1 /\ reading = FALSE /\ cqes = 0

\* Mutant of WakeUp: every write succeeds.
WakeUpNeverFull == counter' = counter + 1 /\ UNCHANGED <<flag, reading, cqes>>

\* wake_up, by any thread.  A write to a full counter fails with EAGAIN and
\* is ignored: there is a wakeup already.
WakeUp ==
  /\ counter' = IF counter < MaxCount THEN counter + 1 ELSE counter
  /\ UNCHANGED <<flag, reading, cqes>>

\* The kernel completes the read: the value goes to _flag, the counter to 0.
ReadCompletes ==
  /\ reading /\ counter > 0
  /\ flag' = counter
  /\ counter' = 0
  /\ reading' = FALSE
  /\ cqes' = cqes + 1

\* Mutant of StartWatch: the flag is not reset, so that every call reads.
StartWatchAlways ==
  /\ reading' = (reading \/ flag # 0)
  /\ UNCHANGED <<counter, flag, cqes>>

\* start_watch, and the submission that follows it: a new read when the last
\* one has put a value into _flag, whether or not its completion was seen.
StartWatch ==
  /\ flag' = 0
  /\ reading' = (reading \/ flag # 0)
  /\ UNCHANGED <<counter, cqes>>

\* drive skips the null completions and consumes those of its batch.
SkipNulls ==
  /\ cqes' \in 0 .. cqes
  /\ UNCHANGED <<counter, flag, reading>>
=============================================================================
