----------------------------- MODULE TimerWheel -----------------------------
(***************************************************************************)
(* The timer of one worker (runtime/core/timer/): hierarchical timing      *)
(* wheels whose root is of a level that follows the longest interval.      *)
(*                                                                         *)
(* A wheel of level l is SlotSize wheels of level l - 1; the levels below  *)
(* the root only split a task's position, from the root's first slot, into *)
(* its digits.  So a timer is the level of its root, the position of every *)
(* task in it, and the instant position 0 is taken to stand for.  A task   *)
(* is a record with a deadline; instants are milliseconds.                 *)
(***************************************************************************)
EXTENDS Integers, FiniteSetsExt, Functions

CONSTANTS
  SlotSize,    \* SLOT_SIZE
  MaxLevel     \* MAX_LEVEL

ASSUME WheelAssumption == SlotSize \in Nat \ {0, 1} /\ MaxLevel \in Nat

NoWheel == -1   \* the level of the root when it is std::monostate

\* util::static_pow, of SLOT_SIZE.
Power[n \in 0 .. MaxLevel + 1] ==
  IF n = 0 THEN 1 ELSE SlotSize * Power[n - 1]

ChildSpan(level) == Power[level]
Span(level) == Power[level + 1]

\* A timer made at an instant.
NewTimer(now) ==
  [start |-> now, entries |-> 0, level |-> NoWheel,
   hollow |-> FALSE,     \* a level-up has left an empty wheel in slot 0
   place |-> <<>>]       \* the position of every task in the wheels

Held(tm) == DOMAIN tm.place
Elapsed(tm, now) == now - tm.start

-----------------------------------------------------------------------------
\* ensure_capacity and level_up: the lowest root that spans the interval.
LevelFor(tm, interval) ==
  Min({l \in 0 .. MaxLevel :
         l >= tm.level /\ (interval < Span(l) \/ l = MaxLevel)})

\* TimerWheel::add_task; an interval beyond the top level is clamped.
Position(level, interval) ==
  IF interval < Span(level) THEN interval
  ELSE (SlotSize - 1) * ChildSpan(level) + (interval % ChildSpan(level))

\* The position is counted from now, not from start.
Relative(tm, d, now) == Max({d - tm.start - Elapsed(tm, now), 0})

\* ghost: how far before its deadline a task added now is placed: the age of
\* the timer's start, and what the clamp takes off.
Lead(tm, d, now) ==
  LET interval == Relative(tm, d, now)
  IN  Elapsed(tm, now)
      + (IF interval < Span(MaxLevel) THEN 0
         ELSE interval - Position(MaxLevel, interval))

AddTask(tm, t, now) ==
  LET interval == Relative(tm, t.deadline, now)
      level == LevelFor(tm, interval)
  IN  [tm EXCEPT !.level = level,
                 !.hollow = @ \/ (Held(tm) = {} /\ level > 0),
                 !.place = [u \in Held(tm) \cup {t} |->
                              IF u = t THEN Position(level, interval) ELSE @[u]],
                 !.entries = @ + 1]

\* try_level_down: drop the root while only its first slot is used, and the
\* last wheel when it is empty.
LevelDown(tm) ==
  IF Held(tm) = {} THEN [tm EXCEPT !.level = NoWheel, !.hollow = FALSE]
  ELSE [tm EXCEPT !.level =
          Min({l \in 0 .. tm.level :
                 \A k \in l + 1 .. tm.level :
                   \A t \in Held(tm) : tm.place[t] < ChildSpan(k)})]

\* The slot remove_task looks in: computed from the time left now.
RemovalSlot(tm, t, now) ==
  IF tm.level = 0 THEN (t.deadline - now) % SlotSize ELSE t.deadline - now

\* remove_task: nothing for a task that is due.  A task that is not in the
\* slot searched stays in its wheel, but is counted no more.
RemoveTask(tm, t, now) ==
  LET slot == RemovalSlot(tm, t, now)
      kept == {u \in Held(tm) : u # t \/ tm.place[u] # slot}
  IN  IF t.deadline <= now \/ tm.level = NoWheel THEN tm
      ELSE LevelDown([tm EXCEPT !.place = Restrict(@, kept),
                                !.hollow = @ /\ slot >= SlotSize,
                                !.entries = Max({@ - 1, 0})])

-----------------------------------------------------------------------------
\* handle_expired_tasks: the tasks poll executes.
Expired(tm, now) ==
  IF tm.entries = 0 THEN {}
  ELSE {t \in Held(tm) : tm.place[t] < Elapsed(tm, now)}

\* Mutant of Rotation: a part of a slot counts as a slot.
RotationRoundsUp(level, ms) ==
  LET slots == (ms + ChildSpan(level) - 1) \div ChildSpan(level)
  IN  IF slots >= SlotSize THEN 0 ELSE slots * ChildSpan(level)

\* advance_start and rotate: a root of level 1 or more moves by whole slots,
\* and the rest of the milliseconds is forgotten.
Rotation(level, ms) ==
  LET slots == ms \div ChildSpan(level)
  IN  IF slots >= SlotSize THEN 0 ELSE slots * ChildSpan(level)

\* Mutant of StartAdvanced: the wheel rotates, and the start stays.
StartKept(tm, now) == tm.start

\* advance_start moves the start by the time elapsed.
StartAdvanced(tm, now) == tm.start + Elapsed(tm, now)

\* poll, but for the execution of the tasks that have expired.  Rotating
\* drops what is left in the slots it passes.
Poll(tm, now) ==
  LET ms == Elapsed(tm, now)
      by == IF tm.level = NoWheel THEN 0 ELSE Rotation(tm.level, ms)
      gone == Expired(tm, now)
      kept == {t \in Held(tm) \ gone : tm.place[t] >= by}
      moved == [tm EXCEPT
        !.start = StartAdvanced(tm, now),
        !.hollow = FALSE,
        !.place = [t \in kept |-> tm.place[t] - by],
        !.entries = Max({@ - Cardinality(gone), 0})]
  IN  IF tm.entries = 0 \/ ms = 0 THEN tm
      ELSE IF gone = {} THEN moved ELSE LevelDown(moved)

\* next_deadline_ms, as the instant it ends at.
NextDeadline(tm) ==
  tm.start + Min(Range(tm.place)
                 \cup (IF tm.hollow THEN {SlotSize} ELSE {})
                 \cup {Span(tm.level)})
=============================================================================
