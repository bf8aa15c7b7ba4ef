-------------------------- MODULE IoEngine_proofs ---------------------------
(***************************************************************************)
(* Proofs about IoEngine, for any clients, delays, periods, wheels, submit *)
(* intervals and bounds: the waker is armed whenever the worker waits and  *)
(* implements WakeSignal, nothing prepared is held back from the kernel,   *)
(* completions belong to operations that are awaited, no timer task is     *)
(* lost, no sleep ends before its deadline but by the age of the timer's   *)
(* start and a clamp, and intervals keep their grid.  First, lemmas about  *)
(* the timing wheels: what adding, removing and polling do to the tasks a  *)
(* timer holds and to the instants they stand for.                         *)
(***************************************************************************)
EXTENDS IoEngine, FiniteSetTheorems, WellFoundedInduction, TLAPS

-----------------------------------------------------------------------------
(* Timing wheels.  Numbers.                                                *)

\* A non-empty set of numbers has a least one, which Min chooses.
LEMMA MinFacts ==
  ASSUME NEW S \in SUBSET Nat, S # {}
  PROVE  Min(S) \in S /\ \A y \in S : Min(S) <= y
<1> DEFINE R == StrictSubsetOrdering(Nat)
           F == FiniteSubsetsOf(Nat)
           U == {0 .. n : n \in S}
<1>1. IsWellFoundedOn(R, F)
  BY FS_StrictSubsetOrderingWellFounded
<1>2. U \subseteq F /\ U # {}
  <2>1. \A n \in Nat : IsFiniteSet(0 .. n)
    BY FS_Interval
  <2>2. U \subseteq F
    BY <2>1 DEF FiniteSubsetsOf
  <2>3. PICK n \in S : TRUE
    OBVIOUS
  <2>4. 0 .. n \in U
    BY <2>3
  <2> HIDE DEF U, F
  <2> QED
    BY <2>2, <2>4
<1>3. PICK I \in U : \A J \in U : ~ (<<J, I>> \in R)
  <2> HIDE DEF U, R, F
  <2> QED
    BY <1>1, <1>2, WFMin
<1>4. PICK n \in S : I = 0 .. n
  OBVIOUS
<1>5. ASSUME NEW y \in S PROVE n <= y
  <2> SUFFICES ASSUME y < n PROVE FALSE
    OBVIOUS
  <2>1. n \in 0 .. n /\ n \notin 0 .. y /\ 0 .. y \subseteq 0 .. n
    OBVIOUS
  <2>2. 0 .. y \in SUBSET Nat /\ 0 .. n \in SUBSET Nat
    OBVIOUS
  <2>3. <<0 .. y, 0 .. n>> \in R
    BY <2>1, <2>2 DEF StrictSubsetOrdering
  <2>4. 0 .. y \in U
    OBVIOUS
  <2> HIDE DEF U, R
  <2> QED
    BY <1>3, <1>4, <2>3, <2>4
<1> HIDE DEF U, R, F
<1>6. \E x \in S : \A y \in S : x <= y
  BY <1>5
<1> QED
  BY <1>6 DEF Min

\* A set of numbers with 0 that has each successor is the set of all numbers.
LEMMA NatSetInduction ==
  ASSUME NEW T \in SUBSET Nat, 0 \in T, \A n \in T : n + 1 \in T
  PROVE  T = Nat
<1> DEFINE S == Nat \ T
<1>1. SUFFICES ASSUME S # {} PROVE FALSE
  OBVIOUS
<1> DEFINE m == Min(S)
<1>2. m \in S /\ \A y \in S : m <= y
  BY <1>1, MinFacts
<1> HIDE DEF m
<1>3. m - 1 \in T
  BY <1>2
<1> QED
  BY <1>2, <1>3

\* The larger of a number and zero.
LEMMA MaxWithZero ==
  ASSUME NEW n \in Int
  PROVE  Max({n, 0}) = IF n >= 0 THEN n ELSE 0
BY DEF Max

\* The whole slots in a time do not exceed it.
LEMMA WholeSlots ==
  ASSUME NEW ms \in Nat, NEW s \in Nat \ {0}
  PROVE  /\ ms \div s \in Nat /\ (ms \div s) * s \in Nat
         /\ (ms \div s) * s <= ms
<1>1. ms \div s \in Nat
  OBVIOUS
<1>2. (ms \div s) * s <= ms
  OBVIOUS
<1> QED
  BY <1>1, <1>2

\* The powers of SLOT_SIZE are positive.
LEMMA PowerFacts ==
  \A l \in 0 .. MaxLevel + 1 :
    /\ Power[l] \in Nat \ {0}
    /\ l # 0 => Power[l] = SlotSize * Power[l - 1]
<1> USE WheelAssumption
<1> DEFINE N == MaxLevel + 1
           IsPower(g, n) == g = [i \in 0 .. n |-> IF i = 0 THEN 1 ELSE SlotSize * g[i - 1]]
<1>1. \A n \in Nat : \E g : IsPower(g, n)
  <2> DEFINE T == {n \in Nat : \E g : IsPower(g, n)}
  <2>1. 0 \in T
    <3>1. IsPower([i \in 0 .. 0 |-> 1], 0)
      OBVIOUS
    <3> QED
      BY <3>1
  <2>2. ASSUME NEW n \in T PROVE n + 1 \in T
    <3>1. PICK g : IsPower(g, n)
      OBVIOUS
    <3> DEFINE h == [i \in 0 .. n + 1 |-> IF i = n + 1 THEN SlotSize * g[n] ELSE g[i]]
    <3>2. ASSUME NEW i \in 0 .. n + 1
          PROVE  h[i] = IF i = 0 THEN 1 ELSE SlotSize * h[i - 1]
      <4>1. CASE i = n + 1
        BY <4>1
      <4>2. CASE i # n + 1
        <5>1. i \in 0 .. n /\ h[i] = g[i] /\ (i # 0 => h[i - 1] = g[i - 1])
          BY <4>2
        <5> QED
          BY <3>1, <5>1
      <4> QED
        BY <4>1, <4>2
    <3>3. IsPower(h, n + 1)
      BY <3>2
    <3> HIDE DEF IsPower, h
    <3> QED
      BY <3>3
  <2> HIDE DEF T
  <2>3. T = Nat
    <3>1. T \subseteq Nat
      BY DEF T
    <3> QED
      BY <2>1, <2>2, <3>1, NatSetInduction
  <2> QED
    BY <2>3 DEF T
<1>2. IsPower(Power, N)
  <2>1. Power = CHOOSE g : IsPower(g, N)
    BY DEF Power
  <2> HIDE DEF IsPower
  <2>2. \E g : IsPower(g, N)
    BY <1>1
  <2> QED
    BY <2>1, <2>2, Zenon
<1>3. ASSUME NEW i \in 0 .. N
      PROVE  Power[i] = IF i = 0 THEN 1 ELSE SlotSize * Power[i - 1]
  BY <1>2
<1> HIDE DEF IsPower
<1> DEFINE T == {i \in Nat : i <= N => Power[i] \in Nat \ {0}}
<1>4. 0 \in T
  BY <1>3
<1>5. ASSUME NEW i \in T PROVE i + 1 \in T
  <2> SUFFICES ASSUME i + 1 <= N PROVE Power[i + 1] \in Nat \ {0}
    OBVIOUS
  <2>1. Power[i] \in Nat \ {0}
    OBVIOUS
  <2>2. Power[i + 1] = SlotSize * Power[i]
    BY <1>3
  <2>3. \A p \in Nat \ {0} : SlotSize * p \in Nat \ {0}
    OBVIOUS
  <2> QED
    BY <2>1, <2>2, <2>3
<1> HIDE DEF T
<1>6. T = Nat
  <2>1. T \subseteq Nat
    BY DEF T
  <2> QED
    BY <1>4, <1>5, <2>1, NatSetInduction
<1> QED
  BY <1>3, <1>6 DEF T

\* The spans of the wheels are positive.
LEMMA SpanFacts ==
  ASSUME NEW l \in 0 .. MaxLevel
  PROVE  /\ ChildSpan(l) \in Nat \ {0} /\ Span(l) \in Nat \ {0}
         /\ Span(l) = SlotSize * ChildSpan(l)
<1>1. l \in 0 .. MaxLevel + 1 /\ l + 1 \in 0 .. MaxLevel + 1 /\ (l + 1) - 1 = l /\ l + 1 # 0
  BY WheelAssumption
<1> QED
  BY <1>1, PowerFacts DEF ChildSpan, Span

\* No wheel spans more than one of the top level.
LEMMA SpanGrows ==
  ASSUME NEW l \in 0 .. MaxLevel
  PROVE  Span(l) <= Span(MaxLevel)
<1> DEFINE T == {k \in Nat : l + k <= MaxLevel => Span(l) <= Span(l + k)}
<1> USE WheelAssumption
<1>1. 0 \in T
  <2>1. Span(l) \in Nat /\ l + 0 = l
    BY SpanFacts
  <2> QED
    BY <2>1
<1>2. ASSUME NEW k \in T PROVE k + 1 \in T
  <2> SUFFICES ASSUME l + (k + 1) <= MaxLevel PROVE Span(l) <= Span(l + (k + 1))
    OBVIOUS
  <2>1. l + k \in 0 .. MaxLevel /\ l + (k + 1) \in 0 .. MaxLevel
    OBVIOUS
  <2>2. Span(l) <= Span(l + k)
    BY <2>1
  <2>3. Span(l + (k + 1)) = SlotSize * Span(l + k)
    <3>1. ChildSpan(l + (k + 1)) = Span(l + k)
      <4>1. l + (k + 1) = l + k + 1
        OBVIOUS
      <4> QED
        BY <4>1 DEF ChildSpan, Span
    <3> QED
      BY <2>1, <3>1, SpanFacts
  <2>4. Span(l) \in Nat /\ Span(l + k) \in Nat
    BY <2>1, SpanFacts
  <2>5. \A a, b \in Nat : a <= b => a <= SlotSize * b
    OBVIOUS
  <2> QED
    BY <2>2, <2>3, <2>4, <2>5
<1>3. T = Nat
  <2>1. T \in SUBSET Nat
    OBVIOUS
  <2> HIDE DEF T
  <2> QED
    BY <1>1, <1>2, <2>1, NatSetInduction
<1>4. MaxLevel - l \in Nat /\ l + (MaxLevel - l) = MaxLevel
  OBVIOUS
<1>5. \A k \in Nat : l + k <= MaxLevel => Span(l) <= Span(l + k)
  BY <1>3
<1> HIDE DEF T
<1> QED
  BY <1>4, <1>5

-----------------------------------------------------------------------------
(* The timer.                                                              *)

\* What every operation of the timer keeps: its fields' types, and a root
\* while it holds a task.
IsTimer(wh) ==
  /\ wh = [start |-> wh.start, entries |-> wh.entries, level |-> wh.level,
           hollow |-> wh.hollow, place |-> wh.place]
  /\ wh.start \in Nat /\ wh.entries \in Nat /\ wh.hollow \in BOOLEAN
  /\ wh.level \in NoWheel .. MaxLevel
  /\ wh.place = [t \in Held(wh) |-> wh.place[t]]
  /\ \A t \in Held(wh) : wh.place[t] \in Nat
  /\ IsFiniteSet(Held(wh))
  /\ Held(wh) # {} => wh.level # NoWheel

\* The instant a task's place stands for.
Due(wh, t) == wh.start + wh.place[t]

\* A new timer holds nothing.
LEMMA NewTimerFacts ==
  ASSUME NEW clock \in Nat
  PROVE  IsTimer(NewTimer(clock)) /\ Held(NewTimer(clock)) = {}
<1> DEFINE r == NewTimer(clock)
<1>1. /\ r.start = clock /\ r.entries = 0 /\ r.level = NoWheel /\ r.hollow = FALSE
      /\ r.place = << >> /\ Held(r) = {}
      /\ r = [start |-> r.start, entries |-> r.entries, level |-> r.level,
              hollow |-> r.hollow, place |-> r.place]
  BY DEF NewTimer, Held
<1> HIDE DEF r
<1>2. r.place = [t \in Held(r) |-> r.place[t]]
  BY <1>1
<1>3. NoWheel \in NoWheel .. MaxLevel
  BY WheelAssumption DEF NoWheel
<1>4. IsTimer(r)
  <2>1. /\ r.start \in Nat /\ r.entries \in Nat /\ r.hollow \in BOOLEAN
        /\ r.level \in NoWheel .. MaxLevel
    <3>1. 0 \in Nat /\ FALSE \in BOOLEAN
      OBVIOUS
    <3> QED
      BY <1>1, <1>3, <3>1, Zenon
  <2>2. \A t \in Held(r) : r.place[t] \in Nat
    BY <1>1, Zenon
  <2>3. IsFiniteSet(Held(r)) /\ (Held(r) # {} => r.level # NoWheel)
    BY <1>1, FS_EmptySet, Zenon
  <2> QED
    BY <1>1, <1>2, <2>1, <2>2, <2>3, Zenon DEF IsTimer
<1> QED
  BY <1>1, <1>4 DEF r

\* try_level_down changes the level only: the root goes when the wheels are
\* empty, and never otherwise.
LEMMA LevelDownFacts ==
  ASSUME NEW wh, IsTimer(wh)
  PROVE  /\ IsTimer(LevelDown(wh)) /\ LevelDown(wh).start = wh.start
         /\ LevelDown(wh).place = wh.place
<1> DEFINE r == LevelDown(wh)
<1> USE WheelAssumption
<1>1. CASE Held(wh) = {}
  <2>1. r = [start |-> wh.start, entries |-> wh.entries, level |-> NoWheel,
             hollow |-> FALSE, place |-> wh.place]
    BY <1>1 DEF LevelDown, IsTimer
  <2>2. NoWheel \in NoWheel .. MaxLevel
    BY DEF NoWheel
  <2> HIDE DEF r
  <2>3. Held(r) = {} /\ r.place = wh.place /\ r.start = wh.start
    BY <1>1, <2>1 DEF Held
  <2>4. r.place = [t \in Held(r) |-> r.place[t]]
    BY <1>1, <2>3 DEF IsTimer
  <2>5. IsTimer(r)
    BY <1>1, <2>1, <2>2, <2>3, <2>4 DEF IsTimer
  <2> QED
    BY <2>3, <2>5 DEF r
<1>2. CASE Held(wh) # {}
  <2> DEFINE S == {l \in 0 .. wh.level :
                     \A k \in l + 1 .. wh.level :
                       \A t \in Held(wh) : wh.place[t] < ChildSpan(k)}
  <2>1. wh.level \in 0 .. MaxLevel
    BY <1>2 DEF IsTimer, NoWheel
  <2>2. wh.level \in S /\ S \subseteq 0 .. wh.level
    <3>1. wh.level + 1 .. wh.level = {}
      BY <2>1
    <3>2. wh.level \in 0 .. wh.level
      BY <2>1
    <3> QED
      BY <3>1, <3>2
  <2>3. r = [start |-> wh.start, entries |-> wh.entries, level |-> Min(S),
             hollow |-> wh.hollow, place |-> wh.place]
    BY <1>2 DEF LevelDown, IsTimer
  <2> HIDE DEF S, r
  <2>4. Min(S) \in S
    <3>1. S \in SUBSET Nat /\ S # {}
      BY <2>1, <2>2
    <3> QED
      BY <3>1, MinFacts
  <2>5. Min(S) \in NoWheel .. MaxLevel /\ Min(S) # NoWheel
    <3>1. Min(S) \in 0 .. wh.level
      BY <2>2, <2>4
    <3>2. Min(S) \in 0 .. MaxLevel
      BY <2>1, <3>1
    <3> QED
      BY <3>2 DEF NoWheel
  <2>6. Held(r) = Held(wh) /\ r.place = wh.place /\ r.start = wh.start
    BY <2>3 DEF Held
  <2>7. IsTimer(r)
    BY <2>3, <2>5, <2>6 DEF IsTimer
  <2> QED
    BY <2>6, <2>7 DEF r
<1> QED
  BY <1>1, <1>2

\* ensure_capacity finds a root that spans the interval, if there is one.
LEMMA LevelForFacts ==
  ASSUME NEW wh, IsTimer(wh), NEW n \in Nat
  PROVE  /\ LevelFor(wh, n) \in 0 .. MaxLevel
         /\ n < Span(LevelFor(wh, n)) \/ LevelFor(wh, n) = MaxLevel
<1> DEFINE S == {l \in 0 .. MaxLevel : l >= wh.level /\ (n < Span(l) \/ l = MaxLevel)}
<1>1. MaxLevel \in S /\ S \in SUBSET Nat
  BY WheelAssumption DEF IsTimer, NoWheel
<1>2. LevelFor(wh, n) = Min(S)
  BY DEF LevelFor
<1> HIDE DEF S
<1>3. Min(S) \in S
  BY <1>1, MinFacts
<1> QED
  BY <1>2, <1>3 DEF S

\* A position is a number, and no more than the interval.
LEMMA PositionFacts ==
  ASSUME NEW l \in 0 .. MaxLevel, NEW n \in Nat
  PROVE  /\ Position(l, n) \in Nat /\ Position(l, n) <= n
         /\ n < Span(l) => Position(l, n) = n
<1>1. CASE n < Span(l)
  BY <1>1 DEF Position
<1>2. CASE ~(n < Span(l))
  <2> DEFINE s == ChildSpan(l)
  <2>1. s \in Nat \ {0} /\ SlotSize \in Nat \ {0, 1}
    BY SpanFacts, WheelAssumption
  <2>2. Span(l) = SlotSize * s
    BY SpanFacts
  <2>3. Position(l, n) = (SlotSize - 1) * s + (n % s)
    BY <1>2 DEF Position
  <2> HIDE DEF s
  <2>4. n % s \in 0 .. s - 1
    BY <2>1
  <2>5. (SlotSize - 1) * s \in Nat /\ (SlotSize - 1) * s + s = SlotSize * s
    BY <2>1
  <2>6. Span(l) <= n /\ Span(l) \in Nat
    BY <1>2, SpanFacts
  <2> DEFINE p == (SlotSize - 1) * s
             m == n % s
  <2>7. p \in Nat /\ m \in 0 .. s - 1 /\ p + s = Span(l) /\ Position(l, n) = p + m
    BY <2>2, <2>3, <2>4, <2>5, Zenon
  <2> HIDE DEF p, m
  <2> QED
    BY <1>2, <2>1, <2>6, <2>7
<1> QED
  BY <1>1, <1>2

\* add_task places the task, before its deadline by the age of the start and
\* what a clamp takes off, and moves no other.
LEMMA AddTaskFacts ==
  ASSUME NEW wh, IsTimer(wh), NEW t, t.deadline \in Nat,
         NEW clock \in Nat, wh.start <= clock, clock <= t.deadline
  PROVE  LET r == AddTask(wh, t, clock) IN
         /\ IsTimer(r) /\ r.start = wh.start /\ Held(r) = Held(wh) \cup {t}
         /\ \A u \in Held(wh) \ {t} : r.place[u] = wh.place[u]
         /\ Lead(wh, t.deadline, clock) \in Nat
         /\ Due(r, t) = t.deadline - Lead(wh, t.deadline, clock)
<1> DEFINE n == Relative(wh, t.deadline, clock)
           l == LevelFor(wh, n)
           p == Position(l, n)
           r == AddTask(wh, t, clock)
<1>1. n = t.deadline - clock /\ n \in Nat
  <2>1. t.deadline - wh.start - Elapsed(wh, clock) = t.deadline - clock
    BY DEF Elapsed, IsTimer
  <2>2. t.deadline - clock \in Nat
    OBVIOUS
  <2> QED
    BY <2>1, <2>2, MaxWithZero DEF Relative
<1>2. l \in 0 .. MaxLevel /\ (n < Span(l) \/ l = MaxLevel)
  BY <1>1, LevelForFacts
<1>3. p \in Nat /\ p <= n /\ (n < Span(l) => p = n)
  BY <1>1, <1>2, PositionFacts
<1>4. /\ r = [start |-> wh.start, entries |-> wh.entries + 1, level |-> l,
              hollow |-> r.hollow, place |-> r.place]
      /\ r.hollow \in BOOLEAN
      /\ r.place = [u \in Held(wh) \cup {t} |-> IF u = t THEN p ELSE wh.place[u]]
  <2> DEFINE h == wh.hollow \/ (Held(wh) = {} /\ l > 0)
             f == [u \in Held(wh) \cup {t} |-> IF u = t THEN p ELSE wh.place[u]]
  <2>1. r = [start |-> wh.start, entries |-> wh.entries + 1, level |-> l,
             hollow |-> h, place |-> f]
    <3> DEFINE x == [start |-> wh.start, entries |-> wh.entries, level |-> wh.level,
                     hollow |-> wh.hollow, place |-> wh.place]
    <3>1. r = [wh EXCEPT !.level = l, !.hollow = h, !.place = f, !.entries = @ + 1]
      BY DEF AddTask
    <3> HIDE DEF r, l, h, f
    <3> QED
      BY <3>1 DEF IsTimer
  <2> HIDE DEF r
  <2> QED
    BY <2>1
<1>5. Lead(wh, t.deadline, clock) = (clock - wh.start) + (n - p)
  <2>1. CASE n < Span(MaxLevel)
    <3>1. n < Span(l)
      BY <1>2, <2>1
    <3> QED
      BY <1>1, <1>3, <2>1, <3>1 DEF Lead, Elapsed, IsTimer
  <2>2. CASE ~(n < Span(MaxLevel))
    <3>1. CASE l = MaxLevel
      BY <1>1, <1>3, <2>2, <3>1 DEF Lead, Elapsed, IsTimer
    <3>2. CASE n < Span(l)
      <4>1. Span(l) <= Span(MaxLevel) /\ Span(l) \in Nat /\ Span(MaxLevel) \in Nat
        BY <1>2, SpanGrows, SpanFacts, WheelAssumption
      <4> QED
        BY <1>1, <2>2, <3>2, <4>1
    <3> QED
      BY <1>2, <3>1, <3>2
  <2> QED
    BY <2>1, <2>2
<1> HIDE DEF n, l, p, r
<1>6. Held(r) = Held(wh) \cup {t}
  BY <1>4 DEF Held
<1>7. IsTimer(r)
  <2>1. IsFiniteSet(Held(r))
    BY <1>6, FS_AddElement DEF IsTimer
  <2>2. /\ r.start \in Nat /\ r.entries \in Nat
        /\ r.level \in NoWheel .. MaxLevel /\ r.level # NoWheel
    BY <1>2, <1>4 DEF IsTimer, NoWheel
  <2>3. \A u \in Held(r) : r.place[u] \in Nat
    BY <1>3, <1>4, <1>6 DEF IsTimer
  <2>4. r.place = [u \in Held(r) |-> r.place[u]]
    BY <1>4, <1>6
  <2> QED
    BY <1>4, <2>1, <2>2, <2>3, <2>4 DEF IsTimer
<1>8. Lead(wh, t.deadline, clock) \in Nat /\ Due(r, t) = t.deadline - Lead(wh, t.deadline, clock)
  BY <1>1, <1>3, <1>4, <1>5 DEF Due, IsTimer
<1>9. \A u \in Held(wh) \ {t} : r.place[u] = wh.place[u]
  BY <1>4
<1>10. r.start = wh.start
  BY <1>4
<1> QED
  BY <1>6, <1>7, <1>8, <1>9, <1>10 DEF r

-----------------------------------------------------------------------------
(* Removing and polling.                                                   *)

\* remove_task takes out that task or none, and moves no other.
LEMMA RemoveTaskFacts ==
  ASSUME NEW wh, IsTimer(wh), NEW t, NEW clock
  PROVE  LET r == RemoveTask(wh, t, clock) IN
         /\ IsTimer(r) /\ r.start = wh.start
         /\ Held(r) \subseteq Held(wh) /\ Held(wh) \ {t} \subseteq Held(r)
         /\ \A u \in Held(r) : r.place[u] = wh.place[u]
<1> DEFINE slot == RemovalSlot(wh, t, clock)
           kept == {u \in Held(wh) : u # t \/ wh.place[u] # slot}
           m == [wh EXCEPT !.place = Restrict(@, kept),
                           !.hollow = @ /\ slot >= SlotSize,
                           !.entries = Max({@ - 1, 0})]
           r == RemoveTask(wh, t, clock)
<1>1. CASE t.deadline <= clock \/ wh.level = NoWheel
  <2>1. r = wh
    BY <1>1 DEF RemoveTask
  <2> QED
    BY <2>1
<1>2. CASE ~(t.deadline <= clock \/ wh.level = NoWheel)
  <2>1. r = LevelDown(m)
    BY <1>2 DEF RemoveTask
  <2>2. kept \subseteq Held(wh) /\ Held(wh) \ {t} \subseteq kept
    OBVIOUS
  <2> DEFINE e == Max({wh.entries - 1, 0})
             h == wh.hollow /\ slot >= SlotSize
             f == [u \in kept |-> wh.place[u]]
  <2>3. m = [start |-> wh.start, entries |-> e, level |-> wh.level,
             hollow |-> h, place |-> f]
    <3>1. m = [wh EXCEPT !.place = f, !.hollow = h, !.entries = e]
      BY DEF Restrict
    <3> HIDE DEF f, h, e, m
    <3> QED
      BY <3>1 DEF IsTimer
  <2>4. e \in Nat
    BY MaxWithZero DEF IsTimer
  <2>5. h \in BOOLEAN
    OBVIOUS
  <2> HIDE DEF e, h, m, r, kept
  <2>6. Held(m) = kept /\ m.place = f
    BY <2>3 DEF Held
  <2>7. IsTimer(m)
    <3>1. IsFiniteSet(kept)
      BY <2>2, FS_Subset DEF IsTimer
    <3>2. \A u \in kept : f[u] \in Nat
      BY <2>2 DEF IsTimer
    <3>3. m.place = [u \in Held(m) |-> m.place[u]]
      BY <2>6
    <3>4. /\ m.start \in Nat /\ m.entries \in Nat /\ m.hollow \in BOOLEAN
          /\ m.level \in NoWheel .. MaxLevel /\ m.level # NoWheel
          /\ m = [start |-> m.start, entries |-> m.entries, level |-> m.level,
                  hollow |-> m.hollow, place |-> m.place]
      BY <1>2, <2>3, <2>4, <2>5 DEF IsTimer
    <3>5. \A u \in Held(m) : m.place[u] \in Nat
      BY <2>6, <3>2
    <3> HIDE DEF f
    <3> QED
      BY <2>6, <3>1, <3>3, <3>4, <3>5, Zenon DEF IsTimer
  <2>8. IsTimer(r) /\ r.start = m.start /\ r.place = m.place
    BY <2>1, <2>7, LevelDownFacts
  <2>9. Held(r) = kept
    BY <2>6, <2>8 DEF Held
  <2>10. r.start = wh.start
    BY <2>3, <2>8
  <2>11. \A u \in Held(r) : r.place[u] = wh.place[u]
    BY <2>6, <2>8, <2>9
  <2> QED
    BY <2>2, <2>8, <2>9, <2>10, <2>11 DEF r
<1> QED
  BY <1>1, <1>2

\* rotate does not pass more than the time that has elapsed.
LEMMA RotationFacts ==
  ASSUME NEW l \in 0 .. MaxLevel, NEW ms \in Nat
  PROVE  Rotation(l, ms) \in Nat /\ Rotation(l, ms) <= ms
<1> DEFINE s == ChildSpan(l)
<1>1. s \in Nat \ {0}
  BY SpanFacts
<1>2. Rotation(l, ms) = IF ms \div s >= SlotSize THEN 0 ELSE (ms \div s) * s
  BY DEF Rotation
<1> HIDE DEF s
<1>3. (ms \div s) * s \in Nat /\ (ms \div s) * s <= ms
  BY <1>1, WholeSlots
<1> QED
  BY <1>2, <1>3

\* poll drops exactly the tasks it executes, whose instants have passed, and
\* brings no other forward: by whole slots it rotates less than the start
\* moves.
LEMMA PollFacts ==
  ASSUME NEW wh, IsTimer(wh), NEW clock \in Nat, wh.start <= clock
  PROVE  LET r == Poll(wh, clock)
             gone == Expired(wh, clock)
         IN  /\ IsTimer(r) /\ r.start \in Nat /\ r.start <= clock
             /\ gone \subseteq Held(wh) /\ IsFiniteSet(gone)
             /\ Held(r) = Held(wh) \ gone
             /\ \A u \in gone : Due(wh, u) < clock
             /\ \A u \in Held(r) : Due(r, u) >= Due(wh, u)
<1> DEFINE ms == Elapsed(wh, clock)
           by == IF wh.level = NoWheel THEN 0 ELSE Rotation(wh.level, ms)
           gone == Expired(wh, clock)
           kept == {t \in Held(wh) \ gone : wh.place[t] >= by}
           e == Max({wh.entries - Cardinality(gone), 0})
           f == [t \in kept |-> wh.place[t] - by]
           m == [wh EXCEPT !.start = StartAdvanced(wh, clock), !.hollow = FALSE,
                           !.place = f, !.entries = e]
           r == Poll(wh, clock)
<1>1. ms \in Nat /\ wh.start + ms = clock /\ StartAdvanced(wh, clock) = clock
  BY DEF Elapsed, StartAdvanced, IsTimer
<1>2. gone \subseteq Held(wh) /\ IsFiniteSet(gone)
  <2>1. gone \subseteq Held(wh)
    BY DEF Expired
  <2> HIDE DEF gone
  <2> QED
    BY <2>1, FS_Subset DEF IsTimer
<1>3. \A u \in gone : Due(wh, u) < clock
  BY <1>1 DEF Expired, Due, IsTimer
<1>4. CASE wh.entries = 0 \/ ms = 0
  <2>1. r = wh
    BY <1>4 DEF Poll
  <2>2. gone = {}
    BY <1>1, <1>4 DEF Expired, IsTimer
  <2>3. \A u \in Held(wh) : Due(wh, u) \in Nat
    BY DEF Due, IsTimer
  <2> HIDE DEF r, gone
  <2> QED
    BY <1>2, <1>3, <2>1, <2>2, <2>3 DEF IsTimer, r, gone
<1>5. CASE ~(wh.entries = 0 \/ ms = 0)
  <2>1. r = IF gone = {} THEN m ELSE LevelDown(m)
    BY <1>5 DEF Poll
  <2>2. by \in Nat /\ by <= ms
    <3>1. CASE wh.level = NoWheel
      BY <1>1, <3>1
    <3>2. CASE wh.level # NoWheel
      <4>1. wh.level \in 0 .. MaxLevel
        BY <3>2, WheelAssumption DEF IsTimer, NoWheel
      <4> QED
        BY <1>1, <3>2, <4>1, RotationFacts
    <3> QED
      BY <3>1, <3>2
  <2>3. \A u \in Held(wh) \ gone : wh.place[u] >= ms
    BY <1>1, <1>5 DEF Expired, IsTimer
  <2> HIDE DEF by, gone, ms
  <2>4. kept = Held(wh) \ gone
    BY <1>1, <2>2, <2>3 DEF IsTimer
  <2>5. e \in Nat
    <3>1. wh.entries - Cardinality(gone) \in Int
      BY <1>2, FS_CardinalityType DEF IsTimer
    <3> QED
      BY <3>1, MaxWithZero
  <2>6. \A u \in kept : f[u] \in Nat /\ f[u] = wh.place[u] - by
    BY <2>2 DEF IsTimer
  <2>7. m = [start |-> clock, entries |-> e, level |-> wh.level,
             hollow |-> FALSE, place |-> f]
    <3> DEFINE c == StartAdvanced(wh, clock)
               h == FALSE
    <3>1. m = [wh EXCEPT !.start = c, !.hollow = h, !.place = f, !.entries = e]
      OBVIOUS
    <3> HIDE DEF c, h, e, f, m, kept
    <3>2. m = [start |-> c, entries |-> e, level |-> wh.level, hollow |-> h, place |-> f]
      BY <3>1 DEF IsTimer
    <3> QED
      BY <1>1, <3>2 DEF c, h
  <2> HIDE DEF e, f, m, r, kept
  <2>8. Held(m) = kept /\ m.place = f
    BY <2>7 DEF Held, f
  <2>9. IsTimer(m)
    <3>1. IsFiniteSet(kept)
      BY <2>4, FS_Subset DEF IsTimer
    <3>2. m.place = [u \in Held(m) |-> m.place[u]]
      BY <2>8 DEF f
    <3>3. /\ m.start \in Nat /\ m.entries \in Nat /\ m.hollow \in BOOLEAN
          /\ m.level \in NoWheel .. MaxLevel
          /\ m = [start |-> m.start, entries |-> m.entries, level |-> m.level,
                  hollow |-> m.hollow, place |-> m.place]
      BY <2>5, <2>7 DEF IsTimer
    <3>4. \A u \in Held(m) : m.place[u] \in Nat
      BY <2>6, <2>8
    <3>5. Held(m) # {} => m.level # NoWheel
      BY <2>4, <2>7, <2>8 DEF IsTimer
    <3> QED
      BY <2>8, <3>1, <3>2, <3>3, <3>4, <3>5, Zenon DEF IsTimer
  <2>10. IsTimer(r) /\ r.start = m.start /\ r.place = m.place
    BY <2>1, <2>9, LevelDownFacts
  <2>11. Held(r) = Held(wh) \ gone
    BY <2>4, <2>8, <2>10 DEF Held
  <2>12. r.start = clock
    BY <2>7, <2>10
  <2>13. ASSUME NEW u \in Held(r) PROVE Due(r, u) >= Due(wh, u)
    <3>1. u \in kept /\ r.place[u] = wh.place[u] - by
      BY <2>4, <2>6, <2>8, <2>10, <2>11
    <3>2. wh.place[u] \in Nat /\ wh.start \in Nat
      BY <2>4, <3>1 DEF IsTimer
    <3> QED
      BY <1>1, <2>2, <2>12, <3>1, <3>2 DEF Due
  <2> QED
    BY <1>2, <1>3, <2>10, <2>11, <2>12, <2>13 DEF r, gone
<1> QED
  BY <1>4, <1>5

-----------------------------------------------------------------------------
(* The engine.                                                             *)

\* The waker's _flag is 0 exactly while a read of the eventfd is in flight:
\* what start_watch infers from it.
WakerInv ==
  /\ counter \in Nat /\ flag \in Nat /\ cqes \in Nat /\ reading \in BOOLEAN
  /\ reading <=> flag = 0

\* Between the watch and the next drive a read is in flight or has completed.
Armed == pc \in {"driven", "awake", "waiting"} => reading \/ cqes > 0

\* From the submission that ends drive until coroutines run again nothing is
\* prepared.
AllSubmitted ==
  /\ op \in [Clients -> {"none", "prepared", "flying", "posted"}]
  /\ asked = [c \in Clients |-> asked[c]]
  /\ pc \in {"driven", "waiting"} =>
       \A c \in Clients : op[c] # "prepared" /\ asked[c] = 0

IntervalInv ==
  /\ now \in Nat /\ iv.deadline \in Nat
  /\ iv = [deadline |-> iv.deadline, behavior |-> iv.behavior]

\* An awaited operation has been prepared, and its client's one completion is
\* in the queue when it is posted.
OpInv ==
  /\ \A c \in Clients : who[c] = "io" <=> op[c] # "none"
  /\ \A c \in Clients : c \in Posted <=> op[c] = "posted"
  /\ IsInjective(cq)

\* A client has one task at most for the await it is in; the tasks of earlier
\* ones, which remove_task did not find, are of operations.
TasksOwned ==
  \A t \in Held(tm) :
    /\ t.gen <= gen[t.owner]
    /\ t.kind = "sleep" => who[t.owner] = "asleep" /\ gen[t.owner] = t.gen
    /\ t.kind = "io" /\ gen[t.owner] = t.gen => who[t.owner] # "asleep"
    /\ \A u \in Held(tm) :
         t.kind = "sleep" /\ u.kind = "sleep" /\ t.owner = u.owner => t = u

\* timer_task is null or points to a task of its operation, and no client that
\* runs has one.
TimersOwned ==
  \A c \in Clients :
    /\ timer[c] # NoTask => timer[c].owner = c /\ timer[c].kind = "io"
    /\ who[c] = "ready" => timer[c] = NoTask

\* A sleeper's task stands for an instant before its deadline by lag at most.
DueInTime ==
  \A t \in Held(tm) :
    t.kind = "sleep" => Due(tm, t) >= t.deadline - lag[t.owner]

GensCounted == \A c \in Clients : gen[c] <= calls

TimerInv == /\ IsTimer(tm) /\ TasksOwned /\ TimersOwned
            /\ TimersAreKept /\ DueInTime

IInv == /\ WakerInv /\ Armed /\ AllSubmitted /\ IntervalInv
        /\ TypeOK /\ OpInv /\ GensCounted /\ TimerInv

-----------------------------------------------------------------------------
\* The engine starts without a read of the eventfd, and _flag says so.
LEMMA InitInv ==
  ASSUME Init
  PROVE  IInv
<1>1. WakerInv
  <2>1. reading = FALSE /\ flag # 0
    BY DEF Init, WakerInit
  <2> QED
    BY <2>1 DEF Init, WakerInit, WakerInv
<1>3. Armed /\ AllSubmitted
  BY DEF Init, Armed, AllSubmitted
<1>2. IntervalInv
  BY PeriodAssumption DEF Init, IntervalInv, NewInterval
<1>4. IsTimer(tm) /\ tm.start = 0 /\ tm.entries = 0 /\ Held(tm) = {}
  <2>1. IsTimer(NewTimer(0)) /\ Held(NewTimer(0)) = {}
    BY NewTimerFacts
  <2>2. NewTimer(0).start = 0 /\ NewTimer(0).entries = 0
    BY DEF NewTimer
  <2> QED
    BY <2>1, <2>2, Zenon DEF Init
<1>5. TypeOK
  <2>1. 0 \in 0 .. MaxOps /\ 0 \in 0 .. MaxTime /\ 0 \in 0 .. SubmitInterval - 1
    BY EngineAssumption
  <2>2. {0, 1} \subseteq 0 .. MaxCount
    BY WakerAssumption
  <2>3. reading \in BOOLEAN
    BY <1>1 DEF WakerInv
  <2>4. tm.start \in 0 .. now /\ tm.level \in NoWheel .. MaxLevel
    BY <1>4 DEF Init, IsTimer
  <2> QED
    BY <1>4, <2>1, <2>2, <2>3, <2>4 DEF Init, WakerInit, TypeOK
<1>6. OpInv
  <2>1. cq = <<>> /\ IsInjective(cq)
    BY DEF Init, IsInjective
  <2>2. Posted = {}
    BY <2>1 DEF Posted
  <2> QED
    BY <2>1, <2>2 DEF Init, OpInv
<1>7. GensCounted
  BY DEF Init, GensCounted
<1>8. TimerInv
  BY <1>4 DEF Init, TimerInv, TasksOwned, TimersOwned, TimersAreKept, DueInTime
<1> QED
  BY <1>1, <1>2, <1>3, <1>5, <1>6, <1>7, <1>8 DEF IInv

\* Only the kernel's completion, the worker's skipping of it and start_watch
\* touch the flag, the read and its completion.
LEMMA WakerKept ==
  ASSUME IInv, [Next]_vars
  PROVE  WakerInv' /\ Armed'
<1> USE WakerAssumption DEF IInv, WakerInv, Armed
<1>1. CASE UNCHANGED vars
  BY <1>1 DEF vars, wakerVars, engineVars
<1>2. ASSUME NEW c \in Clients, ClientNext(c) PROVE WakerInv' /\ Armed'
  <2>1. UNCHANGED wakerVars /\ UNCHANGED pc
    BY <1>2 DEF ClientNext, Resume, Sleep, TickInterval, ResetInterval, StartIo, Complete,
       Cancel
  <2> QED
    BY <2>1 DEF wakerVars
<1>3. CASE WakerWritten
  BY <1>3 DEF WakerWritten, WakeUp
<1>4. CASE WakerRead
  <2>1. WakerInv'
    <3>1. flag' # 0
      BY <1>4 DEF WakerRead, ReadCompletes
    <3>2. reading' = FALSE /\ (reading' <=> flag' = 0)
      BY <1>4, <3>1, Zenon DEF WakerRead, ReadCompletes
    <3>3. counter' \in Nat /\ flag' \in Nat /\ cqes' \in Nat
      BY <1>4 DEF WakerRead, ReadCompletes
    <3> QED
      BY <3>2, <3>3, Zenon
  <2>2. Armed'
    BY <1>4 DEF WakerRead, ReadCompletes
  <2> QED
    BY <2>1, <2>2
<1>5. CASE Completions
  BY <1>5 DEF Completions, SkipNulls
<1>6. CASE WatchAndSubmit
  BY <1>6 DEF WatchAndSubmit, StartWatch
<1>7. CASE Tick \/ PollTimer \/ Run \/ DriveAgain \/ Wait \/ WaitReturns \/ WaitTimesOut
  BY <1>7 DEF Tick, PollTimer, Run, DriveAgain, Wait, WaitReturns, WaitTimesOut, Goes,
     wakerVars
<1> QED
  BY <1>1, <1>2, <1>3, <1>4, <1>5, <1>6, <1>7 DEF Next

\* While nothing runs between the submission and the next drive, nothing is
\* prepared; reset_and_submit submits all there is.
LEMMA SubmittedKept ==
  ASSUME IInv, [Next]_vars
  PROVE  AllSubmitted'
<1> USE DEF IInv, AllSubmitted
<1>1. CASE UNCHANGED vars
  BY <1>1 DEF vars, wakerVars, engineVars
<1>2. ASSUME NEW c \in Clients, ClientNext(c) PROVE AllSubmitted'
  <2>1. CASE Resume(c) \/ Sleep(c) \/ TickInterval(c) \/ ResetInterval(c) \/ StartIo(c)
    <3>1. pc = "awake" /\ UNCHANGED pc
      BY <2>1 DEF Resume, Sleep, TickInterval, ResetInterval, StartIo, Begins, SleepUntil
    <3>2. CASE StartIo(c)
      BY <3>1, <3>2 DEF StartIo, Submit, Submitted, CancelsSubmitted
    <3>3. CASE ~StartIo(c)
      BY <2>1, <3>1, <3>3 DEF Resume, Sleep, TickInterval, ResetInterval
    <3> QED
      BY <3>2, <3>3
  <2>2. CASE Complete(c)
    BY <2>2 DEF Complete
  <2>3. CASE Cancel(c)
    BY <2>3 DEF Cancel
  <2> QED
    BY <1>2, <2>1, <2>2, <2>3 DEF ClientNext
<1>3. CASE WakerWritten \/ WakerRead \/ Tick
  BY <1>3 DEF WakerWritten, WakerRead, engineVars, Tick
<1>6. CASE Completions
  BY <1>6 DEF Completions
<1>7. CASE PollTimer
  BY <1>7 DEF PollTimer
<1>4. CASE WatchAndSubmit
  BY <1>4 DEF WatchAndSubmit, Submitted, CancelsSubmitted
<1>5. CASE Run \/ DriveAgain \/ Wait \/ WaitReturns \/ WaitTimesOut
  BY <1>5 DEF Run, DriveAgain, Wait, WaitReturns, WaitTimesOut, Goes
<1> QED
  BY <1>1, <1>2, <1>3, <1>4, <1>5, <1>6, <1>7 DEF Next

-----------------------------------------------------------------------------
(* Intervals.                                                              *)

\* Whole periods are a multiple of the period.
LEMMA WholePeriods ==
  ASSUME NEW n \in Int PROVE (n * Period) % Period = 0
  BY PeriodAssumption

\* One period more than fits is past the end.
LEMMA PastTheEnd ==
  ASSUME NEW a \in Nat
  PROVE  a \div Period \in Nat /\ (a \div Period + 1) * Period > a
  BY PeriodAssumption

\* The new deadline of an interval: on the grid of the old one unless it
\* delays, and ahead unless it bursts.
LEMMA NextTimeoutFacts ==
  ASSUME NEW i, NEW t \in Nat, i.deadline \in Nat, i.behavior \in Behaviors
  PROVE  /\ NextTimeout(i, t) \in Nat
         /\ i.behavior # "Delay" => (NextTimeout(i, t) - i.deadline) % Period = 0
         /\ i.behavior # "Burst" => NextTimeout(i, t) > t
<1> DEFINE d == i.deadline
           q == (t - d) \div Period
<1> USE PeriodAssumption
<1>1. CASE i.behavior = "Delay"
  BY <1>1 DEF NextTimeout
<1>2. CASE i.behavior = "Skip" /\ d < t
  <2>1. q \in Nat /\ (q + 1) * Period > t - d
    BY <1>2, PastTheEnd
  <2>2. NextTimeout(i, t) = d + (q + 1) * Period
    BY <1>2 DEF NextTimeout
  <2>3. ((q + 1) * Period) % Period = 0 /\ (q + 1) * Period \in Nat
    BY <2>1, WholePeriods
  <2> HIDE DEF q
  <2> QED
    BY <2>1, <2>2, <2>3
<1>3. CASE ~(i.behavior = "Delay") /\ ~(i.behavior = "Skip" /\ d < t)
  <2>1. NextTimeout(i, t) = d + Period
    BY <1>3 DEF NextTimeout
  <2>2. Period % Period = 0
    BY WholePeriods
  <2> QED
    BY <1>3, <2>1, <2>2 DEF Behaviors
<1> QED
  BY <1>1, <1>2, <1>3

\* What a tick leaves of its interval: the next deadline, where NextTimeout
\* puts it.
LEMMA TickedFacts ==
  ASSUME IntervalInv, NEW b \in Behaviors
  PROVE  LET i == Ticked(Behaving(iv, b), now) IN
           /\ i.behavior = b /\ i.deadline \in Nat
           /\ i = [deadline |-> i.deadline, behavior |-> i.behavior]
           /\ b # "Delay" => (i.deadline - iv.deadline) % Period = 0
           /\ b # "Burst" => i.deadline > now
<1> DEFINE j == Behaving(iv, b)
<1>1. j.deadline = iv.deadline /\ j.behavior = b
  BY DEF IntervalInv, Behaving
<1>2. Ticked(j, now) = [deadline |-> NextTimeout(j, now), behavior |-> b]
  <2>1. j = [deadline |-> iv.deadline, behavior |-> b]
    BY DEF IntervalInv, Behaving
  <2> HIDE DEF j
  <2> QED
    BY <2>1 DEF Ticked
<1>3. /\ NextTimeout(j, now) \in Nat
      /\ b # "Delay" => (NextTimeout(j, now) - iv.deadline) % Period = 0
      /\ b # "Burst" => NextTimeout(j, now) > now
  BY <1>1, NextTimeoutFacts DEF IntervalInv
<1> HIDE DEF j
<1> QED
  BY <1>2, <1>3 DEF j

\* Only a tick computes the deadline; a reset sets it.
LEMMA DeadlineKept ==
  ASSUME IInv, [Next]_vars
  PROVE  IntervalInv'
<1> USE DEF IInv
<1>1. CASE UNCHANGED vars
  BY <1>1 DEF vars, engineVars, IntervalInv
<1>2. ASSUME NEW c \in Clients, ClientNext(c) PROVE IntervalInv'
  <2>1. CASE TickInterval(c)
    BY <2>1, TickedFacts DEF TickInterval, IntervalInv
  <2>2. CASE ResetInterval(c)
    BY <2>2, PeriodAssumption DEF ResetInterval, Reset, IntervalInv
  <2>3. CASE Resume(c) \/ Sleep(c) \/ StartIo(c) \/ Complete(c) \/ Cancel(c)
    BY <2>3 DEF Resume, Sleep, StartIo, Complete, Cancel, IntervalInv
  <2> QED
    BY <1>2, <2>1, <2>2, <2>3 DEF ClientNext
<1>3. CASE Tick
  BY <1>3 DEF Tick, IntervalInv
<1>4. CASE WakerWritten \/ WakerRead \/ Completions \/ PollTimer \/ WatchAndSubmit
  BY <1>4 DEF WakerWritten, WakerRead, engineVars, Completions, PollTimer,
     WatchAndSubmit, IntervalInv
<1>5. CASE Run \/ DriveAgain \/ Wait \/ WaitReturns \/ WaitTimesOut
  BY <1>5 DEF Run, DriveAgain, Wait, WaitReturns, WaitTimesOut, Goes, IntervalInv
<1> QED
  BY <1>1, <1>2, <1>3, <1>4, <1>5 DEF Next

-----------------------------------------------------------------------------
(* Operations and timers.                                                  *)

\* What the lemmas below keep.
Served == TypeOK /\ OpInv /\ GensCounted /\ TimerInv

\* Two instants, and the types of what the timer holds.
LEMMA TaskFacts ==
  /\ NoTask \notin Tasks
  /\ \A t \in Tasks : /\ t.owner \in Clients /\ t.gen \in 1 .. MaxOps
                      /\ t.kind \in {"sleep", "io"} /\ t.deadline \in Nat
BY DEF Tasks, NoTask

\* A task made for a client's next await.
LEMMA NewTaskFacts ==
  ASSUME TypeOK, GensCounted, NEW c \in Clients, calls < MaxOps,
         NEW kind \in {"sleep", "io"}, NEW d \in Nat
  PROVE  /\ Task(c, kind, d) \in Tasks /\ Task(c, kind, d) # NoTask
         /\ Task(c, kind, d).owner = c /\ Task(c, kind, d).kind = kind
         /\ Task(c, kind, d).gen = gen[c] + 1 /\ Task(c, kind, d).deadline = d
<1>1. gen[c] + 1 \in 1 .. MaxOps
  BY SMTT(30), EngineAssumption DEF TypeOK, GensCounted
<1>2. Task(c, kind, d) \in Tasks
  BY <1>1 DEF Task, Tasks
<1> QED
  BY <1>2, TaskFacts DEF Task

\* Nothing happens to the tasks: nobody falls asleep, wakes from a sleep or
\* awaits an operation, and timer_task is kept or set to null.
LEMMA TimerUnmoved ==
  ASSUME TimerInv, UNCHANGED <<tm, gen>>,
         \A t \in Held(tm) : t.owner \in Clients,
         \A c \in Clients : /\ who'[c] = "asleep" <=> who[c] = "asleep"
                            /\ who'[c] = "io" => who[c] = "io"
                            /\ timer'[c] \in {timer[c], NoTask}
                            /\ who'[c] = "ready" => timer'[c] = NoTask
                            /\ who[c] = "asleep" => lag'[c] = lag[c]
  PROVE  TimerInv'
<1>1. IsTimer(tm')
  BY DEF TimerInv
<1>2. TasksOwned' /\ TimersOwned' /\ TimersAreKept'
  BY DEF TimerInv, TasksOwned, TimersOwned, TimersAreKept
<1>3. DueInTime'
  BY DEF TimerInv, TasksOwned, DueInTime
<1> QED
  BY <1>1, <1>2, <1>3 DEF TimerInv

\* The owners of the tasks are clients.
LEMMA Owners ==
  ASSUME TypeOK PROVE \A t \in Held(tm) : t \in Tasks /\ t.owner \in Clients
BY TaskFacts DEF TypeOK

\* The worker resumes a coroutine: its user data is gone.
LEMMA ResumeServed ==
  ASSUME Served, NEW c \in Clients, Resume(c)
  PROVE  Served'
<1>1. /\ who[c] = "woken" /\ who' = [who EXCEPT ![c] = "ready"]
      /\ timer' = [timer EXCEPT ![c] = NoTask]
      /\ lag' = [lag EXCEPT ![c] = 0]
      /\ UNCHANGED <<wakerVars, pc, now, tm, iv, gen, calls, op, asked, cancels, tick, cq, nulls>>
      /\ TypeOK /\ OpInv /\ GensCounted /\ TimerInv
  BY DEF Resume, Served
<1>2. TypeOK'
  BY <1>1 DEF TypeOK, wakerVars
<1>3. OpInv'
  BY <1>1 DEF OpInv, Posted, TypeOK
<1>4. TimerInv'
  <2>1. \A b \in Clients : /\ who'[b] = "asleep" <=> who[b] = "asleep"
                           /\ who'[b] = "io" => who[b] = "io"
                           /\ timer'[b] \in {timer[b], NoTask}
                           /\ who'[b] = "ready" => timer'[b] = NoTask
                           /\ who[b] = "asleep" => lag'[b] = lag[b]
    BY <1>1 DEF TypeOK, TimerInv, TimersOwned
  <2> QED
    BY <1>1, <2>1, TimerUnmoved, Owners
<1>5. GensCounted'
  BY <1>1 DEF GensCounted
<1> QED
  BY <1>2, <1>3, <1>4, <1>5 DEF Served

\* A wait that is over already, or a task in the wheels.
LEMMA SleepUntilServed ==
  ASSUME Served, NEW c \in Clients, NEW d \in Nat, SleepUntil(c, d), now \in Nat,
         UNCHANGED <<wakerVars, pc, now, op, timer, asked, cancels, tick, cq, nulls>>
  PROVE  Served'
<1>1. /\ who[c] = "ready" /\ calls < MaxOps /\ calls' = calls + 1
      /\ gen' = [gen EXCEPT ![c] = @ + 1]
      /\ TypeOK /\ OpInv /\ GensCounted /\ TimerInv
  BY DEF SleepUntil, Begins, Counted, Served
<1>2. /\ gen' \in [Clients -> 0 .. MaxOps] /\ calls' \in 0 .. MaxOps
      /\ gen'[c] = gen[c] + 1 /\ \A b \in Clients \ {c} : gen'[b] = gen[b]
      /\ gen[c] \in Nat /\ calls \in Nat
  BY SMTT(30), <1>1, EngineAssumption DEF TypeOK, GensCounted
<1>3. GensCounted'
  <2>1. ASSUME NEW b \in Clients PROVE gen'[b] <= calls'
    <3>1. gen[b] \in Nat /\ gen[b] <= calls /\ gen[c] <= calls
      BY <1>1, EngineAssumption DEF TypeOK, GensCounted
    <3> QED
      BY <1>1, <1>2, <3>1
  <2> QED
    BY <2>1 DEF GensCounted
<1>4. CASE d <= now
  <2>1. UNCHANGED <<tm, who, lag>>
    BY <1>4 DEF SleepUntil
  <2>2. TypeOK'
    BY <1>1, <1>2, <2>1 DEF TypeOK, wakerVars
  <2>3. OpInv'
    BY <1>1, <2>1 DEF OpInv, Posted
  <2>4. TasksOwned'
    <3>1. ASSUME NEW t \in Held(tm)
          PROVE  /\ t.gen <= gen'[t.owner]
                 /\ t.kind = "sleep" => who[t.owner] = "asleep" /\ gen'[t.owner] = t.gen
                 /\ t.kind = "io" /\ gen'[t.owner] = t.gen => who[t.owner] # "asleep"
      <4>1. t \in Tasks /\ t.owner \in Clients /\ t.gen \in Nat
        BY <1>1, Owners, TaskFacts
      <4>2. /\ t.gen <= gen[t.owner]
            /\ t.kind = "sleep" => who[t.owner] = "asleep" /\ gen[t.owner] = t.gen
            /\ t.kind = "io" /\ gen[t.owner] = t.gen => who[t.owner] # "asleep"
        BY <1>1 DEF TimerInv, TasksOwned
      <4>3. CASE t.owner = c
        BY <1>1, <1>2, <4>1, <4>2, <4>3
      <4>4. CASE t.owner # c
        BY <1>2, <4>1, <4>2, <4>4
      <4> QED
        BY <4>3, <4>4
    <3> QED
      BY <1>1, <2>1, <3>1 DEF TimerInv, TasksOwned
  <2>5. TimersOwned'
    BY <1>1, <2>1 DEF TimerInv, TimersOwned
  <2>6. TimersAreKept'
    BY <1>1, <1>2, <2>1 DEF TimerInv, TimersAreKept
  <2>7. DueInTime' /\ IsTimer(tm')
    BY <1>1, <2>1 DEF TimerInv, DueInTime
  <2> QED
    BY <1>3, <2>2, <2>3, <2>4, <2>5, <2>6, <2>7 DEF Served, TimerInv
<1>5. CASE ~(d <= now)
  <2> DEFINE n == Task(c, "sleep", d)
  <2>1. /\ tm' = AddTask(tm, n, now)
        /\ lag' = [lag EXCEPT ![c] = Lead(tm, d, now)]
        /\ who' = [who EXCEPT ![c] = "asleep"]
    BY <1>5 DEF SleepUntil
  <2>2. /\ n \in Tasks /\ n.owner = c /\ n.kind = "sleep"
        /\ n.gen = gen[c] + 1 /\ n.deadline = d
    BY <1>1, NewTaskFacts
  <2> HIDE DEF n
  <2>3. tm.start \in Nat /\ tm.start <= now /\ IsTimer(tm)
    BY <1>1 DEF TypeOK, TimerInv
  <2>4. /\ IsTimer(tm') /\ tm'.start = tm.start /\ Held(tm') = Held(tm) \cup {n}
        /\ \A u \in Held(tm) \ {n} : tm'.place[u] = tm.place[u]
        /\ Lead(tm, d, now) \in Nat
        /\ Due(tm', n) = d - Lead(tm, d, now)
    <3>1. n.deadline \in Nat /\ now <= n.deadline
      BY <1>5, <2>2
    <3> QED
      BY <2>1, <2>2, <2>3, <3>1, AddTaskFacts
  <2>5. /\ who' \in [Clients -> {"ready", "woken", "asleep", "io"}]
        /\ who'[c] = "asleep" /\ \A b \in Clients \ {c} : who'[b] = who[b]
        /\ lag' \in [Clients -> Nat]
        /\ lag'[c] = Lead(tm, d, now) /\ \A b \in Clients \ {c} : lag'[b] = lag[b]
    BY <1>1, <2>1, <2>4 DEF TypeOK
  <2>6. TypeOK'
    <3>1. Held(tm') \subseteq Tasks
      BY <1>1, <2>2, <2>4 DEF TypeOK
    <3>2. tm'.start \in 0 .. now' /\ tm'.entries \in Nat /\ tm'.level \in NoWheel .. MaxLevel
      BY <2>3, <2>4 DEF IsTimer
    <3> QED
      BY <1>1, <1>2, <2>5, <3>1, <3>2 DEF TypeOK, wakerVars
  <2>7. OpInv'
    BY <1>1, <2>5 DEF OpInv, Posted
  <2>8. ASSUME NEW t \in Held(tm)
        PROVE  /\ t.owner \in Clients /\ t # n
               /\ t.owner = c => t.kind = "io" /\ t.gen < gen'[c]
    <3>1. t \in Tasks /\ t.owner \in Clients /\ t.gen \in Nat /\ t.kind \in {"sleep", "io"}
      BY <1>1, Owners, TaskFacts
    <3>2. t.gen <= gen[t.owner] /\ (t.kind = "sleep" => who[t.owner] = "asleep")
      BY <1>1 DEF TimerInv, TasksOwned
    <3>3. t.owner = c => t.kind = "io" /\ t.gen < gen'[c]
      BY <1>1, <1>2, <3>1, <3>2
    <3> QED
      BY <1>2, <2>2, <3>1, <3>3
  <2>9. TasksOwned'
    <3>1. ASSUME NEW t \in Held(tm')
          PROVE  /\ t.gen <= gen'[t.owner]
                 /\ t.kind = "sleep" => who'[t.owner] = "asleep" /\ gen'[t.owner] = t.gen
                 /\ t.kind = "io" /\ gen'[t.owner] = t.gen => who'[t.owner] # "asleep"
      <4>1. CASE t = n
        BY <1>2, <2>2, <2>5, <4>1
      <4>2. CASE t # n /\ t.owner = c
        <5>1. t \in Held(tm) /\ t.gen \in Nat
          BY <1>1, <2>4, <4>2, Owners, TaskFacts
        <5> QED
          BY <1>2, <2>8, <4>2, <5>1
      <4>3. CASE t # n /\ t.owner # c
        <5>1. t \in Held(tm)
          BY <2>4, <4>3
        <5>2. gen'[t.owner] = gen[t.owner] /\ who'[t.owner] = who[t.owner]
          BY <1>2, <2>5, <2>8, <4>3, <5>1
        <5> QED
          BY <1>1, <5>1, <5>2 DEF TimerInv, TasksOwned
      <4> QED
        BY <4>1, <4>2, <4>3
    <3>2. ASSUME NEW t \in Held(tm'), NEW u \in Held(tm'),
                 t.kind = "sleep", u.kind = "sleep", t.owner = u.owner
          PROVE  t = u
      <4>1. CASE t.owner = c
        BY <2>4, <2>8, <3>2, <4>1
      <4>2. CASE t.owner # c
        <5>1. t \in Held(tm) /\ u \in Held(tm)
          BY <2>2, <2>4, <3>2, <4>2
        <5> QED
          BY <1>1, <3>2, <5>1 DEF TimerInv, TasksOwned
      <4> QED
        BY <4>1, <4>2
    <3> QED
      BY <3>1, <3>2 DEF TasksOwned
  <2>10. TimersOwned'
    BY <1>1, <2>5 DEF TimerInv, TimersOwned
  <2>11. TimersAreKept'
    <3>1. ASSUME NEW b \in Clients, who'[b] = "asleep"
          PROVE  \E t \in Held(tm') : t.owner = b /\ t.gen = gen'[b] /\ t.kind = "sleep"
      <4>1. CASE b = c
        BY <1>2, <2>2, <2>4, <4>1
      <4>2. CASE b # c
        BY <1>1, <1>2, <2>4, <2>5, <3>1, <4>2 DEF TimerInv, TimersAreKept
      <4> QED
        BY <4>1, <4>2
    <3>2. ASSUME NEW b \in Clients, who'[b] = "io", timer'[b] # NoTask
          PROVE  timer'[b] \in Held(tm')
      BY <1>1, <2>4, <2>5, <3>2 DEF TimerInv, TimersAreKept
    <3> QED
      BY <3>1, <3>2 DEF TimersAreKept
  <2>12. DueInTime'
    <3> SUFFICES ASSUME NEW t \in Held(tm'), t.kind = "sleep"
                 PROVE  Due(tm', t) >= t.deadline - lag'[t.owner]
      BY DEF DueInTime
    <3>1. CASE t = n
      BY <2>2, <2>4, <2>5, <3>1
    <3>2. CASE t # n
      <4>1. t \in Held(tm) /\ t.owner \in Clients \ {c}
        BY <2>4, <2>8, <3>2
      <4>2. Due(tm', t) = Due(tm, t) /\ lag'[t.owner] = lag[t.owner]
        BY <2>4, <2>5, <3>2, <4>1 DEF Due
      <4> QED
        BY <1>1, <4>1, <4>2 DEF TimerInv, DueInTime
    <3> QED
      BY <3>1, <3>2
  <2> QED
    BY <1>3, <2>4, <2>6, <2>7, <2>9, <2>10, <2>11, <2>12 DEF Served, TimerInv
<1> QED
  BY <1>4, <1>5

\* Sleep and TickInterval await a deadline.
LEMMA SleepsServed ==
  ASSUME Served, IntervalInv, NEW c \in Clients, Sleep(c) \/ TickInterval(c)
  PROVE  Served'
<1>1. now \in Nat /\ iv.deadline \in Nat
  BY DEF IntervalInv
<1>2. CASE Sleep(c)
  <2>1. PICK d \in Delays : SleepUntil(c, now + d)
    BY <1>2 DEF Sleep
  <2>2. now + d \in Nat
    BY <1>1, EngineAssumption
  <2>3. UNCHANGED <<wakerVars, pc, now, op, timer, asked, cancels, tick, cq, nulls>>
    BY <1>2 DEF Sleep
  <2> QED
    BY <1>1, <2>1, <2>2, <2>3, SleepUntilServed
<1>3. CASE TickInterval(c)
  BY <1>1, <1>3, SleepUntilServed DEF TickInterval
<1> QED
  BY <1>2, <1>3

\* A step that is neither a client's nor the timer's.
LEMMA EngineUnmoved ==
  ASSUME Served, UNCHANGED <<tm, gen, who, timer, lag>>, TypeOK', OpInv', calls' >= calls
  PROVE  Served'
<1>1. GensCounted'
  <2>1. ASSUME NEW b \in Clients PROVE gen[b] <= calls'
    <3>1. gen[b] \in Nat /\ calls \in Nat /\ calls' \in Nat
      BY EngineAssumption DEF Served, TypeOK
    <3> QED
      BY <3>1 DEF Served, GensCounted
  <2> QED
    BY <2>1 DEF GensCounted
<1>2. TimerInv'
  <2>1. \A b \in Clients : /\ who'[b] = "asleep" <=> who[b] = "asleep"
                           /\ who'[b] = "io" => who[b] = "io"
                           /\ timer'[b] \in {timer[b], NoTask}
                           /\ who'[b] = "ready" => timer'[b] = NoTask
                           /\ who[b] = "asleep" => lag'[b] = lag[b]
    BY DEF Served, TimerInv, TimersOwned
  <2> QED
    BY <2>1, TimerUnmoved, Owners DEF Served
<1> QED
  BY <1>1, <1>2 DEF Served

\* What posting the completion of an operation in flight does to the queue.
LEMMA PostServed ==
  ASSUME TypeOK, OpInv, NEW c \in Clients, op[c] = "flying", UNCHANGED who,
         op' = [op EXCEPT ![c] = "posted"], cq' = Append(cq, c)
  PROVE  /\ OpInv' /\ cq' \in Seq(Clients)
         /\ op' \in [Clients -> {"none", "prepared", "flying", "posted"}]
<1>1. /\ cq' \in Seq(Clients) /\ Len(cq) \in Nat /\ Len(cq') = Len(cq) + 1
      /\ DOMAIN cq = 1 .. Len(cq) /\ DOMAIN cq' = 1 .. Len(cq) + 1
      /\ \A i \in 1 .. Len(cq) : cq'[i] = cq[i]
      /\ cq'[Len(cq) + 1] = c
  BY DEF TypeOK
<1>2. c \notin Posted
  BY DEF OpInv
<1>3. \A i \in 1 .. Len(cq) : cq[i] # c
  BY <1>2 DEF Posted
<1>4. Posted' = Posted \cup {c}
  BY <1>1 DEF Posted
<1>5. IsInjective(cq')
  <2>1. ASSUME NEW i \in 1 .. Len(cq) + 1, NEW j \in 1 .. Len(cq) + 1, cq'[i] = cq'[j]
        PROVE  i = j
    <3>1. CASE i = Len(cq) + 1 /\ j # i
      BY <1>1, <1>3, <2>1, <3>1
    <3>2. CASE j = Len(cq) + 1 /\ j # i
      BY <1>1, <1>3, <2>1, <3>2
    <3>3. CASE i \in 1 .. Len(cq) /\ j \in 1 .. Len(cq)
      BY <1>1, <2>1, <3>3 DEF OpInv, IsInjective
    <3> QED
      BY <1>1, <3>1, <3>2, <3>3
  <2> QED
    BY <1>1, <2>1 DEF IsInjective
<1>6. /\ op' \in [Clients -> {"none", "prepared", "flying", "posted"}]
      /\ op'[c] = "posted" /\ \A b \in Clients \ {c} : op'[b] = op[b]
  BY DEF TypeOK
<1>7. \A b \in Clients : who'[b] = "io" <=> op'[b] # "none"
  BY <1>6 DEF OpInv
<1>8. \A b \in Clients : b \in Posted' <=> op'[b] = "posted"
  BY <1>4, <1>6 DEF OpInv
<1> QED
  BY <1>1, <1>5, <1>6, <1>7, <1>8 DEF OpInv

\* The kernel completes an operation, of itself or for a cancel.
LEMMA KernelServed ==
  ASSUME Served, NEW c \in Clients, Complete(c) \/ Cancel(c)
  PROVE  Served'
<1>1. TypeOK /\ OpInv
  BY DEF Served
<1>2. UNCHANGED <<wakerVars, pc, now, tm, iv, who, gen, calls, lag, timer, asked, tick>>
  BY DEF Complete, Cancel
<1>3. \/ UNCHANGED <<op, cq>>
      \/ /\ op[c] = "flying" /\ op' = [op EXCEPT ![c] = "posted"] /\ cq' = Append(cq, c)
  BY DEF Complete, Cancel
<1>4. /\ OpInv' /\ cq' \in Seq(Clients)
      /\ op' \in [Clients -> {"none", "prepared", "flying", "posted"}]
  <2>1. CASE UNCHANGED <<op, cq>>
    BY <1>1, <1>2, <2>1 DEF OpInv, Posted, TypeOK
  <2> QED
    BY <1>1, <1>2, <1>3, <2>1, PostServed
<1>5. cancels' \in [Clients -> Nat] /\ nulls' \in Nat
  <2>1. cancels \in [Clients -> Nat] /\ nulls \in Nat
    BY <1>1 DEF TypeOK
  <2>2. CASE UNCHANGED <<cancels, nulls>>
    BY <2>1, <2>2
  <2>3. CASE cancels[c] > 0 /\ cancels' = [cancels EXCEPT ![c] = @ - 1] /\ nulls' = nulls + 1
    <3>1. cancels[c] - 1 \in Nat
      BY <2>1, <2>3
    <3> QED
      BY <2>1, <2>3, <3>1
  <2> QED
    BY <2>2, <2>3 DEF Complete, Cancel
<1>6. TypeOK'
  BY <1>1, <1>2, <1>4, <1>5 DEF TypeOK, wakerVars
<1>7. calls' >= calls
  BY <1>1, <1>2, EngineAssumption DEF TypeOK
<1> QED
  BY <1>2, <1>4, <1>6, <1>7, EngineUnmoved

\* The submission of what is prepared: nothing begins, ends or is posted.
LEMMA SubmittedFacts ==
  ASSUME NEW f \in [Clients -> {"none", "prepared", "flying", "posted"}]
  PROVE  /\ Submitted(f) \in [Clients -> {"none", "prepared", "flying", "posted"}]
         /\ \A c \in Clients : /\ Submitted(f)[c] = "none" <=> f[c] = "none"
                               /\ Submitted(f)[c] = "posted" <=> f[c] = "posted"
BY DEF Submitted

\* The types of the cancels after a submission.
LEMMA CancelsFacts ==
  ASSUME asked \in [Clients -> Nat], cancels \in [Clients -> Nat], CancelsSubmitted
  PROVE  asked' \in [Clients -> Nat] /\ cancels' \in [Clients -> Nat]
BY DEF CancelsSubmitted

\* Wakeups, the clock, the waker's read, resets, submissions and the worker's
\* own moves leave the timer and the clients alone.
LEMMA OthersServed ==
  ASSUME Served, WakerInv, IntervalInv,
         \/ WakerWritten \/ WakerRead \/ Tick \/ WatchAndSubmit
         \/ Run \/ DriveAgain \/ Wait \/ WaitReturns \/ WaitTimesOut
         \/ UNCHANGED vars \/ \E c \in Clients : ResetInterval(c)
  PROVE  Served'
<1> USE WakerAssumption, EngineAssumption
<1>1. TypeOK /\ OpInv /\ calls \in Nat
  BY SMTT(30) DEF Served, TypeOK
<1>2. CASE WakerWritten
  <2>1. /\ UNCHANGED <<pc, now, tm, iv, who, gen, lag, op, timer, asked, cancels, tick, cq, nulls>>
        /\ calls < MaxOps /\ calls' = calls + 1 /\ UNCHANGED <<flag, reading, cqes>>
    BY <1>2 DEF WakerWritten, WakeUp, Counted
  <2>2. counter' \in 0 .. MaxCount
    BY <1>1, <1>2 DEF WakerWritten, WakeUp, TypeOK
  <2>3. TypeOK'
    BY SMTT(30), <1>1, <2>1, <2>2 DEF TypeOK
  <2>4. OpInv'
    BY <1>1, <2>1 DEF OpInv, Posted
  <2> QED
    BY <1>1, <2>1, <2>3, <2>4, EngineUnmoved
<1>3. CASE WakerRead
  <2>1. UNCHANGED engineVars
    BY <1>3 DEF WakerRead
  <2>2. flag' \in 0 .. MaxCount /\ counter' \in 0 .. MaxCount /\ cqes' \in Nat
    BY <1>1, <1>3 DEF WakerRead, ReadCompletes, TypeOK
  <2>5. reading' \in BOOLEAN
    BY <1>3 DEF WakerRead, ReadCompletes
  <2>3. TypeOK'
    BY <1>1, <2>1, <2>2, <2>5 DEF TypeOK, engineVars
  <2>4. OpInv' /\ calls' >= calls
    BY <1>1, <2>1 DEF OpInv, Posted, engineVars
  <2> QED
    BY <2>1, <2>3, <2>4, EngineUnmoved DEF engineVars
<1>4. CASE Tick
  <2>1. /\ UNCHANGED <<wakerVars, pc, tm, iv, who, gen, calls, lag, op, timer, asked,
                       cancels, tick, cq, nulls>>
        /\ now' \in 0 .. MaxTime /\ now' = now + 1
    BY <1>1, <1>4 DEF Tick, TypeOK
  <2>2. TypeOK'
    BY SMTT(30), <1>1, <2>1 DEF TypeOK, wakerVars
  <2>3. OpInv' /\ calls' >= calls
    BY <1>1, <2>1 DEF OpInv, Posted
  <2> QED
    BY <2>1, <2>2, <2>3, EngineUnmoved
<1>5. CASE WatchAndSubmit
  <2>1. /\ UNCHANGED <<now, tm, iv, who, gen, calls, lag, timer, cq, nulls, counter, cqes>>
        /\ flag' = 0 /\ pc' = "driven" /\ tick' = 0 /\ op' = Submitted(op)
    BY <1>5 DEF WatchAndSubmit, StartWatch
  <2>2. reading' \in BOOLEAN
    BY <1>5 DEF WatchAndSubmit, StartWatch
  <2>3. asked' \in [Clients -> Nat] /\ cancels' \in [Clients -> Nat]
    BY <1>1, <1>5, CancelsFacts DEF WatchAndSubmit, TypeOK
  <2>4. /\ op' \in [Clients -> {"none", "prepared", "flying", "posted"}]
        /\ \A c \in Clients : /\ op'[c] = "none" <=> op[c] = "none"
                              /\ op'[c] = "posted" <=> op[c] = "posted"
    BY <1>1, <2>1, SubmittedFacts DEF TypeOK
  <2>5. TypeOK'
    <3>1. flag' \in 0 .. MaxCount /\ tick' \in 0 .. SubmitInterval - 1
      BY <2>1
    <3>2. /\ pc' \in {"drive", "poll", "watch", "driven", "awake", "waiting"}
          /\ counter' \in 0 .. MaxCount /\ cqes' \in Nat
          /\ now' \in 0 .. MaxTime
          /\ tm'.start \in 0 .. now' /\ tm'.entries \in Nat
          /\ tm'.level \in NoWheel .. MaxLevel
      BY <1>1, <2>1 DEF TypeOK
    <3>3. /\ Held(tm') \subseteq Tasks
          /\ who' \in [Clients -> {"ready", "woken", "asleep", "io"}]
          /\ gen' \in [Clients -> 0 .. MaxOps] /\ calls' \in 0 .. MaxOps
          /\ lag' \in [Clients -> Nat]
          /\ timer' \in [Clients -> Tasks \cup {NoTask}]
          /\ cq' \in Seq(Clients) /\ nulls' \in Nat
      BY <1>1, <2>1 DEF TypeOK
    <3> QED
      BY <2>2, <2>3, <2>4, <3>1, <3>2, <3>3, Zenon DEF TypeOK
  <2>6. OpInv' /\ calls' >= calls
    BY <1>1, <2>1, <2>4 DEF OpInv, Posted
  <2> QED
    BY <2>1, <2>5, <2>6, EngineUnmoved
<1>6. CASE Run \/ DriveAgain \/ Wait \/ WaitReturns \/ WaitTimesOut
  <2>1. /\ UNCHANGED <<wakerVars, now, tm, iv, who, gen, calls, lag, op, timer, asked,
                       cancels, tick, cq, nulls>>
        /\ pc' \in {"drive", "driven", "awake", "waiting"}
    BY <1>6 DEF Run, DriveAgain, Wait, WaitReturns, WaitTimesOut, Goes
  <2>2. TypeOK'
    BY <1>1, <2>1 DEF TypeOK, wakerVars
  <2>3. OpInv' /\ calls' >= calls
    BY <1>1, <2>1 DEF OpInv, Posted
  <2> QED
    BY <2>1, <2>2, <2>3, EngineUnmoved
<1>7. CASE UNCHANGED vars
  <2>1. UNCHANGED wakerVars /\ UNCHANGED engineVars
    BY <1>7 DEF vars
  <2>2. TypeOK'
    BY <1>1, <2>1 DEF TypeOK, wakerVars, engineVars
  <2>3. OpInv' /\ calls' >= calls
    BY <1>1, <2>1 DEF OpInv, Posted, engineVars
  <2> QED
    BY <2>1, <2>2, <2>3, EngineUnmoved DEF engineVars
<1>8. ASSUME NEW c \in Clients, ResetInterval(c) PROVE Served'
  <2>1. /\ UNCHANGED <<wakerVars, pc, now, tm, who, gen, lag, op, timer, asked, cancels,
                       tick, cq, nulls>>
        /\ calls < MaxOps /\ calls' = calls + 1
    BY <1>8 DEF ResetInterval, Counted
  <2>4. calls' \in 0 .. MaxOps
    BY <1>1, <2>1
  <2>2. TypeOK'
    BY <1>1, <2>1, <2>4 DEF TypeOK, wakerVars
  <2>3. OpInv' /\ calls' >= calls
    BY <1>1, <2>1 DEF OpInv, Posted
  <2> QED
    BY <2>1, <2>2, <2>3, EngineUnmoved
<1> QED
  BY <1>2, <1>3, <1>4, <1>5, <1>6, <1>7, <1>8

\* What preparing an entry, and submitting now and then, does.
LEMMA SubmitFacts ==
  ASSUME TypeOK, NEW c \in Clients, Submit(c)
  PROVE  /\ op' \in [Clients -> {"none", "prepared", "flying", "posted"}]
         /\ op'[c] \in {"prepared", "flying"}
         /\ \A b \in Clients \ {c} : /\ op'[b] = "none" <=> op[b] = "none"
                                     /\ op'[b] = "posted" <=> op[b] = "posted"
         /\ asked' \in [Clients -> Nat] /\ cancels' \in [Clients -> Nat]
         /\ tick' \in 0 .. SubmitInterval - 1
<1> DEFINE p == [op EXCEPT ![c] = "prepared"]
<1>1. /\ op \in [Clients -> {"none", "prepared", "flying", "posted"}]
      /\ asked \in [Clients -> Nat] /\ cancels \in [Clients -> Nat]
      /\ tick \in 0 .. SubmitInterval - 1
  BY DEF TypeOK
<1>2. /\ p \in [Clients -> {"none", "prepared", "flying", "posted"}]
      /\ p[c] = "prepared" /\ \A b \in Clients \ {c} : p[b] = op[b]
  BY <1>1
<1>3. CASE tick + 1 = SubmitInterval
  <2>1. tick' = 0 /\ op' = Submitted(p) /\ CancelsSubmitted
    BY <1>3 DEF Submit
  <2> HIDE DEF p
  <2>2. op'[c] \in {"prepared", "flying"}
    BY <1>2, <2>1 DEF Submitted
  <2>3. tick' \in 0 .. SubmitInterval - 1
    BY <2>1, EngineAssumption
  <2> QED
    BY <1>1, <1>2, <2>1, <2>2, <2>3, SubmittedFacts, CancelsFacts
<1>4. CASE tick + 1 # SubmitInterval
  <2>1. tick' = tick + 1 /\ op' = p /\ UNCHANGED <<asked, cancels>>
    BY <1>4 DEF Submit
  <2> HIDE DEF p
  <2>2. tick' \in 0 .. SubmitInterval - 1
    BY <1>1, <1>4, <2>1, EngineAssumption
  <2> QED
    BY <1>1, <1>2, <2>1, <2>2
<1> QED
  BY <1>3, <1>4

\* What a timeout leaves of the timer and of timer_task: nothing, or a task
\* made for this operation.
LEMMA TimeoutFacts ==
  ASSUME Served, IntervalInv, NEW c \in Clients, StartIo(c)
  PROVE  /\ IsTimer(tm') /\ tm'.start = tm.start /\ Held(tm') \subseteq Tasks
         /\ Held(tm) \subseteq Held(tm')
         /\ \A u \in Held(tm) : u.owner \in Clients /\ u.gen \in Nat
                                /\ u.gen <= gen[u.owner]
         /\ \A u \in Held(tm) : Due(tm', u) = Due(tm, u)
         /\ \A u \in Held(tm') \ Held(tm) :
              u.owner = c /\ u.gen = gen[c] + 1 /\ u.kind = "io"
         /\ timer' \in [Clients -> Tasks \cup {NoTask}]
         /\ \A b \in Clients \ {c} : timer'[b] = timer[b]
         /\ timer'[c] # NoTask =>
              timer'[c] \in Held(tm') /\ timer'[c].owner = c /\ timer'[c].kind = "io"
<1>1. /\ TypeOK /\ TimerInv /\ GensCounted /\ IsTimer(tm)
      /\ who[c] = "ready" /\ calls < MaxOps
      /\ timer[c] = NoTask /\ timer \in [Clients -> Tasks \cup {NoTask}]
      /\ gen \in [Clients -> 0 .. MaxOps] /\ MaxOps \in Nat
  BY EngineAssumption DEF StartIo, Begins, Counted, Served, TypeOK, TimerInv, TimersOwned
<1>2. \A u \in Held(tm) : u \in Tasks /\ u.owner \in Clients /\ u.gen \in Nat
                          /\ u.gen <= gen[u.owner]
  BY <1>1, Owners, TaskFacts DEF TimerInv, TasksOwned
<1>3. CASE UNCHANGED <<tm, timer>>
  BY <1>1, <1>2, <1>3 DEF IsTimer
<1>4. ASSUME NEW d \in Delays,
             tm' = AddTask(tm, Task(c, "io", now + d), now),
             timer' = [timer EXCEPT ![c] = Task(c, "io", now + d)]
      PROVE  /\ IsTimer(tm') /\ tm'.start = tm.start /\ Held(tm') \subseteq Tasks
             /\ Held(tm) \subseteq Held(tm')
             /\ \A u \in Held(tm) : Due(tm', u) = Due(tm, u)
             /\ \A u \in Held(tm') \ Held(tm) :
                  u.owner = c /\ u.gen = gen[c] + 1 /\ u.kind = "io"
             /\ timer' \in [Clients -> Tasks \cup {NoTask}]
             /\ \A b \in Clients \ {c} : timer'[b] = timer[b]
             /\ timer'[c] # NoTask =>
                  timer'[c] \in Held(tm') /\ timer'[c].owner = c /\ timer'[c].kind = "io"
  <2> DEFINE n == Task(c, "io", now + d)
  <2>1. now \in Nat /\ now + d \in Nat /\ now <= now + d
    BY EngineAssumption DEF IntervalInv
  <2>2. /\ n \in Tasks /\ n.owner = c /\ n.kind = "io"
        /\ n.gen = gen[c] + 1 /\ n.deadline = now + d
    BY <1>1, <2>1, NewTaskFacts
  <2>3. tm' = AddTask(tm, n, now) /\ timer' = [timer EXCEPT ![c] = n]
    BY <1>4
  <2> HIDE DEF n
  <2>4. tm.start <= now
    BY <1>1, <2>1 DEF TypeOK
  <2>5. /\ IsTimer(tm') /\ tm'.start = tm.start /\ Held(tm') = Held(tm) \cup {n}
        /\ \A u \in Held(tm) \ {n} : tm'.place[u] = tm.place[u]
    BY <1>1, <2>1, <2>2, <2>3, <2>4, AddTaskFacts
  <2>6. n \notin Held(tm)
    <3> SUFFICES ASSUME n \in Held(tm) PROVE FALSE
      OBVIOUS
    <3>1. n.gen \in Nat /\ n.gen <= gen[n.owner]
      BY <1>2
    <3>2. gen[c] \in Nat
      BY <1>1
    <3> QED
      BY <2>2, <3>1, <3>2
  <2>7. \A u \in Held(tm) : Due(tm', u) = Due(tm, u)
    BY <2>5, <2>6 DEF Due
  <2>8. /\ timer' \in [Clients -> Tasks \cup {NoTask}] /\ timer'[c] = n
        /\ \A b \in Clients \ {c} : timer'[b] = timer[b]
    BY <1>1, <2>2, <2>3
  <2>9. Held(tm') \subseteq Tasks
    BY <1>2, <2>2, <2>5
  <2> QED
    BY <2>2, <2>5, <2>7, <2>8, <2>9
<1> QED
  BY <1>2, <1>3, <1>4 DEF StartIo

\* An operation begins, with a timeout or without.
LEMMA StartIoServed ==
  ASSUME Served, IntervalInv, NEW c \in Clients, StartIo(c)
  PROVE  Served'
<1>1. /\ who[c] = "ready" /\ calls < MaxOps /\ calls' = calls + 1
      /\ gen' = [gen EXCEPT ![c] = @ + 1] /\ who' = [who EXCEPT ![c] = "io"]
      /\ UNCHANGED <<wakerVars, pc, now, iv, lag, cq, nulls>>
      /\ TypeOK /\ OpInv /\ GensCounted /\ TimerInv
  BY DEF StartIo, Begins, Counted, Served
<1>2. /\ gen' \in [Clients -> 0 .. MaxOps] /\ calls' \in 0 .. MaxOps
      /\ gen'[c] = gen[c] + 1 /\ \A b \in Clients \ {c} : gen'[b] = gen[b]
      /\ gen[c] \in Nat /\ calls \in Nat
      /\ who' \in [Clients -> {"ready", "woken", "asleep", "io"}]
      /\ who'[c] = "io" /\ \A b \in Clients \ {c} : who'[b] = who[b]
  BY SMTT(30), <1>1, EngineAssumption DEF TypeOK, GensCounted
<1>3. GensCounted'
  <2>1. ASSUME NEW b \in Clients PROVE gen'[b] <= calls'
    <3>1. gen[b] \in Nat /\ gen[b] <= calls /\ gen[c] <= calls
      BY <1>1, EngineAssumption DEF TypeOK, GensCounted
    <3> QED
      BY <1>1, <1>2, <3>1
  <2> QED
    BY <2>1 DEF GensCounted
<1>4. /\ op' \in [Clients -> {"none", "prepared", "flying", "posted"}]
      /\ op'[c] \in {"prepared", "flying"}
      /\ \A b \in Clients \ {c} : /\ op'[b] = "none" <=> op[b] = "none"
                                  /\ op'[b] = "posted" <=> op[b] = "posted"
      /\ asked' \in [Clients -> Nat] /\ cancels' \in [Clients -> Nat]
      /\ tick' \in 0 .. SubmitInterval - 1
  BY <1>1, SubmitFacts DEF StartIo
<1>5. /\ IsTimer(tm') /\ tm'.start = tm.start /\ Held(tm') \subseteq Tasks
      /\ Held(tm) \subseteq Held(tm')
      /\ \A u \in Held(tm) : u.owner \in Clients /\ u.gen \in Nat /\ u.gen <= gen[u.owner]
      /\ \A u \in Held(tm) : Due(tm', u) = Due(tm, u)
      /\ \A u \in Held(tm') \ Held(tm) :
           u.owner = c /\ u.gen = gen[c] + 1 /\ u.kind = "io"
      /\ timer' \in [Clients -> Tasks \cup {NoTask}]
      /\ \A b \in Clients \ {c} : timer'[b] = timer[b]
      /\ timer'[c] # NoTask =>
           timer'[c] \in Held(tm') /\ timer'[c].owner = c /\ timer'[c].kind = "io"
  BY TimeoutFacts
<1>6. TypeOK'
  <2>1. tm'.start \in 0 .. now' /\ tm'.entries \in Nat /\ tm'.level \in NoWheel .. MaxLevel
    BY <1>1, <1>5 DEF TypeOK, IsTimer
  <2> QED
    BY <1>1, <1>2, <1>4, <1>5, <2>1 DEF TypeOK, wakerVars
<1>7. OpInv'
  <2>1. op[c] = "none"
    BY <1>1 DEF OpInv
  <2>2. Posted' = Posted
    BY <1>1 DEF Posted
  <2>3. \A b \in Clients : who'[b] = "io" <=> op'[b] # "none"
    BY <1>1, <1>2, <1>4 DEF OpInv
  <2>4. \A b \in Clients : b \in Posted' <=> op'[b] = "posted"
    BY <1>1, <1>4, <2>1, <2>2 DEF OpInv
  <2> QED
    BY <1>1, <2>3, <2>4 DEF OpInv
<1>8. TasksOwned'
  <2>1. ASSUME NEW t \in Held(tm')
        PROVE  /\ t.gen <= gen'[t.owner]
               /\ t.kind = "sleep" => who'[t.owner] = "asleep" /\ gen'[t.owner] = t.gen
               /\ t.kind = "io" /\ gen'[t.owner] = t.gen => who'[t.owner] # "asleep"
               /\ t.kind = "sleep" => t \in Held(tm)
    <3>1. CASE t \in Held(tm) /\ t.owner = c
      <4>1. t.kind # "sleep" /\ t.gen <= gen[c] /\ t.gen \in Nat
        BY <1>1, <1>5, <3>1 DEF TimerInv, TasksOwned
      <4> QED
        BY <1>2, <3>1, <4>1
    <3>2. CASE t \in Held(tm) /\ t.owner # c
      <4>1. gen'[t.owner] = gen[t.owner] /\ who'[t.owner] = who[t.owner]
        BY <1>2, <1>5, <3>2
      <4> QED
        BY <1>1, <3>2, <4>1 DEF TimerInv, TasksOwned
    <3>3. CASE t \notin Held(tm)
      BY <1>2, <1>5, <3>3
    <3> QED
      BY <3>1, <3>2, <3>3
  <2>2. ASSUME NEW t \in Held(tm'), NEW u \in Held(tm'),
               t.kind = "sleep", u.kind = "sleep", t.owner = u.owner
        PROVE  t = u
    BY <1>1, <2>1, <2>2 DEF TimerInv, TasksOwned
  <2> QED
    BY <2>1, <2>2 DEF TasksOwned
<1>9. TimersOwned'
  BY <1>1, <1>2, <1>5 DEF TimerInv, TimersOwned
<1>10. TimersAreKept'
  <2>1. ASSUME NEW b \in Clients, who'[b] = "asleep"
        PROVE  \E t \in Held(tm') : t.owner = b /\ t.gen = gen'[b] /\ t.kind = "sleep"
    <3>1. b # c /\ who[b] = "asleep" /\ gen'[b] = gen[b]
      BY <1>2, <2>1
    <3> QED
      BY <1>1, <1>5, <3>1 DEF TimerInv, TimersAreKept
  <2>2. ASSUME NEW b \in Clients, who'[b] = "io", timer'[b] # NoTask
        PROVE  timer'[b] \in Held(tm')
    BY <1>1, <1>2, <1>5, <2>2 DEF TimerInv, TimersAreKept
  <2> QED
    BY <2>1, <2>2 DEF TimersAreKept
<1>11. DueInTime'
  <2> SUFFICES ASSUME NEW t \in Held(tm'), t.kind = "sleep"
               PROVE  Due(tm', t) >= t.deadline - lag'[t.owner]
    BY DEF DueInTime
  <2>1. t \in Held(tm)
    BY <1>5
  <2> QED
    BY <1>1, <1>5, <2>1 DEF TimerInv, DueInTime
<1> QED
  BY <1>3, <1>5, <1>6, <1>7, <1>8, <1>9, <1>10, <1>11 DEF Served, TimerInv

\* drive takes out of the timer the tasks of the operations it has peeked,
\* at most, and moves no other: by induction on the completion queue.
LEMMA RemovedFacts ==
  ASSUME IsTimer(tm), cq \in Seq(Clients), NEW k \in 0 .. Len(cq)
  PROVE  LET r == TimerAfterCompletions(k) IN
         /\ IsTimer(r) /\ r.start = tm.start /\ Held(r) \subseteq Held(tm)
         /\ \A u \in Held(tm) : (\A c \in Peeked(k) : u # timer[c]) => u \in Held(r)
         /\ \A u \in Held(r) : r.place[u] = tm.place[u]
<1> DEFINE remove(t, c) == IF timer[c] = NoTask THEN t ELSE RemoveTask(t, timer[c], now)
           IsRemoved(g, n) ==
             g = [i \in 0 .. n |-> IF i = 0 THEN tm ELSE remove(g[i - 1], cq[i])]
<1>1. \A n \in Nat : \E g : IsRemoved(g, n)
  <2> HIDE DEF remove
  <2> DEFINE T == {n \in Nat : \E g : IsRemoved(g, n)}
  <2>1. 0 \in T
    <3>1. IsRemoved([i \in 0 .. 0 |-> tm], 0)
      OBVIOUS
    <3> QED
      BY <3>1
  <2>2. ASSUME NEW n \in T PROVE n + 1 \in T
    <3>1. PICK g : IsRemoved(g, n)
      OBVIOUS
    <3> DEFINE h == [i \in 0 .. n + 1 |->
                       IF i = n + 1 THEN remove(g[n], cq[n + 1]) ELSE g[i]]
    <3>2. ASSUME NEW i \in 0 .. n + 1
          PROVE  h[i] = IF i = 0 THEN tm ELSE remove(h[i - 1], cq[i])
      <4>1. CASE i = n + 1
        BY <4>1
      <4>2. CASE i # n + 1
        <5>1. i \in 0 .. n /\ h[i] = g[i] /\ (i # 0 => h[i - 1] = g[i - 1])
          BY <4>2
        <5> QED
          BY <3>1, <5>1
      <4> QED
        BY <4>1, <4>2
    <3>3. IsRemoved(h, n + 1)
      BY <3>2
    <3> HIDE DEF IsRemoved, h
    <3> QED
      BY <3>3
  <2> HIDE DEF T
  <2>3. T = Nat
    <3>1. T \subseteq Nat
      BY DEF T
    <3> QED
      BY <2>1, <2>2, <3>1, NatSetInduction
  <2> QED
    BY <2>3 DEF T
<1> DEFINE removed == CHOOSE g : IsRemoved(g, k)
<1>2. IsRemoved(removed, k)
  <2> HIDE DEF IsRemoved
  <2>1. k \in Nat
    OBVIOUS
  <2>2. \E g : IsRemoved(g, k)
    BY <1>1, <2>1
  <2> QED
    BY <2>2, Zenon
<1>3. TimerAfterCompletions(k) = removed[k]
  BY DEF TimerAfterCompletions
<1> HIDE DEF removed
<1> DEFINE Good(r) ==
             /\ IsTimer(r) /\ r.start = tm.start /\ Held(r) \subseteq Held(tm)
             /\ \A u \in Held(tm) : (\A c \in Peeked(k) : u # timer[c]) => u \in Held(r)
             /\ \A u \in Held(r) : r.place[u] = tm.place[u]
<1>4. \A i \in 0 .. k : Good(removed[i])
  <2> DEFINE T == {i \in Nat : i <= k => Good(removed[i])}
  <2>1. 0 \in T
    <3>1. removed[0] = tm
      BY <1>2
    <3> QED
      BY <3>1
  <2>2. ASSUME NEW i \in T PROVE i + 1 \in T
    <3> SUFFICES ASSUME i + 1 <= k PROVE Good(removed[i + 1])
      OBVIOUS
    <3> DEFINE p == removed[i]
    <3>1. Good(p)
      OBVIOUS
    <3>2. i + 1 \in 1 .. k /\ cq[i + 1] \in Peeked(k)
      BY DEF Peeked
    <3>3. removed[i + 1] = remove(p, cq[i + 1])
      BY <1>2
    <3> HIDE DEF p, T, IsRemoved
    <3>4. CASE timer[cq[i + 1]] = NoTask
      <4>1. removed[i + 1] = p
        BY <3>3, <3>4
      <4> QED
        BY <3>1, <4>1
    <3>5. CASE timer[cq[i + 1]] # NoTask
      <4> DEFINE t == timer[cq[i + 1]]
                 r == RemoveTask(p, t, now)
      <4>1. removed[i + 1] = r
        BY <3>3, <3>5
      <4>2. /\ IsTimer(r) /\ r.start = p.start
            /\ Held(r) \subseteq Held(p) /\ Held(p) \ {t} \subseteq Held(r)
            /\ \A u \in Held(r) : r.place[u] = p.place[u]
        BY <3>1, RemoveTaskFacts
      <4>3. ASSUME NEW u \in Held(tm), \A c \in Peeked(k) : u # timer[c]
            PROVE  u \in Held(r)
        BY <3>1, <3>2, <4>2, <4>3
      <4> HIDE DEF r, t
      <4> QED
        BY <3>1, <4>1, <4>2, <4>3
    <3> QED
      BY <3>4, <3>5
  <2> HIDE DEF T
  <2>3. T = Nat
    <3>1. T \subseteq Nat
      BY DEF T
    <3> QED
      BY <2>1, <2>2, <3>1, NatSetInduction
  <2> QED
    BY <2>3 DEF T
<1>5. k \in 0 .. k
  OBVIOUS
<1> HIDE DEF IsRemoved
<1> QED
  BY <1>3, <1>4, <1>5

\* The completions beyond the batch stay in the queue.
LEMMA BatchFacts ==
  ASSUME TypeOK, OpInv, NEW k \in 0 .. Len(cq),
         cq' = [i \in 1 .. Len(cq) - k |-> cq[i + k]]
  PROVE  /\ cq' \in Seq(Clients) /\ IsInjective(cq')
         /\ Peeked(k) \subseteq Posted /\ Posted' = Posted \ Peeked(k)
<1> DEFINE n == Len(cq) - k
<1>0. cq \in Seq(Clients)
  BY DEF TypeOK
<1>00. \A i, j \in DOMAIN cq : cq[i] = cq[j] => i = j
  BY DEF OpInv, IsInjective
<1>1. /\ Len(cq) \in Nat /\ n \in Nat /\ k \in Nat /\ n + k = Len(cq)
      /\ \A i \in 1 .. Len(cq) : cq[i] \in Clients
      /\ \A i, j \in 1 .. Len(cq) : cq[i] = cq[j] => i = j
  <2>1. DOMAIN cq = 1 .. Len(cq) /\ Len(cq) \in Nat
    BY <1>0
  <2>2. n \in Nat /\ k \in Nat /\ n + k = Len(cq)
    BY <2>1
  <2>3. \A i \in 1 .. Len(cq) : cq[i] \in Clients
    BY <1>0
  <2> HIDE DEF n
  <2> QED
    BY <1>00, <2>1, <2>2, <2>3
<1>2. \A i \in 1 .. n : i + k \in k + 1 .. Len(cq) /\ i + k \in 1 .. Len(cq)
  BY <1>1
<1> HIDE DEF n
<1>3. cq' \in [1 .. n -> Clients]
  BY <1>1, <1>2 DEF n
<1>4. cq' \in Seq(Clients) /\ Len(cq') = n /\ DOMAIN cq' = 1 .. n
  BY <1>1, <1>3
<1>5. \A i \in 1 .. n : cq'[i] = cq[i + k]
  BY DEF n
<1>6. IsInjective(cq')
  <2>1. ASSUME NEW i \in 1 .. n, NEW j \in 1 .. n, cq'[i] = cq'[j] PROVE i = j
    <3>1. i + k = j + k
      BY <1>1, <1>2, <1>5, <2>1
    <3> QED
      BY <1>1, <3>1
  <2>2. DOMAIN cq' = 1 .. n
    BY <1>4
  <2>3. \A i, j \in DOMAIN cq' : cq'[i] = cq'[j] => i = j
    BY <2>1, <2>2
  <2> QED
    BY ONLY <2>3 DEF IsInjective
<1>7. Peeked(k) \subseteq Posted
  BY <1>1 DEF Peeked, Posted
<1>8. ASSUME NEW c \in Clients PROVE c \in Posted' <=> c \in Posted /\ c \notin Peeked(k)
  <2>1. ASSUME c \in Posted' PROVE c \in Posted /\ c \notin Peeked(k)
    <3>1. PICK i \in 1 .. n : cq[i + k] = c
      BY <1>4, <1>5, <2>1 DEF Posted
    <3>2. c \in Posted
      BY <1>2, <3>1 DEF Posted
    <3>3. ASSUME NEW j \in 1 .. k, cq[j] = c PROVE FALSE
      <4>1. j \in 1 .. Len(cq) /\ j # i + k
        BY <1>1
      <4> QED
        BY <1>1, <1>2, <3>1, <3>3, <4>1
    <3> QED
      BY <3>2, <3>3 DEF Peeked
  <2>2. ASSUME c \in Posted, c \notin Peeked(k) PROVE c \in Posted'
    <3>1. PICK j \in 1 .. Len(cq) : cq[j] = c
      BY <2>2 DEF Posted
    <3>2. j \notin 1 .. k
      BY <2>2, <3>1 DEF Peeked
    <3>3. j - k \in 1 .. n /\ (j - k) + k = j
      BY <1>1, <3>2
    <3>4. cq'[j - k] = c
      BY <1>5, <3>1, <3>3
    <3> QED
      BY <1>4, <3>3, <3>4 DEF Posted
  <2> QED
    BY <2>1, <2>2
<1> QED
  BY <1>4, <1>6, <1>7, <1>8 DEF Posted

\* drive resumes the clients whose operations have completed, and no other.
LEMMA CompletionsServed ==
  ASSUME Served, Completions
  PROVE  Served'
<1>0. PICK k \in 0 .. Len(cq) :
        /\ tm' = TimerAfterCompletions(k)
        /\ who' = [c \in Clients |-> IF c \in Peeked(k) THEN "woken" ELSE who[c]]
        /\ op' = [c \in Clients |-> IF c \in Peeked(k) THEN "none" ELSE op[c]]
        /\ cq' = [i \in 1 .. Len(cq) - k |-> cq[i + k]]
  BY DEF Completions
<1> DEFINE peeked == Peeked(k)
<1>1. /\ TypeOK /\ OpInv /\ GensCounted /\ TimerInv
      /\ who' = [c \in Clients |-> IF c \in peeked THEN "woken" ELSE who[c]]
      /\ op' = [c \in Clients |-> IF c \in peeked THEN "none" ELSE op[c]]
      /\ nulls' \in Nat /\ pc' = "poll" /\ cqes' \in Nat
      /\ UNCHANGED <<counter, flag, reading, now, iv, gen, calls, lag, timer, asked, cancels, tick>>
  <2>1. TypeOK /\ OpInv /\ GensCounted /\ TimerInv
    BY DEF Served
  <2>2. nulls \in Nat /\ cqes \in Nat
    BY <2>1 DEF TypeOK
  <2>3. nulls' \in 0 .. nulls /\ cqes' \in 0 .. cqes
    BY DEF Completions, SkipNulls
  <2>4. nulls' \in Nat /\ cqes' \in Nat
    BY <2>2, <2>3
  <2>5. /\ pc' = "poll"
        /\ UNCHANGED <<counter, flag, reading, now, iv, gen, calls, lag, timer, asked, cancels, tick>>
    BY DEF Completions, SkipNulls
  <2> HIDE DEF peeked
  <2>6. /\ who' = [c \in Clients |-> IF c \in peeked THEN "woken" ELSE who[c]]
        /\ op' = [c \in Clients |-> IF c \in peeked THEN "none" ELSE op[c]]
    BY <1>0 DEF peeked
  <2> QED
    BY <2>1, <2>4, <2>5, <2>6
<1>12. /\ cq' \in Seq(Clients) /\ IsInjective(cq')
       /\ peeked \subseteq Posted /\ Posted' = Posted \ peeked
  BY <1>0, <1>1, BatchFacts
<1>2. /\ IsTimer(tm') /\ tm'.start = tm.start /\ Held(tm') \subseteq Held(tm)
      /\ \A u \in Held(tm) : (\A c \in peeked : u # timer[c]) => u \in Held(tm')
      /\ \A u \in Held(tm') : tm'.place[u] = tm.place[u]
  BY <1>0, <1>1, RemovedFacts DEF TypeOK, TimerInv
<1> HIDE DEF peeked
<1>3. \A c \in peeked : c \in Clients /\ who[c] = "io"
  BY <1>1, <1>12 DEF OpInv, Posted
<1>4. /\ who' \in [Clients -> {"ready", "woken", "asleep", "io"}]
      /\ \A c \in Clients : who'[c] = "asleep" <=> who[c] = "asleep"
      /\ \A c \in Clients : who'[c] = "ready" <=> who[c] = "ready"
      /\ \A c \in Clients : who'[c] = "io" <=> who[c] = "io" /\ c \notin peeked
  BY <1>1, <1>3 DEF TypeOK
<1>5. TypeOK'
  <2>1. tm'.start \in 0 .. now' /\ tm'.entries \in Nat /\ tm'.level \in NoWheel .. MaxLevel
    BY <1>1, <1>2 DEF TypeOK, IsTimer
  <2>2. op' \in [Clients -> {"none", "prepared", "flying", "posted"}]
    BY <1>1 DEF TypeOK
  <2>3. Held(tm') \subseteq Tasks /\ cq' \in Seq(Clients)
    BY <1>1, <1>2, <1>12 DEF TypeOK
  <2> QED
    BY <1>1, <1>4, <2>1, <2>2, <2>3 DEF TypeOK
<1>6. OpInv'
  <2>1. \A c \in Clients : who'[c] = "io" <=> op'[c] # "none"
    BY <1>1, <1>4 DEF OpInv
  <2>2. \A c \in Clients : c \in Posted' <=> op'[c] = "posted"
    BY <1>1, <1>12 DEF OpInv
  <2> QED
    BY <1>12, <2>1, <2>2 DEF OpInv
<1>7. GensCounted'
  BY <1>1 DEF GensCounted
<1>8. TasksOwned'
  <2>1. \A t \in Held(tm') : t.owner \in Clients
    BY <1>1, <1>2, Owners
  <2> QED
    BY <1>1, <1>2, <1>4, <2>1 DEF TimerInv, TasksOwned
<1>9. TimersOwned'
  BY <1>1, <1>4 DEF TimerInv, TimersOwned
<1>10. TimersAreKept'
  <2>1. ASSUME NEW c \in Clients, who'[c] = "asleep"
        PROVE  \E t \in Held(tm') : t.owner = c /\ t.gen = gen'[c] /\ t.kind = "sleep"
    <3>1. PICK t \in Held(tm) : t.owner = c /\ t.gen = gen[c] /\ t.kind = "sleep"
      BY <1>1, <1>4, <2>1 DEF TimerInv, TimersAreKept
    <3>2. ASSUME NEW b \in peeked PROVE t # timer[b]
      <4>1. timer[b].kind # "sleep"
        BY <1>1, <1>3 DEF TimerInv, TimersOwned, NoTask
      <4> QED
        BY <3>1, <4>1
    <3>3. t \in Held(tm')
      BY <1>2, <3>2
    <3> QED
      BY <1>1, <3>1, <3>3
  <2>2. ASSUME NEW c \in Clients, who'[c] = "io", timer'[c] # NoTask
        PROVE  timer'[c] \in Held(tm')
    <3>1. /\ who[c] = "io" /\ c \notin peeked /\ timer[c] # NoTask
          /\ timer[c] \in Held(tm) /\ timer[c].owner = c
      BY <1>1, <1>4, <2>2 DEF TimerInv, TimersOwned, TimersAreKept
    <3>2. ASSUME NEW b \in peeked PROVE timer[c] # timer[b]
      <4>1. timer[b] # NoTask => timer[b].owner = b
        BY <1>1, <1>3 DEF TimerInv, TimersOwned
      <4> QED
        BY <3>1, <4>1
    <3>3. timer[c] \in Held(tm')
      BY <1>2, <3>1, <3>2
    <3> QED
      BY <1>1, <3>3
  <2> QED
    BY <2>1, <2>2 DEF TimersAreKept
<1>11. DueInTime'
  <2>1. \A t \in Held(tm') : t \in Held(tm) /\ Due(tm', t) = Due(tm, t)
    BY <1>2 DEF Due
  <2> QED
    BY <1>1, <2>1 DEF TimerInv, DueInTime
<1> QED
  BY <1>2, <1>5, <1>6, <1>7, <1>8, <1>9, <1>10, <1>11 DEF Served, TimerInv

\* A client has a task among some finitely many when it has more than none.
LEMMA OfFacts ==
  ASSUME NEW c, NEW kind, NEW S, IsFiniteSet(S)
  PROVE  /\ Of(c, kind, S) \in Nat
         /\ Of(c, kind, S) > 0 <=> \E t \in S : t.owner = c /\ t.kind = kind
<1> DEFINE U == {t \in S : t.owner = c /\ t.kind = kind}
<1>1. U \subseteq S
  OBVIOUS
<1>2. Of(c, kind, S) = Cardinality(U)
  BY DEF Of
<1> HIDE DEF U
<1>3. IsFiniteSet(U)
  BY <1>1, FS_Subset
<1>4. Cardinality(U) \in Nat /\ (Cardinality(U) = 0 <=> U = {})
  BY <1>3, FS_CardinalityType, FS_EmptySet
<1>5. Cardinality(U) > 0 <=> U # {}
  BY <1>4
<1> QED
  BY <1>2, <1>4, <1>5 DEF U

\* Who polling the timer wakes, and whose timer_task it sets to null.
LEMMA PolledFacts ==
  ASSUME Served, IntervalInv, PollTimer
  PROVE  LET gone == Expired(tm, now) IN
         /\ gone \subseteq Held(tm)
         /\ \A u \in gone : Due(tm, u) < now
         /\ \A c \in Clients :
              /\ (\E u \in gone : u.owner = c /\ u.kind = "sleep") => who'[c] = "woken"
              /\ ~(\E u \in gone : u.owner = c /\ u.kind = "sleep") => who'[c] = who[c]
              /\ (\E u \in gone : u.owner = c /\ u.kind = "io") => timer'[c] = NoTask
              /\ ~(\E u \in gone : u.owner = c /\ u.kind = "io") => timer'[c] = timer[c]
         /\ who' \in [Clients -> {"ready", "woken", "asleep", "io"}]
         /\ timer' \in [Clients -> Tasks \cup {NoTask}]
         /\ asked' \in [Clients -> Nat]
         /\ IsTimer(tm') /\ tm'.start \in 0 .. now
         /\ Held(tm') = Held(tm) \ gone
         /\ \A u \in Held(tm') : Due(tm', u) >= Due(tm, u)
<1> DEFINE gone == Expired(tm, now)
<1>1. /\ who' = [c \in Clients |-> IF Of(c, "sleep", gone) > 0 THEN "woken" ELSE who[c]]
      /\ timer' = [c \in Clients |-> IF Of(c, "io", gone) > 0 THEN NoTask ELSE timer[c]]
      /\ asked' = [c \in Clients |-> asked[c] + Of(c, "io", gone)]
      /\ tm' = Poll(tm, now)
  BY DEF PollTimer
<1>2. /\ IsTimer(tm') /\ tm'.start \in Nat /\ tm'.start <= now /\ now \in Nat
      /\ gone \subseteq Held(tm) /\ IsFiniteSet(gone)
      /\ Held(tm') = Held(tm) \ gone
      /\ \A u \in gone : Due(tm, u) < now
      /\ \A u \in Held(tm') : Due(tm', u) >= Due(tm, u)
  <2>1. IsTimer(tm) /\ now \in Nat /\ tm.start <= now
    BY DEF Served, TypeOK, TimerInv, IntervalInv
  <2> HIDE DEF gone
  <2> QED
    BY <1>1, <2>1, PollFacts DEF gone
<1> HIDE DEF gone
<1>3. \A c, kind : /\ Of(c, kind, gone) \in Nat
                   /\ Of(c, kind, gone) > 0 <=> \E u \in gone : u.owner = c /\ u.kind = kind
  BY <1>2, OfFacts
<1>4. /\ who' \in [Clients -> {"ready", "woken", "asleep", "io"}]
      /\ timer' \in [Clients -> Tasks \cup {NoTask}]
  BY <1>1 DEF Served, TypeOK
<1>5. asked' \in [Clients -> Nat]
  BY SMTT(30), <1>1, <1>3 DEF Served, TypeOK
<1>6. ASSUME NEW c \in Clients
      PROVE  /\ (\E u \in gone : u.owner = c /\ u.kind = "sleep") => who'[c] = "woken"
             /\ ~(\E u \in gone : u.owner = c /\ u.kind = "sleep") => who'[c] = who[c]
             /\ (\E u \in gone : u.owner = c /\ u.kind = "io") => timer'[c] = NoTask
             /\ ~(\E u \in gone : u.owner = c /\ u.kind = "io") => timer'[c] = timer[c]
  BY <1>1, <1>3
<1>7. tm'.start \in 0 .. now
  BY <1>2
<1> QED
  BY <1>2, <1>4, <1>5, <1>6, <1>7 DEF gone

\* Polling wakes the sleepers whose tasks it executes, and no other client.
LEMMA PollServed ==
  ASSUME Served, IntervalInv, PollTimer
  PROVE  Served'
<1> DEFINE gone == Expired(tm, now)
<1>1. /\ TypeOK /\ OpInv /\ GensCounted /\ TimerInv /\ pc' = "watch"
      /\ UNCHANGED <<wakerVars, now, iv, gen, calls, lag, op, cancels, tick, cq, nulls>>
  BY DEF PollTimer, Served
<1>2. /\ gone \subseteq Held(tm)
      /\ \A c \in Clients :
           /\ (\E u \in gone : u.owner = c /\ u.kind = "sleep") => who'[c] = "woken"
           /\ ~(\E u \in gone : u.owner = c /\ u.kind = "sleep") => who'[c] = who[c]
           /\ (\E u \in gone : u.owner = c /\ u.kind = "io") => timer'[c] = NoTask
           /\ ~(\E u \in gone : u.owner = c /\ u.kind = "io") => timer'[c] = timer[c]
      /\ who' \in [Clients -> {"ready", "woken", "asleep", "io"}]
      /\ timer' \in [Clients -> Tasks \cup {NoTask}]
      /\ asked' \in [Clients -> Nat]
      /\ IsTimer(tm') /\ tm'.start \in 0 .. now
      /\ Held(tm') = Held(tm) \ gone
      /\ \A u \in Held(tm') : Due(tm', u) >= Due(tm, u)
  BY PolledFacts
<1> HIDE DEF gone
<1>3. \A c \in Clients :
        (\E u \in gone : u.owner = c /\ u.kind = "sleep") => who[c] = "asleep"
  BY <1>1, <1>2 DEF TimerInv, TasksOwned
<1>4. \A c \in Clients : /\ who'[c] = who[c] \/ (who[c] = "asleep" /\ who'[c] = "woken")
                         /\ timer'[c] \in {timer[c], NoTask}
  BY <1>2, <1>3
<1>5. TypeOK'
  <2>1. tm'.entries \in Nat /\ tm'.level \in NoWheel .. MaxLevel
    BY <1>2 DEF IsTimer
  <2>2. Held(tm') \subseteq Tasks
    BY <1>1, <1>2 DEF TypeOK
  <2>3. tm'.start \in 0 .. now'
    BY <1>1, <1>2
  <2> QED
    BY <1>1, <1>2, <2>1, <2>2, <2>3 DEF TypeOK, wakerVars
<1>6. OpInv' /\ GensCounted'
  BY <1>1, <1>4 DEF OpInv, Posted, GensCounted
<1>7. \A t \in Held(tm') : t \in Held(tm) /\ t.owner \in Clients
  BY <1>1, <1>2, Owners
<1>8. \A t \in Held(tm') : t.kind = "sleep" => who'[t.owner] = who[t.owner]
  <2> SUFFICES ASSUME NEW t \in Held(tm'), t.kind = "sleep"
               PROVE  ~ \E u \in gone : u.owner = t.owner /\ u.kind = "sleep"
    BY <1>2, <1>7
  <2>1. \A u \in Held(tm) : u.kind = "sleep" /\ t.owner = u.owner => t = u
    BY <1>1, <1>7 DEF TimerInv, TasksOwned
  <2> QED
    BY <1>2, <2>1
<1>9. TasksOwned'
  <2>1. ASSUME NEW t \in Held(tm')
        PROVE  /\ t.gen <= gen'[t.owner]
               /\ t.kind = "sleep" => who'[t.owner] = "asleep" /\ gen'[t.owner] = t.gen
               /\ t.kind = "io" /\ gen'[t.owner] = t.gen => who'[t.owner] # "asleep"
    <3>1. /\ t.gen <= gen[t.owner]
          /\ t.kind = "sleep" => who[t.owner] = "asleep" /\ gen[t.owner] = t.gen
          /\ t.kind = "io" /\ gen[t.owner] = t.gen => who[t.owner] # "asleep"
      BY <1>1, <1>7 DEF TimerInv, TasksOwned
    <3>2. who'[t.owner] = "asleep" => who[t.owner] = "asleep"
      BY <1>4, <1>7
    <3> QED
      BY <1>1, <1>8, <3>1, <3>2
  <2>2. \A t \in Held(tm') : \A u \in Held(tm') :
          t.kind = "sleep" /\ u.kind = "sleep" /\ t.owner = u.owner => t = u
    BY <1>1, <1>7 DEF TimerInv, TasksOwned
  <2> QED
    BY <2>1, <2>2 DEF TasksOwned
<1>10. TimersOwned'
  BY <1>1, <1>4 DEF TimerInv, TimersOwned
<1>11. TimersAreKept'
  <2>1. ASSUME NEW c \in Clients, who'[c] = "asleep"
        PROVE  \E t \in Held(tm') : t.owner = c /\ t.gen = gen'[c] /\ t.kind = "sleep"
    <3>1. who[c] = "asleep" /\ ~ \E u \in gone : u.owner = c /\ u.kind = "sleep"
      BY <1>2, <1>4, <2>1
    <3>2. PICK t \in Held(tm) : t.owner = c /\ t.gen = gen[c] /\ t.kind = "sleep"
      BY <1>1, <3>1 DEF TimerInv, TimersAreKept
    <3> QED
      BY <1>1, <1>2, <3>1, <3>2
  <2>2. ASSUME NEW c \in Clients, who'[c] = "io", timer'[c] # NoTask
        PROVE  timer'[c] \in Held(tm')
    <3>1. who[c] = "io" /\ timer'[c] = timer[c]
      BY <1>4, <2>2
    <3>2. timer[c] \in Held(tm) /\ timer[c].owner = c /\ timer[c].kind = "io"
      BY <1>1, <2>2, <3>1 DEF TimerInv, TimersAreKept, TimersOwned
    <3>3. timer[c] \notin gone
      BY <1>2, <2>2, <3>2
    <3> QED
      BY <1>2, <3>1, <3>2, <3>3
  <2> QED
    BY <2>1, <2>2 DEF TimersAreKept
<1>12. DueInTime'
  <2> SUFFICES ASSUME NEW t \in Held(tm'), t.kind = "sleep"
               PROVE  Due(tm', t) >= t.deadline - lag'[t.owner]
    BY DEF DueInTime
  <2>1. /\ t \in Held(tm) /\ Due(tm', t) >= Due(tm, t)
        /\ Due(tm, t) >= t.deadline - lag[t.owner] /\ lag' = lag
    BY <1>1, <1>2, <1>7 DEF TimerInv, DueInTime
  <2>2. /\ t.deadline \in Nat /\ lag[t.owner] \in Nat
        /\ Due(tm, t) \in Int /\ Due(tm', t) \in Int
    <3>1. t \in Held(tm) /\ t.owner \in Clients /\ t.deadline \in Nat
      BY <1>1, <1>7, Owners, TaskFacts
    <3>2. lag[t.owner] \in Nat
      BY <1>1, <3>1 DEF TypeOK
    <3>3. /\ tm.start \in Nat /\ tm.place[t] \in Nat
          /\ tm'.start \in Nat /\ tm'.place[t] \in Nat
      BY <1>1, <1>2, <3>1 DEF TimerInv, IsTimer
    <3> QED
      BY <3>1, <3>2, <3>3 DEF Due
  <2> QED
    BY <2>1, <2>2
<1> QED
  BY <1>2, <1>5, <1>6, <1>9, <1>10, <1>11, <1>12 DEF Served, TimerInv

\* Every step keeps the operations and the timer in order.
LEMMA NextServed ==
  ASSUME IInv, [Next]_vars
  PROVE  Served'
<1>1. Served /\ WakerInv /\ IntervalInv
  BY DEF IInv, Served
<1>2. ASSUME NEW c \in Clients, ClientNext(c) PROVE Served'
  BY <1>1, <1>2, ResumeServed, SleepsServed, StartIoServed, KernelServed, OthersServed
     DEF ClientNext
<1> QED
  BY <1>1, <1>2, CompletionsServed, PollServed, OthersServed DEF Next

-----------------------------------------------------------------------------
(* The theorems.                                                           *)

\* Every action of IoEngine preserves the invariant.
LEMMA NextInv == IInv /\ [Next]_vars => IInv'
  BY WakerKept, SubmittedKept, DeadlineKept, NextServed DEF IInv, Served

\* The invariant holds throughout.
LEMMA InvAlways == Spec => []IInv
<1>1. Init => IInv
  BY InitInv
<1> QED
  BY <1>1, NextInv, PTL DEF Spec

\* Waker::start_watch never lets two reads write _flag, and a worker never
\* waits with neither a read in flight nor a completion to end the wait:
\* however late the completion of a read is seen.
THEOREM WatchIsArmedAlways == Spec => []WatchIsArmed
<1>1. IInv => WatchIsArmed
  BY DEF IInv, WakerInv, Armed, WatchIsArmed
<1> QED
  BY <1>1, InvAlways, PTL

\* IOEngine::drive gives the kernel whatever was prepared before the worker
\* waits, whatever the submit interval.
THEOREM NothingIsHeldBackAlways == Spec => []NothingIsHeldBack
<1>1. IInv => NothingIsHeldBack
  BY DEF IInv, AllSubmitted, NothingIsHeldBack
<1> QED
  BY <1>1, InvAlways, PTL

\* Every queue, counter and record of the engine keeps its type, through any
\* number of awaits, timeouts and cancels: the timer's start is never ahead of
\* the clock, and every task in the wheels is one a client has made.
THEOREM TypeCorrect == Spec => []TypeOK
<1>1. IInv => TypeOK
  BY DEF IInv
<1> QED
  BY <1>1, InvAlways, PTL

\* IOEngine::drive takes the user data of a completion for that of an awaited
\* operation: it is, and no operation has two completions, whatever is
\* cancelled, by then, for the user data.
THEOREM CompletionsAreAwaitedAlways == Spec => []CompletionsAreAwaited
<1>1. IInv => CompletionsAreAwaited
  BY DEF IInv, OpInv, CompletionsAreAwaited, Posted
<1> QED
  BY <1>1, InvAlways, PTL

\* Timer::poll and advance_start never drop the task of a sleeper or of an
\* operation with a timeout: whatever the number of slots and levels.
THEOREM TimersAreKeptAlways == Spec => []TimersAreKept
<1>1. IInv => TimersAreKept
  BY DEF IInv, TimerInv
<1> QED
  BY <1>1, InvAlways, PTL

\* A sleeper is woken by polling the timer, and by nothing else.
LEMMA WokenByPoll ==
  ASSUME IInv, [Next]_vars, NEW c \in Clients, who[c] = "asleep", who'[c] = "woken"
  PROVE  PollTimer
<1>1. who \in [Clients -> {"ready", "woken", "asleep", "io"}]
  BY DEF IInv, TypeOK
<1>2. ASSUME UNCHANGED who PROVE FALSE
  BY <1>2
<1>3. CASE UNCHANGED vars
  BY <1>2, <1>3 DEF vars, engineVars
<1>4. ASSUME NEW b \in Clients, ClientNext(b) PROVE FALSE
  <2>1. CASE Resume(b)
    BY <1>1, <2>1 DEF Resume
  <2>2. CASE Sleep(b) \/ TickInterval(b)
    BY <1>1, <2>2 DEF Sleep, TickInterval, SleepUntil
  <2>3. CASE StartIo(b)
    BY <1>1, <2>3 DEF StartIo
  <2>4. CASE ResetInterval(b) \/ Complete(b) \/ Cancel(b)
    BY <1>2, <2>4 DEF ResetInterval, Complete, Cancel
  <2> QED
    BY <1>4, <2>1, <2>2, <2>3, <2>4 DEF ClientNext
<1>5. CASE Completions
  <2>1. PICK k \in 0 .. Len(cq) :
          /\ who' = [b \in Clients |-> IF b \in Peeked(k) THEN "woken" ELSE who[b]]
          /\ cq' = [i \in 1 .. Len(cq) - k |-> cq[i + k]]
    BY <1>5 DEF Completions
  <2>2. Peeked(k) \subseteq Posted
    BY <2>1, BatchFacts DEF IInv
  <2>3. c \notin Posted
    BY DEF IInv, OpInv
  <2> QED
    BY <2>1, <2>2, <2>3
<1>6. CASE WakerWritten \/ WakerRead \/ Tick \/ WatchAndSubmit
  BY <1>2, <1>6 DEF WakerWritten, WakerRead, engineVars, Tick, WatchAndSubmit
<1>7. CASE Run \/ DriveAgain \/ Wait \/ WaitReturns \/ WaitTimesOut
  BY <1>2, <1>7 DEF Run, DriveAgain, Wait, WaitReturns, WaitTimesOut, Goes
<1> QED
  BY <1>3, <1>4, <1>5, <1>6, <1>7 DEF Next

\* Timer::poll wakes nobody before the deadline but by what add_task_impl had
\* placed the task too early: adding, removing, levelling and rotating bring
\* no task forward.
THEOREM EarlyOnlyByLagAlways == Spec => EarlyOnlyByLag
<1> DEFINE Late ==
      \A c \in Clients : \A t \in Held(tm) :
        who[c] = "asleep" /\ who'[c] = "woken" /\ t.owner = c /\ t.gen = gen[c]
        => now >= t.deadline - lag[c]
<1>1. ASSUME IInv, [Next]_vars PROVE Late
  <2> SUFFICES ASSUME NEW c \in Clients, NEW t \in Held(tm),
                      who[c] = "asleep", who'[c] = "woken", t.owner = c, t.gen = gen[c]
               PROVE  now >= t.deadline - lag[c]
    OBVIOUS
  <2>1. PollTimer
    BY <1>1, WokenByPoll
  <2>2. Served /\ IntervalInv /\ TimerInv /\ TypeOK
    BY <1>1 DEF IInv, Served
  <2>3. PICK u \in Expired(tm, now) :
          u \in Held(tm) /\ u.owner = c /\ u.kind = "sleep" /\ Due(tm, u) < now
    <3>1. ~(\E u \in Expired(tm, now) : u.owner = c /\ u.kind = "sleep") => who'[c] = who[c]
      BY <2>1, <2>2, PolledFacts
    <3>2. \A u \in Expired(tm, now) : u \in Held(tm) /\ Due(tm, u) < now
      BY <2>1, <2>2, PolledFacts
    <3> QED
      BY <3>1, <3>2
  <2>4. t \in Tasks /\ t.kind = "sleep"
    <3>1. t \in Tasks /\ t.kind \in {"sleep", "io"}
      BY <2>2, Owners, TaskFacts
    <3> QED
      BY <2>2, <3>1 DEF TimerInv, TasksOwned
  <2>5. t = u
    BY <2>2, <2>3, <2>4 DEF TimerInv, TasksOwned
  <2>6. Due(tm, t) >= t.deadline - lag[c] /\ Due(tm, t) < now
    BY <2>2, <2>3, <2>4, <2>5 DEF TimerInv, DueInTime
  <2>7. t.deadline \in Nat /\ lag[c] \in Nat /\ Due(tm, t) \in Int /\ now \in Nat
    <3>1. tm.start \in Nat /\ tm.place[t] \in Nat
      BY <2>2 DEF TimerInv, IsTimer
    <3>2. Due(tm, t) \in Int
      BY <3>1 DEF Due
    <3> QED
      BY <2>2, <2>4, <3>2, TaskFacts DEF TypeOK, IntervalInv
  <2> QED
    BY <2>6, <2>7
<1>2. IInv /\ [Next]_vars => [Late]_vars
  BY <1>1
<1> HIDE DEF Late
<1>3. Spec => [][Late]_vars
  BY <1>2, InvAlways, PTL DEF Spec
<1> QED
  BY <1>3 DEF Late, EarlyOnlyByLag

\* Interval::next_timeout keeps bursting and skipping intervals on the grid of
\* their period, and skips past every missed tick, for any period.
THEOREM IntervalsKeepTheGridAlways == Spec => IntervalsKeepTheGrid
<1> DEFINE Grid == iv' # iv /\ gen' # gen =>
             /\ iv'.behavior # "Delay" => (iv'.deadline - iv.deadline) % Period = 0
             /\ iv'.behavior # "Burst" => iv'.deadline > now
<1>1. ASSUME IInv, [Next]_vars PROVE Grid
  <2> SUFFICES ASSUME iv' # iv, gen' # gen
               PROVE  /\ iv'.behavior # "Delay" => (iv'.deadline - iv.deadline) % Period = 0
                      /\ iv'.behavior # "Burst" => iv'.deadline > now
    OBVIOUS
  <2>1. PICK c \in Clients : TickInterval(c) \/ ResetInterval(c)
    BY <1>1 DEF Next, ClientNext, vars, engineVars, Resume, Sleep, StartIo, Complete, Cancel,
       WakerWritten, WakerRead, Tick, Completions, PollTimer, WatchAndSubmit, Run,
       DriveAgain, Wait, WaitReturns, WaitTimesOut, Goes
  <2>2. CASE TickInterval(c)
    BY <1>1, <2>2, TickedFacts DEF TickInterval, IInv
  <2>3. CASE ResetInterval(c)
    BY <1>1, <2>3 DEF ResetInterval, IInv, IntervalInv
  <2> QED
    BY <2>1, <2>2, <2>3
<1>2. IInv /\ [Next]_vars => [Grid]_vars
  BY <1>1
<1> HIDE DEF Grid
<1>3. Spec => [][Grid]_vars
  BY <1>2, InvAlways, PTL DEF Spec
<1> QED
  BY <1>3 DEF Grid, IntervalsKeepTheGrid

\* What the wakeup given so far and the worker's wait are to WakeSignal does
\* not change in a step that is not one of its own.
LEMMA NextSignals ==
  ASSUME IInv, [Next]_vars
  PROVE  [Signal!Next]_Signal!vars
<1> DEFINE given == counter > 0 \/ cqes > 0
           waits == pc = "waiting"
<1> USE DEF IInv, WakerInv
<1>1. ASSUME UNCHANGED wakerVars, waits' = waits PROVE UNCHANGED Signal!vars
  BY <1>1 DEF wakerVars, Signal!vars
<1>2. CASE UNCHANGED vars
  BY <1>1, <1>2 DEF vars, engineVars
<1>3. ASSUME NEW c \in Clients, ClientNext(c) PROVE UNCHANGED Signal!vars
  <2>1. UNCHANGED wakerVars /\ UNCHANGED pc
    BY <1>3 DEF ClientNext, Resume, Sleep, TickInterval, ResetInterval, StartIo, Complete,
       Cancel
  <2> QED
    BY <1>1, <2>1
<1>4. CASE WakerWritten
  <2>1. counter' > 0
    BY <1>4, WakerAssumption DEF WakerWritten, WakeUp
  <2>2. given' = TRUE /\ waits' = waits
    BY <1>4, <2>1 DEF WakerWritten
  <2> QED
    BY <2>2, Zenon DEF Signal!Next, Signal!WakeUp
<1>5. CASE WakerRead
  <2>1. cqes' > 0 /\ counter > 0
    BY <1>5 DEF WakerRead, ReadCompletes
  <2>2. given' = given /\ waits' = waits
    BY <1>5, <2>1 DEF WakerRead, engineVars
  <2> QED
    BY <2>2, Zenon DEF Signal!vars
<1>6. CASE Completions
  <2>1. ~waits /\ ~waits'
    BY <1>6 DEF Completions
  <2>2. given' => given
    BY <1>6 DEF Completions, SkipNulls
  <2>3. given' \in {FALSE, given} /\ waits' = waits
    BY <2>1, <2>2, Zenon
  <2> QED
    BY <2>1, <2>3, Zenon DEF Signal!Next, Signal!Drive
<1>7. CASE WatchAndSubmit
  <2>1. given' = given /\ waits' = waits
    BY <1>7 DEF WatchAndSubmit, StartWatch
  <2> QED
    BY <2>1, Zenon DEF Signal!vars
<1>8. CASE Wait
  <2>1. given' = given /\ waits' = TRUE
    BY <1>8 DEF Wait, Goes, wakerVars
  <2> QED
    BY <2>1, Zenon DEF Signal!Next, Signal!Wait
<1>9. CASE WaitReturns \/ WaitTimesOut
  <2>1. given' = given /\ waits' = FALSE
    BY <1>9 DEF WaitReturns, WaitTimesOut, Goes, wakerVars
  <2> QED
    BY <2>1, Zenon DEF Signal!Next, Signal!Return
<1>10. CASE Tick \/ PollTimer \/ Run \/ DriveAgain
  BY <1>1, <1>10 DEF Tick, PollTimer, Run, DriveAgain, Goes
<1> QED
  BY <1>2, <1>3, <1>4, <1>5, <1>6, <1>7, <1>8, <1>9, <1>10 DEF Next

\* The safety of WakeSignal: through drive, submission and wait, a wakeup that
\* has been given is only taken back by driving the engine, awake.
THEOREM ImplementsWakeSignal == Spec => Signal!Init /\ [][Signal!Next]_Signal!vars
<1>1. Init => Signal!Init
  BY DEF Init, WakerInit, Signal!Init
<1> QED
  BY <1>1, NextSignals, InvAlways, PTL DEF Spec
=============================================================================
