------------------------- MODULE LocalQueue_proofs --------------------------
(***************************************************************************)
(* Proofs about LocalQueue, for every number of workers and tasks, every   *)
(* capacity, index width and starting index, as long as fewer than Modulus *)
(* tasks pass through one queue (Window < Modulus): the indices wrap, but  *)
(* no thread sleeps through a whole revolution between a load and its      *)
(* compare-exchange.                                                       *)
(***************************************************************************)
EXTENDS LocalQueue, SequenceTheorems, Counting_proofs

Pushing(w) == pc[w] \in {"push_load", "push_write", "push_global",
                         "overflow_cas", "overflow_move", "fetch_push"}
Raiding(w) == pc[w] \in {"steal_tail", "steal_cas"} \/ Filling(w)

\* What an owner in the middle of an operation may rely on: facts that its
\* own loads established and that no step of another thread can undo.
OwnerInv(w) ==
  /\ Pushing(w) => Len(hand[w]) >= 1
  /\ pc[w] = "push_write" => tail[w] - head[w].steal < Capacity
  /\ pc[w] = "overflow_cas" =>
       reg[w].steal = reg[w].local /\ tail[w] = reg[w].local + Capacity
  /\ pc[w] = "overflow_move" =>
       /\ tail[w] = reg[w].local + Capacity
       /\ reg[w].local + Half <= head[w].steal
  /\ pc[w] = "pop_cas" =>
       reg[w].steal <= reg[w].local /\ reg[w].local < tail[w]
  /\ pc[w] = "pop_take" =>
       reg[w].local < head[w].local /\ tail[w] - Capacity <= reg[w].local
  /\ pc[w] = "fetch_pop" =>
       num[w] >= 1 /\ num[w] + tail[w] - head[w].steal <= Capacity
  /\ pc[w] = "fetch_push" =>
       Len(hand[w]) - 1 + tail[w] - head[w].steal <= Capacity

\* The same for a thief.
ThiefInv(w) ==
  /\ Raiding(w) => victim[w] # w /\ tail[w] - head[w].steal <= Half
  /\ pc[w] = "steal_tail" => reg[w].local <= tail[victim[w]]
  /\ pc[w] = "steal_cas" =>
       /\ reg[w].steal = reg[w].local
       /\ num[w] >= 1
       /\ reg[w].local + num[w] + num[w] <= tail[victim[w]]
  /\ Filling(w) => num[w] >= 1 /\ num[w] <= Half
  /\ pc[w] = "steal_copy" => copied[w] < num[w]
  /\ pc[w] \in {"steal_commit", "steal_finish"} => copied[w] = num[w]

\* The task an owner has popped and not yet read is outside every thief's
\* range.
PopApart ==
  \A w, u \in Workers :
    pc[w] = "pop_take" /\ Stealing(u) /\ victim[u] = w =>
      \/ reg[u].steal + num[u] <= reg[w].local
      \/ reg[w].local < reg[u].steal

\* Every live index holds a task.
Holds(w, i) == slots[w][Slot(i)] \in Tasks

PublishedFull(w) ==
  \A i \in Index : head[w].local <= i /\ i < tail[w] => Holds(w, i)

OwnedFull(w) ==
  /\ pc[w] = "pop_take" => Holds(w, reg[w].local)
  /\ pc[w] = "overflow_move" =>
       \A i \in Index : reg[w].local <= i /\ i < reg[w].local + Half
                          => Holds(w, i)

FilledFull(w) ==
  Filling(w) =>
    \A i \in Nat : tail[w] <= i /\ i < tail[w] + copied[w] => Holds(w, i)

ClaimedFull(w) ==
  pc[w] = "steal_copy" =>
    \A i \in Index : reg[w].steal + copied[w] <= i /\ i < reg[w].steal + num[w]
                       => Holds(victim[w], i)

LiveSlotsFull ==
  \A w \in Workers : /\ PublishedFull(w) /\ OwnedFull(w)
                     /\ FilledFull(w) /\ ClaimedFull(w)

ThreadInv == \A w \in Workers : OwnerInv(w) /\ ThiefInv(w)

IndexInv == IndexOrder /\ ClaimIsExclusive /\ ThreadInv /\ PopApart

Inv == TypeOK /\ IndexInv /\ LiveSlotsFull

-----------------------------------------------------------------------------
(* Wrapped indices.                                                        *)

\* Two numbers less than m apart that agree modulo m are equal: an index
\* comparison on the 32-bit values decides equality of the counts.
LEMMA ModInjective ==
  ASSUME NEW m \in Nat \ {0}, NEW x \in Nat, NEW y \in Nat,
         x <= y, y - x < m, x % m = y % m
  PROVE  x = y
<1> DEFINE a == x \div m
           b == y \div m
<1>1. x = m * a + (x % m) /\ a \in Int
  OBVIOUS
<1>2. y = m * b + (y % m) /\ b \in Int
  OBVIOUS
<1> HIDE DEF a, b
<1>3. y - x = m * b - m * a
  BY <1>1, <1>2
<1>4. y - x = m * (b - a) /\ b - a \in Int
  BY <1>3, <1>1, <1>2, SMT
<1>5. CASE b - a >= 1
  <2>1. m * (b - a) >= m
    BY <1>4, <1>5
  <2> QED
    BY <2>1, <1>4
<1>6. CASE b - a <= 0
  <2>1. m * (b - a) <= 0
    BY <1>4, <1>6
  <2> QED
    BY <2>1, <1>4
<1> QED
  BY <1>4, <1>5, <1>6

\* Inside the window SameIndex, the code's == on two 32-bit indices, is
\* equality of the unwrapped counts.
LEMMA SameIndexIsEqual ==
  \A i, j \in Index : SameIndex(i, j) <=> i = j
<1> SUFFICES ASSUME NEW i \in Index, NEW j \in Index, SameIndex(i, j)
             PROVE  i = j
  BY DEF SameIndex
<1>1. /\ i \in Nat /\ j \in Nat /\ Modulus \in Nat \ {0}
      /\ i - j < Modulus /\ j - i < Modulus
  BY IndexAssumption DEF Index, MaxIndex
<1>2. i % Modulus = j % Modulus
  BY DEF SameIndex
<1>3. CASE i <= j
  BY <1>1, <1>2, <1>3, ModInjective
<1>4. CASE j <= i
  BY <1>1, <1>2, <1>4, ModInjective
<1> QED
  BY <1>1, <1>3, <1>4

\* Equality of two packed head words is equality of both counts.
LEMMA SameHeadIsEqual ==
  \A h, k \in HeadWord : SameHead(h, k) <=> h = k
BY SameIndexIsEqual DEF SameHead, HeadWord

\* Inside the window the wrapped difference of the code is the difference.
LEMMA DiffIsMinus ==
  \A i, j \in Index : j <= i => Diff(i, j) = i - j
<1> SUFFICES ASSUME NEW i \in Index, NEW j \in Index, j <= i
             PROVE  (i - j) % Modulus = i - j
  BY DEF Diff
<1>1. i - j \in Nat /\ i - j < Modulus /\ Modulus \in Nat \ {0}
  BY IndexAssumption DEF Index, MaxIndex
<1> QED
  BY <1>1

\* The slot of an index is a position of the array.
LEMMA SlotInRange ==
  \A i \in Nat : Slot(i) \in 0 .. Capacity - 1
BY CapacityAssumption DEF Slot

\* Indices less than a capacity apart use different slots.
LEMMA SlotsDiffer ==
  \A i, j \in Nat : i < j /\ j < i + Capacity => Slot(i) # Slot(j)
<1> SUFFICES ASSUME NEW i \in Nat, NEW j \in Nat, i < j, j < i + Capacity,
                    i % Capacity = j % Capacity
             PROVE  FALSE
  BY DEF Slot
<1>1. Capacity \in Nat \ {0} /\ j - i < Capacity /\ i <= j
  BY CapacityAssumption
<1>2. i = j
  BY <1>1, ModInjective
<1> QED
  BY <1>2

\* Twice Half is at most the capacity.
LEMMA HalfFits ==
  Half \in Nat /\ Half + Half <= Capacity
BY CapacityAssumption DEF Half

-----------------------------------------------------------------------------
(* Each step preserves the invariant.                                      *)

\* A step of w's thread leaves the locals of the other threads alone.
OthersKept(w) ==
  \A x \in Workers \ {w} :
    /\ pc'[x] = pc[x] /\ reg'[x] = reg[x] /\ num'[x] = num[x]
    /\ copied'[x] = copied[x] /\ victim'[x] = victim[x] /\ hand'[x] = hand[x]

Holding == {"steal_copy", "steal_commit", "steal_finish", "pop_take",
            "overflow_move"}

\* A step that changes no queue and neither starts nor ends a claim keeps
\* every fact but those about the thread's own new position.
LEMMA QuietStep ==
  ASSUME Inv, TypeOK', NEW w \in Workers, OthersKept(w),
         UNCHANGED <<head, tail, slots>>,
         pc[w] \notin Holding, pc'[w] \notin Holding,
         OwnerInv(w)', ThiefInv(w)'
  PROVE  Inv'
<1> USE DEF Inv, IndexInv, OthersKept, Holding
<1>2. IndexOrder'
  BY DEF IndexOrder
<1>3. ClaimIsExclusive'
  BY DEF ClaimIsExclusive, Stealing
<1>4. ASSUME NEW x \in Workers \ {w} PROVE OwnerInv(x)' /\ ThiefInv(x)'
  <2>1. OwnerInv(x) /\ ThiefInv(x)
    BY DEF ThreadInv
  <2> QED
    BY <2>1 DEF OwnerInv, ThiefInv, Pushing, Raiding, Filling, Stealing
<1>5. ThreadInv'
  BY <1>4 DEF ThreadInv
<1>6. PopApart'
  BY DEF TypeOK, PopApart, Stealing
<1>7. ASSUME NEW x \in Workers
      PROVE  PublishedFull(x)' /\ OwnedFull(x)' /\ FilledFull(x)' /\ ClaimedFull(x)'
  <2>1. PublishedFull(x) /\ OwnedFull(x) /\ FilledFull(x) /\ ClaimedFull(x)
    BY DEF LiveSlotsFull
  <2>2. \A y, i : Holds(y, i)' <=> Holds(y, i)
    BY DEF Holds
  <2>3. CASE x = w
    BY <2>1, <2>2, <2>3 DEF TypeOK, PublishedFull, OwnedFull, FilledFull,
       ClaimedFull, Filling, Stealing, Index
  <2>4. CASE x # w
    BY <2>1, <2>2, <2>4 DEF PublishedFull, OwnedFull, FilledFull,
       ClaimedFull, Filling, Stealing, Index
  <2> QED
    BY <2>3, <2>4
<1>8. LiveSlotsFull'
  BY <1>7 DEF LiveSlotsFull
<1> QED
  BY <1>2, <1>3, <1>5, <1>6, <1>8

\* What TypeOK and IndexOrder say of one queue and one loaded head word.
QueueFact(w) ==
  /\ head[w] \in HeadWord /\ reg[w] \in HeadWord
  /\ tail[w] \in Nat /\ tail[w] >= Start /\ tail[w] <= MaxIndex
  /\ head[w].steal \in Nat /\ head[w].local \in Nat
  /\ reg[w].steal \in Nat /\ reg[w].local \in Nat
  /\ reg[w].steal >= Start /\ reg[w].local <= MaxIndex
  /\ reg[w].local >= Start
  /\ Start <= head[w].steal
  /\ head[w].steal <= head[w].local
  /\ head[w].local <= tail[w]
  /\ tail[w] - head[w].steal <= Capacity

\* The code's wrapped tests on that queue, read as tests on counts.
WrapFact(w) ==
  /\ Diff(tail[w], head[w].steal) = tail[w] - head[w].steal
  /\ SameIndex(head[w].steal, head[w].local)
       <=> head[w].steal = head[w].local
  /\ SameIndex(head[w].local, tail[w]) <=> head[w].local = tail[w]

\* An index is a natural number between Start and MaxIndex.
LEMMA IndexRange ==
  /\ Start \in Nat /\ MaxIndex \in Nat
  /\ \A i \in Index : i \in Nat /\ Start <= i /\ i <= MaxIndex
  /\ \A i \in Nat : Start <= i /\ i <= MaxIndex => i \in Index
BY IndexAssumption DEF Index, MaxIndex

\* The index after one below the last is an index.
LEMMA IndexSucc ==
  ASSUME NEW i \in Nat, Start <= i, i < MaxIndex
  PROVE  i + 1 \in Index
<1>1. i + 1 \in Nat /\ Start <= i + 1 /\ i + 1 <= MaxIndex
  BY IndexRange
<1> QED
  BY <1>1, IndexRange

\* A queue's indices are ordered naturals and its contents fit the array.
LEMMA QueueFacts ==
  ASSUME TypeOK, IndexOrder, NEW w \in Workers
  PROVE  QueueFact(w)
<1>1. head[w] \in HeadWord /\ tail[w] \in Index /\ reg[w] \in HeadWord
  BY DEF TypeOK
<1>3. /\ head[w].steal <= head[w].local /\ head[w].local <= tail[w]
      /\ tail[w] - head[w].steal <= Capacity
  BY DEF IndexOrder
<1>4. /\ head[w].steal \in Index /\ head[w].local \in Index
      /\ reg[w].steal \in Index /\ reg[w].local \in Index
  BY <1>1 DEF HeadWord
<1>5. /\ tail[w] \in Nat /\ tail[w] >= Start /\ tail[w] <= MaxIndex
      /\ head[w].steal \in Nat /\ head[w].local \in Nat
      /\ reg[w].steal \in Nat /\ reg[w].local \in Nat
      /\ Start <= head[w].steal
      /\ Start <= reg[w].steal /\ reg[w].local <= MaxIndex
      /\ Start <= reg[w].local
  BY <1>1, <1>4, IndexRange
<1> QED
  BY <1>1, <1>3, <1>5, IndexRange DEF QueueFact

\* The wrapped comparisons push_back, try_pop and remain_size make are exact.
LEMMA WrapFacts ==
  ASSUME TypeOK, IndexOrder, NEW w \in Workers
  PROVE  WrapFact(w)
<1>1. QueueFact(w)
  BY QueueFacts
<1>2. /\ head[w].steal \in Index /\ head[w].local \in Index
      /\ tail[w] \in Index
  BY DEF TypeOK, HeadWord
<1>3. head[w].steal <= tail[w]
  BY <1>1 DEF QueueFact
<1> QED
  BY <1>2, <1>3, DiffIsMinus, SameIndexIsEqual DEF WrapFact

\* push_back looks for room, a thief, or an overflow to handle.
LEMMA PushLoadInv ==
  ASSUME Inv, NEW w \in Workers, PushLoad(w)
  PROVE  Inv'
<1> USE DEF Inv, IndexInv
<1>0. QueueFact(w) /\ WrapFact(w)
  BY QueueFacts, WrapFacts
<1>1. /\ UNCHANGED <<head, tail, slots, global, closed, num, copied, victim,
                     hand, submitted, dropped, runs>>
      /\ \/ /\ Goto(w, "push_write") /\ UNCHANGED reg
            /\ tail[w] - head[w].steal < Capacity
         \/ Goto(w, "push_global") /\ UNCHANGED reg
         \/ /\ Goto(w, "overflow_cas")
            /\ reg' = [reg EXCEPT ![w] = head[w]]
            /\ head[w].steal = head[w].local
            /\ ~(tail[w] - head[w].steal < Capacity)
  BY <1>0 DEF WrapFact, PushLoad, HasRoom, queueVars, poolVars
<1>2. pc \in [Workers -> PCs] /\ reg \in [Workers -> HeadWord]
  BY DEF TypeOK
<1>3. pc' \in [Workers -> PCs] /\ reg' \in [Workers -> HeadWord]
  BY <1>0, <1>1, <1>2 DEF Goto, PCs, QueueFact
<1>4. TypeOK'
  BY <1>1, <1>3 DEF TypeOK
<1>5. OthersKept(w)
  BY <1>1, <1>2 DEF OthersKept, Goto
<1>6. pc[w] \notin Holding /\ pc'[w] \notin Holding
  BY <1>1, <1>2 DEF Goto, Holding, PushLoad
<1>7. Len(hand[w]) >= 1
  BY DEF ThreadInv, OwnerInv, Pushing, PushLoad
<1>8. OwnerInv(w)'
  <2>1. tail[w] \in Nat /\ head[w].steal \in Nat /\ Capacity \in Nat
        /\ tail[w] - head[w].steal <= Capacity
    BY <1>0, CapacityAssumption DEF QueueFact
  <2> QED
    BY <1>1, <1>2, <1>7, <2>1 DEF OwnerInv, Goto
<1>9. ThiefInv(w)'
  BY <1>1, <1>2 DEF ThiefInv, Raiding, Filling, Stealing, Goto
<1> QED
  BY <1>1, <1>4, <1>5, <1>6, <1>8, <1>9, QuietStep

\* Leaving an operation that holds nothing: no fact about w is needed.
LEMMA ReturnStep ==
  ASSUME Inv, TypeOK', NEW w \in Workers, OthersKept(w),
         UNCHANGED <<head, tail, slots>>,
         pc[w] \notin Holding, pc'[w] = "idle"
  PROVE  Inv'
<1>1. OwnerInv(w)'
  BY DEF OwnerInv, Pushing
<1>2. ThiefInv(w)'
  BY DEF ThiefInv, Raiding, Filling, Stealing
<1>3. pc'[w] \notin Holding
  BY DEF Holding
<1> QED
  BY <1>1, <1>2, <1>3, QuietStep

\* Leaving an operation keeps the types, and the other threads' locals.
LEMMA ForgetType ==
  ASSUME TypeOK, NEW w \in Workers, Forget(w)
  PROVE  /\ reg' \in [Workers -> HeadWord] /\ num' \in [Workers -> Nat]
         /\ copied' \in [Workers -> Nat] /\ victim' \in [Workers -> Workers]
         /\ \A x \in Workers \ {w} :
              /\ reg'[x] = reg[x] /\ num'[x] = num[x]
              /\ copied'[x] = copied[x] /\ victim'[x] = victim[x]
<1>1. Pack(Start, Start) \in HeadWord
  BY IndexAssumption DEF Pack, HeadWord, Index, MaxIndex
<1>2. /\ reg \in [Workers -> HeadWord] /\ num \in [Workers -> Nat]
      /\ copied \in [Workers -> Nat] /\ victim \in [Workers -> Workers]
  BY DEF TypeOK
<1> QED
  BY <1>1, <1>2 DEF Forget

\* A jump keeps the types, and where the other threads stand.
LEMMA GotoType ==
  ASSUME TypeOK, NEW w \in Workers, NEW l \in PCs, Goto(w, l)
  PROVE  /\ pc' \in [Workers -> PCs] /\ pc'[w] = l
         /\ \A x \in Workers \ {w} : pc'[x] = pc[x]
<1>1. pc \in [Workers -> PCs]
  BY DEF TypeOK
<1> QED
  BY <1>1 DEF Goto

\* Counting a run keeps the type of the counts.
LEMMA ExcuteType ==
  ASSUME TypeOK, NEW t \in Tasks \cup {Null}, Excute(t)
  PROVE  runs' \in [Tasks \cup {Null} -> Nat]
<1> DEFINE D == Tasks \cup {Null}
<1>1. runs \in [D -> Nat] /\ t \in D
  BY DEF TypeOK
<1> HIDE DEF D
<1>2. runs' \in [D -> Nat]
  BY <1>1 DEF Excute
<1> QED
  BY <1>2 DEF D

\* GlobalQueue::push_back from outside touches no local queue.
LEMMA GlobalPushBackInv ==
  ASSUME Inv, NEW t \in Tasks, GlobalPushBack(t)
  PROVE  Inv'
<1> USE DEF Inv, IndexInv
<1>0. /\ global \in Seq(Tasks) /\ submitted \in SUBSET Tasks
      /\ dropped \in SUBSET Tasks
  BY DEF TypeOK
<1>1. /\ global' \in Seq(Tasks) /\ submitted' \in SUBSET Tasks
      /\ dropped' \in SUBSET Tasks
  <2>1. submitted' \in SUBSET Tasks
    BY <1>0 DEF GlobalPushBack
  <2>2. CASE closed
    BY <1>0, <2>1, <2>2 DEF GlobalPushBack
  <2>3. CASE ~closed
    BY <1>0, <2>1, <2>3 DEF GlobalPushBack
  <2> QED
    BY <2>2, <2>3
<1>2. UNCHANGED <<head, tail, slots, closed, pc, reg, num, copied, victim,
                  hand, runs>>
  BY DEF GlobalPushBack, queueVars, locals
<1>3. TypeOK'
  BY <1>1, <1>2 DEF TypeOK
<1>4. IndexInv'
  BY <1>2 DEF IndexOrder, ClaimIsExclusive, ThreadInv, PopApart, Stealing,
     OwnerInv, ThiefInv, Pushing, Raiding, Filling
<1>5. LiveSlotsFull'
  BY <1>2 DEF LiveSlotsFull, PublishedFull, OwnedFull, FilledFull,
     ClaimedFull, Holds, Filling, Stealing
<1> QED
  BY <1>3, <1>4, <1>5

\* GlobalQueue::close touches no local queue.
LEMMA CloseInv ==
  ASSUME Inv, Close
  PROVE  Inv'
<1> USE DEF Inv, IndexInv
<1>2. closed' \in BOOLEAN
      /\ UNCHANGED <<head, tail, slots, global, pc, reg, num, copied, victim,
                     hand, submitted, dropped, runs>>
  BY DEF Close, queueVars, locals, poolVars
<1>3. TypeOK'
  BY <1>2 DEF TypeOK
<1>4. IndexInv'
  BY <1>2 DEF IndexOrder, ClaimIsExclusive, ThreadInv, PopApart, Stealing,
     OwnerInv, ThiefInv, Pushing, Raiding, Filling
<1>5. LiveSlotsFull'
  BY <1>2 DEF LiveSlotsFull, PublishedFull, OwnedFull, FilledFull,
     ClaimedFull, Holds, Filling, Stealing
<1> QED
  BY <1>3, <1>4, <1>5

\* The head of the global queue is a task, and no local queue changes.
LEMMA GlobalTryPopInv ==
  ASSUME Inv, NEW w \in Workers, GlobalTryPop(w)
  PROVE  Inv'
<1> USE DEF Inv
<1>0. Head(global) \in Tasks
  BY DEF GlobalTryPop, TypeOK
<1>1. runs' \in [Tasks \cup {Null} -> Nat]
  BY <1>0, ExcuteType DEF GlobalTryPop
<1>2. global' \in Seq(Tasks)
  BY DEF GlobalTryPop, TypeOK
<1>3. UNCHANGED <<head, tail, slots, closed, pc, reg, num, copied, victim,
                  hand, submitted, dropped>>
  BY DEF GlobalTryPop, queueVars, locals
<1>4. TypeOK'
  BY <1>1, <1>2, <1>3 DEF TypeOK
<1>5. pc[w] \notin Holding /\ pc'[w] = "idle"
  BY <1>3 DEF GlobalTryPop, Holding
<1> QED
  BY <1>3, <1>4, <1>5, ReturnStep DEF OthersKept

\* push_back begins with its task in hand.
LEMMA PushBackInv ==
  ASSUME Inv, NEW w \in Workers, NEW t \in Tasks, PushBack(w, t)
  PROVE  Inv'
<1> USE DEF Inv
<1>1. UNCHANGED <<head, tail, slots, global, closed, reg, num, copied, victim,
                  dropped, runs>>
      /\ submitted' = submitted \cup {t} /\ pc[w] = "idle"
  BY DEF PushBack, queueVars, locals
<1>2. /\ pc' \in [Workers -> PCs] /\ pc'[w] = "push_load"
      /\ \A x \in Workers \ {w} : pc'[x] = pc[x]
  BY GotoType DEF PushBack, PCs
<1>3. /\ hand' \in [Workers -> Seq(Tasks)] /\ hand'[w] = <<t>>
      /\ \A x \in Workers \ {w} : hand'[x] = hand[x]
  BY DEF PushBack, TypeOK
<1>4. TypeOK'
  BY <1>1, <1>2, <1>3 DEF TypeOK
<1>5. OthersKept(w)
  BY <1>1, <1>2, <1>3 DEF OthersKept
<1>6. pc[w] \notin Holding /\ pc'[w] \notin Holding
  BY <1>1, <1>2 DEF Holding
<1>7. OwnerInv(w)'
  BY <1>2, <1>3 DEF OwnerInv
<1>8. ThiefInv(w)'
  BY <1>2 DEF ThiefInv, Raiding, Filling, Stealing
<1> QED
  BY <1>1, <1>4, <1>5, <1>6, <1>7, <1>8, QuietStep

\* What push_back hands to the global queue consists of tasks.
LEMMA PushGlobalInv ==
  ASSUME Inv, NEW w \in Workers, PushGlobal(w)
  PROVE  Inv'
<1> USE DEF Inv
<1>1. UNCHANGED <<head, tail, slots, closed, reg, num, copied, victim,
                  submitted, runs>> /\ pc[w] = "push_global"
  BY DEF PushGlobal, queueVars, locals
<1>2. /\ pc' \in [Workers -> PCs] /\ pc'[w] = "idle"
      /\ \A x \in Workers \ {w} : pc'[x] = pc[x]
  BY GotoType DEF PushGlobal, PCs
<1>3. /\ hand' \in [Workers -> Seq(Tasks)]
      /\ \A x \in Workers \ {w} : hand'[x] = hand[x]
  BY DEF PushGlobal, TypeOK
<1>4. hand[w] \in Seq(Tasks) /\ global \in Seq(Tasks) /\ dropped \in SUBSET Tasks
  BY DEF TypeOK
<1>5. \A i \in DOMAIN hand[w] : hand[w][i] \in Tasks
  BY <1>4
<1>6. global' \in Seq(Tasks) /\ dropped' \in SUBSET Tasks
  <2>1. CASE closed
    <3>1. UNCHANGED global
          /\ dropped' = dropped \cup {hand[w][i] : i \in DOMAIN hand[w]}
      BY <2>1 DEF PushGlobal
    <3> QED
      BY <1>4, <1>5, <3>1
  <2>2. CASE ~closed
    <3>1. global' = global \o hand[w] /\ UNCHANGED dropped
      BY <2>2 DEF PushGlobal
    <3> QED
      BY <1>4, <3>1
  <2> QED
    BY <2>1, <2>2
<1>7. TypeOK'
  BY <1>1, <1>2, <1>3, <1>6 DEF TypeOK
<1>8. OthersKept(w) /\ pc[w] \notin Holding
  BY <1>1, <1>2, <1>3 DEF OthersKept, Holding
<1> QED
  BY <1>1, <1>2, <1>7, <1>8, ReturnStep

\* try_pop begins on a queue that is not empty.
LEMMA TryPopInv ==
  ASSUME Inv, NEW w \in Workers, TryPop(w)
  PROVE  Inv'
<1> USE DEF Inv, IndexInv
<1>0. QueueFact(w) /\ WrapFact(w)
  BY QueueFacts, WrapFacts
<1>1. UNCHANGED <<head, tail, slots, global, closed, num, copied, victim,
                  hand, submitted, dropped, runs>> /\ pc[w] = "idle"
  BY DEF TryPop, queueVars, poolVars
<1>2. /\ pc' \in [Workers -> PCs] /\ pc'[w] = "pop_cas"
      /\ \A x \in Workers \ {w} : pc'[x] = pc[x]
  BY GotoType DEF TryPop, PCs
<1>3. /\ reg' \in [Workers -> HeadWord] /\ reg'[w] = head[w]
      /\ \A x \in Workers \ {w} : reg'[x] = reg[x]
  BY <1>0 DEF TryPop, TypeOK, QueueFact
<1>4. TypeOK'
  BY <1>1, <1>2, <1>3 DEF TypeOK
<1>5. OthersKept(w) /\ pc[w] \notin Holding /\ pc'[w] \notin Holding
  BY <1>1, <1>2, <1>3 DEF OthersKept, Holding
<1>6. head[w].local # tail[w]
  BY <1>0 DEF TryPop, WrapFact
<1>7. OwnerInv(w)'
  BY <1>0, <1>1, <1>2, <1>3, <1>6 DEF OwnerInv, QueueFact, Pushing
<1>8. ThiefInv(w)'
  BY <1>2 DEF ThiefInv, Raiding, Filling, Stealing
<1> QED
  BY <1>1, <1>4, <1>5, <1>7, <1>8, QuietStep

\* remain_size bounds the batch by the room above the thief's claim.
LEMMA FetchSizeInv ==
  ASSUME Inv, NEW w \in Workers, FetchSize(w)
  PROVE  Inv'
<1> USE DEF Inv, IndexInv
<1>0. QueueFact(w) /\ WrapFact(w)
  BY QueueFacts, WrapFacts
<1>1. UNCHANGED <<head, tail, slots, global, closed, reg, copied, victim,
                  hand, submitted, dropped, runs>> /\ pc[w] = "idle"
  BY DEF FetchSize, queueVars, poolVars
<1>2. /\ pc' \in [Workers -> PCs] /\ pc'[w] = "fetch_pop"
      /\ \A x \in Workers \ {w} : pc'[x] = pc[x]
  BY GotoType DEF FetchSize, PCs
<1>3. PICK n \in Nat : /\ n >= 1 /\ n + tail[w] - head[w].steal <= Capacity
                       /\ num' = [num EXCEPT ![w] = n]
  <2> DEFINE n == IF RemainSize(w) < Half THEN RemainSize(w) ELSE Half
  <2>1. n > 0 /\ num' = [num EXCEPT ![w] = n]
    BY DEF FetchSize
  <2>2. RemainSize(w) = Capacity - (tail[w] - head[w].steal)
    BY <1>0 DEF RemainSize, WrapFact
  <2>3. n \in Int /\ n <= Capacity - (tail[w] - head[w].steal)
    BY <2>2, <1>0, HalfFits, CapacityAssumption DEF QueueFact
  <2> HIDE DEF n
  <2>4. n \in Nat /\ n >= 1 /\ n + tail[w] - head[w].steal <= Capacity
    BY <2>1, <2>3, <1>0, CapacityAssumption DEF QueueFact
  <2> QED
    BY <2>1, <2>4
<1>4. /\ num' \in [Workers -> Nat] /\ num'[w] = n
      /\ \A x \in Workers \ {w} : num'[x] = num[x]
  BY <1>3 DEF TypeOK
<1>5. TypeOK'
  BY <1>1, <1>2, <1>4 DEF TypeOK
<1>6. OthersKept(w) /\ pc[w] \notin Holding /\ pc'[w] \notin Holding
  BY <1>1, <1>2, <1>4 DEF OthersKept, Holding
<1>7. OwnerInv(w)'
  BY <1>1, <1>2, <1>3, <1>4 DEF OwnerInv, Pushing
<1>8. ThiefInv(w)'
  BY <1>2 DEF ThiefInv, Raiding, Filling, Stealing
<1> QED
  BY <1>1, <1>5, <1>6, <1>7, <1>8, QuietStep

\* The batch of the global queue is no longer than asked for.
LEMMA FetchPopInv ==
  ASSUME Inv, NEW w \in Workers, FetchPop(w)
  PROVE  Inv'
<1> USE DEF Inv, IndexInv
<1>0. QueueFact(w) /\ num[w] \in Nat /\ global \in Seq(Tasks)
      /\ Len(global) \in Nat
  BY QueueFacts DEF TypeOK
<1>1. UNCHANGED <<head, tail, slots, closed, submitted, dropped, runs>>
      /\ pc[w] = "fetch_pop" /\ Forget(w)
  BY DEF FetchPop, queueVars, poolVars
<1>2. num[w] + tail[w] - head[w].steal <= Capacity
  BY <1>1 DEF ThreadInv, OwnerInv
<1>3. PICK n \in Nat :
        /\ n <= Len(global) /\ n <= num[w]
        /\ hand' = [hand EXCEPT ![w] = SubSeq(global, 1, n)]
        /\ global' = SubSeq(global, n + 1, Len(global))
        /\ Goto(w, IF n = 0 THEN "idle" ELSE "fetch_push")
  <2> DEFINE n == IF Len(global) < num[w] THEN Len(global) ELSE num[w]
  <2>1. n \in Nat /\ n <= Len(global) /\ n <= num[w]
    BY <1>0
  <2> QED
    BY <2>1 DEF FetchPop
<1>4. /\ SubSeq(global, 1, n) \in Seq(Tasks)
      /\ Len(SubSeq(global, 1, n)) = n
      /\ global' \in Seq(Tasks)
  BY <1>0, <1>3
<1>5. /\ hand' \in [Workers -> Seq(Tasks)] /\ Len(hand'[w]) = n
      /\ \A x \in Workers \ {w} : hand'[x] = hand[x]
  BY <1>3, <1>4 DEF TypeOK
<1>6. /\ pc' \in [Workers -> PCs]
      /\ \/ pc'[w] = "idle"
         \/ pc'[w] = "fetch_push" /\ n >= 1
      /\ \A x \in Workers \ {w} : pc'[x] = pc[x]
  <2>1. CASE n = 0
    BY <1>3, <2>1, GotoType DEF PCs
  <2>2. CASE n # 0
    BY <1>3, <2>2, GotoType DEF PCs
  <2> QED
    BY <2>1, <2>2
<1>7. TypeOK'
  BY <1>1, <1>4, <1>5, <1>6, ForgetType DEF TypeOK
<1>8. OthersKept(w) /\ pc[w] \notin Holding /\ pc'[w] \notin Holding
  BY <1>1, <1>5, <1>6, ForgetType DEF OthersKept, Holding
<1>9. OwnerInv(w)'
  <2>1. n - 1 + tail[w] - head[w].steal <= Capacity
    BY <1>0, <1>2, <1>3, CapacityAssumption, SMTT(30) DEF QueueFact
  <2> QED
    BY <1>1, <1>5, <1>6, <2>1 DEF OwnerInv, Pushing
<1>10. ThiefInv(w)'
  BY <1>6 DEF ThiefInv, Raiding, Filling, Stealing
<1> QED
  BY <1>1, <1>7, <1>8, <1>9, <1>10, QuietStep

\* A theft begins with at most half of the thief's own array in use.
LEMMA BeStolenByInv ==
  ASSUME Inv, NEW w \in Workers, NEW v \in Workers, BeStolenBy(w, v)
  PROVE  Inv'
<1> USE DEF Inv, IndexInv
<1>0. QueueFact(w) /\ QueueFact(v) /\ WrapFact(w)
  BY QueueFacts, WrapFacts
<1>1. UNCHANGED <<head, tail, slots, global, closed, num, copied,
                  hand, submitted, dropped, runs>> /\ pc[w] = "idle" /\ v # w
  BY DEF BeStolenBy, queueVars, poolVars
<1>2. /\ pc' \in [Workers -> PCs] /\ pc'[w] = "steal_tail"
      /\ \A x \in Workers \ {w} : pc'[x] = pc[x]
  BY GotoType DEF BeStolenBy, PCs
<1>3. /\ reg' \in [Workers -> HeadWord] /\ reg'[w] = head[v]
      /\ \A x \in Workers \ {w} : reg'[x] = reg[x]
  BY <1>0 DEF BeStolenBy, TypeOK, QueueFact
<1>4. /\ victim' \in [Workers -> Workers] /\ victim'[w] = v
      /\ \A x \in Workers \ {w} : victim'[x] = victim[x]
  BY DEF BeStolenBy, TypeOK
<1>5. TypeOK'
  BY <1>1, <1>2, <1>3, <1>4 DEF TypeOK
<1>6. OthersKept(w) /\ pc[w] \notin Holding /\ pc'[w] \notin Holding
  BY <1>1, <1>2, <1>3, <1>4 DEF OthersKept, Holding
<1>7. OwnerInv(w)'
  BY <1>2 DEF OwnerInv, Pushing
<1>8. ThiefInv(w)'
  BY <1>0, <1>1, <1>2, <1>3, <1>4
     DEF ThiefInv, Raiding, Filling, Stealing, BeStolenBy, QueueFact, WrapFact
<1> QED
  BY <1>1, <1>5, <1>6, <1>7, <1>8, QuietStep

\* steal_num is at most half of the victim's published tasks, even when
\* _tail is loaded later than _head.
LEMMA StealTailInv ==
  ASSUME Inv, NEW w \in Workers, StealTail(w)
  PROVE  Inv'
<1> USE DEF Inv, IndexInv
<1>0. victim[w] \in Workers /\ num[w] \in Nat
  BY DEF TypeOK
<1>1. QueueFact(w) /\ QueueFact(victim[w])
  BY <1>0, QueueFacts
<1>2. /\ UNCHANGED <<head, tail, slots, global, closed, hand, submitted,
                     dropped, runs>>
      /\ pc[w] = "steal_tail"
  BY DEF StealTail, queueVars, poolVars
<1>3. /\ reg[w].steal \in Index /\ reg[w].local \in Index
      /\ tail[victim[w]] \in Index
  BY <1>0 DEF TypeOK, HeadWord
<1>4. /\ victim[w] # w /\ tail[w] - head[w].steal <= Half
      /\ reg[w].local <= tail[victim[w]]
  BY <1>2 DEF ThreadInv, ThiefInv, Raiding
<1>5. /\ SameIndex(reg[w].steal, reg[w].local) <=> reg[w].steal = reg[w].local
      /\ StealNum(w) = (tail[victim[w]] - reg[w].local) \div 2
  BY <1>3, <1>4, SameIndexIsEqual, DiffIsMinus DEF StealNum
<1>6. /\ StealNum(w) \in Nat
      /\ reg[w].local + StealNum(w) + StealNum(w) <= tail[victim[w]]
  BY <1>1, <1>4, <1>5 DEF QueueFact
<1>7. CASE Goto(w, "idle") /\ Forget(w)
  <2>1. /\ pc' \in [Workers -> PCs] /\ pc'[w] = "idle"
        /\ \A x \in Workers \ {w} : pc'[x] = pc[x]
    BY <1>7, GotoType DEF PCs
  <2>2. TypeOK'
    BY <1>2, <1>7, <2>1, ForgetType DEF TypeOK
  <2>3. OthersKept(w) /\ pc[w] \notin Holding
    BY <1>2, <1>7, <2>1, ForgetType DEF OthersKept, Holding
  <2> QED
    BY <1>2, <2>1, <2>2, <2>3, ReturnStep
<1>8. CASE /\ SameIndex(reg[w].steal, reg[w].local) /\ StealNum(w) # 0
           /\ Goto(w, "steal_cas")
           /\ num' = [num EXCEPT ![w] = StealNum(w)]
           /\ UNCHANGED <<reg, copied, victim>>
  <2>1. /\ pc' \in [Workers -> PCs] /\ pc'[w] = "steal_cas"
        /\ \A x \in Workers \ {w} : pc'[x] = pc[x]
    BY <1>8, GotoType DEF PCs
  <2>2. /\ num' \in [Workers -> Nat] /\ num'[w] = StealNum(w)
        /\ \A x \in Workers \ {w} : num'[x] = num[x]
    BY <1>6, <1>8 DEF TypeOK
  <2>3. TypeOK'
    BY <1>2, <1>8, <2>1, <2>2 DEF TypeOK
  <2>4. OthersKept(w) /\ pc[w] \notin Holding /\ pc'[w] \notin Holding
    BY <1>2, <1>8, <2>1, <2>2 DEF OthersKept, Holding
  <2>5. OwnerInv(w)'
    BY <2>1 DEF OwnerInv, Pushing
  <2>6. reg[w].steal = reg[w].local /\ StealNum(w) >= 1
    BY <1>5, <1>6, <1>8
  <2>7. ThiefInv(w)'
    BY <1>2, <1>4, <1>6, <1>8, <2>1, <2>2, <2>6
       DEF ThiefInv, Raiding, Filling, Stealing
  <2> QED
    BY <1>2, <2>3, <2>4, <2>5, <2>7, QuietStep
<1> QED
  BY <1>7, <1>8 DEF StealTail

-----------------------------------------------------------------------------
(* Steps that move an index or write a slot.                               *)

\* What the other threads rely on survives any step that moves heads and
\* tails only forward and leaves their own tail alone.
LEMMA OthersInv ==
  ASSUME Inv, TypeOK', NEW w \in Workers, OthersKept(w),
         NEW x \in Workers \ {w},
         tail'[x] = tail[x],
         head'[x].steal >= head[x].steal, head'[x].local >= head[x].local,
         \A y \in Workers : tail'[y] >= tail[y]
  PROVE  OwnerInv(x)' /\ ThiefInv(x)'
<1>1. /\ head[x].steal \in Nat /\ head[x].local \in Nat /\ tail[x] \in Nat
      /\ head'[x].steal \in Nat /\ head'[x].local \in Nat
      /\ reg[x].steal \in Nat /\ reg[x].local \in Nat
      /\ num[x] \in Nat /\ copied[x] \in Nat /\ victim[x] \in Workers
      /\ tail[victim[x]] \in Nat /\ tail'[victim[x]] \in Nat
      /\ hand[x] \in Seq(Tasks)
  <2>1. /\ head[x] \in HeadWord /\ tail[x] \in Index /\ reg[x] \in HeadWord
        /\ num[x] \in Nat /\ copied[x] \in Nat /\ victim[x] \in Workers
        /\ hand[x] \in Seq(Tasks)
    BY DEF Inv, TypeOK
  <2>2. /\ head'[x] \in HeadWord /\ tail[victim[x]] \in Index
        /\ tail'[victim[x]] \in Index
    BY <2>1 DEF Inv, TypeOK
  <2>3. \A i \in Index : i \in Nat
    BY IndexRange
  <2>4. /\ head[x].steal \in Index /\ head[x].local \in Index
        /\ head'[x].steal \in Index /\ head'[x].local \in Index
        /\ reg[x].steal \in Index /\ reg[x].local \in Index
    BY <2>1, <2>2 DEF HeadWord
  <2> QED
    BY <2>1, <2>2, <2>3, <2>4
<1>2. OwnerInv(x) /\ ThiefInv(x)
  BY DEF Inv, IndexInv, ThreadInv
<1>3. /\ pc'[x] = pc[x] /\ reg'[x] = reg[x] /\ num'[x] = num[x]
      /\ copied'[x] = copied[x] /\ victim'[x] = victim[x]
      /\ hand'[x] = hand[x]
  BY DEF OthersKept
<1>4. tail'[victim[x]] >= tail[victim[x]]
  BY <1>1
<1>5. Len(hand[x]) \in Nat /\ Half \in Nat /\ Capacity \in Nat
  BY <1>1, HalfFits, CapacityAssumption
<1>6. OwnerInv(x)'
  <2> DEFINE from == head[x].steal
             to == head'[x].steal
             first == head[x].local
             next == head'[x].local
             end == tail[x]
             old == reg[x].local
             n == num[x]
             held == Len(hand[x])
  <2>1. /\ from \in Nat /\ to \in Nat /\ from <= to /\ end \in Nat
        /\ first \in Nat /\ next \in Nat /\ first <= next
        /\ old \in Nat /\ n \in Nat /\ held \in Nat
        /\ Half \in Nat /\ Capacity \in Nat
    BY <1>1, <1>5
  <2>2. /\ pc[x] = "push_write" => end - from < Capacity
        /\ pc[x] = "overflow_move" => old + Half <= from
        /\ pc[x] = "pop_take" => old < first
        /\ pc[x] = "fetch_pop" => n + end - from <= Capacity
        /\ pc[x] = "fetch_push" => held - 1 + end - from <= Capacity
    BY <1>2 DEF OwnerInv
  <2> HIDE DEF from, to, first, next, end, old, n, held
  <2>3. pc[x] = "pop_take" => old < next
    BY <2>1, <2>2
  <2>4. pc[x] = "push_write" => end - to < Capacity
    BY <2>1, <2>2
  <2>5. pc[x] = "overflow_move" => old + Half <= to
    BY <2>1, <2>2
  <2>6. pc[x] = "fetch_pop" => n + end - to <= Capacity
    BY <2>1, <2>2
  <2>7. pc[x] = "fetch_push" => held - 1 + end - to <= Capacity
    BY <2>1, <2>2
  <2> QED
    BY <1>2, <1>3, <2>3, <2>4, <2>5, <2>6, <2>7
       DEF OwnerInv, Pushing, from, to, first, next, end, old, n, held
<1>7. ThiefInv(x)'
  <2>1. Raiding(x)' => victim'[x] # x /\ tail'[x] - head'[x].steal <= Half
    BY <1>1, <1>2, <1>3, <1>5, SMTT(30) DEF ThiefInv, Raiding, Filling, Stealing
  <2>2. pc'[x] = "steal_tail" => reg'[x].local <= tail'[victim'[x]]
    BY <1>1, <1>2, <1>3, <1>4 DEF ThiefInv
  <2>3. pc'[x] = "steal_cas" =>
          /\ reg'[x].steal = reg'[x].local
          /\ num'[x] >= 1
          /\ reg'[x].local + num'[x] + num'[x] <= tail'[victim'[x]]
    BY <1>1, <1>2, <1>3, <1>4 DEF ThiefInv
  <2> QED
    BY <1>2, <1>3, <2>1, <2>2, <2>3 DEF ThiefInv, Filling, Stealing
<1> QED
  BY <1>6, <1>7

\* A queue whose two head parts agree is not being stolen from.
LEMMA NoThief ==
  ASSUME Inv, NEW v \in Workers, head[v].steal = head[v].local
  PROVE  \A u \in Workers : Stealing(u) => victim[u] # v
<1> SUFFICES ASSUME NEW u \in Workers, Stealing(u), victim[u] = v
             PROVE  FALSE
  OBVIOUS
<1>1. /\ head[v].steal = reg[u].steal
      /\ reg[u].steal + num[u] <= head[v].local
  BY DEF Inv, IndexInv, ClaimIsExclusive
<1>2. num[u] >= 1 /\ num[u] \in Nat
  BY DEF Inv, IndexInv, ThreadInv, ThiefInv, Filling, TypeOK
<1>3. QueueFact(v)
  BY QueueFacts DEF Inv, IndexInv
<1> QED
  BY <1>1, <1>2, <1>3 DEF QueueFact

\* The tasks of the other queues stay where they are when no slot is written
\* and heads move only forward.
Full(w) == PublishedFull(w) /\ OwnedFull(w) /\ FilledFull(w) /\ ClaimedFull(w)

\* No other thread's tasks disappear when heads alone move forward.
LEMMA OthersFull ==
  ASSUME Inv, TypeOK', NEW w \in Workers, OthersKept(w),
         UNCHANGED <<slots, tail>>, NEW x \in Workers \ {w},
         head'[x].local >= head[x].local
  PROVE  Full(x)'
<1>1. Full(x)
  BY DEF Inv, LiveSlotsFull, Full
<1>2. \A y, i : Holds(y, i)' <=> Holds(y, i)
  BY DEF Holds
<1>3. /\ head[x].local \in Nat /\ head'[x].local \in Nat
      /\ \A i \in Index : i \in Nat
  <2>1. head[x] \in HeadWord /\ head'[x] \in HeadWord
    BY DEF Inv, TypeOK
  <2> QED
    BY <2>1, IndexRange DEF HeadWord
<1>4. PublishedFull(x)'
  <2>1. ASSUME NEW i \in Index, head'[x].local <= i, i < tail[x]
        PROVE  Holds(x, i)'
    <3>1. head[x].local <= i
      BY <1>3, <2>1
    <3> QED
      BY <1>1, <1>2, <2>1, <3>1 DEF Full, PublishedFull
  <2> QED
    BY <2>1 DEF PublishedFull
<1> QED
  BY <1>1, <1>2, <1>4 DEF Full, OwnedFull, FilledFull, ClaimedFull, Filling,
     Stealing, OthersKept

\* Halving: a number that fits twice into the capacity is at most Half.
LEMMA HalfIsLargest ==
  ASSUME NEW n \in Nat, n + n <= Capacity
  PROVE  n <= Half
BY CapacityAssumption DEF Half

\* handle_overflow's claim: the whole queue was published and unclaimed.
LEMMA OverflowCASInv ==
  ASSUME Inv, NEW w \in Workers, OverflowCAS(w)
  PROVE  Inv'
<1> USE DEF Inv, IndexInv
<1>0. QueueFact(w) /\ Half \in Nat /\ Half + Half <= Capacity /\ Capacity \in Nat
  BY QueueFacts, HalfFits, CapacityAssumption
<1>1. /\ UNCHANGED <<tail, slots, global, closed, hand, submitted, dropped,
                     runs>>
      /\ pc[w] = "overflow_cas"
  BY DEF OverflowCAS, poolVars
<1>2. /\ reg[w].steal = reg[w].local /\ tail[w] = reg[w].local + Capacity
      /\ Len(hand[w]) >= 1
  BY <1>1 DEF ThreadInv, OwnerInv, Pushing
<1>3. CASE ~SameHead(head[w], reg[w])
  <2>1. UNCHANGED head /\ Goto(w, "push_load") /\ Forget(w)
    BY <1>3 DEF OverflowCAS
  <2>2. /\ pc' \in [Workers -> PCs] /\ pc'[w] = "push_load"
        /\ \A x \in Workers \ {w} : pc'[x] = pc[x]
    BY <2>1, GotoType DEF PCs
  <2>3. TypeOK'
    BY <1>1, <2>1, <2>2, ForgetType DEF TypeOK
  <2>4. OthersKept(w) /\ pc[w] \notin Holding /\ pc'[w] \notin Holding
    BY <1>1, <2>1, <2>2, ForgetType DEF OthersKept, Holding
  <2>5. OwnerInv(w)'
    BY <1>1, <1>2, <2>2 DEF OwnerInv
  <2>6. ThiefInv(w)'
    BY <2>2 DEF ThiefInv, Raiding, Filling, Stealing
  <2> QED
    BY <1>1, <2>1, <2>3, <2>4, <2>5, <2>6, QuietStep
<1>4. CASE SameHead(head[w], reg[w])
  <2> DEFINE h == Pack(reg[w].local + Half, reg[w].local + Half)
  <2>1. /\ head' = [head EXCEPT ![w] = h] /\ Goto(w, "overflow_move")
        /\ UNCHANGED <<reg, num, copied, victim>>
    BY <1>4 DEF OverflowCAS, locals
  <2>2. head[w] = reg[w]
    BY <1>0, <1>4, SameHeadIsEqual DEF QueueFact
  <2>3. h \in HeadWord /\ h.steal = reg[w].local + Half
        /\ h.local = reg[w].local + Half
    <3>1. reg[w].local + Half \in Index
      BY <1>0, <1>2, <2>2, IndexRange DEF QueueFact
    <3> QED
      BY <3>1 DEF HeadWord, Pack
  <2> HIDE DEF h
  <2>4. /\ pc' \in [Workers -> PCs] /\ pc'[w] = "overflow_move"
        /\ \A x \in Workers \ {w} : pc'[x] = pc[x]
    BY <2>1, GotoType DEF PCs
  <2>5. /\ head' \in [Workers -> HeadWord] /\ head'[w] = h
        /\ \A x \in Workers \ {w} : head'[x] = head[x]
    BY <2>1, <2>3 DEF TypeOK
  <2>6. TypeOK' /\ OthersKept(w)
    BY <1>1, <2>1, <2>4, <2>5 DEF TypeOK, OthersKept
  <2>7. \A u \in Workers : Stealing(u) => victim[u] # w
    BY <1>2, <2>2, NoThief
  <2>8. \A u \in Workers : Stealing(u)' <=> Stealing(u)
    BY <1>1, <2>4 DEF Stealing
  <2>9. IndexOrder'
    <3>1. /\ h.steal <= h.local /\ h.local <= tail[w]
          /\ tail[w] - h.steal <= Capacity
      BY <1>0, <1>2, <2>3, SMTT(30) DEF QueueFact
    <3> QED
      BY <1>1, <2>5, <3>1 DEF IndexOrder
  <2>10. ClaimIsExclusive'
    BY <2>1, <2>3, <2>5, <2>7, <2>8 DEF ClaimIsExclusive
  <2>11. OwnerInv(w)'
    BY <1>1, <1>2, <2>1, <2>3, <2>4, <2>5, <1>0 DEF OwnerInv, QueueFact
  <2>12. ThiefInv(w)'
    BY <2>4 DEF ThiefInv, Raiding, Filling, Stealing
  <2>13. ASSUME NEW x \in Workers \ {w} PROVE OwnerInv(x)' /\ ThiefInv(x)'
    <3>1. QueueFact(x) /\ \A y \in Workers : tail[y] \in Nat
      BY QueueFacts DEF QueueFact
    <3> QED
      BY <1>1, <2>5, <2>6, <3>1, OthersInv DEF QueueFact
  <2>14. ThreadInv'
    BY <2>11, <2>12, <2>13 DEF ThreadInv
  <2>15. PopApart'
    BY <1>1, <2>1, <2>4, <2>8 DEF PopApart
  <2>16. \A y, i : Holds(y, i)' <=> Holds(y, i)
    BY <1>1 DEF Holds
  <2>17. ASSUME NEW x \in Workers \ {w} PROVE Full(x)'
    <3>1. QueueFact(x)
      BY QueueFacts
    <3> QED
      BY <1>1, <2>5, <2>6, <3>1, OthersFull DEF QueueFact
  <2>18. PublishedFull(w)
    BY DEF LiveSlotsFull
  <2>19. PublishedFull(w)'
    BY <1>0, <1>1, <2>2, <2>3, <2>5, <2>16, <2>18, IndexRange
       DEF PublishedFull, QueueFact
  <2>20. OwnedFull(w)'
    BY <1>0, <1>1, <1>2, <2>1, <2>2, <2>4, <2>16, <2>18, IndexRange, SMTT(30)
       DEF PublishedFull, OwnedFull, QueueFact
  <2>21. FilledFull(w)' /\ ClaimedFull(w)'
    BY <2>4 DEF FilledFull, ClaimedFull, Filling, Stealing
  <2>22. LiveSlotsFull'
    BY <2>17, <2>19, <2>20, <2>21 DEF LiveSlotsFull, Full
  <2> QED
    BY <2>6, <2>9, <2>10, <2>14, <2>15, <2>22
<1> QED
  BY <1>3, <1>4

\* try_pop's claim takes the slot after any thief's range.
LEMMA PopCASInv ==
  ASSUME Inv, NEW w \in Workers, PopCAS(w)
  PROVE  Inv'
<1> USE DEF Inv, IndexInv
<1>0. QueueFact(w) /\ WrapFact(w) /\ Capacity \in Nat
  BY QueueFacts, WrapFacts, CapacityAssumption
<1>1. /\ UNCHANGED <<tail, slots, global, closed, hand, submitted, dropped,
                     runs>>
      /\ pc[w] = "pop_cas"
  BY DEF PopCAS, poolVars
<1>2. reg[w].steal <= reg[w].local /\ reg[w].local < tail[w]
  BY <1>1 DEF ThreadInv, OwnerInv
<1>3. CASE UNCHANGED head /\ Goto(w, "idle") /\ Forget(w)
  <2>1. /\ pc' \in [Workers -> PCs] /\ pc'[w] = "idle"
        /\ \A x \in Workers \ {w} : pc'[x] = pc[x]
    BY <1>3, GotoType DEF PCs
  <2>2. TypeOK'
    BY <1>1, <1>3, <2>1, ForgetType DEF TypeOK
  <2>3. OthersKept(w) /\ pc[w] \notin Holding
    BY <1>1, <1>3, <2>1, ForgetType DEF OthersKept, Holding
  <2> QED
    BY <1>1, <1>3, <2>1, <2>2, <2>3, ReturnStep
<1>4. CASE /\ ~SameIndex(head[w].local, tail[w])
           /\ reg' = [reg EXCEPT ![w] = head[w]]
           /\ UNCHANGED <<head, pc, num, copied, victim>>
  <2>1. /\ reg' \in [Workers -> HeadWord] /\ reg'[w] = head[w]
        /\ \A x \in Workers \ {w} : reg'[x] = reg[x]
    BY <1>0, <1>4 DEF TypeOK, QueueFact
  <2>2. TypeOK'
    BY <1>1, <1>4, <2>1 DEF TypeOK
  <2>3. OthersKept(w) /\ pc[w] \notin Holding /\ pc'[w] \notin Holding
    BY <1>1, <1>4, <2>1 DEF OthersKept, Holding
  <2>4. head[w].local # tail[w]
    BY <1>0, <1>4 DEF WrapFact
  <2>5. OwnerInv(w)'
    BY <1>0, <1>1, <1>4, <2>1, <2>4 DEF OwnerInv, QueueFact, Pushing
  <2>6. ThiefInv(w)'
    BY <1>1, <1>4 DEF ThiefInv, Raiding, Filling, Stealing
  <2> QED
    BY <1>1, <1>4, <2>2, <2>3, <2>5, <2>6, QuietStep
<1>5. CASE SameHead(head[w], reg[w])
  <2> DEFINE h == NextHead(reg[w])
  <2>1. /\ head' = [head EXCEPT ![w] = h] /\ Goto(w, "pop_take")
        /\ UNCHANGED <<reg, num, copied, victim>>
    BY <1>5 DEF PopCAS, locals
  <2>2. head[w] = reg[w]
    BY <1>0, <1>5, SameHeadIsEqual DEF QueueFact
  <2>3. /\ h \in HeadWord /\ h.local = reg[w].local + 1
        /\ \/ /\ head[w].steal = head[w].local
              /\ h.steal = h.local
           \/ /\ head[w].steal # head[w].local
              /\ h.steal = head[w].steal
    <3>1. reg[w].local + 1 \in Index /\ reg[w].steal \in Index
          /\ reg[w].local \in Index
      BY <1>0, <1>2, IndexRange DEF QueueFact
    <3>2. SameIndex(reg[w].local, reg[w].steal) <=> reg[w].local = reg[w].steal
      BY <3>1, SameIndexIsEqual
    <3>3. CASE reg[w].local = reg[w].steal
      BY <2>2, <3>1, <3>2, <3>3 DEF NextHead, Pack, HeadWord
    <3>4. CASE reg[w].local # reg[w].steal
      BY <2>2, <3>1, <3>2, <3>4 DEF NextHead, Pack, HeadWord
    <3> QED
      BY <3>3, <3>4
  <2> HIDE DEF h
  <2>4. /\ pc' \in [Workers -> PCs] /\ pc'[w] = "pop_take"
        /\ \A x \in Workers \ {w} : pc'[x] = pc[x]
    BY <2>1, GotoType DEF PCs
  <2>5. /\ head' \in [Workers -> HeadWord] /\ head'[w] = h
        /\ \A x \in Workers \ {w} : head'[x] = head[x]
    BY <2>1, <2>3 DEF TypeOK
  <2>6. TypeOK' /\ OthersKept(w)
    BY <1>1, <2>1, <2>4, <2>5 DEF TypeOK, OthersKept
  <2>7. \A u \in Workers : Stealing(u) /\ victim[u] = w =>
          head[w].steal # head[w].local /\ h.steal = head[w].steal
    BY <2>3, NoThief
  <2>8. \A u \in Workers : Stealing(u)' <=> Stealing(u)
    BY <1>1, <2>4 DEF Stealing
  <2>9. IndexOrder'
    BY <1>0, <1>1, <1>2, <2>2, <2>3, <2>5 DEF IndexOrder, QueueFact
  <2>10. ClaimIsExclusive'
    <3>1. ASSUME NEW v \in Workers, head'[v].steal # head'[v].local
          PROVE  \E u \in Workers : Stealing(u)' /\ victim'[u] = v
      <4>1. head[v].steal # head[v].local
        BY <2>3, <2>5, <3>1
      <4> QED
        BY <4>1, <2>1, <2>8 DEF ClaimIsExclusive
    <3>2. ASSUME NEW u \in Workers, Stealing(u)'
          PROVE  /\ head'[victim'[u]].steal = reg'[u].steal
                 /\ reg'[u].steal + num'[u] <= head'[victim'[u]].local
                 /\ \A y \in Workers \ {u} :
                      Stealing(y)' => victim'[y] # victim'[u]
      <4>1. Stealing(u) /\ victim[u] \in Workers
            /\ reg[u].steal \in Nat /\ num[u] \in Nat
        <5>1. QueueFact(u)
          BY QueueFacts
        <5> QED
          BY <2>8, <3>2, <5>1 DEF TypeOK, QueueFact
      <4>2. /\ head[victim[u]].steal = reg[u].steal
            /\ reg[u].steal + num[u] <= head[victim[u]].local
            /\ \A y \in Workers \ {u} : Stealing(y) => victim[y] # victim[u]
        BY <4>1 DEF ClaimIsExclusive
      <4>3. CASE victim[u] = w
        BY <4>1, <4>2, <4>3, <2>1, <2>2, <2>3, <2>5, <2>7, <2>8, <1>0
           DEF QueueFact
      <4>4. CASE victim[u] # w
        BY <4>1, <4>2, <4>4, <2>1, <2>5, <2>8
      <4> QED
        BY <4>3, <4>4
    <3> QED
      BY <3>1, <3>2 DEF ClaimIsExclusive
  <2>11. OwnerInv(w)'
    BY <1>0, <1>1, <1>2, <2>1, <2>2, <2>3, <2>4, <2>5
       DEF OwnerInv, QueueFact, Pushing
  <2>12. ThiefInv(w)'
    BY <2>4 DEF ThiefInv, Raiding, Filling, Stealing
  <2>13. ASSUME NEW x \in Workers \ {w} PROVE OwnerInv(x)' /\ ThiefInv(x)'
    <3>1. QueueFact(x) /\ \A y \in Workers : tail[y] \in Nat
      BY QueueFacts DEF QueueFact
    <3> QED
      BY <1>1, <2>5, <2>6, <3>1, OthersInv DEF QueueFact
  <2>14. ThreadInv'
    BY <2>11, <2>12, <2>13 DEF ThreadInv
  <2>15. PopApart'
    <3>1. ASSUME NEW u \in Workers, Stealing(u), victim[u] = w
          PROVE  reg[u].steal + num[u] <= reg[w].local
      BY <2>2, <3>1 DEF ClaimIsExclusive
    <3>2. ASSUME NEW x \in Workers, NEW u \in Workers,
                 pc'[x] = "pop_take", Stealing(u)', victim'[u] = x
          PROVE  \/ reg'[u].steal + num'[u] <= reg'[x].local
                 \/ reg'[x].local < reg'[u].steal
      <4>1. CASE x = w
        BY <2>1, <2>8, <3>1, <3>2, <4>1
      <4>2. CASE x # w
        BY <2>1, <2>4, <2>8, <3>2, <4>2 DEF PopApart
      <4> QED
        BY <4>1, <4>2
    <3> QED
      BY <3>2 DEF PopApart
  <2>16. \A y, i : Holds(y, i)' <=> Holds(y, i)
    BY <1>1 DEF Holds
  <2>17. ASSUME NEW x \in Workers \ {w} PROVE Full(x)'
    <3>1. QueueFact(x)
      BY QueueFacts
    <3> QED
      BY <1>1, <2>5, <2>6, <3>1, OthersFull DEF QueueFact
  <2>18. PublishedFull(w)
    BY DEF LiveSlotsFull
  <2>19. PublishedFull(w)'
    BY <1>0, <1>1, <2>2, <2>3, <2>5, <2>16, <2>18, IndexRange
       DEF PublishedFull, QueueFact
  <2>20. OwnedFull(w)'
    <3>1. reg[w].local \in Index
      BY <1>0, <1>2, <2>2 DEF QueueFact, HeadWord
    <3>2. Holds(w, reg[w].local)
      BY <1>0, <1>2, <2>2, <2>18, <3>1 DEF PublishedFull, QueueFact
    <3> QED
      BY <2>1, <2>4, <2>16, <3>2 DEF OwnedFull
  <2>21. FilledFull(w)' /\ ClaimedFull(w)'
    BY <2>4 DEF FilledFull, ClaimedFull, Filling, Stealing
  <2>22. LiveSlotsFull'
    BY <2>17, <2>19, <2>20, <2>21 DEF LiveSlotsFull, Full
  <2> QED
    BY <2>6, <2>9, <2>10, <2>14, <2>15, <2>22
<1> QED
  BY <1>3, <1>4, <1>5 DEF PopCAS

\* A thief's claim on x's queue lies in the last Capacity indices below tail.
LEMMA ClaimInWindow ==
  ASSUME Inv, NEW u \in Workers, Stealing(u)
  PROVE  /\ victim[u] \in Workers /\ QueueFact(victim[u])
         /\ reg[u].steal \in Nat /\ num[u] \in Nat /\ copied[u] \in Nat
         /\ reg[u].steal = head[victim[u]].steal
         /\ reg[u].steal + num[u] <= head[victim[u]].local
         /\ victim[u] # u
         /\ \A y \in Workers \ {u} : Stealing(y) => victim[y] # victim[u]
<1> USE DEF Inv, IndexInv
<1>1. victim[u] \in Workers /\ num[u] \in Nat /\ copied[u] \in Nat
  BY DEF TypeOK
<1>2. QueueFact(victim[u]) /\ QueueFact(u)
  BY <1>1, QueueFacts
<1>3. reg[u].steal \in Nat
  BY <1>2 DEF QueueFact
<1>4. victim[u] # u
  BY DEF ThreadInv, ThiefInv, Raiding, Filling
<1> QED
  BY <1>1, <1>2, <1>3, <1>4 DEF ClaimIsExclusive

\* Steps of an owner that empty or fill slots of its own array, none of them
\* live for anybody else, and keep every head: the other threads lose nothing.
LEMMA OwnerWrite ==
  ASSUME Inv, TypeOK', NEW w \in Workers, OthersKept(w), UNCHANGED head,
         pc[w] \notin {"steal_copy", "steal_commit"},
         pc'[w] \notin {"steal_copy", "steal_commit"},
         tail'[w] >= tail[w],
         \A x \in Workers \ {w} : tail'[x] = tail[x] /\ slots'[x] = slots[x],
         \A u \in Workers : \A i \in Index :
           /\ pc[u] = "steal_copy" /\ victim[u] = w
           /\ reg[u].steal + copied[u] <= i /\ i < reg[u].steal + num[u]
           => Holds(w, i)',
         tail'[w] - head[w].steal <= Capacity,
         OwnerInv(w)', ThiefInv(w)', pc'[w] # "pop_take",
         PublishedFull(w)', OwnedFull(w)', FilledFull(w)'
  PROVE  Inv'
<1> USE DEF Inv, IndexInv
<1>0. \A x \in Workers : QueueFact(x) /\ tail[x] \in Nat
  BY QueueFacts DEF QueueFact
<1>1. \A u \in Workers : Stealing(u)' <=> Stealing(u)
  BY DEF Stealing, OthersKept
<1>2. \A u \in Workers : Stealing(u) =>
        /\ u # w /\ victim'[u] = victim[u] /\ reg'[u] = reg[u]
        /\ num'[u] = num[u]
  BY DEF Stealing, OthersKept
<1>3. tail'[w] \in Nat
  <2>1. tail'[w] \in Index
    BY DEF TypeOK
  <2> QED
    BY <2>1, IndexRange
<1>4. \A y \in Workers : tail'[y] >= tail[y]
  BY <1>0, <1>3
<1>5. IndexOrder'
  BY <1>0, <1>3 DEF IndexOrder, QueueFact
<1>6. ClaimIsExclusive'
  BY <1>1, <1>2 DEF ClaimIsExclusive
<1>7. ASSUME NEW x \in Workers \ {w} PROVE OwnerInv(x)' /\ ThiefInv(x)'
  BY <1>0, <1>4, OthersInv DEF QueueFact
<1>8. ThreadInv'
  BY <1>7 DEF ThreadInv
<1>9. PopApart'
  BY <1>1, <1>2 DEF PopApart, OthersKept
<1>10. ASSUME NEW x \in Workers \ {w} PROVE Full(x)'
  <2>1. Full(x)
    BY DEF LiveSlotsFull, Full
  <2>2. \A y \in Workers \ {w}, i \in Nat : Holds(y, i)' <=> Holds(y, i)
    BY DEF Holds
  <2>3. \A i \in Index : i \in Nat
    BY IndexRange
  <2>4. reg[x].local \in Nat /\ victim[x] \in Workers
    BY <1>0 DEF QueueFact, TypeOK
  <2>5. PublishedFull(x)' /\ OwnedFull(x)' /\ FilledFull(x)'
    BY <2>1, <2>2, <2>3, <2>4
       DEF Full, PublishedFull, OwnedFull, FilledFull, Filling, Stealing,
           OthersKept
  <2>6. ClaimedFull(x)'
    <3>1. CASE victim[x] = w
      BY <3>1 DEF ClaimedFull, OthersKept
    <3>2. CASE victim[x] # w
      BY <2>1, <2>2, <2>3, <2>4, <3>2 DEF Full, ClaimedFull, OthersKept
    <3> QED
      BY <3>1, <3>2
  <2> QED
    BY <2>5, <2>6 DEF Full
<1>11. ClaimedFull(w)'
  BY DEF ClaimedFull
<1>12. LiveSlotsFull'
  BY <1>10, <1>11 DEF LiveSlotsFull, Full
<1> QED
  BY <1>5, <1>6, <1>8, <1>9, <1>12

\* try_pop empties the slot it claimed and no live one.
LEMMA PopTakeInv ==
  ASSUME Inv, NEW w \in Workers, PopTake(w)
  PROVE  Inv'
<1> USE DEF Inv, IndexInv
<1> DEFINE k == Slot(reg[w].local)
<1>0. QueueFact(w) /\ Capacity \in Nat
  BY QueueFacts, CapacityAssumption
<1>1. /\ UNCHANGED <<head, tail, global, closed, hand, submitted, dropped>>
      /\ pc[w] = "pop_take" /\ Forget(w)
      /\ slots' = [slots EXCEPT ![w][k] = Null]
      /\ Excute(slots[w][k])
  BY DEF PopTake
<1>2. /\ pc' \in [Workers -> PCs] /\ pc'[w] = "idle"
      /\ \A x \in Workers \ {w} : pc'[x] = pc[x]
  BY GotoType DEF PopTake, PCs
<1>3. k \in 0 .. Capacity - 1
  BY <1>0, SlotInRange DEF QueueFact
<1> HIDE DEF k
<1>4. /\ slots \in [Workers -> [0 .. Capacity - 1 -> Tasks \cup {Null}]]
      /\ slots[w][k] \in Tasks \cup {Null}
  <2>1. slots \in [Workers -> [0 .. Capacity - 1 -> Tasks \cup {Null}]]
    BY DEF TypeOK
  <2> QED
    BY <1>3, <2>1
<1>5. /\ slots' \in [Workers -> [0 .. Capacity - 1 -> Tasks \cup {Null}]]
      /\ \A x \in Workers \ {w} : slots'[x] = slots[x]
      /\ \A m \in 0 .. Capacity - 1 : m # k => slots'[w][m] = slots[w][m]
  BY <1>1, <1>3, <1>4
<1>6. runs' \in [Tasks \cup {Null} -> Nat]
  BY <1>1, <1>4, ExcuteType
<1>7. TypeOK'
  BY <1>1, <1>2, <1>5, <1>6, ForgetType DEF TypeOK
<1>8. OthersKept(w)
  BY <1>1, <1>2, ForgetType DEF OthersKept
<1>9. reg[w].local < head[w].local /\ tail[w] - Capacity <= reg[w].local
  BY <1>1 DEF ThreadInv, OwnerInv
<1>10. ASSUME NEW i \in Nat, i # reg[w].local, tail[w] - Capacity <= i,
              i < tail[w], Holds(w, i)
       PROVE  Holds(w, i)'
  <2>1. Slot(i) # k
    <3>1. CASE i < reg[w].local
      BY <1>0, <1>9, <1>10, <3>1, SlotsDiffer DEF QueueFact, k
    <3>2. CASE i > reg[w].local
      BY <1>0, <1>9, <1>10, <3>2, SlotsDiffer DEF QueueFact, k
    <3> QED
      BY <1>0, <1>10, <3>1, <3>2 DEF QueueFact
  <2>2. slots'[w][Slot(i)] = slots[w][Slot(i)]
    BY <1>5, <2>1, SlotInRange
  <2> QED
    BY <1>10, <2>2 DEF Holds
<1>11. \A i \in Index : i \in Nat
  BY IndexRange
<1>12. PublishedFull(w)'
  <2>1. ASSUME NEW i \in Index, head[w].local <= i, i < tail[w]
        PROVE  Holds(w, i)'
    <3>1. i \in Nat /\ i # reg[w].local /\ tail[w] - Capacity <= i
      BY <1>0, <1>9, <1>11, <2>1 DEF QueueFact
    <3>2. Holds(w, i)
      BY <2>1 DEF LiveSlotsFull, PublishedFull
    <3> QED
      BY <1>10, <2>1, <3>1, <3>2
  <2> QED
    BY <1>1, <2>1 DEF PublishedFull
<1>13. ASSUME NEW u \in Workers, NEW i \in Index,
              pc[u] = "steal_copy", victim[u] = w,
              reg[u].steal + copied[u] <= i, i < reg[u].steal + num[u]
       PROVE  Holds(w, i)'
  <2>1. Stealing(u)
    BY <1>13 DEF Stealing
  <2>2. /\ reg[u].steal \in Nat /\ num[u] \in Nat /\ copied[u] \in Nat
        /\ reg[u].steal = head[w].steal
        /\ reg[u].steal + num[u] <= head[w].local
    BY <1>13, <2>1, ClaimInWindow
  <2>3. i \in Nat /\ tail[w] - Capacity <= i /\ i < tail[w]
    BY <1>0, <1>11, <1>13, <2>2 DEF QueueFact
  <2>4. \/ reg[u].steal + num[u] <= reg[w].local
        \/ reg[w].local < reg[u].steal
    BY <1>1, <1>13, <2>1 DEF PopApart
  <2>5. i # reg[w].local
    BY <1>0, <1>13, <2>2, <2>3, <2>4 DEF QueueFact
  <2>6. Holds(w, i)
    BY <1>13 DEF LiveSlotsFull, ClaimedFull
  <2> QED
    BY <1>10, <2>3, <2>5, <2>6
<1>14. /\ OwnerInv(w)' /\ ThiefInv(w)' /\ OwnedFull(w)' /\ FilledFull(w)'
  BY <1>2 DEF OwnerInv, ThiefInv, OwnedFull, FilledFull, Pushing, Raiding,
     Filling, Stealing
<1>15. tail'[w] >= tail[w] /\ tail'[w] - head[w].steal <= Capacity
  BY <1>0, <1>1 DEF QueueFact
<1>16. /\ pc[w] \notin {"steal_copy", "steal_commit"}
       /\ pc'[w] \notin {"steal_copy", "steal_commit"} /\ pc'[w] # "pop_take"
  BY <1>1, <1>2
<1> QED
  BY <1>1, <1>5, <1>7, <1>8, <1>12, <1>13, <1>14, <1>15, <1>16, OwnerWrite

\* push_back writes a slot that is not live, then publishes it.
LEMMA PushWriteInv ==
  ASSUME Inv, NEW w \in Workers, PushWrite(w)
  PROVE  Inv'
<1> USE DEF Inv, IndexInv
<1> DEFINE k == Slot(tail[w])
           t == hand[w][1]
<1>0. QueueFact(w) /\ Capacity \in Nat
  BY QueueFacts, CapacityAssumption
<1>1. /\ UNCHANGED <<head, global, closed, reg, num, copied, victim,
                     submitted, dropped, runs>>
      /\ pc[w] = "push_write" /\ tail[w] < MaxIndex
      /\ slots' = [slots EXCEPT ![w][k] = t]
      /\ tail' = [tail EXCEPT ![w] = tail[w] + 1]
      /\ hand' = [hand EXCEPT ![w] = << >>]
  BY DEF PushWrite, locals, poolVars
<1>2. /\ pc' \in [Workers -> PCs] /\ pc'[w] = "idle"
      /\ \A x \in Workers \ {w} : pc'[x] = pc[x]
  BY GotoType DEF PushWrite, PCs
<1>3. k \in 0 .. Capacity - 1
  BY <1>0, SlotInRange DEF QueueFact
<1>4. t \in Tasks
  <2>1. Len(hand[w]) >= 1 /\ hand[w] \in Seq(Tasks)
    BY <1>1 DEF ThreadInv, OwnerInv, Pushing, TypeOK
  <2> QED
    BY <2>1
<1>5. slots \in [Workers -> [0 .. Capacity - 1 -> Tasks \cup {Null}]]
  BY DEF TypeOK
<1> HIDE DEF k, t
<1>6. /\ slots' \in [Workers -> [0 .. Capacity - 1 -> Tasks \cup {Null}]]
      /\ slots'[w][k] = t
      /\ \A x \in Workers \ {w} : slots'[x] = slots[x]
      /\ \A m \in 0 .. Capacity - 1 : m # k => slots'[w][m] = slots[w][m]
  BY <1>1, <1>3, <1>4, <1>5
<1>7. /\ tail' \in [Workers -> Index] /\ tail'[w] = tail[w] + 1
      /\ \A x \in Workers \ {w} : tail'[x] = tail[x]
  <2>1. tail[w] + 1 \in Index
    <3>1. tail[w] \in Nat /\ Start <= tail[w] /\ tail[w] < MaxIndex
      BY <1>0, <1>1 DEF QueueFact
    <3> QED
      BY <3>1, IndexSucc
  <2> QED
    BY <1>1, <2>1 DEF TypeOK
<1>8. /\ hand' \in [Workers -> Seq(Tasks)]
      /\ \A x \in Workers \ {w} : hand'[x] = hand[x]
  BY <1>1 DEF TypeOK
<1>9. TypeOK' /\ OthersKept(w)
  BY <1>1, <1>2, <1>6, <1>7, <1>8 DEF TypeOK, OthersKept
<1>10. tail[w] - head[w].steal < Capacity
  BY <1>1 DEF ThreadInv, OwnerInv
<1>11. ASSUME NEW i \in Nat, head[w].steal <= i, i < tail[w], Holds(w, i)
       PROVE  Holds(w, i)'
  <2>1. Slot(i) # k
    BY <1>0, <1>10, <1>11, SlotsDiffer DEF QueueFact, k
  <2>2. slots'[w][Slot(i)] = slots[w][Slot(i)]
    BY <1>6, <2>1, SlotInRange
  <2> QED
    BY <1>11, <2>2 DEF Holds
<1>12. \A i \in Index : i \in Nat
  BY IndexRange
<1>13. PublishedFull(w)'
  <2>1. ASSUME NEW i \in Index, head[w].local <= i, i < tail[w] + 1
        PROVE  Holds(w, i)'
    <3>1. CASE i = tail[w]
      BY <1>4, <1>6, <3>1 DEF Holds, k
    <3>2. CASE i < tail[w]
      <4>1. Holds(w, i)
        BY <2>1, <3>2 DEF LiveSlotsFull, PublishedFull
      <4>2. i \in Nat /\ head[w].steal <= i
        BY <1>0, <1>12, <2>1 DEF QueueFact
      <4> QED
        BY <1>11, <3>2, <4>1, <4>2
    <3> QED
      BY <1>0, <1>12, <2>1, <3>1, <3>2 DEF QueueFact
  <2> QED
    BY <1>1, <1>7, <2>1 DEF PublishedFull
<1>14. ASSUME NEW u \in Workers, NEW i \in Index,
              pc[u] = "steal_copy", victim[u] = w,
              reg[u].steal + copied[u] <= i, i < reg[u].steal + num[u]
       PROVE  Holds(w, i)'
  <2>1. Stealing(u)
    BY <1>14 DEF Stealing
  <2>2. /\ reg[u].steal \in Nat /\ num[u] \in Nat /\ copied[u] \in Nat
        /\ reg[u].steal = head[w].steal
        /\ reg[u].steal + num[u] <= head[w].local
    BY <1>14, <2>1, ClaimInWindow
  <2>3. i \in Nat /\ head[w].steal <= i /\ i < tail[w]
    BY <1>0, <1>12, <1>14, <2>2 DEF QueueFact
  <2>4. Holds(w, i)
    BY <1>14 DEF LiveSlotsFull, ClaimedFull
  <2> QED
    BY <1>11, <2>3, <2>4
<1>15. /\ OwnerInv(w)' /\ ThiefInv(w)' /\ OwnedFull(w)' /\ FilledFull(w)'
  BY <1>2 DEF OwnerInv, ThiefInv, OwnedFull, FilledFull, Pushing, Raiding,
     Filling, Stealing
<1>16. tail'[w] >= tail[w] /\ tail'[w] - head[w].steal <= Capacity
  BY <1>0, <1>7, <1>10 DEF QueueFact
<1>17. /\ pc[w] \notin {"steal_copy", "steal_commit"}
       /\ pc'[w] \notin {"steal_copy", "steal_commit"} /\ pc'[w] # "pop_take"
  BY <1>1, <1>2
<1> QED
  BY <1>1, <1>6, <1>7, <1>9, <1>13, <1>14, <1>15, <1>16, <1>17, OwnerWrite

\* handle_overflow empties the slots it claimed and no live one.
LEMMA OverflowMoveInv ==
  ASSUME Inv, NEW w \in Workers, OverflowMove(w)
  PROVE  Inv'
<1> USE DEF Inv, IndexInv
<1> DEFINE moved == [i \in 1 .. Half |-> slots[w][Slot(reg[w].local + i - 1)]]
           freed == {Slot(reg[w].local + i - 1) : i \in 1 .. Half}
<1>0. QueueFact(w) /\ Capacity \in Nat /\ Half \in Nat /\ Half + Half <= Capacity
  BY QueueFacts, CapacityAssumption, HalfFits
<1>1. /\ UNCHANGED <<head, tail, global, closed, submitted, dropped, runs>>
      /\ pc[w] = "overflow_move" /\ Forget(w)
      /\ slots' = [slots EXCEPT ![w] =
                     [m \in DOMAIN slots[w] |->
                        IF m \in freed THEN Null ELSE slots[w][m]]]
      /\ hand' = [hand EXCEPT ![w] = moved \o hand[w]]
  BY DEF OverflowMove, poolVars
<1>2. /\ pc' \in [Workers -> PCs] /\ pc'[w] = "push_global"
      /\ \A x \in Workers \ {w} : pc'[x] = pc[x]
  BY GotoType DEF OverflowMove, PCs
<1>3. /\ tail[w] = reg[w].local + Capacity
      /\ reg[w].local + Half <= head[w].steal
      /\ Len(hand[w]) >= 1
  BY <1>1 DEF ThreadInv, OwnerInv, Pushing
<1>4. \A i \in Index : i \in Nat
  BY IndexRange
<1>5. slots \in [Workers -> [0 .. Capacity - 1 -> Tasks \cup {Null}]]
  BY DEF TypeOK
<1>6. moved \in Seq(Tasks) /\ Len(moved) = Half
  <2>1. ASSUME NEW i \in 1 .. Half PROVE moved[i] \in Tasks
    <3>1. reg[w].local + i - 1 \in Index
      <4>1. /\ reg[w].local \in Nat /\ Start \in Nat /\ Start <= reg[w].local
            /\ reg[w].local + Half <= tail[w] /\ tail[w] <= MaxIndex
            /\ tail[w] \in Nat /\ MaxIndex \in Nat /\ Half \in Nat
        BY <1>0, <1>3, IndexRange DEF QueueFact
      <4>2. /\ reg[w].local + i - 1 \in Nat
            /\ Start <= reg[w].local + i - 1
            /\ reg[w].local + i - 1 <= MaxIndex
        BY <4>1
      <4> QED
        BY <4>2, IndexRange
    <3>2. /\ reg[w].local <= reg[w].local + i - 1
          /\ reg[w].local + i - 1 < reg[w].local + Half
      BY <1>0, <2>1 DEF QueueFact
    <3>3. Holds(w, reg[w].local + i - 1)
      BY <1>1, <3>1, <3>2 DEF LiveSlotsFull, OwnedFull
    <3> QED
      BY <3>3 DEF Holds
  <2>2. moved \in [1 .. Half -> Tasks]
    BY <2>1
  <2> HIDE DEF moved
  <2> QED
    BY <1>0, <2>2
<1>7. \A m \in freed : \E j \in Nat :
         m = Slot(j) /\ reg[w].local <= j /\ j < reg[w].local + Half
  <2> SUFFICES ASSUME NEW i \in 1 .. Half
               PROVE  /\ reg[w].local + i - 1 \in Nat
                      /\ reg[w].local <= reg[w].local + i - 1
                      /\ reg[w].local + i - 1 < reg[w].local + Half
    OBVIOUS
  <2> QED
    BY <1>0 DEF QueueFact
<1> HIDE DEF moved, freed
<1>8. /\ slots' \in [Workers -> [0 .. Capacity - 1 -> Tasks \cup {Null}]]
      /\ \A x \in Workers \ {w} : slots'[x] = slots[x]
      /\ \A m \in 0 .. Capacity - 1 :
           m \notin freed => slots'[w][m] = slots[w][m]
  BY <1>1, <1>5
<1>9. /\ hand' \in [Workers -> Seq(Tasks)] /\ Len(hand'[w]) >= 1
      /\ \A x \in Workers \ {w} : hand'[x] = hand[x]
  <2>1. hand \in [Workers -> Seq(Tasks)] /\ hand[w] \in Seq(Tasks)
    BY DEF TypeOK
  <2>2. moved \o hand[w] \in Seq(Tasks) /\ Len(moved \o hand[w]) >= 1
    BY <1>0, <1>3, <1>6, <2>1
  <2> QED
    BY <1>1, <2>1, <2>2
<1>10. TypeOK' /\ OthersKept(w)
  BY <1>1, <1>2, <1>8, <1>9, ForgetType DEF TypeOK, OthersKept
<1>11. ASSUME NEW i \in Nat, head[w].steal <= i, i < tail[w], Holds(w, i)
       PROVE  Holds(w, i)'
  <2>1. Slot(i) \notin freed
    <3> SUFFICES ASSUME NEW j \in Nat, reg[w].local <= j,
                        j < reg[w].local + Half, Slot(i) = Slot(j)
                 PROVE  FALSE
      BY <1>7
    <3> DEFINE from == head[w].steal
               end == tail[w]
               old == reg[w].local
    <3>1. /\ from \in Nat /\ end \in Nat /\ old \in Nat
          /\ from <= i /\ i < end /\ old <= j /\ j < old + Half
          /\ end = old + Capacity /\ old + Half <= from
      BY <1>0, <1>3, <1>11 DEF QueueFact
    <3> HIDE DEF Inv, from, end, old
    <3>2. j < i /\ i < j + Capacity
      BY <1>0, <3>1
    <3> QED
      BY <3>2, SlotsDiffer
  <2>2. slots'[w][Slot(i)] = slots[w][Slot(i)]
    BY <1>8, <2>1, SlotInRange
  <2> QED
    BY <1>11, <2>2 DEF Holds
<1>12. PublishedFull(w)'
  <2>1. ASSUME NEW i \in Index, head[w].local <= i, i < tail[w]
        PROVE  Holds(w, i)'
    <3>1. i \in Nat /\ head[w].steal <= i
      BY <1>0, <1>4, <2>1 DEF QueueFact
    <3>2. Holds(w, i)
      BY <2>1 DEF LiveSlotsFull, PublishedFull
    <3> QED
      BY <1>11, <2>1, <3>1, <3>2
  <2> QED
    BY <1>1, <2>1 DEF PublishedFull
<1>13. ASSUME NEW u \in Workers, NEW i \in Index,
              pc[u] = "steal_copy", victim[u] = w,
              reg[u].steal + copied[u] <= i, i < reg[u].steal + num[u]
       PROVE  Holds(w, i)'
  <2>1. Stealing(u)
    BY <1>13 DEF Stealing
  <2>2. /\ reg[u].steal \in Nat /\ num[u] \in Nat /\ copied[u] \in Nat
        /\ reg[u].steal = head[w].steal
        /\ reg[u].steal + num[u] <= head[w].local
    BY <1>13, <2>1, ClaimInWindow
  <2>3. i \in Nat /\ head[w].steal <= i /\ i < tail[w]
    BY <1>0, <1>4, <1>13, <2>2 DEF QueueFact
  <2>4. Holds(w, i)
    BY <1>13 DEF LiveSlotsFull, ClaimedFull
  <2> QED
    BY <1>11, <2>3, <2>4
<1>14. OwnerInv(w)'
  BY <1>2, <1>9 DEF OwnerInv
<1>15. ThiefInv(w)' /\ OwnedFull(w)' /\ FilledFull(w)'
  BY <1>2 DEF ThiefInv, OwnedFull, FilledFull, Raiding, Filling, Stealing
<1>16. tail'[w] >= tail[w] /\ tail'[w] - head[w].steal <= Capacity
  BY <1>0, <1>1 DEF QueueFact
<1>17. /\ pc[w] \notin {"steal_copy", "steal_commit"}
       /\ pc'[w] \notin {"steal_copy", "steal_commit"} /\ pc'[w] # "pop_take"
  BY <1>1, <1>2
<1> QED
  BY <1>1, <1>8, <1>10, <1>12, <1>13, <1>14, <1>15, <1>16, <1>17, OwnerWrite

\* push_back_batch writes slots that are not live, then publishes them.
LEMMA FetchPushInv ==
  ASSUME Inv, NEW w \in Workers, FetchPush(w)
  PROVE  Inv'
<1> USE DEF Inv, IndexInv
<1> DEFINE n == Len(hand[w]) - 1
           pos(m) == CHOOSE i \in 1 .. n : Slot(tail[w] + i - 1) = m
           filled == {Slot(tail[w] + i - 1) : i \in 1 .. n}
<1>0. QueueFact(w) /\ Capacity \in Nat
  BY QueueFacts, CapacityAssumption
<1>1. /\ UNCHANGED <<head, global, closed, reg, num, copied, victim,
                     submitted, dropped>>
      /\ pc[w] = "fetch_push"
      /\ tail[w] + Len(hand[w]) - 1 <= MaxIndex
      /\ Excute(hand[w][Len(hand[w])])
      /\ slots' = [slots EXCEPT ![w] =
                     [m \in DOMAIN slots[w] |->
                        IF m \in filled THEN hand[w][pos(m)] ELSE slots[w][m]]]
      /\ tail' = [tail EXCEPT ![w] = tail[w] + n]
      /\ hand' = [hand EXCEPT ![w] = << >>]
  BY DEF FetchPush, PushBackBatch, locals
<1>2. /\ pc' \in [Workers -> PCs] /\ pc'[w] = "idle"
      /\ \A x \in Workers \ {w} : pc'[x] = pc[x]
  BY GotoType DEF FetchPush, PCs
<1>3. /\ hand[w] \in Seq(Tasks) /\ Len(hand[w]) >= 1 /\ Len(hand[w]) \in Nat
      /\ n \in Nat /\ n + tail[w] - head[w].steal <= Capacity
  <2>1. hand[w] \in Seq(Tasks) /\ Len(hand[w]) >= 1
        /\ n + tail[w] - head[w].steal <= Capacity
    BY <1>1 DEF ThreadInv, OwnerInv, Pushing, TypeOK
  <2> QED
    BY <2>1
<1>4. slots \in [Workers -> [0 .. Capacity - 1 -> Tasks \cup {Null}]]
  BY DEF TypeOK
<1>5. \A m \in filled : hand[w][pos(m)] \in Tasks
  <2> SUFFICES ASSUME NEW m \in filled PROVE hand[w][pos(m)] \in Tasks
    OBVIOUS
  <2>1. pos(m) \in 1 .. n
    BY DEF filled
  <2>2. pos(m) \in 1 .. Len(hand[w])
    BY <1>3, <2>1
  <2> HIDE DEF pos
  <2> QED
    BY <1>3, <2>2
<1>6. \A i \in Nat : tail[w] <= i /\ i < tail[w] + n => Slot(i) \in filled
  <2> SUFFICES ASSUME NEW i \in Nat, tail[w] <= i, i < tail[w] + n
               PROVE  Slot(i) \in filled
    OBVIOUS
  <2>1. tail[w] \in Nat /\ n \in Nat
    BY <1>0, <1>3 DEF QueueFact
  <2> HIDE DEF n
  <2> DEFINE j == i - tail[w] + 1
  <2>2. j \in 1 .. n /\ i = tail[w] + j - 1
    BY <2>1
  <2> HIDE DEF j
  <2> QED
    BY <2>2
<1> DEFINE val(m) == hand[w][pos(m)]
<1>7. hand[w][Len(hand[w])] \in Tasks
  BY <1>3
<1> HIDE DEF pos, filled
<1>8. /\ slots' \in [Workers -> [0 .. Capacity - 1 -> Tasks \cup {Null}]]
      /\ \A x \in Workers \ {w} : slots'[x] = slots[x]
      /\ \A m \in 0 .. Capacity - 1 :
           m \in filled => slots'[w][m] \in Tasks
      /\ \A m \in 0 .. Capacity - 1 :
           m \notin filled => slots'[w][m] = slots[w][m]
  <2>1. slots'[w] = [m \in DOMAIN slots[w] |->
                        IF m \in filled THEN val(m) ELSE slots[w][m]]
    BY <1>1, <1>4
  <2>2. \A m \in filled : val(m) \in Tasks
    BY <1>5
  <2> HIDE DEF val
  <2>3. slots'[w] \in [0 .. Capacity - 1 -> Tasks \cup {Null}]
    BY <1>4, <2>1, <2>2
  <2>4. /\ slots' \in [Workers -> [0 .. Capacity - 1 -> Tasks \cup {Null}]]
        /\ \A x \in Workers \ {w} : slots'[x] = slots[x]
    BY <1>1, <1>4, <2>3
  <2> QED
    BY <1>4, <2>1, <2>2, <2>4
<1>9. /\ tail' \in [Workers -> Index] /\ tail'[w] = tail[w] + n
      /\ \A x \in Workers \ {w} : tail'[x] = tail[x]
  <2>1. tail[w] + n \in Index
    BY <1>0, <1>1, <1>3, IndexRange, SMTT(30) DEF QueueFact
  <2> QED
    BY <1>1, <2>1 DEF TypeOK
<1>10. /\ hand' \in [Workers -> Seq(Tasks)]
       /\ \A x \in Workers \ {w} : hand'[x] = hand[x]
  BY <1>1 DEF TypeOK
<1>11. runs' \in [Tasks \cup {Null} -> Nat]
  BY <1>1, <1>7, ExcuteType
<1>12. TypeOK' /\ OthersKept(w)
  BY <1>1, <1>2, <1>8, <1>9, <1>10, <1>11 DEF TypeOK, OthersKept
<1>13. ASSUME NEW i \in Nat, Holds(w, i)
       PROVE  Holds(w, i)'
  BY <1>8, <1>13, SlotInRange DEF Holds
<1>14. \A i \in Index : i \in Nat
  BY IndexRange
<1>15. PublishedFull(w)'
  <2>1. ASSUME NEW i \in Index, head[w].local <= i, i < tail[w] + n
        PROVE  Holds(w, i)'
    <3>1. CASE tail[w] <= i
      BY <1>6, <1>8, <1>14, <2>1, <3>1, SlotInRange DEF Holds
    <3>2. CASE i < tail[w]
      <4>1. Holds(w, i)
        BY <2>1, <3>2 DEF LiveSlotsFull, PublishedFull
      <4> QED
        BY <1>13, <1>14, <4>1
    <3> QED
      BY <1>0, <1>14, <2>1, <3>1, <3>2 DEF QueueFact
  <2> QED
    BY <1>1, <1>9, <2>1 DEF PublishedFull
<1>16. ASSUME NEW u \in Workers, NEW i \in Index,
              pc[u] = "steal_copy", victim[u] = w,
              reg[u].steal + copied[u] <= i, i < reg[u].steal + num[u]
       PROVE  Holds(w, i)'
  <2>1. Holds(w, i)
    BY <1>16 DEF LiveSlotsFull, ClaimedFull
  <2> QED
    BY <1>13, <1>14, <2>1
<1>17. /\ OwnerInv(w)' /\ ThiefInv(w)' /\ OwnedFull(w)' /\ FilledFull(w)'
  BY <1>2 DEF OwnerInv, ThiefInv, OwnedFull, FilledFull, Pushing, Raiding,
     Filling, Stealing
<1>18. tail'[w] >= tail[w] /\ tail'[w] - head[w].steal <= Capacity
  BY <1>0, <1>3, <1>9 DEF QueueFact
<1>19. /\ pc[w] \notin {"steal_copy", "steal_commit"}
       /\ pc'[w] \notin {"steal_copy", "steal_commit"} /\ pc'[w] # "pop_take"
  BY <1>1, <1>2
<1> QED
  BY <1>1, <1>8, <1>9, <1>12, <1>15, <1>16, <1>17, <1>18, <1>19, OwnerWrite

\* be_stolen_by publishes the tasks it copied, all but the one it runs.
LEMMA StealFinishInv ==
  ASSUME Inv, NEW w \in Workers, StealFinish(w)
  PROVE  Inv'
<1> USE DEF Inv, IndexInv
<1> DEFINE n == num[w] - 1
           k == Slot(tail[w] + num[w] - 1)
<1>0. QueueFact(w) /\ Capacity \in Nat /\ Half \in Nat
      /\ Half + Half <= Capacity
  BY QueueFacts, CapacityAssumption, HalfFits
<1>1. /\ UNCHANGED <<head, slots, global, closed, hand, submitted, dropped>>
      /\ pc[w] = "steal_finish" /\ Forget(w)
      /\ tail[w] + num[w] - 1 <= MaxIndex
      /\ Excute(slots[w][k])
      /\ tail' = [tail EXCEPT ![w] = tail[w] + num[w] - 1]
  BY DEF StealFinish
<1>2. /\ pc' \in [Workers -> PCs] /\ pc'[w] = "idle"
      /\ \A x \in Workers \ {w} : pc'[x] = pc[x]
  BY GotoType DEF StealFinish, PCs
<1>3. /\ num[w] \in Nat /\ num[w] >= 1 /\ num[w] <= Half
      /\ copied[w] = num[w] /\ tail[w] - head[w].steal <= Half
  BY <1>1 DEF ThreadInv, ThiefInv, Raiding, Filling, TypeOK
<1>4. k \in 0 .. Capacity - 1
  <2>1. tail[w] + num[w] - 1 \in Nat
    BY <1>0, <1>3 DEF QueueFact
  <2> QED
    BY <2>1, SlotInRange
<1> HIDE DEF k
<1>5. slots[w][k] \in Tasks \cup {Null}
  <2>1. slots \in [Workers -> [0 .. Capacity - 1 -> Tasks \cup {Null}]]
    BY DEF TypeOK
  <2> QED
    BY <1>4, <2>1
<1>6. runs' \in [Tasks \cup {Null} -> Nat]
  BY <1>1, <1>5, ExcuteType
<1>7. /\ tail' \in [Workers -> Index] /\ tail'[w] = tail[w] + num[w] - 1
      /\ \A x \in Workers \ {w} : tail'[x] = tail[x]
  <2>1. /\ tail[w] + num[w] - 1 \in Nat
        /\ Start <= tail[w] + num[w] - 1
    BY <1>0, <1>3, IndexRange DEF QueueFact
  <2>2. tail[w] + num[w] - 1 \in Index
    BY <1>1, <2>1, IndexRange
  <2> QED
    BY <1>1, <2>2 DEF TypeOK
<1>8. TypeOK' /\ OthersKept(w)
  BY <1>1, <1>2, <1>6, <1>7, ForgetType DEF TypeOK, OthersKept
<1>9. \A y, i : Holds(y, i)' <=> Holds(y, i)
  BY <1>1 DEF Holds
<1>10. PublishedFull(w)'
  <2>1. ASSUME NEW i \in Index, head[w].local <= i, i < tail[w] + num[w] - 1
        PROVE  Holds(w, i)
    <3>1. i \in Nat /\ tail[w] \in Nat
      BY <1>0, IndexRange DEF QueueFact
    <3>2. CASE i < tail[w]
      BY <2>1, <3>2 DEF LiveSlotsFull, PublishedFull
    <3>3. CASE tail[w] <= i
      <4>1. i < tail[w] + copied[w]
        BY <1>3, <2>1, <3>1
      <4> QED
        BY <1>1, <3>1, <3>3, <4>1 DEF LiveSlotsFull, FilledFull, Filling
    <3> QED
      BY <3>1, <3>2, <3>3
  <2> QED
    BY <1>1, <1>7, <1>9, <2>1 DEF PublishedFull
<1>11. ASSUME NEW u \in Workers, NEW i \in Index,
              pc[u] = "steal_copy", victim[u] = w,
              reg[u].steal + copied[u] <= i, i < reg[u].steal + num[u]
       PROVE  Holds(w, i)'
  BY <1>9, <1>11 DEF LiveSlotsFull, ClaimedFull
<1>12. /\ OwnerInv(w)' /\ ThiefInv(w)' /\ OwnedFull(w)' /\ FilledFull(w)'
  BY <1>2 DEF OwnerInv, ThiefInv, OwnedFull, FilledFull, Pushing, Raiding,
     Filling, Stealing
<1>13. tail'[w] >= tail[w] /\ tail'[w] - head[w].steal <= Capacity
  BY <1>0, <1>3, <1>7 DEF QueueFact
<1>14. /\ pc[w] \notin {"steal_copy", "steal_commit"}
       /\ pc'[w] \notin {"steal_copy", "steal_commit"} /\ pc'[w] # "pop_take"
  BY <1>1, <1>2
<1> QED
  BY <1>1, <1>7, <1>8, <1>10, <1>11, <1>12, <1>13, <1>14, OwnerWrite

\* A thief's claim leaves the victim's other tasks alone.
LEMMA StealCASInv ==
  ASSUME Inv, NEW w \in Workers, StealCAS(w)
  PROVE  Inv'
<1> USE DEF Inv, IndexInv
<1> DEFINE v == victim[w]
<1>0. /\ v \in Workers /\ num[w] \in Nat
      /\ Capacity \in Nat /\ Half \in Nat /\ Half + Half <= Capacity
  BY CapacityAssumption, HalfFits DEF TypeOK
<1> HIDE DEF v
<1>1. QueueFact(w) /\ QueueFact(v)
  BY <1>0, QueueFacts
<1>2. /\ UNCHANGED <<tail, slots, global, closed, victim, hand, submitted,
                     dropped, runs>>
      /\ pc[w] = "steal_cas"
  BY DEF StealCAS, poolVars
<1>3. /\ v # w /\ tail[w] - head[w].steal <= Half
      /\ reg[w].steal = reg[w].local
      /\ num[w] >= 1 /\ reg[w].local + num[w] + num[w] <= tail[v]
  BY <1>2 DEF ThreadInv, ThiefInv, Raiding, v
<1>4. CASE ~SameHead(head[v], reg[w])
  <2>1. /\ UNCHANGED <<head, copied>> /\ Goto(w, "steal_tail")
        /\ reg' = [reg EXCEPT ![w] = head[v]]
        /\ num' = [num EXCEPT ![w] = 0]
    BY <1>4 DEF StealCAS, v
  <2>2. /\ pc' \in [Workers -> PCs] /\ pc'[w] = "steal_tail"
        /\ \A x \in Workers \ {w} : pc'[x] = pc[x]
    BY <2>1, GotoType DEF PCs
  <2>3. /\ reg' \in [Workers -> HeadWord] /\ reg'[w] = head[v]
        /\ \A x \in Workers \ {w} : reg'[x] = reg[x]
    BY <1>1, <2>1 DEF TypeOK, QueueFact
  <2>4. /\ num' \in [Workers -> Nat]
        /\ \A x \in Workers \ {w} : num'[x] = num[x]
    BY <2>1 DEF TypeOK
  <2>5. TypeOK'
    BY <1>2, <2>1, <2>2, <2>3, <2>4 DEF TypeOK
  <2>6. OthersKept(w) /\ pc[w] \notin Holding /\ pc'[w] \notin Holding
    BY <1>2, <2>1, <2>2, <2>3, <2>4 DEF OthersKept, Holding
  <2>7. OwnerInv(w)'
    BY <2>2 DEF OwnerInv, Pushing
  <2>8. ThiefInv(w)'
    BY <1>1, <1>2, <1>3, <2>1, <2>2, <2>3
       DEF ThiefInv, Raiding, Filling, Stealing, QueueFact, v
  <2> QED
    BY <1>2, <2>1, <2>5, <2>6, <2>7, <2>8, QuietStep
<1>5. CASE SameHead(head[v], reg[w])
  <2> DEFINE h == Pack(reg[w].steal, reg[w].local + num[w])
  <2>1. /\ head' = [head EXCEPT ![v] = h] /\ Goto(w, "steal_copy")
        /\ copied' = [copied EXCEPT ![w] = 0]
        /\ UNCHANGED <<reg, num>>
    BY <1>5 DEF StealCAS, v
  <2>2. head[v] = reg[w]
    BY <1>1, <1>5, SameHeadIsEqual DEF QueueFact
  <2>3. /\ head[v].steal = head[v].local
        /\ head[v].local + num[w] <= tail[v] /\ num[w] <= Half
    <3>1. num[w] + num[w] <= Capacity /\ head[v].local + num[w] <= tail[v]
      BY <1>0, <1>1, <1>3, <2>2 DEF QueueFact
    <3> QED
      BY <1>0, <1>3, <2>2, <3>1, HalfIsLargest
  <2>4. /\ h \in HeadWord /\ h.steal = head[v].steal
        /\ h.local = head[v].local + num[w]
    <3>1. reg[w].local + num[w] \in Index /\ reg[w].steal \in Index
      BY <1>0, <1>1, <2>2, <2>3, IndexRange DEF QueueFact
    <3> QED
      BY <2>2, <3>1 DEF HeadWord, Pack
  <2> HIDE DEF h
  <2>5. /\ pc' \in [Workers -> PCs] /\ pc'[w] = "steal_copy"
        /\ \A x \in Workers \ {w} : pc'[x] = pc[x]
    BY <2>1, GotoType DEF PCs
  <2>6. /\ head' \in [Workers -> HeadWord] /\ head'[v] = h
        /\ \A x \in Workers \ {v} : head'[x] = head[x]
    BY <1>0, <2>1, <2>4 DEF TypeOK
  <2>7. /\ copied' \in [Workers -> Nat] /\ copied'[w] = 0
        /\ \A x \in Workers \ {w} : copied'[x] = copied[x]
    BY <2>1 DEF TypeOK
  <2>8. TypeOK' /\ OthersKept(w)
    BY <1>2, <2>1, <2>5, <2>6, <2>7 DEF TypeOK, OthersKept
  <2>9. \A u \in Workers : Stealing(u) => victim[u] # v
    BY <1>0, <2>3, NoThief
  <2>10. /\ Stealing(w)' /\ ~Stealing(w)
         /\ \A u \in Workers \ {w} : Stealing(u)' <=> Stealing(u)
    BY <1>2, <2>5 DEF Stealing
  <2>11. IndexOrder'
    <3>1. /\ h.steal <= h.local /\ h.local <= tail[v]
          /\ tail[v] - h.steal <= Capacity
      BY <1>0, <1>1, <2>3, <2>4 DEF QueueFact
    <3> QED
      BY <1>2, <2>6, <3>1 DEF IndexOrder
  <2>12. ClaimIsExclusive'
    <3>1. ASSUME NEW y \in Workers, head'[y].steal # head'[y].local
          PROVE  \E u \in Workers : Stealing(u)' /\ victim'[u] = y
      <4>1. CASE y = v
        BY <1>2, <2>10, <4>1 DEF v
      <4>2. CASE y # v
        <5>1. PICK u \in Workers : Stealing(u) /\ victim[u] = y
          BY <2>6, <3>1, <4>2 DEF ClaimIsExclusive
        <5> QED
          BY <1>2, <2>10, <5>1
      <4> QED
        BY <4>1, <4>2
    <3>2. /\ head'[victim'[w]].steal = reg'[w].steal
          /\ reg'[w].steal + num'[w] <= head'[victim'[w]].local
          /\ \A y \in Workers \ {w} : Stealing(y)' => victim'[y] # victim'[w]
      <4>1. reg[w].steal + num[w] <= h.local
        BY <1>0, <1>1, <2>2, <2>3, <2>4 DEF QueueFact
      <4> QED
        BY <1>2, <2>1, <2>2, <2>4, <2>6, <2>9, <2>10, <4>1 DEF v
    <3>3. ASSUME NEW u \in Workers \ {w}, Stealing(u)'
          PROVE  /\ head'[victim'[u]].steal = reg'[u].steal
                 /\ reg'[u].steal + num'[u] <= head'[victim'[u]].local
                 /\ \A y \in Workers \ {u} :
                      Stealing(y)' => victim'[y] # victim'[u]
      <4>1. Stealing(u)
        BY <2>10, <3>3
      <4>2. /\ victim[u] \in Workers /\ victim[u] # v
            /\ head[victim[u]].steal = reg[u].steal
            /\ reg[u].steal + num[u] <= head[victim[u]].local
            /\ \A y \in Workers \ {u} : Stealing(y) => victim[y] # victim[u]
        BY <2>9, <4>1, ClaimInWindow
      <4> QED
        BY <1>2, <2>1, <2>6, <2>10, <4>2 DEF v
    <3> QED
      BY <3>1, <3>2, <3>3 DEF ClaimIsExclusive
  <2>13. OwnerInv(w)'
    BY <2>5 DEF OwnerInv, Pushing
  <2>14. ThiefInv(w)'
    <3>1. /\ victim'[w] # w /\ head'[w] = head[w] /\ tail'[w] = tail[w]
          /\ num'[w] = num[w]
      BY <1>2, <1>3, <2>1, <2>6 DEF v
    <3> QED
      BY <1>0, <1>3, <2>3, <2>5, <2>7, <3>1 DEF ThiefInv, Filling
  <2>15. ASSUME NEW x \in Workers \ {w} PROVE OwnerInv(x)' /\ ThiefInv(x)'
    <3>1. QueueFact(x) /\ \A y \in Workers : tail[y] \in Nat
      BY QueueFacts DEF QueueFact
    <3>2. head'[x].steal >= head[x].steal /\ head'[x].local >= head[x].local
      BY <1>0, <2>4, <2>6, <3>1 DEF QueueFact
    <3> QED
      BY <1>2, <2>8, <3>1, <3>2, OthersInv DEF QueueFact
  <2>16. ThreadInv'
    BY <2>13, <2>14, <2>15 DEF ThreadInv
  <2>17. PopApart'
    <3>1. ASSUME NEW x \in Workers, NEW u \in Workers,
                 pc'[x] = "pop_take", Stealing(u)', victim'[u] = x
          PROVE  \/ reg'[u].steal + num'[u] <= reg'[x].local
                 \/ reg'[x].local < reg'[u].steal
      <4>0. x # w /\ pc[x] = "pop_take"
        BY <2>5, <3>1
      <4>1. CASE u = w
        <5>1. x = v
          BY <1>2, <3>1, <4>1 DEF v
        <5>2. reg[x].local < head[x].local
          BY <4>0 DEF ThreadInv, OwnerInv
        <5> QED
          BY <2>1, <2>2, <2>3, <4>1, <5>1, <5>2
      <4>2. CASE u # w
        BY <1>2, <2>1, <2>10, <3>1, <4>0, <4>2 DEF PopApart
      <4> QED
        BY <4>1, <4>2
    <3> QED
      BY <3>1 DEF PopApart
  <2>18. \A y, i : Holds(y, i)' <=> Holds(y, i)
    BY <1>2 DEF Holds
  <2>19. ASSUME NEW x \in Workers \ {w} PROVE Full(x)'
    <3>1. QueueFact(x)
      BY QueueFacts
    <3>2. head'[x].local >= head[x].local
      BY <1>0, <2>4, <2>6, <3>1 DEF QueueFact
    <3> QED
      BY <1>2, <2>8, <3>2, OthersFull
  <2>20. PublishedFull(w)' /\ OwnedFull(w)'
    <3>1. PublishedFull(w)
      BY DEF LiveSlotsFull
    <3>2. head'[w] = head[w]
      BY <1>3, <2>6
    <3> QED
      BY <1>2, <2>5, <2>18, <3>1, <3>2 DEF PublishedFull, OwnedFull
  <2>21. FilledFull(w)'
    <3>1. tail[w] \in Nat
      BY <1>1 DEF QueueFact
    <3> QED
      BY <1>2, <2>7, <3>1 DEF FilledFull
  <2>22. ClaimedFull(w)'
    <3>1. ASSUME NEW i \in Index, reg[w].steal + 0 <= i,
                 i < reg[w].steal + num[w]
          PROVE  Holds(v, i)
      <4>1. head[v].local <= i /\ i < tail[v]
        BY <1>0, <1>1, <2>2, <2>3, <3>1, IndexRange DEF QueueFact
      <4> QED
        BY <1>0, <4>1 DEF LiveSlotsFull, PublishedFull
    <3> QED
      BY <1>2, <2>1, <2>7, <2>18, <3>1 DEF ClaimedFull, v
  <2>23. LiveSlotsFull'
    BY <2>19, <2>20, <2>21, <2>22 DEF LiveSlotsFull, Full
  <2> QED
    BY <2>8, <2>11, <2>12, <2>16, <2>17, <2>23
<1> QED
  BY <1>4, <1>5

\* The release of a claim ends it and gives the slots back.
LEMMA StealCommitInv ==
  ASSUME Inv, NEW w \in Workers, StealCommit(w)
  PROVE  Inv'
<1> USE DEF Inv, IndexInv
<1> DEFINE v == victim[w]
           h == Pack(head[v].local, head[v].local)
<1>1. /\ UNCHANGED <<tail, slots, global, closed, reg, num, copied, victim,
                     hand, submitted, dropped, runs>>
      /\ pc[w] = "steal_commit" /\ head' = [head EXCEPT ![v] = h]
  BY DEF StealCommit, locals, poolVars
<1>2. Stealing(w)
  BY <1>1 DEF Stealing
<1>3. /\ v \in Workers /\ QueueFact(v) /\ v # w
      /\ \A y \in Workers \ {w} : Stealing(y) => victim[y] # v
  BY <1>2, ClaimInWindow
<1> HIDE DEF v
<1>4. h \in HeadWord /\ h.steal = head[v].local /\ h.local = head[v].local
  BY <1>3 DEF QueueFact, HeadWord, Pack
<1> HIDE DEF h
<1>5. /\ pc' \in [Workers -> PCs] /\ pc'[w] = "steal_finish"
      /\ \A x \in Workers \ {w} : pc'[x] = pc[x]
  BY GotoType DEF StealCommit, PCs
<1>6. /\ head' \in [Workers -> HeadWord] /\ head'[v] = h
      /\ \A x \in Workers \ {v} : head'[x] = head[x]
  BY <1>1, <1>3, <1>4 DEF TypeOK
<1>7. TypeOK' /\ OthersKept(w)
  BY <1>1, <1>5, <1>6 DEF TypeOK, OthersKept
<1>8. /\ ~Stealing(w)'
      /\ \A u \in Workers \ {w} : Stealing(u)' <=> Stealing(u)
  BY <1>5 DEF Stealing
<1>9. IndexOrder'
  <2>1. /\ h.steal <= h.local /\ h.local <= tail[v]
        /\ tail[v] - h.steal <= Capacity
    BY <1>3, <1>4, CapacityAssumption DEF QueueFact
  <2> QED
    BY <1>1, <1>6, <2>1 DEF IndexOrder
<1>10. ClaimIsExclusive'
  <2>1. ASSUME NEW y \in Workers, head'[y].steal # head'[y].local
        PROVE  \E u \in Workers : Stealing(u)' /\ victim'[u] = y
    <3>1. y # v /\ head[y].steal # head[y].local
      BY <1>4, <1>6, <2>1
    <3>2. PICK u \in Workers : Stealing(u) /\ victim[u] = y
      BY <3>1 DEF ClaimIsExclusive
    <3> QED
      BY <1>1, <1>8, <3>1, <3>2 DEF v
  <2>2. ASSUME NEW u \in Workers, Stealing(u)'
        PROVE  /\ head'[victim'[u]].steal = reg'[u].steal
               /\ reg'[u].steal + num'[u] <= head'[victim'[u]].local
               /\ \A y \in Workers \ {u} :
                    Stealing(y)' => victim'[y] # victim'[u]
    <3>1. u # w /\ Stealing(u) /\ victim[u] # v
      BY <1>3, <1>8, <2>2
    <3>2. /\ victim[u] \in Workers
          /\ head[victim[u]].steal = reg[u].steal
          /\ reg[u].steal + num[u] <= head[victim[u]].local
          /\ \A y \in Workers \ {u} : Stealing(y) => victim[y] # victim[u]
      BY <3>1, ClaimInWindow
    <3> QED
      BY <1>1, <1>6, <1>8, <3>1, <3>2
  <2> QED
    BY <2>1, <2>2 DEF ClaimIsExclusive
<1>11. OwnerInv(w)'
  BY <1>5 DEF OwnerInv, Pushing
<1>12. ThiefInv(w)'
  <2>1. ThiefInv(w)
    BY DEF ThreadInv
  <2>2. head'[w] = head[w]
    BY <1>3, <1>6
  <2> QED
    BY <1>1, <1>5, <2>1, <2>2 DEF ThiefInv, Raiding, Filling, Stealing
<1>13. ASSUME NEW x \in Workers \ {w} PROVE OwnerInv(x)' /\ ThiefInv(x)'
  <2>1. QueueFact(x) /\ \A y \in Workers : tail[y] \in Nat
    BY QueueFacts DEF QueueFact
  <2>2. head'[x].steal >= head[x].steal /\ head'[x].local >= head[x].local
    BY <1>4, <1>6, <2>1 DEF QueueFact
  <2> QED
    BY <1>1, <1>7, <2>1, <2>2, OthersInv DEF QueueFact
<1>14. ThreadInv'
  BY <1>11, <1>12, <1>13 DEF ThreadInv
<1>15. PopApart'
  <2>1. \A x \in Workers : pc'[x] = "pop_take" => pc[x] = "pop_take"
    BY <1>5
  <2> QED
    BY <1>1, <1>8, <2>1 DEF PopApart
<1>16. \A y, i : Holds(y, i)' <=> Holds(y, i)
  BY <1>1 DEF Holds
<1>17. ASSUME NEW x \in Workers \ {w} PROVE Full(x)'
  <2>1. QueueFact(x)
    BY QueueFacts
  <2>2. head'[x].local >= head[x].local
    BY <1>4, <1>6, <2>1 DEF QueueFact
  <2> QED
    BY <1>1, <1>7, <2>2, OthersFull
<1>18. Full(w)'
  <2>1. Full(w)
    BY DEF LiveSlotsFull, Full
  <2>2. head'[w] = head[w]
    BY <1>3, <1>6
  <2>3. PublishedFull(w)' /\ OwnedFull(w)' /\ ClaimedFull(w)'
    BY <1>1, <1>5, <1>16, <2>1, <2>2
       DEF Full, PublishedFull, OwnedFull, ClaimedFull
  <2>4. FilledFull(w)'
    BY <1>1, <1>16, <2>1 DEF Full, FilledFull, Filling, Stealing
  <2> QED
    BY <2>3, <2>4 DEF Full
<1>19. LiveSlotsFull'
  BY <1>17, <1>18 DEF LiveSlotsFull, Full
<1> QED
  BY <1>7, <1>9, <1>10, <1>14, <1>15, <1>19

\* The copy loop fills a slot of the thief that is not live.
LEMMA StealCopyInv ==
  ASSUME Inv, NEW w \in Workers, StealCopy(w)
  PROVE  Inv'
<1> USE DEF Inv, IndexInv
<1> DEFINE v == victim[w]
           k == Slot(tail[w] + copied[w])
           t == slots[v][Slot(reg[w].steal + copied[w])]
           l == IF copied[w] + 1 = num[w] THEN "steal_commit" ELSE "steal_copy"
<1>0. /\ QueueFact(w) /\ Capacity \in Nat /\ Half \in Nat
      /\ Half + Half <= Capacity
  BY QueueFacts, CapacityAssumption, HalfFits
<1>1. /\ UNCHANGED <<head, tail, global, closed, reg, num, victim, hand,
                     submitted, dropped, runs>>
      /\ pc[w] = "steal_copy" /\ Goto(w, l)
      /\ slots' = [slots EXCEPT ![w][k] = t]
      /\ copied' = [copied EXCEPT ![w] = copied[w] + 1]
  BY DEF StealCopy, poolVars
<1>2. Stealing(w)
  BY <1>1 DEF Stealing
<1>3. /\ v \in Workers /\ v # w /\ QueueFact(v)
      /\ reg[w].steal \in Nat /\ num[w] \in Nat /\ copied[w] \in Nat
      /\ reg[w].steal = head[v].steal
      /\ reg[w].steal + num[w] <= head[v].local
      /\ \A y \in Workers \ {w} : Stealing(y) => victim[y] # v
  BY <1>2, ClaimInWindow
<1>4. /\ num[w] >= 1 /\ num[w] <= Half /\ copied[w] < num[w]
      /\ tail[w] - head[w].steal <= Half
  BY <1>1 DEF ThreadInv, ThiefInv, Raiding, Filling, Stealing
<1>5. k \in 0 .. Capacity - 1
  BY <1>0, <1>3, SlotInRange DEF QueueFact
<1>6. t \in Tasks
  <2>1. reg[w].steal + copied[w] \in Index
    BY <1>0, <1>3, <1>4, IndexRange DEF QueueFact
  <2>2. reg[w].steal + copied[w] < reg[w].steal + num[w]
        /\ reg[w].steal + copied[w] <= reg[w].steal + copied[w]
    BY <1>3, <1>4
  <2>3. Holds(v, reg[w].steal + copied[w])
    BY <1>1, <2>1, <2>2 DEF LiveSlotsFull, ClaimedFull
  <2> QED
    BY <2>3 DEF Holds
<1>7. /\ pc' \in [Workers -> PCs] /\ pc'[w] = l
      /\ \A x \in Workers \ {w} : pc'[x] = pc[x]
  <2>1. l \in PCs
    BY DEF PCs
  <2> HIDE DEF l
  <2> QED
    BY <1>1, <2>1, GotoType
<1>8. slots \in [Workers -> [0 .. Capacity - 1 -> Tasks \cup {Null}]]
  BY DEF TypeOK
<1> HIDE DEF v, k, t
<1>9. /\ slots' \in [Workers -> [0 .. Capacity - 1 -> Tasks \cup {Null}]]
      /\ slots'[w][k] = t
      /\ \A x \in Workers \ {w} : slots'[x] = slots[x]
      /\ \A m \in 0 .. Capacity - 1 : m # k => slots'[w][m] = slots[w][m]
  BY <1>1, <1>5, <1>6, <1>8
<1>10. /\ copied' \in [Workers -> Nat] /\ copied'[w] = copied[w] + 1
       /\ \A x \in Workers \ {w} : copied'[x] = copied[x]
  BY <1>1, <1>3 DEF TypeOK
<1>11. TypeOK' /\ OthersKept(w)
  BY <1>1, <1>7, <1>9, <1>10 DEF TypeOK, OthersKept
<1>12. \A u \in Workers : Stealing(u)' <=> Stealing(u)
  BY <1>1, <1>7 DEF Stealing
<1>13. IndexOrder'
  BY <1>1 DEF IndexOrder
<1>14. ClaimIsExclusive'
  BY <1>1, <1>12 DEF ClaimIsExclusive
<1>15. OwnerInv(w)'
  BY <1>7 DEF OwnerInv, Pushing
<1>16. ThiefInv(w)'
  <2>1. CASE copied[w] + 1 = num[w]
    BY <1>1, <1>3, <1>4, <1>7, <1>10, <2>1 DEF ThiefInv, Filling, v
  <2>2. CASE copied[w] + 1 # num[w]
    BY <1>1, <1>3, <1>4, <1>7, <1>10, <2>2 DEF ThiefInv, Filling, v
  <2> QED
    BY <2>1, <2>2
<1>17. ASSUME NEW x \in Workers \ {w} PROVE OwnerInv(x)' /\ ThiefInv(x)'
  <2>1. QueueFact(x) /\ \A y \in Workers : tail[y] \in Nat
    BY QueueFacts DEF QueueFact
  <2> QED
    BY <1>1, <1>11, <2>1, OthersInv DEF QueueFact
<1>18. ThreadInv'
  BY <1>15, <1>16, <1>17 DEF ThreadInv
<1>19. PopApart'
  <2>1. \A x \in Workers : pc'[x] = "pop_take" => pc[x] = "pop_take"
    BY <1>7
  <2> QED
    BY <1>1, <1>12, <2>1 DEF PopApart
<1>20. ASSUME NEW i \in Nat, head[w].steal <= i, i < tail[w] + copied[w],
              Holds(w, i)
       PROVE  Holds(w, i)'
  <2>1. i < tail[w] + copied[w] /\ tail[w] + copied[w] < i + Capacity
        /\ tail[w] + copied[w] \in Nat
    BY <1>0, <1>3, <1>4, <1>20 DEF QueueFact
  <2>2. Slot(i) # k
    BY <2>1, SlotsDiffer DEF k
  <2>3. slots'[w][Slot(i)] = slots[w][Slot(i)]
    BY <1>9, <2>2, SlotInRange
  <2> QED
    BY <1>20, <2>3 DEF Holds
<1>21. \A y \in Workers \ {w}, i \in Nat : Holds(y, i)' <=> Holds(y, i)
  BY <1>9 DEF Holds
<1>22. Full(w)'
  <2>1. PublishedFull(w)'
    <3>1. ASSUME NEW i \in Index, head[w].local <= i, i < tail[w]
          PROVE  Holds(w, i)'
      <4>1. Holds(w, i)
        BY <3>1 DEF LiveSlotsFull, PublishedFull
      <4>2. i \in Nat /\ head[w].steal <= i /\ i < tail[w] + copied[w]
        BY <1>0, <1>3, <3>1, IndexRange DEF QueueFact
      <4> QED
        BY <1>20, <4>1, <4>2
    <3> QED
      BY <1>1, <3>1 DEF PublishedFull
  <2>2. OwnedFull(w)'
    BY <1>7 DEF OwnedFull
  <2>3. FilledFull(w)'
    <3>1. ASSUME NEW i \in Nat, tail[w] <= i, i < tail[w] + (copied[w] + 1)
          PROVE  Holds(w, i)'
      <4>1. CASE i = tail[w] + copied[w]
        BY <1>6, <1>9, <4>1 DEF Holds, k
      <4>2. CASE i < tail[w] + copied[w]
        <5>1. Holds(w, i)
          BY <1>2, <3>1, <4>2 DEF LiveSlotsFull, FilledFull, Filling
        <5>2. head[w].steal <= i
          BY <1>0, <3>1 DEF QueueFact
        <5> QED
          BY <1>20, <4>2, <5>1, <5>2
      <4> QED
        BY <1>0, <1>3, <3>1, <4>1, <4>2 DEF QueueFact
    <3> QED
      BY <1>1, <1>10, <3>1 DEF FilledFull
  <2>4. ClaimedFull(w)'
    <3>1. ASSUME NEW i \in Index, reg[w].steal + (copied[w] + 1) <= i,
                 i < reg[w].steal + num[w]
          PROVE  Holds(v, i)'
      <4>1. i \in Nat /\ reg[w].steal + copied[w] <= i
        BY <1>3, <3>1, IndexRange
      <4>2. Holds(v, i)
        BY <1>1, <3>1, <4>1 DEF LiveSlotsFull, ClaimedFull, v
      <4>3. v' = v
        BY <1>1 DEF v
      <4>4. slots'[v] = slots[v]
        BY <1>3, <1>9
      <4> QED
        BY <4>2, <4>3, <4>4 DEF Holds
    <3> QED
      BY <1>1, <1>10, <3>1 DEF ClaimedFull, v
  <2> QED
    BY <2>1, <2>2, <2>3, <2>4 DEF Full
<1>23. ASSUME NEW x \in Workers \ {w} PROVE Full(x)'
  <2>1. Full(x)
    BY DEF LiveSlotsFull, Full
  <2>2. \A i \in Index : i \in Nat
    BY IndexRange
  <2>3. reg[x].local \in Nat /\ victim[x] \in Workers
    <3>1. QueueFact(x)
      BY QueueFacts
    <3> QED
      BY <3>1 DEF QueueFact, TypeOK
  <2>4. PublishedFull(x)' /\ OwnedFull(x)' /\ FilledFull(x)'
    BY <1>1, <1>7, <1>10, <1>21, <2>1, <2>2, <2>3
       DEF Full, PublishedFull, OwnedFull, FilledFull, Filling, Stealing
  <2>5. ClaimedFull(x)'
    <3>1. CASE victim[x] = w
      <4>1. ASSUME NEW i \in Index, pc[x] = "steal_copy",
                   reg[x].steal + copied[x] <= i, i < reg[x].steal + num[x]
            PROVE  Holds(w, i)'
        <5>1. Stealing(x)
          BY <4>1 DEF Stealing
        <5>2. /\ reg[x].steal \in Nat /\ num[x] \in Nat /\ copied[x] \in Nat
              /\ reg[x].steal = head[w].steal
              /\ reg[x].steal + num[x] <= head[w].local
          BY <3>1, <5>1, ClaimInWindow
        <5>3. i \in Nat /\ head[w].steal <= i /\ i < tail[w] + copied[w]
          BY <1>0, <1>3, <2>2, <4>1, <5>2 DEF QueueFact
        <5>4. Holds(w, i)
          BY <2>1, <3>1, <4>1 DEF Full, ClaimedFull
        <5> QED
          BY <1>20, <5>3, <5>4
      <4> QED
        BY <1>1, <1>7, <1>10, <3>1, <4>1 DEF ClaimedFull
    <3>2. CASE victim[x] # w
      BY <1>1, <1>7, <1>10, <1>21, <2>1, <2>2, <2>3, <3>2
         DEF Full, ClaimedFull
    <3> QED
      BY <3>1, <3>2
  <2> QED
    BY <2>4, <2>5 DEF Full
<1>24. LiveSlotsFull'
  BY <1>22, <1>23 DEF LiveSlotsFull, Full
<1> QED
  BY <1>11, <1>13, <1>14, <1>18, <1>19, <1>24

-----------------------------------------------------------------------------
(* The invariant and its consequences.                                     *)

\* Empty queues satisfy the invariant.
LEMMA InitInv == Init => Inv
<1> SUFFICES ASSUME Init PROVE Inv
  OBVIOUS
<1>1. Pack(Start, Start) \in HeadWord /\ Start \in Index /\ Start \in Nat
  BY IndexRange, IndexAssumption DEF HeadWord, Pack, Index, MaxIndex
<1>2. TypeOK
  <2>1. /\ head \in [Workers -> HeadWord] /\ reg \in [Workers -> HeadWord]
        /\ tail \in [Workers -> Index]
    BY <1>1 DEF Init
  <2>2. slots \in [Workers -> [0 .. Capacity - 1 -> Tasks \cup {Null}]]
    BY DEF Init
  <2>3. global \in Seq(Tasks) /\ hand \in [Workers -> Seq(Tasks)]
    BY DEF Init
  <2>4. pc \in [Workers -> PCs]
    BY DEF Init, PCs
  <2>5. /\ num \in [Workers -> Nat] /\ copied \in [Workers -> Nat]
        /\ victim \in [Workers -> Workers]
        /\ runs \in [Tasks \cup {Null} -> Nat]
    BY DEF Init
  <2> QED
    BY <2>1, <2>2, <2>3, <2>4, <2>5 DEF Init, TypeOK
<1>3. \A w \in Workers : pc[w] = "idle" /\ ~Stealing(w) /\ ~Filling(w)
        /\ head[w].steal = Start /\ head[w].local = Start /\ tail[w] = Start
  BY DEF Init, Stealing, Filling, Pack
<1>4. IndexOrder
  BY <1>1, <1>3, CapacityAssumption DEF IndexOrder
<1>5. ClaimIsExclusive
  BY <1>3 DEF ClaimIsExclusive
<1>6. ThreadInv
  BY <1>3 DEF ThreadInv, OwnerInv, ThiefInv, Pushing, Raiding
<1>7. PopApart
  BY <1>3 DEF PopApart
<1>8. LiveSlotsFull
  BY <1>1, <1>3, IndexRange DEF LiveSlotsFull, PublishedFull, OwnedFull, FilledFull,
     ClaimedFull
<1> QED
  BY <1>2, <1>4, <1>5, <1>6, <1>7, <1>8 DEF Inv, IndexInv

\* So does a state in which nothing has changed.
LEMMA StutterInv == Inv /\ UNCHANGED vars => Inv'
<1> SUFFICES ASSUME Inv, UNCHANGED vars PROVE Inv'
  OBVIOUS
<1> USE DEF Inv, IndexInv, vars
<1>1. TypeOK'
  BY DEF TypeOK
<1>2. IndexInv'
  BY DEF IndexOrder, ClaimIsExclusive, ThreadInv, PopApart, Stealing,
     OwnerInv, ThiefInv, Pushing, Raiding, Filling
<1>3. LiveSlotsFull'
  BY DEF LiveSlotsFull, PublishedFull, OwnedFull, FilledFull,
     ClaimedFull, Holds, Filling, Stealing
<1> QED
  BY <1>1, <1>2, <1>3

\* Every step preserves the invariant.
LEMMA NextInv == Inv /\ [Next]_vars => Inv'
<1> SUFFICES ASSUME Inv, [Next]_vars PROVE Inv'
  OBVIOUS
<1>1. ASSUME NEW w \in Workers, WorkerStep(w) PROVE Inv'
  BY <1>1, PushLoadInv, PushWriteInv, PushGlobalInv, OverflowCASInv,
     OverflowMoveInv, PopCASInv, PopTakeInv, FetchPopInv, FetchPushInv,
     StealTailInv, StealCASInv, StealCopyInv, StealCommitInv, StealFinishInv
     DEF WorkerStep
<1>2. ASSUME NEW w \in Workers, WorkerCall(w) PROVE Inv'
  BY <1>2, PushBackInv, TryPopInv, GlobalTryPopInv, FetchSizeInv,
     BeStolenByInv DEF WorkerCall
<1>3. ASSUME NEW t \in Tasks, GlobalPushBack(t) PROVE Inv'
  BY <1>3, GlobalPushBackInv
<1>4. CASE Close
  BY <1>4, CloseInv
<1>5. CASE UNCHANGED vars
  BY <1>5, StutterInv
<1> QED
  BY <1>1, <1>2, <1>3, <1>4, <1>5 DEF Next

\* The inductive invariant holds throughout every behaviour of the queues.
THEOREM InvAlways == Spec => []Inv
BY InitInv, NextInv, PTL DEF Spec

\* Types, and with them: no operation ever holds a null handle in its locals.
THEOREM TypeCorrect == Spec => []TypeOK
<1>1. Inv => TypeOK
  BY DEF Inv
<1> QED
  BY <1>1, InvAlways, PTL

\* No queue ever holds more than its capacity, tasks in a thief's hands
\* included, and its indices never pass each other.
THEOREM IndexOrderAlways == Spec => []IndexOrder
<1>1. Inv => IndexOrder
  BY DEF Inv, IndexInv
<1> QED
  BY <1>1, InvAlways, PTL

\* At most one thief is inside a queue, and its claim is never moved under it.
THEOREM ClaimIsExclusiveAlways == Spec => []ClaimIsExclusive
<1>1. Inv => ClaimIsExclusive
  BY DEF Inv, IndexInv
<1> QED
  BY <1>1, InvAlways, PTL
-----------------------------------------------------------------------------
(* The slots of live tasks.                                                *)

\* The indices a queue's live tasks can have: a capacity's worth at most.
Low(w) == IF pc[w] \in {"pop_take", "overflow_move"}
            THEN tail[w] - Capacity ELSE head[w].steal
High(w) == IF Filling(w) THEN tail[w] + copied[w] ELSE tail[w]

\* Every live index lies between Low and High, whoever holds its task.
LEMMA LiveInWindow ==
  ASSUME Inv, NEW w \in Workers, NEW i \in Live(w)
  PROVE  i \in Nat /\ Low(w) <= i /\ i < High(w)
<1> USE DEF Inv, IndexInv
<1>1. /\ QueueFact(w) /\ OwnerInv(w) /\ ThiefInv(w)
      /\ num[w] \in Nat /\ copied[w] \in Nat /\ Half \in Nat
      /\ Capacity \in Nat /\ Half + Half <= Capacity
  BY QueueFacts, HalfFits, CapacityAssumption DEF ThreadInv, TypeOK
<1>2. tail[w] - Capacity <= Low(w) /\ Low(w) <= head[w].steal
      /\ tail[w] <= High(w) /\ Low(w) \in Int /\ High(w) \in Int
  BY <1>1 DEF Low, High, QueueFact
<1>3. CASE i \in head[w].local .. tail[w] - 1
  BY <1>1, <1>2, <1>3 DEF QueueFact
<1>4. CASE i = reg[w].local /\ pc[w] = "pop_take"
  BY <1>1, <1>2, <1>4 DEF QueueFact, OwnerInv, Low
<1>5. CASE i \in reg[w].local .. reg[w].local + Half - 1
           /\ pc[w] = "overflow_move"
  <2>1. /\ tail[w] = reg[w].local + Capacity /\ reg[w].local \in Nat
        /\ Low(w) = reg[w].local
    BY <1>1, <1>5 DEF QueueFact, OwnerInv, Low
  <2>2. i \in Nat /\ reg[w].local <= i /\ i < reg[w].local + Half
    BY <1>1, <1>5, <2>1
  <2>3. Half <= Capacity
    BY <1>1
  <2> QED
    BY <1>1, <1>2, <2>1, <2>2, <2>3 DEF QueueFact
<1>6. CASE i \in tail[w] .. tail[w] + copied[w] - 1 /\ Filling(w)
  BY <1>1, <1>2, <1>6 DEF QueueFact, High
<1>7. ASSUME NEW u \in Workers, pc[u] = "steal_copy", victim[u] = w,
             i \in reg[u].steal + copied[u] .. reg[u].steal + num[u] - 1
      PROVE  i \in Nat /\ Low(w) <= i /\ i < High(w)
  <2>1. /\ reg[u].steal \in Nat /\ num[u] \in Nat /\ copied[u] \in Nat
        /\ reg[u].steal = head[w].steal
        /\ reg[u].steal + num[u] <= head[w].local
    BY <1>7, ClaimInWindow DEF Stealing
  <2> QED
    BY <1>1, <1>2, <1>7, <2>1 DEF QueueFact
<1> QED
  BY <1>3, <1>4, <1>5, <1>6, <1>7 DEF Live

\* Between Low and what the thread is about to write there are fewer than
\* Capacity indices, and it writes at High or above.
LEMMA WindowFits ==
  ASSUME Inv, NEW w \in Workers
  PROVE  /\ Low(w) \in Int /\ High(w) \in Nat /\ Capacity \in Nat
         /\ High(w) <= Low(w) + Capacity
         /\ \A m \in WriteSlots(w) : \E k \in Nat :
              m = Slot(k) /\ High(w) <= k /\ k < Low(w) + Capacity
<1> USE DEF Inv, IndexInv
<1>1. /\ QueueFact(w) /\ OwnerInv(w) /\ ThiefInv(w)
      /\ num[w] \in Nat /\ copied[w] \in Nat /\ Half \in Nat
      /\ Capacity \in Nat /\ Half + Half <= Capacity /\ Len(hand[w]) \in Nat
  BY QueueFacts, HalfFits, CapacityAssumption, LenProperties
  DEF ThreadInv, TypeOK
<1>2. Low(w) \in Int /\ High(w) \in Nat
  BY <1>1, SMTT(30) DEF Low, High, QueueFact
<1>3. High(w) <= Low(w) + Capacity
  <2>1. CASE Filling(w)
    <3>1. /\ Low(w) = head[w].steal /\ High(w) = tail[w] + copied[w]
          /\ copied[w] <= num[w] /\ num[w] <= Half
          /\ tail[w] - head[w].steal <= Half
      BY <1>1, <2>1 DEF Low, High, Filling, Stealing, ThiefInv, Raiding
    <3> QED
      BY <1>1, <3>1, SMTT(30) DEF QueueFact
  <2>2. CASE ~Filling(w)
    BY <1>1, <2>2, SMTT(30) DEF Low, High, QueueFact
  <2> QED
    BY <2>1, <2>2
<1>4. ASSUME NEW m \in WriteSlots(w)
      PROVE  \E k \in Nat :
               m = Slot(k) /\ High(w) <= k /\ k < Low(w) + Capacity
  <2>1. CASE pc[w] = "push_write"
    <3>1. m = Slot(tail[w])
      BY <1>4, <2>1 DEF WriteSlots
    <3>2. /\ tail[w] \in Nat /\ High(w) = tail[w] /\ Low(w) = head[w].steal
          /\ tail[w] < Low(w) + Capacity
      BY <1>1, <2>1 DEF QueueFact, OwnerInv, High, Low, Filling, Stealing
    <3> QED
      BY <3>1, <3>2
  <2>2. CASE pc[w] = "fetch_push"
    <3>1. PICK k \in tail[w] .. tail[w] + Len(hand[w]) - 2 : m = Slot(k)
      BY <1>4, <2>2 DEF WriteSlots
    <3>2. /\ tail[w] \in Nat /\ High(w) = tail[w] /\ Low(w) = head[w].steal
          /\ Len(hand[w]) - 1 + tail[w] - head[w].steal <= Capacity
          /\ head[w].steal \in Nat
      BY <1>1, <2>2 DEF QueueFact, OwnerInv, High, Low, Filling, Stealing
    <3>3. Len(hand[w]) \in Nat /\ Capacity \in Nat
      BY <1>1
    <3>4. k \in Int /\ tail[w] <= k /\ k <= tail[w] + Len(hand[w]) - 2
      BY <3>2, <3>3
    <3>5. k \in Nat /\ High(w) <= k /\ k < Low(w) + Capacity
      BY <3>2, <3>3, <3>4, SMTT(30)
    <3> QED
      BY <3>1, <3>5
  <2>3. CASE pc[w] = "steal_copy"
    <3>1. m = Slot(tail[w] + copied[w])
      BY <1>4, <2>3 DEF WriteSlots
    <3>2. /\ High(w) = tail[w] + copied[w] /\ Low(w) = head[w].steal
          /\ copied[w] < num[w] /\ num[w] <= Half
          /\ tail[w] - head[w].steal <= Half
          /\ tail[w] \in Nat /\ head[w].steal \in Nat
      BY <1>1, <2>3
      DEF QueueFact, ThiefInv, Raiding, High, Low, Filling, Stealing
    <3>3. tail[w] + copied[w] \in Nat /\ High(w) <= tail[w] + copied[w]
          /\ tail[w] + copied[w] < Low(w) + Capacity
      BY <1>1, <3>2, SMTT(30)
    <3> QED
      BY <3>1, <3>3
  <2> QED
    BY <1>4, <2>1, <2>2, <2>3 DEF WriteSlots
<1> QED
  BY <1>1, <1>2, <1>3, <1>4

\* The invariant says that no slot is used for two live tasks, and that no
\* thread writes a live slot.
LEMMA NoClash ==
  ASSUME Inv
  PROVE  SlotsNeverClash
<1>1. ASSUME NEW w \in Workers, NEW i \in Live(w), NEW j \in Live(w), i < j
      PROVE  Slot(i) # Slot(j)
  <2>1. /\ i \in Nat /\ j \in Nat /\ Low(w) <= i /\ j < High(w)
    BY <1>1, LiveInWindow
  <2>2. /\ Low(w) \in Int /\ High(w) \in Nat /\ Capacity \in Nat
        /\ High(w) <= Low(w) + Capacity
    BY WindowFits
  <2>3. j < i + Capacity
    BY <2>1, <2>2
  <2> QED
    BY <1>1, <2>1, <2>3, SlotsDiffer
<1>2. ASSUME NEW w \in Workers, NEW i \in Live(w), NEW m \in WriteSlots(w)
      PROVE  Slot(i) # m
  <2>1. i \in Nat /\ Low(w) <= i /\ i < High(w)
    BY LiveInWindow
  <2>2. Low(w) \in Int /\ High(w) \in Nat /\ Capacity \in Nat
    BY WindowFits
  <2>3. PICK k \in Nat :
          m = Slot(k) /\ High(w) <= k /\ k < Low(w) + Capacity
    BY WindowFits
  <2>4. i < k /\ k < i + Capacity
    BY <2>1, <2>2, <2>3
  <2> QED
    BY <2>1, <2>3, <2>4, SlotsDiffer
<1>3. ASSUME NEW w \in Workers, NEW i \in Live(w), NEW j \in Live(w), i # j
      PROVE  Slot(i) # Slot(j)
  <2>1. i \in Nat /\ j \in Nat
    BY LiveInWindow
  <2>2. i < j \/ j < i
    BY <1>3, <2>1
  <2> QED
    BY <1>1, <2>2
<1> QED
  BY <1>2, <1>3 DEF SlotsNeverClash

\* No slot is used for two live tasks, and no thread writes a live slot: the
\* plain memory of the arrays needs no lock.
THEOREM SlotsNeverClashAlways == Spec => []SlotsNeverClash
  BY NoClash, InvAlways, PTL
-----------------------------------------------------------------------------
(* The places of a task.                                                   *)

\* The live indices of w's array that depend on w's own thread, and those a
\* thief has claimed.
Mine(w) ==
  (head[w].local .. tail[w] - 1)
  \cup {i \in {reg[w].local} : pc[w] = "pop_take"}
  \cup {i \in reg[w].local .. reg[w].local + Half - 1 :
          pc[w] = "overflow_move"}
  \cup {i \in tail[w] .. tail[w] + copied[w] - 1 : Filling(w)}
\* ... and the indices of w's array that thieves have claimed, not yet copied.
Claims(w) ==
  UNION {reg[u].steal + copied[u] .. reg[u].steal + num[u] - 1 :
          u \in {x \in Workers : pc[x] = "steal_copy" /\ victim[x] = w}}

\* What the arrays hold at their live indices.
Contents == [w \in Workers |-> [i \in Live(w) |-> slots[w][Slot(i)]]]

\* The places of t, in the order of Occurrences.
Total(t) ==
  Among(Contents, t) + Among(hand, t) + Occ(global, t) + In(t, dropped) + runs[t]

\* Between operations a thread holds nothing, and before it takes half of its
\* own queue it holds the one task to push.
HandInv(w) ==
  /\ ~Pushing(w) => hand[w] = << >>
  /\ pc[w] \in {"push_load", "push_write", "overflow_cas", "overflow_move"} =>
       Len(hand[w]) = 1

\* A task is in one place if it was submitted, in none if it was not.
Balance == \A t \in Tasks : Total(t) = In(t, submitted)

\* The inductive invariant of Conservation: the indices tell which slots are
\* live, the hands what is between them, and the books balance.
CountInv == Inv /\ (\A w \in Workers : HandInv(w)) /\ Balance /\ runs[Null] = 0

\* The contents of the arrays are functions with finite domains.
LEMMA ContentsOwned ==
  Inv => Owned(Contents, Workers)
<1> SUFFICES ASSUME Inv PROVE Owned(Contents, Workers)
  OBVIOUS
<1>1. DOMAIN Contents = Workers /\ \A w \in Workers : DOMAIN Contents[w] = Live(w)
  BY DEF Contents
<1>2. ASSUME NEW w \in Workers PROVE IsFiniteSet(Live(w))
  <2>1. High(w) \in Nat /\ Low(w) \in Int
    BY WindowFits
  <2>2. Live(w) \subseteq 0 .. High(w)
    <3>1. ASSUME NEW i \in Live(w) PROVE i \in 0 .. High(w)
      <4>1. i \in Nat /\ i < High(w)
        BY LiveInWindow
      <4> QED
        BY <2>1, <4>1
    <3> QED
      BY <3>1
  <2>3. IsFiniteSet(0 .. High(w))
    BY <2>1, FS_Interval
  <2> QED
    BY <2>2, <2>3, FS_Subset
<1> QED
  BY <1>1, <1>2, Zenon DEF Owned

\* So they are after a step.
LEMMA ContentsOwnedNext ==
  ASSUME Inv'
  PROVE  Owned(Contents', Workers)
<1>1. (Inv => Owned(Contents, Workers))'
  BY ContentsOwned, PTL
<1> QED
  BY <1>1 DEF Owned

\* The array of one worker.
LEMMA ContentsOf ==
  ASSUME NEW w \in Workers
  PROVE  /\ Contents[w] = [i \in Live(w) |-> slots[w][Slot(i)]]
         /\ Contents'[w] = [i \in Live(w)' |-> slots'[w][Slot(i)]]
BY DEF Contents, Slot

\* Live is the union of the two.
LEMMA LiveParts ==
  ASSUME NEW w
  PROVE  Live(w) = Mine(w) \cup Claims(w) /\ Live(w)' = Mine(w)' \cup Claims(w)'
<1>1. Live(w) = Mine(w) \cup Claims(w)
  BY Zenon DEF Live, Mine, Claims
<1>2. Live(w)' = Mine(w)' \cup Claims(w)'
  BY Zenon DEF Live, Mine, Claims
<1> QED
  BY <1>1, <1>2

\* Another worker's indices, ...
LEMMA MineKept ==
  ASSUME NEW w \in Workers, OthersKept(w), NEW x \in Workers \ {w},
         head'[x].local = head[x].local, tail'[x] = tail[x]
  PROVE  Mine(x)' = Mine(x)
<1>1. /\ pc'[x] = pc[x] /\ reg'[x] = reg[x] /\ copied'[x] = copied[x]
      /\ Filling(x)' = Filling(x)
  BY DEF OthersKept, Filling, Stealing
<1> QED
  BY <1>1, Zenon DEF Mine

\* ... and the claims on a queue the thread does not copy from.
LEMMA ClaimsKept ==
  ASSUME NEW w \in Workers, OthersKept(w), NEW x \in Workers,
         pc[w] = "steal_copy" => victim[w] # x,
         pc'[w] = "steal_copy" => victim'[w] # x
  PROVE  Claims(x)' = Claims(x)
<1> DEFINE Us == {u \in Workers : pc[u] = "steal_copy" /\ victim[u] = x}
           Vs == {u \in Workers : pc'[u] = "steal_copy" /\ victim'[u] = x}
<1>1. Us = Vs /\ \A u \in Us : u \in Workers \ {w}
  BY DEF OthersKept
<1>2. \A u \in Us : reg'[u] = reg[u] /\ copied'[u] = copied[u] /\ num'[u] = num[u]
  BY <1>1 DEF OthersKept
<1>3. /\ Claims(x) = UNION {reg[u].steal + copied[u] .. reg[u].steal + num[u] - 1 : u \in Us}
      /\ Claims(x)' = UNION {reg'[u].steal + copied'[u] .. reg'[u].steal + num'[u] - 1 : u \in Vs}
  BY Zenon DEF Claims
<1> HIDE DEF Us, Vs
<1> QED
  BY <1>1, <1>2, <1>3

\* Nobody steals from itself.
LEMMA NotOneself ==
  Inv => \A w \in Workers : pc[w] = "steal_copy" => victim[w] # w
BY DEF Inv, IndexInv, ThreadInv, ThiefInv, Raiding, Filling, Stealing

\* The same of the state after a step.
LEMMA NotOneselfNext ==
  ASSUME Inv'
  PROVE  \A w \in Workers : pc'[w] = "steal_copy" => victim'[w] # w
<1>1. (Inv => \A w \in Workers : pc[w] = "steal_copy" => victim[w] # w)'
  BY NotOneself, PTL
<1> QED
  BY <1>1

\* A step that leaves an array and its live indices alone leaves its contents.
LEMMA ContentsKept ==
  ASSUME NEW x \in Workers, Live(x)' = Live(x), slots'[x] = slots[x]
  PROVE  Contents'[x] = Contents[x]
BY ContentsOf, Zenon

\* Before and after an operation that holds no index, nothing is live for the
\* thread but what is published.
LEMMA MineQuiet ==
  ASSUME NEW w, pc[w] \notin Holding, pc'[w] \notin Holding,
         head'[w].local = head[w].local, tail'[w] = tail[w]
  PROVE  Mine(w)' = Mine(w)
<1>1. Mine(w) = head[w].local .. tail[w] - 1
  BY DEF Mine, Holding, Filling, Stealing
<1>2. Mine(w)' = head'[w].local .. tail'[w] - 1
  BY DEF Mine, Holding, Filling, Stealing
<1> QED
  BY <1>1, <1>2

\* So a step that changes no queue and neither starts nor ends a claim leaves
\* all contents.
LEMMA QuietContents ==
  ASSUME Inv, Inv', NEW w \in Workers, OthersKept(w),
         UNCHANGED <<head, tail, slots>>,
         pc[w] \notin Holding, pc'[w] \notin Holding
  PROVE  Contents' = Contents
<1>1. pc[w] # "steal_copy" /\ pc'[w] # "steal_copy"
  BY DEF Holding
<1>2. ASSUME NEW x \in Workers PROVE Contents'[x] = Contents[x]
  <2>1. Claims(x)' = Claims(x)
    BY <1>1, ClaimsKept
  <2>2. Mine(x)' = Mine(x)
    <3>1. CASE x = w
      BY <3>1, MineQuiet
    <3>2. CASE x # w
      BY <3>2, MineKept
    <3> QED
      BY <3>1, <3>2
  <2>3. Live(x)' = Live(x)
    BY <2>1, <2>2, LiveParts
  <2> QED
    BY <2>3, ContentsKept
<1>3. /\ Contents = [x \in Workers |-> Contents[x]]
      /\ Contents' = [x \in Workers |-> Contents'[x]]
  BY Zenon DEF Contents
<1> QED
  BY <1>2, <1>3, Zenon

-----------------------------------------------------------------------------
(* Each step takes as many tasks from one place as it gives to another.    *)

\* A step of w's thread leaves the locals of the other threads alone.
LEMMA StepOthers ==
  ASSUME TypeOK, NEW w \in Workers, WorkerStep(w) \/ WorkerCall(w)
  PROVE  OthersKept(w)
<1> USE DEF TypeOK, OthersKept, Goto
<1>1. CASE PushLoad(w) \/ PushWrite(w) \/ PushGlobal(w)
  BY <1>1 DEF PushLoad, PushWrite, PushGlobal, locals
<1>2. CASE OverflowCAS(w) \/ OverflowMove(w)
  BY SMTT(30), <1>2, ForgetType DEF OverflowCAS, OverflowMove, locals
<1>3. CASE PopCAS(w) \/ PopTake(w)
  BY <1>3, ForgetType DEF PopCAS, PopTake, locals
<1>4. CASE FetchPop(w) \/ FetchPush(w)
  <2>1. CASE FetchPop(w)
    <3>1. /\ pc' = [pc EXCEPT ![w] = pc'[w]] /\ hand' = [hand EXCEPT ![w] = hand'[w]]
          /\ Forget(w)
      BY <2>1 DEF FetchPop
    <3> QED
      BY <3>1, ForgetType
  <2>2. CASE FetchPush(w)
    BY <2>2 DEF FetchPush, locals
  <2> QED
    BY <1>4, <2>1, <2>2
<1>5. CASE StealTail(w) \/ StealCAS(w)
  <2>1. CASE StealTail(w)
    BY <2>1, ForgetType DEF StealTail
  <2>2. CASE StealCAS(w)
    BY <2>2 DEF StealCAS
  <2> QED
    BY <1>5, <2>1, <2>2
<1>6. CASE StealCopy(w) \/ StealCommit(w) \/ StealFinish(w)
  <2>1. CASE StealCopy(w)
    BY <2>1 DEF StealCopy
  <2>2. CASE StealCommit(w)
    BY <2>2 DEF StealCommit, locals
  <2>3. CASE StealFinish(w)
    BY <2>3, ForgetType DEF StealFinish
  <2> QED
    BY <1>6, <2>1, <2>2, <2>3
<1>7. CASE \E t \in Tasks : PushBack(w, t)
  BY <1>7 DEF PushBack, locals
<1>8. CASE TryPop(w) \/ GlobalTryPop(w) \/ FetchSize(w)
  BY <1>8 DEF TryPop, GlobalTryPop, FetchSize, locals
<1>9. CASE \E v \in Workers : BeStolenBy(w, v)
  BY <1>9 DEF BeStolenBy
<1> QED
  BY <1>1, <1>2, <1>3, <1>4, <1>5, <1>6, <1>7, <1>8, <1>9 DEF WorkerStep, WorkerCall

\* A task enters the places when it enters the queues, and only then.
Counted(t) == Total(t)' + In(t, submitted) = Total(t) + In(t, submitted')

\* What every step is shown to keep.
Counts == (\A t \in Tasks : Counted(t)) /\ runs'[Null] = runs[Null]

\* What a step makes of the places.
LEMMA TotalNext ==
  ASSUME NEW t
  PROVE  Total(t)' = Among(Contents', t) + Among(hand', t) + Occ(global', t)
                     + In(t, dropped') + runs'[t]
<1>1. Total(t)' = Among(Contents, t)' + Among(hand, t)' + Occ(global, t)'
                  + In(t, dropped)' + runs'[t]
  BY DEF Total
<1>2. Among(hand, t)' = Among(hand', t)
  BY Zenon DEF Among, Spots
<1>3. Occ(global, t)' = Occ(global', t) /\ In(t, dropped)' = In(t, dropped')
  BY Zenon DEF Occ, In
<1>4. Among(Contents, t)' = Among(Contents', t)
  BY Zenon DEF Among, Spots
<1> QED
  BY <1>1, <1>2, <1>3, <1>4, Zenon

\* All these are numbers.
LEMMA CountTypes ==
  ASSUME Inv, NEW t \in Tasks
  PROVE  /\ Among(Contents, t) \in Nat /\ Among(hand, t) \in Nat
         /\ Occ(global, t) \in Nat /\ In(t, dropped) \in Nat /\ runs[t] \in Nat
         /\ In(t, submitted) \in Nat /\ In(t, submitted') \in Nat
         /\ In(t, dropped') \in Nat
<1>1. /\ hand \in [Workers -> Seq(Tasks)] /\ global \in Seq(Tasks)
      /\ runs \in [Tasks \cup {Null} -> Nat]
  BY DEF Inv, TypeOK
<1>2. ASSUME NEW f, Owned(f, Workers) PROVE Among(f, t) \in Nat
  <2>1. IsFiniteSet(Spots(f))
    BY <1>2, WorkersAssumption, SpotsFinite
  <2>2. IsFiniteSet({p \in Spots(f) : f[p[1]][p[2]] = t})
    BY <2>1, FS_Subset
  <2> QED
    BY <2>2, FS_CardinalityType DEF Among
<1>3. Owned(hand, Workers)
  <2>1. ASSUME NEW w \in Workers PROVE IsFiniteSet(DOMAIN hand[w])
    <3>1. DOMAIN hand[w] = 1 .. Len(hand[w]) /\ Len(hand[w]) \in Nat
      BY <1>1
    <3>2. IsFiniteSet(1 .. Len(hand[w]))
      BY <3>1, FS_Interval
    <3> QED
      BY <3>1, <3>2
  <2> QED
    BY <1>1, <2>1 DEF Owned
<1>4. Among(Contents, t) \in Nat /\ Among(hand, t) \in Nat
  BY <1>2, <1>3, ContentsOwned
<1>5. Occ(global, t) \in Nat
  BY <1>1, OccType
<1>6. runs[t] \in Nat
  BY <1>1
<1> QED
  BY <1>4, <1>5, <1>6 DEF In

\* Nothing moves.
LEMMA StillCounts ==
  ASSUME Contents' = Contents, UNCHANGED <<hand, global, dropped, submitted, runs>>
  PROVE  Counts
<1> SUFFICES ASSUME NEW t \in Tasks PROVE Counted(t)
  BY DEF Counts
<1>1. /\ Among(Contents', t) = Among(Contents, t) /\ Among(hand', t) = Among(hand, t)
      /\ Occ(global', t) = Occ(global, t) /\ In(t, dropped') = In(t, dropped)
      /\ In(t, submitted') = In(t, submitted) /\ runs'[t] = runs[t]
  OBVIOUS
<1>2. Total(t)' = Total(t)
  BY <1>1, TotalNext, Zenon DEF Total
<1> QED
  BY <1>1, <1>2, Zenon DEF Counted

\* What a thread holds is replaced.
LEMMA HandCount ==
  ASSUME TypeOK, NEW w \in Workers, NEW s \in Seq(Tasks),
         hand' = [hand EXCEPT ![w] = s], NEW t
  PROVE  /\ Among(hand', t) = Among(hand, t) - Occ(hand[w], t) + Occ(s, t)
         /\ Among(hand, t) \in Nat /\ Occ(hand[w], t) \in Nat /\ Occ(s, t) \in Nat
         /\ Occ(hand[w], t) <= Among(hand, t)
<1>1. hand \in [Workers -> Seq(Tasks)]
  BY DEF TypeOK
<1>2. /\ Among([hand EXCEPT ![w] = s], t) = Among(hand, t) - Occ(hand[w], t) + Occ(s, t)
      /\ Among([hand EXCEPT ![w] = s], t) \in Nat /\ Among(hand, t) \in Nat
      /\ Occ(hand[w], t) \in Nat /\ Occ(s, t) \in Nat
      /\ Occ(hand[w], t) <= Among(hand, t)
  BY <1>1, WorkersAssumption, AmongSequences, Zenon
<1> QED
  BY <1>2, Zenon

\* The empty sequence holds nothing, and one of length one a single task.
LEMMA OccEmpty == \A t : Occ(<< >>, t) = 0
<1> TAKE t
<1>1. {i \in DOMAIN << >> : << >>[i] = t} = {}
  OBVIOUS
<1> QED
  BY <1>1, FS_EmptySet DEF Occ

LEMMA OccSingle ==
  ASSUME NEW s \in Seq(Tasks), Len(s) = 1, NEW t
  PROVE  Occ(s, t) = Is(s[1], t) /\ s[1] \in Tasks
<1>1. DOMAIN s = {1} /\ s[1] \in Tasks
  OBVIOUS
<1>2. {i \in DOMAIN s : s[i] = t} = IF s[1] = t THEN {1} ELSE {}
  BY <1>1
<1>3. Occ(s, t) = IF s[1] = t THEN 1 ELSE 0
  BY <1>2, FS_EmptySet, FS_Singleton DEF Occ
<1> QED
  BY <1>1, <1>3 DEF Is

\* A task is run.
LEMMA RunCount ==
  ASSUME TypeOK, NEW x \in Tasks, Excute(x)
  PROVE  /\ \A t \in Tasks : runs'[t] = runs[t] + Is(x, t) /\ Is(x, t) \in Nat
         /\ runs'[Null] = runs[Null]
<1> DEFINE D == Tasks \cup {Null}
<1>1. runs \in [D -> Nat] /\ x \in D /\ Null \in D /\ Tasks \subseteq D
  BY DEF TypeOK
<1>2. runs' = [runs EXCEPT ![x] = runs[x] + 1] /\ x # Null
  BY NullAssumption DEF Excute
<1> HIDE DEF D
<1>3. ASSUME NEW t \in Tasks PROVE runs'[t] = runs[t] + Is(x, t) /\ Is(x, t) \in Nat
  <2>1. t \in D /\ runs[t] \in Nat
    BY <1>1
  <2> QED
    BY <1>1, <1>2, <2>1 DEF Is
<1>4. runs'[Null] = runs[Null]
  BY <1>1, <1>2
<1> QED
  BY <1>3, <1>4

\* push_back looks for room.
LEMMA PushLoadCounts ==
  ASSUME Inv, Inv', NEW w \in Workers, OthersKept(w), HandInv(w), PushLoad(w)
  PROVE  Counts /\ HandInv(w)'
<1>1. /\ UNCHANGED <<head, tail, slots, hand, global, dropped, submitted, runs>>
      /\ pc[w] = "push_load"
      /\ Goto(w, "push_write") \/ Goto(w, "push_global") \/ Goto(w, "overflow_cas")
  BY DEF PushLoad, queueVars, poolVars
<1>2. pc'[w] \in {"push_write", "push_global", "overflow_cas"}
  BY <1>1 DEF Goto, Inv, TypeOK
<1>3. Contents' = Contents
  BY <1>1, <1>2, QuietContents DEF Holding
<1>4. Counts
  BY <1>1, <1>3, StillCounts
<1>5. HandInv(w)'
  BY <1>1, <1>2 DEF HandInv, Pushing
<1> QED
  BY <1>4, <1>5

\* Operations that begin or end and hold no task: try_pop and be_stolen_by look
\* at the indices, a refill computes its size.
LEMMA LookCounts ==
  ASSUME Inv, Inv', NEW w \in Workers, OthersKept(w), HandInv(w),
         UNCHANGED <<head, tail, slots, hand, global, dropped, submitted, runs>>,
         pc[w] \in {"idle", "steal_tail", "steal_cas", "pop_cas"},
         pc'[w] \in {"idle", "pop_cas", "fetch_pop", "steal_tail", "steal_cas"}
  PROVE  Counts /\ HandInv(w)'
<1>1. Contents' = Contents
  BY QuietContents DEF Holding
<1>2. Counts
  BY <1>1, StillCounts
<1>3. HandInv(w)'
  BY DEF HandInv, Pushing
<1> QED
  BY <1>2, <1>3

\* The steps of that kind.
LEMMA LooksCount ==
  ASSUME Inv, Inv', NEW w \in Workers, OthersKept(w), HandInv(w),
         \/ TryPop(w) \/ FetchSize(w) \/ StealTail(w)
         \/ \E v \in Workers : BeStolenBy(w, v)
  PROVE  Counts /\ HandInv(w)'
<1> USE DEF Goto, Inv, TypeOK
<1>1. CASE TryPop(w)
  BY <1>1, LookCounts DEF TryPop, queueVars, poolVars
<1>2. CASE FetchSize(w)
  BY <1>2, LookCounts DEF FetchSize, queueVars, poolVars
<1>3. CASE StealTail(w)
  BY <1>3, LookCounts DEF StealTail, queueVars, poolVars
<1>4. CASE \E v \in Workers : BeStolenBy(w, v)
  BY <1>4, LookCounts DEF BeStolenBy, queueVars, poolVars
<1> QED
  BY <1>1, <1>2, <1>3, <1>4

\* A task enters a thread's hand.
LEMMA PushBackCounts ==
  ASSUME Inv, Inv', NEW w \in Workers, OthersKept(w), HandInv(w),
         NEW x \in Tasks, PushBack(w, x)
  PROVE  Counts /\ HandInv(w)'
<1>1. /\ UNCHANGED <<head, tail, slots, global, dropped, runs>>
      /\ pc[w] = "idle" /\ x \notin submitted /\ submitted' = submitted \cup {x}
      /\ hand' = [hand EXCEPT ![w] = <<x>>]
  BY DEF PushBack, queueVars
<1>2. pc'[w] = "push_load"
  BY DEF PushBack, Goto, Inv, TypeOK
<1>3. Contents' = Contents
  BY <1>1, <1>2, QuietContents DEF Holding
<1>4. hand[w] = << >> /\ <<x>> \in Seq(Tasks)
  BY <1>1 DEF HandInv, Pushing
<1>5. hand'[w] = <<x>>
  BY <1>1 DEF Inv, TypeOK
<1>6. ASSUME NEW t \in Tasks PROVE Counted(t)
  <2>1. Occ(<<x>>, t) = Is(x, t)
    <3>1. Len(<<x>>) = 1 /\ <<x>>[1] = x
      OBVIOUS
    <3> QED
      BY <1>4, <3>1, OccSingle
  <2>2. /\ Among(hand', t) = Among(hand, t) - Occ(hand[w], t) + Occ(<<x>>, t)
        /\ Among(hand, t) \in Nat
    BY <1>1, <1>4, HandCount DEF Inv
  <2>3. Occ(hand[w], t) = 0
    BY <1>4, OccEmpty
  <2>4. /\ Among(Contents', t) = Among(Contents, t) /\ Occ(global', t) = Occ(global, t)
        /\ In(t, dropped') = In(t, dropped) /\ runs'[t] = runs[t]
    BY <1>1, <1>3
  <2>5. In(t, submitted') = In(t, submitted) + Is(x, t) /\ Is(x, t) \in Nat
    BY <1>1 DEF In, Is
  <2>6. /\ Among(Contents, t) \in Nat /\ Occ(global, t) \in Nat
        /\ In(t, dropped) \in Nat /\ runs[t] \in Nat /\ In(t, submitted) \in Nat
    BY CountTypes
  <2>7. Among(hand', t) = Among(hand, t) + Is(x, t)
    BY <2>1, <2>2, <2>3, <2>5
  <2>8. Total(t)' = Among(Contents, t) + Among(hand', t) + Occ(global, t)
                    + In(t, dropped) + runs[t]
    BY <2>4, TotalNext, Zenon
  <2> QED
    BY <2>2, <2>5, <2>6, <2>7, <2>8 DEF Counted, Total
<1>7. HandInv(w)'
  <2>1. Len(hand'[w]) = 1
    BY <1>5
  <2> QED
    BY <1>2, <2>1 DEF HandInv, Pushing
<1> QED
  BY <1>1, <1>6, <1>7 DEF Counts

\* A step of no worker leaves the arrays and the indices alone.
LEMMA UnmovedContents ==
  ASSUME UNCHANGED <<head, tail, slots, pc, reg, num, copied, victim>>
  PROVE  Contents' = Contents
<1>1. ASSUME NEW w \in Workers PROVE Contents'[w] = Contents[w]
  <2>1. Mine(w)' = Mine(w)
    <3>1. Filling(w)' = Filling(w)
      BY DEF Filling, Stealing
    <3> QED
      BY <3>1 DEF Mine
  <2>2. Claims(w)' = Claims(w)
    BY DEF Claims
  <2> QED
    BY <2>1, <2>2, LiveParts, ContentsKept
<1>2. /\ Contents = [x \in Workers |-> Contents[x]]
      /\ Contents' = [x \in Workers |-> Contents'[x]]
  BY Zenon DEF Contents
<1> QED
  BY <1>1, <1>2, Zenon

\* A task is appended to the global queue from outside, or dropped.
LEMMA GlobalPushBackCounts ==
  ASSUME CountInv, NEW x \in Tasks, GlobalPushBack(x)
  PROVE  Counts
<1>1. /\ UNCHANGED <<head, tail, slots, pc, reg, num, copied, victim, hand, runs>>
      /\ x \notin submitted /\ submitted' = submitted \cup {x}
      /\ IF closed
           THEN dropped' = dropped \cup {x} /\ UNCHANGED global
           ELSE global' = Append(global, x) /\ UNCHANGED dropped
  BY DEF GlobalPushBack, queueVars, locals
<1>2. Contents' = Contents
  BY <1>1, UnmovedContents
<1>3. Inv /\ global \in Seq(Tasks)
  BY DEF CountInv, Inv, TypeOK
<1>4. ASSUME NEW t \in Tasks PROVE Counted(t)
  <2>1. /\ Among(Contents', t) = Among(Contents, t) /\ Among(hand', t) = Among(hand, t)
        /\ runs'[t] = runs[t]
    BY <1>1, <1>2
  <2>2. In(t, submitted') = In(t, submitted) + Is(x, t) /\ Is(x, t) \in Nat
    BY <1>1 DEF In, Is
  <2>3. /\ Among(Contents, t) \in Nat /\ Among(hand, t) \in Nat /\ Occ(global, t) \in Nat
        /\ In(t, dropped) \in Nat /\ runs[t] \in Nat /\ In(t, submitted) \in Nat
    BY <1>3, CountTypes
  <2>4. Occ(global', t) + In(t, dropped') = Occ(global, t) + In(t, dropped) + Is(x, t)
        /\ Occ(global', t) \in Nat /\ In(t, dropped') \in Nat
    <3>1. CASE closed
      <4>1. Occ(global', t) = Occ(global, t)
        BY <1>1, <3>1
      <4>2. In(t, dropped') = In(t, dropped) + Is(x, t)
        <5>1. CASE t = x
          <6>1. In(t, submitted) = 0
            BY <1>1, <5>1 DEF In
          <6>2. Total(t) = 0
            BY <6>1 DEF CountInv, Balance
          <6>3. In(t, dropped) = 0
            BY <2>3, <6>2 DEF Total
          <6>4. In(t, dropped') = 1 /\ Is(x, t) = 1
            BY <1>1, <3>1, <5>1 DEF In, Is
          <6> QED
            BY <6>3, <6>4
        <5>2. CASE t # x
          BY <1>1, <3>1, <5>2 DEF In, Is
        <5> QED
          BY <5>1, <5>2
      <4> QED
        BY <2>2, <2>3, <4>1, <4>2
    <3>2. CASE ~closed
      <4>1. In(t, dropped') = In(t, dropped)
        BY <1>1, <3>2
      <4>2. Occ(global', t) = Occ(global, t) + Is(x, t)
        <5>1. global' = Append(global, x)
          BY <1>1, <3>2
        <5>2. Occ(Append(global, x), t) = Occ(global, t) + Is(x, t)
          BY <1>3, OccAppend
        <5> QED
          BY <5>1, <5>2, Zenon
      <4> QED
        BY <2>2, <2>3, <4>1, <4>2
    <3> QED
      BY <3>1, <3>2
  <2>5. Total(t)' = Among(Contents, t) + Among(hand, t) + Occ(global', t)
                    + In(t, dropped') + runs[t]
    BY <2>1, TotalNext, Zenon
  <2> QED
    BY <2>2, <2>3, <2>4, <2>5 DEF Counted, Total
<1> QED
  BY <1>1, <1>4 DEF Counts

\* One global task is taken and run.
LEMMA GlobalTryPopCounts ==
  ASSUME Inv, Inv', NEW w \in Workers, OthersKept(w), HandInv(w), GlobalTryPop(w)
  PROVE  Counts /\ HandInv(w)'
<1>1. /\ UNCHANGED <<head, tail, slots, pc, hand, submitted, dropped>>
      /\ pc[w] = "idle" /\ global # << >>
      /\ Excute(Head(global)) /\ global' = Tail(global)
  BY DEF GlobalTryPop, queueVars
<1>2. Contents' = Contents
  BY <1>1, QuietContents DEF Holding
<1>3. global \in Seq(Tasks) /\ TypeOK
  BY DEF Inv, TypeOK
<1>4. Head(global) \in Tasks
  BY <1>1, <1>3, OccTail
<1> DEFINE x == Head(global)
<1>5. /\ \A t \in Tasks : runs'[t] = runs[t] + Is(x, t) /\ Is(x, t) \in Nat
      /\ runs'[Null] = runs[Null]
  BY <1>1, <1>3, <1>4, RunCount
<1>6. ASSUME NEW t \in Tasks PROVE Counted(t)
  <2>1. /\ Among(Contents', t) = Among(Contents, t) /\ Among(hand', t) = Among(hand, t)
        /\ In(t, dropped') = In(t, dropped) /\ In(t, submitted') = In(t, submitted)
        /\ Occ(global', t) = Occ(Tail(global), t)
    BY <1>1, <1>2
  <2>2. Occ(global, t) = Is(x, t) + Occ(Tail(global), t) /\ Occ(Tail(global), t) \in Nat
    <3>1. Tail(global) \in Seq(Tasks) /\ Occ(global, t) = Is(x, t) + Occ(Tail(global), t)
      BY <1>1, <1>3, OccTail
    <3> QED
      BY <3>1, OccType
  <2>3. /\ Among(Contents, t) \in Nat /\ Among(hand, t) \in Nat
        /\ In(t, dropped) \in Nat /\ runs[t] \in Nat /\ In(t, submitted) \in Nat
    BY CountTypes
  <2>4. Total(t)' = Among(Contents, t) + Among(hand, t) + Occ(Tail(global), t)
                    + In(t, dropped) + runs'[t]
    BY <2>1, TotalNext, Zenon
  <2>5. runs'[t] = runs[t] + Is(x, t) /\ Is(x, t) \in Nat
    BY <1>5
  <2> HIDE DEF x
  <2>6. Total(t)' = Total(t)
    BY <2>2, <2>3, <2>4, <2>5 DEF Total
  <2> QED
    BY <2>1, <2>6, Zenon DEF Counted
<1>7. HandInv(w)'
  BY <1>1 DEF HandInv, Pushing
<1> QED
  BY <1>5, <1>6, <1>7 DEF Counts

\* A task is in a sequence if it occurs there.
LEMMA OccNone ==
  ASSUME NEW s \in Seq(Tasks), NEW t
  PROVE  Occ(s, t) = 0 <=> \A i \in DOMAIN s : s[i] # t
<1>1. IsFiniteSet({i \in DOMAIN s : s[i] = t})
  BY OccType
<1>2. Occ(s, t) = 0 <=> {i \in DOMAIN s : s[i] = t} = {}
  BY <1>1, FS_EmptySet DEF Occ
<1> QED
  BY <1>2

\* What the thread holds goes to the global queue, or is dropped.
LEMMA PushGlobalCounts ==
  ASSUME CountInv, Inv', NEW w \in Workers, OthersKept(w), PushGlobal(w)
  PROVE  Counts /\ HandInv(w)'
<1>1. /\ UNCHANGED <<head, tail, slots, submitted, runs>>
      /\ pc[w] = "push_global" /\ hand' = [hand EXCEPT ![w] = << >>]
      /\ IF closed
           THEN /\ dropped' = dropped \cup {hand[w][i] : i \in DOMAIN hand[w]}
                /\ UNCHANGED global
           ELSE global' = global \o hand[w] /\ UNCHANGED dropped
  BY DEF PushGlobal, queueVars
<1>2. Inv /\ TypeOK /\ hand[w] \in Seq(Tasks) /\ global \in Seq(Tasks) /\ << >> \in Seq(Tasks)
  BY SMTT(30) DEF CountInv, Inv, TypeOK
<1>3. pc'[w] = "idle"
  BY <1>2 DEF PushGlobal, Goto, TypeOK
<1>4. Contents' = Contents
  BY <1>1, <1>2, <1>3, QuietContents DEF Holding
<1>5. ASSUME NEW t \in Tasks PROVE Counted(t)
  <2>1. /\ Among(Contents', t) = Among(Contents, t)
        /\ In(t, submitted') = In(t, submitted) /\ runs'[t] = runs[t]
    BY <1>1, <1>4
  <2>2. /\ Among(hand', t) = Among(hand, t) - Occ(hand[w], t)
        /\ Occ(hand[w], t) \in Nat /\ Occ(hand[w], t) <= Among(hand, t)
    <3>1. /\ Among(hand', t) = Among(hand, t) - Occ(hand[w], t) + Occ(<< >>, t)
          /\ Among(hand, t) \in Nat /\ Occ(hand[w], t) \in Nat
          /\ Occ(hand[w], t) <= Among(hand, t)
      BY <1>1, <1>2, HandCount
    <3>2. Occ(<< >>, t) = 0
      BY OccEmpty
    <3> QED
      BY <3>1, <3>2
  <2>3. /\ Among(Contents, t) \in Nat /\ Among(hand, t) \in Nat /\ Occ(global, t) \in Nat
        /\ In(t, dropped) \in Nat /\ runs[t] \in Nat /\ In(t, submitted) \in Nat
    BY <1>2, CountTypes
  <2>4. Occ(global', t) + In(t, dropped') = Occ(global, t) + In(t, dropped) + Occ(hand[w], t)
        /\ Occ(global', t) \in Nat /\ In(t, dropped') \in Nat
    <3>1. CASE closed
      <4>1. Occ(global', t) = Occ(global, t)
        BY <1>1, <3>1
      <4>2. In(t, dropped') = In(t, dropped) + Occ(hand[w], t)
        <5>1. CASE Occ(hand[w], t) = 0
          <6>1. \A i \in DOMAIN hand[w] : hand[w][i] # t
            BY <1>2, <5>1, OccNone
          <6>2. t \in dropped' <=> t \in dropped
            BY <1>1, <3>1, <6>1
          <6>3. In(t, dropped') = In(t, dropped)
            BY <6>2 DEF In
          <6> QED
            BY <2>3, <5>1, <6>3
        <5>2. CASE Occ(hand[w], t) # 0
          <6>1. \E i \in DOMAIN hand[w] : hand[w][i] = t
            BY <1>2, <5>2, OccNone
          <6>2. In(t, dropped') = 1
            BY <1>1, <3>1, <6>1 DEF In
          <6>3. Total(t) <= 1
            BY DEF CountInv, Balance, In
          <6>4. 1 <= Occ(hand[w], t)
            BY <2>2, <5>2
          <6>5. In(t, dropped) = 0 /\ Occ(hand[w], t) = 1
            BY <2>2, <2>3, <6>3, <6>4 DEF Total
          <6> QED
            BY <6>2, <6>5
        <5> QED
          BY <5>1, <5>2
      <4> QED
        BY <2>2, <2>3, <4>1, <4>2
    <3>2. CASE ~closed
      <4>1. In(t, dropped') = In(t, dropped)
        BY <1>1, <3>2
      <4>2. Occ(global', t) = Occ(global, t) + Occ(hand[w], t)
        <5>1. global' = global \o hand[w]
          BY <1>1, <3>2
        <5>2. Occ(global \o hand[w], t) = Occ(global, t) + Occ(hand[w], t)
          BY <1>2, OccConcat
        <5> QED
          BY <5>1, <5>2, Zenon
      <4> QED
        BY <2>2, <2>3, <4>1, <4>2
    <3> QED
      BY <3>1, <3>2
  <2>5. Total(t)' = Among(Contents, t) + Among(hand', t) + Occ(global', t)
                    + In(t, dropped') + runs[t]
    BY <2>1, TotalNext, Zenon
  <2>6. Total(t)' = Total(t)
    BY <2>2, <2>3, <2>4, <2>5 DEF Total
  <2> QED
    BY <2>1, <2>6, Zenon DEF Counted
<1>6. HandInv(w)'
  <2>1. hand'[w] = << >>
    BY <1>1, <1>2 DEF TypeOK
  <2> QED
    BY <1>3, <2>1 DEF HandInv
<1> QED
  BY <1>1, <1>5, <1>6 DEF Counts

\* A batch of the global queue is taken into the thread's hand.
LEMMA FetchPopCounts ==
  ASSUME Inv, Inv', NEW w \in Workers, OthersKept(w), HandInv(w), FetchPop(w)
  PROVE  Counts /\ HandInv(w)'
<1> DEFINE n == IF Len(global) < num[w] THEN Len(global) ELSE num[w]
           s == SubSeq(global, 1, n)
           r == SubSeq(global, n + 1, Len(global))
<1>1. /\ UNCHANGED <<head, tail, slots, submitted, dropped, runs>>
      /\ pc[w] = "fetch_pop" /\ hand' = [hand EXCEPT ![w] = s] /\ global' = r
      /\ Goto(w, IF n = 0 THEN "idle" ELSE "fetch_push")
  BY DEF FetchPop, queueVars, poolVars
<1>2. TypeOK /\ global \in Seq(Tasks) /\ Len(global) \in Nat /\ num[w] \in Nat
  BY DEF Inv, TypeOK
<1>3. n \in 0 .. Len(global)
  BY <1>2
<1> HIDE DEF n
<1>4. s \in Seq(Tasks) /\ r \in Seq(Tasks)
  BY <1>2, <1>3
<1>5. pc'[w] = IF n = 0 THEN "idle" ELSE "fetch_push"
  BY <1>1, <1>2 DEF Goto, TypeOK
<1>6. Contents' = Contents
  BY <1>1, <1>5, QuietContents DEF Holding
<1>7. hand[w] = << >>
  BY <1>1 DEF HandInv, Pushing
<1>8. ASSUME NEW t \in Tasks, Occ(global, t) = Occ(s, t) + Occ(r, t) PROVE Counted(t)
  <2> HIDE DEF s, r
  <2>1. /\ Among(hand', t) = Among(hand, t) - Occ(hand[w], t) + Occ(s, t)
        /\ Among(hand, t) \in Nat /\ Occ(s, t) \in Nat
    BY <1>1, <1>2, <1>4, HandCount
  <2>2. Occ(hand[w], t) = 0
    BY <1>7, OccEmpty
  <2>3. /\ Among(Contents', t) = Among(Contents, t) /\ Occ(global', t) = Occ(r, t)
        /\ In(t, dropped') = In(t, dropped) /\ runs'[t] = runs[t]
        /\ In(t, submitted') = In(t, submitted)
    BY <1>1, <1>6
  <2>4. Among(hand', t) = Among(hand, t) + Occ(s, t)
    BY <2>1, <2>2
  <2>5. /\ Among(Contents, t) \in Nat /\ In(t, dropped) \in Nat /\ runs[t] \in Nat
    BY CountTypes
  <2>6. Occ(r, t) \in Nat
    BY <1>4, OccType
  <2>7. Total(t)' = Among(Contents, t) + Among(hand', t) + Occ(r, t)
                    + In(t, dropped) + runs[t]
    BY <2>3, TotalNext, Zenon
  <2>8. Total(t)' = Total(t)
    BY <1>8, <2>1, <2>4, <2>5, <2>6, <2>7 DEF Total
  <2> QED
    BY <2>3, <2>8, Zenon DEF Counted
<1>9. \A t \in Tasks : Counted(t)
  <2>1. ASSUME NEW t PROVE Occ(global, t) = Occ(s, t) + Occ(r, t)
    BY <1>2, <1>3, OccSplit, Zenon
  <2> QED
    BY <1>8, <2>1, Zenon
<1>10. HandInv(w)'
  <2>1. hand'[w] = s
    BY <1>1, <1>2, <1>4 DEF TypeOK
  <2>2. CASE n = 0
    <3>1. s = << >>
      BY <1>2, <2>2
    <3> QED
      BY <1>5, <2>1, <2>2, <3>1 DEF HandInv
  <2>3. CASE n # 0
    BY <1>5, <2>3 DEF HandInv, Pushing
  <2> QED
    BY <2>2, <2>3
<1> QED
  BY <1>1, <1>9, <1>10 DEF Counts

\* One array changes.
LEMMA ContentsCount ==
  ASSUME Inv, Inv', NEW w \in Workers,
         \A x \in Workers \ {w} : Contents'[x] = Contents[x], NEW t
  PROVE  /\ Among(Contents', t) = Among(Contents, t) - Occ(Contents[w], t)
                                  + Occ(Contents'[w], t)
         /\ Among(Contents, t) \in Nat /\ Occ(Contents[w], t) \in Nat
         /\ Occ(Contents'[w], t) \in Nat
<1>1. Owned(Contents, Workers) /\ Owned(Contents', Workers)
  BY ContentsOwned, ContentsOwnedNext
<1> QED
  BY <1>1, WorkersAssumption, AmongChanged

\* The live indices of the others stay when the thread's step leaves their
\* queues, and it copies from none.
LEMMA OthersContents ==
  ASSUME NEW w \in Workers, OthersKept(w), NEW x \in Workers \ {w},
         head'[x].local = head[x].local, tail'[x] = tail[x], slots'[x] = slots[x],
         pc[w] = "steal_copy" => victim[w] # x,
         pc'[w] = "steal_copy" => victim'[w] # x
  PROVE  Live(x)' = Live(x) /\ Contents'[x] = Contents[x]
<1>1. Mine(x)' = Mine(x)
  BY MineKept
<1>2. Claims(x)' = Claims(x)
  BY ClaimsKept
<1>3. Live(x)' = Live(x)
  BY <1>1, <1>2, LiveParts
<1> QED
  BY <1>3, ContentsKept

\* Tasks go from one kind of place to another.
LEMMA Balanced ==
  ASSUME Inv, NEW t \in Tasks,
         Among(Contents', t) + Among(hand', t) + runs'[t]
           = Among(Contents, t) + Among(hand, t) + runs[t],
         Among(Contents', t) \in Int, Among(hand', t) \in Int, runs'[t] \in Int,
         UNCHANGED <<global, dropped, submitted>>
  PROVE  Counted(t)
<1>1. /\ Occ(global', t) = Occ(global, t) /\ In(t, dropped') = In(t, dropped)
      /\ In(t, submitted') = In(t, submitted)
  OBVIOUS
<1>2. Total(t)' = Among(Contents', t) + Among(hand', t) + Occ(global, t)
                  + In(t, dropped) + runs'[t]
  BY <1>1, TotalNext, Zenon
<1>3. /\ Among(Contents, t) \in Nat /\ Among(hand, t) \in Nat /\ Occ(global, t) \in Nat
      /\ In(t, dropped) \in Nat /\ runs[t] \in Nat
  BY CountTypes
<1>4. Total(t)' = Total(t)
  BY <1>2, <1>3 DEF Total
<1> QED
  BY <1>1, <1>4, Zenon DEF Counted

\* The live indices of the thread itself, off the copy loop.
LEMMA OwnContents ==
  ASSUME Inv, Inv', NEW w \in Workers, OthersKept(w)
  PROVE  Claims(w)' = Claims(w)
<1>1. /\ pc[w] = "steal_copy" => victim[w] # w
      /\ pc'[w] = "steal_copy" => victim'[w] # w
  BY NotOneself, NotOneselfNext
<1> QED
  BY <1>1, ClaimsKept

\* A slot is read at a live index only, and the array has that slot.
LEMMA LiveSlot ==
  ASSUME Inv, NEW w \in Workers
  PROVE  /\ slots[w] \in [0 .. Capacity - 1 -> Tasks \cup {Null}]
         /\ \A i \in Live(w) : i \in Nat /\ Slot(i) \in 0 .. Capacity - 1
         /\ IsFiniteSet(DOMAIN Contents[w]) /\ DOMAIN Contents[w] = Live(w)
         /\ \A i \in Live(w) : Contents[w][i] = slots[w][Slot(i)]
<1>1. slots[w] \in [0 .. Capacity - 1 -> Tasks \cup {Null}]
  BY DEF Inv, TypeOK
<1>2. \A i \in Live(w) : i \in Nat /\ Slot(i) \in 0 .. Capacity - 1
  BY LiveInWindow, SlotInRange
<1>3. IsFiniteSet(DOMAIN Contents[w])
  BY ContentsOwned DEF Owned
<1>4. Contents[w] = [i \in Live(w) |-> slots[w][Slot(i)]]
  BY ContentsOf
<1>5. DOMAIN Contents[w] = Live(w) /\ \A i \in Live(w) : Contents[w][i] = slots[w][Slot(i)]
  BY <1>4
<1> QED
  BY <1>1, <1>2, <1>3, <1>5

\* The task at a live index leaves the array, ...
LEMMA PlaceTaken ==
  ASSUME Inv, Inv', NEW w \in Workers, NEW k \in Live(w), Live(w)' = Live(w) \ {k},
         \A i \in Live(w) \ {k} : slots'[w][Slot(i)] = slots[w][Slot(i)], NEW t
  PROVE  /\ Occ(Contents[w], t) = Occ(Contents'[w], t) + Is(slots[w][Slot(k)], t)
         /\ Occ(Contents[w], t) \in Nat /\ Occ(Contents'[w], t) \in Nat
<1> DEFINE f == Contents'[w]
           g == Contents[w]
<1>1. f = [i \in Live(w) \ {k} |-> slots'[w][Slot(i)]]
  BY ContentsOf
<1>2. g = [i \in Live(w) |-> slots[w][Slot(i)]]
  BY ContentsOf
<1>3. IsFiniteSet(DOMAIN f)
  BY ContentsOwnedNext DEF Owned
<1> HIDE DEF f, g
<1>4. /\ k \notin DOMAIN f /\ DOMAIN g = DOMAIN f \cup {k}
      /\ \A i \in DOMAIN f : g[i] = f[i]
      /\ g[k] = slots[w][Slot(k)]
  BY <1>1, <1>2
<1>5. /\ Occ(g, t) = Occ(f, t) + Is(g[k], t)
      /\ Occ(g, t) \in Nat /\ Occ(f, t) \in Nat
  BY <1>3, <1>4, OccOneMore
<1> QED
  BY <1>4, <1>5, Zenon DEF f, g

\* ... or enters it.
LEMMA PlaceFilled ==
  ASSUME Inv, NEW w \in Workers, NEW k, k \notin Live(w), Live(w)' = Live(w) \cup {k},
         \A i \in Live(w) : slots'[w][Slot(i)] = slots[w][Slot(i)], NEW t
  PROVE  /\ Occ(Contents'[w], t) = Occ(Contents[w], t) + Is(slots'[w][Slot(k)], t)
         /\ Occ(Contents[w], t) \in Nat /\ Occ(Contents'[w], t) \in Nat
<1> DEFINE f == Contents[w]
           g == Contents'[w]
<1>1. f = [i \in Live(w) |-> slots[w][Slot(i)]]
  BY ContentsOf
<1>2. g = [i \in Live(w) \cup {k} |-> slots'[w][Slot(i)]]
  BY ContentsOf
<1>3. IsFiniteSet(DOMAIN f)
  BY ContentsOwned DEF Owned
<1> HIDE DEF f, g
<1>4. /\ k \notin DOMAIN f /\ DOMAIN g = DOMAIN f \cup {k}
      /\ \A i \in DOMAIN f : g[i] = f[i]
      /\ g[k] = slots'[w][Slot(k)]
  BY <1>1, <1>2
<1>5. /\ Occ(g, t) = Occ(f, t) + Is(g[k], t)
      /\ Occ(g, t) \in Nat /\ Occ(f, t) \in Nat
  BY <1>3, <1>4, OccOneMore
<1> QED
  BY <1>4, <1>5, Zenon DEF f, g

\* A range of tasks leaves the array, ...
LEMMA RangeTaken ==
  ASSUME Inv, Inv', NEW w \in Workers, NEW m \in Int, NEW s \in Seq(Tasks),
         \A i \in 1 .. Len(s) : m + i \notin Live(w)' /\ s[i] = slots[w][Slot(m + i)],
         Live(w) = Live(w)' \cup {m + i : i \in 1 .. Len(s)},
         \A i \in Live(w)' : slots'[w][Slot(i)] = slots[w][Slot(i)], NEW t
  PROVE  /\ Occ(Contents[w], t) = Occ(Contents'[w], t) + Occ(s, t)
         /\ Occ(Contents[w], t) \in Nat /\ Occ(Contents'[w], t) \in Nat
         /\ Occ(s, t) \in Nat
<1> DEFINE f == Contents'[w]
           g == Contents[w]
           L == Live(w)'
           K == {m + i : i \in 1 .. Len(s)}
<1>1. f = [i \in L |-> slots'[w][Slot(i)]]
  BY ContentsOf
<1>2. g = [i \in L \cup K |-> slots[w][Slot(i)]]
  BY ContentsOf
<1>3. IsFiniteSet(DOMAIN f)
  BY ContentsOwnedNext DEF Owned
<1>4. /\ \A i \in 1 .. Len(s) : m + i \notin L /\ m + i \in K
                               /\ s[i] = slots[w][Slot(m + i)]
      /\ \A i \in L : slots'[w][Slot(i)] = slots[w][Slot(i)]
  OBVIOUS
<1> HIDE DEF f, g, L, K
<1>5. DOMAIN f = L /\ DOMAIN g = L \cup K
  BY <1>1, <1>2
<1>6. /\ \A i \in L : g[i] = f[i]
      /\ \A i \in 1 .. Len(s) : g[m + i] = s[i]
  BY <1>1, <1>2, <1>4
<1>7. /\ \A i \in 1 .. Len(s) : m + i \notin DOMAIN f
      /\ DOMAIN g = DOMAIN f \cup {m + i : i \in 1 .. Len(s)}
      /\ \A i \in DOMAIN f : g[i] = f[i]
      /\ \A i \in 1 .. Len(s) : g[m + i] = s[i]
  BY <1>4, <1>5, <1>6, Zenon DEF K
<1>8. /\ Occ(g, t) = Occ(f, t) + Occ(s, t)
      /\ Occ(g, t) \in Nat /\ Occ(f, t) \in Nat /\ Occ(s, t) \in Nat
  BY <1>3, <1>7, OccRangeMore, ZenonT(30)
<1> QED
  BY <1>8 DEF f, g

\* ... or enters it.
LEMMA RangeFilled ==
  ASSUME Inv, NEW w \in Workers, NEW m \in Int, NEW s \in Seq(Tasks),
         \A i \in 1 .. Len(s) : m + i \notin Live(w) /\ s[i] = slots'[w][Slot(m + i)],
         Live(w)' = Live(w) \cup {m + i : i \in 1 .. Len(s)},
         \A i \in Live(w) : slots'[w][Slot(i)] = slots[w][Slot(i)], NEW t
  PROVE  /\ Occ(Contents'[w], t) = Occ(Contents[w], t) + Occ(s, t)
         /\ Occ(Contents[w], t) \in Nat /\ Occ(Contents'[w], t) \in Nat
         /\ Occ(s, t) \in Nat
<1> DEFINE f == Contents[w]
           g == Contents'[w]
           L == Live(w)
           K == {m + i : i \in 1 .. Len(s)}
<1>1. f = [i \in L |-> slots[w][Slot(i)]]
  BY ContentsOf
<1>2. g = [i \in L \cup K |-> slots'[w][Slot(i)]]
  BY ContentsOf
<1>3. IsFiniteSet(DOMAIN f)
  BY ContentsOwned DEF Owned
<1>4. /\ \A i \in 1 .. Len(s) : m + i \notin L /\ m + i \in K
                               /\ s[i] = slots'[w][Slot(m + i)]
      /\ \A i \in L : slots'[w][Slot(i)] = slots[w][Slot(i)]
  OBVIOUS
<1> HIDE DEF f, g, L, K
<1>5. DOMAIN f = L /\ DOMAIN g = L \cup K
  BY <1>1, <1>2
<1>6. /\ \A i \in L : g[i] = f[i]
      /\ \A i \in 1 .. Len(s) : g[m + i] = s[i]
  BY <1>1, <1>2, <1>4
<1>7. /\ \A i \in 1 .. Len(s) : m + i \notin DOMAIN f
      /\ DOMAIN g = DOMAIN f \cup {m + i : i \in 1 .. Len(s)}
      /\ \A i \in DOMAIN f : g[i] = f[i]
      /\ \A i \in 1 .. Len(s) : g[m + i] = s[i]
  BY <1>4, <1>5, <1>6, Zenon DEF K
<1>8. /\ Occ(g, t) = Occ(f, t) + Occ(s, t)
      /\ Occ(g, t) \in Nat /\ Occ(f, t) \in Nat /\ Occ(s, t) \in Nat
  BY <1>3, <1>7, OccRangeMore, ZenonT(30)
<1> QED
  BY <1>8 DEF f, g

\* A thief's claim lies between the steal pointer and the local head, ...
LEMMA ClaimsInside ==
  ASSUME Inv, NEW w \in Workers, NEW i \in Claims(w)
  PROVE  /\ QueueFact(w) /\ i \in Nat /\ head[w].steal <= i /\ i < head[w].local
         /\ \E u \in Workers : /\ Stealing(u) /\ victim[u] = w
                             /\ reg[u].steal <= i /\ i < reg[u].steal + num[u]
                             /\ reg[u].steal \in Nat /\ num[u] \in Nat
<1>1. PICK u \in Workers : /\ pc[u] = "steal_copy" /\ victim[u] = w
                          /\ i \in reg[u].steal + copied[u] .. reg[u].steal + num[u] - 1
  BY DEF Claims
<1>2. Stealing(u)
  BY <1>1 DEF Stealing
<1>3. /\ QueueFact(w) /\ reg[u].steal \in Nat /\ num[u] \in Nat /\ copied[u] \in Nat
      /\ reg[u].steal = head[w].steal /\ reg[u].steal + num[u] <= head[w].local
  BY <1>1, <1>2, ClaimInWindow
<1>4. /\ i \in Nat /\ reg[u].steal <= i /\ i < reg[u].steal + num[u]
  BY <1>1, <1>3
<1>5. head[w].steal <= i /\ i < head[w].local
  BY <1>3, <1>4 DEF QueueFact
<1> QED
  BY <1>1, <1>2, <1>3, <1>4, <1>5

\* ... so no task is the owner's and a thief's.
LEMMA MineUnclaimed ==
  ASSUME Inv, NEW w \in Workers
  PROVE  Mine(w) \cap Claims(w) = {}
<1> SUFFICES ASSUME NEW i \in Claims(w), i \in Mine(w) PROVE FALSE
  OBVIOUS
<1>1. /\ QueueFact(w) /\ i \in Nat /\ head[w].steal <= i /\ i < head[w].local
  BY ClaimsInside
<1>2. PICK u \in Workers : /\ Stealing(u) /\ victim[u] = w
                          /\ reg[u].steal <= i /\ i < reg[u].steal + num[u]
                          /\ reg[u].steal \in Nat /\ num[u] \in Nat
  BY ClaimsInside
<1>3. OwnerInv(w) /\ Half \in Nat /\ copied[w] \in Nat
  BY HalfFits DEF Inv, IndexInv, ThreadInv, TypeOK
<1>4. CASE i \in head[w].local .. tail[w] - 1
  BY <1>1, <1>4 DEF QueueFact
<1>5. CASE i = reg[w].local /\ pc[w] = "pop_take"
  <2>1. \/ reg[u].steal + num[u] <= reg[w].local
        \/ reg[w].local < reg[u].steal
    BY <1>2, <1>5 DEF Inv, IndexInv, PopApart
  <2> QED
    BY <1>1, <1>2, <1>5, <2>1
<1>6. CASE i \in reg[w].local .. reg[w].local + Half - 1 /\ pc[w] = "overflow_move"
  BY <1>1, <1>3, <1>6 DEF QueueFact, OwnerInv
<1>7. CASE i \in tail[w] .. tail[w] + copied[w] - 1
  BY <1>1, <1>3, <1>7 DEF QueueFact
<1> QED
  BY <1>4, <1>5, <1>6, <1>7 DEF Mine

\* push_back puts the task in a free slot.
LEMMA PushWriteCounts ==
  ASSUME Inv, Inv', NEW w \in Workers, OthersKept(w), HandInv(w), PushWrite(w)
  PROVE  Counts /\ HandInv(w)'
<1> DEFINE k == tail[w]
           x == hand[w][1]
<1>1. /\ UNCHANGED <<head, global, submitted, dropped, runs>>
      /\ pc[w] = "push_write"
      /\ slots' = [slots EXCEPT ![w][Slot(k)] = x]
      /\ tail' = [tail EXCEPT ![w] = k + 1]
      /\ hand' = [hand EXCEPT ![w] = << >>]
  BY DEF PushWrite, poolVars
<1>2. TypeOK /\ hand[w] \in Seq(Tasks) /\ << >> \in Seq(Tasks) /\ QueueFact(w)
  <2>1. TypeOK /\ IndexOrder
    BY DEF Inv, IndexInv
  <2>2. hand[w] \in Seq(Tasks) /\ << >> \in Seq(Tasks)
    BY <2>1 DEF TypeOK
  <2> QED
    BY <2>1, <2>2, QueueFacts
<1>3. pc'[w] = "idle" /\ tail'[w] = k + 1 /\ k \in Nat /\ Slot(k) \in 0 .. Capacity - 1
  BY <1>1, <1>2, SlotInRange DEF PushWrite, Goto, TypeOK, QueueFact
<1>4. Len(hand[w]) = 1 /\ hand'[w] = << >>
  BY <1>1, <1>2 DEF HandInv, TypeOK
<1>5. Live(w)' = Live(w) \cup {k}
  <2>1. Mine(w) = head[w].local .. k - 1
    BY <1>1 DEF Mine, Filling, Stealing
  <2>2. Mine(w)' = head'[w].local .. tail'[w] - 1
    BY <1>3 DEF Mine, Filling, Stealing
  <2>3. Mine(w)' = Mine(w) \cup {k}
    BY <1>1, <1>2, <1>3, <2>1, <2>2 DEF QueueFact
  <2>4. Claims(w)' = Claims(w)
    BY OwnContents
  <2> QED
    BY <2>3, <2>4, LiveParts
<1>6. k \notin Live(w) /\ \A i \in Live(w) : Slot(i) # Slot(k)
  <2>1. High(w) = k
    BY <1>1 DEF High, Filling, Stealing
  <2>2. k \notin Live(w)
    BY <1>3, <2>1, LiveInWindow
  <2>3. Slot(k) \in WriteSlots(w)
    BY <1>1 DEF WriteSlots
  <2> QED
    BY <2>2, <2>3, NoClash DEF SlotsNeverClash
<1>7. /\ slots'[w][Slot(k)] = x
      /\ \A i \in Live(w) : slots'[w][Slot(i)] = slots[w][Slot(i)]
  <2>1. \A i \in Live(w) : Slot(i) \in 0 .. Capacity - 1
    BY LiveSlot
  <2>2. slots \in [Workers -> [0 .. Capacity - 1 -> Tasks \cup {Null}]]
    BY <1>2 DEF TypeOK
  <2> HIDE DEF k, x
  <2> QED
    BY <1>1, <1>3, <1>6, <2>1, <2>2
<1>9. \A v \in Workers \ {w} : Contents'[v] = Contents[v]
  <2> TAKE v \in Workers \ {w}
  <2>1. head'[v].local = head[v].local /\ tail'[v] = tail[v] /\ slots'[v] = slots[v]
    BY <1>1, <1>2 DEF TypeOK
  <2> QED
    BY <1>1, <1>3, <2>1, OthersContents
<1> HIDE DEF k, x
<1>10. ASSUME NEW t \in Tasks PROVE Counted(t)
  <2>1. Occ(Contents'[w], t) = Occ(Contents[w], t) + Is(x, t)
    <3>1. Occ(Contents'[w], t) = Occ(Contents[w], t) + Is(slots'[w][Slot(k)], t)
      BY <1>5, <1>6, <1>7, PlaceFilled, Zenon
    <3> QED
      BY <1>7, <3>1, Zenon
  <2>2. /\ Among(Contents', t) = Among(Contents, t) - Occ(Contents[w], t)
                                  + Occ(Contents'[w], t)
        /\ Among(Contents, t) \in Nat /\ Occ(Contents[w], t) \in Nat
    BY <1>9, ContentsCount
  <2>3. /\ Among(hand', t) = Among(hand, t) - Occ(hand[w], t) + Occ(<< >>, t)
        /\ Among(hand, t) \in Nat
    BY <1>1, <1>2, HandCount
  <2>4. Occ(<< >>, t) = 0 /\ Occ(hand[w], t) = Is(x, t) /\ Is(x, t) \in Nat
    BY <1>2, <1>4, OccEmpty, OccSingle DEF x, Is
  <2>5. runs'[t] = runs[t] /\ runs[t] \in Nat
    BY <1>1, CountTypes
  <2>6. /\ Among(Contents', t) + Among(hand', t) + runs'[t]
             = Among(Contents, t) + Among(hand, t) + runs[t]
        /\ Among(Contents', t) \in Int /\ Among(hand', t) \in Int /\ runs'[t] \in Int
    BY <2>1, <2>2, <2>3, <2>4, <2>5
  <2> QED
    BY <1>1, <2>6, Balanced
<1>11. HandInv(w)'
  BY <1>3, <1>4 DEF HandInv
<1> QED
  BY <1>1, <1>10, <1>11 DEF Counts

\* try_pop takes a task out of its slot and the worker runs it.
LEMMA PopTakeCounts ==
  ASSUME Inv, Inv', NEW w \in Workers, OthersKept(w), HandInv(w), PopTake(w)
  PROVE  Counts /\ HandInv(w)'
<1> DEFINE k == reg[w].local
           x == slots[w][Slot(k)]
<1>1. /\ UNCHANGED <<head, tail, global, hand, submitted, dropped>>
      /\ pc[w] = "pop_take" /\ Excute(x)
      /\ slots' = [slots EXCEPT ![w][Slot(k)] = Null]
  BY DEF PopTake
<1>2. TypeOK /\ QueueFact(w) /\ OwnerInv(w) /\ OwnedFull(w)
  BY QueueFacts DEF Inv, IndexInv, ThreadInv, LiveSlotsFull
<1>3. pc'[w] = "idle"
  BY <1>2 DEF PopTake, Goto, TypeOK
<1>4. x \in Tasks /\ k < head[w].local /\ k \in Nat
  BY <1>1, <1>2 DEF OwnedFull, Holds, OwnerInv, QueueFact
<1>5. k \in Live(w)
  BY <1>1 DEF Live
<1>6. Live(w)' = Live(w) \ {k}
  <2>1. Mine(w) = (head[w].local .. tail[w] - 1) \cup {k}
    BY <1>1 DEF Mine, Filling, Stealing
  <2>2. Mine(w)' = head'[w].local .. tail'[w] - 1
    BY <1>3 DEF Mine, Filling, Stealing
  <2>3. k \notin head[w].local .. tail[w] - 1
    BY <1>2, <1>4 DEF QueueFact
  <2>4. Claims(w)' = Claims(w)
    BY OwnContents
  <2>5. k \notin Claims(w)
    BY <2>1, MineUnclaimed
  <2>6. Live(w) = Mine(w) \cup Claims(w) /\ Live(w)' = Mine(w)' \cup Claims(w)'
    BY LiveParts
  <2>7. Mine(w)' = head[w].local .. tail[w] - 1
    BY <1>1, <2>2
  <2> HIDE DEF k
  <2> QED
    BY <2>1, <2>3, <2>4, <2>5, <2>6, <2>7
<1>7. \A i \in Live(w) \ {k} : slots'[w][Slot(i)] = slots[w][Slot(i)]
  <2>1. \A i \in Live(w) : Slot(i) \in 0 .. Capacity - 1
    BY LiveSlot
  <2>2. slots \in [Workers -> [0 .. Capacity - 1 -> Tasks \cup {Null}]]
    BY <1>2 DEF TypeOK
  <2>3. \A i \in Live(w) \ {k} : Slot(i) # Slot(k)
    BY <1>5, NoClash DEF SlotsNeverClash
  <2> HIDE DEF k, x
  <2> QED
    BY <1>1, <2>1, <2>2, <2>3
<1>9. \A v \in Workers \ {w} : Contents'[v] = Contents[v]
  <2> TAKE v \in Workers \ {w}
  <2>1. head'[v].local = head[v].local /\ tail'[v] = tail[v] /\ slots'[v] = slots[v]
    BY <1>1, <1>2 DEF TypeOK
  <2> QED
    BY <1>1, <1>3, <2>1, OthersContents
<1>10. /\ \A t \in Tasks : runs'[t] = runs[t] + Is(x, t) /\ Is(x, t) \in Nat
       /\ runs'[Null] = runs[Null]
  BY <1>1, <1>2, <1>4, RunCount
<1> HIDE DEF k, x
<1>11. ASSUME NEW t \in Tasks PROVE Counted(t)
  <2>2. Occ(Contents[w], t) = Occ(Contents'[w], t) + Is(x, t)
    BY <1>5, <1>6, <1>7, PlaceTaken, Zenon DEF x
  <2>3. /\ Among(Contents', t) = Among(Contents, t) - Occ(Contents[w], t)
                                  + Occ(Contents'[w], t)
        /\ Among(Contents, t) \in Nat /\ Occ(Contents'[w], t) \in Nat
    BY <1>9, ContentsCount
  <2>4. runs'[t] = runs[t] + Is(x, t) /\ Is(x, t) \in Nat
    BY <1>10
  <2>5. Among(hand', t) = Among(hand, t) /\ Among(hand, t) \in Nat /\ runs[t] \in Nat
    BY <1>1, CountTypes
  <2> QED
    BY <1>1, <2>2, <2>3, <2>4, <2>5, Balanced
<1>12. HandInv(w)'
  BY <1>1, <1>3 DEF HandInv, Pushing
<1> QED
  BY <1>10, <1>11, <1>12 DEF Counts

\* The arrays hold what they held if each of them does.
LEMMA SameContents ==
  ASSUME \A x \in Workers : Contents'[x] = Contents[x]
  PROVE  Contents' = Contents
<1>1. /\ Contents = [x \in Workers |-> Contents[x]]
      /\ Contents' = [x \in Workers |-> Contents'[x]]
  BY Zenon DEF Contents
<1> QED
  BY <1>1, Zenon

\* A task the owner claims stays live: what its local head jumps over is what
\* its next step takes.
LEMMA ClaimedContents ==
  ASSUME Inv, Inv', NEW w \in Workers, OthersKept(w), UNCHANGED <<tail, slots>>,
         \A x \in Workers \ {w} : head'[x].local = head[x].local,
         pc[w] # "steal_copy", pc'[w] # "steal_copy", Mine(w)' = Mine(w)
  PROVE  Contents' = Contents
<1>1. Contents'[w] = Contents[w]
  <2>1. Claims(w)' = Claims(w)
    BY OwnContents
  <2> QED
    BY <2>1, LiveParts, ContentsKept
<1>2. ASSUME NEW x \in Workers \ {w} PROVE Contents'[x] = Contents[x]
  BY OthersContents
<1> QED
  BY <1>1, <1>2, SameContents

\* Two ranges that meet.
LEMMA RangeSplit ==
  ASSUME NEW a \in Int, NEW b \in Int, NEW c \in Int, a <= b, b <= c + 1
  PROVE  a .. c = (a .. b - 1) \cup (b .. c)
OBVIOUS

\* handle_overflow claims half of the array.
LEMMA OverflowCASCounts ==
  ASSUME Inv, Inv', NEW w \in Workers, OthersKept(w), HandInv(w), OverflowCAS(w)
  PROVE  Counts /\ HandInv(w)'
<1>1. /\ UNCHANGED <<tail, slots, hand, global, dropped, submitted, runs>>
      /\ pc[w] = "overflow_cas"
  BY DEF OverflowCAS, poolVars
<1>2. TypeOK /\ QueueFact(w) /\ OwnerInv(w)
  BY QueueFacts DEF Inv, IndexInv, ThreadInv
<1>3. Len(hand[w]) = 1
  BY <1>1 DEF HandInv
<1>4. pc'[w] \in {"overflow_move", "push_load"}
  BY <1>2 DEF OverflowCAS, Goto, TypeOK
<1>5. HandInv(w)'
  BY <1>1, <1>3, <1>4 DEF HandInv, Pushing
<1>6. CASE SameHead(head[w], reg[w])
  <2>1. /\ head' = [head EXCEPT ![w] = Pack(reg[w].local + Half, reg[w].local + Half)]
        /\ Goto(w, "overflow_move") /\ UNCHANGED reg
    BY <1>6 DEF OverflowCAS, locals
  <2>2. head[w] = reg[w]
    BY <1>2, <1>6, SameHeadIsEqual DEF QueueFact
  <2>3. /\ head'[w].local = reg[w].local + Half /\ pc'[w] = "overflow_move"
        /\ \A x \in Workers \ {w} : head'[x] = head[x]
    BY <1>2, <2>1 DEF Goto, TypeOK, Pack
  <2>4. Mine(w) = reg[w].local .. tail[w] - 1
    BY <1>1, <2>2 DEF Mine, Filling, Stealing
  <2>5. Mine(w)' = (reg[w].local + Half .. tail[w] - 1)
                   \cup (reg[w].local .. reg[w].local + Half - 1)
    BY <1>1, <2>1, <2>3 DEF Mine, Filling, Stealing
  <2>6. Mine(w)' = Mine(w)
    <3>1. reg[w].local \in Int /\ tail[w] = reg[w].local + Capacity
      BY <1>1, <1>2 DEF OwnerInv, QueueFact
    <3>2. Half \in Nat /\ Capacity \in Nat /\ Half <= Capacity
      BY HalfFits, CapacityAssumption
    <3> DEFINE cut == reg[w].local + Half
               end == tail[w] - 1
    <3>3. /\ cut \in Int /\ end \in Int /\ cut <= end + 1
          /\ reg[w].local <= cut
      BY <3>1, <3>2
    <3>4. cut = reg[w].local + Half /\ cut - 1 = reg[w].local + Half - 1
      BY <3>1, <3>2
    <3> HIDE DEF cut, end
    <3>5. reg[w].local .. end = (reg[w].local .. cut - 1) \cup (cut .. end)
      BY <3>1, <3>3, RangeSplit
    <3>6. Mine(w)' = (cut .. end) \cup (reg[w].local .. cut - 1) /\ Mine(w) = reg[w].local .. end
      BY <2>4, <2>5, <3>4, Zenon DEF end
    <3> QED
      BY <3>5, <3>6
  <2>7. Contents' = Contents
    BY <1>1, <2>3, <2>6, ClaimedContents
  <2> QED
    BY <1>1, <1>5, <2>7, StillCounts
<1>7. CASE ~SameHead(head[w], reg[w])
  <2>1. UNCHANGED head /\ Goto(w, "push_load")
    BY <1>7 DEF OverflowCAS
  <2>2. pc'[w] = "push_load"
    BY <1>2, <2>1 DEF Goto, TypeOK
  <2>3. Contents' = Contents
    BY <1>1, <2>1, <2>2, QuietContents DEF Holding
  <2> QED
    BY <1>1, <1>5, <2>3, StillCounts
<1> QED
  BY <1>6, <1>7

\* try_pop claims a task.
LEMMA PopCASCounts ==
  ASSUME Inv, Inv', NEW w \in Workers, OthersKept(w), HandInv(w), PopCAS(w)
  PROVE  Counts /\ HandInv(w)'
<1>1. /\ UNCHANGED <<tail, slots, hand, global, dropped, submitted, runs>>
      /\ pc[w] = "pop_cas"
  BY DEF PopCAS, poolVars
<1>2. TypeOK /\ QueueFact(w) /\ OwnerInv(w)
  BY QueueFacts DEF Inv, IndexInv, ThreadInv
<1>3. CASE SameHead(head[w], reg[w])
  <2>1. /\ head' = [head EXCEPT ![w] = NextHead(reg[w])]
        /\ Goto(w, "pop_take") /\ UNCHANGED reg
    BY <1>3 DEF PopCAS, locals
  <2>2. head[w] = reg[w]
    BY <1>2, <1>3, SameHeadIsEqual DEF QueueFact
  <2>3. /\ head'[w].local = reg[w].local + 1 /\ pc'[w] = "pop_take"
        /\ \A x \in Workers \ {w} : head'[x] = head[x]
    <3>1. NextHead(reg[w]).local = reg[w].local + 1
      BY DEF NextHead, Pack
    <3> QED
      BY <1>2, <2>1, <3>1 DEF Goto, TypeOK
  <2>4. Mine(w) = reg[w].local .. tail[w] - 1
    BY <1>1, <2>2 DEF Mine, Filling, Stealing
  <2>5. Mine(w)' = (reg[w].local + 1 .. tail[w] - 1) \cup {reg[w].local}
    BY <1>1, <2>1, <2>3 DEF Mine, Filling, Stealing
  <2>6. Mine(w)' = Mine(w)
    BY <1>1, <1>2, <2>4, <2>5 DEF OwnerInv, QueueFact
  <2>7. Contents' = Contents
    BY <1>1, <2>3, <2>6, ClaimedContents
  <2>8. HandInv(w)'
    BY <1>1, <2>3 DEF HandInv, Pushing
  <2> QED
    BY <1>1, <2>7, <2>8, StillCounts
<1>4. CASE ~SameHead(head[w], reg[w])
  <2>1. UNCHANGED head /\ pc'[w] \in {"pop_cas", "idle"}
    BY <1>2, <1>4 DEF PopCAS, Goto, TypeOK
  <2> QED
    BY <1>1, <2>1, LookCounts
<1> QED
  BY <1>3, <1>4

\* handle_overflow takes the half it claimed.
LEMMA OverflowMoveCounts ==
  ASSUME Inv, Inv', NEW w \in Workers, OthersKept(w), HandInv(w), OverflowMove(w)
  PROVE  Counts /\ HandInv(w)'
<1> DEFINE r == reg[w].local
           moved == [i \in 1 .. Half |-> slots[w][Slot(r + i - 1)]]
           freed == {Slot(r + i - 1) : i \in 1 .. Half}
           m == r - 1
<1>1. /\ UNCHANGED <<head, tail, global, submitted, dropped, runs>>
      /\ pc[w] = "overflow_move"
      /\ hand' = [hand EXCEPT ![w] = moved \o hand[w]]
      /\ slots' = [slots EXCEPT ![w] =
                     [s \in DOMAIN slots[w] |-> IF s \in freed THEN Null ELSE slots[w][s]]]
  BY DEF OverflowMove, poolVars
<1>2. TypeOK /\ QueueFact(w) /\ OwnerInv(w) /\ OwnedFull(w)
  BY QueueFacts DEF Inv, IndexInv, ThreadInv, LiveSlotsFull
<1>3. pc'[w] = "push_global" /\ hand[w] \in Seq(Tasks)
  BY <1>2 DEF OverflowMove, Goto, TypeOK
<1>4. /\ r \in Nat /\ m \in Int /\ Half \in Nat /\ tail[w] \in Nat
      /\ r + Half <= head[w].local /\ tail[w] = r + Capacity
      /\ r >= Start /\ head[w].local <= tail[w] /\ tail[w] <= MaxIndex
      /\ head[w].local \in Nat
  BY <1>1, <1>2, HalfFits DEF OwnerInv, QueueFact
<1>5. moved \in Seq(Tasks) /\ Len(moved) = Half
  <2>1. \A i \in 1 .. Half : r + i - 1 \in Index /\ r <= r + i - 1 /\ r + i - 1 < r + Half
    BY <1>4, IndexRange
  <2>2. \A i \in 1 .. Half : slots[w][Slot(r + i - 1)] \in Tasks
    BY <1>1, <1>2, <2>1 DEF OwnedFull, Holds
  <2>3. moved \in [1 .. Half -> Tasks]
    BY <2>2
  <2> HIDE DEF moved
  <2> QED
    BY <1>4, <2>3
<1>6. /\ Live(w) = Live(w)' \cup {m + i : i \in 1 .. Half}
      /\ \A i \in 1 .. Half : m + i \notin Live(w)'
  <2>1. Mine(w) = (head[w].local .. tail[w] - 1) \cup (r .. r + Half - 1)
    BY <1>1 DEF Mine, Filling, Stealing
  <2>2. Mine(w)' = head[w].local .. tail[w] - 1
    BY <1>1, <1>3 DEF Mine, Filling, Stealing
  <2>3. Claims(w)' = Claims(w)
    BY OwnContents
  <2>4. \A k \in r .. r + Half - 1 : k \notin Claims(w)
    BY <2>1, MineUnclaimed
  <2>5. Live(w) = Mine(w) \cup Claims(w) /\ Live(w)' = Mine(w)' \cup Claims(w)'
    BY LiveParts
  <2>6. r .. r + Half - 1 = {m + i : i \in 1 .. Half}
    <3>1. \A k : k \in r .. r + Half - 1 <=> \E i \in 1 .. Half : k = m + i
      <4>1. ASSUME NEW k \in r .. r + Half - 1 PROVE \E i \in 1 .. Half : k = m + i
        <5>1. k - m \in 1 .. Half /\ k = m + (k - m)
          BY <1>4
        <5> QED
          BY <5>1, Zenon
      <4>2. \A i \in 1 .. Half : m + i \in r .. r + Half - 1
        BY <1>4
      <4> QED
        BY <4>1, <4>2
    <3> HIDE DEF m
    <3> QED
      BY <3>1
  <2>7. \A i \in 1 .. Half : m + i \in r .. r + Half - 1
                             /\ m + i \notin head[w].local .. tail[w] - 1
    BY <1>4
  <2> HIDE DEF r, m
  <2> QED
    BY <2>1, <2>2, <2>3, <2>4, <2>5, <2>6, <2>7
<1>7. \A i \in Live(w)' : slots'[w][Slot(i)] = slots[w][Slot(i)]
  <2>1. \A i \in Live(w) : Slot(i) \in 0 .. Capacity - 1
    BY LiveSlot
  <2>2. slots \in [Workers -> [0 .. Capacity - 1 -> Tasks \cup {Null}]]
    BY <1>2 DEF TypeOK
  <2>3. ASSUME NEW i \in Live(w)' PROVE Slot(i) \notin freed /\ i \in Live(w)
    <3>1. i \in Live(w)
      BY <1>6
    <3>2. ASSUME NEW j \in 1 .. Half PROVE Slot(i) # Slot(r + j - 1)
      <4>1. m + j \in Live(w) /\ m + j # i /\ r + j - 1 = m + j
        BY <1>4, <1>6
      <4> QED
        BY <3>1, <4>1, NoClash DEF SlotsNeverClash
    <3> QED
      BY <3>1, <3>2
  <2> HIDE DEF freed
  <2> QED
    BY <1>1, <2>1, <2>2, <2>3
<1>8. \A v \in Workers \ {w} : Contents'[v] = Contents[v]
  <2> TAKE v \in Workers \ {w}
  <2>1. head'[v].local = head[v].local /\ tail'[v] = tail[v] /\ slots'[v] = slots[v]
    BY <1>1, <1>2 DEF TypeOK
  <2> QED
    BY <1>1, <1>3, <2>1, OthersContents
<1>9. \A i \in 1 .. Len(moved) : moved[i] = slots[w][Slot(m + i)]
  <2>1. \A i \in 1 .. Half : r + i - 1 = m + i
    BY <1>4
  <2> QED
    BY <1>5, <2>1
<1>10. moved \o hand[w] \in Seq(Tasks)
  BY <1>3, <1>5, ConcatType
<1>11. ASSUME NEW t \in Tasks PROVE Counted(t)
  <2> HIDE DEF moved, m
  <2>1. /\ Occ(Contents[w], t) = Occ(Contents'[w], t) + Occ(moved, t)
        /\ Occ(Contents[w], t) \in Nat /\ Occ(Contents'[w], t) \in Nat
        /\ Occ(moved, t) \in Nat
    <3>1. \A i \in 1 .. Len(moved) : m + i \notin Live(w)' /\ moved[i] = slots[w][Slot(m + i)]
      BY <1>5, <1>6, <1>9
    <3>2. Live(w) = Live(w)' \cup {m + i : i \in 1 .. Len(moved)}
      BY <1>5, <1>6
    <3> QED
      BY <1>4, <1>5, <1>7, <3>1, <3>2, RangeTaken
  <2>2. /\ Among(Contents', t) = Among(Contents, t) - Occ(Contents[w], t)
                                  + Occ(Contents'[w], t)
        /\ Among(Contents, t) \in Nat
    BY <1>8, ContentsCount
  <2>3. /\ Among(hand', t) = Among(hand, t) - Occ(hand[w], t) + Occ(moved \o hand[w], t)
        /\ Among(hand, t) \in Nat /\ Occ(hand[w], t) \in Nat
    BY <1>1, <1>2, <1>10, HandCount
  <2>4. Occ(moved \o hand[w], t) = Occ(moved, t) + Occ(hand[w], t)
    BY <1>3, <1>5, OccConcat
  <2>5. runs'[t] = runs[t] /\ runs[t] \in Nat
    BY <1>1, CountTypes
  <2>6. /\ Among(Contents', t) + Among(hand', t) + runs'[t]
             = Among(Contents, t) + Among(hand, t) + runs[t]
        /\ Among(Contents', t) \in Int /\ Among(hand', t) \in Int /\ runs'[t] \in Int
    BY <2>1, <2>2, <2>3, <2>4, <2>5
  <2> QED
    BY <1>1, <2>6, Balanced
<1>12. HandInv(w)'
  BY <1>3 DEF HandInv, Pushing
<1> QED
  BY <1>1, <1>11, <1>12 DEF Counts

\* A batch is written behind the live tasks, its last task is run.
LEMMA FetchPushCounts ==
  ASSUME Inv, Inv', NEW w \in Workers, OthersKept(w), HandInv(w), FetchPush(w)
  PROVE  Counts /\ HandInv(w)'
<1> DEFINE n == Len(hand[w]) - 1
           pos(m) == CHOOSE i \in 1 .. n : Slot(tail[w] + i - 1) = m
           filled == {Slot(tail[w] + i - 1) : i \in 1 .. n}
           base == tail[w] - 1
           batch == SubSeq(hand[w], 1, n)
           x == hand[w][Len(hand[w])]
<1>1. /\ UNCHANGED <<head, global, submitted, dropped>>
      /\ pc[w] = "fetch_push" /\ Excute(x)
      /\ slots' = [slots EXCEPT ![w] =
                     [m \in DOMAIN slots[w] |->
                        IF m \in filled THEN hand[w][pos(m)] ELSE slots[w][m]]]
      /\ tail' = [tail EXCEPT ![w] = tail[w] + n]
      /\ hand' = [hand EXCEPT ![w] = << >>]
  BY DEF FetchPush, PushBackBatch
<1>2. TypeOK /\ QueueFact(w) /\ OwnerInv(w)
  BY QueueFacts DEF Inv, IndexInv, ThreadInv
<1>3. /\ hand[w] \in Seq(Tasks) /\ Len(hand[w]) \in Nat /\ Len(hand[w]) >= 1 /\ n \in Nat
      /\ n + tail[w] - head[w].steal <= Capacity
      /\ tail[w] \in Nat /\ base \in Int /\ base = tail[w] - 1
      /\ Capacity \in Nat /\ << >> \in Seq(Tasks)
      /\ Len(hand[w]) = n + 1
  <2>1. /\ hand[w] \in Seq(Tasks) /\ Len(hand[w]) >= 1 /\ << >> \in Seq(Tasks)
        /\ n + tail[w] - head[w].steal <= Capacity
    BY <1>1, <1>2 DEF OwnerInv, Pushing, TypeOK
  <2>2. tail[w] \in Nat /\ Capacity \in Nat
    BY <1>2, CapacityAssumption DEF QueueFact
  <2> QED
    BY <2>1, <2>2
<1>4. pc'[w] = "idle" /\ tail'[w] = tail[w] + n /\ hand'[w] = << >>
  BY <1>1, <1>2 DEF FetchPush, Goto, TypeOK
<1>5. /\ x \in Tasks /\ batch \in Seq(Tasks) /\ Len(batch) = n
      /\ \A i \in 1 .. n : batch[i] = hand[w][i]
  <2>1. n <= Len(hand[w]) /\ 1 \in Nat \ {0} /\ x \in Tasks
    BY <1>3
  <2> HIDE DEF n
  <2>2. /\ batch \in Seq(Tasks) /\ Len(batch) = IF 1 <= n THEN n - 1 + 1 ELSE 0
        /\ \A i \in 1 .. n - 1 + 1 : batch[i] = hand[w][1 + i - 1]
    BY <1>3, <2>1, SubSeqType
  <2> HIDE DEF batch
  <2> QED
    BY <1>3, <2>1, <2>2
<1>6. ASSUME NEW t \in Tasks PROVE Occ(hand[w], t) = Occ(batch, t) + Is(x, t)
  <2>1. Len(hand[w]) \in 1 .. Len(hand[w]) /\ SubSeq(hand[w], 1, Len(hand[w])) = hand[w]
    BY <1>3
  <2>2. Occ(SubSeq(hand[w], 1, Len(hand[w])), t)
          = Occ(SubSeq(hand[w], 1, Len(hand[w]) - 1), t) + Is(hand[w][Len(hand[w])], t)
    BY <1>3, <2>1, OccLast
  <2> QED
    BY <2>1, <2>2, Zenon
<1> HIDE DEF n, base
<1>7. /\ Live(w)' = Live(w) \cup {base + i : i \in 1 .. n}
      /\ \A i \in 1 .. n : base + i \notin Live(w)
  <2>1. Mine(w) = head[w].local .. tail[w] - 1
    BY <1>1 DEF Mine, Filling, Stealing
  <2>2. Mine(w)' = head'[w].local .. tail'[w] - 1
    BY <1>4 DEF Mine, Filling, Stealing
  <2>3. Mine(w)' = head[w].local .. tail[w] + n - 1
    <3>1. head' = head /\ tail'[w] = tail[w] + n /\ tail[w] \in Nat /\ n \in Nat
      BY <1>1, <1>3, <1>4
    <3>2. tail'[w] - 1 = tail[w] + n - 1
      BY <3>1
    <3> QED
      BY <2>2, <3>1, <3>2, Zenon
  <2>4. Claims(w)' = Claims(w)
    BY OwnContents
  <2>5. Live(w) = Mine(w) \cup Claims(w) /\ Live(w)' = Mine(w)' \cup Claims(w)'
    BY LiveParts
  <2>6. tail[w] .. tail[w] + n - 1 = {base + i : i \in 1 .. n}
    <3>1. ASSUME NEW k \in tail[w] .. tail[w] + n - 1 PROVE \E i \in 1 .. n : k = base + i
      <4>1. tail[w] \in Nat /\ n \in Nat /\ base = tail[w] - 1
        BY <1>3
      <4>2. k \in Int /\ tail[w] <= k /\ k <= tail[w] + n - 1
        BY <4>1
      <4>3. k - base \in 1 .. n /\ k = base + (k - base)
        BY <4>1, <4>2
      <4> QED
        BY <4>3, Zenon
    <3>2. \A i \in 1 .. n : base + i \in tail[w] .. tail[w] + n - 1
      BY <1>3
    <3> QED
      BY <3>1, <3>2
  <2>7. head[w].local .. tail[w] + n - 1
          = (head[w].local .. tail[w] - 1) \cup (tail[w] .. tail[w] + n - 1)
    <3>1. head[w].local \in Int /\ head[w].local <= tail[w]
      BY <1>2 DEF QueueFact
    <3> DEFINE c == tail[w] + n - 1
    <3>2. tail[w] \in Int /\ c \in Int /\ tail[w] <= c + 1
      BY <1>3
    <3> HIDE DEF c
    <3>3. head[w].local .. c = (head[w].local .. tail[w] - 1) \cup (tail[w] .. c)
      BY <3>1, <3>2, RangeSplit
    <3> QED
      BY <3>3 DEF c
  <2>8. \A i \in 1 .. n : base + i \notin Live(w)
    <3> SUFFICES ASSUME NEW i \in 1 .. n, base + i \in Live(w) PROVE FALSE
      OBVIOUS
    <3>1. base + i < High(w)
      BY LiveInWindow
    <3>2. High(w) = tail[w]
      BY <1>1 DEF High, Filling, Stealing
    <3> QED
      BY <1>3, <3>1, <3>2
  <2> QED
    BY <2>1, <2>3, <2>4, <2>5, <2>6, <2>7, <2>8
<1>8. \A i \in Live(w) : slots'[w][Slot(i)] = slots[w][Slot(i)]
  <2>1. \A i \in Live(w) : Slot(i) \in 0 .. Capacity - 1
    BY LiveSlot
  <2>2. slots \in [Workers -> [0 .. Capacity - 1 -> Tasks \cup {Null}]]
    BY <1>2 DEF TypeOK
  <2>3. ASSUME NEW i \in Live(w) PROVE Slot(i) \notin filled
    <3> SUFFICES ASSUME NEW j \in 1 .. n PROVE Slot(i) # Slot(tail[w] + j - 1)
      OBVIOUS
    <3>1. tail[w] + j - 1 \in tail[w] .. tail[w] + Len(hand[w]) - 2
      BY <1>3
    <3>2. Slot(tail[w] + j - 1) \in WriteSlots(w)
      BY <1>1, <3>1 DEF WriteSlots
    <3> QED
      BY <3>2, NoClash DEF SlotsNeverClash
  <2> HIDE DEF filled, pos
  <2> QED
    BY <1>1, <2>1, <2>2, <2>3
<1>9. \A i \in 1 .. n : slots'[w][Slot(base + i)] = hand[w][i]
  <2> TAKE i \in 1 .. n
  <2>1. base + i = tail[w] + i - 1 /\ tail[w] + i - 1 \in Nat
    BY <1>3
  <2>2. Slot(tail[w] + i - 1) \in filled /\ Slot(tail[w] + i - 1) \in 0 .. Capacity - 1
    BY <2>1, SlotInRange
  <2>3. ASSUME NEW j \in 1 .. n, Slot(tail[w] + j - 1) = Slot(tail[w] + i - 1)
        PROVE  j = i
    <3>1. /\ tail[w] + i - 1 \in Nat /\ tail[w] + j - 1 \in Nat
          /\ i \in Nat /\ j \in Nat /\ i <= n /\ j <= n /\ n <= Capacity
          /\ i >= 1 /\ j >= 1
      <4>1. n <= Capacity
        <5>1. head[w].steal <= tail[w] /\ head[w].steal \in Nat
          BY <1>2 DEF QueueFact
        <5> QED
          BY <1>3, <5>1
      <4> QED
        BY <1>3, <4>1
    <3>2. CASE i < j
      <4>1. tail[w] \in Nat /\ Capacity \in Nat /\ n \in Nat
        BY <1>3
      <4>2. tail[w] + i - 1 < tail[w] + j - 1 /\ tail[w] + j - 1 < tail[w] + i - 1 + Capacity
        BY <3>1, <3>2, <4>1
      <4> QED
        BY <2>3, <3>1, <4>2, SlotsDiffer
    <3>3. CASE j < i
      <4>1. tail[w] \in Nat /\ Capacity \in Nat /\ n \in Nat
        BY <1>3
      <4>2. tail[w] + j - 1 < tail[w] + i - 1 /\ tail[w] + i - 1 < tail[w] + j - 1 + Capacity
        BY <3>1, <3>3, <4>1
      <4> QED
        BY <2>3, <3>1, <4>2, SlotsDiffer
    <3> QED
      BY <3>1, <3>2, <3>3
  <2>4. pos(Slot(tail[w] + i - 1)) = i
    BY <2>3
  <2>5. slots \in [Workers -> [0 .. Capacity - 1 -> Tasks \cup {Null}]]
    BY <1>2 DEF TypeOK
  <2> HIDE DEF filled, pos
  <2>6. slots'[w][Slot(tail[w] + i - 1)] = hand[w][pos(Slot(tail[w] + i - 1))]
    BY <1>1, <2>2, <2>5
  <2> QED
    BY <2>1, <2>4, <2>6, Zenon
<1>10. \A v \in Workers \ {w} : Contents'[v] = Contents[v]
  <2> TAKE v \in Workers \ {w}
  <2>1. head'[v].local = head[v].local /\ tail'[v] = tail[v] /\ slots'[v] = slots[v]
    BY <1>1, <1>2 DEF TypeOK
  <2> QED
    BY <1>1, <1>4, <2>1, OthersContents
<1>11. /\ \A t \in Tasks : runs'[t] = runs[t] + Is(x, t) /\ Is(x, t) \in Nat
       /\ runs'[Null] = runs[Null]
  BY <1>1, <1>2, <1>5, RunCount
<1> HIDE DEF x, batch
<1>12. ASSUME NEW t \in Tasks PROVE Counted(t)
  <2>1. /\ Occ(Contents'[w], t) = Occ(Contents[w], t) + Occ(batch, t)
        /\ Occ(Contents[w], t) \in Nat /\ Occ(Contents'[w], t) \in Nat
        /\ Occ(batch, t) \in Nat
    <3>1. \A i \in 1 .. Len(batch) :
            base + i \notin Live(w) /\ batch[i] = slots'[w][Slot(base + i)]
      BY <1>5, <1>7, <1>9
    <3>2. Live(w)' = Live(w) \cup {base + i : i \in 1 .. Len(batch)}
      BY <1>5, <1>7
    <3> QED
      BY <1>3, <1>5, <1>8, <3>1, <3>2, RangeFilled
  <2>2. /\ Among(Contents', t) = Among(Contents, t) - Occ(Contents[w], t)
                                  + Occ(Contents'[w], t)
        /\ Among(Contents, t) \in Nat
    BY <1>10, ContentsCount
  <2>3. /\ Among(hand', t) = Among(hand, t) - Occ(hand[w], t) + Occ(<< >>, t)
        /\ Among(hand, t) \in Nat /\ Occ(hand[w], t) \in Nat
    BY <1>1, <1>2, <1>3, HandCount
  <2>4. Occ(<< >>, t) = 0
    BY OccEmpty
  <2>5. Occ(hand[w], t) = Occ(batch, t) + Is(x, t)
    BY <1>6
  <2>6. runs'[t] = runs[t] + Is(x, t) /\ Is(x, t) \in Nat /\ runs[t] \in Nat
    BY <1>11, CountTypes
  <2>7. /\ Among(Contents', t) = Among(Contents, t) + Occ(batch, t)
        /\ Among(hand', t) + (Occ(batch, t) + Is(x, t)) = Among(hand, t)
        /\ Among(hand', t) \in Int
    <3>1. Among(Contents', t) = Among(Contents, t) + Occ(batch, t)
      BY <2>1, <2>2
    <3>2. Among(hand', t) = Among(hand, t) - Occ(hand[w], t)
      BY <2>3, <2>4
    <3>3. Among(hand', t) + Occ(hand[w], t) = Among(hand, t) /\ Among(hand', t) \in Int
      BY <2>3, <3>2
    <3> QED
      BY <2>5, <3>1, <3>3, Zenon
  <2>8. /\ Among(Contents', t) + Among(hand', t) + runs'[t]
             = Among(Contents, t) + Among(hand, t) + runs[t]
        /\ Among(Contents', t) \in Int /\ Among(hand', t) \in Int /\ runs'[t] \in Int
    <3>1. /\ Among(Contents, t) \in Nat /\ Among(hand, t) \in Nat
          /\ Occ(batch, t) \in Nat
      BY <2>1, <2>2, <2>3
    <3> QED
      BY <2>6, <2>7, <3>1
  <2> QED
    BY <1>1, <2>8, Balanced
<1>13. HandInv(w)'
  BY <1>4 DEF HandInv
<1> QED
  BY <1>11, <1>12, <1>13 DEF Counts

\* The last task a thief copied is run, the others are published.
LEMMA StealFinishCounts ==
  ASSUME Inv, Inv', NEW w \in Workers, OthersKept(w), HandInv(w), StealFinish(w)
  PROVE  Counts /\ HandInv(w)'
<1> DEFINE k == tail[w] + num[w] - 1
           x == slots[w][Slot(k)]
<1>1. /\ UNCHANGED <<head, slots, global, hand, submitted, dropped>>
      /\ pc[w] = "steal_finish" /\ Excute(x)
      /\ tail' = [tail EXCEPT ![w] = k]
  BY DEF StealFinish
<1>2. TypeOK /\ QueueFact(w) /\ ThiefInv(w) /\ FilledFull(w)
  BY QueueFacts DEF Inv, IndexInv, ThreadInv, LiveSlotsFull
<1>3. /\ num[w] \in Nat /\ num[w] >= 1 /\ copied[w] = num[w] /\ tail[w] \in Nat /\ k \in Nat
  <2>1. num[w] \in Nat /\ num[w] >= 1 /\ copied[w] = num[w] /\ tail[w] \in Nat
    BY <1>1, <1>2 DEF ThiefInv, Filling, QueueFact, TypeOK
  <2> QED
    BY <2>1
<1>4. pc'[w] = "idle" /\ tail'[w] = k
  BY <1>1, <1>2 DEF StealFinish, Goto, TypeOK
<1>5. x \in Tasks
  <2>1. Filling(w) /\ tail[w] <= k /\ k < tail[w] + copied[w]
    BY <1>1, <1>3 DEF Filling
  <2> HIDE DEF k
  <2> QED
    BY <1>2, <1>3, <2>1 DEF FilledFull, Holds
<1>6. k \in Live(w) /\ Live(w)' = Live(w) \ {k}
  <2>1. Mine(w) = (head[w].local .. tail[w] - 1) \cup (tail[w] .. tail[w] + num[w] - 1)
    BY <1>1, <1>3 DEF Mine, Filling, Stealing
  <2>2. Mine(w)' = head'[w].local .. tail'[w] - 1
    BY <1>4 DEF Mine, Filling, Stealing
  <2>3. Mine(w)' = head[w].local .. k - 1
    BY <1>1, <1>4, <2>2
  <2>4. Claims(w)' = Claims(w)
    BY OwnContents
  <2>5. Live(w) = Mine(w) \cup Claims(w) /\ Live(w)' = Mine(w)' \cup Claims(w)'
    BY LiveParts
  <2>6. k \in Mine(w) /\ Mine(w)' = Mine(w) \ {k}
    <3>1. head[w].local \in Int /\ head[w].local <= tail[w]
      BY <1>2 DEF QueueFact
    <3>2. tail[w] \in Int /\ k \in Int /\ tail[w] <= k
      BY <1>3
    <3>3. Mine(w) = (head[w].local .. tail[w] - 1) \cup (tail[w] .. k)
      BY <2>1
    <3> HIDE DEF k
    <3>4. Mine(w) = head[w].local .. k
      BY <3>1, <3>2, <3>3, RangeSplit
    <3> QED
      BY <2>3, <3>1, <3>2, <3>4
  <2>7. k \notin Claims(w)
    BY <2>6, MineUnclaimed
  <2> HIDE DEF k
  <2> QED
    BY <2>4, <2>5, <2>6, <2>7
<1>7. \A i \in Live(w) \ {k} : slots'[w][Slot(i)] = slots[w][Slot(i)]
  BY <1>1
<1>8. \A v \in Workers \ {w} : Contents'[v] = Contents[v]
  <2> TAKE v \in Workers \ {w}
  <2>1. head'[v].local = head[v].local /\ tail'[v] = tail[v] /\ slots'[v] = slots[v]
    BY <1>1, <1>2 DEF TypeOK
  <2> QED
    BY <1>1, <1>4, <2>1, OthersContents
<1>9. /\ \A t \in Tasks : runs'[t] = runs[t] + Is(x, t) /\ Is(x, t) \in Nat
      /\ runs'[Null] = runs[Null]
  BY <1>1, <1>2, <1>5, RunCount
<1> HIDE DEF k, x
<1>10. ASSUME NEW t \in Tasks PROVE Counted(t)
  <2>1. Occ(Contents[w], t) = Occ(Contents'[w], t) + Is(x, t)
    BY <1>6, <1>7, PlaceTaken, Zenon DEF x
  <2>2. /\ Among(Contents', t) = Among(Contents, t) - Occ(Contents[w], t)
                                  + Occ(Contents'[w], t)
        /\ Among(Contents, t) \in Nat /\ Occ(Contents'[w], t) \in Nat
    BY <1>8, ContentsCount
  <2>3. runs'[t] = runs[t] + Is(x, t) /\ Is(x, t) \in Nat /\ runs[t] \in Nat
    BY <1>9, CountTypes
  <2>4. Among(hand', t) = Among(hand, t) /\ Among(hand, t) \in Nat
    BY <1>1, CountTypes
  <2>5. /\ Among(Contents', t) + Among(hand', t) + runs'[t]
             = Among(Contents, t) + Among(hand, t) + runs[t]
        /\ Among(Contents', t) \in Int /\ Among(hand', t) \in Int /\ runs'[t] \in Int
    BY <2>1, <2>2, <2>3, <2>4
  <2> QED
    BY <1>1, <2>5, Balanced
<1>11. HandInv(w)'
  BY <1>1, <1>4 DEF HandInv, Pushing
<1> QED
  BY <1>9, <1>10, <1>11 DEF Counts

\* A thief's release gives slots back, not tasks.
LEMMA StealCommitCounts ==
  ASSUME Inv, Inv', NEW w \in Workers, OthersKept(w), HandInv(w), StealCommit(w)
  PROVE  Counts /\ HandInv(w)'
<1>1. /\ UNCHANGED <<tail, slots, reg, num, copied, hand, global, dropped, submitted, runs>>
      /\ pc[w] = "steal_commit"
      /\ head' = [head EXCEPT ![victim[w]] = Pack(head[victim[w]].local, head[victim[w]].local)]
  BY DEF StealCommit, locals, poolVars
<1>2. TypeOK
  BY DEF Inv
<1>3. pc'[w] = "steal_finish"
  BY <1>2 DEF StealCommit, Goto, TypeOK
<1>4. \A x \in Workers : head'[x].local = head[x].local
  BY <1>1, <1>2 DEF TypeOK, Pack
<1>5. Mine(w)' = Mine(w)
  <2>1. Filling(w) /\ Filling(w)'
    BY <1>1, <1>3 DEF Filling, Stealing
  <2>2. Mine(w) = (head[w].local .. tail[w] - 1) \cup (tail[w] .. tail[w] + copied[w] - 1)
    BY <1>1, <2>1 DEF Mine
  <2>3. Mine(w)' = (head'[w].local .. tail'[w] - 1)
                   \cup (tail'[w] .. tail'[w] + copied'[w] - 1)
    BY <1>3, <2>1 DEF Mine
  <2> QED
    BY <1>1, <1>4, <2>2, <2>3
<1>6. Contents' = Contents
  BY <1>1, <1>3, <1>4, <1>5, ClaimedContents
<1>7. HandInv(w)'
  BY <1>1, <1>3 DEF HandInv, Pushing
<1> QED
  BY <1>1, <1>6, <1>7, StillCounts

\* Closing the global queue moves nothing.
LEMMA CloseCounts ==
  ASSUME Close
  PROVE  Counts
<1>1. UNCHANGED <<head, tail, slots, pc, reg, num, copied, victim, hand, global,
                  dropped, submitted, runs>>
  BY DEF Close, queueVars, locals, poolVars
<1>2. Contents' = Contents
  BY <1>1, UnmovedContents
<1> QED
  BY <1>1, <1>2, StillCounts

\* What is live for another thread besides its published tasks.
Rest(x) ==
  {i \in {reg[x].local} : pc[x] = "pop_take"}
  \cup {i \in reg[x].local .. reg[x].local + Half - 1 : pc[x] = "overflow_move"}
  \cup {i \in tail[x] .. tail[x] + copied[x] - 1 : Filling(x)}

\* A step of w leaves the rest of another thread's live indices as it was.
LEMMA MineOther ==
  ASSUME NEW w \in Workers, OthersKept(w), NEW x \in Workers \ {w}, tail'[x] = tail[x]
  PROVE  /\ Mine(x) = (head[x].local .. tail[x] - 1) \cup Rest(x)
         /\ Mine(x)' = (head'[x].local .. tail[x] - 1) \cup Rest(x)
<1>1. /\ pc'[x] = pc[x] /\ reg'[x] = reg[x] /\ copied'[x] = copied[x]
      /\ Filling(x)' = Filling(x)
  BY DEF OthersKept, Filling, Stealing
<1>2. Mine(x) = (head[x].local .. tail[x] - 1) \cup Rest(x)
  BY DEF Mine, Rest
<1>3. Mine(x)' = (head'[x].local .. tail'[x] - 1) \cup Rest(x)'
  BY DEF Mine, Rest
<1>4. Rest(x)' = Rest(x)
  BY <1>1, Zenon DEF Rest
<1> QED
  BY <1>2, <1>3, <1>4

\* The claims on the queue the thread copies from are its own.
LEMMA OwnClaim ==
  ASSUME Inv, NEW w \in Workers, pc[w] = "steal_copy"
  PROVE  Claims(victim[w]) = reg[w].steal + copied[w] .. reg[w].steal + num[w] - 1
<1>1. ASSUME NEW u \in Workers, pc[u] = "steal_copy", victim[u] = victim[w]
      PROVE  u = w
  <2>1. Stealing(u) /\ Stealing(w)
    BY <1>1 DEF Stealing
  <2> QED
    BY <1>1, <2>1, ClaimInWindow
<1>2. {x \in Workers : pc[x] = "steal_copy" /\ victim[x] = victim[w]} = {w}
  BY <1>1
<1> QED
  BY <1>2 DEF Claims

\* ... and nobody's when its steal pointer and its local head agree.
LEMMA NoClaim ==
  ASSUME Inv, NEW v \in Workers, head[v].steal = head[v].local
  PROVE  Claims(v) = {}
<1> SUFFICES ASSUME NEW i \in Claims(v) PROVE FALSE
  OBVIOUS
<1>1. /\ QueueFact(v) /\ i \in Nat /\ head[v].steal <= i /\ i < head[v].local
  BY ClaimsInside
<1> QED
  BY <1>1 DEF QueueFact

\* A thief's claim relabels tasks of the victim's queue.
LEMMA StealCASCounts ==
  ASSUME Inv, Inv', NEW w \in Workers, OthersKept(w), HandInv(w), StealCAS(w)
  PROVE  Counts /\ HandInv(w)'
<1>0. PICK v \in Workers : v = victim[w]
  BY DEF Inv, TypeOK
<1>1. /\ UNCHANGED <<tail, slots, victim, hand, global, dropped, submitted, runs>>
      /\ pc[w] = "steal_cas"
  BY DEF StealCAS, poolVars
<1>2. TypeOK
  BY DEF Inv
<1>3. QueueFact(w) /\ QueueFact(v) /\ ThiefInv(w) /\ num[w] \in Nat
  BY <1>2, QueueFacts DEF Inv, IndexInv, ThreadInv, TypeOK
<1>4. /\ v # w /\ reg[w].steal = reg[w].local /\ num[w] >= 1
      /\ reg[w].local + num[w] + num[w] <= tail[v]
  BY <1>0, <1>1, <1>3 DEF ThiefInv, Raiding
<1>5. CASE ~SameHead(head[v], reg[w])
  <2>1. UNCHANGED head /\ Goto(w, "steal_tail")
    BY <1>0, <1>5 DEF StealCAS
  <2>2. pc'[w] = "steal_tail"
    BY <1>2, <2>1 DEF Goto, TypeOK
  <2> QED
    BY <1>1, <2>1, <2>2, LookCounts
<1>6. CASE SameHead(head[v], reg[w])
  <2>1. /\ head' = [head EXCEPT ![v] = Pack(reg[w].steal, reg[w].local + num[w])]
        /\ copied' = [copied EXCEPT ![w] = 0]
        /\ Goto(w, "steal_copy") /\ UNCHANGED <<reg, num>>
    BY <1>0, <1>6 DEF StealCAS
  <2>2. head[v] = reg[w]
    BY <1>3, <1>6, SameHeadIsEqual DEF QueueFact
  <2>3. /\ pc'[w] = "steal_copy" /\ copied'[w] = 0
        /\ head'[v].local = reg[w].local + num[w]
        /\ \A x \in Workers \ {v} : head'[x] = head[x]
    BY <1>2, <2>1 DEF Goto, TypeOK, Pack
  <2>4. Contents'[w] = Contents[w]
    <3>1. Mine(w) = head[w].local .. tail[w] - 1
      BY <1>1 DEF Mine, Filling, Stealing
    <3>2. Mine(w)' = (head'[w].local .. tail'[w] - 1)
                     \cup (tail'[w] .. tail'[w] + copied'[w] - 1)
      BY <2>3 DEF Mine, Filling, Stealing
    <3>3. head'[w] = head[w] /\ tail'[w] = tail[w] /\ tail[w] \in Nat
      BY <1>1, <1>3, <1>4, <2>3 DEF QueueFact
    <3>4. tail[w] .. tail[w] + 0 - 1 = {}
      BY <3>3
    <3>5. Mine(w)' = Mine(w)
      BY <2>3, <3>1, <3>2, <3>3, <3>4
    <3>6. Claims(w)' = Claims(w)
      BY OwnContents
    <3> QED
      BY <1>1, <3>5, <3>6, LiveParts, ContentsKept
  <2>5. Contents'[v] = Contents[v]
    <3>1. /\ Mine(v) = (head[v].local .. tail[v] - 1) \cup Rest(v)
          /\ Mine(v)' = (head'[v].local .. tail[v] - 1) \cup Rest(v)
      BY <1>1, <1>2, <1>4, MineOther
    <3>2. Claims(v) = {}
      BY <1>2, <1>4, <2>2, NoClaim
    <3>3. Claims(v)' = reg[w].local .. reg[w].local + num[w] - 1
      <4>1. (Inv /\ pc[w] = "steal_copy" => Claims(victim[w])
               = reg[w].steal + copied[w] .. reg[w].steal + num[w] - 1)'
        BY OwnClaim, PTL
      <4>2. Claims(victim[w])' = reg'[w].steal + copied'[w] .. reg'[w].steal + num'[w] - 1
        BY <2>3, <4>1
      <4>3. Claims(victim[w])' = Claims(v)'
        BY <1>0, <1>1 DEF Claims
      <4>4. reg[w].local + 0 = reg[w].local
        BY <1>3 DEF QueueFact
      <4> QED
        BY <1>4, <2>1, <2>3, <4>2, <4>3, <4>4
    <3>4. head[v].local .. tail[v] - 1
            = (head'[v].local .. tail[v] - 1)
              \cup (reg[w].local .. reg[w].local + num[w] - 1)
      <4>1. /\ reg[w].local \in Nat /\ tail[v] \in Nat /\ head[v].local = reg[w].local
            /\ head'[v].local = reg[w].local + num[w]
        BY <1>3, <2>2, <2>3 DEF QueueFact
      <4> QED
        BY <1>3, <1>4, <4>1
    <3>5. Live(v)' = Live(v)
      BY <3>1, <3>2, <3>3, <3>4, LiveParts
    <3> QED
      BY <1>1, <1>2, <3>5, ContentsKept
  <2>6. ASSUME NEW x \in Workers \ {w}, x # v PROVE Contents'[x] = Contents[x]
    BY <1>0, <1>1, <2>3, <2>6, OthersContents
  <2>7. Contents' = Contents
    BY <2>4, <2>5, <2>6, SameContents
  <2>8. HandInv(w)'
    BY <1>1, <2>3 DEF HandInv, Pushing
  <2> QED
    BY <1>1, <2>7, <2>8, StillCounts
<1> QED
  BY <1>5, <1>6

\* Two arrays change.
LEMMA TwoContentsCount ==
  ASSUME Inv, Inv', NEW w \in Workers, NEW v \in Workers, w # v,
         \A x \in Workers \ {w, v} : Contents'[x] = Contents[x], NEW t
  PROVE  /\ Among(Contents', t) = Among(Contents, t) - Occ(Contents[w], t)
              + Occ(Contents'[w], t) - Occ(Contents[v], t) + Occ(Contents'[v], t)
         /\ Among(Contents, t) \in Nat
         /\ Occ(Contents[w], t) \in Nat /\ Occ(Contents'[w], t) \in Nat
         /\ Occ(Contents[v], t) \in Nat /\ Occ(Contents'[v], t) \in Nat
<1> DEFINE f == Contents
           h == Contents'
           g == [x \in Workers |-> IF x = v THEN h[v] ELSE f[x]]
<1>1. Owned(f, Workers) /\ Owned(h, Workers)
  BY ContentsOwned, ContentsOwnedNext
<1>2. \A x \in Workers \ {w, v} : h[x] = f[x]
  OBVIOUS
<1>3. DOMAIN g = Workers /\ g[v] = h[v] /\ \A x \in Workers \ {v} : g[x] = f[x]
  OBVIOUS
<1> HIDE DEF f, g, h
<1>4. Owned(g, Workers)
  BY <1>1, <1>3 DEF Owned
<1>5. /\ Among(g, t) = Among(f, t) - Occ(f[v], t) + Occ(g[v], t)
      /\ Among(g, t) \in Nat /\ Among(f, t) \in Nat
      /\ Occ(f[v], t) \in Nat /\ Occ(g[v], t) \in Nat
      /\ Occ(f[v], t) <= Among(f, t)
  BY <1>1, <1>3, <1>4, WorkersAssumption, AmongChanged
<1>6. \A x \in Workers \ {w} : h[x] = g[x]
  BY <1>2, <1>3
<1>7. /\ Among(h, t) = Among(g, t) - Occ(g[w], t) + Occ(h[w], t)
      /\ Among(h, t) \in Nat /\ Among(g, t) \in Nat
      /\ Occ(g[w], t) \in Nat /\ Occ(h[w], t) \in Nat
      /\ Occ(g[w], t) <= Among(g, t)
  BY <1>1, <1>4, <1>6, WorkersAssumption, AmongChanged
<1>8. g[w] = f[w] /\ g[v] = h[v]
  BY <1>3
<1>9. Among(h, t) = Among(f, t) - Occ(f[w], t) + Occ(h[w], t) - Occ(f[v], t) + Occ(h[v], t)
  BY <1>5, <1>7, <1>8
<1>10. /\ Among(f, t) \in Nat
       /\ Occ(f[w], t) \in Nat /\ Occ(h[w], t) \in Nat
       /\ Occ(f[v], t) \in Nat /\ Occ(h[v], t) \in Nat
  BY <1>5, <1>7, <1>8
<1> QED
  BY <1>9, <1>10 DEF f, h

\* One copied task is the thief's and no longer the victim's.
LEMMA StealCopyCounts ==
  ASSUME Inv, Inv', NEW w \in Workers, OthersKept(w), HandInv(w), StealCopy(w)
  PROVE  Counts /\ HandInv(w)'
<1>0. PICK v \in Workers : v = victim[w]
  BY DEF Inv, TypeOK
<1> DEFINE k == tail[w] + copied[w]
           j == reg[w].steal + copied[w]
           x == slots[v][Slot(j)]
<1>1. /\ UNCHANGED <<head, tail, reg, num, victim, hand, global, dropped, submitted, runs>>
      /\ pc[w] = "steal_copy"
      /\ slots' = [slots EXCEPT ![w][Slot(k)] = x]
      /\ copied' = [copied EXCEPT ![w] = copied[w] + 1]
  BY <1>0 DEF StealCopy, poolVars
<1>2. TypeOK
  BY DEF Inv
<1>3. /\ QueueFact(w) /\ QueueFact(v) /\ ThiefInv(w) /\ num[w] \in Nat /\ copied[w] \in Nat
      /\ reg[w].steal \in Nat
  BY <1>2, QueueFacts DEF Inv, IndexInv, ThreadInv, TypeOK, QueueFact
<1>4. v # w /\ copied[w] < num[w] /\ k \in Nat /\ j \in Nat
  BY <1>0, <1>1, <1>3 DEF ThiefInv, Raiding, Filling, Stealing, QueueFact
<1>5. /\ pc'[w] = IF copied[w] + 1 = num[w] THEN "steal_commit" ELSE "steal_copy"
      /\ copied'[w] = copied[w] + 1
  BY <1>1, <1>2 DEF StealCopy, Goto, TypeOK
<1>6. Slot(k) \in 0 .. Capacity - 1
  BY <1>4, SlotInRange
<1>7. k \notin Live(w) /\ Live(w)' = Live(w) \cup {k}
  <2>1. Mine(w) = (head[w].local .. tail[w] - 1) \cup (tail[w] .. tail[w] + copied[w] - 1)
    BY <1>1 DEF Mine, Filling, Stealing
  <2>2. Mine(w)' = (head'[w].local .. tail'[w] - 1)
                   \cup (tail'[w] .. tail'[w] + copied'[w] - 1)
    BY <1>5 DEF Mine, Filling, Stealing
  <2>3. Mine(w)' = (head[w].local .. tail[w] - 1)
                   \cup (tail[w] .. tail[w] + (copied[w] + 1) - 1)
    BY <1>1, <1>5, <2>2
  <2>4. tail[w] .. tail[w] + (copied[w] + 1) - 1
          = (tail[w] .. tail[w] + copied[w] - 1) \cup {k}
    <3>1. tail[w] \in Nat
      BY <1>3 DEF QueueFact
    <3> QED
      BY <1>3, <3>1
  <2>5. Claims(w)' = Claims(w)
    BY OwnContents
  <2>6. k \notin Live(w)
    <3>1. High(w) = k
      BY <1>1 DEF High, Filling, Stealing
    <3> QED
      BY <1>4, <3>1, LiveInWindow
  <2> HIDE DEF k
  <2> QED
    BY <2>1, <2>3, <2>4, <2>5, <2>6, LiveParts
<1>8. /\ slots'[w][Slot(k)] = x
      /\ \A i \in Live(w) : slots'[w][Slot(i)] = slots[w][Slot(i)]
      /\ \A y \in Workers \ {w} : slots'[y] = slots[y]
  <2>1. \A i \in Live(w) : Slot(i) \in 0 .. Capacity - 1
    BY LiveSlot
  <2>2. slots \in [Workers -> [0 .. Capacity - 1 -> Tasks \cup {Null}]]
    BY <1>2 DEF TypeOK
  <2>3. Slot(k) \in WriteSlots(w)
    BY <1>1 DEF WriteSlots
  <2>4. \A i \in Live(w) : Slot(i) # Slot(k)
    BY <2>3, NoClash DEF SlotsNeverClash
  <2> HIDE DEF k, x
  <2> QED
    BY <1>1, <1>6, <2>1, <2>2, <2>4
<1>9. j \in Live(v) /\ Live(v)' = Live(v) \ {j}
  <2>1. Claims(v) = j .. reg[w].steal + num[w] - 1
    BY <1>0, <1>1, OwnClaim
  <2>2. Claims(v)' = j + 1 .. reg[w].steal + num[w] - 1
    <3>1. CASE copied[w] + 1 = num[w]
      <4>1. j + 1 .. reg[w].steal + num[w] - 1 = {}
        BY <1>3, <1>4, <3>1
      <4>2. ASSUME NEW u \in Workers, pc'[u] = "steal_copy", victim'[u] = v
            PROVE  FALSE
        <5>1. u # w
          BY <1>5, <3>1, <4>2
        <5>2. Stealing(u) /\ victim[u] = v /\ Stealing(w)
          BY <1>1, <4>2, <5>1 DEF OthersKept, Stealing
        <5> QED
          BY <1>0, <5>1, <5>2, ClaimInWindow
      <4>3. {u \in Workers : pc'[u] = "steal_copy" /\ victim'[u] = v} = {}
        BY <4>2
      <4>4. Claims(v)' = {}
        BY <4>3 DEF Claims
      <4> QED
        BY <4>1, <4>4
    <3>2. CASE copied[w] + 1 # num[w]
      <4>1. (Inv /\ pc[w] = "steal_copy" => Claims(victim[w])
               = reg[w].steal + copied[w] .. reg[w].steal + num[w] - 1)'
        BY OwnClaim, PTL
      <4>2. Claims(victim[w])' = reg'[w].steal + copied'[w] .. reg'[w].steal + num'[w] - 1
        BY <1>5, <3>2, <4>1
      <4>3. Claims(victim[w])' = Claims(v)'
        BY <1>0, <1>1 DEF Claims
      <4>4. reg[w].steal + (copied[w] + 1) = j + 1
        BY <1>3
      <4> QED
        BY <1>1, <1>5, <4>2, <4>3, <4>4
    <3> QED
      BY <3>1, <3>2
  <2>3. Mine(v)' = Mine(v)
    BY <1>1, <1>4, MineKept
  <2>4. j \in Claims(v) /\ Claims(v)' = Claims(v) \ {j}
    BY <1>3, <1>4, <2>1, <2>2
  <2>5. j \notin Mine(v)
    BY <1>2, <2>4, MineUnclaimed
  <2> HIDE DEF j
  <2> QED
    BY <2>3, <2>4, <2>5, LiveParts
<1>10. \A i \in Live(v) \ {j} : slots'[v][Slot(i)] = slots[v][Slot(i)]
  BY <1>2, <1>4, <1>8
<1>11. \A y \in Workers \ {w, v} : Contents'[y] = Contents[y]
  <2> TAKE y \in Workers \ {w, v}
  <2>1. slots'[y] = slots[y] /\ victim'[w] = v
    BY <1>0, <1>1, <1>8
  <2> QED
    BY <1>0, <1>1, <2>1, OthersContents
<1>12. ASSUME NEW t \in Tasks PROVE Counted(t)
  <2> HIDE DEF k, j
  <2>1. /\ Occ(Contents'[w], t) = Occ(Contents[w], t) + Is(slots'[w][Slot(k)], t)
        /\ Occ(Contents[w], t) \in Nat /\ Occ(Contents'[w], t) \in Nat
    BY <1>7, <1>8, PlaceFilled
  <2>2. /\ Occ(Contents[v], t) = Occ(Contents'[v], t) + Is(slots[v][Slot(j)], t)
        /\ Occ(Contents[v], t) \in Nat /\ Occ(Contents'[v], t) \in Nat
    BY <1>2, <1>9, <1>10, PlaceTaken
  <2>3. Is(slots'[w][Slot(k)], t) = Is(slots[v][Slot(j)], t) /\ Is(slots[v][Slot(j)], t) \in Nat
    BY <1>8 DEF Is
  <2>4. /\ Among(Contents', t) = Among(Contents, t) - Occ(Contents[w], t)
              + Occ(Contents'[w], t) - Occ(Contents[v], t) + Occ(Contents'[v], t)
        /\ Among(Contents, t) \in Nat
    BY <1>2, <1>4, <1>11, TwoContentsCount
  <2>5. Among(Contents', t) = Among(Contents, t)
    BY <2>1, <2>2, <2>3, <2>4
  <2>6. /\ Among(hand', t) = Among(hand, t) /\ runs'[t] = runs[t]
        /\ Among(hand, t) \in Nat /\ runs[t] \in Nat
    BY <1>1, CountTypes
  <2> QED
    BY <1>1, <2>4, <2>5, <2>6, Balanced
<1>13. HandInv(w)'
  BY <1>1, <1>5 DEF HandInv, Pushing
<1> QED
  BY <1>1, <1>12, <1>13 DEF Counts

-----------------------------------------------------------------------------
(* The counting invariant and what it says of the tasks.                   *)

\* Every step of a worker thread balances.
LEMMA WorkerCounts ==
  ASSUME CountInv, Inv', NEW w \in Workers, WorkerStep(w) \/ WorkerCall(w)
  PROVE  Counts /\ HandInv(w)' /\ OthersKept(w)
<1>1. Inv /\ HandInv(w)
  BY DEF CountInv
<1>2. OthersKept(w)
  BY <1>1, StepOthers DEF Inv
<1>3. ASSUME WorkerStep(w) PROVE Counts /\ HandInv(w)'
  <2>1. CASE PushLoad(w) \/ PushWrite(w) \/ PushGlobal(w)
    BY <1>1, <1>2, <2>1, PushLoadCounts, PushWriteCounts, PushGlobalCounts
  <2>2. CASE OverflowCAS(w) \/ OverflowMove(w)
    BY <1>1, <1>2, <2>2, OverflowCASCounts, OverflowMoveCounts
  <2>3. CASE PopCAS(w) \/ PopTake(w)
    BY <1>1, <1>2, <2>3, PopCASCounts, PopTakeCounts
  <2>4. CASE FetchPop(w) \/ FetchPush(w)
    BY <1>1, <1>2, <2>4, FetchPopCounts, FetchPushCounts
  <2>5. CASE StealTail(w) \/ StealCAS(w) \/ StealCopy(w)
    BY <1>1, <1>2, <2>5, LooksCount, StealCASCounts, StealCopyCounts
  <2>6. CASE StealCommit(w) \/ StealFinish(w)
    BY <1>1, <1>2, <2>6, StealCommitCounts, StealFinishCounts
  <2> QED
    BY <1>3, <2>1, <2>2, <2>3, <2>4, <2>5, <2>6 DEF WorkerStep
<1>4. ASSUME WorkerCall(w) PROVE Counts /\ HandInv(w)'
  <2>1. CASE \E t \in Tasks : PushBack(w, t)
    BY <1>1, <1>2, <2>1, PushBackCounts
  <2>2. CASE GlobalTryPop(w)
    BY <1>1, <1>2, <2>2, GlobalTryPopCounts
  <2>3. CASE TryPop(w) \/ FetchSize(w) \/ \E v \in Workers : BeStolenBy(w, v)
    BY <1>1, <1>2, <2>3, LooksCount
  <2> QED
    BY <1>4, <2>1, <2>2, <2>3 DEF WorkerCall
<1> QED
  BY <1>2, <1>3, <1>4

\* Totals are numbers.
LEMMA TotalNat == Inv => \A x \in Tasks : Total(x) \in Nat
BY CountTypes DEF Total

\* The same of the state after a step.
LEMMA TotalNatNext ==
  ASSUME Inv'
  PROVE  \A x \in Tasks : Total(x)' \in Nat
<1>1. (Inv => \A x \in Tasks : Total(x) \in Nat)'
  BY TotalNat, PTL
<1> QED
  BY <1>1

\* What balances keeps the invariant.
LEMMA CountsKeep ==
  ASSUME CountInv, Inv', Counts, \A w \in Workers : HandInv(w)'
  PROVE  CountInv'
<1>1. ASSUME NEW t \in Tasks PROVE Total(t)' = In(t, submitted')
  <2>1. Total(t)' + In(t, submitted) = Total(t) + In(t, submitted')
    BY DEF Counts, Counted
  <2>2. Total(t) = In(t, submitted)
    BY DEF CountInv, Balance
  <2>3. In(t, submitted) \in Nat /\ In(t, submitted') \in Nat
    BY DEF In
  <2>4. Total(t)' \in Int
    BY TotalNatNext
  <2> QED
    BY <2>1, <2>2, <2>3, <2>4
<1>2. Balance'
  BY <1>1 DEF Balance, In
<1>3. runs'[Null] = 0
  BY DEF CountInv, Counts
<1> QED
  BY <1>2, <1>3 DEF CountInv

\* Every step preserves the counting invariant.
LEMMA CountNext == CountInv /\ [Next]_vars => CountInv'
<1> SUFFICES ASSUME CountInv, [Next]_vars PROVE CountInv'
  OBVIOUS
<1>1. Inv'
  BY NextInv DEF CountInv
<1>2. ASSUME NEW w \in Workers, WorkerStep(w) \/ WorkerCall(w) PROVE CountInv'
  <2>1. Counts /\ HandInv(w)' /\ OthersKept(w)
    BY <1>1, <1>2, WorkerCounts
  <2>2. ASSUME NEW x \in Workers \ {w} PROVE HandInv(x)'
    <3>1. HandInv(x) /\ pc'[x] = pc[x] /\ hand'[x] = hand[x]
      BY <2>1 DEF CountInv, OthersKept
    <3> QED
      BY <3>1 DEF HandInv, Pushing
  <2> QED
    BY <1>1, <2>1, <2>2, CountsKeep
<1>3. ASSUME UNCHANGED <<pc, hand>> PROVE \A w \in Workers : HandInv(w)'
  BY <1>3 DEF CountInv, HandInv, Pushing
<1>4. ASSUME NEW t \in Tasks, GlobalPushBack(t) PROVE CountInv'
  <2>1. UNCHANGED <<pc, hand>>
    BY <1>4 DEF GlobalPushBack
  <2> QED
    BY <1>1, <1>3, <1>4, <2>1, GlobalPushBackCounts, CountsKeep
<1>5. CASE Close
  <2>1. UNCHANGED <<pc, hand>>
    BY <1>5 DEF Close
  <2> QED
    BY <1>1, <1>3, <1>5, <2>1, CloseCounts, CountsKeep
<1>6. CASE UNCHANGED vars
  <2>1. UNCHANGED <<head, tail, slots, pc, reg, num, copied, victim, hand, global,
                    dropped, submitted, runs>>
    BY <1>6 DEF vars
  <2>2. Counts
    BY <2>1, UnmovedContents, StillCounts
  <2> QED
    BY <1>1, <1>3, <2>1, <2>2, CountsKeep
<1> QED
  BY <1>2, <1>4, <1>5, <1>6 DEF Next

\* Empty queues hold nothing.
LEMMA CountInit == Init => CountInv
<1> SUFFICES ASSUME Init PROVE CountInv
  OBVIOUS
<1>1. Inv
  BY InitInv
<1>2. ASSUME NEW w \in Workers PROVE HandInv(w) /\ hand[w] = << >> /\ Live(w) = {}
  <2>1. pc[w] = "idle" /\ hand[w] = << >> /\ head[w].local = Start /\ tail[w] = Start
    BY DEF Init, Pack
  <2>2. Mine(w) = {}
    <3>1. Mine(w) = Start .. Start - 1
      BY <2>1 DEF Mine, Filling, Stealing
    <3> QED
      BY <3>1, IndexAssumption
  <2>3. Claims(w) = {}
    BY DEF Init, Claims
  <2>4. HandInv(w)
    BY <2>1 DEF HandInv
  <2> QED
    BY <2>1, <2>2, <2>3, <2>4, LiveParts
<1>3. ASSUME NEW t \in Tasks PROVE Total(t) = In(t, submitted)
  <2>1. Spots(Contents) = {}
    BY <1>2, ContentsOf DEF Spots, Contents
  <2>2. Spots(hand) = {}
    <3>1. DOMAIN hand = Workers /\ \A w \in Workers : DOMAIN hand[w] = {}
      BY <1>2 DEF Init
    <3> QED
      BY <3>1 DEF Spots
  <2>3. Among(Contents, t) = 0 /\ Among(hand, t) = 0
    <3>1. ASSUME NEW f, Spots(f) = {} PROVE Among(f, t) = 0
      BY <3>1, FS_EmptySet DEF Among
    <3> QED
      BY <2>1, <2>2, <3>1
  <2>4. Occ(global, t) = 0
    BY OccEmpty DEF Init
  <2>5. In(t, dropped) = 0 /\ runs[t] = 0 /\ In(t, submitted) = 0
    BY DEF Init, In
  <2> QED
    BY <2>3, <2>4, <2>5 DEF Total
<1>4. runs[Null] = 0
  BY DEF Init
<1> QED
  BY <1>1, <1>2, <1>3, <1>4 DEF CountInv, Balance

\* The sum of the places is the number of occurrences.
LEMMA TotalIsOccurrences ==
  ASSUME NEW t
  PROVE  hand \in [Workers -> Seq(Tasks)] => Occurrences(t) = Total(t)
<1> SUFFICES ASSUME hand \in [Workers -> Seq(Tasks)] PROVE Occurrences(t) = Total(t)
  OBVIOUS
<1>1. Cardinality({p \in UNION {{w} \X Live(w) : w \in Workers} :
                     slots[p[1]][Slot(p[2])] = t}) = Among(Contents, t)
  <2>1. Spots(Contents) = UNION {{w} \X Live(w) : w \in Workers}
    <3>1. DOMAIN Contents = Workers /\ \A w \in Workers : DOMAIN Contents[w] = Live(w)
      BY DEF Contents
    <3> QED
      BY <3>1 DEF Spots
  <2>2. ASSUME NEW p \in Spots(Contents)
        PROVE  Contents[p[1]][p[2]] = slots[p[1]][Slot(p[2])]
    <3>1. p[1] \in Workers /\ p[2] \in Live(p[1])
      BY <2>1
    <3>2. Contents[p[1]] = [i \in Live(p[1]) |-> slots[p[1]][Slot(i)]]
      BY <3>1 DEF Contents
    <3> QED
      BY <3>1, <3>2
  <2>3. {p \in UNION {{w} \X Live(w) : w \in Workers} : slots[p[1]][Slot(p[2])] = t}
          = {p \in Spots(Contents) : Contents[p[1]][p[2]] = t}
    BY <2>1, <2>2
  <2> QED
    BY <2>3 DEF Among
<1>2. Cardinality({p \in UNION {{w} \X DOMAIN hand[w] : w \in Workers} :
                     hand[p[1]][p[2]] = t}) = Among(hand, t)
  BY DEF Among, Spots
<1>3. Cardinality({k \in DOMAIN global : global[k] = t}) = Occ(global, t)
  BY DEF Occ
<1>4. Cardinality(dropped \cap {t}) = In(t, dropped)
  <2>1. dropped \cap {t} = IF t \in dropped THEN {t} ELSE {}
    OBVIOUS
  <2> QED
    BY <2>1, FS_EmptySet, FS_Singleton DEF In
<1> QED
  BY <1>1, <1>2, <1>3, <1>4, Zenon DEF Occurrences, Total

\* The counting invariant holds throughout every behaviour.
THEOREM CountInvAlways == Spec => []CountInv
BY CountInit, CountNext, PTL DEF Spec

\* No task is lost or duplicated: whatever pushes, overflows, pops, batches
\* and thefts do to the arrays at the same time, a submitted task is in one
\* place, or has run once, or was dropped by a push onto the closed queue.
THEOREM ConservationAlways == Spec => []Conservation
<1>1. CountInv => Conservation
  <2> SUFFICES ASSUME CountInv PROVE Conservation
    OBVIOUS
  <2>1. hand \in [Workers -> Seq(Tasks)]
    BY DEF CountInv, Inv, TypeOK
  <2>2. ASSUME NEW t \in Tasks PROVE Occurrences(t) = In(t, submitted)
    BY <2>1, TotalIsOccurrences DEF CountInv, Balance
  <2> QED
    BY <2>2 DEF CountInv, Conservation, In
<1> QED
  BY <1>1, CountInvAlways, PTL
-----------------------------------------------------------------------------
(* The queues implement TaskPool, as far as safety goes.                   *)

\* What the counting invariant says of the books: a task is nowhere, or was
\* submitted, and then was not dropped and run, nor run twice.
Books(t) ==
  /\ runs[t] \in {0, 1}
  /\ runs[t] = 1 => t \in submitted /\ t \notin dropped
  /\ t \in dropped => t \in submitted

\* The counting invariant keeps the books.
LEMMA BooksKept == CountInv => \A x \in Tasks : Books(x)
<1> SUFFICES ASSUME CountInv, NEW x \in Tasks PROVE Books(x)
  OBVIOUS
<1>1. Inv /\ Total(x) = In(x, submitted)
  BY DEF CountInv, Balance
<1>2. /\ Among(Contents, x) \in Nat /\ Among(hand, x) \in Nat /\ Occ(global, x) \in Nat
      /\ In(x, dropped) \in Nat /\ runs[x] \in Nat /\ In(x, submitted) \in Nat
  BY <1>1, CountTypes
<1>3. runs[x] + In(x, dropped) <= In(x, submitted)
  BY <1>1, <1>2 DEF Total
<1> QED
  BY <1>2, <1>3 DEF In, Books

\* The same of the state after a step.
LEMMA BooksKeptNext ==
  ASSUME CountInv'
  PROVE  \A x \in Tasks : Books(x)'
<1>1. (CountInv => \A x \in Tasks : Books(x))'
  BY BooksKept, PTL
<1> QED
  BY <1>1

\* A task in a thread's hand is submitted, not dropped and has not run.
LEMMA HandIsReady ==
  ASSUME CountInv, NEW w \in Workers, NEW i \in DOMAIN hand[w]
  PROVE  /\ hand[w][i] \in Tasks /\ hand[w][i] \in submitted
         /\ hand[w][i] \notin dropped /\ runs[hand[w][i]] = 0
<1>1. Inv /\ TypeOK /\ hand[w] \in Seq(Tasks) /\ << >> \in Seq(Tasks)
  BY DEF CountInv, Inv, TypeOK
<1> DEFINE x == hand[w][i]
<1>2. x \in Tasks
  BY <1>1
<1>3. Occ(hand[w], x) # 0
  BY <1>1, OccNone
<1>4. /\ Occ(hand[w], x) \in Nat /\ Occ(hand[w], x) <= Among(hand, x)
  <2>1. hand \in [Workers -> Seq(Tasks)]
    BY <1>1 DEF TypeOK
  <2>2. /\ Among([hand EXCEPT ![w] = << >>], x)
             = Among(hand, x) - Occ(hand[w], x) + Occ(<< >>, x)
        /\ Among([hand EXCEPT ![w] = << >>], x) \in Nat /\ Among(hand, x) \in Nat
        /\ Occ(hand[w], x) \in Nat /\ Occ(<< >>, x) \in Nat
        /\ Occ(hand[w], x) <= Among(hand, x)
    BY <1>1, <2>1, WorkersAssumption, AmongSequences, Zenon
  <2> QED
    BY <2>2
<1>5. Total(x) = In(x, submitted)
  BY <1>2 DEF CountInv, Balance
<1>6. /\ Among(Contents, x) \in Nat /\ Among(hand, x) \in Nat /\ Occ(global, x) \in Nat
      /\ In(x, dropped) \in Nat /\ runs[x] \in Nat /\ In(x, submitted) \in Nat
  BY <1>1, <1>2, CountTypes
<1> HIDE DEF x
<1>7. 1 + runs[x] + In(x, dropped) <= In(x, submitted)
  BY <1>3, <1>4, <1>5, <1>6 DEF Total
<1>8. x \in submitted /\ x \notin dropped /\ runs[x] = 0
  BY <1>6, <1>7 DEF In
<1> QED
  BY <1>2, <1>8 DEF x

\* The kinds of steps, by what they do to the books: a task is submitted, ...
SubmitStep(x) ==
  /\ x \notin submitted /\ submitted' = submitted \cup {x}
  /\ UNCHANGED <<dropped, runs, closed>>

\* ... or dropped at once, ...
RefuseStep(x) ==
  /\ closed /\ x \notin submitted /\ submitted' = submitted \cup {x}
  /\ dropped' = dropped \cup {x} /\ UNCHANGED <<runs, closed>>

\* ... what a thread holds is dropped, ...
DropStep(w) ==
  /\ closed /\ dropped' = dropped \cup {hand[w][i] : i \in DOMAIN hand[w]}
  /\ UNCHANGED <<submitted, runs, closed>>

\* ... a task is run, ...
RunStep(x) == Excute(x) /\ UNCHANGED <<submitted, dropped, closed>>

\* ... or none of these.
InnerStep ==
  UNCHANGED <<submitted, dropped, runs>> /\ (closed' = closed \/ closed' = TRUE)

\* Each step of the specification is of one of these kinds.
LEMMA StepKinds ==
  ASSUME [Next]_vars
  PROVE  \/ \E x \in Tasks : SubmitStep(x) \/ RefuseStep(x)
         \/ \E w \in Workers : DropStep(w)
         \/ \E x : RunStep(x)
         \/ InnerStep
<1>1. ASSUME NEW w \in Workers, WorkerStep(w)
      PROVE  DropStep(w) \/ (\E x : RunStep(x)) \/ InnerStep
  <2>1. CASE PushLoad(w) \/ PushWrite(w) \/ OverflowCAS(w) \/ OverflowMove(w)
             \/ PopCAS(w) \/ FetchPop(w)
    BY <2>1 DEF PushLoad, PushWrite, OverflowCAS, OverflowMove, PopCAS, FetchPop,
       poolVars, InnerStep
  <2>2. CASE StealTail(w) \/ StealCAS(w) \/ StealCopy(w) \/ StealCommit(w)
    BY <2>2 DEF StealTail, StealCAS, StealCopy, StealCommit, poolVars, InnerStep
  <2>3. CASE PushGlobal(w)
    BY <2>3 DEF PushGlobal, DropStep, InnerStep
  <2>4. CASE PopTake(w)
    BY <2>4 DEF PopTake, RunStep
  <2>5. CASE FetchPush(w)
    BY <2>5 DEF FetchPush, RunStep
  <2>6. CASE StealFinish(w)
    BY <2>6 DEF StealFinish, RunStep
  <2> QED
    BY <1>1, <2>1, <2>2, <2>3, <2>4, <2>5, <2>6 DEF WorkerStep
<1>2. ASSUME NEW w \in Workers, WorkerCall(w)
      PROVE  (\E x \in Tasks : SubmitStep(x)) \/ (\E x : RunStep(x)) \/ InnerStep
  <2>1. CASE \E t \in Tasks : PushBack(w, t)
    BY <2>1 DEF PushBack, SubmitStep
  <2>2. CASE GlobalTryPop(w)
    BY <2>2 DEF GlobalTryPop, RunStep
  <2>3. CASE TryPop(w) \/ FetchSize(w) \/ \E v \in Workers : BeStolenBy(w, v)
    BY <2>3 DEF TryPop, FetchSize, BeStolenBy, poolVars, InnerStep
  <2> QED
    BY <1>2, <2>1, <2>2, <2>3 DEF WorkerCall
<1>3. ASSUME NEW t \in Tasks, GlobalPushBack(t) PROVE SubmitStep(t) \/ RefuseStep(t)
  BY <1>3 DEF GlobalPushBack, SubmitStep, RefuseStep
<1>4. CASE Close
  BY <1>4 DEF Close, poolVars, InnerStep
<1>5. CASE UNCHANGED vars
  BY <1>5 DEF vars, InnerStep
<1> QED
  BY <1>1, <1>2, <1>3, <1>4, <1>5 DEF Next

\* The pool's standing of one task.
LEMMA StandingOf ==
  /\ DOMAIN Standing = Tasks
  /\ \A t \in Tasks : Books(t) =>
       /\ runs[t] = 1 => Standing[t] = "done"
       /\ runs[t] = 0 /\ t \in dropped => Standing[t] = "dropped"
       /\ runs[t] = 0 /\ t \notin dropped /\ t \in submitted => Standing[t] = "ready"
       /\ runs[t] = 0 /\ t \notin dropped /\ t \notin submitted => Standing[t] = "new"
<1>1. DOMAIN Standing = Tasks
  BY DEF Standing
<1>2. ASSUME NEW t \in Tasks, Books(t), runs[t] = 1 PROVE Standing[t] = "done"
  BY <1>2 DEF Standing
<1>3. ASSUME NEW t \in Tasks, Books(t), runs[t] = 0, t \in dropped
      PROVE  Standing[t] = "dropped"
  BY <1>3 DEF Standing
<1>4. ASSUME NEW t \in Tasks, Books(t), runs[t] = 0, t \notin dropped, t \in submitted
      PROVE  Standing[t] = "ready"
  BY <1>4 DEF Standing
<1>5. ASSUME NEW t \in Tasks, Books(t), runs[t] = 0, t \notin dropped, t \notin submitted
      PROVE  Standing[t] = "new"
  BY <1>5 DEF Standing
<1> QED
  BY <1>1, <1>2, <1>3, <1>4, <1>5

\* The same of the state after a step.
LEMMA StandingNext ==
  /\ Standing' = [t \in Tasks |-> Standing'[t]]
  /\ \A t \in Tasks : Books(t)' =>
       /\ runs'[t] = 1 => Standing'[t] = "done"
       /\ runs'[t] = 0 /\ t \in dropped' => Standing'[t] = "dropped"
       /\ runs'[t] = 0 /\ t \notin dropped' /\ t \in submitted' => Standing'[t] = "ready"
       /\ runs'[t] = 0 /\ t \notin dropped' /\ t \notin submitted' => Standing'[t] = "new"
<1>1. Standing' = [t \in Tasks |-> Standing'[t]]
  BY DEF Standing
<1>2. ASSUME NEW t \in Tasks, runs'[t] = 1 PROVE Standing'[t] = "done"
  BY <1>2 DEF Standing
<1>3. ASSUME NEW t \in Tasks, runs'[t] = 0, t \in dropped'
      PROVE  Standing'[t] = "dropped"
  BY <1>3 DEF Standing
<1>4. ASSUME NEW t \in Tasks, runs'[t] = 0, t \notin dropped', t \in submitted'
      PROVE  Standing'[t] = "ready"
  BY <1>4 DEF Standing
<1>5. ASSUME NEW t \in Tasks, runs'[t] = 0, t \notin dropped', t \notin submitted'
      PROVE  Standing'[t] = "new"
  BY <1>5 DEF Standing
<1> QED
  BY <1>1, <1>2, <1>3, <1>4, <1>5

\* A task whose books stay keeps its standing.
LEMMA StandingKept ==
  ASSUME NEW t \in Tasks, Books(t), Books(t)', runs'[t] = runs[t],
         t \in dropped' <=> t \in dropped, t \in submitted' <=> t \in submitted
  PROVE  Standing'[t] = Standing[t]
<1>1. runs[t] = 0 \/ runs[t] = 1
  BY DEF Books
<1> QED
  BY <1>1, StandingOf, StandingNext

\* The pool's actions, said of Standing.
LEMMA PoolActions ==
  /\ \A x \in Tasks : Pool!Submit(x) <=>
       /\ Standing[x] = "new" /\ Standing' = [Standing EXCEPT ![x] = "ready"]
       /\ closed' = closed
  /\ \A x \in Tasks : Pool!Execute(x) <=>
       /\ Standing[x] = "ready" /\ Standing' = [Standing EXCEPT ![x] = "done"]
       /\ closed' = closed
  /\ \A S \in SUBSET Tasks : Pool!Drop(S) <=>
       /\ closed /\ \A t \in S : Standing[t] \in {"new", "ready"}
       /\ Standing' = [t \in Tasks |-> IF t \in S THEN "dropped" ELSE Standing[t]]
       /\ closed' = closed
  /\ Pool!Close <=> closed' = TRUE /\ Standing' = Standing
  /\ UNCHANGED Pool!vars <=> Standing' = Standing /\ closed' = closed
  /\ Pool!Init <=> Standing = [t \in Tasks |-> "new"] /\ closed = FALSE
<1>1. \A x : Pool!Submit(x) <=>
       /\ Standing[x] = "new" /\ Standing' = [Standing EXCEPT ![x] = "ready"]
       /\ closed' = closed
  BY Zenon DEF Pool!Submit, Standing
<1>2. \A x : Pool!Execute(x) <=>
       /\ Standing[x] = "ready" /\ Standing' = [Standing EXCEPT ![x] = "done"]
       /\ closed' = closed
  BY Zenon DEF Pool!Execute, Standing
<1>3. \A S : Pool!Drop(S) <=>
       /\ closed /\ \A t \in S : Standing[t] \in {"new", "ready"}
       /\ Standing' = [t \in Tasks |-> IF t \in S THEN "dropped" ELSE Standing[t]]
       /\ closed' = closed
  BY Zenon DEF Pool!Drop, Standing
<1>4. Pool!Close <=> closed' = TRUE /\ Standing' = Standing
  BY Zenon DEF Pool!Close, Standing
<1>5. UNCHANGED Pool!vars <=> Standing' = Standing /\ closed' = closed
  BY DEF Pool!vars, Standing
<1>6. Pool!Init <=> Standing = [t \in Tasks |-> "new"] /\ closed = FALSE
  BY Zenon DEF Pool!Init, Standing
<1> QED
  BY <1>1, <1>2, <1>3, <1>4, <1>5, <1>6

\* Every step of the queues is a step of the pool or leaves it alone.
LEMMA NextIsPoolStep ==
  CountInv /\ CountInv' /\ [Next]_vars => [Pool!Next]_Pool!vars
<1> SUFFICES ASSUME CountInv, CountInv', [Next]_vars PROVE [Pool!Next]_Pool!vars
  OBVIOUS
<1>1. \A t \in Tasks : Books(t) /\ Books(t)'
  BY BooksKept, BooksKeptNext
<1>2. Standing = [t \in Tasks |-> Standing[t]] /\ Standing' = [t \in Tasks |-> Standing'[t]]
  BY StandingNext DEF Standing
<1>3. ASSUME NEW x \in Tasks, SubmitStep(x) PROVE Pool!Next
  <2>1. ASSUME NEW t \in Tasks \ {x} PROVE Standing'[t] = Standing[t]
    BY <1>1, <1>3, StandingKept DEF SubmitStep
  <2>2. Standing[x] = "new" /\ Standing'[x] = "ready"
    <3>1. x \notin submitted /\ x \notin dropped /\ runs[x] = 0
      BY <1>1, <1>3 DEF Books, SubmitStep
    <3>2. x \in submitted' /\ x \notin dropped' /\ runs'[x] = 0
      BY <1>3, <3>1 DEF SubmitStep
    <3> QED
      BY <1>1, <3>1, <3>2, StandingOf, StandingNext
  <2>3. Standing' = [Standing EXCEPT ![x] = "ready"]
    BY <1>2, <2>1, <2>2
  <2>4. Pool!Submit(x)
    BY <1>3, <2>2, <2>3, PoolActions DEF SubmitStep
  <2> QED
    BY <2>4 DEF Pool!Next
<1>4. ASSUME NEW S \in SUBSET Tasks, closed, closed' = closed,
             \A t \in S : t \notin dropped /\ runs[t] = 0,
             dropped' = dropped \cup S, runs' = runs,
             \A t \in Tasks \ S : t \in submitted' <=> t \in submitted
      PROVE  Pool!Next
  <2>1. ASSUME NEW t \in Tasks \ S PROVE Standing'[t] = Standing[t]
    <3>1. t \in dropped' <=> t \in dropped
      BY <1>4
    <3> QED
      BY <1>1, <1>4, <3>1, StandingKept
  <2>2. ASSUME NEW t \in S
        PROVE  Standing[t] \in {"new", "ready"} /\ Standing'[t] = "dropped"
    <3>1. t \in Tasks /\ Books(t) /\ Books(t)'
      BY <1>1
    <3>2. runs'[t] = 0 /\ t \in dropped'
      BY <1>4
    <3>3. Standing'[t] = "dropped"
      BY <3>1, <3>2, StandingNext
    <3>4. Standing[t] \in {"new", "ready"}
      BY <1>4, <3>1, StandingOf
    <3> QED
      BY <3>3, <3>4
  <2>3. Standing' = [t \in Tasks |-> IF t \in S THEN "dropped" ELSE Standing[t]]
    BY <1>2, <2>1, <2>2
  <2>4. Pool!Drop(S)
    BY <1>4, <2>2, <2>3, PoolActions
  <2> QED
    BY <2>4 DEF Pool!Next
<1>5. ASSUME NEW x \in Tasks, RefuseStep(x) PROVE Pool!Next
  <2> DEFINE S == {x}
  <2>1. x \notin dropped /\ runs[x] = 0
    BY <1>1, <1>5 DEF Books, RefuseStep
  <2>2. S \in SUBSET Tasks /\ \A t \in S : t \notin dropped /\ runs[t] = 0
    BY <2>1
  <2>3. closed /\ dropped' = dropped \cup S /\ runs' = runs /\ closed' = closed
    BY <1>5 DEF RefuseStep
  <2>4. \A t \in Tasks \ S : t \in submitted' <=> t \in submitted
    BY <1>5 DEF RefuseStep
  <2> HIDE DEF S
  <2> QED
    BY <1>4, <2>2, <2>3, <2>4
<1>6. ASSUME NEW w \in Workers, DropStep(w) PROVE Pool!Next
  <2> DEFINE S == {hand[w][i] : i \in DOMAIN hand[w]}
  <2>1. S \in SUBSET Tasks /\ \A t \in S : t \notin dropped /\ runs[t] = 0
    BY HandIsReady
  <2>2. closed /\ dropped' = dropped \cup S /\ runs' = runs /\ closed' = closed
        /\ submitted' = submitted
    BY <1>6 DEF DropStep
  <2> HIDE DEF S
  <2> QED
    BY <1>4, <2>1, <2>2
<1>7. ASSUME NEW x, RunStep(x) PROVE Pool!Next \/ UNCHANGED Pool!vars
  <2>1. runs \in [Tasks \cup {Null} -> Nat] /\ runs[Null] = 0 /\ runs'[Null] = 0
    BY DEF CountInv, Inv, TypeOK
  <2>2. /\ runs' = [runs EXCEPT ![x] = runs[x] + 1]
        /\ dropped' = dropped /\ submitted' = submitted /\ closed' = closed
    BY <1>7 DEF RunStep, Excute
  <2>3. x # Null
    BY <2>1, <2>2
  <2>4. ASSUME NEW t \in Tasks \ {x} PROVE Standing'[t] = Standing[t]
    <3>1. runs'[t] = runs[t]
      BY <2>1, <2>2
    <3> QED
      BY <1>1, <2>2, <3>1, StandingKept
  <2>5. CASE x \in Tasks
    <3>1. runs[x] \in Nat /\ runs'[x] = runs[x] + 1
      BY <2>1, <2>2, <2>5
    <3>2. runs'[x] \in {0, 1} /\ (runs'[x] = 1 => x \in submitted' /\ x \notin dropped')
      BY <1>1, <2>5 DEF Books
    <3>3. runs[x] = 0 /\ runs'[x] = 1 /\ x \in submitted /\ x \notin dropped
      BY <2>2, <3>1, <3>2
    <3>4. Standing[x] = "ready" /\ Standing'[x] = "done"
      BY <1>1, <2>5, <3>3, StandingOf, StandingNext
    <3>5. Standing' = [Standing EXCEPT ![x] = "done"]
      BY <1>2, <2>4, <3>4
    <3>6. Pool!Execute(x)
      BY <2>2, <2>5, <3>4, <3>5, PoolActions
    <3> QED
      BY <2>5, <3>6 DEF Pool!Next
  <2>6. CASE x \notin Tasks
    <3>1. Standing' = Standing
      BY <1>2, <2>4, <2>6
    <3> QED
      BY <2>2, <3>1, PoolActions
  <2> QED
    BY <2>5, <2>6
<1>8. ASSUME InnerStep PROVE Pool!Next \/ UNCHANGED Pool!vars
  <2>1. \A t \in Tasks : Standing'[t] = Standing[t]
    BY <1>1, <1>8, StandingKept DEF InnerStep
  <2>2. Standing' = Standing
    BY <1>2, <2>1
  <2>3. CASE closed' = closed
    BY <2>2, <2>3, PoolActions
  <2>4. CASE closed' = TRUE
    BY <2>2, <2>4, PoolActions DEF Pool!Next
  <2> QED
    BY <1>8, <2>3, <2>4 DEF InnerStep
<1> QED
  BY <1>3, <1>5, <1>6, <1>7, <1>8, StepKinds

\* The queues implement the pool: a task runs at most once, only after it was
\* submitted, and is dropped only after close; no other move shows.
THEOREM QueuesImplementPool == Spec => PoolSpec
<1>1. Init => Pool!Init
  <2> SUFFICES ASSUME Init PROVE Pool!Init
    OBVIOUS
  <2>1. Standing = [t \in Tasks |-> "new"] /\ closed = FALSE
    <3>1. \A t \in Tasks : runs[t] = 0 /\ t \notin dropped /\ t \notin submitted
      BY DEF Init
    <3> QED
      BY <3>1 DEF Standing, Init
  <2> QED
    BY <2>1, PoolActions
<1> QED
  BY <1>1, NextIsPoolStep, CountNext, CountInvAlways, PTL DEF Spec, PoolSpec,
     Pool!Spec
=============================================================================
