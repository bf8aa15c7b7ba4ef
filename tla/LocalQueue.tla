----------------------------- MODULE LocalQueue -----------------------------
(***************************************************************************)
(* The work-stealing run queues of faio (runtime/core/queue.hpp): one      *)
(* LocalQueue per worker, written by its owner and consumed by the owner   *)
(* and by thieves, and the mutex-protected GlobalQueue they overflow into. *)
(*                                                                         *)
(* head[w] is the packed 64-bit word _head: a pair of 32-bit indices, the  *)
(* steal pointer and the local head.  They differ exactly while a thief is *)
(* copying tasks out of w's array.  An index variable holds the unwrapped  *)
(* count; every comparison and difference the code makes on the 32-bit     *)
(* value goes through Diff, SameIndex and SameHead, which see it modulo    *)
(* Modulus (2^32 in the code).                                             *)
(*                                                                         *)
(* One action is one atomic access (load, compare-exchange, store) of a    *)
(* shared word, or the array accesses between two of them.  A load of      *)
(* _tail by the owner, its only writer, is merged with the next access.    *)
(***************************************************************************)
EXTENDS Integers, Sequences, FiniteSets

CONSTANTS
  Workers,      \* worker threads; each owns one LocalQueue
  Tasks,        \* coroutine handles, each submitted once
  Null,         \* the null coroutine_handle<>
  Capacity,     \* template parameter CAPACITY, a power of two
  Modulus,      \* 2^32, the width of an index
  Start,        \* index all queues stand at initially (tasks already passed)
  Window        \* bound: indices a queue may advance during one behaviour

ASSUME CapacityAssumption == Capacity \in Nat \ {0}

ASSUME IndexAssumption ==
  /\ Modulus \in Nat \ {0}
  /\ Start \in Nat
  /\ Window \in Nat
  /\ Window < Modulus
  /\ Capacity < Modulus
  /\ Modulus % Capacity = 0

ASSUME NullAssumption == Null \notin Tasks

\* The workers are a vector of threads.
ASSUME WorkersAssumption == IsFiniteSet(Workers)

VARIABLES
  head,       \* _head of every queue, [steal |-> i, local |-> j]
  tail,       \* _tail of every queue
  slots,      \* _tasks of every queue
  global,     \* GlobalQueue::_queue
  closed,     \* GlobalQueue::_closed
  pc,         \* where each worker thread stands in an operation
  reg,        \* the head word the thread has loaded
  num,        \* the thread's count: steal_num, or the batch size
  copied,     \* tasks copied so far in be_stolen_by_impl's loop
  victim,     \* the queue the thread steals from
  hand,       \* tasks the thread holds in locals
  submitted,  \* tasks that entered the queues
  dropped,    \* tasks whose push threw because the global queue is closed
  runs        \* how often each task was handed to Worker::excute

queueVars == <<head, tail, slots>>
locals == <<reg, num, copied, victim>>
poolVars == <<submitted, dropped, runs>>
vars == <<head, tail, slots, global, closed,
          pc, reg, num, copied, victim, hand, submitted, dropped, runs>>

Half == Capacity \div 2
MaxIndex == Start + Window

PCs == {"idle", "push_load", "push_write", "push_global", "overflow_cas",
        "overflow_move", "pop_cas", "pop_take", "fetch_pop", "fetch_push",
        "steal_tail", "steal_cas", "steal_copy", "steal_commit",
        "steal_finish"}

Pack(s, l) == [steal |-> s, local |-> l]
Slot(i) == i % Capacity
Diff(i, j) == (i - j) % Modulus
SameIndex(i, j) == i % Modulus = j % Modulus
SameHead(h, k) == SameIndex(h.steal, k.steal) /\ SameIndex(h.local, k.local)

Goto(w, label) == pc' = [pc EXCEPT ![w] = label]

\* The operation's locals go out of scope.
Forget(w) ==
  /\ reg' = [reg EXCEPT ![w] = Pack(Start, Start)]
  /\ num' = [num EXCEPT ![w] = 0]
  /\ copied' = [copied EXCEPT ![w] = 0]
  /\ victim' = [victim EXCEPT ![w] = w]

\* Worker::excute(task): the handle is resumed.
Excute(t) == runs' = [runs EXCEPT ![t] = @ + 1]

Init ==
  /\ head = [w \in Workers |-> Pack(Start, Start)]
  /\ tail = [w \in Workers |-> Start]
  /\ slots = [w \in Workers |-> [s \in 0 .. Capacity - 1 |-> Null]]
  /\ global = << >>
  /\ closed = FALSE
  /\ pc = [w \in Workers |-> "idle"]
  /\ reg = [w \in Workers |-> Pack(Start, Start)]
  /\ num = [w \in Workers |-> 0]
  /\ copied = [w \in Workers |-> 0]
  /\ victim = [w \in Workers |-> w]
  /\ hand = [w \in Workers |-> << >>]
  /\ submitted = {}
  /\ dropped = {}
  /\ runs = [t \in Tasks \cup {Null} |-> 0]

-----------------------------------------------------------------------------
(* GlobalQueue.  Every member locks _mutex, so each one is a single step.  *)

\* push_back from a thread that is not a worker (push_task_to_global_queue).
GlobalPushBack(t) ==
  /\ t \notin submitted
  /\ submitted' = submitted \cup {t}
  /\ IF closed
       THEN dropped' = dropped \cup {t} /\ UNCHANGED global
       ELSE global' = Append(global, t) /\ UNCHANGED dropped
  /\ UNCHANGED <<queueVars, closed, pc, locals, hand, runs>>

Close ==
  /\ ~closed
  /\ closed' = TRUE
  /\ UNCHANGED <<queueVars, global, pc, locals, hand, poolVars>>

\* Worker::get_next_task and task_steal take and run one global task.
GlobalTryPop(w) ==
  /\ pc[w] = "idle"
  /\ global # << >>
  /\ Excute(Head(global))
  /\ global' = Tail(global)
  /\ UNCHANGED <<queueVars, closed, pc, locals, hand, submitted, dropped>>

-----------------------------------------------------------------------------
(* LocalQueue::push_back, by the owner.                                    *)

PushBack(w, t) ==
  /\ pc[w] = "idle"
  /\ t \notin submitted
  /\ submitted' = submitted \cup {t}
  /\ hand' = [hand EXCEPT ![w] = <<t>>]
  /\ Goto(w, "push_load")
  /\ UNCHANGED <<queueVars, global, closed, locals, dropped, runs>>

\* Mutant of HasRoom: one task too many.
HasRoomOffByOne(w, h) == Diff(tail[w], h.steal) <= Capacity

\* Mutant of HasRoom: slots a thief still reads count as free.
HasRoomFromLocal(w, h) == Diff(tail[w], h.local) < Capacity

\* Is there a free slot?  A slot a thief has claimed but not released counts
\* as occupied: the test is against the steal pointer.
HasRoom(w, h) == Diff(tail[w], h.steal) < Capacity

PushLoad(w) ==
  /\ pc[w] = "push_load"
  /\ \/ /\ HasRoom(w, head[w])
        /\ Goto(w, "push_write")
        /\ UNCHANGED reg
     \/ /\ ~HasRoom(w, head[w])
        /\ ~SameIndex(head[w].steal, head[w].local)
        /\ Goto(w, "push_global")
        /\ UNCHANGED reg
     \/ /\ ~HasRoom(w, head[w])
        /\ SameIndex(head[w].steal, head[w].local)
        /\ Goto(w, "overflow_cas")
        /\ reg' = [reg EXCEPT ![w] = head[w]]
  /\ UNCHANGED <<queueVars, global, closed, num, copied, victim, hand,
                 poolVars>>

PushWrite(w) ==
  /\ pc[w] = "push_write"
  /\ tail[w] < MaxIndex
  /\ slots' = [slots EXCEPT ![w][Slot(tail[w])] = hand[w][1]]
  /\ tail' = [tail EXCEPT ![w] = @ + 1]
  /\ hand' = [hand EXCEPT ![w] = << >>]
  /\ Goto(w, "idle")
  /\ UNCHANGED <<head, global, closed, locals, poolVars>>

\* GlobalQueue::push_back and push_back_batch of what the thread holds; on a
\* closed queue they throw and the tasks are gone.
PushGlobal(w) ==
  /\ pc[w] = "push_global"
  /\ IF closed
       THEN /\ dropped' = dropped \cup {hand[w][i] : i \in DOMAIN hand[w]}
            /\ UNCHANGED global
       ELSE global' = global \o hand[w] /\ UNCHANGED dropped
  /\ hand' = [hand EXCEPT ![w] = << >>]
  /\ Goto(w, "idle")
  /\ UNCHANGED <<queueVars, closed, locals, submitted, runs>>

\* Mutant of OverflowCAS: the claim is stored, whoever took from the queue since.
OverflowCASByStore(w) ==
  /\ pc[w] = "overflow_cas"
  /\ head' = [head EXCEPT ![w] = Pack(reg[w].local + Half, reg[w].local + Half)]
  /\ Goto(w, "overflow_move")
  /\ UNCHANGED <<locals, tail, slots, global, closed, hand, poolVars>>

\* handle_overflow, step 1: claim the older half, or give up and look again.
OverflowCAS(w) ==
  /\ pc[w] = "overflow_cas"
  /\ \/ /\ SameHead(head[w], reg[w])
        /\ head' = [head EXCEPT ![w] = Pack(reg[w].local + Half,
                                            reg[w].local + Half)]
        /\ Goto(w, "overflow_move")
        /\ UNCHANGED locals
     \/ /\ ~SameHead(head[w], reg[w])
        /\ Goto(w, "push_load")
        /\ Forget(w)
        /\ UNCHANGED head
  /\ UNCHANGED <<tail, slots, global, closed, hand, poolVars>>

\* Mutant of OverflowMove: the slots are read after they were cleared.
OverflowMoveCleared(w) ==
  /\ pc[w] = "overflow_move"
  /\ LET freed == {Slot(reg[w].local + i - 1) : i \in 1 .. Half}
     IN  /\ hand' = [hand EXCEPT ![w] = [i \in 1 .. Half |-> Null] \o @]
         /\ slots' = [slots EXCEPT ![w] =
                        [s \in DOMAIN @ |-> IF s \in freed THEN Null ELSE @[s]]]
  /\ Goto(w, "push_global")
  /\ Forget(w)
  /\ UNCHANGED <<head, tail, global, closed, poolVars>>

\* handle_overflow, step 2: the claimed tasks go in front of the new one.
OverflowMove(w) ==
  /\ pc[w] = "overflow_move"
  /\ LET moved == [i \in 1 .. Half |-> slots[w][Slot(reg[w].local + i - 1)]]
         freed == {Slot(reg[w].local + i - 1) : i \in 1 .. Half}
     IN  /\ hand' = [hand EXCEPT ![w] = moved \o @]
         /\ slots' = [slots EXCEPT ![w] =
                        [s \in DOMAIN @ |-> IF s \in freed THEN Null ELSE @[s]]]
  /\ Goto(w, "push_global")
  /\ Forget(w)
  /\ UNCHANGED <<head, tail, global, closed, poolVars>>

-----------------------------------------------------------------------------
(* LocalQueue::try_pop, by the owner.                                      *)

TryPop(w) ==
  /\ pc[w] = "idle"
  /\ ~SameIndex(head[w].local, tail[w])
  /\ reg' = [reg EXCEPT ![w] = head[w]]
  /\ Goto(w, "pop_cas")
  /\ UNCHANGED <<queueVars, global, closed, num, copied, victim, hand,
                 poolVars>>

\* Mutant of NextHead: the steal pointer follows although a thief holds it.
NextHeadReleases(h) == Pack(h.local + 1, h.local + 1)

\* The head after one task is taken: both parts move when nobody steals, the
\* local part alone when a thief holds the range from steal to local.
NextHead(h) ==
  IF SameIndex(h.local, h.steal)
    THEN Pack(h.local + 1, h.local + 1)
    ELSE Pack(h.steal, h.local + 1)

PopCAS(w) ==
  /\ pc[w] = "pop_cas"
  /\ \/ /\ SameHead(head[w], reg[w])
        /\ head' = [head EXCEPT ![w] = NextHead(reg[w])]
        /\ Goto(w, "pop_take")
        /\ UNCHANGED locals
     \/ /\ ~SameHead(head[w], reg[w])
        /\ ~SameIndex(head[w].local, tail[w])
        /\ reg' = [reg EXCEPT ![w] = head[w]]
        /\ UNCHANGED <<head, pc, num, copied, victim>>
     \/ /\ ~SameHead(head[w], reg[w])
        /\ SameIndex(head[w].local, tail[w])
        /\ Goto(w, "idle")
        /\ Forget(w)
        /\ UNCHANGED head
  /\ UNCHANGED <<tail, slots, global, closed, hand, poolVars>>

PopTake(w) ==
  /\ pc[w] = "pop_take"
  /\ Excute(slots[w][Slot(reg[w].local)])
  /\ slots' = [slots EXCEPT ![w][Slot(reg[w].local)] = Null]
  /\ Goto(w, "idle")
  /\ Forget(w)
  /\ UNCHANGED <<head, tail, global, closed, hand, submitted, dropped>>

-----------------------------------------------------------------------------
(* Worker::get_next_task's refill: a batch of the global queue, bounded by *)
(* remain_size(), is appended with push_back_batch, which checks nothing.  *)

RemainSize(w) == Capacity - Diff(tail[w], head[w].steal)

FetchSize(w) ==
  /\ pc[w] = "idle"
  /\ global # << >>
  /\ LET n == IF RemainSize(w) < Half THEN RemainSize(w) ELSE Half
     IN  n > 0 /\ num' = [num EXCEPT ![w] = n]
  /\ Goto(w, "fetch_pop")
  /\ UNCHANGED <<queueVars, global, closed, reg, copied, victim, hand,
                 poolVars>>

\* GlobalQueue::try_pop_batch.  Another consumer may have emptied the queue.
FetchPop(w) ==
  /\ pc[w] = "fetch_pop"
  /\ LET n == IF Len(global) < num[w] THEN Len(global) ELSE num[w]
     IN  /\ hand' = [hand EXCEPT ![w] = SubSeq(global, 1, n)]
         /\ global' = SubSeq(global, n + 1, Len(global))
         /\ Goto(w, IF n = 0 THEN "idle" ELSE "fetch_push")
  /\ Forget(w)
  /\ UNCHANGED <<queueVars, closed, poolVars>>

\* push_back_batch of all but the last task of the batch, which is run.
PushBackBatch(w) ==
  LET n == Len(hand[w]) - 1
      pos(s) == CHOOSE i \in 1 .. n : Slot(tail[w] + i - 1) = s
      filled == {Slot(tail[w] + i - 1) : i \in 1 .. n}
  IN  /\ slots' = [slots EXCEPT ![w] =
                     [s \in DOMAIN @ |->
                        IF s \in filled THEN hand[w][pos(s)] ELSE @[s]]]
      /\ tail' = [tail EXCEPT ![w] = @ + n]

FetchPush(w) ==
  /\ pc[w] = "fetch_push"
  /\ tail[w] + Len(hand[w]) - 1 <= MaxIndex
  /\ PushBackBatch(w)
  /\ Excute(hand[w][Len(hand[w])])
  /\ hand' = [hand EXCEPT ![w] = << >>]
  /\ Goto(w, "idle")
  /\ UNCHANGED <<head, global, closed, locals, submitted, dropped>>

-----------------------------------------------------------------------------
(* LocalQueue::be_stolen_by: worker w steals from worker v's queue.        *)

\* No theft into a queue more than half full; then the first load of _head.
BeStolenBy(w, v) ==
  /\ pc[w] = "idle"
  /\ v # w
  /\ Diff(tail[w], head[w].steal) <= Half
  /\ victim' = [victim EXCEPT ![w] = v]
  /\ reg' = [reg EXCEPT ![w] = head[v]]
  /\ Goto(w, "steal_tail")
  /\ UNCHANGED <<queueVars, global, closed, num, copied, hand, poolVars>>

\* The load of the victim's _tail, possibly later than that of its _head.
StealNum(w) == Diff(tail[victim[w]], reg[w].local) \div 2

StealTail(w) ==
  LET refused == \/ ~SameIndex(reg[w].steal, reg[w].local)
                 \/ StealNum(w) = 0
  IN
  /\ pc[w] = "steal_tail"
  /\ \/ /\ refused
        /\ Goto(w, "idle")
        /\ Forget(w)
     \/ /\ ~refused
        /\ Goto(w, "steal_cas")
        /\ num' = [num EXCEPT ![w] = StealNum(w)]
        /\ UNCHANGED <<reg, copied, victim>>
  /\ UNCHANGED <<queueVars, global, closed, hand, poolVars>>

\* Claim: the local head jumps over the stolen range, steal stays behind.
StealCAS(w) ==
  LET v == victim[w] IN
  /\ pc[w] = "steal_cas"
  /\ \/ /\ SameHead(head[v], reg[w])
        /\ head' = [head EXCEPT ![v] = Pack(reg[w].steal,
                                            reg[w].local + num[w])]
        /\ copied' = [copied EXCEPT ![w] = 0]
        /\ Goto(w, "steal_copy")
        /\ UNCHANGED <<reg, num>>
     \/ /\ ~SameHead(head[v], reg[w])
        /\ reg' = [reg EXCEPT ![w] = head[v]]
        /\ num' = [num EXCEPT ![w] = 0]
        /\ Goto(w, "steal_tail")
        /\ UNCHANGED <<head, copied>>
  /\ UNCHANGED <<tail, slots, global, closed, victim, hand, poolVars>>

\* One iteration of the copy loop.
StealCopy(w) ==
  LET v == victim[w] IN
  /\ pc[w] = "steal_copy"
  /\ slots' = [slots EXCEPT ![w][Slot(tail[w] + copied[w])] =
                 slots[v][Slot(reg[w].steal + copied[w])]]
  /\ copied' = [copied EXCEPT ![w] = @ + 1]
  /\ Goto(w, IF copied[w] + 1 = num[w] THEN "steal_commit" ELSE "steal_copy")
  /\ UNCHANGED <<head, tail, global, closed, reg, num, victim, hand, poolVars>>

\* Mutant of StealCommit: the local head of the claim is put back.
StealCommitStale(w) ==
  LET v == victim[w]
      claimed == reg[w].steal + num[w] IN
  /\ pc[w] = "steal_commit"
  /\ head' = [head EXCEPT ![v] = Pack(claimed, claimed)]
  /\ Goto(w, "steal_finish")
  /\ UNCHANGED <<tail, slots, global, closed, locals, hand, poolVars>>

\* Release: the compare-exchange loop sets steal to the local head it finds,
\* which the owner may have moved since the claim.
StealCommit(w) ==
  LET v == victim[w] IN
  /\ pc[w] = "steal_commit"
  /\ head' = [head EXCEPT ![v] = Pack(@.local, @.local)]
  /\ Goto(w, "steal_finish")
  /\ UNCHANGED <<tail, slots, global, closed, locals, hand, poolVars>>

\* The last stolen task is run, the others become visible in w's queue.
StealFinish(w) ==
  /\ pc[w] = "steal_finish"
  /\ tail[w] + num[w] - 1 <= MaxIndex
  /\ Excute(slots[w][Slot(tail[w] + num[w] - 1)])
  /\ tail' = [tail EXCEPT ![w] = @ + num[w] - 1]
  /\ Goto(w, "idle")
  /\ Forget(w)
  /\ UNCHANGED <<head, slots, global, closed, hand, submitted, dropped>>

-----------------------------------------------------------------------------
WorkerStep(w) ==
  \/ PushLoad(w) \/ PushWrite(w) \/ PushGlobal(w)
  \/ OverflowCAS(w) \/ OverflowMove(w)
  \/ PopCAS(w) \/ PopTake(w)
  \/ FetchPop(w) \/ FetchPush(w)
  \/ StealTail(w) \/ StealCAS(w) \/ StealCopy(w)
  \/ StealCommit(w) \/ StealFinish(w)

WorkerCall(w) ==
  \/ \E t \in Tasks : PushBack(w, t)
  \/ TryPop(w) \/ GlobalTryPop(w) \/ FetchSize(w)
  \/ \E v \in Workers : BeStolenBy(w, v)

Next ==
  \/ \E w \in Workers : WorkerStep(w) \/ WorkerCall(w)
  \/ \E t \in Tasks : GlobalPushBack(t)
  \/ Close

Spec == Init /\ [][Next]_vars

-----------------------------------------------------------------------------
(* Properties.                                                             *)

Index == Start .. MaxIndex
HeadWord == [steal : Index, local : Index]

\* Types: indices stay inside the window, no handle in a thread's locals is
\* null (a null handle would be resumed), counts stay within the capacity.
TypeOK ==
  /\ head \in [Workers -> HeadWord]
  /\ tail \in [Workers -> Index]
  /\ slots \in [Workers -> [0 .. Capacity - 1 -> Tasks \cup {Null}]]
  /\ global \in Seq(Tasks)
  /\ closed \in BOOLEAN
  /\ pc \in [Workers -> PCs]
  /\ reg \in [Workers -> HeadWord]
  /\ num \in [Workers -> Nat]
  /\ copied \in [Workers -> Nat]
  /\ victim \in [Workers -> Workers]
  /\ hand \in [Workers -> Seq(Tasks)]
  /\ submitted \in SUBSET Tasks
  /\ dropped \in SUBSET Tasks
  /\ runs \in [Tasks \cup {Null} -> Nat]

Stealing(w) == pc[w] \in {"steal_copy", "steal_commit"}
Filling(w) == Stealing(w) \/ pc[w] = "steal_finish"

\* In every queue steal <= local head <= tail, and the range from steal to
\* tail, tasks being copied by a thief included, fits the array.
IndexOrder ==
  \A w \in Workers :
    /\ head[w].steal <= head[w].local
    /\ head[w].local <= tail[w]
    /\ tail[w] - head[w].steal <= Capacity

\* steal and local head differ exactly while one thief, and only one, is
\* between its claim and its release; what it claimed stays between them.
ClaimIsExclusive ==
  /\ \A v \in Workers :
       head[v].steal # head[v].local =>
         \E w \in Workers : Stealing(w) /\ victim[w] = v
  /\ \A w \in Workers : Stealing(w) =>
       /\ head[victim[w]].steal = reg[w].steal
       /\ reg[w].steal + num[w] <= head[victim[w]].local
       /\ \A u \in Workers \ {w} : Stealing(u) => victim[u] # victim[w]

\* Indices of w's array that hold a task somebody still has to take: the
\* published ones, those its owner has claimed, those it is filling, and
\* those a thief has claimed and not copied yet.
Live(w) ==
  (head[w].local .. tail[w] - 1)
  \cup {i \in {reg[w].local} : pc[w] = "pop_take"}
  \cup {i \in reg[w].local .. reg[w].local + Half - 1 :
          pc[w] = "overflow_move"}
  \cup {i \in tail[w] .. tail[w] + copied[w] - 1 : Filling(w)}
  \cup UNION {reg[u].steal + copied[u] .. reg[u].steal + num[u] - 1 :
               u \in {x \in Workers : pc[x] = "steal_copy" /\ victim[x] = w}}

\* The slots w's thread may write in its next step.
WriteSlots(w) ==
  {Slot(i) : i \in
     CASE pc[w] = "push_write" -> {tail[w]}
       [] pc[w] = "fetch_push" -> tail[w] .. tail[w] + Len(hand[w]) - 2
       [] pc[w] = "steal_copy" -> {tail[w] + copied[w]}
       [] OTHER -> {}}

\* The array is plain memory: two live indices never share a slot, and an
\* owner never writes a slot that holds a task a thief is still copying, or
\* any other task that has not been taken.
SlotsNeverClash ==
  \A w \in Workers :
    /\ \A i, j \in Live(w) : i # j => Slot(i) # Slot(j)
    /\ \A i \in Live(w) : Slot(i) \notin WriteSlots(w)

Occurrences(t) ==
  Cardinality({p \in UNION {{w} \X Live(w) : w \in Workers} :
                 slots[p[1]][Slot(p[2])] = t})
  + Cardinality({p \in UNION {{w} \X DOMAIN hand[w] : w \in Workers} :
                   hand[p[1]][p[2]] = t})
  + Cardinality({k \in DOMAIN global : global[k] = t})
  + Cardinality(dropped \cap {t})
  + runs[t]

\* No task is lost or duplicated by overflow, batching, popping and stealing,
\* however they interleave: a submitted task is in exactly one place, or has
\* run exactly once, or was dropped by a push onto the closed queue; and the
\* null handle of an empty slot is never resumed.
Conservation ==
  /\ \A t \in Tasks : Occurrences(t) = IF t \in submitted THEN 1 ELSE 0
  /\ runs[Null] = 0

\* What the queues promise together: see TaskPool. Where a task stands for it.
Standing ==
  [t \in Tasks |->
     IF runs[t] > 1 THEN "run twice"
       ELSE IF runs[t] = 1 THEN "done"
       ELSE IF t \in dropped THEN "dropped"
       ELSE IF t \in submitted THEN "ready" ELSE "new"]
Pool == INSTANCE TaskPool WITH state <- Standing

\* The queues implement the pool, whatever they move between them: a task runs
\* at most once, after its submission, and is dropped only by a push after
\* close.
PoolSpec == Pool!Spec
=============================================================================
