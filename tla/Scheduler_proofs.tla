-------------------------- MODULE Scheduler_proofs --------------------------
(***************************************************************************)
(* Proofs about Scheduler, for any number of workers, tasks and any sizes: *)
(* the searchers are counted exactly, no wakeup is lost, and a coroutine   *)
(* handle is in one place.  For the last, the places of a handle are       *)
(* counted in each variable that holds handles; every step takes as many   *)
(* from one as it gives to another.                                        *)
(***************************************************************************)
EXTENDS Scheduler, Counting_proofs

-----------------------------------------------------------------------------
(* The inductive invariant.                                                *)

\* std::terminate has ended the process: nothing moves but the kernel.
Dead == pc[Main] = "terminated"

DeadTogether == \A w \in Workers : pc[w] = "terminated" <=> Dead

\* Where a call returns to, and what it was given.
Returns ==
  /\ \A w \in Workers :
       /\ pc[w] = "drive" => after[w] \in {"periodic", "idle", "woken"}
       /\ pc[w] = "notify" => after[w] \in {"running", "waiting", "loop", "update"}
       /\ pc[w] = "steal" => arg[w] \in Workers \ {w}
  /\ pc[Main] = "notify" => after[Main] = "all"

\* Between finding a task and suspending it the worker has it.
Holding ==
  \A w \in Workers :
    \/ pc[w] \in {"exec", "running"}
    \/ pc[w] = "notify" /\ after[w] = "running"
    => task[w] \in Tasks

\* The worker has seen that it has no task of its own, and nobody else gives
\* it one.
EmptyHanded ==
  \A w \in Workers :
    \/ pc[w] \in {"search", "search_inc", "scan", "steal", "pending", "waiting",
                  "contains"}
    \/ pc[w] = "notify" /\ after[w] = "waiting"
    => ~HasTask(w)

\* w is going to wait without looking at the global queue again.
Committed(w) ==
  \/ pc[w] \in {"search", "search_inc", "scan", "steal", "sleep", "pending",
                "waiting", "contains"}
  \/ pc[w] \in {"drive", "update"} /\ after[w] = "idle"
  \/ pc[w] = "notify" /\ after[w] = "waiting"

\* A task in the global queue is seen by a worker, or one is woken for it.
GlobalSeen ==
  global # << >> /\ pc[Main] \notin {"notify", "all"} =>
    \E w \in Workers : signal[w] \/ ~Committed(w)

\* w has passed its test of the shutdown flag and may wait.
PastFlag(w) ==
  \/ pc[w] \in {"sleep", "pending", "waiting", "cancel", "contains"}
  \/ pc[w] = "notify" /\ after[w] = "waiting"

\* After close every worker is woken or sees the flag before it waits.
CloseSeen ==
  closed /\ pc[Main] # "all" =>
    \A w \in Workers : signal[w] \/ isShutdown[w] \/ ~PastFlag(w)

\* w has left its sleep because the runtime closes, without cancel_sleeping.
Leaver(w) ==
  isShutdown[w] /\ pc[w] \in {"loop", "latch", "gone"} /\ ~isSearching[w]

\* _sleepers lists nobody twice, and only workers that sleep or have left.
Sleepers ==
  /\ \A i, j \in DOMAIN sleepers : i # j => sleepers[i] # sleepers[j]
  /\ \A w \in Workers : Contains(sleepers, w) => Asleep(w) \/ Leaver(w)

\* A worker's flag agrees with where it stands.
SearchFlag ==
  \A w \in Workers :
    /\ Asleep(w) \/ pc[w] = "search_inc" => ~isSearching[w]
    /\ pc[w] = "exec" => isSearching[w]

\* _searching counts the searchers, the notified sleepers, and leavers that
\* were notified.
Searchers == {w \in Workers : isSearching[w] \/ Notified(w)}

Counting ==
  \E gone \in SUBSET Workers :
    /\ \A w \in gone : Leaver(w) /\ ~Contains(sleepers, w)
    /\ searching = Cardinality(Searchers \cup gone)

Distinct(s) == \A i, j \in DOMAIN s : i # j => s[i] # s[j]

IInv ==
  /\ TypeOK /\ DeadTogether
  /\ ~Dead => /\ Returns /\ Holding /\ EmptyHanded
              /\ GlobalSeen /\ CloseSeen
              /\ Sleepers /\ SearchFlag /\ Counting
  /\ Dead => Distinct(sleepers)

-----------------------------------------------------------------------------
(* Numbers, sequences and sets.                                            *)

\* What LocalQueue::push_back is given and leaves: a local queue within its
\* capacity, and the global one.
AreQueues(q) ==
  q[1] \in Seq(Tasks) /\ Len(q[1]) <= Capacity /\ q[2] \in Seq(Tasks)

\* push_back keeps a local queue within its capacity.
LEMMA QueuePushType ==
  ASSUME NEW q, AreQueues(q), NEW t \in Tasks
  PROVE  AreQueues(QueuePush(q, t))
<1>1. Capacity \in Nat /\ Half \in Nat \ {0} /\ Half <= Capacity
  BY SchedulerAssumption DEF Half
<1>2. CASE Len(q[1]) < Capacity
  <2>1. QueuePush(q, t) = <<Append(q[1], t), q[2]>>
    BY <1>2 DEF QueuePush
  <2> QED
    BY <1>1, <1>2, <2>1 DEF AreQueues
<1>3. CASE ~(Len(q[1]) < Capacity)
  <2>1. Len(q[1]) = Capacity
    BY <1>1, <1>3 DEF AreQueues
  <2> DEFINE kept == SubSeq(q[1], Half + 1, Len(q[1]))
             moved == SubSeq(q[1], 1, Half)
  <2>2. /\ kept \in Seq(Tasks) /\ Len(kept) <= Capacity
        /\ moved \in Seq(Tasks)
    BY <1>1, <2>1, SubSeqType DEF AreQueues
  <2>3. QueuePush(q, t) = <<kept, q[2] \o Append(moved, t)>>
    BY <1>3 DEF QueuePush
  <2> HIDE DEF kept, moved
  <2>4. q[2] \o Append(moved, t) \in Seq(Tasks)
    BY <2>2 DEF AreQueues
  <2> QED
    BY <2>2, <2>3, <2>4 DEF AreQueues
<1> QED
  BY <1>2, <1>3

\* The completions of one drive are pushed one after the other.
LEMMA QueuePushAllSteps ==
  ASSUME NEW q, NEW ts \in Seq(Tasks)
  PROVE  \E pushed :
           /\ \A i \in 0 .. Len(ts) :
                pushed[i] = IF i = 0 THEN q ELSE QueuePush(pushed[i - 1], ts[i])
           /\ QueuePushAll(q, ts) = pushed[Len(ts)]
<1> DEFINE IsPushed(g, n) ==
      g = [i \in 0 .. n |-> IF i = 0 THEN q ELSE QueuePush(g[i - 1], ts[i])]
<1>1. \A n \in Nat : \E g : IsPushed(g, n)
  <2> DEFINE T == {n \in Nat : \E g : IsPushed(g, n)}
  <2>1. 0 \in T
    <3>1. IsPushed([i \in 0 .. 0 |-> q], 0)
      OBVIOUS
    <3> QED
      BY <3>1
  <2>2. ASSUME NEW n \in T PROVE n + 1 \in T
    <3>1. PICK g : IsPushed(g, n)
      OBVIOUS
    <3> DEFINE h == [i \in 0 .. n + 1 |->
                       IF i = n + 1 THEN QueuePush(g[n], ts[n + 1]) ELSE g[i]]
    <3>2. ASSUME NEW i \in 0 .. n + 1
          PROVE  h[i] = IF i = 0 THEN q ELSE QueuePush(h[i - 1], ts[i])
      <4>1. CASE i = n + 1
        BY <4>1
      <4>2. CASE i # n + 1
        <5>1. i \in 0 .. n /\ h[i] = g[i] /\ (i # 0 => h[i - 1] = g[i - 1])
          BY <4>2
        <5> QED
          BY <3>1, <5>1
      <4> QED
        BY <4>1, <4>2
    <3>3. IsPushed(h, n + 1)
      BY <3>2
    <3> HIDE DEF IsPushed, h
    <3> QED
      BY <3>3
  <2> HIDE DEF T
  <2>3. T = Nat
    <3>1. T \subseteq Nat
      BY DEF T
    <3> QED
      BY <2>1, <2>2, <3>1, NatSetInduction
  <2> QED
    BY <2>3 DEF T
<1> DEFINE pushed == CHOOSE g : IsPushed(g, Len(ts))
<1>2. IsPushed(pushed, Len(ts))
  <2> HIDE DEF IsPushed
  <2>1. \E g : IsPushed(g, Len(ts))
    BY <1>1
  <2> QED
    BY <2>1, Zenon
<1>3. QueuePushAll(q, ts) = pushed[Len(ts)]
  BY DEF QueuePushAll
<1> HIDE DEF pushed
<1>4. \A i \in 0 .. Len(ts) :
        pushed[i] = IF i = 0 THEN q ELSE QueuePush(pushed[i - 1], ts[i])
  BY <1>2
<1> QED
  BY <1>3, <1>4

\* Their types.
LEMMA QueuePushAllType ==
  ASSUME NEW q, AreQueues(q), NEW ts \in Seq(Tasks)
  PROVE  /\ AreQueues(QueuePushAll(q, ts))
         /\ ts = << >> => QueuePushAll(q, ts) = q
<1>1. PICK pushed :
        /\ \A i \in 0 .. Len(ts) :
             pushed[i] = IF i = 0 THEN q ELSE QueuePush(pushed[i - 1], ts[i])
        /\ QueuePushAll(q, ts) = pushed[Len(ts)]
  BY QueuePushAllSteps
<1>4. ts = << >> => pushed[Len(ts)] = q
  BY <1>1
<1>5. \A i \in 0 .. Len(ts) : AreQueues(pushed[i])
  <2> DEFINE T == {i \in Nat : i <= Len(ts) => AreQueues(pushed[i])}
  <2>1. 0 \in T
    BY <1>1
  <2>2. ASSUME NEW i \in T PROVE i + 1 \in T
    <3> SUFFICES ASSUME i + 1 <= Len(ts) PROVE AreQueues(pushed[i + 1])
      OBVIOUS
    <3>1. AreQueues(pushed[i])
      OBVIOUS
    <3>2. pushed[i + 1] = QueuePush(pushed[i], ts[i + 1])
      BY <1>1
    <3> QED
      BY <3>1, <3>2, QueuePushType
  <2> HIDE DEF T
  <2>3. T = Nat
    <3>1. T \subseteq Nat
      BY DEF T
    <3> QED
      BY <2>1, <2>2, <3>1, NatSetInduction
  <2> QED
    BY <2>3 DEF T
<1> QED
  BY <1>1, <1>4, <1>5

\* The members of _sleepers after push_back ...
LEMMA AppendFacts ==
  ASSUME NEW s \in Seq(Workers), NEW w \in Workers, ~Contains(s, w), Distinct(s)
  PROVE  /\ Append(s, w) \in Seq(Workers) /\ Distinct(Append(s, w))
         /\ \A v : Contains(Append(s, w), v) <=> Contains(s, v) \/ v = w
<1> DEFINE r == Append(s, w)
<1>1. /\ r \in Seq(Workers) /\ Len(r) = Len(s) + 1 /\ Len(s) \in Nat
      /\ \A i \in 1 .. Len(s) : r[i] = s[i]
      /\ r[Len(s) + 1] = w
      /\ DOMAIN r = 1 .. Len(s) + 1 /\ DOMAIN s = 1 .. Len(s)
  OBVIOUS
<1> HIDE DEF r
<1>2. Distinct(r)
  BY <1>1 DEF Distinct, Contains
<1>3. \A v : Contains(r, v) <=> Contains(s, v) \/ v = w
  BY <1>1 DEF Contains
<1> QED
  BY <1>1, <1>2, <1>3 DEF r

\* ... after pop_back ...
LEMMA FrontFacts ==
  ASSUME NEW s \in Seq(Workers), s # << >>, Distinct(s)
  PROVE  /\ Front(s) \in Seq(Workers) /\ Distinct(Front(s))
         /\ Last(s) \in Workers /\ Contains(s, Last(s))
         /\ \A v : Contains(Front(s), v) <=> Contains(s, v) /\ v # Last(s)
<1> DEFINE r == Front(s)
<1>1. Len(s) \in Nat \ {0} /\ DOMAIN s = 1 .. Len(s)
  OBVIOUS
<1>2. Last(s) = s[Len(s)] /\ r = SubSeq(s, 1, Len(s) - 1)
  BY DEF Last, Front
<1>3. /\ r \in Seq(Workers) /\ Len(r) = Len(s) - 1
      /\ \A i \in 1 .. Len(s) - 1 : r[i] = s[i]
      /\ DOMAIN r = 1 .. Len(s) - 1
  BY <1>1, <1>2
<1> HIDE DEF r
<1>4. Distinct(r)
  BY <1>1, <1>3 DEF Distinct
<1>5. \A v : Contains(r, v) <=> Contains(s, v) /\ v # Last(s)
  BY <1>1, <1>2, <1>3 DEF Contains, Distinct
<1>6. Last(s) \in Workers /\ Contains(s, Last(s))
  BY <1>1, <1>2 DEF Contains
<1> QED
  BY <1>3, <1>4, <1>5, <1>6 DEF r

\* ... and after StateMachine::cancel_sleeping.
LEMMA RemoveFirstFacts ==
  ASSUME NEW s \in Seq(Workers), NEW w \in Workers, Distinct(s)
  PROVE  /\ RemoveFirst(s, w) \in Seq(Workers) /\ Distinct(RemoveFirst(s, w))
         /\ \A v : Contains(RemoveFirst(s, w), v) <=> Contains(s, v) /\ v # w
<1>1. CASE ~Contains(s, w)
  <2>1. RemoveFirst(s, w) = s
    BY <1>1 DEF RemoveFirst, Contains
  <2> QED
    BY <1>1, <2>1
<1>2. CASE Contains(s, w)
  <2>1. PICK k \in 1 .. Len(s) : s[k] = w
    BY <1>2 DEF Contains
  <2>2. Len(s) \in Nat \ {0} /\ DOMAIN s = 1 .. Len(s)
    BY <2>1
  <2>3. {i \in 1 .. Len(s) : s[i] = w} = {k}
    BY <2>1, <2>2 DEF Distinct
  <2>4. Min({k}) = k
    BY DEF Min
  <2>5. SelectInSeq(s, LAMBDA v : v = w) = k
    BY <2>3, <2>4 DEF SelectInSeq
  <2> DEFINE r == RemoveFirst(s, w)
  <2>6. r = SubSeq(s, 1, k - 1) \o SubSeq(s, k + 1, Len(s))
    BY <1>2, <2>5 DEF RemoveFirst, RemoveAt, Contains
  <2> HIDE DEF r
  <2>7. /\ r \in Seq(Workers) /\ Len(r) = Len(s) - 1
        /\ DOMAIN r = 1 .. Len(s) - 1
        /\ \A i \in 1 .. Len(s) - 1 : r[i] = IF i < k THEN s[i] ELSE s[i + 1]
    <3> DEFINE a == SubSeq(s, 1, k - 1)
               b == SubSeq(s, k + 1, Len(s))
    <3>1. /\ a \in Seq(Workers) /\ Len(a) = k - 1
          /\ \A i \in 1 .. k - 1 : a[i] = s[i]
      <4>1. /\ a \in Seq(Workers)
            /\ Len(a) = IF 1 <= k - 1 THEN (k - 1) - 1 + 1 ELSE 0
            /\ \A i \in 1 .. (k - 1) - 1 + 1 : a[i] = s[1 + i - 1]
        BY <2>2, SubSeqType
      <4> HIDE DEF a
      <4> QED
        BY <2>2, <4>1
    <3>2. /\ b \in Seq(Workers) /\ Len(b) = Len(s) - k
          /\ \A i \in 1 .. Len(s) - k : b[i] = s[k + i]
      <4>1. /\ b \in Seq(Workers)
            /\ Len(b) = IF k + 1 <= Len(s) THEN Len(s) - (k + 1) + 1 ELSE 0
            /\ \A i \in 1 .. Len(s) - (k + 1) + 1 : b[i] = s[k + 1 + i - 1]
        BY <2>2, SubSeqType
      <4> HIDE DEF b
      <4>2. Len(b) = Len(s) - k
        <5>1. CASE k = Len(s)
          BY <2>2, <4>1, <5>1
        <5>2. CASE k + 1 <= Len(s)
          BY <2>2, <4>1, <5>2
        <5>3. k = Len(s) \/ k + 1 <= Len(s)
          <6>1. \A m, n \in Int : m <= n => m = n \/ m + 1 <= n
            OBVIOUS
          <6>2. k \in Int /\ Len(s) \in Int /\ k <= Len(s)
            BY <2>2
          <6> QED
            BY <6>1, <6>2, Zenon
        <5> QED
          BY <5>1, <5>2, <5>3
      <4>3. ASSUME NEW i \in 1 .. Len(s) - k PROVE b[i] = s[k + i]
        <5>1. i \in 1 .. Len(s) - (k + 1) + 1 /\ k + 1 + i - 1 = k + i
          BY <2>2
        <5> QED
          BY <4>1, <5>1
      <4> QED
        BY <4>1, <4>2, <4>3
    <3> HIDE DEF a, b
    <3>3. r = a \o b
      BY <2>6 DEF a, b
    <3>4. /\ r \in Seq(Workers) /\ Len(r) = Len(s) - 1
          /\ DOMAIN r = 1 .. Len(s) - 1
      <4>1. r \in Seq(Workers) /\ Len(r) = Len(a) + Len(b)
        BY <3>1, <3>2, <3>3, ConcatType
      <4>2. (k - 1) + (Len(s) - k) = Len(s) - 1
        BY <2>2
      <4> QED
        BY <3>1, <3>2, <4>1, <4>2
    <3>5. ASSUME NEW i \in 1 .. Len(s) - 1
          PROVE  r[i] = IF i < k THEN s[i] ELSE s[i + 1]
      <4>1. CASE i < k
        BY <2>2, <3>1, <3>2, <3>3, <4>1
      <4>2. CASE ~(i < k)
        <5>1. r[i] = b[i - (k - 1)] /\ i - (k - 1) \in 1 .. Len(s) - k
          BY <2>2, <3>1, <3>2, <3>3, <4>2
        <5>2. k + (i - (k - 1)) = i + 1
          BY <2>2
        <5> QED
          BY <3>2, <4>2, <5>1, <5>2
      <4> QED
        BY <4>1, <4>2
    <3> QED
      BY <3>4, <3>5
  <2>8. Distinct(r)
    <3> DEFINE from(i) == IF i < k THEN i ELSE i + 1
    <3>1. ASSUME NEW i \in 1 .. Len(s) - 1
          PROVE  from(i) \in 1 .. Len(s) /\ r[i] = s[from(i)]
      BY <2>2, <2>7
    <3>2. ASSUME NEW i \in 1 .. Len(s) - 1, NEW j \in 1 .. Len(s) - 1, i # j
          PROVE  from(i) # from(j)
      BY <2>2, <3>2
    <3> HIDE DEF from
    <3> QED
      BY <2>2, <2>7, <3>1, <3>2 DEF Distinct
  <2>9. ASSUME NEW v PROVE Contains(r, v) <=> Contains(s, v) /\ v # w
    <3>1. ASSUME Contains(r, v) PROVE Contains(s, v) /\ v # w
      BY SMTT(30), <2>1, <2>2, <2>7, <3>1 DEF Contains, Distinct
    <3>2. ASSUME Contains(s, v), v # w PROVE Contains(r, v)
      <4>1. PICK i \in 1 .. Len(s) : s[i] = v
        BY <3>2 DEF Contains
      <4>2. CASE i < k
        BY <2>2, <2>7, <4>1, <4>2 DEF Contains
      <4>3. CASE i > k
        <5>1. i - 1 \in 1 .. Len(s) - 1 /\ ~(i - 1 < k) /\ (i - 1) + 1 = i
          BY <2>2, <4>3
        <5> QED
          BY <2>7, <4>1, <5>1 DEF Contains
      <4> QED
        BY <2>1, <2>2, <3>2, <4>1, <4>2, <4>3
    <3> QED
      BY <3>1, <3>2
  <2> QED
    BY <2>7, <2>8, <2>9 DEF r
<1> QED
  BY <1>1, <1>2

-----------------------------------------------------------------------------
(* Steps.                                                                  *)

\* Thread th goes on at label l, with r to return to and a given.
Moves(th, l, r, a) ==
  /\ pc' \in [Threads -> WorkerPCs \cup MainPCs]
  /\ after' \in [Threads -> Labels \cup {None}]
  /\ arg' \in [Threads -> Workers \cup {None}]
  /\ pc'[th] = l /\ after'[th] = r /\ arg'[th] = a
  /\ \A v \in Threads \ {th} : pc'[v] = pc[v] /\ after'[v] = after[v] /\ arg'[v] = arg[v]

\* A jump, the call and return of the handlers, moves one thread.
LEMMA JumpMoves ==
  ASSUME TypeOK, NEW th \in Threads, NEW l \in WorkerPCs \cup MainPCs,
         NEW r \in Labels \cup {None}, NEW a \in Workers \cup {None},
         Jump(th, l, r, a)
  PROVE  Moves(th, l, r, a)
BY DEF TypeOK, Jump, Moves

\* Workers are threads, and Main is another one.
LEMMA ThreadFacts ==
  /\ Workers \subseteq Threads /\ Main \in Threads /\ Main \notin Workers
  /\ Workers # {} /\ None \notin Tasks \cup Workers \cup Labels
BY SchedulerAssumption DEF Threads

\* While a thread is at a label, the process has not been terminated.
LEMMA Alive ==
  ASSUME IInv, NEW th \in Threads, pc[th] # "terminated"
  PROVE  /\ ~Dead
         /\ TypeOK /\ Returns /\ Holding /\ EmptyHanded /\ GlobalSeen
         /\ CloseSeen /\ Sleepers /\ SearchFlag /\ Counting
BY ThreadFacts DEF IInv, DeadTogether, Dead, Threads

\* A worker moves on: none is terminated, and returns stay in order.
LEMMA WorkerMoves ==
  ASSUME TypeOK, DeadTogether, Returns, ~Dead,
         NEW w \in Workers, NEW l \in WorkerPCs \ {"terminated"},
         NEW r \in Labels \cup {None}, NEW a \in Workers \cup {None},
         Moves(w, l, r, a),
         l = "drive" => r \in {"periodic", "idle", "woken"},
         l = "notify" => r \in {"running", "waiting", "loop", "update"},
         l = "steal" => a \in Workers \ {w}
  PROVE  /\ DeadTogether' /\ Dead' = FALSE /\ Returns'
         /\ \A v \in Workers : pc'[v] \in WorkerPCs
         /\ pc'[Main] = pc[Main] /\ pc'[Main] \in MainPCs
<1>1. /\ \A v \in Workers \ {w} : pc'[v] = pc[v] /\ after'[v] = after[v] /\ arg'[v] = arg[v]
      /\ pc'[Main] = pc[Main] /\ after'[Main] = after[Main]
      /\ pc'[w] = l /\ after'[w] = r /\ arg'[w] = a
  BY ThreadFacts DEF Moves
<1>2. Dead' = FALSE /\ DeadTogether'
  BY <1>1 DEF Dead, DeadTogether
<1>3. Returns'
  BY <1>1 DEF Returns
<1> QED
  BY <1>1, <1>2, <1>3 DEF TypeOK

\* The sleepers and the count are as before when nobody falls asleep, wakes,
\* searches or stops searching, and no leaver comes back.
LEMMA MachineKept ==
  ASSUME Sleepers, SearchFlag, Counting,
         UNCHANGED <<searching, sleepers, isSearching>>,
         \A v \in Workers : /\ Asleep(v)' <=> Asleep(v)
                            /\ Leaver(v) => Leaver(v)'
                            /\ pc'[v] = "search_inc" => ~isSearching[v]
                            /\ pc'[v] = "exec" => isSearching[v]
  PROVE  Sleepers' /\ SearchFlag' /\ Counting'
<1>1. Sleepers' /\ SearchFlag'
  BY DEF Sleepers, SearchFlag
<1>2. Searchers' = Searchers
  BY DEF Searchers, Notified
<1>3. Counting'
  BY <1>2 DEF Counting
<1> QED
  BY <1>1, <1>3

-----------------------------------------------------------------------------
(* The actions of a worker.                                                *)

\* The loop test: a worker that shuts down leaves.
LEMMA LoopInv ==
  ASSUME IInv, NEW w \in Workers, Loop(w)
  PROVE  IInv'
<1>1. /\ pc[w] = "loop" /\ ~Dead
      /\ TypeOK /\ DeadTogether /\ Returns /\ Holding /\ EmptyHanded
      /\ GlobalSeen /\ CloseSeen /\ Sleepers /\ SearchFlag /\ Counting
  BY Alive, ThreadFacts DEF Loop, IInv
<1>2. UNCHANGED <<queues, closed, machine, kernel, signal, flags, task, life>>
  BY DEF Loop
<1>3. PICK l \in {"latch", "drive", "get"}, r \in {"periodic", None} :
        /\ Moves(w, l, r, None)
        /\ l = "drive" => r = "periodic"
        /\ isShutdown[w] <=> l = "latch"
  BY <1>1, JumpMoves, ThreadFacts DEF Loop, Goto, Call, WorkerPCs, Labels
<1>4. /\ DeadTogether' /\ Dead' = FALSE /\ Returns'
      /\ \A v \in Workers : pc'[v] \in WorkerPCs
      /\ pc'[Main] = pc[Main] /\ pc'[Main] \in MainPCs
  BY <1>1, <1>3, WorkerMoves DEF WorkerPCs, Labels
<1>5. TypeOK'
  <2>1. tick' \in [Workers -> 0 .. Period - 1]
    <3>1. (tick[w] + 1) % Period \in 0 .. Period - 1
      BY SMTT(30), <1>1, SchedulerAssumption DEF TypeOK
    <3> QED
      BY <1>1, <3>1 DEF TypeOK, Loop
  <2> QED
    BY <1>1, <1>2, <1>3, <1>4, <2>1 DEF TypeOK, Moves, queues, machine, kernel, flags, life
<1>6. \A v \in Workers \ {w} : pc'[v] = pc[v] /\ after'[v] = after[v]
  BY <1>3, ThreadFacts DEF Moves
<1>7. pc'[w] = l /\ after'[w] = r
  BY <1>3 DEF Moves
<1>8. Holding' /\ EmptyHanded'
  BY <1>1, <1>2, <1>3, <1>6, <1>7 DEF Holding, EmptyHanded, HasTask, queues
<1>9. GlobalSeen'
  BY <1>1, <1>2, <1>3, <1>4, <1>6, <1>7 DEF GlobalSeen, Committed, queues
<1>10. CloseSeen'
  BY <1>1, <1>2, <1>3, <1>4, <1>6, <1>7 DEF CloseSeen, PastFlag, flags
<1>11. Sleepers' /\ SearchFlag' /\ Counting'
  <2>1. \A v \in Workers : /\ Asleep(v)' <=> Asleep(v)
                           /\ Leaver(v) => Leaver(v)'
                           /\ pc'[v] = "search_inc" => ~isSearching[v]
                           /\ pc'[v] = "exec" => isSearching[v]
    BY <1>1, <1>2, <1>3, <1>6, <1>7 DEF Asleep, Sleeping, Leaver, SearchFlag, flags
  <2> QED
    BY <1>1, <1>2, <2>1, MachineKept DEF machine, flags
<1> QED
  BY <1>4, <1>5, <1>8, <1>9, <1>10, <1>11 DEF IInv

\* ~Worker: past the latch the thread is gone.
LEMMA LeaveInv ==
  ASSUME IInv, NEW w \in Workers, Leave(w)
  PROVE  IInv'
<1>1. /\ pc[w] = "latch" /\ ~Dead
      /\ TypeOK /\ DeadTogether /\ Returns /\ Holding /\ EmptyHanded
      /\ GlobalSeen /\ CloseSeen /\ Sleepers /\ SearchFlag /\ Counting
  BY Alive, ThreadFacts DEF Leave, IInv
<1>2. UNCHANGED <<queues, closed, machine, kernel, signal, flags, task, tick, life>>
  BY DEF Leave
<1>3. Moves(w, "gone", None, None)
  BY <1>1, JumpMoves, ThreadFacts DEF Leave, Goto, Call, WorkerPCs, Sleeping, Labels
<1>4. /\ DeadTogether' /\ Dead' = FALSE /\ Returns'
      /\ \A v \in Workers : pc'[v] \in WorkerPCs
      /\ pc'[Main] = pc[Main] /\ pc'[Main] \in MainPCs
  BY <1>1, <1>3, WorkerMoves, ThreadFacts DEF WorkerPCs, Sleeping, Labels
<1>5. TypeOK'
  BY <1>1, <1>2, <1>3, <1>4 DEF TypeOK, Moves, queues, machine, kernel, flags, life
<1>6. \A v \in Workers \ {w} : pc'[v] = pc[v] /\ after'[v] = after[v]
  BY <1>3, ThreadFacts DEF Moves
<1>7. pc'[w] = "gone" /\ after'[w] = None
  BY <1>3 DEF Moves
<1>8. Holding' /\ EmptyHanded'
  BY <1>1, <1>2, <1>3, <1>6, <1>7 DEF Holding, EmptyHanded, HasTask, queues
<1>9. GlobalSeen'
  BY <1>1, <1>2, <1>3, <1>4, <1>6, <1>7 DEF GlobalSeen, Committed, queues
<1>10. CloseSeen'
  BY <1>1, <1>2, <1>3, <1>4, <1>6, <1>7 DEF CloseSeen, PastFlag, flags
<1>11. Sleepers' /\ SearchFlag' /\ Counting'
  <2>1. \A v \in Workers : /\ Asleep(v)' <=> Asleep(v)
                           /\ Leaver(v) => Leaver(v)'
                           /\ pc'[v] = "search_inc" => ~isSearching[v]
                           /\ pc'[v] = "exec" => isSearching[v]
    BY <1>1, <1>2, <1>3, <1>6, <1>7 DEF Asleep, Sleeping, Leaver, SearchFlag, flags
  <2> QED
    BY <1>1, <1>2, <2>1, MachineKept DEF machine, flags
<1> QED
  BY <1>4, <1>5, <1>8, <1>9, <1>10, <1>11 DEF IInv

\* A worker that has seen the queue closed does not wait.
LEMMA UpdateShutdownFlagInv ==
  ASSUME IInv, NEW w \in Workers, UpdateShutdownFlag(w)
  PROVE  IInv'
<1>1. /\ pc[w] = "update" /\ ~Dead
      /\ TypeOK /\ DeadTogether /\ Returns /\ Holding /\ EmptyHanded
      /\ GlobalSeen /\ CloseSeen /\ Sleepers /\ SearchFlag /\ Counting
  BY Alive, ThreadFacts DEF UpdateShutdownFlag, IInv
<1>2. UNCHANGED <<queues, closed, machine, kernel, signal, isSearching, task, tick, life>>
  BY DEF UpdateShutdownFlag
<1>3. PICK l \in {"cancel", "sleep", "get"} :
        /\ Moves(w, l, None, None)
        /\ l = "cancel" <=> after[w] = "woken"
        /\ l = "sleep" <=> after[w] = "idle"
        /\ isShutdown' \in [Workers -> BOOLEAN]
        /\ isShutdown'[w] = (isShutdown[w] \/ closed)
        /\ \A v \in Workers \ {w} : isShutdown'[v] = isShutdown[v]
  <2>1. /\ isShutdown' \in [Workers -> BOOLEAN]
        /\ isShutdown'[w] = (isShutdown[w] \/ closed)
        /\ \A v \in Workers \ {w} : isShutdown'[v] = isShutdown[v]
    BY <1>1 DEF UpdateShutdownFlag, TypeOK
  <2> QED
    BY <1>1, <2>1, JumpMoves, ThreadFacts
       DEF UpdateShutdownFlag, Goto, WorkerPCs, Sleeping, Labels
<1>4. /\ DeadTogether' /\ Dead' = FALSE /\ Returns'
      /\ \A v \in Workers : pc'[v] \in WorkerPCs
      /\ pc'[Main] = pc[Main] /\ pc'[Main] \in MainPCs
  BY <1>1, <1>3, WorkerMoves, ThreadFacts DEF WorkerPCs, Sleeping, Labels
<1>5. TypeOK'
  BY <1>1, <1>2, <1>3, <1>4 DEF TypeOK, Moves, queues, machine, kernel, flags, life
<1>6. \A v \in Workers \ {w} : pc'[v] = pc[v] /\ after'[v] = after[v]
  BY <1>3, ThreadFacts DEF Moves
<1>7. pc'[w] = l /\ after'[w] = None
  BY <1>3 DEF Moves
<1>8. Holding' /\ EmptyHanded'
  BY <1>1, <1>2, <1>3, <1>6, <1>7 DEF Holding, EmptyHanded, HasTask, queues
<1>9. GlobalSeen'
  BY <1>1, <1>2, <1>3, <1>4, <1>6, <1>7 DEF GlobalSeen, Committed, queues
<1>10. CloseSeen'
  BY <1>1, <1>2, <1>3, <1>4, <1>6, <1>7 DEF CloseSeen, PastFlag, flags
<1>11. Sleepers' /\ SearchFlag' /\ Counting'
  <2>1. \A v \in Workers : /\ Asleep(v)' <=> Asleep(v)
                           /\ Leaver(v) => Leaver(v)'
                           /\ pc'[v] = "search_inc" => ~isSearching[v]
                           /\ pc'[v] = "exec" => isSearching[v]
    BY <1>1, <1>2, <1>3, <1>6, <1>7 DEF Asleep, Sleeping, Leaver, SearchFlag, flags
  <2> QED
    BY <1>1, <1>2, <2>1, MachineKept DEF machine, flags
<1> QED
  BY <1>4, <1>5, <1>8, <1>9, <1>10, <1>11 DEF IInv

\* set_searching admits a searcher or sends the worker to sleep.
LEMMA SetSearchingInv ==
  ASSUME IInv, NEW w \in Workers, SetSearching(w)
  PROVE  IInv'
<1>1. /\ pc[w] = "search" /\ ~Dead
      /\ TypeOK /\ DeadTogether /\ Returns /\ Holding /\ EmptyHanded
      /\ GlobalSeen /\ CloseSeen /\ Sleepers /\ SearchFlag /\ Counting
  BY Alive, ThreadFacts DEF SetSearching, IInv
<1>2. UNCHANGED <<queues, closed, machine, kernel, signal, flags, task, tick, life>>
  BY DEF SetSearching
<1>3. PICK l \in {"scan", "search_inc", "drive"}, r \in {"idle", None} :
        /\ Moves(w, l, r, None)
        /\ l = "drive" => r = "idle"
        /\ l = "search_inc" => ~isSearching[w]
  BY <1>1, JumpMoves, ThreadFacts DEF SetSearching, Goto, Call, WorkerPCs, Sleeping, Labels
<1>4. /\ DeadTogether' /\ Dead' = FALSE /\ Returns'
      /\ \A v \in Workers : pc'[v] \in WorkerPCs
      /\ pc'[Main] = pc[Main] /\ pc'[Main] \in MainPCs
  BY <1>1, <1>3, WorkerMoves, ThreadFacts DEF WorkerPCs, Sleeping, Labels
<1>5. TypeOK'
  BY <1>1, <1>2, <1>3, <1>4 DEF TypeOK, Moves, queues, machine, kernel, flags, life
<1>6. \A v \in Workers \ {w} : pc'[v] = pc[v] /\ after'[v] = after[v]
  BY <1>3, ThreadFacts DEF Moves
<1>7. pc'[w] = l /\ after'[w] = r
  BY <1>3 DEF Moves
<1>8. Holding' /\ EmptyHanded'
  BY <1>1, <1>2, <1>3, <1>6, <1>7 DEF Holding, EmptyHanded, HasTask, queues
<1>9. GlobalSeen'
  BY <1>1, <1>2, <1>3, <1>4, <1>6, <1>7 DEF GlobalSeen, Committed, queues
<1>10. CloseSeen'
  BY <1>1, <1>2, <1>3, <1>4, <1>6, <1>7 DEF CloseSeen, PastFlag, flags
<1>11. Sleepers' /\ SearchFlag' /\ Counting'
  <2>1. \A v \in Workers : /\ Asleep(v)' <=> Asleep(v)
                           /\ Leaver(v) => Leaver(v)'
                           /\ pc'[v] = "search_inc" => ~isSearching[v]
                           /\ pc'[v] = "exec" => isSearching[v]
    BY <1>1, <1>2, <1>3, <1>6, <1>7 DEF Asleep, Sleeping, Leaver, SearchFlag, flags
  <2> QED
    BY <1>1, <1>2, <2>1, MachineKept DEF machine, flags
<1> QED
  BY <1>4, <1>5, <1>8, <1>9, <1>10, <1>11 DEF IInv

\* The last searcher has looked once more.
LEMMA WakeUpIfWorkPendingInv ==
  ASSUME IInv, NEW w \in Workers, WakeUpIfWorkPending(w)
  PROVE  IInv'
<1>1. /\ pc[w] = "pending" /\ ~Dead
      /\ TypeOK /\ DeadTogether /\ Returns /\ Holding /\ EmptyHanded
      /\ GlobalSeen /\ CloseSeen /\ Sleepers /\ SearchFlag /\ Counting
  BY Alive, ThreadFacts DEF WakeUpIfWorkPending, IInv
<1>2. UNCHANGED <<queues, closed, machine, kernel, signal, flags, task, tick, life>>
  BY DEF WakeUpIfWorkPending
<1>3. PICK l \in {"notify", "waiting"}, r \in {"waiting", None} :
        /\ Moves(w, l, r, None)
        /\ l = "notify" => r = "waiting"
  BY <1>1, JumpMoves, ThreadFacts DEF WakeUpIfWorkPending, Goto, Call, WorkerPCs, Sleeping, Labels
<1>4. /\ DeadTogether' /\ Dead' = FALSE /\ Returns'
      /\ \A v \in Workers : pc'[v] \in WorkerPCs
      /\ pc'[Main] = pc[Main] /\ pc'[Main] \in MainPCs
  BY <1>1, <1>3, WorkerMoves, ThreadFacts DEF WorkerPCs, Sleeping, Labels
<1>5. TypeOK'
  BY <1>1, <1>2, <1>3, <1>4 DEF TypeOK, Moves, queues, machine, kernel, flags, life
<1>6. \A v \in Workers \ {w} : pc'[v] = pc[v] /\ after'[v] = after[v]
  BY <1>3, ThreadFacts DEF Moves
<1>7. pc'[w] = l /\ after'[w] = r
  BY <1>3 DEF Moves
<1>8. Holding' /\ EmptyHanded'
  BY <1>1, <1>2, <1>3, <1>6, <1>7 DEF Holding, EmptyHanded, HasTask, queues
<1>9. GlobalSeen'
  BY <1>1, <1>2, <1>3, <1>4, <1>6, <1>7 DEF GlobalSeen, Committed, queues
<1>10. CloseSeen'
  BY <1>1, <1>2, <1>3, <1>4, <1>6, <1>7 DEF CloseSeen, PastFlag, flags
<1>11. Sleepers' /\ SearchFlag' /\ Counting'
  <2>1. \A v \in Workers : /\ Asleep(v)' <=> Asleep(v)
                           /\ Leaver(v) => Leaver(v)'
                           /\ pc'[v] = "search_inc" => ~isSearching[v]
                           /\ pc'[v] = "exec" => isSearching[v]
    BY <1>1, <1>2, <1>3, <1>6, <1>7 DEF Asleep, Sleeping, Leaver, SearchFlag, flags
  <2> QED
    BY <1>1, <1>2, <2>1, MachineKept DEF machine, flags
<1> QED
  BY <1>4, <1>5, <1>8, <1>9, <1>10, <1>11 DEF IInv

\* A woken worker looks at its own queues and the global one.
LEMMA CancelSleepingInv ==
  ASSUME IInv, NEW w \in Workers, CancelSleeping(w)
  PROVE  IInv'
<1>1. /\ pc[w] = "cancel" /\ ~Dead
      /\ TypeOK /\ DeadTogether /\ Returns /\ Holding /\ EmptyHanded
      /\ GlobalSeen /\ CloseSeen /\ Sleepers /\ SearchFlag /\ Counting
  BY Alive, ThreadFacts DEF CancelSleeping, IInv
<1>2. UNCHANGED <<queues, closed, machine, kernel, signal, flags, task, tick, life>>
  BY DEF CancelSleeping
<1>3. PICK l \in {"cancel_own", "contains"} :
        /\ Moves(w, l, None, None)
        /\ l = "contains" => ~HasTask(w) /\ global = << >>
  BY <1>1, JumpMoves, ThreadFacts DEF CancelSleeping, Goto, Call, WorkerPCs, Sleeping, Labels
<1>4. /\ DeadTogether' /\ Dead' = FALSE /\ Returns'
      /\ \A v \in Workers : pc'[v] \in WorkerPCs
      /\ pc'[Main] = pc[Main] /\ pc'[Main] \in MainPCs
  BY <1>1, <1>3, WorkerMoves, ThreadFacts DEF WorkerPCs, Sleeping, Labels
<1>5. TypeOK'
  BY <1>1, <1>2, <1>3, <1>4 DEF TypeOK, Moves, queues, machine, kernel, flags, life
<1>6. \A v \in Workers \ {w} : pc'[v] = pc[v] /\ after'[v] = after[v]
  BY <1>3, ThreadFacts DEF Moves
<1>7. pc'[w] = l /\ after'[w] = None
  BY <1>3 DEF Moves
<1>8. Holding' /\ EmptyHanded'
  BY <1>1, <1>2, <1>3, <1>6, <1>7 DEF Holding, EmptyHanded, HasTask, queues
<1>9. GlobalSeen'
  BY <1>1, <1>2, <1>3, <1>4, <1>6, <1>7 DEF GlobalSeen, Committed, queues
<1>10. CloseSeen'
  BY <1>1, <1>2, <1>3, <1>4, <1>6, <1>7 DEF CloseSeen, PastFlag, flags
<1>11. Sleepers' /\ SearchFlag' /\ Counting'
  <2>1. \A v \in Workers : /\ Asleep(v)' <=> Asleep(v)
                           /\ Leaver(v) => Leaver(v)'
                           /\ pc'[v] = "search_inc" => ~isSearching[v]
                           /\ pc'[v] = "exec" => isSearching[v]
    BY <1>1, <1>2, <1>3, <1>6, <1>7 DEF Asleep, Sleeping, Leaver, SearchFlag, flags
  <2> QED
    BY <1>1, <1>2, <2>1, MachineKept DEF machine, flags
<1> QED
  BY <1>4, <1>5, <1>8, <1>9, <1>10, <1>11 DEF IInv

-----------------------------------------------------------------------------
(* Taking a task.                                                          *)

\* w takes a task to run; what the others have does not grow, nor does the
\* global queue.
Takes(w) ==
  /\ global' \in Seq(Tasks)
  /\ local' \in [Workers -> Seq(Tasks)]
  /\ \A v \in Workers : Len(local'[v]) <= Capacity
  /\ cache' \in [Workers -> Tasks \cup {None}]
  /\ task' \in [Workers -> Tasks \cup {None}]
  /\ task'[w] \in Tasks
  /\ \A v \in Workers \ {w} : task'[v] = task[v] /\ (HasTask(v)' => HasTask(v))
  /\ global = << >> => global' = << >>

\* The size of a batch: no more than there is, nor than there is room for.
LEMMA BatchSize ==
  ASSUME TypeOK, NEW w \in Workers
  PROVE  LET n == Min({Len(global), Capacity - Len(local[w]), Half})
         IN  n \in Nat /\ n <= Len(global) /\ n <= Capacity - Len(local[w])
<1> DEFINE room == Capacity - Len(local[w])
           n == Min({Len(global), room, Half})
<1>1. /\ Len(global) \in Nat /\ Len(local[w]) \in Nat /\ room \in Nat /\ Half \in Nat
  BY SchedulerAssumption DEF TypeOK, Half
<1>2. n \in Nat /\ n <= Len(global) /\ n <= room
  <2>1. \A a, b, c \in Nat : \E x \in {a, b, c} : \A y \in {a, b, c} : x <= y
    OBVIOUS
  <2>2. \E x \in {Len(global), room, Half} :
          \A y \in {Len(global), room, Half} : x <= y
    <3> HIDE DEF room
    <3> QED
      BY <1>1, <2>1
  <2>3. n \in {Len(global), room, Half} /\ \A y \in {Len(global), room, Half} : n <= y
    <3> HIDE DEF room
    <3> QED
      BY <2>2 DEF Min
  <2> HIDE DEF room, n
  <2> QED
    BY <1>1, <2>3
<1> QED
  BY <1>2, Zenon

\* A task of the global queue ...
LEMMA TakeGlobalTakes ==
  ASSUME TypeOK, NEW w \in Workers, TakeGlobal(w)
  PROVE  Takes(w)
<1>1. Head(global) \in Tasks /\ Tail(global) \in Seq(Tasks)
  BY DEF TypeOK, TakeGlobal
<1> QED
  BY <1>1 DEF TypeOK, TakeGlobal, Takes, HasTask

\* ... one of the worker's own ...
LEMMA TakeLocalTakes ==
  ASSUME TypeOK, NEW w \in Workers, TakeLocal(w)
  PROVE  Takes(w)
<1>1. CASE cache[w] # None
  BY <1>1 DEF TypeOK, TakeLocal, Takes, HasTask
<1>2. CASE cache[w] = None
  <2>1. /\ local[w] # << >> /\ local[w] \in Seq(Tasks) /\ Len(local[w]) <= Capacity
        /\ task' = [task EXCEPT ![w] = Head(local[w])]
        /\ local' = [local EXCEPT ![w] = Tail(@)]
        /\ UNCHANGED <<cache, global>>
    BY <1>2 DEF TypeOK, TakeLocal
  <2>2. /\ Head(local[w]) \in Tasks /\ Tail(local[w]) \in Seq(Tasks)
        /\ Len(Tail(local[w])) <= Capacity
    BY <2>1, SchedulerAssumption
  <2> QED
    BY <2>1, <2>2 DEF TypeOK, Takes, HasTask
<1> QED
  BY <1>1, <1>2

\* ... a batch from the global queue, which has room in the local one ...
LEMMA TakeBatchTakes ==
  ASSUME TypeOK, NEW w \in Workers, TakeBatch(w)
  PROVE  Takes(w)
<1> DEFINE room == Capacity - Len(local[w])
           n == Min({Len(global), room, Half})
<1>1. /\ Len(global) \in Nat /\ Len(local[w]) \in Nat /\ room \in Nat
      /\ Half \in Nat /\ global \in Seq(Tasks) /\ local[w] \in Seq(Tasks)
      /\ Len(local[w]) + room <= Capacity
  BY SchedulerAssumption DEF TypeOK, Half
<1>2. n \in Nat /\ n <= Len(global) /\ n <= room
  BY BatchSize, Zenon
<1>3. /\ n > 0
      /\ task' = [task EXCEPT ![w] = global[n]]
      /\ local' = [local EXCEPT ![w] = @ \o SubSeq(global, 1, n - 1)]
      /\ global' = SubSeq(global, n + 1, Len(global))
      /\ UNCHANGED cache
  BY DEF TakeBatch
<1> HIDE DEF n
<1>4. global[n] \in Tasks /\ global # << >>
  BY <1>1, <1>2, <1>3
<1>5. SubSeq(global, 1, n - 1) \in Seq(Tasks) /\ Len(SubSeq(global, 1, n - 1)) = n - 1
  <2>1. /\ SubSeq(global, 1, n - 1) \in Seq(Tasks)
        /\ Len(SubSeq(global, 1, n - 1)) = IF 1 <= n - 1 THEN (n - 1) - 1 + 1 ELSE 0
    BY <1>1, <1>2, <1>3, SubSeqType
  <2> QED
    BY <1>2, <1>3, <2>1
<1>6. global' \in Seq(Tasks)
  BY <1>1, <1>2, <1>3, SubSeqType
<1> DEFINE batch == SubSeq(global, 1, n - 1)
<1> HIDE DEF batch
<1>7. local[w] \o batch \in Seq(Tasks) /\ Len(local[w] \o batch) <= Capacity
  <2>1. batch \in Seq(Tasks) /\ Len(batch) = n - 1
    BY <1>5 DEF batch
  <2>2. local[w] \o batch \in Seq(Tasks) /\ Len(local[w] \o batch) = Len(local[w]) + Len(batch)
    BY <1>1, <2>1, ConcatType
  <2> QED
    BY <1>1, <1>2, <1>3, <2>1, <2>2, SchedulerAssumption
<1>8. local' = [local EXCEPT ![w] = local[w] \o batch]
  BY <1>3 DEF batch
<1> HIDE DEF room
<1> QED
  BY ZenonT(30), <1>3, <1>4, <1>6, <1>7, <1>8 DEF TypeOK, Takes, HasTask

\* ... or half of what another worker has.
LEMMA BeStolenByTakes ==
  ASSUME TypeOK, NEW w \in Workers, ~HasTask(w), arg[w] \in Workers \ {w},
         Len(local[arg[w]]) \div 2 > 0, BeStolenBy(w)
  PROVE  Takes(w)
<1> DEFINE v == arg[w]
           s == local[v]
           n == Len(s) \div 2
<1>1. /\ s \in Seq(Tasks) /\ Len(s) \in Nat /\ Len(s) <= Capacity
      /\ Capacity \in Nat /\ local[w] = << >> /\ v \in Workers /\ v # w
  BY SchedulerAssumption DEF TypeOK, HasTask
<1>2. /\ n > 0
      /\ task' = [task EXCEPT ![w] = s[n]]
      /\ local' = [local EXCEPT ![w] = @ \o SubSeq(s, 1, n - 1),
                                ![v] = SubSeq(@, n + 1, Len(@))]
      /\ UNCHANGED <<global, cache>>
  <2>1. n # 0
    <3>1. n \in Nat /\ n > 0
      <4>1. n > 0
        OBVIOUS
      <4> HIDE DEF s
      <4>2. n \in Nat
        BY <1>1
      <4> HIDE DEF n
      <4> QED
        BY <4>1, <4>2
    <3> HIDE DEF n
    <3> QED
      BY <3>1
  <2> QED
    BY <2>1, Zenon DEF BeStolenBy
<1> HIDE DEF v
<1>3. n \in Nat /\ n <= Len(s)
  <2> HIDE DEF s
  <2> QED
    BY <1>1
<1> HIDE DEF n
<1>4. s[n] \in Tasks /\ s # << >>
  <2> HIDE DEF s
  <2> QED
    BY <1>1, <1>2, <1>3
<1> DEFINE mine == SubSeq(s, 1, n - 1)
           rest == SubSeq(s, n + 1, Len(s))
<1>5. mine \in Seq(Tasks) /\ Len(mine) <= Capacity
  <2> HIDE DEF s
  <2>1. /\ mine \in Seq(Tasks)
        /\ Len(mine) = IF 1 <= n - 1 THEN (n - 1) - 1 + 1 ELSE 0
    BY <1>1, <1>2, <1>3, SubSeqType
  <2> HIDE DEF mine
  <2> QED
    BY <1>1, <1>2, <1>3, <2>1
<1>6. rest \in Seq(Tasks) /\ Len(rest) <= Capacity
  <2> HIDE DEF s
  <2>1. /\ rest \in Seq(Tasks)
        /\ Len(rest) = IF n + 1 <= Len(s) THEN Len(s) - (n + 1) + 1 ELSE 0
    BY <1>1, <1>2, <1>3, SubSeqType
  <2> HIDE DEF rest
  <2> QED
    BY <1>1, <1>2, <1>3, <2>1
<1>7. local' = [local EXCEPT ![w] = << >> \o mine, ![v] = rest]
  BY <1>1, <1>2
<1> HIDE DEF mine, rest
<1>8. << >> \o mine = mine
  BY <1>5
<1>9. /\ local' \in [Workers -> Seq(Tasks)]
      /\ local'[w] = mine /\ local'[v] = rest
      /\ \A u \in Workers \ {v, w} : local'[u] = local[u]
  BY <1>1, <1>5, <1>6, <1>7, <1>8 DEF TypeOK
<1>10. local[v] # << >>
  BY <1>4
<1> HIDE DEF s
<1>11. \A u \in Workers : Len(local'[u]) <= Capacity
  BY <1>5, <1>6, <1>9 DEF TypeOK
<1>12. \A u \in Workers \ {w} : HasTask(u)' => HasTask(u)
  BY <1>2, <1>9, <1>10 DEF HasTask
<1>13. /\ task' \in [Workers -> Tasks \cup {None}] /\ task'[w] \in Tasks
       /\ \A u \in Workers \ {w} : task'[u] = task[u]
  BY <1>2, <1>4 DEF TypeOK
<1> QED
  BY <1>2, <1>9, <1>11, <1>12, <1>13 DEF TypeOK, Takes

-----------------------------------------------------------------------------
(* The actions that take tasks, and those that give them away.             *)

\* get_next_task: a task to run, or nothing anywhere.
LEMMA GetNextTaskInv ==
  ASSUME IInv, NEW w \in Workers, GetNextTask(w)
  PROVE  IInv'
<1>1. /\ pc[w] = "get" /\ ~Dead
      /\ TypeOK /\ DeadTogether /\ Returns /\ Holding /\ EmptyHanded
      /\ GlobalSeen /\ CloseSeen /\ Sleepers /\ SearchFlag /\ Counting
  BY Alive, ThreadFacts DEF GetNextTask, IInv
<1>2. UNCHANGED <<closed, machine, kernel, signal, flags, tick, life>>
  BY DEF GetNextTask
<1>3. PICK l \in {"exec", "running", "search"} :
        /\ Moves(w, l, None, None)
        /\ l = "exec" => isSearching[w]
        /\ \/ l # "search" /\ Takes(w)
           \/ /\ l = "search" /\ global = << >> /\ ~HasTask(w)
              /\ UNCHANGED <<queues, task>>
  <2>1. ASSUME GotoExcute(w)
        PROVE  \E l \in {"exec", "running"} :
                 Moves(w, l, None, None) /\ (l = "exec" => isSearching[w])
    BY <1>1, <2>1, JumpMoves, ThreadFacts
       DEF GotoExcute, Goto, WorkerPCs, Sleeping, Labels
  <2>2. ASSUME Goto(w, "search")
        PROVE  Moves(w, "search", None, None)
    BY <1>1, <2>2, JumpMoves, ThreadFacts DEF Goto, WorkerPCs, Sleeping, Labels
  <2>3. \/ Takes(w) /\ GotoExcute(w)
        \/ global = << >> /\ ~HasTask(w) /\ Goto(w, "search") /\ UNCHANGED <<queues, task>>
    BY <1>1, TakeGlobalTakes, TakeLocalTakes, TakeBatchTakes
       DEF GetNextTask, GlobalFirst, LocalFirst
  <2> QED
    BY <2>1, <2>2, <2>3
<1>4. /\ DeadTogether' /\ Dead' = FALSE /\ Returns'
      /\ \A v \in Workers : pc'[v] \in WorkerPCs
      /\ pc'[Main] = pc[Main] /\ pc'[Main] \in MainPCs
  BY <1>1, <1>3, WorkerMoves, ThreadFacts DEF WorkerPCs, Sleeping, Labels
<1>5. TypeOK'
  BY <1>1, <1>2, <1>3, <1>4 DEF TypeOK, Moves, Takes, machine, queues, kernel, flags, life
<1>6. \A v \in Workers \ {w} : pc'[v] = pc[v] /\ after'[v] = after[v]
  BY <1>3, ThreadFacts DEF Moves
<1>7. pc'[w] = l /\ after'[w] = None
  BY <1>3 DEF Moves
<1>8. Holding' /\ EmptyHanded'
  BY <1>1, <1>2, <1>3, <1>6, <1>7 DEF Holding, EmptyHanded, HasTask, Takes, queues
<1>9. GlobalSeen'
  <2>1. CASE global' = << >>
    BY <2>1 DEF GlobalSeen
  <2>2. CASE global' # << >>
    <3>1. global # << >>
      BY <1>3, <2>2 DEF Takes, queues
    <3> QED
      BY <1>1, <1>2, <1>3, <1>4, <1>6, <1>7, <3>1 DEF GlobalSeen, Committed
  <2> QED
    BY <2>1, <2>2
<1>10. CloseSeen'
  BY <1>1, <1>2, <1>3, <1>4, <1>6, <1>7 DEF CloseSeen, PastFlag, flags
<1>11. Sleepers' /\ SearchFlag' /\ Counting'
  <2>1. \A v \in Workers : /\ Asleep(v)' <=> Asleep(v)
                           /\ Leaver(v) => Leaver(v)'
                           /\ pc'[v] = "search_inc" => ~isSearching[v]
                           /\ pc'[v] = "exec" => isSearching[v]
    BY <1>1, <1>2, <1>3, <1>6, <1>7 DEF Asleep, Sleeping, Leaver, SearchFlag, flags
  <2> QED
    BY <1>1, <1>2, <2>1, MachineKept DEF machine, flags
<1> QED
  BY <1>4, <1>5, <1>8, <1>9, <1>10, <1>11 DEF IInv

\* task_steal: a victim, a global task, or nothing.
LEMMA ScanInv ==
  ASSUME IInv, NEW w \in Workers, Scan(w)
  PROVE  IInv'
<1>1. /\ pc[w] = "scan" /\ ~Dead
      /\ TypeOK /\ DeadTogether /\ Returns /\ Holding /\ EmptyHanded
      /\ GlobalSeen /\ CloseSeen /\ Sleepers /\ SearchFlag /\ Counting
  BY Alive, ThreadFacts DEF Scan, IInv
<1>2. UNCHANGED <<closed, machine, kernel, signal, flags, tick, life>>
  BY DEF Scan
<1>3. PICK l \in {"steal", "exec", "running", "drive"}, r \in {"idle", None},
             a \in Workers \cup {None} :
        /\ Moves(w, l, r, a)
        /\ l = "exec" => isSearching[w]
        /\ l = "steal" => a \in Workers \ {w}
        /\ l = "drive" => r = "idle"
        /\ IF l \in {"exec", "running"} THEN Takes(w)
                                      ELSE UNCHANGED <<queues, task>>
  <2>1. ASSUME NEW v \in Victims(w), Jump(w, "steal", None, v)
        PROVE  Moves(w, "steal", None, v) /\ v \in Workers \ {w}
    BY <1>1, <2>1, JumpMoves, ThreadFacts DEF Victims, WorkerPCs, Sleeping, Labels
  <2>2. ASSUME GotoExcute(w)
        PROVE  \E l \in {"exec", "running"} :
                 Moves(w, l, None, None) /\ (l = "exec" => isSearching[w])
    BY <1>1, <2>2, JumpMoves, ThreadFacts
       DEF GotoExcute, Goto, WorkerPCs, Sleeping, Labels
  <2>3. ASSUME Call(w, "drive", "idle")
        PROVE  Moves(w, "drive", "idle", None)
    BY <1>1, <2>3, JumpMoves, ThreadFacts DEF Call, WorkerPCs, Sleeping, Labels
  <2>4. \/ \E v \in Victims(w) : Jump(w, "steal", None, v) /\ UNCHANGED <<queues, task>>
        \/ Takes(w) /\ GotoExcute(w)
        \/ Call(w, "drive", "idle") /\ UNCHANGED <<queues, task>>
    BY <1>1, TakeGlobalTakes DEF Scan
  <2> QED
    BY <2>1, <2>2, <2>3, <2>4
<1>4. /\ DeadTogether' /\ Dead' = FALSE /\ Returns'
      /\ \A v \in Workers : pc'[v] \in WorkerPCs
      /\ pc'[Main] = pc[Main] /\ pc'[Main] \in MainPCs
  BY <1>1, <1>3, WorkerMoves, ThreadFacts DEF WorkerPCs, Sleeping, Labels
<1>5. TypeOK'
  BY <1>1, <1>2, <1>3, <1>4 DEF TypeOK, Moves, Takes, machine, queues, kernel, flags, life
<1>6. \A v \in Workers \ {w} : pc'[v] = pc[v] /\ after'[v] = after[v]
  BY <1>3, ThreadFacts DEF Moves
<1>7. pc'[w] = l /\ after'[w] = r
  BY <1>3 DEF Moves
<1>8. Holding' /\ EmptyHanded'
  BY <1>1, <1>2, <1>3, <1>6, <1>7 DEF Holding, EmptyHanded, HasTask, Takes, queues
<1>9. GlobalSeen'
  <2>1. CASE global' = << >>
    BY <2>1 DEF GlobalSeen
  <2>2. CASE global' # << >>
    <3>1. global # << >>
      BY <1>3, <2>2 DEF Takes, queues
    <3> QED
      BY <1>1, <1>2, <1>3, <1>4, <1>6, <1>7, <3>1 DEF GlobalSeen, Committed
  <2> QED
    BY <2>1, <2>2
<1>10. CloseSeen'
  BY <1>1, <1>2, <1>3, <1>4, <1>6, <1>7 DEF CloseSeen, PastFlag, flags
<1>11. Sleepers' /\ SearchFlag' /\ Counting'
  <2>1. \A v \in Workers : /\ Asleep(v)' <=> Asleep(v)
                           /\ Leaver(v) => Leaver(v)'
                           /\ pc'[v] = "search_inc" => ~isSearching[v]
                           /\ pc'[v] = "exec" => isSearching[v]
    BY <1>1, <1>2, <1>3, <1>6, <1>7 DEF Asleep, Sleeping, Leaver, SearchFlag, flags
  <2> QED
    BY <1>1, <1>2, <2>1, MachineKept DEF machine, flags
<1> QED
  BY <1>4, <1>5, <1>8, <1>9, <1>10, <1>11 DEF IInv

\* A theft gives the thief a task to run, if there is one by now.
LEMMA BeStolenByInv ==
  ASSUME IInv, NEW w \in Workers, BeStolenBy(w)
  PROVE  IInv'
<1>1. /\ pc[w] = "steal" /\ ~Dead
      /\ TypeOK /\ DeadTogether /\ Returns /\ Holding /\ EmptyHanded
      /\ GlobalSeen /\ CloseSeen /\ Sleepers /\ SearchFlag /\ Counting
  BY Alive, ThreadFacts DEF BeStolenBy, IInv
<1>2. UNCHANGED <<global, closed, machine, kernel, signal, flags, tick, life>>
  BY DEF BeStolenBy
<1>3. PICK l \in {"exec", "running", "drive"}, r \in {"idle", None} :
        /\ Moves(w, l, r, None)
        /\ l = "exec" => isSearching[w]
        /\ l = "drive" => r = "idle"
        /\ IF l # "drive" THEN Takes(w) ELSE UNCHANGED <<queues, task>>
  <2>1. ASSUME GotoExcute(w)
        PROVE  \E l \in {"exec", "running"} :
                 Moves(w, l, None, None) /\ (l = "exec" => isSearching[w])
    BY <1>1, <2>1, JumpMoves, ThreadFacts
       DEF GotoExcute, Goto, WorkerPCs, Sleeping, Labels
  <2>2. ASSUME Call(w, "drive", "idle")
        PROVE  Moves(w, "drive", "idle", None)
    BY <1>1, <2>2, JumpMoves, ThreadFacts DEF Call, WorkerPCs, Sleeping, Labels
  <2>3. ~HasTask(w) /\ arg[w] \in Workers \ {w}
    BY <1>1 DEF EmptyHanded, Returns
  <2>4. \/ Takes(w) /\ GotoExcute(w)
        \/ Call(w, "drive", "idle") /\ UNCHANGED <<queues, task>>
    BY <1>1, <2>3, BeStolenByTakes DEF BeStolenBy, queues
  <2> QED
    BY <2>1, <2>2, <2>4
<1>4. /\ DeadTogether' /\ Dead' = FALSE /\ Returns'
      /\ \A v \in Workers : pc'[v] \in WorkerPCs
      /\ pc'[Main] = pc[Main] /\ pc'[Main] \in MainPCs
  BY <1>1, <1>3, WorkerMoves, ThreadFacts DEF WorkerPCs, Sleeping, Labels
<1>5. TypeOK'
  BY <1>1, <1>2, <1>3, <1>4 DEF TypeOK, Moves, Takes, machine, queues, kernel, flags, life
<1>6. \A v \in Workers \ {w} : pc'[v] = pc[v] /\ after'[v] = after[v]
  BY <1>3, ThreadFacts DEF Moves
<1>7. pc'[w] = l /\ after'[w] = r
  BY <1>3 DEF Moves
<1>8. Holding' /\ EmptyHanded'
  BY <1>1, <1>2, <1>3, <1>6, <1>7 DEF Holding, EmptyHanded, HasTask, Takes, queues
<1>9. GlobalSeen'
  <2>1. CASE global' = << >>
    BY <2>1 DEF GlobalSeen
  <2>2. CASE global' # << >>
    <3>1. global # << >>
      BY <1>3, <2>2 DEF Takes, queues
    <3> QED
      BY <1>1, <1>2, <1>3, <1>4, <1>6, <1>7, <3>1 DEF GlobalSeen, Committed
  <2> QED
    BY <2>1, <2>2
<1>10. CloseSeen'
  BY <1>1, <1>2, <1>3, <1>4, <1>6, <1>7 DEF CloseSeen, PastFlag, flags
<1>11. Sleepers' /\ SearchFlag' /\ Counting'
  <2>1. \A v \in Workers : /\ Asleep(v)' <=> Asleep(v)
                           /\ Leaver(v) => Leaver(v)'
                           /\ pc'[v] = "search_inc" => ~isSearching[v]
                           /\ pc'[v] = "exec" => isSearching[v]
    BY <1>1, <1>2, <1>3, <1>6, <1>7 DEF Asleep, Sleeping, Leaver, SearchFlag, flags
  <2> QED
    BY <1>1, <1>2, <2>1, MachineKept DEF machine, flags
<1> QED
  BY <1>4, <1>5, <1>8, <1>9, <1>10, <1>11 DEF IInv

\* A coroutine ends or waits.
LEMMA SuspendInv ==
  ASSUME IInv, NEW w \in Workers, Suspend(w)
  PROVE  IInv'
<1>1. /\ pc[w] = "running" /\ ~Dead
      /\ TypeOK /\ DeadTogether /\ Returns /\ Holding /\ EmptyHanded
      /\ GlobalSeen /\ CloseSeen /\ Sleepers /\ SearchFlag /\ Counting
  BY Alive, ThreadFacts DEF Suspend, IInv
<1>2. UNCHANGED <<queues, closed, machine, cq, signal, flags, tick, fresh>>
  BY DEF Suspend
<1>3. Moves(w, "loop", None, None)
  BY <1>1, JumpMoves, ThreadFacts DEF Suspend, Goto, Call, WorkerPCs, Sleeping, Labels
<1>4. /\ DeadTogether' /\ Dead' = FALSE /\ Returns'
      /\ \A v \in Workers : pc'[v] \in WorkerPCs
      /\ pc'[Main] = pc[Main] /\ pc'[Main] \in MainPCs
  BY <1>1, <1>3, WorkerMoves, ThreadFacts DEF WorkerPCs, Sleeping, Labels
<1>5. TypeOK'
  <2>1. task[w] \in Tasks
    BY <1>1 DEF Holding
  <2>2. /\ inflight' \in [Workers -> SUBSET Tasks]
        /\ parked' \subseteq Tasks /\ ended' \subseteq Tasks
        /\ task' \in [Workers -> Tasks \cup {None}]
    <3>1. [inflight EXCEPT ![w] = @ \cup {task[w]}] \in [Workers -> SUBSET Tasks]
      BY <1>1, <2>1 DEF TypeOK
    <3>2. task' \in [Workers -> Tasks \cup {None}]
      BY <1>1 DEF TypeOK, Suspend
    <3>3. parked \cup {task[w]} \subseteq Tasks /\ ended \cup {task[w]} \subseteq Tasks
      BY <1>1, <2>1 DEF TypeOK
    <3> QED
      BY <1>1, <3>1, <3>2, <3>3 DEF TypeOK, Suspend
  <2> QED
    BY <1>1, <1>2, <1>3, <1>4, <2>2 DEF TypeOK, Moves, queues, machine, flags
<1>6. \A v \in Workers \ {w} : pc'[v] = pc[v] /\ after'[v] = after[v]
  BY <1>3, ThreadFacts DEF Moves
<1>7. pc'[w] = "loop" /\ after'[w] = None
  BY <1>3 DEF Moves
<1>8. Holding' /\ EmptyHanded'
  <2>1. \A v \in Workers \ {w} : task'[v] = task[v]
    BY <1>1 DEF TypeOK, Suspend
  <2> QED
    BY <1>1, <1>2, <1>6, <1>7, <2>1 DEF Holding, EmptyHanded, HasTask, queues
<1>9. GlobalSeen'
  BY <1>1, <1>2, <1>3, <1>4, <1>6, <1>7 DEF GlobalSeen, Committed, queues
<1>10. CloseSeen'
  BY <1>1, <1>2, <1>3, <1>4, <1>6, <1>7 DEF CloseSeen, PastFlag, flags
<1>11. Sleepers' /\ SearchFlag' /\ Counting'
  <2>1. \A v \in Workers : /\ Asleep(v)' <=> Asleep(v)
                           /\ Leaver(v) => Leaver(v)'
                           /\ pc'[v] = "search_inc" => ~isSearching[v]
                           /\ pc'[v] = "exec" => isSearching[v]
    BY <1>1, <1>2, <1>3, <1>6, <1>7 DEF Asleep, Sleeping, Leaver, SearchFlag, flags
  <2> QED
    BY <1>1, <1>2, <2>1, MachineKept DEF machine, flags
<1> QED
  BY <1>4, <1>5, <1>8, <1>9, <1>10, <1>11 DEF IInv

-----------------------------------------------------------------------------
(* Pushing tasks.                                                          *)

\* w pushes tasks to its own queues and the global one.
Gives(w) ==
  /\ global' \in Seq(Tasks)
  /\ local' \in [Workers -> Seq(Tasks)]
  /\ \A v \in Workers : Len(local'[v]) <= Capacity
  /\ cache' \in [Workers -> Tasks \cup {None}]
  /\ \A v \in Workers \ {w} : local'[v] = local[v] /\ cache'[v] = cache[v]

\* Queues within their capacity are put back in place.
LEMMA SetQueuesGives ==
  ASSUME TypeOK, NEW w \in Workers, NEW q, AreQueues(q), SetQueues(w, q)
  PROVE  /\ global' \in Seq(Tasks)
         /\ local' \in [Workers -> Seq(Tasks)]
         /\ \A v \in Workers : Len(local'[v]) <= Capacity
         /\ \A v \in Workers \ {w} : local'[v] = local[v]
BY DEF TypeOK, AreQueues, SetQueues

\* The queues of a worker, as push_back finds them.
LEMMA OwnQueues ==
  ASSUME TypeOK, NEW w \in Workers
  PROVE  AreQueues(<<local[w], global>>)
BY DEF TypeOK, AreQueues

\* push_back_task_to_local_queue fills the cache or the queues of its worker,
\* whether or not an overflow throws.
LEMMA PushLocalGives ==
  ASSUME TypeOK, NEW w \in Workers, NEW t \in Tasks, PushLocal(w, t)
  PROVE  /\ Gives(w)
         /\ UNCHANGED control \/ Call(w, "notify", "running") \/ Terminate
<1>1. [cache EXCEPT ![w] = t] \in [Workers -> Tasks \cup {None}]
  BY DEF TypeOK
<1>2. \A v \in Workers \ {w} : [cache EXCEPT ![w] = t][v] = cache[v]
  BY DEF TypeOK
<1>3. CASE cache[w] = None
  BY <1>1, <1>2, <1>3 DEF TypeOK, PushLocal, Gives
<1>4. CASE cache[w] # None /\ ~PushThrows(w, 1)
  <2>1. /\ SetQueues(w, QueuePush(<<local[w], global>>, cache[w]))
        /\ cache' = [cache EXCEPT ![w] = t]
        /\ Call(w, "notify", "running")
    BY <1>4 DEF PushLocal
  <2>2. AreQueues(QueuePush(<<local[w], global>>, cache[w]))
    BY <1>4, OwnQueues, QueuePushType DEF TypeOK
  <2> QED
    BY <1>1, <1>2, <2>1, <2>2, SetQueuesGives DEF Gives
<1>5. CASE cache[w] # None /\ PushThrows(w, 1)
  <2>1. /\ local' = [local EXCEPT ![w] = SubSeq(@, Half + 1, Len(@))]
        /\ UNCHANGED <<cache, global>>
        /\ UNCHANGED control \/ Terminate
    BY <1>5 DEF PushLocal
  <2> DEFINE s == local[w]
             rest == SubSeq(s, Half + 1, Len(s))
  <2>2. s \in Seq(Tasks) /\ Len(s) \in Nat /\ Len(s) <= Capacity
        /\ Half + 1 \in Nat \ {0} /\ Half \in Nat /\ Capacity \in Nat
    BY SchedulerAssumption DEF TypeOK, Half
  <2> HIDE DEF s
  <2>3. /\ rest \in Seq(Tasks)
        /\ Len(rest) = IF Half + 1 <= Len(s) THEN Len(s) - (Half + 1) + 1 ELSE 0
    BY <2>2, SubSeqType
  <2> HIDE DEF rest
  <2>4. rest \in Seq(Tasks) /\ Len(rest) <= Capacity
    BY <2>2, <2>3
  <2>5. local' = [local EXCEPT ![w] = rest]
    BY <2>1 DEF s, rest
  <2> QED
    BY ZenonT(30), <2>1, <2>4, <2>5 DEF TypeOK, Gives
<1> QED
  BY <1>3, <1>4, <1>5

\* A coroutine that makes others ready leaves the worker awake.
LEMMA GivesInv ==
  ASSUME IInv, NEW w \in Workers, pc[w] = "running", Gives(w),
         UNCHANGED control \/ Call(w, "notify", "running"),
         UNCHANGED <<closed, machine, kernel, signal, flags, task, tick, ended>>,
         fresh' \subseteq Tasks, parked' \subseteq Tasks
  PROVE  IInv'
<1>1. /\ pc[w] = "running" /\ ~Dead
      /\ TypeOK /\ DeadTogether /\ Returns /\ Holding /\ EmptyHanded
      /\ GlobalSeen /\ CloseSeen /\ Sleepers /\ SearchFlag /\ Counting
  BY Alive, ThreadFacts DEF IInv
<1>2. UNCHANGED <<closed, machine, kernel, signal, flags, task, tick, ended>>
  OBVIOUS
<1>3. PICK l \in {"running", "notify"}, r \in Labels \cup {None},
             a \in Workers \cup {None} :
        Moves(w, l, r, a) /\ (l = "notify" => r = "running")
  <2>1. CASE UNCHANGED control
    <3>1. Moves(w, "running", after[w], arg[w])
      BY <1>1, <2>1, ThreadFacts DEF Moves, control, TypeOK
    <3> QED
      BY <1>1, <2>1, <3>1, ThreadFacts DEF TypeOK
  <2>2. CASE Call(w, "notify", "running")
    BY <1>1, <2>2, JumpMoves, ThreadFacts DEF Call, WorkerPCs, Sleeping, Labels
  <2> QED
    BY <2>1, <2>2
<1>4. /\ DeadTogether' /\ Dead' = FALSE /\ Returns'
      /\ \A v \in Workers : pc'[v] \in WorkerPCs
      /\ pc'[Main] = pc[Main] /\ pc'[Main] \in MainPCs
  BY <1>1, <1>3, WorkerMoves, ThreadFacts DEF WorkerPCs, Sleeping, Labels
<1>5. TypeOK'
  BY <1>1, <1>2, <1>3, <1>4 DEF TypeOK, Moves, Gives, machine, kernel, flags
<1>6. \A v \in Workers \ {w} : pc'[v] = pc[v] /\ after'[v] = after[v]
  BY <1>3, ThreadFacts DEF Moves
<1>7. pc'[w] = l /\ after'[w] = r
  BY <1>3 DEF Moves
<1>8. Holding' /\ EmptyHanded'
  BY <1>1, <1>2, <1>3, <1>6, <1>7 DEF Holding, EmptyHanded, HasTask, Gives
<1>9. GlobalSeen'
  BY <1>3, <1>7 DEF GlobalSeen, Committed
<1>10. CloseSeen'
  BY <1>1, <1>2, <1>3, <1>4, <1>6, <1>7 DEF CloseSeen, PastFlag, flags
<1>11. Sleepers' /\ SearchFlag' /\ Counting'
  <2>1. \A v \in Workers : /\ Asleep(v)' <=> Asleep(v)
                           /\ Leaver(v) => Leaver(v)'
                           /\ pc'[v] = "search_inc" => ~isSearching[v]
                           /\ pc'[v] = "exec" => isSearching[v]
    BY <1>1, <1>2, <1>3, <1>6, <1>7 DEF Asleep, Sleeping, Leaver, SearchFlag, flags
  <2> QED
    BY <1>1, <1>2, <2>1, MachineKept DEF machine, flags
<1> QED
  BY <1>4, <1>5, <1>8, <1>9, <1>10, <1>11 DEF IInv

\* std::terminate.
LEMMA TerminateInv ==
  ASSUME IInv, Terminate, TypeOK', UNCHANGED sleepers
  PROVE  IInv'
<1>1. Distinct(sleepers)
  BY DEF IInv, Sleepers, Distinct
<1>2. Distinct(sleepers')
  BY <1>1
<1>3. Dead' = TRUE /\ DeadTogether'
  BY ThreadFacts DEF Terminate, DeadTogether, Dead, Threads
<1> QED
  BY <1>2, <1>3 DEF IInv

\* spawn, and a synchronisation primitive's schedule.
LEMMA SpawnInv ==
  ASSUME IInv, NEW w \in Workers, NEW t \in Tasks, Spawn(w, t) \/ Unpark(w, t)
  PROVE  IInv'
<1>1. /\ pc[w] = "running" /\ PushLocal(w, t) /\ TypeOK
      /\ UNCHANGED <<closed, machine, kernel, signal, flags, task, tick, ended>>
      /\ fresh' \subseteq Tasks /\ parked' \subseteq Tasks
  BY DEF Spawn, Unpark, IInv, TypeOK
<1>2. /\ Gives(w)
      /\ UNCHANGED control \/ Call(w, "notify", "running") \/ Terminate
  BY <1>1, PushLocalGives
<1>3. CASE Terminate
  <2>1. TypeOK'
    BY <1>1, <1>2, <1>3, ThreadFacts
       DEF TypeOK, Gives, Terminate, machine, kernel, flags, WorkerPCs, MainPCs, Threads
  <2> QED
    BY <1>1, <1>3, <2>1, TerminateInv DEF machine
<1> QED
  BY <1>1, <1>2, <1>3, GivesInv

\* Nothing catches what drive throws on the worker's thread.
LEMMA DriveThrowsInv ==
  ASSUME IInv, NEW w \in Workers, DriveThrows(w)
  PROVE  IInv'
<1>1. TypeOK /\ Terminate
      /\ UNCHANGED <<queues, closed, machine, kernel, signal, flags, task, tick, life>>
  BY DEF DriveThrows, IInv
<1>2. TypeOK'
  BY <1>1, ThreadFacts DEF TypeOK, Terminate, queues, machine, kernel, flags, life,
     WorkerPCs, MainPCs, Threads
<1> QED
  BY <1>1, <1>2, TerminateInv DEF machine

\* drive: completions are queued, and a wakeup is seen or left.
LEMMA DriveInv ==
  ASSUME IInv, NEW w \in Workers, Drive(w)
  PROVE  IInv'
<1>1. /\ pc[w] = "drive" /\ ~Dead
      /\ TypeOK /\ DeadTogether /\ Returns /\ Holding /\ EmptyHanded
      /\ GlobalSeen /\ CloseSeen /\ Sleepers /\ SearchFlag /\ Counting
  BY Alive, ThreadFacts DEF Drive, IInv
<1>2. UNCHANGED <<cache, closed, machine, inflight, flags, task, tick, life>>
  BY DEF Drive
<1>3. PICK l \in {"notify", "loop", "update"}, r \in Labels \cup {None} :
        /\ Moves(w, l, r, None)
        /\ l = "notify" => r \in {"loop", "update"} /\ after[w] # "woken"
        /\ l = "loop" => after[w] # "woken"
        /\ l = "update" => r = after[w]
        /\ l = "update" /\ r = "idle" => cq[w] = << >> /\ signal'[w] = signal[w]
        /\ signal' \in [Workers -> BOOLEAN]
        /\ \A v \in Workers \ {w} : signal'[v] = signal[v]
  <2>1. PICK seen \in BOOLEAN, left \in BOOLEAN :
          /\ (seen \/ left) = signal[w]
          /\ signal' = [signal EXCEPT ![w] = left]
          /\ LET found == cq[w] # << >> \/ seen
                 next == IF after[w] = "idle" /\ found THEN "loop" ELSE "update"
             IN  IF found /\ after[w] # "woken" /\ ShouldNotify(w)
                   THEN Call(w, "notify", next)
                   ELSE Jump(w, next, after[w], None)
    BY DEF Drive
  <2> DEFINE found == cq[w] # << >> \/ seen
             next == IF after[w] = "idle" /\ found THEN "loop" ELSE "update"
  <2>2. /\ signal' \in [Workers -> BOOLEAN]
        /\ \A v \in Workers \ {w} : signal'[v] = signal[v]
        /\ ~seen => signal'[w] = signal[w]
    BY <1>1, <2>1 DEF TypeOK
  <2>3. /\ next \in {"loop", "update"} /\ after[w] \in Labels \cup {None}
        /\ after[w] \in {"periodic", "idle", "woken"}
        /\ next = "loop" => after[w] = "idle" /\ found
        /\ next = "update" => after[w] # "idle" \/ ~found
    BY <1>1, ThreadFacts DEF TypeOK, Returns
  <2> HIDE DEF next
  <2>4. \/ after[w] # "woken" /\ Call(w, "notify", next)
        \/ Jump(w, next, after[w], None)
    BY <2>1 DEF next
  <2>5. \/ after[w] # "woken" /\ Moves(w, "notify", next, None)
        \/ Moves(w, next, after[w], None)
    BY <1>1, <2>3, <2>4, JumpMoves, ThreadFacts DEF Call, WorkerPCs, Sleeping, Labels
  <2> QED
    BY <2>2, <2>3, <2>5 DEF Labels
<1>4. /\ DeadTogether' /\ Dead' = FALSE /\ Returns'
      /\ \A v \in Workers : pc'[v] \in WorkerPCs
      /\ pc'[Main] = pc[Main] /\ pc'[Main] \in MainPCs
  BY <1>1, <1>3, WorkerMoves, ThreadFacts DEF WorkerPCs, Sleeping, Labels
<1>5. TypeOK'
  <2>1. AreQueues(QueuePushAll(<<local[w], global>>, cq[w]))
    BY <1>1, OwnQueues, QueuePushAllType DEF TypeOK
  <2>2. /\ global' \in Seq(Tasks)
        /\ local' \in [Workers -> Seq(Tasks)]
        /\ \A v \in Workers : Len(local'[v]) <= Capacity
    BY <1>1, <2>1, SetQueuesGives DEF Drive
  <2>3. cq' \in [Workers -> Seq(Tasks)]
    BY <1>1 DEF TypeOK, Drive
  <2> QED
    BY <1>1, <1>2, <1>3, <1>4, <2>2, <2>3 DEF TypeOK, Moves, machine, flags, life
<1>6. \A v \in Workers \ {w} : pc'[v] = pc[v] /\ after'[v] = after[v]
  BY <1>3, ThreadFacts DEF Moves
<1>7. pc'[w] = l /\ after'[w] = r
  BY <1>3 DEF Moves
<1>8. Holding' /\ EmptyHanded'
  <2>1. \A v \in Workers \ {w} : local'[v] = local[v]
    BY <1>1 DEF TypeOK, Drive, SetQueues
  <2> QED
    BY <1>1, <1>2, <1>3, <1>6, <1>7, <2>1 DEF Holding, EmptyHanded, HasTask
<1>9. GlobalSeen'
  <2>1. CASE l = "update" /\ r = "idle"
    <3>1. AreQueues(<<local[w], global>>) /\ cq[w] = << >> /\ cq[w] \in Seq(Tasks)
      BY <1>1, <1>3, <2>1, OwnQueues DEF TypeOK
    <3>2. QueuePushAll(<<local[w], global>>, cq[w]) = <<local[w], global>>
      BY <3>1, QueuePushAllType
    <3>3. global' = global
      BY <3>2 DEF Drive, SetQueues
    <3> QED
      BY <1>1, <1>3, <1>4, <1>6, <1>7, <2>1, <3>3 DEF GlobalSeen, Committed
  <2>2. CASE ~(l = "update" /\ r = "idle")
    <3>1. ~Committed(w)'
      BY <1>1, <1>3, <1>7, <2>2 DEF Committed, Returns
    <3> QED
      BY <3>1 DEF GlobalSeen
  <2> QED
    BY <2>1, <2>2
<1>10. CloseSeen'
  BY <1>1, <1>2, <1>3, <1>4, <1>6, <1>7 DEF CloseSeen, PastFlag, flags
<1>11. Sleepers' /\ SearchFlag' /\ Counting'
  <2>1. \A v \in Workers : /\ Asleep(v)' <=> Asleep(v)
                           /\ Leaver(v) => Leaver(v)'
                           /\ pc'[v] = "search_inc" => ~isSearching[v]
                           /\ pc'[v] = "exec" => isSearching[v]
    BY <1>1, <1>2, <1>3, <1>6, <1>7 DEF Asleep, Sleeping, Leaver, SearchFlag, flags
  <2> QED
    BY <1>1, <1>2, <2>1, MachineKept DEF machine, flags
<1> QED
  BY <1>4, <1>5, <1>8, <1>9, <1>10, <1>11 DEF IInv

-----------------------------------------------------------------------------
(* Falling asleep, searching and waking up.                                *)

\* Sets of workers, counted.
LEMMA WorkerSets ==
  ASSUME NEW S \in SUBSET Workers
  PROVE  /\ IsFiniteSet(S) /\ Cardinality(S) \in 0 .. NumWorkers
         /\ \A w \in Workers \ S : Cardinality(S \cup {w}) = Cardinality(S) + 1
         /\ \A w \in S : Cardinality(S \ {w}) = Cardinality(S) - 1
<1>1. IsFiniteSet(S) /\ Cardinality(S) <= NumWorkers
  BY SchedulerAssumption, FS_Subset DEF NumWorkers
<1>2. Cardinality(S) \in Nat /\ NumWorkers \in Nat
  BY <1>1, SchedulerAssumption, FS_CardinalityType DEF NumWorkers
<1>3. \A w \in Workers \ S : Cardinality(S \cup {w}) = Cardinality(S) + 1
  BY <1>1, FS_AddElement
<1>4. \A w \in S : Cardinality(S \ {w}) = Cardinality(S) - 1
  BY <1>1, FS_RemoveElement
<1> QED
  BY <1>1, <1>2, <1>3, <1>4

\* What is counted is a set of workers.
LEMMA CountInRange ==
  ASSUME Counting'
  PROVE  searching' \in 0 .. NumWorkers
<1>1. PICK gone \in SUBSET Workers : searching' = Cardinality((Searchers \cup gone)')
  BY DEF Counting
<1>2. Searchers' \cup gone \in SUBSET Workers
  BY DEF Searchers
<1> QED
  BY <1>1, <1>2, WorkerSets

\* A searcher counts itself.
LEMMA IncNumSearchingInv ==
  ASSUME IInv, NEW w \in Workers, IncNumSearching(w)
  PROVE  IInv'
<1>1. /\ pc[w] = "search_inc" /\ ~Dead
      /\ TypeOK /\ DeadTogether /\ Returns /\ Holding /\ EmptyHanded
      /\ GlobalSeen /\ CloseSeen /\ Sleepers /\ SearchFlag /\ Counting
  BY Alive, ThreadFacts DEF IncNumSearching, IInv
<1>2. UNCHANGED <<queues, closed, working, sleepers, kernel, signal, isShutdown, task, tick, life>>
  BY DEF IncNumSearching
<1>3. /\ Moves(w, "scan", None, None)
      /\ searching' = searching + 1
      /\ isSearching' \in [Workers -> BOOLEAN]
      /\ isSearching'[w] = TRUE
      /\ \A v \in Workers \ {w} : isSearching'[v] = isSearching[v]
  <2>1. /\ isSearching' \in [Workers -> BOOLEAN]
        /\ isSearching'[w] = TRUE
        /\ \A v \in Workers \ {w} : isSearching'[v] = isSearching[v]
    BY <1>1 DEF IncNumSearching, TypeOK
  <2> QED
    BY <1>1, <2>1, JumpMoves, ThreadFacts DEF IncNumSearching, Goto, Call, WorkerPCs, Sleeping, Labels
<1>4. /\ DeadTogether' /\ Dead' = FALSE /\ Returns'
      /\ \A v \in Workers : pc'[v] \in WorkerPCs
      /\ pc'[Main] = pc[Main] /\ pc'[Main] \in MainPCs
  BY <1>1, <1>3, WorkerMoves, ThreadFacts DEF WorkerPCs, Sleeping, Labels
<1>5. \A v \in Workers \ {w} : pc'[v] = pc[v] /\ after'[v] = after[v]
  BY <1>3, ThreadFacts DEF Moves
<1>6. pc'[w] = "scan" /\ after'[w] = None
  BY <1>3 DEF Moves
<1>7. Sleepers' /\ SearchFlag' /\ Counting'
  <2>1. PICK gone \in SUBSET Workers :
          /\ \A v \in gone : Leaver(v) /\ ~Contains(sleepers, v)
          /\ searching = Cardinality(Searchers \cup gone)
    BY <1>1 DEF Counting
  <2> DEFINE S == Searchers \cup gone
  <2>2. S \in SUBSET Workers
    BY DEF Searchers
  <2>3. \A v \in Workers \ {w} : /\ Asleep(v)' <=> Asleep(v)
                                 /\ Leaver(v)' <=> Leaver(v)
    BY <1>2, <1>3, <1>5 DEF Asleep, Leaver, flags
  <2>4. ~Asleep(w) /\ ~Asleep(w)' /\ ~Leaver(w) /\ ~isSearching[w] /\ ~Contains(sleepers, w)
    BY <1>1, <1>6 DEF Asleep, Sleeping, Leaver, SearchFlag, Sleepers
  <2>5. Searchers' = Searchers \cup {w} /\ w \notin S
    BY <1>2, <1>3, <2>1, <2>3, <2>4 DEF Searchers, Notified
  <2>6. searching' = Cardinality(Searchers' \cup gone)
    <3>1. Searchers' \cup gone = S \cup {w}
      BY <2>5
    <3> HIDE DEF S
    <3> QED
      BY <1>3, <2>1, <2>2, <2>5, <3>1, WorkerSets DEF S
  <2>7. Counting'
    BY <1>2, <2>1, <2>3, <2>4, <2>6 DEF Counting
  <2>8. Sleepers'
    BY <1>1, <1>2, <2>3, <2>4 DEF Sleepers
  <2>9. SearchFlag'
    BY <1>1, <1>2, <1>3, <1>5, <1>6, <2>3, <2>4 DEF SearchFlag
  <2> QED
    BY <2>7, <2>8, <2>9
<1>8. TypeOK'
  <2>1. searching' \in 0 .. NumWorkers
    BY <1>7, CountInRange
  <2> QED
    BY <1>1, <1>2, <1>3, <1>4, <2>1 DEF TypeOK, Moves, queues, machine, kernel, life, flags
<1>9. Holding' /\ EmptyHanded'
  BY <1>1, <1>2, <1>3, <1>5, <1>6 DEF Holding, EmptyHanded, HasTask, queues
<1>10. GlobalSeen'
  BY <1>1, <1>2, <1>3, <1>4, <1>5, <1>6 DEF GlobalSeen, Committed, queues
<1>11. CloseSeen'
  BY <1>1, <1>2, <1>3, <1>4, <1>5, <1>6 DEF CloseSeen, PastFlag, flags
<1> QED
  BY <1>4, <1>7, <1>8, <1>9, <1>10, <1>11 DEF IInv

\* A searcher that has found a task counts itself no longer.
LEMMA CancelSearchingInv ==
  ASSUME IInv, NEW w \in Workers, CancelSearching(w)
  PROVE  IInv'
<1>1. /\ pc[w] = "exec" /\ ~Dead
      /\ TypeOK /\ DeadTogether /\ Returns /\ Holding /\ EmptyHanded
      /\ GlobalSeen /\ CloseSeen /\ Sleepers /\ SearchFlag /\ Counting
  BY Alive, ThreadFacts DEF CancelSearching, IInv
<1>2. UNCHANGED <<queues, closed, working, sleepers, kernel, signal, isShutdown, task, tick, life>>
  BY DEF CancelSearching
<1>3. PICK l \in {"notify", "running"}, r \in {"running", None} :
      /\ Moves(w, l, r, None)
      /\ l = "notify" => r = "running"
      /\ searching' = searching - 1
      /\ isSearching' \in [Workers -> BOOLEAN]
      /\ isSearching'[w] = FALSE
      /\ \A v \in Workers \ {w} : isSearching'[v] = isSearching[v]
  <2>1. /\ isSearching' \in [Workers -> BOOLEAN]
        /\ isSearching'[w] = FALSE
        /\ \A v \in Workers \ {w} : isSearching'[v] = isSearching[v]
    BY <1>1 DEF CancelSearching, TypeOK
  <2> QED
    BY <1>1, <2>1, JumpMoves, ThreadFacts DEF CancelSearching, Goto, Call, WorkerPCs, Sleeping, Labels
<1>4. /\ DeadTogether' /\ Dead' = FALSE /\ Returns'
      /\ \A v \in Workers : pc'[v] \in WorkerPCs
      /\ pc'[Main] = pc[Main] /\ pc'[Main] \in MainPCs
  BY <1>1, <1>3, WorkerMoves, ThreadFacts DEF WorkerPCs, Sleeping, Labels
<1>5. \A v \in Workers \ {w} : pc'[v] = pc[v] /\ after'[v] = after[v]
  BY <1>3, ThreadFacts DEF Moves
<1>6. pc'[w] = l /\ after'[w] = r
  BY <1>3 DEF Moves
<1>7. Sleepers' /\ SearchFlag' /\ Counting'
  <2>1. PICK gone \in SUBSET Workers :
          /\ \A v \in gone : Leaver(v) /\ ~Contains(sleepers, v)
          /\ searching = Cardinality(Searchers \cup gone)
    BY <1>1 DEF Counting
  <2> DEFINE S == Searchers \cup gone
  <2>2. S \in SUBSET Workers
    BY DEF Searchers
  <2>3. \A v \in Workers \ {w} : /\ Asleep(v)' <=> Asleep(v)
                                 /\ Leaver(v)' <=> Leaver(v)
    BY <1>2, <1>3, <1>5 DEF Asleep, Leaver, flags
  <2>4. ~Asleep(w) /\ ~Asleep(w)' /\ ~Leaver(w) /\ isSearching[w] /\ ~Contains(sleepers, w)
    BY <1>1, <1>3, <1>6, ThreadFacts DEF Asleep, Sleeping, Leaver, SearchFlag, Sleepers
  <2>5. Searchers' = Searchers \ {w} /\ w \in S /\ w \notin gone
    BY <1>2, <1>3, <2>1, <2>3, <2>4 DEF Searchers, Notified
  <2>6. searching' = Cardinality(Searchers' \cup gone)
    <3>1. Searchers' \cup gone = S \ {w}
      BY <2>5
    <3> HIDE DEF S
    <3> QED
      BY <1>3, <2>1, <2>2, <2>5, <3>1, WorkerSets DEF S
  <2>7. Counting'
    BY <1>2, <2>1, <2>3, <2>5, <2>6 DEF Counting
  <2>8. Sleepers'
    BY <1>1, <1>2, <2>3, <2>4 DEF Sleepers
  <2>9. SearchFlag'
    BY <1>1, <1>2, <1>3, <1>5, <1>6, <2>3, <2>4 DEF SearchFlag
  <2> QED
    BY <2>7, <2>8, <2>9
<1>8. TypeOK'
  <2>1. searching' \in 0 .. NumWorkers
    BY <1>7, CountInRange
  <2> QED
    BY <1>1, <1>2, <1>3, <1>4, <2>1 DEF TypeOK, Moves, queues, machine, kernel, life, flags
<1>9. Holding' /\ EmptyHanded'
  BY <1>1, <1>2, <1>3, <1>5, <1>6 DEF Holding, EmptyHanded, HasTask, queues
<1>10. GlobalSeen'
  BY <1>1, <1>2, <1>3, <1>4, <1>5, <1>6 DEF GlobalSeen, Committed, queues
<1>11. CloseSeen'
  BY <1>1, <1>2, <1>3, <1>4, <1>5, <1>6 DEF CloseSeen, PastFlag, flags
<1> QED
  BY <1>4, <1>7, <1>8, <1>9, <1>10, <1>11 DEF IInv

\* A worker that has a task does not sleep.
LEMMA SetSleepingBusyInv ==
  ASSUME IInv, NEW w \in Workers, SetSleeping(w), HasTask(w)
  PROVE  IInv'
<1>1. /\ pc[w] = "sleep" /\ ~Dead
      /\ TypeOK /\ DeadTogether /\ Returns /\ Holding /\ EmptyHanded
      /\ GlobalSeen /\ CloseSeen /\ Sleepers /\ SearchFlag /\ Counting
  BY Alive, ThreadFacts DEF SetSleeping, IInv
<1>2. UNCHANGED <<queues, closed, kernel, signal, isShutdown, task, tick, life>>
  BY DEF SetSleeping
<1>3. Moves(w, "loop", None, None) /\ UNCHANGED <<machine, isSearching>>
  BY <1>1, JumpMoves, ThreadFacts DEF SetSleeping, Goto, Call, WorkerPCs, Sleeping, Labels
<1>4. /\ DeadTogether' /\ Dead' = FALSE /\ Returns'
      /\ \A v \in Workers : pc'[v] \in WorkerPCs
      /\ pc'[Main] = pc[Main] /\ pc'[Main] \in MainPCs
  BY <1>1, <1>3, WorkerMoves, ThreadFacts DEF WorkerPCs, Sleeping, Labels
<1>5. \A v \in Workers \ {w} : pc'[v] = pc[v] /\ after'[v] = after[v]
  BY <1>3, ThreadFacts DEF Moves
<1>6. pc'[w] = "loop" /\ after'[w] = None
  BY <1>3 DEF Moves
<1>7. Sleepers' /\ SearchFlag' /\ Counting'
  <2>1. \A v \in Workers : /\ Asleep(v)' <=> Asleep(v)
                           /\ Leaver(v) => Leaver(v)'
                           /\ pc'[v] = "search_inc" => ~isSearching[v]
                           /\ pc'[v] = "exec" => isSearching[v]
    BY <1>1, <1>2, <1>3, <1>5, <1>6 DEF Asleep, Sleeping, Leaver, SearchFlag, flags
  <2> QED
    BY <1>1, <1>2, <1>3, <2>1, MachineKept DEF machine, flags
<1>8. TypeOK'
  BY <1>1, <1>2, <1>3, <1>4 DEF TypeOK, Moves, queues, machine, kernel, life
<1>9. Holding' /\ EmptyHanded'
  BY <1>1, <1>2, <1>3, <1>5, <1>6 DEF Holding, EmptyHanded, HasTask, queues
<1>10. GlobalSeen'
  BY <1>1, <1>2, <1>3, <1>4, <1>5, <1>6 DEF GlobalSeen, Committed, queues
<1>11. CloseSeen'
  BY <1>1, <1>2, <1>3, <1>4, <1>5, <1>6 DEF CloseSeen, PastFlag, flags
<1> QED
  BY <1>4, <1>7, <1>8, <1>9, <1>10, <1>11 DEF IInv

\* A worker registers as a sleeper, and counts itself no longer.
LEMMA SetSleepingIdleInv ==
  ASSUME IInv, NEW w \in Workers, SetSleeping(w), ~HasTask(w)
  PROVE  IInv'
<1>1. /\ pc[w] = "sleep" /\ ~Dead
      /\ TypeOK /\ DeadTogether /\ Returns /\ Holding /\ EmptyHanded
      /\ GlobalSeen /\ CloseSeen /\ Sleepers /\ SearchFlag /\ Counting
  BY Alive, ThreadFacts DEF SetSleeping, IInv
<1>2. UNCHANGED <<queues, closed, kernel, signal, isShutdown, task, tick, life>>
  BY DEF SetSleeping
<1>3. PICK l \in {"pending", "waiting"} :
      /\ Moves(w, l, None, None)
      /\ working' = (working - 1) % WordSize
      /\ sleepers' = Append(sleepers, w)
      /\ searching' = IF isSearching[w] THEN searching - 1 ELSE searching
      /\ isSearching' \in [Workers -> BOOLEAN]
      /\ isSearching'[w] = FALSE
      /\ \A v \in Workers \ {w} : isSearching'[v] = isSearching[v]
  <2>1. /\ isSearching' \in [Workers -> BOOLEAN]
        /\ isSearching'[w] = FALSE
        /\ \A v \in Workers \ {w} : isSearching'[v] = isSearching[v]
    BY <1>1 DEF SetSleeping, TypeOK
  <2> QED
    BY <1>1, <2>1, JumpMoves, ThreadFacts DEF SetSleeping, Goto, Call, WorkerPCs, Sleeping, Labels
<1>4. /\ DeadTogether' /\ Dead' = FALSE /\ Returns'
      /\ \A v \in Workers : pc'[v] \in WorkerPCs
      /\ pc'[Main] = pc[Main] /\ pc'[Main] \in MainPCs
  BY <1>1, <1>3, WorkerMoves, ThreadFacts DEF WorkerPCs, Sleeping, Labels
<1>5. \A v \in Workers \ {w} : pc'[v] = pc[v] /\ after'[v] = after[v]
  BY <1>3, ThreadFacts DEF Moves
<1>6. pc'[w] = l /\ after'[w] = None
  BY <1>3 DEF Moves
<1>7. Sleepers' /\ SearchFlag' /\ Counting'
  <2>1. PICK gone \in SUBSET Workers :
          /\ \A v \in gone : Leaver(v) /\ ~Contains(sleepers, v)
          /\ searching = Cardinality(Searchers \cup gone)
    BY <1>1 DEF Counting
  <2> DEFINE S == Searchers \cup gone
  <2>2. S \in SUBSET Workers
    BY DEF Searchers
  <2>3. \A v \in Workers \ {w} : /\ Asleep(v)' <=> Asleep(v)
                                 /\ Leaver(v)' <=> Leaver(v)
    BY <1>2, <1>3, <1>5 DEF Asleep, Leaver, flags
  <2>4. ~Asleep(w) /\ Asleep(w)' /\ ~Leaver(w) /\ ~Contains(sleepers, w)
    BY <1>1, <1>6 DEF Asleep, Sleeping, Leaver, Sleepers
  <2>5. /\ \A i, j \in DOMAIN sleepers' : i # j => sleepers'[i] # sleepers'[j]
        /\ \A v : Contains(sleepers', v) <=> Contains(sleepers, v) \/ v = w
    <3>1. Distinct(sleepers) /\ sleepers \in Seq(Workers)
      BY <1>1 DEF Distinct, Sleepers, TypeOK
    <3>2. Distinct(sleepers') /\ \A v : Contains(sleepers', v) <=> Contains(sleepers, v) \/ v = w
      BY <1>3, <2>4, <3>1, AppendFacts
    <3> QED
      BY <3>2 DEF Distinct
  <2>6. Searchers' = Searchers \ {w} /\ w \notin gone /\ (w \in Searchers <=> isSearching[w])
    BY <1>2, <1>3, <2>1, <2>3, <2>4, <2>5 DEF Searchers, Notified
  <2>7. searching' = Cardinality(Searchers' \cup gone)
    <3>1. Searchers' \cup gone = S \ {w} /\ (w \in S <=> isSearching[w])
      BY <2>6
    <3>2. CASE isSearching[w]
      <4> HIDE DEF S
      <4> QED
        BY <1>3, <2>1, <2>2, <3>1, <3>2, WorkerSets DEF S
    <3>3. CASE ~isSearching[w]
      <4>1. S \ {w} = S
        BY <3>1, <3>3
      <4> QED
        BY <1>3, <2>1, <3>1, <3>3, <4>1
    <3> QED
      BY <3>2, <3>3
  <2>8. Counting'
    BY <1>2, <2>1, <2>3, <2>5, <2>6, <2>7 DEF Counting
  <2>9. Sleepers'
    BY <1>1, <1>2, <2>3, <2>4, <2>5 DEF Sleepers
  <2>10. SearchFlag'
    BY <1>1, <1>2, <1>3, <1>5, <1>6, <2>3, <2>4 DEF SearchFlag
  <2> QED
    BY <2>8, <2>9, <2>10
<1>8. TypeOK'
  <2>1. searching' \in 0 .. NumWorkers
    BY <1>7, CountInRange
  <2>2. working' \in 0 .. WordSize - 1
    <3>1. NumWorkers \in Nat
      BY SchedulerAssumption, FS_CardinalityType DEF NumWorkers
    <3> QED
      BY <1>1, <1>3, <3>1, SchedulerAssumption DEF TypeOK
  <2>3. sleepers' \in Seq(Workers)
    BY <1>1, <1>3 DEF TypeOK
  <2> QED
    BY <1>1, <1>2, <1>3, <1>4, <2>1, <2>2, <2>3 DEF TypeOK, Moves, queues, kernel, life
<1>9. Holding' /\ EmptyHanded'
  BY <1>1, <1>2, <1>3, <1>5, <1>6 DEF Holding, EmptyHanded, HasTask, queues
<1>10. GlobalSeen'
  BY <1>1, <1>2, <1>3, <1>4, <1>5, <1>6 DEF GlobalSeen, Committed, queues
<1>11. CloseSeen'
  BY <1>1, <1>2, <1>3, <1>4, <1>5, <1>6 DEF CloseSeen, PastFlag, flags
<1> QED
  BY <1>4, <1>7, <1>8, <1>9, <1>10, <1>11 DEF IInv

\* wait_and_drive returns with completions to drive.
LEMMA WaitAndDriveInv ==
  ASSUME IInv, NEW w \in Workers, WaitAndDrive(w), ~isShutdown[w]
  PROVE  IInv'
<1>1. /\ pc[w] = "waiting" /\ ~Dead
      /\ TypeOK /\ DeadTogether /\ Returns /\ Holding /\ EmptyHanded
      /\ GlobalSeen /\ CloseSeen /\ Sleepers /\ SearchFlag /\ Counting
  BY Alive, ThreadFacts DEF WaitAndDrive, IInv
<1>2. UNCHANGED <<queues, closed, machine, kernel, signal, flags, task, tick, life>>
  BY DEF WaitAndDrive
<1>3. Moves(w, "drive", "woken", None)
  BY <1>1, JumpMoves, ThreadFacts DEF WaitAndDrive, Goto, Call, WorkerPCs, Sleeping, Labels
<1>4. /\ DeadTogether' /\ Dead' = FALSE /\ Returns'
      /\ \A v \in Workers : pc'[v] \in WorkerPCs
      /\ pc'[Main] = pc[Main] /\ pc'[Main] \in MainPCs
  BY <1>1, <1>3, WorkerMoves, ThreadFacts DEF WorkerPCs, Sleeping, Labels
<1>5. \A v \in Workers \ {w} : pc'[v] = pc[v] /\ after'[v] = after[v]
  BY <1>3, ThreadFacts DEF Moves
<1>6. pc'[w] = "drive" /\ after'[w] = "woken"
  BY <1>3 DEF Moves
<1>7. Sleepers' /\ SearchFlag' /\ Counting'
  <2>1. \A v \in Workers : /\ Asleep(v)' <=> Asleep(v)
                           /\ Leaver(v) => Leaver(v)'
                           /\ pc'[v] = "search_inc" => ~isSearching[v]
                           /\ pc'[v] = "exec" => isSearching[v]
    BY <1>1, <1>2, <1>3, <1>5, <1>6 DEF Asleep, Sleeping, Leaver, SearchFlag, flags
  <2> QED
    BY <1>1, <1>2, <1>3, <2>1, MachineKept DEF machine, flags
<1>8. TypeOK'
  <2>1. searching' \in 0 .. NumWorkers
    BY <1>7, CountInRange
  <2> QED
    BY <1>1, <1>2, <1>3, <1>4, <2>1 DEF TypeOK, Moves, queues, machine, kernel, life, flags
<1>9. Holding' /\ EmptyHanded'
  BY <1>1, <1>2, <1>3, <1>5, <1>6 DEF Holding, EmptyHanded, HasTask, queues
<1>10. GlobalSeen'
  BY <1>1, <1>2, <1>3, <1>4, <1>5, <1>6 DEF GlobalSeen, Committed, queues
<1>11. CloseSeen'
  BY <1>1, <1>2, <1>3, <1>4, <1>5, <1>6 DEF CloseSeen, PastFlag, flags
<1> QED
  BY <1>4, <1>7, <1>8, <1>9, <1>10, <1>11 DEF IInv

\* A sleeper that sees the shutdown flag leaves without cancel_sleeping.
LEMMA LeaveSleepInv ==
  ASSUME IInv, NEW w \in Workers, WaitAndDrive(w), isShutdown[w]
  PROVE  IInv'
<1>1. /\ pc[w] = "waiting" /\ ~Dead
      /\ TypeOK /\ DeadTogether /\ Returns /\ Holding /\ EmptyHanded
      /\ GlobalSeen /\ CloseSeen /\ Sleepers /\ SearchFlag /\ Counting
  BY Alive, ThreadFacts DEF WaitAndDrive, IInv
<1>2. UNCHANGED <<queues, closed, machine, kernel, signal, flags, task, tick, life>>
  BY DEF WaitAndDrive
<1>3. Moves(w, "loop", None, None)
  BY <1>1, JumpMoves, ThreadFacts DEF WaitAndDrive, Goto, Call, WorkerPCs, Sleeping, Labels
<1>4. /\ DeadTogether' /\ Dead' = FALSE /\ Returns'
      /\ \A v \in Workers : pc'[v] \in WorkerPCs
      /\ pc'[Main] = pc[Main] /\ pc'[Main] \in MainPCs
  BY <1>1, <1>3, WorkerMoves, ThreadFacts DEF WorkerPCs, Sleeping, Labels
<1>5. \A v \in Workers \ {w} : pc'[v] = pc[v] /\ after'[v] = after[v]
  BY <1>3, ThreadFacts DEF Moves
<1>6. pc'[w] = "loop" /\ after'[w] = None
  BY <1>3 DEF Moves
<1>7. Sleepers' /\ SearchFlag' /\ Counting'
  <2>1. PICK gone \in SUBSET Workers :
          /\ \A v \in gone : Leaver(v) /\ ~Contains(sleepers, v)
          /\ searching = Cardinality(Searchers \cup gone)
    BY <1>1 DEF Counting
  <2> DEFINE S == Searchers \cup gone
  <2>2. S \in SUBSET Workers
    BY DEF Searchers
  <2>3. \A v \in Workers \ {w} : /\ Asleep(v)' <=> Asleep(v)
                                 /\ Leaver(v)' <=> Leaver(v)
    BY <1>2, <1>3, <1>5 DEF Asleep, Leaver, flags
  <2>4. /\ Asleep(w) /\ ~Asleep(w)' /\ ~isSearching[w] /\ ~Leaver(w) /\ Leaver(w)'
        /\ UNCHANGED <<sleepers, searching, isSearching>>
    BY <1>1, <1>2, <1>6 DEF Asleep, Sleeping, Leaver, SearchFlag, flags, machine
  <2>5. ASSUME Contains(sleepers, w) PROVE Counting'
    <3>1. Searchers' = Searchers
      BY <2>3, <2>4, <2>5 DEF Searchers, Notified
    <3>2. \A v \in gone : Leaver(v)' /\ ~Contains(sleepers', v)
      BY <2>1, <2>3, <2>4
    <3>3. searching' = Cardinality(Searchers' \cup gone)
      BY <2>1, <2>4, <3>1
    <3> QED
      BY <3>2, <3>3 DEF Counting
  <2>6. ASSUME ~Contains(sleepers, w) PROVE Counting'
    <3> DEFINE more == gone \cup {w}
    <3>1. Searchers' \cup more = S
      BY <2>3, <2>4, <2>6 DEF Searchers, Notified
    <3>2. \A v \in more : Leaver(v)' /\ ~Contains(sleepers', v)
      BY <2>1, <2>3, <2>4, <2>6
    <3>3. searching' = Cardinality(Searchers' \cup more) /\ more \in SUBSET Workers
      BY <2>1, <2>4, <3>1
    <3> HIDE DEF more
    <3> QED
      BY <3>2, <3>3 DEF Counting
  <2>7. Sleepers'
    BY <1>1, <2>3, <2>4 DEF Sleepers
  <2>8. SearchFlag'
    BY <1>1, <1>5, <1>6, <2>3, <2>4 DEF SearchFlag
  <2> QED
    BY <2>5, <2>6, <2>7, <2>8
<1>8. TypeOK'
  <2>1. searching' \in 0 .. NumWorkers
    BY <1>7, CountInRange
  <2> QED
    BY <1>1, <1>2, <1>3, <1>4, <2>1 DEF TypeOK, Moves, queues, machine, kernel, life, flags
<1>9. Holding' /\ EmptyHanded'
  BY <1>1, <1>2, <1>3, <1>5, <1>6 DEF Holding, EmptyHanded, HasTask, queues
<1>10. GlobalSeen'
  BY <1>1, <1>2, <1>3, <1>4, <1>5, <1>6 DEF GlobalSeen, Committed, queues
<1>11. CloseSeen'
  BY <1>1, <1>2, <1>3, <1>4, <1>5, <1>6 DEF CloseSeen, PastFlag, flags
<1> QED
  BY <1>4, <1>7, <1>8, <1>9, <1>10, <1>11 DEF IInv

\* A worker with reasons of its own to be awake takes itself off the sleepers.
LEMMA CancelOwnInv ==
  ASSUME IInv, NEW w \in Workers, CancelOwn(w)
  PROVE  IInv'
<1>1. /\ pc[w] = "cancel_own" /\ ~Dead
      /\ TypeOK /\ DeadTogether /\ Returns /\ Holding /\ EmptyHanded
      /\ GlobalSeen /\ CloseSeen /\ Sleepers /\ SearchFlag /\ Counting
  BY Alive, ThreadFacts DEF CancelOwn, IInv
<1>2. UNCHANGED <<queues, closed, working, searching, kernel, signal, isShutdown, task, tick, life>>
  BY DEF CancelOwn
<1>3. /\ Moves(w, "loop", None, None)
      /\ sleepers' = RemoveFirst(sleepers, w)
      /\ isSearching' \in [Workers -> BOOLEAN]
      /\ isSearching'[w] = ~Contains(sleepers, w)
      /\ \A v \in Workers \ {w} : isSearching'[v] = isSearching[v]
  <2>1. /\ isSearching' \in [Workers -> BOOLEAN]
        /\ isSearching'[w] = ~Contains(sleepers, w)
        /\ \A v \in Workers \ {w} : isSearching'[v] = isSearching[v]
    BY <1>1 DEF CancelOwn, TypeOK
  <2> QED
    BY <1>1, <2>1, JumpMoves, ThreadFacts DEF CancelOwn, Goto, Call, WorkerPCs, Sleeping, Labels
<1>4. /\ DeadTogether' /\ Dead' = FALSE /\ Returns'
      /\ \A v \in Workers : pc'[v] \in WorkerPCs
      /\ pc'[Main] = pc[Main] /\ pc'[Main] \in MainPCs
  BY <1>1, <1>3, WorkerMoves, ThreadFacts DEF WorkerPCs, Sleeping, Labels
<1>5. \A v \in Workers \ {w} : pc'[v] = pc[v] /\ after'[v] = after[v]
  BY <1>3, ThreadFacts DEF Moves
<1>6. pc'[w] = "loop" /\ after'[w] = None
  BY <1>3 DEF Moves
<1>7. Sleepers' /\ SearchFlag' /\ Counting'
  <2>1. PICK gone \in SUBSET Workers :
          /\ \A v \in gone : Leaver(v) /\ ~Contains(sleepers, v)
          /\ searching = Cardinality(Searchers \cup gone)
    BY <1>1 DEF Counting
  <2> DEFINE S == Searchers \cup gone
  <2>2. S \in SUBSET Workers
    BY DEF Searchers
  <2>3. \A v \in Workers \ {w} : /\ Asleep(v)' <=> Asleep(v)
                                 /\ Leaver(v)' <=> Leaver(v)
    BY <1>2, <1>3, <1>5 DEF Asleep, Leaver, flags
  <2>4. Asleep(w) /\ ~Asleep(w)' /\ ~Leaver(w) /\ ~isSearching[w]
    BY <1>1, <1>6 DEF Asleep, Sleeping, Leaver, SearchFlag
  <2>5. /\ \A i, j \in DOMAIN sleepers' : i # j => sleepers'[i] # sleepers'[j]
        /\ \A v : Contains(sleepers', v) <=> Contains(sleepers, v) /\ v # w
        /\ sleepers' \in Seq(Workers)
    <3>1. Distinct(sleepers) /\ sleepers \in Seq(Workers)
      BY <1>1 DEF Distinct, Sleepers, TypeOK
    <3>2. /\ Distinct(sleepers') /\ sleepers' \in Seq(Workers)
          /\ \A v : Contains(sleepers', v) <=> Contains(sleepers, v) /\ v # w
      BY <1>3, <3>1, RemoveFirstFacts
    <3> QED
      BY <3>2 DEF Distinct
  <2>6. Searchers' = Searchers
    BY <1>3, <2>3, <2>4, <2>5 DEF Searchers, Notified
  <2>7. Counting'
    <3>1. \A v \in gone : Leaver(v)' /\ ~Contains(sleepers', v)
      BY <2>1, <2>3, <2>4, <2>5
    <3> QED
      BY <1>2, <2>1, <2>6, <3>1 DEF Counting
  <2>8. Sleepers'
    BY <1>1, <2>3, <2>4, <2>5 DEF Sleepers
  <2>9. SearchFlag'
    BY <1>1, <1>3, <1>5, <1>6, <2>3, <2>4 DEF SearchFlag
  <2> QED
    BY <2>7, <2>8, <2>9
<1>8. TypeOK'
  <2>1. sleepers' \in Seq(Workers)
    BY <1>1, <1>3, RemoveFirstFacts DEF TypeOK, Sleepers, Distinct
  <2> QED
    BY <1>1, <1>2, <1>3, <1>4, <2>1 DEF TypeOK, Moves, queues, kernel, life
<1>9. Holding' /\ EmptyHanded'
  BY <1>1, <1>2, <1>3, <1>5, <1>6 DEF Holding, EmptyHanded, HasTask, queues
<1>10. GlobalSeen'
  BY <1>1, <1>2, <1>3, <1>4, <1>5, <1>6 DEF GlobalSeen, Committed, queues
<1>11. CloseSeen'
  BY <1>1, <1>2, <1>3, <1>4, <1>5, <1>6 DEF CloseSeen, PastFlag, flags
<1> QED
  BY <1>4, <1>7, <1>8, <1>9, <1>10, <1>11 DEF IInv

\* A worker that nobody took off the sleepers waits on.
LEMMA StillSleepingInv ==
  ASSUME IInv, NEW w \in Workers, StillSleeping(w), Contains(sleepers, w)
  PROVE  IInv'
<1>1. /\ pc[w] = "contains" /\ ~Dead
      /\ TypeOK /\ DeadTogether /\ Returns /\ Holding /\ EmptyHanded
      /\ GlobalSeen /\ CloseSeen /\ Sleepers /\ SearchFlag /\ Counting
  BY Alive, ThreadFacts DEF StillSleeping, IInv
<1>2. UNCHANGED <<queues, closed, machine, kernel, signal, isShutdown, task, tick, life>>
  BY DEF StillSleeping
<1>3. Moves(w, "waiting", None, None) /\ UNCHANGED isSearching
  BY <1>1, JumpMoves, ThreadFacts DEF StillSleeping, Goto, Call, WorkerPCs, Sleeping, Labels
<1>4. /\ DeadTogether' /\ Dead' = FALSE /\ Returns'
      /\ \A v \in Workers : pc'[v] \in WorkerPCs
      /\ pc'[Main] = pc[Main] /\ pc'[Main] \in MainPCs
  BY <1>1, <1>3, WorkerMoves, ThreadFacts DEF WorkerPCs, Sleeping, Labels
<1>5. \A v \in Workers \ {w} : pc'[v] = pc[v] /\ after'[v] = after[v]
  BY <1>3, ThreadFacts DEF Moves
<1>6. pc'[w] = "waiting" /\ after'[w] = None
  BY <1>3 DEF Moves
<1>7. Sleepers' /\ SearchFlag' /\ Counting'
  <2>1. \A v \in Workers : /\ Asleep(v)' <=> Asleep(v)
                           /\ Leaver(v) => Leaver(v)'
                           /\ pc'[v] = "search_inc" => ~isSearching[v]
                           /\ pc'[v] = "exec" => isSearching[v]
    BY <1>1, <1>2, <1>3, <1>5, <1>6 DEF Asleep, Sleeping, Leaver, SearchFlag, flags
  <2> QED
    BY <1>1, <1>2, <1>3, <2>1, MachineKept DEF machine, flags
<1>8. TypeOK'
  BY <1>1, <1>2, <1>3, <1>4 DEF TypeOK, Moves, queues, machine, kernel, life
<1>9. Holding' /\ EmptyHanded'
  BY <1>1, <1>2, <1>3, <1>5, <1>6 DEF Holding, EmptyHanded, HasTask, queues
<1>10. GlobalSeen'
  BY <1>1, <1>2, <1>3, <1>4, <1>5, <1>6 DEF GlobalSeen, Committed, queues
<1>11. CloseSeen'
  BY <1>1, <1>2, <1>3, <1>4, <1>5, <1>6 DEF CloseSeen, PastFlag, flags
<1> QED
  BY <1>4, <1>7, <1>8, <1>9, <1>10, <1>11 DEF IInv

\* A worker that was taken off the sleepers is a searcher.
LEMMA NotifiedInv ==
  ASSUME IInv, NEW w \in Workers, StillSleeping(w), ~Contains(sleepers, w)
  PROVE  IInv'
<1>1. /\ pc[w] = "contains" /\ ~Dead
      /\ TypeOK /\ DeadTogether /\ Returns /\ Holding /\ EmptyHanded
      /\ GlobalSeen /\ CloseSeen /\ Sleepers /\ SearchFlag /\ Counting
  BY Alive, ThreadFacts DEF StillSleeping, IInv
<1>2. UNCHANGED <<queues, closed, machine, kernel, signal, isShutdown, task, tick, life>>
  BY DEF StillSleeping
<1>3. /\ Moves(w, "loop", None, None)
      /\ isSearching' \in [Workers -> BOOLEAN]
      /\ isSearching'[w] = TRUE
      /\ \A v \in Workers \ {w} : isSearching'[v] = isSearching[v]
  <2>1. /\ isSearching' \in [Workers -> BOOLEAN]
        /\ isSearching'[w] = TRUE
        /\ \A v \in Workers \ {w} : isSearching'[v] = isSearching[v]
    BY <1>1 DEF StillSleeping, TypeOK
  <2> QED
    BY <1>1, <2>1, JumpMoves, ThreadFacts DEF StillSleeping, Goto, Call, WorkerPCs, Sleeping, Labels
<1>4. /\ DeadTogether' /\ Dead' = FALSE /\ Returns'
      /\ \A v \in Workers : pc'[v] \in WorkerPCs
      /\ pc'[Main] = pc[Main] /\ pc'[Main] \in MainPCs
  BY <1>1, <1>3, WorkerMoves, ThreadFacts DEF WorkerPCs, Sleeping, Labels
<1>5. \A v \in Workers \ {w} : pc'[v] = pc[v] /\ after'[v] = after[v]
  BY <1>3, ThreadFacts DEF Moves
<1>6. pc'[w] = "loop" /\ after'[w] = None
  BY <1>3 DEF Moves
<1>7. Sleepers' /\ SearchFlag' /\ Counting'
  <2>1. PICK gone \in SUBSET Workers :
          /\ \A v \in gone : Leaver(v) /\ ~Contains(sleepers, v)
          /\ searching = Cardinality(Searchers \cup gone)
    BY <1>1 DEF Counting
  <2> DEFINE S == Searchers \cup gone
  <2>2. S \in SUBSET Workers
    BY DEF Searchers
  <2>3. \A v \in Workers \ {w} : /\ Asleep(v)' <=> Asleep(v)
                                 /\ Leaver(v)' <=> Leaver(v)
    BY <1>2, <1>3, <1>5 DEF Asleep, Leaver, flags
  <2>4. Asleep(w) /\ ~Asleep(w)' /\ ~Leaver(w) /\ ~Contains(sleepers, w)
        /\ UNCHANGED <<sleepers, searching>>
    BY <1>1, <1>2, <1>6 DEF Asleep, Sleeping, Leaver, machine
  <2>5. Searchers' = Searchers
    BY <1>3, <2>3, <2>4 DEF Searchers, Notified
  <2>6. Counting'
    <3>1. \A v \in gone : Leaver(v)' /\ ~Contains(sleepers', v)
      BY <2>1, <2>3, <2>4
    <3> QED
      BY <2>1, <2>4, <2>5, <3>1 DEF Counting
  <2>7. Sleepers'
    BY <1>1, <2>3, <2>4 DEF Sleepers
  <2>8. SearchFlag'
    BY <1>1, <1>3, <1>5, <1>6, <2>3, <2>4 DEF SearchFlag
  <2> QED
    BY <2>6, <2>7, <2>8
<1>8. TypeOK'
  BY <1>1, <1>2, <1>3, <1>4 DEF TypeOK, Moves, queues, machine, kernel, life
<1>9. Holding' /\ EmptyHanded'
  BY <1>1, <1>2, <1>3, <1>5, <1>6 DEF Holding, EmptyHanded, HasTask, queues
<1>10. GlobalSeen'
  BY <1>1, <1>2, <1>3, <1>4, <1>5, <1>6 DEF GlobalSeen, Committed, queues
<1>11. CloseSeen'
  BY <1>1, <1>2, <1>3, <1>4, <1>5, <1>6 DEF CloseSeen, PastFlag, flags
<1> QED
  BY <1>4, <1>7, <1>8, <1>9, <1>10, <1>11 DEF IInv

-----------------------------------------------------------------------------
(* Waking others up.                                                       *)

\* worker_to_notify: the last sleeper becomes a searcher before it knows; if
\* it has left already it is counted with those that are gone.
LEMMA WokenMachine ==
  ASSUME IInv, NEW th \in Threads, WorkerToNotify(th),
         \A v \in Workers : /\ Asleep(v)' <=> Asleep(v)
                            /\ Leaver(v) => Leaver(v)'
                            /\ pc'[v] \notin {"search_inc", "exec"} \/ pc'[v] = pc[v]
  PROVE  /\ Sleepers' /\ SearchFlag' /\ Counting'
         /\ sleepers' \in Seq(Workers) /\ working' \in 0 .. WordSize - 1
<1>1. /\ ~Dead /\ UNCHANGED flags
      /\ TypeOK /\ Sleepers /\ SearchFlag /\ Counting
  BY Alive DEF WorkerToNotify
<1>2. SearchFlag'
  BY <1>1 DEF SearchFlag, flags
<1>3. CASE UNCHANGED machine
  <2>1. \A v \in Workers : /\ pc'[v] = "search_inc" => ~isSearching[v]
                           /\ pc'[v] = "exec" => isSearching[v]
    BY <1>1 DEF SearchFlag
  <2>2. Sleepers' /\ SearchFlag' /\ Counting'
    BY <1>1, <1>3, <2>1, MachineKept DEF machine, flags
  <2> QED
    BY <1>1, <1>3, <2>2 DEF machine, TypeOK
<1>4. CASE ~(UNCHANGED machine)
  <2>1. /\ sleepers # << >> /\ working' = (working + 1) % WordSize
        /\ searching' = searching + 1 /\ sleepers' = Front(sleepers)
    BY <1>4 DEF WorkerToNotify
  <2> DEFINE u == Last(sleepers)
  <2>2. /\ \A i, j \in DOMAIN sleepers' : i # j => sleepers'[i] # sleepers'[j]
        /\ sleepers' \in Seq(Workers) /\ u \in Workers /\ Contains(sleepers, u)
        /\ \A v : Contains(sleepers', v) <=> Contains(sleepers, v) /\ v # u
    <3>1. Distinct(sleepers) /\ sleepers \in Seq(Workers)
      BY <1>1 DEF Distinct, Sleepers, TypeOK
    <3>2. /\ Distinct(sleepers') /\ sleepers' \in Seq(Workers)
          /\ u \in Workers /\ Contains(sleepers, u)
          /\ \A v : Contains(sleepers', v) <=> Contains(sleepers, v) /\ v # u
      BY <2>1, <3>1, FrontFacts
    <3> HIDE DEF u
    <3> QED
      BY <3>2 DEF Distinct
  <2> HIDE DEF u
  <2>3. PICK gone \in SUBSET Workers :
          /\ \A v \in gone : Leaver(v) /\ ~Contains(sleepers, v)
          /\ searching = Cardinality(Searchers \cup gone)
    BY <1>1 DEF Counting
  <2> DEFINE S == Searchers \cup gone
  <2>4. S \in SUBSET Workers
    BY DEF Searchers
  <2>5. u \notin S /\ ~isSearching[u] /\ (Asleep(u) \/ Leaver(u))
    BY <1>1, <2>2, <2>3 DEF Searchers, Notified, Sleepers, SearchFlag, Leaver
  <2>6. PICK more \in SUBSET Workers :
          /\ \A v \in more : Leaver(v)' /\ ~Contains(sleepers', v)
          /\ Searchers' \cup more = S \cup {u}
    <3>1. CASE Asleep(u)
      <4>1. Searchers' = Searchers \cup {u}
        BY <1>1, <2>2, <3>1 DEF Searchers, Notified, flags
      <4>2. \A v \in gone : Leaver(v)' /\ ~Contains(sleepers', v)
        BY <2>2, <2>3
      <4>3. Searchers' \cup gone = S \cup {u}
        BY <4>1
      <4> QED
        BY <4>2, <4>3
    <3>2. CASE ~Asleep(u)
      <4>1. Searchers' = Searchers
        BY <1>1, <2>2, <3>2 DEF Searchers, Notified, flags
      <4>2. \A v \in gone \cup {u} : Leaver(v)' /\ ~Contains(sleepers', v)
        BY <2>2, <2>3, <2>5, <3>2
      <4>3. Searchers' \cup (gone \cup {u}) = S \cup {u}
        BY <4>1
      <4>4. gone \cup {u} \in SUBSET Workers
        BY <2>2
      <4> QED
        BY <4>2, <4>3, <4>4
    <3> QED
      BY <3>1, <3>2
  <2>7. searching' = Cardinality(S \cup {u})
    <3>1. searching = Cardinality(S)
      BY <2>3
    <3> HIDE DEF S
    <3> QED
      BY <2>1, <2>2, <2>4, <2>5, <3>1, WorkerSets
  <2>8. Counting'
    BY <2>6, <2>7 DEF Counting
  <2>9. Sleepers'
    BY <1>1, <2>2 DEF Sleepers
  <2>10. working' \in 0 .. WordSize - 1
    <3>1. WordSize \in Nat \ {0} /\ working \in Nat
      BY <1>1, SchedulerAssumption, FS_CardinalityType DEF TypeOK, NumWorkers
    <3> QED
      BY <2>1, <3>1
  <2> QED
    BY <1>2, <2>2, <2>8, <2>9, <2>10
<1> QED
  BY <1>3, <1>4

\* worker_to_notify, from a worker, which has a Waker to write or returns.
LEMMA WorkerToNotifyInv ==
  ASSUME IInv, NEW w \in Workers, WorkerToNotify(w)
  PROVE  IInv'
<1>1. /\ pc[w] = "notify" /\ ~Dead
      /\ TypeOK /\ DeadTogether /\ Returns /\ Holding /\ EmptyHanded
      /\ GlobalSeen /\ CloseSeen /\ Sleepers /\ SearchFlag /\ Counting
  BY Alive, ThreadFacts DEF WorkerToNotify, IInv
<1>2. UNCHANGED <<queues, closed, kernel, signal, flags, task, tick, life>>
  BY DEF WorkerToNotify
<1>3. PICK l \in {"notify", "running", "waiting", "loop", "update"},
           r \in Labels \cup {None}, a \in Workers \cup {None} :
        /\ Moves(w, l, r, a)
        /\ \/ l = "notify" /\ r = after[w]
           \/ l # "notify" /\ l = after[w] /\ r = None
        /\ l = "notify" => r \in {"running", "waiting", "loop", "update"}
  <2>1. /\ after[w] \in {"running", "waiting", "loop", "update"}
        /\ after[w] \in Labels
    BY <1>1 DEF Returns, Labels
  <2>2. CASE Jump(w, after[w], None, None)
    <3>1. Moves(w, after[w], None, None)
      BY <1>1, <2>1, <2>2, JumpMoves, ThreadFacts DEF WorkerPCs, Sleeping
    <3> QED
      BY <2>1, <3>1
  <2>3. CASE sleepers # << >> /\ Jump(w, "notify", after[w], Last(sleepers))
    <3>1. Last(sleepers) \in Workers
      <4>1. sleepers \in Seq(Workers) /\ Distinct(sleepers)
        BY <1>1 DEF TypeOK, Sleepers, Distinct
      <4> QED
        BY <2>3, <4>1, FrontFacts
    <3> DEFINE u == Last(sleepers)
    <3>2. Jump(w, "notify", after[w], u)
      BY <2>3
    <3> HIDE DEF u
    <3>3. u \in Workers
      BY <3>1 DEF u
    <3>4. Moves(w, "notify", after[w], u)
      BY <1>1, <2>1, <3>2, <3>3, JumpMoves, ThreadFacts DEF WorkerPCs
    <3> QED
      BY <2>1, <3>3, <3>4
  <2> QED
    BY <2>2, <2>3 DEF WorkerToNotify, Goto
<1>4. /\ DeadTogether' /\ Dead' = FALSE /\ Returns'
      /\ \A v \in Workers : pc'[v] \in WorkerPCs
      /\ pc'[Main] = pc[Main] /\ pc'[Main] \in MainPCs
  BY <1>1, <1>3, WorkerMoves, ThreadFacts DEF WorkerPCs, Sleeping, Labels
<1>5. \A v \in Workers \ {w} : pc'[v] = pc[v] /\ after'[v] = after[v]
  BY <1>3, ThreadFacts DEF Moves
<1>6. pc'[w] = l /\ after'[w] = r
  BY <1>3 DEF Moves
<1>7. /\ Sleepers' /\ SearchFlag' /\ Counting'
      /\ sleepers' \in Seq(Workers) /\ working' \in 0 .. WordSize - 1
  <2>1. \A v \in Workers : /\ Asleep(v)' <=> Asleep(v)
                           /\ Leaver(v) => Leaver(v)'
                           /\ pc'[v] \notin {"search_inc", "exec"} \/ pc'[v] = pc[v]
    <3>1. None # "woken"
      BY ThreadFacts DEF Labels
    <3>2. \A v \in Workers \ {w} : /\ Asleep(v)' <=> Asleep(v)
                                   /\ Leaver(v)' <=> Leaver(v)
      BY <1>2, <1>5 DEF Asleep, Leaver, flags
    <3>3. ~Leaver(w)
      BY <1>1 DEF Leaver
    <3>4. Asleep(w) <=> after[w] = "waiting"
      BY <1>1, <1>3 DEF Asleep, Sleeping
    <3>5. Asleep(w)' <=> after[w] = "waiting"
      BY <1>1, <1>3, <1>6, <3>1 DEF Asleep, Sleeping, Returns
    <3> QED
      BY <1>3, <1>5, <1>6, <3>2, <3>3, <3>4, <3>5
  <2> QED
    BY <2>1, WokenMachine, ThreadFacts
<1>8. TypeOK'
  <2>1. searching' \in 0 .. NumWorkers
    BY <1>7, CountInRange
  <2> QED
    BY <1>1, <1>2, <1>3, <1>4, <1>7, <2>1 DEF TypeOK, Moves, queues, kernel, life, flags
<1>9. Holding' /\ EmptyHanded'
  BY <1>1, <1>2, <1>3, <1>5, <1>6 DEF Holding, EmptyHanded, HasTask, queues
<1>10. GlobalSeen'
  <2>1. None # "idle"
    BY ThreadFacts DEF Labels
  <2>2. Committed(w)' => Committed(w)
    BY <1>1, <1>3, <1>6, <2>1 DEF Committed
  <2>3. \A v \in Workers \ {w} : Committed(v)' <=> Committed(v)
    BY <1>5 DEF Committed
  <2>4. UNCHANGED global /\ pc'[Main] = pc[Main]
    BY <1>2, <1>4 DEF queues
  <2> HIDE DEF Committed
  <2> QED
    BY <1>1, <1>2, <2>2, <2>3, <2>4 DEF GlobalSeen
<1>11. CloseSeen'
  BY <1>1, <1>2, <1>3, <1>4, <1>5, <1>6 DEF CloseSeen, PastFlag, flags
<1> QED
  BY <1>4, <1>7, <1>8, <1>9, <1>10, <1>11 DEF IInv

\* The Waker of the one it has taken, from a worker.
LEMMA WakeUpInv ==
  ASSUME IInv, NEW w \in Workers, WakeUp(w)
  PROVE  IInv'
<1>1. /\ pc[w] = "notify" /\ ~Dead
      /\ TypeOK /\ DeadTogether /\ Returns /\ Holding /\ EmptyHanded
      /\ GlobalSeen /\ CloseSeen /\ Sleepers /\ SearchFlag /\ Counting
  BY Alive, ThreadFacts DEF WakeUp, IInv
<1>2. UNCHANGED <<queues, closed, machine, kernel, flags, task, tick, life>>
  BY DEF WakeUp
<1>3. PICK l \in {"running", "waiting", "loop", "update"} :
      /\ Moves(w, l, None, None) /\ l = after[w]
      /\ signal' \in [Workers -> BOOLEAN]
      /\ \A v \in Workers : signal[v] => signal'[v]
  <2>1. /\ signal' \in [Workers -> BOOLEAN]
        /\ \A v \in Workers : signal[v] => signal'[v]
    BY <1>1 DEF WakeUp, TypeOK
  <2>2. after[w] \in {"running", "waiting", "loop", "update"}
    BY <1>1 DEF Returns
  <2>3. Moves(w, after[w], None, None)
    BY <1>1, <2>2, JumpMoves, ThreadFacts DEF WakeUp, Goto, WorkerPCs, Sleeping, Labels
  <2> QED
    BY <2>1, <2>2, <2>3
<1>4. /\ DeadTogether' /\ Dead' = FALSE /\ Returns'
      /\ \A v \in Workers : pc'[v] \in WorkerPCs
      /\ pc'[Main] = pc[Main] /\ pc'[Main] \in MainPCs
  BY <1>1, <1>3, WorkerMoves, ThreadFacts DEF WorkerPCs, Sleeping, Labels
<1>5. \A v \in Workers \ {w} : pc'[v] = pc[v] /\ after'[v] = after[v]
  BY <1>3, ThreadFacts DEF Moves
<1>6. pc'[w] = l /\ after'[w] = None
  BY <1>3 DEF Moves
<1>7. Sleepers' /\ SearchFlag' /\ Counting'
  <2>1. \A v \in Workers : /\ Asleep(v)' <=> Asleep(v)
                           /\ Leaver(v) => Leaver(v)'
                           /\ pc'[v] = "search_inc" => ~isSearching[v]
                           /\ pc'[v] = "exec" => isSearching[v]
    <3>1. None # "woken"
      BY ThreadFacts DEF Labels
    <3>2. \A v \in Workers \ {w} : /\ Asleep(v)' <=> Asleep(v)
                                   /\ Leaver(v)' <=> Leaver(v)
                                   /\ pc'[v] = "search_inc" => ~isSearching[v]
                                   /\ pc'[v] = "exec" => isSearching[v]
      BY <1>1, <1>2, <1>5 DEF Asleep, Leaver, SearchFlag, flags
    <3>3. ~Leaver(w)
      BY <1>1 DEF Leaver
    <3>4. Asleep(w) <=> l = "waiting"
      BY <1>1, <1>3 DEF Asleep, Sleeping
    <3>5. Asleep(w)' <=> l = "waiting"
      BY <1>3, <1>6, <3>1 DEF Asleep, Sleeping
    <3> QED
      BY <1>3, <1>6, <3>2, <3>3, <3>4, <3>5
  <2> QED
    BY <1>1, <1>2, <2>1, MachineKept DEF machine, flags
<1>8. TypeOK'
  BY <1>1, <1>2, <1>3, <1>4 DEF TypeOK, Moves, queues, machine, kernel, life, flags
<1>9. Holding' /\ EmptyHanded'
  BY <1>1, <1>2, <1>3, <1>5, <1>6 DEF Holding, EmptyHanded, HasTask, queues
<1>10. GlobalSeen'
  <2>1. None # "idle"
    BY ThreadFacts DEF Labels
  <2>2. Committed(w)' => Committed(w)
    BY <1>1, <1>3, <1>6, <2>1 DEF Committed
  <2>3. \A v \in Workers \ {w} : Committed(v)' <=> Committed(v)
    BY <1>5 DEF Committed
  <2>4. UNCHANGED global /\ pc'[Main] = pc[Main]
    BY <1>2, <1>4 DEF queues
  <2> HIDE DEF Committed
  <2> QED
    BY <1>1, <1>3, <2>2, <2>3, <2>4 DEF GlobalSeen
<1>11. CloseSeen'
  BY <1>1, <1>2, <1>3, <1>4, <1>5, <1>6 DEF CloseSeen, PastFlag, flags
<1> QED
  BY <1>4, <1>7, <1>8, <1>9, <1>10, <1>11 DEF IInv

-----------------------------------------------------------------------------
(* The thread that owns the runtime, and the kernel.                       *)

\* A completion, or no step at all: no thread moves.
LEMMA ControlKeptInv ==
  ASSUME IInv, TypeOK',
         UNCHANGED <<queues, closed, machine, signal, flags, task, control>>
  PROVE  IInv'
<1> USE DEF control
<1>1. DeadTogether' /\ (Dead' <=> Dead) /\ (Dead' => Distinct(sleepers'))
  BY DEF IInv, DeadTogether, Dead, machine
<1>2. ASSUME ~Dead
      PROVE  /\ Returns' /\ Holding' /\ EmptyHanded' /\ GlobalSeen' /\ CloseSeen'
             /\ Sleepers' /\ SearchFlag' /\ Counting'
  <2>1. /\ Returns /\ Holding /\ EmptyHanded /\ GlobalSeen /\ CloseSeen
        /\ Sleepers /\ SearchFlag /\ Counting
    BY <1>2 DEF IInv
  <2>2. Returns' /\ Holding' /\ EmptyHanded'
    BY <2>1 DEF Returns, Holding, EmptyHanded, HasTask, queues
  <2>3. GlobalSeen' /\ CloseSeen'
    BY <2>1 DEF GlobalSeen, Committed, CloseSeen, PastFlag, queues, flags
  <2>4. \A v \in Workers : /\ Asleep(v)' <=> Asleep(v)
                           /\ Leaver(v) => Leaver(v)'
                           /\ pc'[v] = "search_inc" => ~isSearching[v]
                           /\ pc'[v] = "exec" => isSearching[v]
    BY <2>1 DEF Asleep, Leaver, SearchFlag, flags
  <2> QED
    BY <2>1, <2>2, <2>3, <2>4, MachineKept DEF machine, flags
<1> QED
  BY <1>1, <1>2 DEF IInv

\* The kernel completes an operation.
LEMMA IoCompletesInv ==
  ASSUME IInv, NEW w \in Workers, NEW t \in Tasks, IoCompletes(w, t)
  PROVE  IInv'
<1>1. UNCHANGED <<queues, closed, machine, signal, flags, task, tick, life, control>>
  BY DEF IoCompletes
<1>2. /\ inflight' \in [Workers -> SUBSET Tasks]
      /\ cq' \in [Workers -> Seq(Tasks)]
  BY DEF IoCompletes, IInv, TypeOK
<1>3. TypeOK'
  BY <1>1, <1>2 DEF IInv, TypeOK, queues, machine, flags, life, control
<1> QED
  BY <1>1, <1>3, ControlKeptInv

\* Nothing happens.
LEMMA StutterInv ==
  ASSUME IInv, UNCHANGED vars
  PROVE  IInv'
<1>1. TypeOK'
  BY DEF IInv, TypeOK, vars, queues, machine, kernel, flags, life, control
<1> QED
  BY <1>1, ControlKeptInv DEF vars

\* Main goes on to label l: the workers stay where they are.
LEMMA MainMoves ==
  ASSUME TypeOK, DeadTogether, Returns, ~Dead,
         NEW l \in MainPCs \ {"terminated"}, NEW r \in Labels \cup {None},
         NEW a \in Workers \cup {None},
         Moves(Main, l, r, a), l = "notify" => r = "all"
  PROVE  /\ DeadTogether' /\ Dead' = FALSE /\ Returns'
         /\ \A v \in Workers : pc'[v] = pc[v] /\ after'[v] = after[v] /\ arg'[v] = arg[v]
         /\ \A v \in Workers : pc'[v] \in WorkerPCs
         /\ pc'[Main] = l
<1>1. /\ \A v \in Workers : pc'[v] = pc[v] /\ after'[v] = after[v] /\ arg'[v] = arg[v]
      /\ pc'[Main] = l /\ after'[Main] = r
  BY ThreadFacts DEF Moves
<1>2. Dead' = FALSE /\ DeadTogether'
  BY <1>1 DEF Dead, DeadTogether
<1>3. Returns'
  BY <1>1 DEF Returns
<1> QED
  BY <1>1, <1>2, <1>3 DEF TypeOK

\* A step of Main that leaves the workers' queues, flags and the StateMachine
\* alone.
LEMMA MainInv ==
  ASSUME IInv, pc[Main] # "terminated",
         NEW l \in MainPCs \ {"terminated"}, NEW r \in Labels \cup {None},
         Moves(Main, l, r, None), l = "notify" => r = "all",
         UNCHANGED <<cache, local, machine, kernel, flags, task, tick, parked, ended>>,
         global' \in Seq(Tasks), closed' \in BOOLEAN,
         signal' \in [Workers -> BOOLEAN], fresh' \subseteq Tasks,
         GlobalSeen', CloseSeen'
  PROVE  IInv'
<1>1. /\ ~Dead /\ DeadTogether
      /\ TypeOK /\ Returns /\ Holding /\ EmptyHanded
      /\ Sleepers /\ SearchFlag /\ Counting
  BY DEF IInv, Dead
<1>2. /\ DeadTogether' /\ Dead' = FALSE /\ Returns'
      /\ \A v \in Workers : pc'[v] = pc[v] /\ after'[v] = after[v]
      /\ \A v \in Workers : pc'[v] \in WorkerPCs
      /\ pc'[Main] = l
  BY <1>1, MainMoves
<1>3. TypeOK'
  BY <1>1, <1>2 DEF TypeOK, Moves, machine, kernel, flags
<1>4. Holding' /\ EmptyHanded'
  BY <1>1, <1>2 DEF Holding, EmptyHanded, HasTask
<1>5. Sleepers' /\ SearchFlag' /\ Counting'
  <2>1. \A v \in Workers : /\ Asleep(v)' <=> Asleep(v)
                           /\ Leaver(v) => Leaver(v)'
                           /\ pc'[v] = "search_inc" => ~isSearching[v]
                           /\ pc'[v] = "exec" => isSearching[v]
    BY <1>1, <1>2 DEF Asleep, Leaver, SearchFlag, flags
  <2> QED
    BY <1>1, <2>1, MachineKept DEF machine, flags
<1> QED
  BY <1>2, <1>3, <1>4, <1>5 DEF IInv

\* A task is submitted from outside: Main is about to wake everybody.
LEMMA SubmitInv ==
  ASSUME IInv, NEW t \in Tasks, Submit(t)
  PROVE  IInv'
<1>1. /\ pc[Main] = "idle" /\ TypeOK /\ CloseSeen
  BY DEF Submit, IInv, Dead
<1>2. /\ UNCHANGED <<cache, local, closed, machine, kernel, signal, flags, task, tick,
                     parked, ended>>
      /\ global' \in Seq(Tasks) /\ fresh' \subseteq Tasks
  BY <1>1 DEF Submit, TypeOK
<1>3. Moves(Main, "notify", "all", None)
  BY <1>1, JumpMoves, ThreadFacts DEF Submit, Call, MainPCs, Labels
<1>4. /\ pc'[Main] = "notify"
      /\ \A v \in Workers : pc'[v] = pc[v] /\ after'[v] = after[v]
  BY <1>3, ThreadFacts DEF Moves
<1>5. GlobalSeen' /\ CloseSeen'
  BY <1>1, <1>2, <1>4 DEF GlobalSeen, CloseSeen, PastFlag, flags
<1> QED
  BY <1>1, <1>2, <1>3, <1>5, MainInv DEF MainPCs, Labels, TypeOK

\* Shared::close: Main is about to wake everybody.
LEMMA CloseInv ==
  ASSUME IInv, Close
  PROVE  IInv'
<1>1. /\ pc[Main] = "idle" /\ TypeOK /\ GlobalSeen
  BY DEF Close, IInv, Dead
<1>2. /\ UNCHANGED <<queues, machine, kernel, signal, flags, task, tick, life>>
      /\ closed' = TRUE
  BY DEF Close
<1>3. Moves(Main, "all", None, None)
  BY <1>1, JumpMoves, ThreadFacts DEF Close, Goto, MainPCs
<1>4. /\ pc'[Main] = "all"
      /\ \A v \in Workers : pc'[v] = pc[v] /\ after'[v] = after[v]
  BY <1>3, ThreadFacts DEF Moves
<1>5. GlobalSeen' /\ CloseSeen'
  BY <1>1, <1>2, <1>4 DEF GlobalSeen, Committed, CloseSeen, queues
<1> QED
  BY <1>1, <1>2, <1>3, <1>5, MainInv DEF MainPCs, TypeOK, queues, life

\* wake_up_all: every Waker is signalled.
LEMMA WakeUpAllInv ==
  ASSUME IInv, WakeUpAll
  PROVE  IInv'
<1>1. pc[Main] = "all" /\ TypeOK
  BY DEF WakeUpAll, IInv
<1>2. /\ UNCHANGED <<queues, closed, machine, kernel, flags, task, tick, life>>
      /\ signal' = [w \in Workers |-> TRUE]
  BY DEF WakeUpAll
<1>3. PICK l \in {"join", "idle"} : Moves(Main, l, None, None)
  <2> DEFINE l == IF closed THEN "join" ELSE "idle"
  <2>1. Jump(Main, l, None, None)
    BY DEF WakeUpAll, Goto
  <2>2. l \in {"join", "idle"} /\ l \in MainPCs
    BY DEF MainPCs
  <2> HIDE DEF l
  <2> QED
    BY <1>1, <2>1, <2>2, JumpMoves, ThreadFacts
<1>4. GlobalSeen' /\ CloseSeen'
  BY <1>2, ThreadFacts DEF GlobalSeen, CloseSeen
<1> QED
  BY <1>1, <1>2, <1>3, <1>4, MainInv DEF MainPCs, TypeOK, queues, life

\* wait_for_all returns.
LEMMA JoinInv ==
  ASSUME IInv, Join
  PROVE  IInv'
<1>1. /\ pc[Main] = "join" /\ TypeOK /\ GlobalSeen /\ CloseSeen
  BY DEF Join, IInv, Dead
<1>2. UNCHANGED <<queues, closed, machine, kernel, signal, flags, task, tick, life>>
  BY DEF Join
<1>3. Moves(Main, "joined", None, None)
  BY <1>1, JumpMoves, ThreadFacts DEF Join, Goto, MainPCs
<1>4. \A v \in Workers : pc'[v] = pc[v] /\ after'[v] = after[v]
  BY <1>3, ThreadFacts DEF Moves
<1>5. GlobalSeen' /\ CloseSeen'
  BY <1>1, <1>2, <1>4 DEF GlobalSeen, Committed, CloseSeen, PastFlag, queues, flags
<1> QED
  BY <1>1, <1>2, <1>3, <1>5, MainInv DEF MainPCs, TypeOK, queues, life

\* wake_up_one after a submission: its critical section ...
LEMMA SubmittedInv ==
  ASSUME IInv, WorkerToNotify(Main)
  PROVE  IInv'
<1>1. /\ pc[Main] = "notify" /\ ~Dead /\ DeadTogether
      /\ TypeOK /\ Returns /\ Holding /\ EmptyHanded /\ CloseSeen
      /\ Sleepers /\ SearchFlag /\ Counting
  BY DEF WorkerToNotify, IInv, Dead
<1>2. UNCHANGED <<queues, closed, kernel, signal, flags, task, tick, life>>
  BY DEF WorkerToNotify
<1>3. PICK l \in {"notify", "all"}, r \in Labels \cup {None},
           a \in Workers \cup {None} :
        Moves(Main, l, r, a) /\ (l = "notify" => r = "all")
  <2>1. after[Main] = "all" /\ after[Main] \in Labels
    BY <1>1 DEF Returns, Labels
  <2>2. CASE Jump(Main, after[Main], None, None)
    <3>1. Moves(Main, "all", None, None)
      BY <1>1, <2>1, <2>2, JumpMoves, ThreadFacts DEF MainPCs
    <3> QED
      BY <3>1
  <2>3. CASE sleepers # << >> /\ Jump(Main, "notify", after[Main], Last(sleepers))
    <3> DEFINE u == Last(sleepers)
    <3>1. u \in Workers
      <4>1. sleepers \in Seq(Workers) /\ Distinct(sleepers)
        BY <1>1 DEF TypeOK, Sleepers, Distinct
      <4> QED
        BY <2>3, <4>1, FrontFacts
    <3>2. Jump(Main, "notify", after[Main], u)
      BY <2>3
    <3> HIDE DEF u
    <3>3. Moves(Main, "notify", after[Main], u)
      BY <1>1, <2>1, <3>1, <3>2, JumpMoves, ThreadFacts DEF MainPCs
    <3> QED
      BY <2>1, <3>1, <3>3
  <2> QED
    BY <2>2, <2>3 DEF WorkerToNotify, Goto
<1>4. /\ DeadTogether' /\ Dead' = FALSE /\ Returns'
      /\ \A v \in Workers : pc'[v] = pc[v] /\ after'[v] = after[v]
      /\ \A v \in Workers : pc'[v] \in WorkerPCs
      /\ pc'[Main] = l
  BY <1>1, <1>3, MainMoves DEF MainPCs
<1>5. /\ Sleepers' /\ SearchFlag' /\ Counting'
      /\ sleepers' \in Seq(Workers) /\ working' \in 0 .. WordSize - 1
  <2>1. \A v \in Workers : /\ Asleep(v)' <=> Asleep(v)
                           /\ Leaver(v) => Leaver(v)'
                           /\ pc'[v] \notin {"search_inc", "exec"} \/ pc'[v] = pc[v]
    BY <1>2, <1>4 DEF Asleep, Leaver, flags
  <2> QED
    BY <2>1, WokenMachine, ThreadFacts
<1>6. TypeOK'
  <2>1. searching' \in 0 .. NumWorkers
    BY <1>5, CountInRange
  <2>2. pc'[Main] \in MainPCs
    BY <1>4 DEF MainPCs
  <2> QED
    BY <1>1, <1>2, <1>3, <1>4, <1>5, <2>1, <2>2
       DEF TypeOK, Moves, queues, kernel, life, flags
<1>7. Holding' /\ EmptyHanded'
  BY <1>1, <1>2, <1>4 DEF Holding, EmptyHanded, HasTask, queues
<1>8. GlobalSeen' /\ CloseSeen'
  BY <1>1, <1>2, <1>3, <1>4 DEF GlobalSeen, CloseSeen, PastFlag, flags
<1> QED
  BY <1>4, <1>5, <1>6, <1>7, <1>8 DEF IInv

\* ... and the Waker; wake_up_all follows.
LEMMA SubmittedWakeInv ==
  ASSUME IInv, WakeUp(Main)
  PROVE  IInv'
<1>1. pc[Main] = "notify" /\ ~Dead /\ TypeOK /\ Returns /\ CloseSeen
  BY DEF WakeUp, IInv, Dead
<1>2. /\ UNCHANGED <<queues, closed, machine, kernel, flags, task, tick, life>>
      /\ signal' \in [Workers -> BOOLEAN]
  BY <1>1 DEF WakeUp, TypeOK
<1>3. Moves(Main, "all", None, None)
  <2>1. Jump(Main, "all", None, None)
    BY <1>1 DEF WakeUp, Goto, Returns
  <2> QED
    BY <1>1, <2>1, JumpMoves, ThreadFacts DEF MainPCs
<1>4. GlobalSeen' /\ CloseSeen'
  BY <1>3 DEF Moves, GlobalSeen, CloseSeen
<1> QED
  BY <1>1, <1>2, <1>3, <1>4, MainInv DEF MainPCs, TypeOK, queues, life

-----------------------------------------------------------------------------
(* The theorems.                                                           *)

\* The workers start awake, and nobody searches.
LEMMA InitInv ==
  ASSUME Init
  PROVE  IInv
<1>1. /\ \A v \in Workers : pc[v] = "loop"
      /\ pc[Main] = "idle"
      /\ pc \in [Threads -> WorkerPCs \cup MainPCs]
  BY ThreadFacts DEF Init, WorkerPCs, MainPCs
<1>2. NumWorkers \in 0 .. WordSize - 1
  BY SchedulerAssumption, FS_CardinalityType DEF NumWorkers
<1>3. TypeOK
  <2>1. 0 \in 0 .. NumWorkers /\ 0 \in 0 .. Period - 1 /\ Capacity \in Nat
    BY <1>2, SchedulerAssumption
  <2>2. /\ \A v \in Workers : pc[v] \in WorkerPCs
        /\ pc[Main] \in MainPCs
    BY <1>1 DEF WorkerPCs, MainPCs
  <2>3. /\ \A S : << >> \in Seq(S)
        /\ Len(<< >>) = 0 /\ 0 <= Capacity
    BY <2>1
  <2>4. /\ global \in Seq(Tasks) /\ closed \in BOOLEAN
        /\ working \in 0 .. WordSize - 1 /\ searching \in 0 .. NumWorkers
        /\ sleepers \in Seq(Workers)
    BY <1>2, <2>1, <2>3 DEF Init
  <2>5. /\ cache \in [Workers -> Tasks \cup {None}]
        /\ local \in [Workers -> Seq(Tasks)]
        /\ \A w \in Workers : Len(local[w]) <= Capacity
    BY <2>1, <2>3 DEF Init
  <2>6. /\ isSearching \in [Workers -> BOOLEAN]
        /\ isShutdown \in [Workers -> BOOLEAN]
        /\ tick \in [Workers -> 0 .. Period - 1]
        /\ task \in [Workers -> Tasks \cup {None}]
        /\ inflight \in [Workers -> SUBSET Tasks]
        /\ cq \in [Workers -> Seq(Tasks)]
        /\ signal \in [Workers -> BOOLEAN]
    BY <2>1, <2>3 DEF Init
  <2>7. /\ after \in [Threads -> Labels \cup {None}]
        /\ arg \in [Threads -> Workers \cup {None}]
        /\ fresh \subseteq Tasks /\ parked \subseteq Tasks /\ ended \subseteq Tasks
    BY DEF Init
  <2> QED
    BY <1>1, <2>2, <2>4, <2>5, <2>6, <2>7 DEF TypeOK
<1>4. ~Dead /\ DeadTogether
  BY <1>1 DEF Dead, DeadTogether
<1>5. Returns /\ Holding /\ EmptyHanded
  BY <1>1 DEF Returns, Holding, EmptyHanded
<1>6. GlobalSeen /\ CloseSeen
  BY DEF Init, GlobalSeen, CloseSeen
<1>7. /\ \A v \in Workers : ~Asleep(v) /\ ~isSearching[v]
      /\ \A v \in Workers : ~Contains(sleepers, v)
  BY <1>1 DEF Init, Asleep, Sleeping, Contains
<1>8. Sleepers /\ SearchFlag
  BY <1>1, <1>7 DEF Sleepers, SearchFlag, Init
<1>9. Counting
  <2>1. Searchers \cup {} = {}
    BY <1>7 DEF Searchers, Notified
  <2>2. searching = Cardinality(Searchers \cup {})
    BY <2>1, FS_EmptySet DEF Init
  <2> QED
    BY <2>2 DEF Counting
<1> QED
  BY <1>3, <1>4, <1>5, <1>6, <1>8, <1>9 DEF IInv

\* Every step of a worker's own code preserves the invariant, ...
LEMMA WorkerStepInv ==
  ASSUME IInv, NEW w \in Workers, WorkerStep(w)
  PROVE  IInv'
<1>1. \/ Loop(w) \/ Leave(w)
      \/ Drive(w) \/ DriveThrows(w) \/ UpdateShutdownFlag(w)
      \/ GetNextTask(w) \/ SetSearching(w) \/ IncNumSearching(w) \/ Scan(w)
      \/ BeStolenBy(w) \/ CancelSearching(w) \/ SetSleeping(w)
      \/ WakeUpIfWorkPending(w) \/ WaitAndDrive(w)
      \/ CancelSleeping(w) \/ CancelOwn(w) \/ StillSleeping(w)
  BY DEF WorkerStep
<1>2. CASE Loop(w) \/ Leave(w) \/ Drive(w) \/ DriveThrows(w) \/ UpdateShutdownFlag(w)
  BY <1>2, LoopInv, LeaveInv, DriveInv, DriveThrowsInv, UpdateShutdownFlagInv
<1>3. CASE \/ GetNextTask(w) \/ SetSearching(w) \/ IncNumSearching(w) \/ Scan(w)
           \/ BeStolenBy(w) \/ CancelSearching(w)
  BY <1>3, GetNextTaskInv, SetSearchingInv, IncNumSearchingInv, ScanInv,
     BeStolenByInv, CancelSearchingInv
<1>4. CASE SetSleeping(w) \/ WakeUpIfWorkPending(w) \/ WaitAndDrive(w)
  BY <1>4, SetSleepingBusyInv, SetSleepingIdleInv, WakeUpIfWorkPendingInv,
     WaitAndDriveInv, LeaveSleepInv
<1>5. CASE CancelSleeping(w) \/ CancelOwn(w) \/ StillSleeping(w)
  BY <1>5, CancelSleepingInv, CancelOwnInv, StillSleepingInv, NotifiedInv
<1> QED
  BY <1>1, <1>2, <1>3, <1>4, <1>5

\* ... and so does every step of the program.
LEMMA NextInv ==
  ASSUME IInv, [Next]_vars
  PROVE  IInv'
<1>1. CASE UNCHANGED vars
  BY <1>1, StutterInv
<1>2. CASE \E w \in Workers : WorkerStep(w) \/ Suspend(w)
  BY <1>2, WorkerStepInv, SuspendInv
<1>3. CASE \E w \in Workers, t \in Tasks : Spawn(w, t) \/ Unpark(w, t)
  BY <1>3, SpawnInv
<1>4. CASE \E w \in Workers, t \in Tasks : IoCompletes(w, t)
  BY <1>4, IoCompletesInv
<1>5. CASE \E th \in Threads : WorkerToNotify(th) \/ WakeUp(th)
  BY <1>5, WorkerToNotifyInv, WakeUpInv, SubmittedInv, SubmittedWakeInv DEF Threads
<1>6. CASE \E t \in Tasks : Submit(t)
  BY <1>6, SubmitInv
<1>7. CASE Close \/ WakeUpAll \/ Join
  BY <1>7, CloseInv, WakeUpAllInv, JoinInv
<1> QED
  BY <1>1, <1>2, <1>3, <1>4, <1>5, <1>6, <1>7 DEF Next

\* The invariant holds throughout, for any workers, tasks and intervals.
LEMMA InvAlways == Spec => []IInv
<1>1. Init => IInv
  BY InitInv
<1>2. IInv /\ [Next]_vars => IInv'
  BY NextInv
<1> QED
  BY <1>1, <1>2, PTL DEF Spec

\* Every variable keeps its type.  In particular _searching stays between 0
\* and the number of workers, so dec_num_searching never takes it below zero,
\* and no local queue holds more than LOCAL_QUEUE_CAPACITY tasks, however
\* overflows, thefts, refills and completions fill it.
THEOREM TypeCorrect == Spec => []TypeOK
<1>1. IInv => TypeOK
  BY DEF IInv
<1> QED
  BY <1>1, InvAlways, PTL

\* _searching counts exactly the workers that search and the sleepers that a
\* notification has turned into searchers, and _sleepers lists nobody twice:
\* set_sleeping, cancel_sleeping, cancel_searching and worker_to_notify agree
\* about who searches, wherever they interleave.
THEOREM SearchersAreCountedAlways == Spec => []SearchersAreCounted
<1>1. ASSUME IInv PROVE SearchersAreCounted
  <2>1. \A i, j \in DOMAIN sleepers : i # j => sleepers[i] # sleepers[j]
    BY <1>1 DEF IInv, Sleepers, Distinct
  <2>2. ASSUME NEW w \in Workers, Asleep(w) PROVE ~isSearching[w]
    <3>1. pc[w] # "terminated"
      BY <2>2 DEF Asleep, Sleeping
    <3>2. SearchFlag
      BY <1>1, <3>1, ThreadFacts, Alive
    <3> QED
      BY <2>2, <3>2 DEF SearchFlag
  <2>3. ASSUME \A w \in Workers : ~isShutdown[w] /\ pc[w] # "terminated"
        PROVE  /\ searching = Cardinality({w \in Workers : isSearching[w] \/ Notified(w)})
               /\ \A w \in Workers : Contains(sleepers, w) => Asleep(w)
    <3>1. Sleepers /\ Counting
      BY <1>1, <2>3, ThreadFacts, Alive
    <3>2. \A w \in Workers : ~Leaver(w)
      BY <2>3 DEF Leaver
    <3>3. searching = Cardinality(Searchers)
      <4>1. PICK gone \in SUBSET Workers :
              /\ \A w \in gone : Leaver(w)
              /\ searching = Cardinality(Searchers \cup gone)
        BY <3>1 DEF Counting
      <4>2. gone = {}
        BY <3>2, <4>1
      <4>3. Searchers \cup gone = Searchers
        BY <4>2
      <4> QED
        BY <4>1, <4>3
    <3>4. \A w \in Workers : Contains(sleepers, w) => Asleep(w)
      BY <3>1, <3>2 DEF Sleepers
    <3> QED
      BY <3>3, <3>4 DEF Searchers
  <2> QED
    BY <2>1, <2>2, <2>3 DEF SearchersAreCounted
<1> QED
  BY <1>1, InvAlways, PTL

\* No wakeup is lost: whatever falls between a worker's last look at the
\* queues or at the closed flag and its wait for a completion, a worker never
\* waits with a task of its own, a task in the global queue always finds a
\* worker that is awake or signalled, and after close nobody stays asleep.
THEOREM NoLostWakeupAlways == Spec => []NoLostWakeup
<1>1. ASSUME IInv PROVE NoLostWakeup
  <2>1. ASSUME NEW w \in Workers, Blocked(w)
        PROVE  /\ EmptyHanded /\ GlobalSeen /\ CloseSeen
               /\ pc[w] = "waiting" /\ ~isShutdown[w] /\ ~signal[w]
    <3>1. pc[w] = "waiting" /\ ~isShutdown[w] /\ ~signal[w]
      BY <2>1 DEF Blocked
    <3> QED
      BY <1>1, <3>1, ThreadFacts, Alive
  <2>2. \A w \in Workers : Blocked(w) => ~HasTask(w)
    BY <2>1 DEF EmptyHanded
  <2>3. ASSUME global # << >>, pc[Main] \notin {"notify", "all"}
        PROVE  \E w \in Workers : ~Blocked(w)
    <3>1. SUFFICES ASSUME \A w \in Workers : Blocked(w) PROVE FALSE
      OBVIOUS
    <3>2. GlobalSeen /\ \A w \in Workers : pc[w] = "waiting" /\ ~signal[w]
      BY <2>1, <3>1, ThreadFacts
    <3> QED
      BY <2>3, <3>2 DEF GlobalSeen, Committed
  <2>4. ASSUME closed, pc[Main] # "all", NEW w \in Workers
        PROVE  ~Blocked(w)
    BY <2>1, <2>4 DEF CloseSeen, PastFlag
  <2> QED
    BY <2>2, <2>3, <2>4 DEF NoLostWakeup
<1> QED
  BY <1>1, InvAlways, PTL
-----------------------------------------------------------------------------
(* One worker's part of what all of them have.                             *)

\* How often t is a worker's value, or in a worker's set.
Having(f, t) == Cardinality({w \in Workers : f[w] = t})
Within(f, t) == Cardinality({w \in Workers : t \in f[w]})

\* A worker is given another value: _task_cache, or the coroutine it runs.
LEMMA HavingChanged ==
  ASSUME NEW f \in [Workers -> Tasks \cup {None}],
         NEW g \in [Workers -> Tasks \cup {None}],
         NEW w \in Workers, \A v \in Workers \ {w} : g[v] = f[v], NEW t
  PROVE  /\ Having(f, t) \in Nat /\ Having(g, t) \in Nat
         /\ Having(g, t) = Having(f, t) - Is(f[w], t) + Is(g[w], t)
         /\ Is(f[w], t) <= Having(f, t)
<1> DEFINE A == {v \in Workers : f[v] = t}
           B == {v \in Workers : g[v] = t}
<1>1. A \ {w} = B \ {w} /\ A \in SUBSET Workers /\ B \in SUBSET Workers
  OBVIOUS
<1>2. In(w, A) = Is(f[w], t) /\ In(w, B) = Is(g[w], t)
  BY DEF In, Is
<1>3. Having(f, t) = Cardinality(A) /\ Having(g, t) = Cardinality(B)
  BY DEF Having
<1>4. IsFiniteSet(Workers)
  BY SchedulerAssumption
<1> HIDE DEF A, B
<1> QED
  BY <1>1, <1>2, <1>3, <1>4, OneChanged

\* A worker's set changes: the operations in flight.
LEMMA WithinChanged ==
  ASSUME NEW f \in [Workers -> SUBSET Tasks], NEW g \in [Workers -> SUBSET Tasks],
         NEW w \in Workers, \A v \in Workers \ {w} : g[v] = f[v], NEW t
  PROVE  /\ Within(f, t) \in Nat /\ Within(g, t) \in Nat
         /\ Within(g, t) = Within(f, t) - In(t, f[w]) + In(t, g[w])
         /\ In(t, f[w]) <= Within(f, t)
<1> DEFINE A == {v \in Workers : t \in f[v]}
           B == {v \in Workers : t \in g[v]}
<1>1. A \ {w} = B \ {w} /\ A \in SUBSET Workers /\ B \in SUBSET Workers
  OBVIOUS
<1>2. In(w, A) = In(t, f[w]) /\ In(w, B) = In(t, g[w])
  BY DEF In
<1>3. Within(f, t) = Cardinality(A) /\ Within(g, t) = Cardinality(B)
  BY DEF Within
<1>4. IsFiniteSet(Workers)
  BY SchedulerAssumption
<1> HIDE DEF A, B
<1> QED
  BY <1>1, <1>2, <1>3, <1>4, OneChanged

\* The same, of the value an action assigns: to a cache or a worker's task, ...
LEMMA HavingExcept ==
  ASSUME NEW f \in [Workers -> Tasks \cup {None}], NEW w \in Workers,
         NEW x \in Tasks \cup {None}, NEW t
  PROVE  /\ Having([f EXCEPT ![w] = x], t) = Having(f, t) - Is(f[w], t) + Is(x, t)
         /\ Having([f EXCEPT ![w] = x], t) \in Nat /\ Having(f, t) \in Nat
         /\ Is(f[w], t) \in Nat /\ Is(x, t) \in Nat
<1> DEFINE g == [f EXCEPT ![w] = x]
<1>1. /\ g \in [Workers -> Tasks \cup {None}] /\ g[w] = x
      /\ \A v \in Workers \ {w} : g[v] = f[v]
  OBVIOUS
<1> HIDE DEF g
<1>2. /\ Having(f, t) \in Nat /\ Having(g, t) \in Nat
      /\ Having(g, t) = Having(f, t) - Is(f[w], t) + Is(g[w], t)
  BY <1>1, HavingChanged
<1>3. Is(f[w], t) \in Nat /\ Is(x, t) \in Nat
  BY DEF Is
<1>4. Having(g, t) = Having(f, t) - Is(f[w], t) + Is(x, t)
  BY <1>1, <1>2
<1> QED
  BY <1>2, <1>3, <1>4 DEF g

\* ... to the operations in flight, ...
LEMMA WithinExcept ==
  ASSUME NEW f \in [Workers -> SUBSET Tasks], NEW w \in Workers,
         NEW X \in SUBSET Tasks, NEW t
  PROVE  /\ Within([f EXCEPT ![w] = X], t) = Within(f, t) - In(t, f[w]) + In(t, X)
         /\ Within([f EXCEPT ![w] = X], t) \in Nat /\ Within(f, t) \in Nat
         /\ In(t, f[w]) \in {0, 1} /\ In(t, X) \in {0, 1}
         /\ In(t, f[w]) <= Within(f, t)
<1> DEFINE g == [f EXCEPT ![w] = X]
<1>1. /\ g \in [Workers -> SUBSET Tasks] /\ g[w] = X
      /\ \A v \in Workers \ {w} : g[v] = f[v]
  OBVIOUS
<1> HIDE DEF g
<1>2. /\ Within(f, t) \in Nat /\ Within(g, t) \in Nat
      /\ Within(g, t) = Within(f, t) - In(t, f[w]) + In(t, g[w])
      /\ In(t, f[w]) <= Within(f, t)
  BY <1>1, WithinChanged
<1>3. In(t, f[w]) \in {0, 1} /\ In(t, X) \in {0, 1}
  BY DEF In
<1>4. Within(g, t) = Within(f, t) - In(t, f[w]) + In(t, X)
  BY <1>1, <1>2
<1> QED
  BY <1>2, <1>3, <1>4 DEF g

\* ... and to a sequence.
LEMMA AmongExcept ==
  ASSUME NEW f \in [Workers -> Seq(Tasks)], NEW w \in Workers,
         NEW s \in Seq(Tasks), NEW t
  PROVE  /\ Among([f EXCEPT ![w] = s], t) = Among(f, t) - Occ(f[w], t) + Occ(s, t)
         /\ Among([f EXCEPT ![w] = s], t) \in Nat /\ Among(f, t) \in Nat
         /\ Occ(f[w], t) \in Nat /\ Occ(s, t) \in Nat
         /\ Occ(f[w], t) <= Among(f, t)
<1>1. IsFiniteSet(Workers)
  BY SchedulerAssumption
<1> QED
  BY <1>1, AmongSequences, Zenon

-----------------------------------------------------------------------------
(* Pushing.                                                                *)

Both(q, t) == Occ(q[1], t) + Occ(q[2], t)

\* push_back adds a handle to the local queue or to the global one, and moves
\* half of a full queue from one to the other.
LEMMA QueuePushKeeps ==
  ASSUME NEW q, AreQueues(q), NEW x \in Tasks, NEW t
  PROVE  Both(QueuePush(q, x), t) = Both(q, t) + Is(x, t) /\ Both(q, t) \in Nat
<1> DEFINE s == q[1]
           g == q[2]
<1>1. s \in Seq(Tasks) /\ g \in Seq(Tasks) /\ Len(s) <= Capacity
  BY DEF AreQueues
<1>2. Capacity \in Nat /\ Half \in Nat \ {0} /\ Half <= Capacity
  BY SchedulerAssumption DEF Half
<1>3. Both(q, t) = Occ(s, t) + Occ(g, t)
  BY DEF Both
<1>4. Occ(s, t) \in Nat /\ Occ(g, t) \in Nat /\ Is(x, t) \in Nat
  BY <1>1, OccType DEF Is
<1>5. CASE Len(s) < Capacity
  <2>1. QueuePush(q, x) = <<Append(s, x), g>>
    BY <1>5 DEF QueuePush
  <2>2. Both(<<Append(s, x), g>>, t) = Occ(Append(s, x), t) + Occ(g, t)
    BY DEF Both
  <2>3. Occ(Append(s, x), t) = Occ(s, t) + Is(x, t)
    BY <1>1, OccAppend
  <2> HIDE DEF s, g
  <2>4. Both(QueuePush(q, x), t) = Occ(s, t) + Is(x, t) + Occ(g, t)
    BY <2>1, <2>2, <2>3, Zenon
  <2> QED
    BY <1>3, <1>4, <2>4
<1>6. CASE ~(Len(s) < Capacity)
  <2> DEFINE kept == SubSeq(s, Half + 1, Len(s))
             moved == SubSeq(s, 1, Half)
             more == Append(moved, x)
  <2>1. QueuePush(q, x) = <<kept, g \o more>>
    BY <1>6 DEF QueuePush
  <2>2. Both(<<kept, g \o more>>, t) = Occ(kept, t) + Occ(g \o more, t)
    BY DEF Both
  <2> HIDE DEF s, g
  <2>3. Half \in 0 .. Len(s) /\ Len(s) \in Nat /\ Half \in Nat
    BY <1>1, <1>2, <1>6
  <2>4. kept \in Seq(Tasks) /\ moved \in Seq(Tasks)
    BY <1>1, <2>3, SubSeqType
  <2>5. Occ(s, t) = Occ(moved, t) + Occ(kept, t)
    BY <1>1, <2>3, OccSplit
  <2>6. Occ(more, t) = Occ(moved, t) + Is(x, t) /\ more \in Seq(Tasks)
    <3> HIDE DEF moved
    <3> QED
      BY <2>4, OccAppend
  <2>7. Occ(kept, t) \in Nat /\ Occ(moved, t) \in Nat
    BY <2>4, OccType
  <2> HIDE DEF kept, moved, more
  <2>8. Occ(g \o more, t) = Occ(g, t) + Occ(more, t)
    BY <1>1, <2>6, OccConcat
  <2>9. Both(QueuePush(q, x), t) = Occ(kept, t) + Occ(g \o more, t)
    BY <2>1, <2>2, Zenon
  <2> QED
    BY <1>3, <1>4, <2>5, <2>6, <2>7, <2>8, <2>9
<1> HIDE DEF s, g
<1> QED
  BY <1>3, <1>4, <1>5, <1>6

\* Completions are pushed without loss.
LEMMA QueuePushAllKeeps ==
  ASSUME NEW q, AreQueues(q), NEW ts \in Seq(Tasks), NEW t
  PROVE  Both(QueuePushAll(q, ts), t) = Both(q, t) + Occ(ts, t)
<1>1. PICK pushed :
        /\ \A i \in 0 .. Len(ts) :
             pushed[i] = IF i = 0 THEN q ELSE QueuePush(pushed[i - 1], ts[i])
        /\ QueuePushAll(q, ts) = pushed[Len(ts)]
  BY QueuePushAllSteps
<1> DEFINE Fine(i) == /\ AreQueues(pushed[i])
                      /\ Both(pushed[i], t) = Both(q, t) + Occ(SubSeq(ts, 1, i), t)
           T == {i \in Nat : i <= Len(ts) => Fine(i)}
<1>2. Len(ts) \in Nat
  OBVIOUS
<1>3. 0 \in T
  <2>1. pushed[0] = q
    BY <1>1
  <2>2. SubSeq(ts, 1, 0) = << >> /\ << >> \in Seq(Tasks)
    OBVIOUS
  <2>3. Occ(<< >>, t) = 0
    <3>1. {i \in DOMAIN << >> : << >>[i] = t} = {}
      OBVIOUS
    <3> QED
      BY <3>1, FS_EmptySet DEF Occ
  <2>4. Both(q, t) \in Nat
    <3>1. Occ(q[1], t) \in Nat /\ Occ(q[2], t) \in Nat
      BY OccType DEF AreQueues
    <3> QED
      BY <3>1 DEF Both
  <2>5. Occ(SubSeq(ts, 1, 0), t) = 0
    BY <2>2, <2>3, Zenon
  <2>6. Both(pushed[0], t) = Both(q, t) + Occ(SubSeq(ts, 1, 0), t)
    <3>1. Both(q, t) = Both(q, t) + Occ(SubSeq(ts, 1, 0), t)
      BY <2>4, <2>5
    <3> QED
      BY <2>1, <3>1, Zenon
  <2> QED
    BY <2>1, <2>6
<1>4. ASSUME NEW i \in T PROVE i + 1 \in T
  <2> SUFFICES ASSUME i + 1 <= Len(ts) PROVE Fine(i + 1)
    OBVIOUS
  <2>1. i \in Nat /\ i <= Len(ts) /\ i + 1 \in 1 .. Len(ts) /\ (i + 1) - 1 = i
    BY <1>2
  <2>2. Fine(i)
    BY <2>1
  <2>3. pushed[i + 1] = QueuePush(pushed[i], ts[i + 1])
    BY <1>1, <2>1
  <2> DEFINE n == i + 1
             x == ts[n]
             p == pushed[i]
             b == Both(q, t)
  <2>4. x \in Tasks
    BY <2>1
  <2>5. Occ(SubSeq(ts, 1, n), t) = Occ(SubSeq(ts, 1, n - 1), t) + Is(x, t)
    BY <2>1, OccLast
  <2>6. n - 1 = i
    BY <2>1
  <2>7. SubSeq(ts, 1, i) \in Seq(Tasks)
    BY <2>1, SubSeqType
  <2> HIDE DEF n, x, p
  <2>8. Occ(SubSeq(ts, 1, n), t) = Occ(SubSeq(ts, 1, i), t) + Is(x, t)
    BY <2>5, <2>6, Zenon
  <2>9. Occ(SubSeq(ts, 1, i), t) \in Nat /\ Is(x, t) \in Nat
    BY <2>7, OccType DEF Is
  <2>10. AreQueues(p)
    BY <2>2 DEF p
  <2>11. /\ Both(QueuePush(p, x), t) = Both(p, t) + Is(x, t)
         /\ AreQueues(QueuePush(p, x))
    BY <2>4, <2>10, QueuePushKeeps, QueuePushType
  <2>12. Both(p, t) = b + Occ(SubSeq(ts, 1, i), t)
    BY <2>2 DEF p
  <2>13. b \in Nat
    BY QueuePushKeeps, <2>4
  <2> HIDE DEF b
  <2>14. Both(QueuePush(p, x), t) = b + Occ(SubSeq(ts, 1, n), t)
    BY <2>8, <2>9, <2>11, <2>12, <2>13
  <2>15. pushed[n] = QueuePush(p, x)
    BY <2>3 DEF n, p, x
  <2>16. AreQueues(pushed[n]) /\ Both(pushed[n], t) = b + Occ(SubSeq(ts, 1, n), t)
    BY <2>11, <2>14, <2>15, Zenon
  <2> QED
    BY <2>16 DEF n, b
<1> HIDE DEF T
<1>5. T = Nat
  <2>1. T \subseteq Nat
    BY DEF T
  <2> QED
    BY <1>3, <1>4, <2>1, NatSetInduction
<1>6. Fine(Len(ts))
  BY <1>2, <1>5 DEF T
<1>7. SubSeq(ts, 1, Len(ts)) = ts
  OBVIOUS
<1> QED
  BY <1>1, <1>6, <1>7, Zenon

-----------------------------------------------------------------------------
(* The places of a handle, before and after a step.                        *)

Total(t) ==
  Having(cache, t) + Having(task, t) + Within(inflight, t)
  + Among(local, t) + Among(cq, t) + Occ(global, t)
  + In(t, parked) + In(t, fresh) + In(t, ended)

\* The same number in other words.
LEMMA OnePlaceTotal ==
  TypeOK =>
    (OnePlace <=> \A t \in Tasks : Total(t) <= 1 /\ (~closed => Total(t) = 1))
<1> SUFFICES ASSUME TypeOK
             PROVE  OnePlace <=> \A t \in Tasks : Total(t) <= 1 /\ (~closed => Total(t) = 1)
  OBVIOUS
<1>1. ASSUME NEW t PROVE Places(t) = Total(t)
  <2>1. ASSUME NEW S PROVE Cardinality({t} \cap S) = In(t, S)
    <3>1. {t} \cap S = IF t \in S THEN {t} ELSE {}
      OBVIOUS
    <3> QED
      BY <3>1, FS_EmptySet, FS_Singleton DEF In
  <2>2. /\ Cardinality({t} \cap parked) = In(t, parked)
        /\ Cardinality({t} \cap fresh) = In(t, fresh)
        /\ Cardinality({t} \cap ended) = In(t, ended)
    BY <2>1
  <2>3. DOMAIN local = Workers /\ DOMAIN cq = Workers
    BY DEF TypeOK
  <2>4. /\ Spots(local) = UNION {{w} \X DOMAIN local[w] : w \in Workers}
        /\ Spots(cq) = UNION {{w} \X DOMAIN cq[w] : w \in Workers}
    BY <2>3, Zenon DEF Spots
  <2> QED
    BY <2>2, <2>4, Zenon DEF Places, Total, Having, Within, Among, Occ
<1> QED
  BY <1>1, Zenon DEF OnePlace

\* What a step makes of it.
LEMMA TotalNext ==
  ASSUME NEW t
  PROVE  Total(t)' = Having(cache', t) + Having(task', t) + Within(inflight', t)
                     + Among(local', t) + Among(cq', t) + Occ(global', t)
                     + In(t, parked') + In(t, fresh') + In(t, ended')
<1>1. /\ Having(cache, t)' = Having(cache', t) /\ Having(task, t)' = Having(task', t)
      /\ Within(inflight, t)' = Within(inflight', t)
      /\ Among(local, t)' = Among(local', t) /\ Among(cq, t)' = Among(cq', t)
      /\ Occ(global, t)' = Occ(global', t)
  BY DEF Having, Within, Among, Spots, Occ
<1>2. /\ In(t, parked)' = In(t, parked') /\ In(t, fresh)' = In(t, fresh')
      /\ In(t, ended)' = In(t, ended')
  BY DEF In
<1> QED
  BY <1>1, <1>2 DEF Total

\* All these are numbers.
LEMMA Parts ==
  ASSUME TypeOK, NEW t
  PROVE  /\ Having(cache, t) \in Nat /\ Having(task, t) \in Nat
         /\ Within(inflight, t) \in Nat /\ Among(local, t) \in Nat
         /\ Among(cq, t) \in Nat /\ Occ(global, t) \in Nat
         /\ In(t, parked) \in {0, 1} /\ In(t, fresh) \in {0, 1} /\ In(t, ended) \in {0, 1}
<1> PICK w \in Workers : TRUE
  BY ThreadFacts
<1>0. << >> \in Seq(Tasks)
  OBVIOUS
<1>1. /\ cache \in [Workers -> Tasks \cup {None}] /\ task \in [Workers -> Tasks \cup {None}]
      /\ inflight \in [Workers -> SUBSET Tasks] /\ local \in [Workers -> Seq(Tasks)]
      /\ cq \in [Workers -> Seq(Tasks)] /\ global \in Seq(Tasks)
  BY DEF TypeOK
<1>2. Having(cache, t) \in Nat /\ Having(task, t) \in Nat
  BY <1>1, HavingChanged
<1>3. Within(inflight, t) \in Nat
  BY <1>1, WithinChanged
<1>4. Among(local, t) \in Nat /\ Among(cq, t) \in Nat
  BY <1>0, <1>1, AmongExcept
<1>5. Occ(global, t) \in Nat
  BY <1>1, OccType
<1> QED
  BY <1>2, <1>3, <1>4, <1>5 DEF In

\* So they are after the step.
LEMMA PartsNext ==
  ASSUME TypeOK', NEW t
  PROVE  /\ Having(cache', t) \in Nat /\ Having(task', t) \in Nat
         /\ Within(inflight', t) \in Nat /\ Among(local', t) \in Nat
         /\ Among(cq', t) \in Nat /\ Occ(global', t) \in Nat
<1> PICK w \in Workers : TRUE
  BY ThreadFacts
<1>0. << >> \in Seq(Tasks)
  OBVIOUS
<1>1. /\ cache' \in [Workers -> Tasks \cup {None}] /\ task' \in [Workers -> Tasks \cup {None}]
      /\ inflight' \in [Workers -> SUBSET Tasks] /\ local' \in [Workers -> Seq(Tasks)]
      /\ cq' \in [Workers -> Seq(Tasks)] /\ global' \in Seq(Tasks)
  BY DEF TypeOK
<1>2. Having(cache', t) \in Nat /\ Having(task', t) \in Nat
  BY <1>1, HavingChanged
<1>3. Within(inflight', t) \in Nat
  BY <1>1, WithinChanged
<1>4. Among(local', t) \in Nat /\ Among(cq', t) \in Nat
  BY <1>0, <1>1, AmongExcept
<1>5. Occ(global', t) \in Nat
  BY <1>1, OccType
<1> QED
  BY <1>2, <1>3, <1>4, <1>5

\* What an assignment to the worker's task makes of it, ...
LEMMA TaskNext ==
  ASSUME TypeOK, NEW w \in Workers, NEW x \in Tasks \cup {None},
         task' = [task EXCEPT ![w] = x], NEW t
  PROVE  /\ Having(task', t) = Having(task, t) - Is(task[w], t) + Is(x, t)
         /\ Having(task', t) \in Nat /\ Having(task, t) \in Nat
         /\ Is(task[w], t) \in Nat /\ Is(x, t) \in Nat
<1>1. task \in [Workers -> Tasks \cup {None}]
  BY DEF TypeOK
<1>2. /\ Having([task EXCEPT ![w] = x], t) = Having(task, t) - Is(task[w], t) + Is(x, t)
      /\ Having([task EXCEPT ![w] = x], t) \in Nat /\ Having(task, t) \in Nat
      /\ Is(task[w], t) \in Nat /\ Is(x, t) \in Nat
  BY <1>1, HavingExcept, Zenon
<1> QED
  BY <1>2, Zenon

\* ... to its cache, ...
LEMMA CacheNext ==
  ASSUME TypeOK, NEW w \in Workers, NEW x \in Tasks \cup {None},
         cache' = [cache EXCEPT ![w] = x], NEW t
  PROVE  /\ Having(cache', t) = Having(cache, t) - Is(cache[w], t) + Is(x, t)
         /\ Having(cache', t) \in Nat /\ Having(cache, t) \in Nat
         /\ Is(cache[w], t) \in Nat /\ Is(x, t) \in Nat
<1>1. cache \in [Workers -> Tasks \cup {None}]
  BY DEF TypeOK
<1>2. /\ Having([cache EXCEPT ![w] = x], t) = Having(cache, t) - Is(cache[w], t) + Is(x, t)
      /\ Having([cache EXCEPT ![w] = x], t) \in Nat /\ Having(cache, t) \in Nat
      /\ Is(cache[w], t) \in Nat /\ Is(x, t) \in Nat
  BY <1>1, HavingExcept, Zenon
<1> QED
  BY <1>2, Zenon

\* ... to the operations its engine waits for, ...
LEMMA InflightNext ==
  ASSUME TypeOK, NEW w \in Workers, NEW X \in SUBSET Tasks,
         inflight' = [inflight EXCEPT ![w] = X], NEW t
  PROVE  /\ Within(inflight', t) = Within(inflight, t) - In(t, inflight[w]) + In(t, X)
         /\ Within(inflight', t) \in Nat /\ Within(inflight, t) \in Nat
         /\ In(t, inflight[w]) \in {0, 1} /\ In(t, X) \in {0, 1}
         /\ In(t, inflight[w]) <= Within(inflight, t)
<1>1. inflight \in [Workers -> SUBSET Tasks]
  BY DEF TypeOK
<1>2. /\ Within([inflight EXCEPT ![w] = X], t) = Within(inflight, t) - In(t, inflight[w]) + In(t, X)
      /\ Within([inflight EXCEPT ![w] = X], t) \in Nat /\ Within(inflight, t) \in Nat
      /\ In(t, inflight[w]) \in {0, 1} /\ In(t, X) \in {0, 1}
      /\ In(t, inflight[w]) <= Within(inflight, t)
  BY <1>1, WithinExcept
<1> QED
  BY <1>2, Zenon

\* ... to its local queue, ...
LEMMA LocalNext ==
  ASSUME TypeOK, NEW w \in Workers, NEW s \in Seq(Tasks),
         local' = [local EXCEPT ![w] = s], NEW t
  PROVE  /\ Among(local', t) = Among(local, t) - Occ(local[w], t) + Occ(s, t)
         /\ Among(local', t) \in Nat /\ Among(local, t) \in Nat
         /\ Occ(local[w], t) \in Nat /\ Occ(s, t) \in Nat
         /\ Occ(local[w], t) <= Among(local, t)
<1>1. local \in [Workers -> Seq(Tasks)]
  BY DEF TypeOK
<1>2. /\ Among([local EXCEPT ![w] = s], t) = Among(local, t) - Occ(local[w], t) + Occ(s, t)
      /\ Among([local EXCEPT ![w] = s], t) \in Nat /\ Among(local, t) \in Nat
      /\ Occ(local[w], t) \in Nat /\ Occ(s, t) \in Nat
      /\ Occ(local[w], t) <= Among(local, t)
  BY <1>1, AmongExcept, Zenon
<1> QED
  BY <1>2, Zenon

\* ... and to its completions.
LEMMA CqNext ==
  ASSUME TypeOK, NEW w \in Workers, NEW s \in Seq(Tasks),
         cq' = [cq EXCEPT ![w] = s], NEW t
  PROVE  /\ Among(cq', t) = Among(cq, t) - Occ(cq[w], t) + Occ(s, t)
         /\ Among(cq', t) \in Nat /\ Among(cq, t) \in Nat
         /\ Occ(cq[w], t) \in Nat /\ Occ(s, t) \in Nat
         /\ Occ(cq[w], t) <= Among(cq, t)
<1>1. cq \in [Workers -> Seq(Tasks)]
  BY DEF TypeOK
<1>2. /\ Among([cq EXCEPT ![w] = s], t) = Among(cq, t) - Occ(cq[w], t) + Occ(s, t)
      /\ Among([cq EXCEPT ![w] = s], t) \in Nat /\ Among(cq, t) \in Nat
      /\ Occ(cq[w], t) \in Nat /\ Occ(s, t) \in Nat
      /\ Occ(cq[w], t) <= Among(cq, t)
  BY <1>1, AmongExcept, Zenon
<1> QED
  BY <1>2, Zenon

\* A worker holds a coroutine only between finding it and suspending it: one
\* that looks for a task overwrites none.
Holder(w) ==
  \/ pc[w] \in {"exec", "running"}
  \/ pc[w] = "notify" /\ after[w] = "running"

HandsFree == \A w \in Workers : task[w] # None => Holder(w) \/ Dead

Keeps == \A t \in Tasks : Total(t)' = Total(t)

\* What throws after close loses tasks, and copies none.
Drops == closed /\ \A t \in Tasks : Total(t)' <= Total(t) /\ Total(t)' \in Nat

\* The places have not changed.
LEMMA StillKeeps ==
  ASSUME UNCHANGED <<global, cache, local, task, inflight, cq, fresh, parked, ended>>
  PROVE  Keeps
BY TotalNext DEF Keeps, Total

\* A worker that finds a task moves handles between the caches, the workers'
\* hands, the local queues and the global one.
Moving(t) == Having(cache, t) + Having(task, t) + Among(local, t) + Occ(global, t)
MovingNext(t) ==
  Having(cache', t) + Having(task', t) + Among(local', t) + Occ(global', t)

\* If those hold together what they held, so do all the places.
LEMMA MovedKeeps ==
  ASSUME TypeOK, TypeOK', \A t \in Tasks : MovingNext(t) = Moving(t),
         UNCHANGED <<inflight, cq, fresh, parked, ended>>
  PROVE  Keeps
<1> SUFFICES ASSUME NEW t \in Tasks PROVE Total(t)' = Total(t)
  BY DEF Keeps
<1>1. /\ Having(cache, t) \in Nat /\ Having(task, t) \in Nat
      /\ Within(inflight, t) \in Nat /\ Among(local, t) \in Nat
      /\ Among(cq, t) \in Nat /\ Occ(global, t) \in Nat
      /\ In(t, parked) \in Nat /\ In(t, fresh) \in Nat /\ In(t, ended) \in Nat
  BY Parts
<1>2. /\ Having(cache', t) \in Nat /\ Having(task', t) \in Nat
      /\ Among(local', t) \in Nat /\ Occ(global', t) \in Nat
  BY PartsNext
<1>3. Having(cache', t) + Having(task', t) + Among(local', t) + Occ(global', t)
      = Having(cache, t) + Having(task, t) + Among(local, t) + Occ(global, t)
  BY DEF Moving, MovingNext
<1>4. Total(t)' = Having(cache', t) + Having(task', t) + Within(inflight, t)
                  + Among(local', t) + Among(cq, t) + Occ(global', t)
                  + In(t, parked) + In(t, fresh) + In(t, ended)
  BY TotalNext, Zenon
<1> QED
  BY <1>1, <1>2, <1>3, <1>4 DEF Total

\* A task of the global queue ...
LEMMA TakeGlobalKeeps ==
  ASSUME TypeOK, TypeOK', NEW w \in Workers, task[w] = None, TakeGlobal(w),
         UNCHANGED <<inflight, cq, fresh, parked, ended>>
  PROVE  Keeps
<1> SUFFICES ASSUME NEW t \in Tasks PROVE MovingNext(t) = Moving(t)
  BY MovedKeeps
<1>1. /\ global # << >> /\ global \in Seq(Tasks) /\ global' = Tail(global)
      /\ task' = [task EXCEPT ![w] = Head(global)] /\ cache' = cache /\ local' = local
      /\ task \in [Workers -> Tasks \cup {None}]
  BY DEF TypeOK, TakeGlobal
<1>2. Occ(global, t) = Is(Head(global), t) + Occ(Tail(global), t) /\ Head(global) \in Tasks
  BY <1>1, OccTail
<1>3. /\ Having(task, t) \in Nat /\ Having(task', t) \in Nat
      /\ Having(task', t) = Having(task, t) - Is(task[w], t) + Is(Head(global), t)
      /\ Is(task[w], t) \in Nat /\ Is(Head(global), t) \in Nat
  <2>1. Head(global) \in Tasks \cup {None}
    BY <1>2
  <2> QED
    BY <1>1, <2>1, TaskNext
<1>4. Is(task[w], t) = 0
  BY ThreadFacts DEF Is
<1>5. /\ Having(cache', t) = Having(cache, t) /\ Among(local', t) = Among(local, t)
      /\ Occ(global', t) = Occ(Tail(global), t)
  BY <1>1, Zenon
<1>6. Occ(Tail(global), t) \in Nat /\ Having(cache, t) \in Nat /\ Among(local, t) \in Nat
  BY <1>1, OccTail, OccType, Parts
<1> QED
  BY <1>2, <1>3, <1>4, <1>5, <1>6 DEF Moving, MovingNext

\* ... one of the worker's own, ...
LEMMA TakeLocalKeeps ==
  ASSUME TypeOK, TypeOK', NEW w \in Workers, task[w] = None, TakeLocal(w),
         UNCHANGED <<inflight, cq, fresh, parked, ended>>
  PROVE  Keeps
<1> SUFFICES ASSUME NEW t \in Tasks PROVE MovingNext(t) = Moving(t)
  BY MovedKeeps
<1>1. Is(task[w], t) = 0
  BY ThreadFacts DEF Is
<1>2. CASE cache[w] # None
  <2>1. /\ task' = [task EXCEPT ![w] = cache[w]] /\ cache' = [cache EXCEPT ![w] = None]
        /\ local' = local /\ global' = global /\ cache[w] \in Tasks \cup {None}
    BY <1>2 DEF TypeOK, TakeLocal
  <2>2. /\ Having(task, t) \in Nat /\ Having(task', t) \in Nat
        /\ Having(task', t) = Having(task, t) - Is(task[w], t) + Is(cache[w], t)
        /\ Is(cache[w], t) \in Nat
    BY <2>1, TaskNext
  <2>3. /\ Having(cache, t) \in Nat /\ Having(cache', t) \in Nat
        /\ Having(cache', t) = Having(cache, t) - Is(cache[w], t) + Is(None, t)
    BY ZenonT(30), <2>1, CacheNext
  <2>4. Is(None, t) = 0
    BY ThreadFacts DEF Is
  <2>5. Among(local', t) = Among(local, t) /\ Occ(global', t) = Occ(global, t)
    BY <2>1, Zenon
  <2>6. Among(local, t) \in Nat /\ Occ(global, t) \in Nat
    BY Parts
  <2> QED
    BY <1>1, <2>2, <2>3, <2>4, <2>5, <2>6 DEF Moving, MovingNext
<1>3. CASE cache[w] = None
  <2>1. /\ local[w] # << >> /\ local[w] \in Seq(Tasks)
        /\ task' = [task EXCEPT ![w] = Head(local[w])]
        /\ local' = [local EXCEPT ![w] = Tail(local[w])]
        /\ cache' = cache /\ global' = global
    BY <1>3 DEF TypeOK, TakeLocal
  <2>2. /\ Occ(local[w], t) = Is(Head(local[w]), t) + Occ(Tail(local[w]), t)
        /\ Head(local[w]) \in Tasks /\ Tail(local[w]) \in Seq(Tasks)
    BY <2>1, OccTail
  <2>3. /\ Having(task, t) \in Nat /\ Having(task', t) \in Nat
        /\ Having(task', t) = Having(task, t) - Is(task[w], t) + Is(Head(local[w]), t)
        /\ Is(Head(local[w]), t) \in Nat
    <3>1. Head(local[w]) \in Tasks \cup {None}
      BY <2>2
    <3> QED
      BY <2>1, <3>1, TaskNext
  <2>4. /\ Among(local', t) \in Nat /\ Among(local, t) \in Nat
        /\ Among(local', t) = Among(local, t) - Occ(local[w], t) + Occ(Tail(local[w]), t)
        /\ Occ(Tail(local[w]), t) \in Nat
    BY <2>1, <2>2, LocalNext
  <2>5. Having(cache', t) = Having(cache, t) /\ Occ(global', t) = Occ(global, t)
    BY <2>1, Zenon
  <2>6. Having(cache, t) \in Nat /\ Occ(global, t) \in Nat
    BY Parts
  <2> QED
    BY <1>1, <2>2, <2>3, <2>4, <2>5, <2>6 DEF Moving, MovingNext
<1> QED
  BY <1>2, <1>3

\* ... a batch, the last of which it runs ...
LEMMA TakeBatchKeeps ==
  ASSUME TypeOK, TypeOK', NEW w \in Workers, task[w] = None, TakeBatch(w),
         UNCHANGED <<inflight, cq, fresh, parked, ended>>
  PROVE  Keeps
<1> SUFFICES ASSUME NEW t \in Tasks PROVE MovingNext(t) = Moving(t)
  BY MovedKeeps
<1>1. Is(task[w], t) = 0
  BY ThreadFacts DEF Is
<1>2. PICK n \in 1 .. Len(global) :
        /\ task' = [task EXCEPT ![w] = global[n]]
        /\ local' = [local EXCEPT ![w] = local[w] \o SubSeq(global, 1, n - 1)]
        /\ global' = SubSeq(global, n + 1, Len(global))
        /\ cache' = cache
  <2> DEFINE m == Min({Len(global), Capacity - Len(local[w]), Half})
  <2>1. m \in Nat /\ m <= Len(global)
    BY BatchSize, Zenon
  <2>2. /\ m > 0 /\ task' = [task EXCEPT ![w] = global[m]]
        /\ local' = [local EXCEPT ![w] = @ \o SubSeq(global, 1, m - 1)]
        /\ global' = SubSeq(global, m + 1, Len(global))
        /\ cache' = cache
    BY Zenon DEF TakeBatch
  <2>3. Len(global) \in Nat
    BY DEF TypeOK
  <2> HIDE DEF m
  <2>4. m \in 1 .. Len(global)
    BY <2>1, <2>2, <2>3
  <2>5. local' = [local EXCEPT ![w] = local[w] \o SubSeq(global, 1, m - 1)]
    BY <2>2 DEF TypeOK
  <2> QED
    BY <2>2, <2>4, <2>5
<1>3. global \in Seq(Tasks) /\ local[w] \in Seq(Tasks)
  BY DEF TypeOK
<1> DEFINE a == SubSeq(global, 1, n - 1)
           b == SubSeq(global, n + 1, Len(global))
           x == global[n]
           s == local[w] \o a
<1>4. /\ Occ(global, t) = Occ(a, t) + Is(x, t) + Occ(b, t)
      /\ Occ(a, t) \in Nat /\ Is(x, t) \in Nat /\ Occ(b, t) \in Nat
      /\ a \in Seq(Tasks) /\ x \in Tasks
  BY <1>3, OccCut
<1>5. /\ task' = [task EXCEPT ![w] = x] /\ local' = [local EXCEPT ![w] = s]
      /\ global' = b /\ cache' = cache
  BY <1>2
<1> HIDE DEF a, b, x
<1>6. s \in Seq(Tasks) /\ Occ(s, t) = Occ(local[w], t) + Occ(a, t)
  BY <1>3, <1>4, OccConcat, ConcatType
<1> HIDE DEF s
<1>7. /\ Having(task, t) \in Nat /\ Having(task', t) \in Nat
      /\ Having(task', t) = Having(task, t) - Is(task[w], t) + Is(x, t)
  <2>1. x \in Tasks \cup {None}
    BY <1>4
  <2> QED
    BY <1>5, <2>1, TaskNext
<1>8. /\ Among(local', t) \in Nat /\ Among(local, t) \in Nat /\ Occ(local[w], t) \in Nat
      /\ Among(local', t) = Among(local, t) - Occ(local[w], t) + Occ(s, t)
  BY <1>5, <1>6, LocalNext
<1>9. Having(cache', t) = Having(cache, t) /\ Occ(global', t) = Occ(b, t)
  BY <1>5, Zenon
<1>10. Having(cache, t) \in Nat
  BY Parts
<1>11. Occ(s, t) = Occ(local[w], t) + Occ(a, t)
  BY <1>6
<1>12. MovingNext(t) = Having(cache, t) + Having(task', t) + Among(local', t) + Occ(b, t)
  BY <1>9, Zenon DEF MovingNext
<1>13. /\ Occ(global, t) = Occ(a, t) + Is(x, t) + Occ(b, t)
       /\ Occ(a, t) \in Nat /\ Is(x, t) \in Nat /\ Occ(b, t) \in Nat
  BY <1>4
<1>14. Having(task', t) = Having(task, t) + Is(x, t) /\ Having(task, t) \in Nat
  BY <1>1, <1>7, <1>13
<1>15. Among(local', t) = Among(local, t) + Occ(a, t) /\ Among(local, t) \in Nat
  BY <1>8, <1>11, <1>13
<1> QED
  BY <1>10, <1>12, <1>13, <1>14, <1>15 DEF Moving

\* ... or half of what another worker has, again with the last to run.
LEMMA BeStolenByKeeps ==
  ASSUME TypeOK, TypeOK', NEW w \in Workers, task[w] = None,
         NEW v \in Workers \ {w}, NEW n \in 1 .. Len(local[v]),
         task' = [task EXCEPT ![w] = local[v][n]],
         local' = [local EXCEPT ![w] = @ \o SubSeq(local[v], 1, n - 1),
                                ![v] = SubSeq(@, n + 1, Len(@))],
         UNCHANGED <<global, cache, inflight, cq, fresh, parked, ended>>
  PROVE  Keeps
<1> SUFFICES ASSUME NEW t \in Tasks PROVE MovingNext(t) = Moving(t)
  BY MovedKeeps
<1>1. Is(task[w], t) = 0
  BY ThreadFacts DEF Is
<1>2. local \in [Workers -> Seq(Tasks)] /\ local[w] \in Seq(Tasks) /\ local[v] \in Seq(Tasks)
  BY DEF TypeOK
<1> DEFINE a == SubSeq(local[v], 1, n - 1)
           b == SubSeq(local[v], n + 1, Len(local[v]))
           x == local[v][n]
           s == local[w] \o a
           between == [local EXCEPT ![w] = s]
<1>3. /\ Occ(local[v], t) = Occ(a, t) + Is(x, t) + Occ(b, t)
      /\ Occ(a, t) \in Nat /\ Is(x, t) \in Nat /\ Occ(b, t) \in Nat
      /\ a \in Seq(Tasks) /\ x \in Tasks /\ b \in Seq(Tasks)
  <2>1. /\ Occ(local[v], t) = Occ(a, t) + Is(local[v][n], t) + Occ(b, t)
        /\ Occ(a, t) \in Nat /\ Is(local[v][n], t) \in Nat
        /\ Occ(b, t) \in Nat
        /\ a \in Seq(Tasks) /\ local[v][n] \in Tasks
        /\ b \in Seq(Tasks)
    <3>1. local[v] \in Seq(Tasks)
      BY <1>2
    <3> QED
      BY <3>1, OccCut, Zenon
  <2> QED
    BY <2>1
<1>4. task' = [task EXCEPT ![w] = x]
  OBVIOUS
<1>5. local' = [between EXCEPT ![v] = b]
  BY <1>2
<1> HIDE DEF a, b, x
<1>6. s \in Seq(Tasks) /\ Occ(s, t) = Occ(local[w], t) + Occ(a, t)
  BY <1>2, <1>3, OccConcat, ConcatType
<1> HIDE DEF s
<1>7. between \in [Workers -> Seq(Tasks)] /\ between[v] = local[v]
  BY <1>2, <1>6
<1>8. /\ Among(between, t) \in Nat /\ Among(local, t) \in Nat /\ Occ(local[w], t) \in Nat
      /\ Among(between, t) = Among(local, t) - Occ(local[w], t) + Occ(s, t)
  <2>1. s \in Seq(Tasks)
    BY <1>6
  <2>2. local \in [Workers -> Seq(Tasks)]
    BY <1>2
  <2> QED
    BY <2>1, <2>2, AmongExcept, Zenon
<1> HIDE DEF between
<1>9. /\ Among([between EXCEPT ![v] = b], t) \in Nat
      /\ Among([between EXCEPT ![v] = b], t)
         = Among(between, t) - Occ(between[v], t) + Occ(b, t)
  BY <1>3, <1>7, AmongExcept
<1>10. /\ Among(local', t) \in Nat
       /\ Among(local', t) = Among(between, t) - Occ(local[v], t) + Occ(b, t)
  BY <1>5, <1>7, <1>9, Zenon
<1>11. /\ Having(task, t) \in Nat /\ Having(task', t) \in Nat
       /\ Having(task', t) = Having(task, t) - Is(task[w], t) + Is(x, t)
  <2>1. local[v][n] \in Tasks \cup {None}
    BY <1>3 DEF x
  <2>2. /\ Having(task', t) = Having(task, t) - Is(task[w], t) + Is(local[v][n], t)
        /\ Having(task', t) \in Nat /\ Having(task, t) \in Nat
    BY <2>1, TaskNext, Zenon
  <2> QED
    BY <2>2 DEF x
<1>12. Having(cache', t) = Having(cache, t) /\ Occ(global', t) = Occ(global, t)
  OBVIOUS
<1>13. Having(cache, t) \in Nat /\ Occ(global, t) \in Nat /\ Occ(local[v], t) \in Nat
  BY <1>2, Parts, OccType
<1>14. Occ(s, t) = Occ(local[w], t) + Occ(a, t)
  BY <1>6
<1>15. MovingNext(t) = Having(cache, t) + Having(task', t) + Among(local', t) + Occ(global, t)
  BY <1>12, Zenon DEF MovingNext
<1>16. /\ Occ(local[v], t) = Occ(a, t) + Is(x, t) + Occ(b, t)
       /\ Occ(a, t) \in Nat /\ Is(x, t) \in Nat /\ Occ(b, t) \in Nat
  BY <1>3
<1>17. Having(task', t) = Having(task, t) + Is(x, t) /\ Having(task, t) \in Nat
  BY <1>1, <1>11, <1>16
<1>18. /\ Among(local', t) = Among(local, t) - (Is(x, t) + Occ(b, t)) + Occ(b, t)
       /\ Among(local, t) \in Nat
  BY <1>8, <1>10, <1>14, <1>16
<1> QED
  BY <1>13, <1>15, <1>16, <1>17, <1>18 DEF Moving

-----------------------------------------------------------------------------
(* The actions that move handles between the queues, the kernel and the    *)
(* primitives.                                                             *)

\* drive moves the completions to the queues.
LEMMA DriveKeeps ==
  ASSUME TypeOK, TypeOK', NEW w \in Workers, Drive(w)
  PROVE  Keeps
<1> SUFFICES ASSUME NEW t \in Tasks PROVE Total(t)' = Total(t)
  BY DEF Keeps
<1> DEFINE q == <<local[w], global>>
<1>1. PICK p : p = QueuePushAll(q, cq[w])
  OBVIOUS
<1>2. /\ AreQueues(q) /\ cq[w] \in Seq(Tasks) /\ << >> \in Seq(Tasks)
      /\ local[w] \in Seq(Tasks) /\ global \in Seq(Tasks)
  <2>1. AreQueues(q)
    BY OwnQueues, Zenon
  <2> QED
    BY <2>1 DEF TypeOK
<1>3. /\ local' = [local EXCEPT ![w] = p[1]] /\ global' = p[2]
      /\ cq' = [cq EXCEPT ![w] = << >>]
      /\ UNCHANGED <<cache, task, inflight, fresh, parked, ended>>
  BY <1>1 DEF Drive, SetQueues, life
<1>4. AreQueues(p) /\ p[1] \in Seq(Tasks) /\ p[2] \in Seq(Tasks)
  <2>1. AreQueues(p)
    BY <1>1, <1>2, QueuePushAllType
  <2> QED
    BY <2>1 DEF AreQueues
<1>5. Occ(p[1], t) + Occ(p[2], t) = Occ(local[w], t) + Occ(global, t) + Occ(cq[w], t)
  <2>1. Both(p, t) = Both(q, t) + Occ(cq[w], t)
    BY <1>1, <1>2, QueuePushAllKeeps, Zenon
  <2>2. Both(q, t) = Occ(local[w], t) + Occ(global, t)
    BY DEF Both
  <2> HIDE DEF q
  <2> QED
    BY <2>1, <2>2 DEF Both
<1> HIDE DEF q
<1>6. /\ Among(local', t) = Among(local, t) - Occ(local[w], t) + Occ(p[1], t)
      /\ Among(local', t) \in Nat /\ Among(local, t) \in Nat
      /\ Occ(local[w], t) \in Nat /\ Occ(p[1], t) \in Nat
  BY <1>3, <1>4, LocalNext
<1>7. /\ Among(cq', t) = Among(cq, t) - Occ(cq[w], t) + Occ(<< >>, t)
      /\ Among(cq', t) \in Nat /\ Among(cq, t) \in Nat /\ Occ(cq[w], t) \in Nat
  BY <1>2, <1>3, CqNext
<1>8. Occ(<< >>, t) = 0
  <2>1. {i \in DOMAIN << >> : << >>[i] = t} = {}
    OBVIOUS
  <2> QED
    BY <2>1, FS_EmptySet DEF Occ
<1>9. Occ(global', t) = Occ(p[2], t) /\ Occ(p[2], t) \in Nat /\ Occ(global, t) \in Nat
  BY <1>2, <1>3, <1>4, OccType
<1>10. /\ Having(cache, t) \in Nat /\ Having(task, t) \in Nat /\ Within(inflight, t) \in Nat
       /\ In(t, parked) \in Nat /\ In(t, fresh) \in Nat /\ In(t, ended) \in Nat
  BY Parts
<1>11. Total(t)' = Having(cache, t) + Having(task, t) + Within(inflight, t)
                   + Among(local', t) + Among(cq', t) + Occ(p[2], t)
                   + In(t, parked) + In(t, fresh) + In(t, ended)
  BY <1>3, TotalNext, Zenon
<1>12. /\ Among(cq', t) = Among(cq, t) - Occ(cq[w], t)
       /\ Among(cq, t) \in Nat /\ Occ(cq[w], t) \in Nat
  BY <1>7, <1>8
<1>13. Occ(p[1], t) = Occ(local[w], t) + Occ(global, t) + Occ(cq[w], t) - Occ(p[2], t)
  BY <1>5, <1>6, <1>9, <1>12
<1>14. Among(local', t) = Among(local, t) + Occ(global, t) + Occ(cq[w], t) - Occ(p[2], t)
  BY <1>6, <1>9, <1>12, <1>13
<1>15. Total(t)' = Having(cache, t) + Having(task, t) + Within(inflight, t)
                   + Among(local, t) + Among(cq, t) + Occ(global, t)
                   + In(t, parked) + In(t, fresh) + In(t, ended)
  BY <1>6, <1>9, <1>10, <1>11, <1>12, <1>14
<1> QED
  BY <1>15 DEF Total

\* A completion leaves the operations in flight.
LEMMA IoCompletesKeeps ==
  ASSUME TypeOK, TypeOK', NEW w \in Workers, NEW x \in Tasks, IoCompletes(w, x)
  PROVE  Keeps
<1> SUFFICES ASSUME NEW t \in Tasks PROVE Total(t)' = Total(t)
  BY DEF Keeps
<1> DEFINE X == inflight[w] \ {x}
           s == Append(cq[w], x)
<1>1. /\ x \in inflight[w] /\ inflight[w] \in SUBSET Tasks /\ cq[w] \in Seq(Tasks)
      /\ inflight' = [inflight EXCEPT ![w] = X] /\ cq' = [cq EXCEPT ![w] = s]
      /\ UNCHANGED <<global, cache, local, task, fresh, parked, ended>>
  BY DEF TypeOK, IoCompletes, queues, life
<1>2. X \in SUBSET Tasks /\ s \in Seq(Tasks)
  BY <1>1
<1>3. In(t, X) = In(t, inflight[w]) - Is(x, t)
  BY <1>1 DEF In, Is
<1>4. Occ(s, t) = Occ(cq[w], t) + Is(x, t)
  BY <1>1, OccAppend
<1> HIDE DEF X, s
<1>5. /\ Within(inflight', t) = Within(inflight, t) - In(t, inflight[w]) + In(t, X)
      /\ Within(inflight', t) \in Nat /\ Within(inflight, t) \in Nat
      /\ In(t, inflight[w]) \in {0, 1}
  BY <1>1, <1>2, InflightNext
<1>6. /\ Among(cq', t) = Among(cq, t) - Occ(cq[w], t) + Occ(s, t)
      /\ Among(cq', t) \in Nat /\ Among(cq, t) \in Nat /\ Occ(cq[w], t) \in Nat
  BY <1>1, <1>2, CqNext
<1>7. Is(x, t) \in Nat
  BY DEF Is
<1>8. Within(inflight', t) + Among(cq', t) = Within(inflight, t) + Among(cq, t)
  BY <1>3, <1>4, <1>5, <1>6, <1>7
<1>9. /\ Having(cache, t) \in Nat /\ Having(task, t) \in Nat /\ Among(local, t) \in Nat
      /\ Occ(global, t) \in Nat
      /\ In(t, parked) \in Nat /\ In(t, fresh) \in Nat /\ In(t, ended) \in Nat
  BY Parts
<1>10. Total(t)' = Having(cache, t) + Having(task, t) + Within(inflight', t)
                   + Among(local, t) + Among(cq', t) + Occ(global, t)
                   + In(t, parked) + In(t, fresh) + In(t, ended)
  BY <1>1, TotalNext, Zenon
<1> QED
  BY <1>5, <1>6, <1>8, <1>9, <1>10 DEF Total

\* A submitted task is in the global queue, no longer with its submitter.
LEMMA SubmitKeeps ==
  ASSUME TypeOK, TypeOK', NEW x \in Tasks, Submit(x)
  PROVE  Keeps
<1> SUFFICES ASSUME NEW t \in Tasks PROVE Total(t)' = Total(t)
  BY DEF Keeps
<1>1. /\ x \in fresh /\ fresh' = fresh \ {x} /\ global \in Seq(Tasks)
      /\ global' = Append(global, x)
      /\ UNCHANGED <<cache, local, task, inflight, cq, parked, ended>>
  BY DEF TypeOK, Submit, kernel
<1>2. Occ(global', t) = Occ(global, t) + Is(x, t)
  BY <1>1, OccAppend
<1>3. In(t, fresh') = In(t, fresh) - Is(x, t) /\ Is(x, t) \in Nat
  BY <1>1 DEF In, Is
<1>4. /\ Having(cache, t) \in Nat /\ Having(task, t) \in Nat /\ Within(inflight, t) \in Nat
      /\ Among(local, t) \in Nat /\ Among(cq, t) \in Nat /\ Occ(global, t) \in Nat
      /\ In(t, parked) \in Nat /\ In(t, fresh) \in Nat /\ In(t, ended) \in Nat
  BY Parts
<1>5. Total(t)' = Having(cache, t) + Having(task, t) + Within(inflight, t)
                  + Among(local, t) + Among(cq, t) + Occ(global', t)
                  + In(t, parked) + In(t, fresh') + In(t, ended)
  BY <1>1, TotalNext, Zenon
<1> QED
  BY <1>2, <1>3, <1>4, <1>5 DEF Total

\* push_back_task_to_local_queue adds x to what is moving; an overflow that
\* throws after close adds nothing and loses half of the queue.
LEMMA PushLocalGains ==
  ASSUME TypeOK, TypeOK', NEW w \in Workers, NEW x \in Tasks, PushLocal(w, x),
         task' = task
  PROVE  \/ \A t \in Tasks : MovingNext(t) = Moving(t) + Is(x, t)
         \/ closed /\ \A t \in Tasks : MovingNext(t) <= Moving(t)
<1>1. CASE cache[w] = None
  <2> SUFFICES ASSUME NEW t \in Tasks PROVE MovingNext(t) = Moving(t) + Is(x, t)
    OBVIOUS
  <2>1. /\ cache' = [cache EXCEPT ![w] = x] /\ x \in Tasks \cup {None}
        /\ local' = local /\ global' = global
    BY <1>1 DEF PushLocal
  <2>2. /\ Having(cache', t) = Having(cache, t) - Is(cache[w], t) + Is(x, t)
        /\ Having(cache', t) \in Nat /\ Having(cache, t) \in Nat /\ Is(x, t) \in Nat
    BY <2>1, CacheNext
  <2>3. Is(cache[w], t) = 0
    BY <1>1, ThreadFacts DEF Is
  <2>4. MovingNext(t) = Having(cache', t) + Having(task, t) + Among(local, t) + Occ(global, t)
    BY <2>1, Zenon DEF MovingNext
  <2>5. Having(task, t) \in Nat /\ Among(local, t) \in Nat /\ Occ(global, t) \in Nat
    BY Parts
  <2> QED
    BY <2>2, <2>3, <2>4, <2>5 DEF Moving
<1>2. CASE cache[w] # None /\ ~PushThrows(w, 1)
  <2> SUFFICES ASSUME NEW t \in Tasks PROVE MovingNext(t) = Moving(t) + Is(x, t)
    OBVIOUS
  <2> DEFINE q == <<local[w], global>>
  <2>1. PICK p : p = QueuePush(q, cache[w])
    OBVIOUS
  <2>2. /\ local' = [local EXCEPT ![w] = p[1]] /\ global' = p[2]
        /\ cache' = [cache EXCEPT ![w] = x]
    BY <1>2, <2>1 DEF PushLocal, SetQueues
  <2>3. cache[w] \in Tasks /\ x \in Tasks \cup {None} /\ AreQueues(q)
    <3>1. AreQueues(q)
      BY OwnQueues, Zenon
    <3> QED
      BY <1>2, <3>1 DEF TypeOK
  <2>4. p[1] \in Seq(Tasks) /\ p[2] \in Seq(Tasks)
    <3>1. AreQueues(p)
      BY <2>1, <2>3, QueuePushType, Zenon
    <3> QED
      BY <3>1 DEF AreQueues
  <2>5. Occ(p[1], t) + Occ(p[2], t) = Occ(local[w], t) + Occ(global, t) + Is(cache[w], t)
    <3>1. Both(p, t) = Both(q, t) + Is(cache[w], t)
      BY <2>1, <2>3, QueuePushKeeps, Zenon
    <3>2. Both(q, t) = Occ(local[w], t) + Occ(global, t)
      BY DEF Both
    <3> HIDE DEF q
    <3> QED
      BY <3>1, <3>2 DEF Both
  <2> HIDE DEF q
  <2>6. /\ Among(local', t) = Among(local, t) - Occ(local[w], t) + Occ(p[1], t)
        /\ Among(local', t) \in Nat /\ Among(local, t) \in Nat
        /\ Occ(local[w], t) \in Nat /\ Occ(p[1], t) \in Nat
    BY <2>2, <2>4, LocalNext
  <2>7. /\ Having(cache', t) = Having(cache, t) - Is(cache[w], t) + Is(x, t)
        /\ Having(cache', t) \in Nat /\ Having(cache, t) \in Nat
        /\ Is(x, t) \in Nat /\ Is(cache[w], t) \in Nat
    BY <2>2, <2>3, CacheNext
  <2>8. Occ(p[2], t) \in Nat /\ Occ(global, t) \in Nat /\ Having(task, t) \in Nat
    BY <2>4, OccType, Parts
  <2>9. MovingNext(t) = Having(cache', t) + Having(task, t) + Among(local', t) + Occ(p[2], t)
    BY <2>2, Zenon DEF MovingNext
  <2>10. Among(local', t) = Among(local, t) + Occ(global, t) + Is(cache[w], t) - Occ(p[2], t)
    BY <2>5, <2>6, <2>7, <2>8
  <2> QED
    BY <2>6, <2>7, <2>8, <2>9, <2>10 DEF Moving
<1>3. CASE cache[w] # None /\ PushThrows(w, 1)
  <2>1. closed
    BY <1>3 DEF PushThrows
  <2> SUFFICES ASSUME NEW t \in Tasks PROVE MovingNext(t) <= Moving(t)
    BY <2>1
  <2> DEFINE s == local[w]
             a == SubSeq(s, 1, Half)
             b == SubSeq(s, Half + 1, Len(s))
  <2>2. /\ local' = [local EXCEPT ![w] = b] /\ cache' = cache /\ global' = global
        /\ s \in Seq(Tasks)
    BY <1>3 DEF PushLocal, TypeOK
  <2>3. Half \in 0 .. Len(s)
    <3>1. Len(s) + 1 > Capacity /\ Len(s) \in Nat
      BY <1>3, <2>2 DEF PushThrows
    <3>2. Capacity \in Nat /\ Half \in Nat /\ Half <= Capacity
      BY SchedulerAssumption DEF Half
    <3> HIDE DEF s
    <3> QED
      BY <3>1, <3>2
  <2>4. Occ(s, t) = Occ(a, t) + Occ(b, t)
    BY <2>2, <2>3, OccSplit
  <2>5. a \in Seq(Tasks) /\ b \in Seq(Tasks)
    BY <2>2, <2>3
  <2>6. Occ(a, t) \in Nat /\ Occ(b, t) \in Nat
    BY <2>5, OccType
  <2> HIDE DEF a, b
  <2>7. /\ Among(local', t) = Among(local, t) - Occ(local[w], t) + Occ(b, t)
        /\ Among(local', t) \in Nat /\ Among(local, t) \in Nat
    BY <2>2, <2>5, LocalNext
  <2>8. MovingNext(t) = Having(cache, t) + Having(task, t) + Among(local', t) + Occ(global, t)
    BY <2>2, Zenon DEF MovingNext
  <2>9. Having(cache, t) \in Nat /\ Having(task, t) \in Nat /\ Occ(global, t) \in Nat
    BY Parts
  <2>10. Among(local', t) <= Among(local, t)
    BY <2>4, <2>6, <2>7
  <2> HIDE DEF s
  <2> QED
    BY <2>7, <2>8, <2>9, <2>10 DEF Moving
<1> QED
  BY <1>1, <1>2, <1>3

\* What a coroutine makes ready it takes from the fresh or the parked ones.
LEMMA PushedKeeps ==
  ASSUME TypeOK, TypeOK', NEW w \in Workers, NEW x \in Tasks, PushLocal(w, x),
         UNCHANGED <<task, inflight, cq, ended>>,
         \/ x \in fresh /\ fresh' = fresh \ {x} /\ parked' = parked
         \/ x \in parked /\ parked' = parked \ {x} /\ fresh' = fresh
  PROVE  Keeps \/ Drops
<1>1. ASSUME NEW t \in Tasks
      PROVE  /\ Total(t)' = MovingNext(t) + Within(inflight, t) + Among(cq, t)
                            + In(t, parked) + In(t, fresh) - Is(x, t) + In(t, ended)
             /\ Total(t) = Moving(t) + Within(inflight, t) + Among(cq, t)
                           + In(t, parked) + In(t, fresh) + In(t, ended)
             /\ Total(t)' \in Nat /\ Moving(t) \in Nat /\ MovingNext(t) \in Nat
             /\ Within(inflight, t) \in Nat /\ Among(cq, t) \in Nat
             /\ In(t, parked) \in Nat /\ In(t, fresh) \in Nat /\ In(t, ended) \in Nat
             /\ Is(x, t) \in Nat
  <2>1. /\ Having(cache, t) \in Nat /\ Having(task, t) \in Nat
        /\ Within(inflight, t) \in Nat /\ Among(local, t) \in Nat
        /\ Among(cq, t) \in Nat /\ Occ(global, t) \in Nat
        /\ In(t, parked) \in Nat /\ In(t, fresh) \in Nat /\ In(t, ended) \in Nat
    BY Parts
  <2>2. /\ Having(cache', t) \in Nat /\ Having(task', t) \in Nat
        /\ Among(local', t) \in Nat /\ Occ(global', t) \in Nat
    BY PartsNext
  <2>3. In(t, parked') + In(t, fresh') = In(t, parked) + In(t, fresh) - Is(x, t)
        /\ In(t, parked') \in Nat /\ In(t, fresh') \in Nat /\ Is(x, t) \in Nat
    BY DEF In, Is
  <2>4. Total(t)' = Having(cache', t) + Having(task', t) + Within(inflight, t)
                    + Among(local', t) + Among(cq, t) + Occ(global', t)
                    + In(t, parked') + In(t, fresh') + In(t, ended)
    BY TotalNext, Zenon
  <2> QED
    BY <2>1, <2>2, <2>3, <2>4 DEF Total, Moving, MovingNext
<1>2. CASE \A t \in Tasks : MovingNext(t) = Moving(t) + Is(x, t)
  <2>1. ASSUME NEW t \in Tasks PROVE Total(t)' = Total(t)
    BY <1>1, <1>2
  <2> QED
    BY <2>1 DEF Keeps
<1>3. CASE closed /\ \A t \in Tasks : MovingNext(t) <= Moving(t)
  <2>1. ASSUME NEW t \in Tasks PROVE Total(t)' <= Total(t) /\ Total(t)' \in Nat
    BY <1>1, <1>3
  <2> QED
    BY <1>3, <2>1 DEF Drops
<1> QED
  BY <1>2, <1>3, PushLocalGains

\* Spawning and making ready.
LEMMA SpawnKeeps ==
  ASSUME TypeOK, TypeOK', NEW w \in Workers, NEW x \in Tasks,
         Spawn(w, x) \/ Unpark(w, x)
  PROVE  Keeps \/ Drops
<1>1. /\ PushLocal(w, x) /\ UNCHANGED <<task, inflight, cq, ended>>
      /\ \/ x \in fresh /\ fresh' = fresh \ {x} /\ parked' = parked
         \/ x \in parked /\ parked' = parked \ {x} /\ fresh' = fresh
  BY DEF Spawn, Unpark, kernel
<1> QED
  BY <1>1, PushedKeeps

\* The coroutine a worker runs is nowhere else.
LEMMA RunsOnly ==
  ASSUME TypeOK, OnePlace, NEW w \in Workers, task[w] \in Tasks
  PROVE  task[w] \notin ended /\ task[w] \notin parked /\ task[w] \notin inflight[w]
<1> DEFINE x == task[w]
<1>1. Total(x) <= 1 /\ x = task[w] /\ x \in Tasks
  BY OnePlaceTotal
<1> HIDE DEF x
<1>2. 1 <= Having(task, x)
  <2>1. /\ task \in [Workers -> Tasks \cup {None}]
        /\ \A v \in Workers \ {w} : task[v] = task[v]
    BY DEF TypeOK
  <2>2. Is(task[w], x) <= Having(task, x)
    BY <2>1, HavingChanged
  <2> QED
    BY <1>1, <2>2 DEF Is
<1>3. In(x, inflight[w]) <= Within(inflight, x) /\ In(x, inflight[w]) \in {0, 1}
  <2>1. /\ inflight \in [Workers -> SUBSET Tasks]
        /\ \A v \in Workers \ {w} : inflight[v] = inflight[v]
    BY DEF TypeOK
  <2>2. In(x, inflight[w]) <= Within(inflight, x)
    BY <2>1, WithinChanged
  <2> QED
    BY <2>2 DEF In
<1>4. /\ Having(cache, x) \in Nat /\ Having(task, x) \in Nat
      /\ Within(inflight, x) \in Nat /\ Among(local, x) \in Nat
      /\ Among(cq, x) \in Nat /\ Occ(global, x) \in Nat
      /\ In(x, parked) \in Nat /\ In(x, fresh) \in Nat /\ In(x, ended) \in Nat
  BY Parts
<1>5. In(x, ended) = 0 /\ In(x, parked) = 0 /\ Within(inflight, x) = 0
  BY <1>1, <1>2, <1>4 DEF Total
<1>6. In(x, inflight[w]) = 0
  BY <1>3, <1>5
<1>7. x \notin ended /\ x \notin parked /\ x \notin inflight[w]
  BY <1>5, <1>6 DEF In
<1> QED
  BY <1>1, <1>7

\* A suspended coroutine is with the kernel, in a primitive, or at its end.
LEMMA SuspendKeeps ==
  ASSUME IInv, TypeOK', OnePlace, NEW w \in Workers, Suspend(w)
  PROVE  Keeps
<1> SUFFICES ASSUME NEW t \in Tasks PROVE Total(t)' = Total(t)
  BY DEF Keeps
<1>1. pc[w] = "running" /\ TypeOK /\ Holding
  BY Alive, ThreadFacts DEF Suspend
<1> PICK x \in Tasks : x = task[w]
  BY <1>1 DEF Holding
<1>2. x \notin ended /\ x \notin parked /\ x \notin inflight[w]
  BY <1>1, RunsOnly
<1>3. /\ task' = [task EXCEPT ![w] = None] /\ None \in Tasks \cup {None}
      /\ UNCHANGED <<cache, local, global, cq, fresh>>
  BY DEF Suspend, queues
<1>4. /\ Having(task', t) = Having(task, t) - Is(x, t)
      /\ Having(task', t) \in Nat /\ Having(task, t) \in Nat /\ Is(x, t) \in Nat
  <2>1. /\ Having(task', t) = Having(task, t) - Is(task[w], t) + Is(None, t)
        /\ Having(task', t) \in Nat /\ Having(task, t) \in Nat /\ Is(task[w], t) \in Nat
    BY <1>1, <1>3, TaskNext
  <2>2. Is(None, t) = 0
    BY ThreadFacts DEF Is
  <2> QED
    BY <2>1, <2>2
<1>5. /\ Having(cache, t) \in Nat /\ Within(inflight, t) \in Nat /\ Among(local, t) \in Nat
      /\ Among(cq, t) \in Nat /\ Occ(global, t) \in Nat
      /\ In(t, parked) \in Nat /\ In(t, fresh) \in Nat /\ In(t, ended) \in Nat
  BY <1>1, Parts
<1>6. Total(t)' = Having(cache, t) + Having(task', t) + Within(inflight', t)
                  + Among(local, t) + Among(cq, t) + Occ(global, t)
                  + In(t, parked') + In(t, fresh) + In(t, ended')
  BY <1>3, TotalNext, Zenon
<1>7. Within(inflight', t) + In(t, parked') + In(t, ended')
      = Within(inflight, t) + In(t, parked) + In(t, ended) + Is(x, t)
  <2>1. CASE ended' = ended \cup {x} /\ UNCHANGED <<inflight, parked>>
    <3>1. In(t, ended') = In(t, ended) + Is(x, t)
      BY <1>2, <2>1 DEF In, Is
    <3>2. Within(inflight', t) = Within(inflight, t) /\ In(t, parked') = In(t, parked)
      BY <2>1, Zenon
    <3> QED
      BY <1>4, <1>5, <3>1, <3>2
  <2>2. CASE parked' = parked \cup {x} /\ UNCHANGED <<inflight, ended>>
    <3>1. In(t, parked') = In(t, parked) + Is(x, t)
      BY <1>2, <2>2 DEF In, Is
    <3>2. Within(inflight', t) = Within(inflight, t) /\ In(t, ended') = In(t, ended)
      BY <2>2, Zenon
    <3> QED
      BY <1>4, <1>5, <3>1, <3>2
  <2>3. CASE /\ inflight' = [inflight EXCEPT ![w] = @ \cup {x}]
             /\ UNCHANGED <<parked, ended>>
    <3> DEFINE X == inflight[w] \cup {x}
    <3>1. inflight' = [inflight EXCEPT ![w] = X] /\ X \in SUBSET Tasks
      BY <1>1, <2>3 DEF TypeOK
    <3>2. In(t, X) = In(t, inflight[w]) + Is(x, t)
      BY <1>2 DEF In, Is
    <3> HIDE DEF X
    <3>3. /\ Within(inflight', t) = Within(inflight, t) - In(t, inflight[w]) + In(t, X)
          /\ Within(inflight', t) \in Nat /\ In(t, inflight[w]) \in {0, 1}
      BY <1>1, <3>1, InflightNext
    <3>4. In(t, parked') = In(t, parked) /\ In(t, ended') = In(t, ended)
      BY <2>3, Zenon
    <3>5. Within(inflight', t) = Within(inflight, t) + Is(x, t)
      BY <1>4, <1>5, <3>2, <3>3
    <3> QED
      BY <1>4, <1>5, <3>4, <3>5
  <2> QED
    BY <2>1, <2>2, <2>3 DEF Suspend
<1>8. /\ Within(inflight', t) \in Nat /\ In(t, parked') \in Nat /\ In(t, ended') \in Nat
  BY PartsNext DEF In
<1>9. Total(t)' = (Within(inflight', t) + In(t, parked') + In(t, ended'))
                  + Having(cache, t) + Having(task', t) + Among(local, t)
                  + Among(cq, t) + Occ(global, t) + In(t, fresh)
  BY <1>4, <1>5, <1>6, <1>8
<1>10. Total(t)' = (Within(inflight, t) + In(t, parked) + In(t, ended) + Is(x, t))
                   + Having(cache, t) + (Having(task, t) - Is(x, t)) + Among(local, t)
                   + Among(cq, t) + Occ(global, t) + In(t, fresh)
  BY <1>4, <1>7, <1>9, Zenon
<1> QED
  BY <1>4, <1>5, <1>10 DEF Total

-----------------------------------------------------------------------------
(* Every step keeps the handles and frees the hands.                       *)

\* A worker that has yet to find a task holds none.
LEMMA HandsEmpty ==
  ASSUME IInv, HandsFree, NEW w \in Workers,
         pc[w] \notin {"exec", "running", "notify", "terminated"}
  PROVE  task[w] = None /\ ~Holder(w) /\ TypeOK /\ Returns /\ EmptyHanded /\ ~Dead
<1>1. TypeOK /\ Returns /\ EmptyHanded /\ ~Dead
  BY Alive, ThreadFacts
<1> QED
  BY <1>1 DEF HandsFree, Holder

\* The worker that moves on ...
LEMMA JumpHands ==
  ASSUME TypeOK, HandsFree, ~Dead, NEW w \in Workers, NEW l, NEW r, NEW a,
         Jump(w, l, r, a), \A v \in Workers \ {w} : task'[v] = task[v],
         task'[w] # None => \/ l \in {"exec", "running"}
                            \/ l = "notify" /\ r = "running"
  PROVE  HandsFree'
<1>1. /\ pc'[w] = l /\ after'[w] = r
      /\ \A v \in Workers \ {w} : pc'[v] = pc[v] /\ after'[v] = after[v]
  BY ThreadFacts DEF Jump, TypeOK
<1> QED
  BY <1>1 DEF HandsFree, Holder

\* ... or the thread that owns the runtime.
LEMMA MainHands ==
  ASSUME TypeOK, HandsFree, ~Dead, NEW l, NEW r, NEW a, Jump(Main, l, r, a), task' = task
  PROVE  HandsFree'
<1>1. \A v \in Workers : pc'[v] = pc[v] /\ after'[v] = after[v]
  BY ThreadFacts DEF Jump, TypeOK
<1> QED
  BY <1>1 DEF HandsFree, Holder

\* After std::terminate nothing is asked.
LEMMA TerminateHands ==
  ASSUME Terminate
  PROVE  HandsFree'
BY ThreadFacts DEF Terminate, HandsFree, Dead

\* What a worker has taken it goes on to run.
LEMMA TakesHands ==
  ASSUME TypeOK, HandsFree, ~Dead, NEW w \in Workers, Takes(w), GotoExcute(w)
  PROVE  HandsFree'
<1>1. PICK l \in {"exec", "running"} : Jump(w, l, None, None)
  BY Zenon DEF GotoExcute, Goto
<1>2. \A v \in Workers \ {w} : task'[v] = task[v]
  BY DEF Takes
<1> QED
  BY <1>1, <1>2, JumpHands

\* get_next_task.
LEMMA GetNextTaskKeeps ==
  ASSUME IInv, TypeOK', HandsFree, NEW w \in Workers, GetNextTask(w)
  PROVE  HandsFree' /\ Keeps
<1>1. /\ task[w] = None /\ TypeOK /\ ~Dead
      /\ UNCHANGED <<inflight, cq, fresh, parked, ended>>
  BY HandsEmpty DEF GetNextTask, kernel, life
<1>2. CASE TakeGlobal(w) /\ GotoExcute(w)
  BY <1>1, <1>2, TakeGlobalTakes, TakeGlobalKeeps, TakesHands
<1>3. CASE TakeLocal(w) /\ GotoExcute(w)
  BY <1>1, <1>3, TakeLocalTakes, TakeLocalKeeps, TakesHands
<1>4. CASE TakeBatch(w) /\ GotoExcute(w)
  BY <1>1, <1>4, TakeBatchTakes, TakeBatchKeeps, TakesHands
<1>5. CASE Goto(w, "search") /\ UNCHANGED <<queues, task>>
  <2>1. Keeps
    BY <1>1, <1>5, StillKeeps DEF queues
  <2>2. Jump(w, "search", None, None) /\ task' = task
    BY <1>5 DEF Goto
  <2>3. HandsFree'
    BY <1>1, <2>2, JumpHands
  <2> QED
    BY <2>1, <2>3
<1> QED
  BY <1>2, <1>3, <1>4, <1>5, Zenon DEF GetNextTask, GlobalFirst, LocalFirst

\* task_steal looks for a victim, or takes a task of the global queue.
LEMMA ScanKeeps ==
  ASSUME IInv, TypeOK', HandsFree, NEW w \in Workers, Scan(w)
  PROVE  HandsFree' /\ Keeps
<1>1. /\ task[w] = None /\ TypeOK /\ ~Dead
      /\ UNCHANGED <<inflight, cq, fresh, parked, ended>>
  BY HandsEmpty DEF Scan, kernel, life
<1>2. CASE TakeGlobal(w) /\ GotoExcute(w)
  BY <1>1, <1>2, TakeGlobalTakes, TakeGlobalKeeps, TakesHands
<1>3. CASE (\E l, r, a : Jump(w, l, r, a)) /\ UNCHANGED <<queues, task>>
  <2> PICK l, r, a : Jump(w, l, r, a)
    BY <1>3
  <2>3. task' = task /\ UNCHANGED <<global, cache, local>>
    BY <1>3 DEF queues
  <2>1. Keeps
    BY <1>1, <2>3, StillKeeps
  <2>2. HandsFree'
    BY <1>1, <2>3, JumpHands
  <2> QED
    BY <2>1, <2>2
<1> QED
  BY <1>2, <1>3, Zenon DEF Scan, Call

\* Half of a number.
LEMMA HalfOf ==
  ASSUME NEW k \in Nat
  PROVE  k \div 2 \in Nat /\ k \div 2 <= k
OBVIOUS

\* be_stolen_by.
LEMMA BeStolenByStepKeeps ==
  ASSUME IInv, TypeOK', HandsFree, NEW w \in Workers, BeStolenBy(w)
  PROVE  HandsFree' /\ Keeps
<1>1. /\ pc[w] = "steal" /\ task[w] = None /\ TypeOK /\ Returns /\ EmptyHanded /\ ~Dead
      /\ UNCHANGED <<global, cache, inflight, cq, fresh, parked, ended>>
  BY HandsEmpty DEF BeStolenBy, kernel, life
<1>2. arg[w] \in Workers \ {w} /\ ~HasTask(w)
  BY <1>1 DEF Returns, EmptyHanded
<1>3. Len(local[arg[w]]) \in Nat
  BY <1>1, <1>2 DEF TypeOK
<1> DEFINE n == Len(local[arg[w]]) \div 2
<1>4. n \in Nat /\ n <= Len(local[arg[w]])
  BY <1>3, HalfOf, Zenon
<1>5. \/ /\ n > 0
         /\ task' = [task EXCEPT ![w] = local[arg[w]][n]]
         /\ local' = [local EXCEPT ![w] = @ \o SubSeq(local[arg[w]], 1, n - 1),
                                   ![arg[w]] = SubSeq(@, n + 1, Len(@))]
         /\ GotoExcute(w)
      \/ n = 0 /\ Call(w, "drive", "idle") /\ UNCHANGED <<task, local>>
  BY Zenon DEF BeStolenBy
<1>6. n > 0 => Takes(w)
  BY <1>1, <1>2, BeStolenByTakes, Zenon
<1> HIDE DEF n
<1>7. CASE n > 0
  <2>1. n \in 1 .. Len(local[arg[w]]) /\ n # 0
    BY <1>3, <1>4, <1>7
  <2>2. /\ task' = [task EXCEPT ![w] = local[arg[w]][n]]
        /\ local' = [local EXCEPT ![w] = @ \o SubSeq(local[arg[w]], 1, n - 1),
                                  ![arg[w]] = SubSeq(@, n + 1, Len(@))]
        /\ GotoExcute(w)
    BY <1>5, <2>1, Zenon
  <2>3. HandsFree'
    BY <1>1, <1>6, <1>7, <2>2, TakesHands
  <2>4. Keeps
    BY <1>1, <1>2, <2>1, <2>2, BeStolenByKeeps, Zenon
  <2> QED
    BY <2>3, <2>4
<1>8. CASE n = 0
  <2>1. Call(w, "drive", "idle") /\ UNCHANGED <<task, local>>
    <3>1. ~(n > 0)
      BY <1>8
    <3> QED
      BY <1>5, <3>1, Zenon
  <2>2. Keeps
    BY <1>1, <2>1, StillKeeps
  <2>3. HandsFree'
    BY <1>1, <2>1, JumpHands DEF Call
  <2> QED
    BY <2>2, <2>3
<1>9. n > 0 \/ n = 0
  BY <1>4
<1> QED
  BY <1>7, <1>8, <1>9

\* The steps of a worker that moves no handle and has none in its hands.
LEMMA QuietKeeps ==
  ASSUME IInv, HandsFree, NEW w \in Workers,
         pc[w] \notin {"exec", "running", "notify", "terminated"},
         NEW l, NEW r, NEW a, Jump(w, l, r, a),
         UNCHANGED <<queues, task, kernel, life>>
  PROVE  HandsFree' /\ Keeps
<1>1. task[w] = None /\ TypeOK /\ ~Dead
  BY HandsEmpty
<1>2. UNCHANGED <<global, cache, local, task, inflight, cq, fresh, parked, ended>>
  BY DEF queues, kernel, life
<1>3. Keeps
  BY <1>2, StillKeeps
<1>4. HandsFree'
  BY <1>1, <1>2, JumpHands
<1> QED
  BY <1>3, <1>4

\* The loop, the search and the end of a worker.
LEMMA LoopKeeps ==
  ASSUME IInv, HandsFree, NEW w \in Workers,
         Loop(w) \/ Leave(w) \/ UpdateShutdownFlag(w) \/ SetSearching(w)
         \/ IncNumSearching(w)
  PROVE  HandsFree' /\ Keeps
<1>1. pc[w] \notin {"exec", "running", "notify", "terminated"}
  BY DEF Loop, Leave, UpdateShutdownFlag, SetSearching, IncNumSearching
<1>2. UNCHANGED <<queues, task, kernel, life>>
  BY Zenon DEF Loop, Leave, UpdateShutdownFlag, SetSearching, IncNumSearching
<1>3. \E l, r, a : Jump(w, l, r, a)
  <2>1. CASE Loop(w)
    BY <2>1, Zenon DEF Loop, Goto, Call
  <2>2. CASE Leave(w)
    BY <2>2, Zenon DEF Leave, Goto
  <2>3. CASE UpdateShutdownFlag(w)
    BY <2>3, Zenon DEF UpdateShutdownFlag, Goto
  <2>4. CASE SetSearching(w)
    BY <2>4, Zenon DEF SetSearching, Goto, Call
  <2>5. CASE IncNumSearching(w)
    BY <2>5, Zenon DEF IncNumSearching, Goto
  <2> QED
    BY <2>1, <2>2, <2>3, <2>4, <2>5
<1> QED
  BY <1>1, <1>2, <1>3, QuietKeeps

\* Falling asleep and waking.
LEMMA SleepKeeps ==
  ASSUME IInv, HandsFree, NEW w \in Workers,
         SetSleeping(w) \/ WakeUpIfWorkPending(w) \/ WaitAndDrive(w)
         \/ CancelSleeping(w) \/ CancelOwn(w) \/ StillSleeping(w)
  PROVE  HandsFree' /\ Keeps
<1>1. pc[w] \notin {"exec", "running", "notify", "terminated"}
  BY DEF SetSleeping, WakeUpIfWorkPending, WaitAndDrive, CancelSleeping, CancelOwn,
     StillSleeping
<1>2. UNCHANGED <<queues, task, kernel, life>>
  BY Zenon DEF SetSleeping, WakeUpIfWorkPending, WaitAndDrive, CancelSleeping,
     CancelOwn, StillSleeping
<1>3. \E l, r, a : Jump(w, l, r, a)
  <2>1. CASE SetSleeping(w)
    BY <2>1, Zenon DEF SetSleeping, Goto
  <2>2. CASE WakeUpIfWorkPending(w)
    BY <2>2, Zenon DEF WakeUpIfWorkPending, Goto, Call
  <2>3. CASE WaitAndDrive(w)
    BY <2>3, Zenon DEF WaitAndDrive, Goto, Call
  <2>4. CASE CancelSleeping(w)
    BY <2>4, Zenon DEF CancelSleeping, Goto
  <2>5. CASE CancelOwn(w)
    BY <2>5, Zenon DEF CancelOwn, Goto
  <2>6. CASE StillSleeping(w)
    BY <2>6, Zenon DEF StillSleeping, Goto
  <2> QED
    BY <2>1, <2>2, <2>3, <2>4, <2>5, <2>6
<1> QED
  BY <1>1, <1>2, <1>3, QuietKeeps

\* drive, whether or not its pushes throw.
LEMMA DriveStepKeeps ==
  ASSUME IInv, TypeOK', HandsFree, NEW w \in Workers, Drive(w) \/ DriveThrows(w)
  PROVE  HandsFree' /\ Keeps
<1>1. CASE Drive(w)
  <2>1. task[w] = None /\ TypeOK /\ ~Dead /\ task' = task
    BY <1>1, HandsEmpty DEF Drive
  <2>2. \E l, r, a : Jump(w, l, r, a)
    BY <1>1, Zenon DEF Drive, Call
  <2>3. HandsFree'
    BY <2>1, <2>2, JumpHands
  <2> QED
    BY <1>1, <2>1, <2>3, DriveKeeps
<1>2. CASE DriveThrows(w)
  <2>1. /\ Terminate
        /\ UNCHANGED <<global, cache, local, task, inflight, cq, fresh, parked, ended>>
    BY <1>2 DEF DriveThrows, queues, kernel, life
  <2> QED
    BY <2>1, TerminateHands, StillKeeps
<1> QED
  BY <1>1, <1>2

\* cancel_searching keeps the task it is about to run.
LEMMA CancelSearchingKeeps ==
  ASSUME IInv, HandsFree, NEW w \in Workers, CancelSearching(w)
  PROVE  HandsFree' /\ Keeps
<1>1. TypeOK /\ ~Dead
  BY Alive, ThreadFacts DEF CancelSearching
<1>2. UNCHANGED <<global, cache, local, task, inflight, cq, fresh, parked, ended>>
  BY DEF CancelSearching, queues, kernel, life
<1>3. Call(w, "notify", "running") \/ Goto(w, "running")
  BY Zenon DEF CancelSearching
<1>4. HandsFree'
  BY <1>1, <1>2, <1>3, JumpHands DEF Call, Goto
<1> QED
  BY <1>2, <1>4, StillKeeps

\* The coroutine ends or suspends, and the worker has its hands free.
LEMMA SuspendStepKeeps ==
  ASSUME IInv, TypeOK', HandsFree, OnePlace, NEW w \in Workers, Suspend(w)
  PROVE  HandsFree' /\ Keeps
<1>1. TypeOK /\ ~Dead
  BY Alive, ThreadFacts DEF Suspend
<1>2. task' = [task EXCEPT ![w] = None] /\ Jump(w, "loop", None, None)
  BY DEF Suspend, Goto
<1>3. task'[w] = None /\ \A v \in Workers \ {w} : task'[v] = task[v]
  BY <1>1, <1>2 DEF TypeOK
<1>4. HandsFree'
  BY <1>1, <1>2, <1>3, JumpHands
<1> QED
  BY <1>4, SuspendKeeps

\* A coroutine makes another one ready, and goes on.
LEMMA SpawnStepKeeps ==
  ASSUME IInv, TypeOK', HandsFree, NEW w \in Workers, NEW x \in Tasks,
         Spawn(w, x) \/ Unpark(w, x)
  PROVE  HandsFree' /\ (Keeps \/ Drops)
<1>1. /\ pc[w] = "running" /\ PushLocal(w, x) /\ task' = task
  BY DEF Spawn, Unpark
<1>2. TypeOK /\ ~Dead
  BY <1>1, Alive, ThreadFacts
<1>3. UNCHANGED control \/ Call(w, "notify", "running") \/ Terminate
  BY <1>1, <1>2, PushLocalGives
<1>4. HandsFree'
  <2>1. CASE UNCHANGED control
    BY <1>1, <1>2, <2>1 DEF control, HandsFree, Holder, Dead
  <2>2. CASE Call(w, "notify", "running")
    BY <1>1, <1>2, <2>2, JumpHands DEF Call
  <2>3. CASE Terminate
    BY <2>3, TerminateHands
  <2> QED
    BY <1>3, <2>1, <2>2, <2>3
<1> QED
  BY <1>2, <1>4, SpawnKeeps

\* wake_up_one stays where it is, or returns to where it was called.
LEMMA WakeUpOneKeeps ==
  ASSUME IInv, HandsFree, NEW th \in Threads, WorkerToNotify(th) \/ WakeUp(th)
  PROVE  HandsFree' /\ Keeps
<1>1. pc[th] = "notify" /\ TypeOK /\ ~Dead
  BY Alive DEF WorkerToNotify, WakeUp
<1>2. UNCHANGED <<global, cache, local, task, inflight, cq, fresh, parked, ended>>
  BY DEF WorkerToNotify, WakeUp, queues, kernel, life
<1>3. PICK l, r, a : /\ Jump(th, l, r, a)
                     /\ \/ l = after[th]
                        \/ l = "notify" /\ r = after[th]
  <2>1. CASE Jump(th, after[th], None, None)
    BY <2>1, Zenon
  <2>2. CASE Jump(th, "notify", after[th], Last(sleepers))
    BY <2>2, Zenon
  <2> QED
    BY <2>1, <2>2 DEF WorkerToNotify, WakeUp, Goto
<1>4. CASE th = Main
  BY <1>1, <1>2, <1>3, <1>4, StillKeeps, MainHands
<1>5. CASE th \in Workers
  <2>1. task[th] # None => after[th] = "running"
    BY <1>1, <1>5 DEF HandsFree, Holder
  <2>2. HandsFree'
    BY <1>1, <1>2, <1>3, <1>5, <2>1, JumpHands
  <2> QED
    BY <1>2, <2>2, StillKeeps
<1> QED
  BY <1>4, <1>5 DEF Threads

\* The thread that owns the runtime.
LEMMA MainKeeps ==
  ASSUME IInv, TypeOK', HandsFree,
         (\E x \in Tasks : Submit(x)) \/ Close \/ WakeUpAll \/ Join
  PROVE  HandsFree' /\ Keeps
<1>1. pc[Main] # "terminated" /\ task' = task
  BY DEF Submit, Close, WakeUpAll, Join
<1>2. TypeOK /\ ~Dead
  BY <1>1, Alive, ThreadFacts
<1>3. \E l, r, a : Jump(Main, l, r, a)
  <2>1. CASE \E x \in Tasks : Submit(x)
    BY <2>1, Zenon DEF Submit, Call
  <2>2. CASE Close
    BY <2>2, Zenon DEF Close, Goto
  <2>3. CASE WakeUpAll
    BY <2>3, Zenon DEF WakeUpAll, Goto
  <2>4. CASE Join
    BY <2>4, Zenon DEF Join, Goto
  <2> QED
    BY <2>1, <2>2, <2>3, <2>4
<1>4. HandsFree'
  BY <1>1, <1>2, <1>3, MainHands
<1>5. CASE \E x \in Tasks : Submit(x)
  BY <1>2, <1>4, <1>5, SubmitKeeps
<1>6. CASE Close \/ WakeUpAll \/ Join
  <2>1. UNCHANGED <<global, cache, local, task, inflight, cq, fresh, parked, ended>>
    BY <1>6 DEF Close, WakeUpAll, Join, queues, kernel, life
  <2> QED
    BY <1>4, <2>1, StillKeeps
<1> QED
  BY <1>5, <1>6

\* Initially every handle is fresh, and nowhere else.
LEMMA InitPlaces == Init => HandsFree /\ OnePlace
<1> SUFFICES ASSUME Init PROVE HandsFree /\ OnePlace
  OBVIOUS
<1>1. HandsFree
  BY DEF Init, HandsFree
<1>2. ASSUME NEW t \in Tasks PROVE Total(t) = 1
  <2>1. Having(cache, t) = 0 /\ Having(task, t) = 0
    <3>1. {w \in Workers : cache[w] = t} = {} /\ {w \in Workers : task[w] = t} = {}
      BY ThreadFacts DEF Init
    <3> QED
      BY <3>1, FS_EmptySet, Zenon DEF Having
  <2>2. Within(inflight, t) = 0
    <3>1. {w \in Workers : t \in inflight[w]} = {}
      BY DEF Init
    <3> QED
      BY <3>1, FS_EmptySet, Zenon DEF Within
  <2>3. Among(local, t) = 0 /\ Among(cq, t) = 0
    <3>1. /\ DOMAIN local = Workers /\ DOMAIN cq = Workers
          /\ \A w \in Workers : DOMAIN local[w] = {} /\ DOMAIN cq[w] = {}
      BY DEF Init
    <3>2. Spots(local) = {} /\ Spots(cq) = {}
      BY <3>1 DEF Spots
    <3>3. /\ {p \in Spots(local) : local[p[1]][p[2]] = t} = {}
          /\ {p \in Spots(cq) : cq[p[1]][p[2]] = t} = {}
      BY <3>2
    <3> QED
      BY <3>3, FS_EmptySet, Zenon DEF Among
  <2>4. Occ(global, t) = 0
    <3>1. {i \in DOMAIN global : global[i] = t} = {}
      BY DEF Init
    <3> QED
      BY <3>1, FS_EmptySet, Zenon DEF Occ
  <2>5. In(t, parked) = 0 /\ In(t, fresh) = 1 /\ In(t, ended) = 0
    BY DEF Init, In
  <2> QED
    BY <2>1, <2>2, <2>3, <2>4, <2>5 DEF Total
<1>3. OnePlace
  <2>1. TypeOK
    BY InitInv DEF IInv
  <2> QED
    BY <1>2, <2>1, OnePlaceTotal
<1> QED
  BY <1>1, <1>3

\* A closed runtime stays closed.
LEMMA ClosedStays ==
  ASSUME [Next]_vars, closed
  PROVE  closed'
<1>1. CASE UNCHANGED vars
  BY <1>1 DEF vars
<1>2. CASE \E w \in Workers : WorkerStep(w) \/ Suspend(w)
  BY <1>2 DEF WorkerStep, Suspend, Loop, Leave, Drive, DriveThrows, UpdateShutdownFlag,
     GetNextTask, SetSearching, IncNumSearching, Scan, BeStolenBy, CancelSearching,
     SetSleeping, WakeUpIfWorkPending, WaitAndDrive, CancelSleeping, CancelOwn,
     StillSleeping
<1>3. CASE \E w \in Workers, t \in Tasks : Spawn(w, t) \/ Unpark(w, t) \/ IoCompletes(w, t)
  BY <1>3 DEF Spawn, Unpark, IoCompletes
<1>4. CASE \E th \in Threads : WorkerToNotify(th) \/ WakeUp(th)
  BY <1>4 DEF WorkerToNotify, WakeUp
<1>5. CASE (\E t \in Tasks : Submit(t)) \/ Close \/ WakeUpAll \/ Join
  BY <1>5 DEF Submit, Close, WakeUpAll, Join
<1> QED
  BY <1>1, <1>2, <1>3, <1>4, <1>5 DEF Next

\* Every step leaves each handle where it was or moves it, and only a throw
\* after close loses one.
LEMMA NextKeeps ==
  ASSUME IInv, TypeOK', HandsFree, OnePlace, [Next]_vars
  PROVE  HandsFree' /\ (Keeps \/ Drops)
<1>1. CASE UNCHANGED vars
  <2>1. UNCHANGED <<global, cache, local, task, inflight, cq, fresh, parked, ended>>
    BY <1>1 DEF vars, queues, kernel, life
  <2>2. UNCHANGED <<pc, after, task>>
    BY <1>1 DEF vars, control
  <2>3. HandsFree'
    BY <2>2 DEF HandsFree, Holder, Dead
  <2> QED
    BY <2>1, <2>3, StillKeeps
<1>2. CASE \E w \in Workers : WorkerStep(w)
  <2> PICK w \in Workers : WorkerStep(w)
    BY <1>2
  <2>1. CASE Loop(w) \/ Leave(w) \/ UpdateShutdownFlag(w) \/ SetSearching(w)
             \/ IncNumSearching(w)
    BY <2>1, LoopKeeps
  <2>2. CASE SetSleeping(w) \/ WakeUpIfWorkPending(w) \/ WaitAndDrive(w)
             \/ CancelSleeping(w) \/ CancelOwn(w) \/ StillSleeping(w)
    BY <2>2, SleepKeeps
  <2>3. CASE Drive(w) \/ DriveThrows(w)
    BY <2>3, DriveStepKeeps
  <2>4. CASE GetNextTask(w) \/ Scan(w) \/ BeStolenBy(w) \/ CancelSearching(w)
    BY <2>4, GetNextTaskKeeps, ScanKeeps, BeStolenByStepKeeps, CancelSearchingKeeps
  <2> QED
    BY <2>1, <2>2, <2>3, <2>4 DEF WorkerStep
<1>3. CASE \E w \in Workers : Suspend(w)
  BY <1>3, SuspendStepKeeps
<1>4. CASE \E w \in Workers, t \in Tasks : Spawn(w, t) \/ Unpark(w, t)
  BY <1>4, SpawnStepKeeps
<1>5. CASE \E w \in Workers, t \in Tasks : IoCompletes(w, t)
  <2> PICK w \in Workers, t \in Tasks : IoCompletes(w, t)
    BY <1>5
  <2>1. UNCHANGED <<pc, after, task>>
    BY DEF IoCompletes, control
  <2>2. HandsFree'
    BY <2>1 DEF HandsFree, Holder, Dead
  <2>3. TypeOK
    BY DEF IInv
  <2> QED
    BY <2>2, <2>3, IoCompletesKeeps
<1>6. CASE \E th \in Threads : WorkerToNotify(th) \/ WakeUp(th)
  BY <1>6, WakeUpOneKeeps
<1>7. CASE (\E t \in Tasks : Submit(t)) \/ Close \/ WakeUpAll \/ Join
  BY <1>7, MainKeeps
<1> QED
  BY <1>1, <1>2, <1>3, <1>4, <1>5, <1>6, <1>7 DEF Next

\* A coroutine handle is in one place at a time: a cache, a queue, a worker's
\* hands, the kernel, a primitive, its submitter's hands or its end.  However
\* overflows, refills, thefts, completions and wakeups interleave, no coroutine
\* is resumed twice, and until the runtime closes none is lost.
THEOREM OnePlaceAlways == Spec => []OnePlace
<1>1. Init => HandsFree /\ OnePlace
  BY InitPlaces
<1>2. IInv /\ IInv' /\ HandsFree /\ OnePlace /\ [Next]_vars => (HandsFree /\ OnePlace)'
  <2> SUFFICES ASSUME IInv, IInv', HandsFree, OnePlace, [Next]_vars
               PROVE  HandsFree' /\ OnePlace'
    OBVIOUS
  <2>1. TypeOK /\ TypeOK'
    BY DEF IInv
  <2>2. HandsFree' /\ (Keeps \/ Drops)
    BY <2>1, NextKeeps
  <2>3. \A t \in Tasks : Total(t) <= 1 /\ (~closed => Total(t) = 1)
    <3>1. TypeOK
      BY DEF IInv
    <3> QED
      BY <3>1, OnePlaceTotal
  <2>4. closed => closed'
    BY ClosedStays
  <2>5. \A t \in Tasks : Total(t)' <= 1 /\ (~closed' => Total(t)' = 1)
    <3>1. CASE Keeps
      BY <2>3, <2>4, <3>1 DEF Keeps
    <3>2. CASE Drops
      <4> SUFFICES ASSUME NEW t \in Tasks PROVE Total(t)' <= 1
        BY <2>4, <3>2 DEF Drops
      <4>1. Total(t)' <= Total(t) /\ Total(t)' \in Nat /\ Total(t) <= 1
        BY <2>3, <3>2 DEF Drops
      <4>2. Total(t) \in Nat
        BY <2>1, Parts DEF Total
      <4> QED
        BY <4>1, <4>2
    <3> QED
      BY <2>2, <3>1, <3>2
  <2>6. (TypeOK =>
           (OnePlace <=> \A t \in Tasks : Total(t) <= 1 /\ (~closed => Total(t) = 1)))'
    BY OnePlaceTotal, PTL
  <2>7. OnePlace'
    <3>1. TypeOK'
      BY DEF IInv
    <3> QED
      BY <2>5, <2>6, <3>1
  <2> QED
    BY <2>2, <2>7
<1> QED
  BY <1>1, <1>2, InvAlways, PTL DEF Spec

=============================================================================
