---------------------------- MODULE Sync_proofs -----------------------------
(***************************************************************************)
(* Proofs about Mutex and about Sync.  For any set of coroutines that lock *)
(* and unlock (Spec): whatever the order in which compare-exchanges        *)
(* succeed and fail, one coroutine at a time holds the lock, and the two   *)
(* lists together hold each waiter exactly once.  Then for any number of   *)
(* coroutines in any of the roles of Sync (SyncSpec): the mutex keeps what *)
(* was shown of it under each of its users, a condition variable drops no  *)
(* waiter and no notification, and a channel hands over each value once.   *)
(***************************************************************************)
EXTENDS Sync, SequenceTheorems, FiniteSetTheorems, WellFoundedInduction, TLAPS

-----------------------------------------------------------------------------
(* The mutex, by itself.                                                   *)

Places == {"out", "lock", "parked", "held", "unlock", "take"}

Distinct(s) == \A i, j \in 1 .. Len(s) : i # j => s[i] # s[j]

\* WaitersAreListed, said of the two lists one by one, and what an unlock in
\* progress knows of them: it has found _fifo_awaiters empty, and only the
\* holder fills that list; once newcomers were seen, only it removes them.
ListInv ==
  /\ \A c \in Coroutines :
       pc[c] = "parked" <=> Contains(fifo, c) \/ Contains(lifo, c)
  /\ \A c \in Coroutines : ~(Contains(fifo, c) /\ Contains(lifo, c))
  /\ Distinct(fifo) /\ Distinct(lifo)
  /\ free => fifo = << >> /\ lifo = << >>
  /\ \A c \in Coroutines : pc[c] \in {"unlock", "take"} => fifo = << >>
  /\ \A c \in Coroutines : pc[c] = "take" => lifo # << >>

Inv == TypeOK /\ MutualExclusion /\ ListInv

-----------------------------------------------------------------------------
(* Lists of waiters.                                                       *)

\* The empty list holds nobody.
LEMMA EmptyFacts ==
  /\ << >> \in Seq(Coroutines) /\ Distinct(<< >>)
  /\ \A d : ~Contains(<< >>, d)
BY DEF Distinct, Contains

\* A newcomer at the head of a list it was not in.
LEMMA ConsFacts ==
  ASSUME NEW s \in Seq(Coroutines), NEW c \in Coroutines
  PROVE  /\ <<c>> \o s \in Seq(Coroutines) /\ <<c>> \o s # << >>
         /\ \A d : Contains(<<c>> \o s, d) <=> d = c \/ Contains(s, d)
         /\ Distinct(s) /\ ~Contains(s, c) => Distinct(<<c>> \o s)
<1> DEFINE t == <<c>> \o s
<1>1. /\ t \in Seq(Coroutines) /\ Len(t) = Len(s) + 1 /\ Len(s) \in Nat
      /\ t[1] = c /\ \A i \in 2 .. Len(t) : t[i] = s[i - 1]
  OBVIOUS
<1> HIDE DEF t
<1>2. t # << >>
  BY <1>1
<1>3. ASSUME NEW d PROVE Contains(t, d) <=> d = c \/ Contains(s, d)
  <2>1. ASSUME NEW i \in 1 .. Len(t), t[i] = d
        PROVE  d = c \/ Contains(s, d)
    <3>1. CASE i = 1
      BY <1>1, <2>1, <3>1
    <3>2. CASE i # 1
      <4>1. i - 1 \in 1 .. Len(s) /\ s[i - 1] = d
        BY <1>1, <2>1, <3>2
      <4> QED
        BY <4>1 DEF Contains
    <3> QED
      BY <3>1, <3>2
  <2>2. ASSUME NEW i \in 1 .. Len(s), s[i] = d
        PROVE  Contains(t, d)
    <3>1. i + 1 \in 1 .. Len(t) /\ t[i + 1] = d
      BY <1>1, <2>2
    <3> QED
      BY <3>1 DEF Contains
  <2>3. Contains(t, c)
    BY <1>1 DEF Contains
  <2> QED
    BY <2>1, <2>2, <2>3 DEF Contains
<1>4. ASSUME Distinct(s), ~Contains(s, c) PROVE Distinct(t)
  <2> SUFFICES ASSUME NEW i \in 1 .. Len(t), NEW j \in 1 .. Len(t), i < j
               PROVE  t[i] # t[j]
    BY <1>1 DEF Distinct
  <2>1. j - 1 \in 1 .. Len(s) /\ t[j] = s[j - 1]
    BY <1>1
  <2>2. CASE i = 1
    BY <1>1, <1>4, <2>1, <2>2 DEF Contains
  <2>3. CASE i # 1
    <3>1. i - 1 \in 1 .. Len(s) /\ t[i] = s[i - 1] /\ i - 1 # j - 1
      BY <1>1, <2>3
    <3> QED
      BY <1>4, <2>1, <3>1 DEF Distinct
  <2> QED
    BY <2>2, <2>3
<1> QED
  BY <1>1, <1>2, <1>3, <1>4 DEF t

\* Taking the first of a list.
LEMMA TailFacts ==
  ASSUME NEW s \in Seq(Coroutines), s # << >>
  PROVE  /\ Head(s) \in Coroutines /\ Tail(s) \in Seq(Coroutines)
         /\ \A d : Contains(s, d) <=> d = Head(s) \/ Contains(Tail(s), d)
         /\ Distinct(s) => Distinct(Tail(s)) /\ ~Contains(Tail(s), Head(s))
<1> DEFINE h == Head(s)
           t == Tail(s)
<1>1. /\ h \in Coroutines /\ t \in Seq(Coroutines)
      /\ Len(s) \in Nat \ {0} /\ Len(t) = Len(s) - 1
      /\ h = s[1] /\ \A i \in 1 .. Len(t) : t[i] = s[i + 1]
  BY HeadTailProperties, EmptySeq
<1> HIDE DEF h, t
<1>2. ASSUME NEW d PROVE Contains(s, d) <=> d = h \/ Contains(t, d)
  <2>1. ASSUME NEW i \in 1 .. Len(s), s[i] = d
        PROVE  d = h \/ Contains(t, d)
    <3>1. CASE i = 1
      BY <1>1, <2>1, <3>1
    <3>2. CASE i # 1
      <4>1. i - 1 \in 1 .. Len(t) /\ t[i - 1] = d
        BY <1>1, <2>1, <3>2
      <4> QED
        BY <4>1 DEF Contains
    <3> QED
      BY <3>1, <3>2
  <2>2. ASSUME NEW i \in 1 .. Len(t), t[i] = d
        PROVE  Contains(s, d)
    <3>1. i + 1 \in 1 .. Len(s) /\ s[i + 1] = d
      BY <1>1, <2>2
    <3> QED
      BY <3>1 DEF Contains
  <2>3. Contains(s, h)
    BY <1>1 DEF Contains
  <2> QED
    BY <2>1, <2>2, <2>3 DEF Contains
<1>3. ASSUME Distinct(s) PROVE Distinct(t) /\ ~Contains(t, h)
  <2>1. ASSUME NEW i \in 1 .. Len(t), NEW j \in 1 .. Len(t), i # j
        PROVE  t[i] # t[j]
    <3>1. /\ i + 1 \in 1 .. Len(s) /\ j + 1 \in 1 .. Len(s) /\ i + 1 # j + 1
          /\ t[i] = s[i + 1] /\ t[j] = s[j + 1]
      BY <1>1, <2>1
    <3> QED
      BY <1>3, <3>1 DEF Distinct
  <2>2. ASSUME NEW i \in 1 .. Len(t) PROVE t[i] # h
    <3>1. i + 1 \in 1 .. Len(s) /\ 1 \in 1 .. Len(s) /\ i + 1 # 1
          /\ t[i] = s[i + 1]
      BY <1>1
    <3> QED
      BY <1>1, <1>3, <3>1 DEF Distinct
  <2> QED
    BY <2>1, <2>2 DEF Distinct, Contains
<1> QED
  BY <1>1, <1>2, <1>3 DEF h, t

\* Turning a list around loses and repeats nobody.
LEMMA ReverseFacts ==
  ASSUME NEW s \in Seq(Coroutines)
  PROVE  /\ Reverse(s) \in Seq(Coroutines)
         /\ s # << >> => Reverse(s) # << >>
         /\ s = << >> => Reverse(s) = << >>
         /\ \A d : Contains(Reverse(s), d) <=> Contains(s, d)
         /\ Distinct(s) => Distinct(Reverse(s))
<1> DEFINE r == Reverse(s)
           n == Len(s)
<1>1. /\ n \in Nat /\ (s = << >> <=> n = 0)
      /\ \A i \in 1 .. n : s[i] \in Coroutines
  BY EmptySeq, ElementOfSeq
<1>2. r = [i \in 1 .. n |-> s[(n - i) + 1]]
  BY DEF Reverse
<1>3. \A i \in 1 .. n : (n - i) + 1 \in 1 .. n
  BY <1>1
<1>4. r \in Seq(Coroutines) /\ Len(r) = n
      /\ \A i \in 1 .. n : r[i] = s[(n - i) + 1]
  BY <1>1, <1>2, <1>3
<1> HIDE DEF r
<1>5. (s # << >> => r # << >>) /\ (s = << >> => r = << >>)
  <2>1. r = << >> <=> Len(r) = 0
    BY <1>4, EmptySeq
  <2> QED
    BY <1>1, <1>4, <2>1
<1>6. ASSUME NEW d PROVE Contains(r, d) <=> Contains(s, d)
  <2>1. ASSUME NEW i \in 1 .. n, r[i] = d PROVE Contains(s, d)
    BY <1>3, <1>4, <2>1 DEF Contains
  <2>2. ASSUME NEW i \in 1 .. n, s[i] = d PROVE Contains(r, d)
    <3> DEFINE k == (n - i) + 1
    <3>1. k \in 1 .. n /\ (n - k) + 1 = i
      BY <1>1
    <3> HIDE DEF k
    <3>2. r[k] = d
      BY <1>4, <2>2, <3>1
    <3> QED
      BY <1>4, <3>1, <3>2 DEF Contains
  <2> QED
    BY <1>4, <2>1, <2>2 DEF Contains
<1>7. ASSUME Distinct(s) PROVE Distinct(r)
  <2> SUFFICES ASSUME NEW i \in 1 .. n, NEW j \in 1 .. n, i # j
               PROVE  r[i] # r[j]
    BY <1>4 DEF Distinct
  <2>1. (n - i) + 1 # (n - j) + 1
    BY <1>1
  <2> QED
    BY <1>3, <1>4, <1>7, <2>1 DEF Distinct
<1> QED
  BY <1>4, <1>5, <1>6, <1>7 DEF r

\* Two lists with nobody in common, one after the other.
LEMMA ConcatFacts ==
  ASSUME NEW s \in Seq(Coroutines), NEW t \in Seq(Coroutines)
  PROVE  /\ s \o t \in Seq(Coroutines)
         /\ \A d : Contains(s \o t, d) <=> Contains(s, d) \/ Contains(t, d)
         /\ /\ Distinct(s) /\ Distinct(t)
            /\ \A d \in Coroutines : ~(Contains(s, d) /\ Contains(t, d))
            => Distinct(s \o t)
         /\ s = << >> /\ t = << >> => s \o t = << >>
<1> DEFINE u == s \o t
           m == Len(s)
           n == Len(t)
<1>1. /\ u \in Seq(Coroutines) /\ Len(u) = m + n /\ m \in Nat /\ n \in Nat
      /\ \A i \in 1 .. m : u[i] = s[i]
      /\ \A i \in 1 .. n : u[m + i] = t[i]
  BY ConcatProperties, LenProperties
<1>2. s = << >> /\ t = << >> => u = << >>
  BY ConcatEmptySeq
<1>3. \A i \in 1 .. m + n : i \in 1 .. m \/ \E k \in 1 .. n : i = m + k
  <2> SUFFICES ASSUME NEW i \in 1 .. m + n, i \notin 1 .. m
               PROVE  \E k \in 1 .. n : i = m + k
    OBVIOUS
  <2>1. i - m \in 1 .. n /\ i = m + (i - m)
    BY <1>1
  <2> QED
    BY <2>1
<1>4. /\ \A i \in 1 .. m : i \in 1 .. m + n
      /\ \A i \in 1 .. n : m + i \in 1 .. m + n
  BY <1>1
<1> HIDE DEF u, m, n
<1>5. ASSUME NEW d PROVE Contains(u, d) <=> Contains(s, d) \/ Contains(t, d)
  <2>1. ASSUME NEW i \in 1 .. m + n, u[i] = d
        PROVE  Contains(s, d) \/ Contains(t, d)
    <3>1. CASE i \in 1 .. m
      BY <1>1, <2>1, <3>1 DEF Contains, m
    <3>2. CASE i \notin 1 .. m
      <4>1. PICK k \in 1 .. n : i = m + k
        BY <1>3, <3>2
      <4> QED
        BY <1>1, <2>1, <4>1 DEF Contains, n
    <3> QED
      BY <3>1, <3>2
  <2>2. ASSUME NEW i \in 1 .. m, s[i] = d PROVE Contains(u, d)
    BY <1>1, <1>4, <2>2 DEF Contains
  <2>3. ASSUME NEW i \in 1 .. n, t[i] = d PROVE Contains(u, d)
    BY <1>1, <1>4, <2>3 DEF Contains
  <2>4. Contains(u, d) => \E i \in 1 .. m + n : u[i] = d
    BY <1>1 DEF Contains
  <2> QED
    BY <2>1, <2>2, <2>3, <2>4 DEF Contains, m, n
<1>6. ASSUME Distinct(s), Distinct(t),
             \A d \in Coroutines : ~(Contains(s, d) /\ Contains(t, d))
      PROVE  Distinct(u)
  <2>1. \A i \in 1 .. m, k \in 1 .. n : s[i] # t[k]
    <3> SUFFICES ASSUME NEW i \in 1 .. m, NEW k \in 1 .. n, s[i] = t[k]
                 PROVE  FALSE
      OBVIOUS
    <3>1. s[i] \in Coroutines
      BY ElementOfSeq DEF m
    <3>2. Contains(s, s[i]) /\ Contains(t, s[i])
      BY DEF Contains, m, n
    <3> QED
      BY <1>6, <3>1, <3>2
  <2> SUFFICES ASSUME NEW i \in 1 .. m + n, NEW j \in 1 .. m + n, i # j
               PROVE  u[i] # u[j]
    BY <1>1 DEF Distinct
  <2>2. CASE i \in 1 .. m /\ j \in 1 .. m
    BY <1>1, <1>6, <2>2 DEF Distinct, m
  <2>3. CASE i \in 1 .. m /\ j \notin 1 .. m
    <3>1. PICK k \in 1 .. n : j = m + k
      BY <1>3, <2>3
    <3>2. u[j] = t[k] /\ u[i] = s[i]
      BY <1>1, <2>3, <3>1
    <3> QED
      BY <2>1, <2>3, <3>2
  <2>4. CASE i \notin 1 .. m /\ j \in 1 .. m
    <3>1. PICK k \in 1 .. n : i = m + k
      BY <1>3, <2>4
    <3>2. u[i] = t[k] /\ u[j] = s[j]
      BY <1>1, <2>4, <3>1
    <3> QED
      BY <2>1, <2>4, <3>2
  <2>5. CASE i \notin 1 .. m /\ j \notin 1 .. m
    <3>1. PICK a \in 1 .. n : i = m + a
      BY <1>3, <2>5
    <3>2. PICK b \in 1 .. n : j = m + b
      BY <1>3, <2>5
    <3> QED
      BY <1>1, <1>6, <3>1, <3>2 DEF Distinct, n
  <2> QED
    BY <2>2, <2>3, <2>4, <2>5
<1> QED
  BY <1>1, <1>2, <1>5, <1>6 DEF u

-----------------------------------------------------------------------------
(* The invariant.                                                          *)

\* The lists of Inv are the list of WaitersAreListed.
LEMMA InvListsWaiters == Inv => WaitersAreListed
<1> SUFFICES ASSUME Inv PROVE WaitersAreListed
  OBVIOUS
<1> DEFINE r == Reverse(lifo)
<1>1. /\ fifo \in Seq(Coroutines) /\ lifo \in Seq(Coroutines)
      /\ Distinct(fifo) /\ Distinct(lifo)
      /\ \A c \in Coroutines : ~(Contains(fifo, c) /\ Contains(lifo, c))
  BY DEF Inv, TypeOK, Places, ListInv
<1>2. /\ r \in Seq(Coroutines) /\ Distinct(r)
      /\ lifo = << >> => r = << >>
      /\ \A d : Contains(r, d) <=> Contains(lifo, d)
  BY <1>1, ReverseFacts
<1> HIDE DEF r
<1>3. /\ fifo \o r \in Seq(Coroutines) /\ Distinct(fifo \o r)
      /\ fifo = << >> /\ r = << >> => fifo \o r = << >>
      /\ \A d : Contains(fifo \o r, d) <=> Contains(fifo, d) \/ Contains(r, d)
  BY <1>1, <1>2, ConcatFacts
<1>4. Waiters = fifo \o r
  BY DEF Waiters, r
<1>5. \A i, j \in DOMAIN Waiters : i # j => Waiters[i] # Waiters[j]
  BY <1>3, <1>4, LenProperties DEF Distinct
<1> QED
  BY <1>2, <1>3, <1>4, <1>5 DEF Inv, ListInv, WaitersAreListed

\* Initially nobody holds the lock and nobody waits.
LEMMA InitInv == Init => Inv
BY PointerAssumption, EmptyFacts
DEF Init, Inv, TypeOK, Places, Pointers, MutualExclusion, Holds, ListInv

\* What a load of _state returns.
LEMMA StateType ==
  ASSUME TypeOK
  PROVE  /\ State \in Pointers
         /\ State = Unlocked <=> free
         /\ State = Null <=> ~free /\ lifo = << >>
<1>1. lifo # << >> => lifo[1] \in Coroutines
  BY EmptySeq, ElementOfSeq DEF TypeOK, Places
<1> QED
  BY <1>1, PointerAssumption DEF State, Pointers

\* A step that leaves the lists and every holder where they are.
LEMMA QuietStep ==
  ASSUME Inv, NEW c \in Coroutines, UNCHANGED <<free, lifo, fifo>>,
         reg' \in [Coroutines -> Pointers],
         NEW label \in {"out", "lock"}, pc[c] \in {"out", "lock"},
         Goto(c, label)
  PROVE  Inv'
<1>1. /\ pc' \in [Coroutines -> Places]
      /\ pc'[c] = label /\ \A d \in Coroutines \ {c} : pc'[d] = pc[d]
  BY DEF Inv, TypeOK, Places, Goto
<1>2. TypeOK'
  BY <1>1 DEF Inv, TypeOK, Places
<1>3. MutualExclusion'
  BY <1>1 DEF Inv, MutualExclusion, Holds
<1>4. ListInv'
  BY <1>1 DEF Inv, ListInv
<1> QED
  BY <1>2, <1>3, <1>4 DEF Inv

\* A compare-exchange from unlocked to locked makes the only holder.
LEMMA LockFreeInv ==
  ASSUME Inv, NEW c \in Coroutines, LockFree(c)
  PROVE  Inv'
<1>1. /\ free /\ free' = FALSE /\ UNCHANGED <<lifo, fifo>>
      /\ pc[c] = "lock" /\ reg' = [reg EXCEPT ![c] = Null]
  BY StateType DEF LockFree, Inv, Forget
<1>2. /\ pc' \in [Coroutines -> Places]
      /\ pc'[c] = "held" /\ \A d \in Coroutines \ {c} : pc'[d] = pc[d]
  BY DEF LockFree, Inv, TypeOK, Places, Goto
<1>3. TypeOK'
  BY <1>1, <1>2 DEF Inv, TypeOK, Places, Pointers
<1>4. MutualExclusion'
  BY <1>1, <1>2 DEF Inv, MutualExclusion, Holds
<1>5. ListInv'
  BY <1>1, <1>2 DEF Inv, ListInv
<1> QED
  BY <1>3, <1>4, <1>5 DEF Inv

\* A newcomer puts itself at the head of the list of a locked mutex.
LEMMA LockWaitInv ==
  ASSUME Inv, NEW c \in Coroutines, LockWait(c)
  PROVE  Inv'
<1>1. /\ ~free /\ UNCHANGED <<free, fifo>> /\ lifo' = <<c>> \o lifo
      /\ pc[c] = "lock" /\ reg' = [reg EXCEPT ![c] = Null]
  BY StateType DEF LockWait, Inv, Forget
<1>2. /\ pc' \in [Coroutines -> Places]
      /\ pc'[c] = "parked" /\ \A d \in Coroutines \ {c} : pc'[d] = pc[d]
  BY DEF LockWait, Inv, TypeOK, Places, Goto
<1>3. ~Contains(fifo, c) /\ ~Contains(lifo, c)
  BY <1>1 DEF Inv, ListInv
<1>4. /\ lifo' \in Seq(Coroutines) /\ lifo' # << >> /\ Distinct(lifo')
      /\ \A d : Contains(lifo', d) <=> d = c \/ Contains(lifo, d)
  BY <1>1, <1>3, ConsFacts DEF Inv, TypeOK, Places, ListInv
<1>5. TypeOK'
  BY <1>1, <1>2, <1>4 DEF Inv, TypeOK, Places, Pointers
<1>6. MutualExclusion'
  BY <1>1, <1>2 DEF Inv, MutualExclusion, Holds
<1>7. ListInv'
  BY <1>1, <1>2, <1>3, <1>4 DEF Inv, ListInv
<1> QED
  BY <1>5, <1>6, <1>7 DEF Inv

\* Handing the lock to the first of a list of waiters that is nobody else's.
LEMMA HandOverInv ==
  ASSUME Inv, NEW c \in Coroutines, Holds(c), ~free,
         NEW waiters \in Seq(Coroutines), waiters # << >>,
         Distinct(waiters), HandOver(c, waiters),
         UNCHANGED <<free, reg>>, lifo' \in Seq(Coroutines), Distinct(lifo'),
         \A d \in Coroutines : pc[d] = "parked" <=>
           Contains(waiters, d) \/ Contains(lifo', d),
         \A d \in Coroutines : ~(Contains(waiters, d) /\ Contains(lifo', d))
  PROVE  Inv'
<1> DEFINE h == Head(waiters)
<1>1. /\ h \in Coroutines /\ fifo' \in Seq(Coroutines) /\ Distinct(fifo')
      /\ ~Contains(fifo', h)
      /\ \A d : Contains(waiters, d) <=> d = h \/ Contains(fifo', d)
  BY TailFacts DEF HandOver
<1>2. pc[h] = "parked" /\ pc[c] # "parked" /\ h # c
  BY <1>1 DEF Holds
<1>3. pc' = [pc EXCEPT ![c] = "out", ![h] = "held"]
  BY DEF HandOver
<1> HIDE DEF h
<1>4. /\ pc' \in [Coroutines -> Places]
      /\ pc'[c] = "out" /\ pc'[h] = "held"
      /\ \A d \in Coroutines \ {c, h} : pc'[d] = pc[d]
  BY <1>1, <1>2, <1>3 DEF Inv, TypeOK, Places
<1>5. TypeOK'
  BY <1>1, <1>4 DEF Inv, TypeOK, Places
<1>6. \A d \in Coroutines : Holds(d) => d = c
  BY DEF Inv, MutualExclusion
<1>7. \A d \in Coroutines : Holds(d)' <=> d = h
  BY <1>1, <1>2, <1>4, <1>6 DEF Holds
<1>8. MutualExclusion'
  BY <1>1, <1>7 DEF MutualExclusion
<1>9. ListInv'
  BY <1>1, <1>2, <1>4, <1>7 DEF ListInv, Holds
<1> QED
  BY <1>5, <1>8, <1>9 DEF Inv

\* The holder serves the waiters of an earlier round first.
LEMMA UnlockNextInv ==
  ASSUME Inv, NEW c \in Coroutines, UnlockNext(c)
  PROVE  Inv'
<1>1. /\ Holds(c) /\ ~free /\ fifo # << >> /\ HandOver(c, fifo)
      /\ UNCHANGED <<free, lifo, reg>>
  BY DEF UnlockNext, Holds
<1>2. /\ fifo \in Seq(Coroutines) /\ Distinct(fifo)
      /\ lifo' \in Seq(Coroutines) /\ Distinct(lifo')
      /\ \A d \in Coroutines : pc[d] = "parked" <=>
           Contains(fifo, d) \/ Contains(lifo', d)
      /\ \A d \in Coroutines : ~(Contains(fifo, d) /\ Contains(lifo', d))
  BY <1>1 DEF Inv, TypeOK, Places, ListInv
<1> QED
  BY <1>1, <1>2, HandOverInv

\* The holder turns the newcomers' list around.
LEMMA UnlockTakeInv ==
  ASSUME Inv, NEW c \in Coroutines, UnlockTake(c)
  PROVE  Inv'
<1> DEFINE r == Reverse(lifo)
<1>1. /\ Holds(c) /\ pc[c] = "take" /\ lifo # << >> /\ lifo' = << >>
      /\ HandOver(c, r) /\ UNCHANGED <<free, reg>>
  BY DEF UnlockTake, Holds
<1>2. ~free /\ fifo = << >>
  BY <1>1 DEF Inv, MutualExclusion, ListInv
<1>3. /\ r \in Seq(Coroutines) /\ r # << >> /\ Distinct(r)
      /\ \A d : Contains(r, d) <=> Contains(lifo, d)
  BY <1>1, ReverseFacts DEF Inv, TypeOK, Places, ListInv
<1> HIDE DEF r
<1>4. \A d \in Coroutines :
        /\ pc[d] = "parked" <=> Contains(r, d) \/ Contains(lifo', d)
        /\ ~(Contains(r, d) /\ Contains(lifo', d))
  BY <1>1, <1>2, <1>3, EmptyFacts DEF Inv, ListInv
<1>5. lifo' \in Seq(Coroutines) /\ Distinct(lifo')
  BY <1>1, EmptyFacts
<1> QED
  BY <1>1, <1>2, <1>3, <1>4, <1>5, HandOverInv

\* unlock() without waiters of an earlier round never finds the mutex free.
LEMMA UnlockInv ==
  ASSUME Inv, NEW c \in Coroutines, Unlock(c)
  PROVE  Inv'
<1>1. pc[c] = "held" /\ UNCHANGED <<free, lifo, fifo, reg>>
  BY DEF Unlock
<1>2. ~free /\ fifo = << >>
  BY <1>1 DEF Unlock, Inv, MutualExclusion, Holds
<1>3. /\ pc' \in [Coroutines -> Places]
      /\ pc'[c] \in {"unlock", "take"}
      /\ pc'[c] = "take" => lifo # << >>
      /\ \A d \in Coroutines \ {c} : pc'[d] = pc[d]
  BY <1>2, StateType DEF Unlock, Inv, TypeOK, Places, Goto
<1>4. TypeOK'
  BY <1>1, <1>3 DEF Inv, TypeOK, Places
<1>5. MutualExclusion'
  BY <1>1, <1>3 DEF Inv, MutualExclusion, Holds
<1>6. ListInv'
  BY <1>1, <1>2, <1>3 DEF Inv, ListInv
<1> QED
  BY <1>4, <1>5, <1>6 DEF Inv

\* The compare-exchange of unlock() either frees a mutex without waiters or
\* has seen a newcomer.
LEMMA UnlockCASInv ==
  ASSUME Inv, NEW c \in Coroutines, UnlockCAS(c)
  PROVE  Inv'
<1>1. /\ pc[c] = "unlock" /\ UNCHANGED <<lifo, fifo, reg>>
      /\ ~free /\ fifo = << >> /\ Holds(c)
  BY DEF UnlockCAS, Inv, ListInv, MutualExclusion, Holds
<1>2. CASE lifo = << >>
  <2>1. /\ free' = TRUE /\ pc'[c] = "out"
        /\ pc' \in [Coroutines -> Places]
        /\ \A d \in Coroutines \ {c} : pc'[d] = pc[d]
    BY <1>1, <1>2, StateType DEF UnlockCAS, Inv, TypeOK, Places, Goto
  <2>2. TypeOK'
    BY <1>1, <2>1 DEF Inv, TypeOK, Places
  <2>3. MutualExclusion'
    BY <1>1, <2>1 DEF Inv, MutualExclusion, Holds
  <2>4. ListInv'
    BY <1>1, <1>2, <2>1 DEF Inv, ListInv
  <2> QED
    BY <2>2, <2>3, <2>4 DEF Inv
<1>3. CASE lifo # << >>
  <2>1. /\ free' = free /\ pc'[c] = "take"
        /\ pc' \in [Coroutines -> Places]
        /\ \A d \in Coroutines \ {c} : pc'[d] = pc[d]
    BY <1>1, <1>3, StateType DEF UnlockCAS, Inv, TypeOK, Places, Goto
  <2>2. TypeOK'
    BY <1>1, <2>1 DEF Inv, TypeOK, Places
  <2>3. MutualExclusion'
    BY <1>1, <2>1 DEF Inv, MutualExclusion, Holds
  <2>4. ListInv'
    BY <1>1, <1>3, <2>1 DEF Inv, ListInv
  <2> QED
    BY <2>2, <2>3, <2>4 DEF Inv
<1> QED
  BY <1>2, <1>3

\* Every step of lock() and unlock() preserves the invariant.
LEMMA NextInv == Inv /\ [Next]_vars => Inv'
<1> SUFFICES ASSUME Inv, [Next]_vars PROVE Inv'
  OBVIOUS
<1>1. CASE UNCHANGED vars
  BY <1>1 DEF vars, Inv, TypeOK, Places, MutualExclusion, Holds, ListInv
<1>2. ASSUME NEW c \in Coroutines, Lock(c) PROVE Inv'
  <2>1. reg' \in [Coroutines -> Pointers]
    BY <1>2, StateType DEF Lock, Load, Inv, TypeOK, Places
  <2> QED
    BY <1>2, <2>1, QuietStep DEF Lock
<1>3. ASSUME NEW c \in Coroutines, LockRetry(c) PROVE Inv'
  <2>1. reg' \in [Coroutines -> Pointers]
    BY <1>3, StateType DEF LockRetry, Load, Inv, TypeOK, Places
  <2>2. pc[c] = "lock" /\ Goto(c, "lock") /\ UNCHANGED <<free, lifo, fifo>>
    BY <1>3 DEF LockRetry, Goto, Inv, TypeOK, Places
  <2> QED
    BY <2>1, <2>2, QuietStep
<1> QED
  BY <1>1, <1>2, <1>3, LockFreeInv, LockWaitInv, UnlockNextInv, UnlockInv,
     UnlockCASInv, UnlockTakeInv
  DEF Next, LockStep, UnlockStep

\* The lists, the exclusion and the types hold in every reachable state.
LEMMA InvAlways == Spec => []Inv
BY InitInv, NextInv, PTL DEF Spec

\* Types, and with them that unlock() by a holder never finds the mutex
\* unlocked, where it would terminate the program.
THEOREM TypeCorrect == Spec => []TypeOK
BY InvAlways, PTL DEF Inv

\* One coroutine at a time is between a lock() that returned and the end of
\* its unlock(), and _state says "unlocked" exactly when there is none.
THEOREM MutualExclusionAlways == Spec => []MutualExclusion
BY InvAlways, PTL DEF Inv

\* No suspended coroutine is forgotten, none is listed twice, and unlock()
\* never takes an empty list.
THEOREM WaitersAreListedAlways == Spec => []WaitersAreListed
BY InvAlways, InvListsWaiters, PTL

-----------------------------------------------------------------------------
(* The mutex implements FifoLock.                                          *)

\* The lists with a newcomer are the queue with the newcomer at its end.
LEMMA NewcomerIsLast ==
  ASSUME NEW f \in Seq(Coroutines), NEW s \in Seq(Coroutines),
         NEW c \in Coroutines
  PROVE  f \o Reverse(<<c>> \o s) = Append(f \o Reverse(s), c)
<1> DEFINE t == <<c>> \o s
           r == Reverse(s)
           n == Len(s)
<1>1. /\ t \in Seq(Coroutines) /\ Len(t) = n + 1 /\ n \in Nat
      /\ t[1] = c /\ \A i \in 1 .. n : t[i + 1] = s[i]
  OBVIOUS
<1>2. r \in Seq(Coroutines) /\ Reverse(t) \in Seq(Coroutines)
  BY <1>1, ReverseFacts
<1>3. r = [i \in 1 .. n |-> s[(n - i) + 1]] /\ Len(r) = n
  BY <1>1 DEF Reverse
<1> HIDE DEF t
<1>4. /\ Reverse(t) = [i \in 1 .. n + 1 |-> t[(n + 1 - i) + 1]]
      /\ Len(Reverse(t)) = n + 1
  BY <1>1 DEF Reverse
<1>5. Append(r, c) \in Seq(Coroutines) /\ Len(Append(r, c)) = n + 1
  BY <1>1, <1>2, <1>3
<1>6. ASSUME NEW i \in 1 .. n + 1 PROVE Reverse(t)[i] = Append(r, c)[i]
  <2>1. CASE i = n + 1
    BY <1>1, <1>2, <1>3, <1>4, <2>1
  <2>2. CASE i # n + 1
    <3>1. i \in 1 .. n /\ (n + 1 - i) + 1 = ((n - i) + 1) + 1
          /\ (n - i) + 1 \in 1 .. n
      BY <1>1, <2>2
    <3>2. Reverse(t)[i] = s[(n - i) + 1]
      BY <1>1, <1>4, <3>1
    <3>3. Append(r, c)[i] = r[i]
      BY <1>2, <1>3, <3>1
    <3> QED
      BY <1>3, <3>1, <3>2, <3>3
  <2> QED
    BY <2>1, <2>2
<1> HIDE DEF r, n
<1>7. Reverse(t) = Append(r, c)
  BY <1>2, <1>4, <1>5, <1>6, SeqEqual
<1>8. f \o Append(r, c) = Append(f \o r, c)
  BY <1>2
<1> QED
  BY <1>7, <1>8 DEF t, r

\* Taking the first of two lists takes the first of the queue.
LEMMA FirstIsFirst ==
  ASSUME NEW f \in Seq(Coroutines), NEW s \in Seq(Coroutines), f # << >>
  PROVE  /\ f \o s # << >> /\ Head(f \o s) = Head(f)
         /\ Tail(f \o s) = Tail(f) \o s
OBVIOUS

HolderIsRight ==
  /\ \A c \in Coroutines : Holds(c) => Holder = c
  /\ free => Holder = Null

\* Holder is the coroutine that holds the lock, if one does.
LEMMA HolderFacts == MutualExclusion => HolderIsRight
<1> SUFFICES ASSUME MutualExclusion PROVE HolderIsRight
  OBVIOUS
<1>1. ASSUME NEW c \in Coroutines, Holds(c) PROVE Holder = c
  <2> DEFINE h == CHOOSE d \in Coroutines : Holds(d)
  <2>1. h \in Coroutines /\ Holds(h) /\ Holder = h
    BY <1>1 DEF Holder
  <2> HIDE DEF h
  <2> QED
    BY <1>1, <2>1 DEF MutualExclusion
<1>2. (\A c \in Coroutines : ~Holds(c)) => Holder = Null
  BY DEF Holder
<1> QED
  BY <1>1, <1>2 DEF MutualExclusion, HolderIsRight

\* The same after a step.
LEMMA HolderFactsNext == MutualExclusion' => HolderIsRight'
BY HolderFacts, PTL

\* What Inv says of the holder and the queue of FifoLock.
LEMMA Mapped ==
  ASSUME Inv
  PROVE  /\ fifo \in Seq(Coroutines) /\ lifo \in Seq(Coroutines)
         /\ Waiters = fifo \o Reverse(lifo) /\ Waiters \in Seq(Coroutines)
         /\ \A d : Fifo!Waiting(d) <=> Contains(fifo, d) \/ Contains(lifo, d)
         /\ fifo = << >> /\ lifo = << >> => Waiters = << >>
<1> DEFINE r == Reverse(lifo)
<1>1. /\ fifo \in Seq(Coroutines) /\ lifo \in Seq(Coroutines)
      /\ Waiters = fifo \o r
  BY DEF Inv, TypeOK, Waiters
<1>2. /\ r \in Seq(Coroutines) /\ (lifo = << >> => r = << >>)
      /\ \A d : Contains(r, d) <=> Contains(lifo, d)
  BY <1>1, ReverseFacts
<1> HIDE DEF r
<1>3. /\ Waiters \in Seq(Coroutines)
      /\ fifo = << >> /\ r = << >> => Waiters = << >>
      /\ \A d : Contains(Waiters, d) <=> Contains(fifo, d) \/ Contains(r, d)
  BY <1>1, <1>2, ConcatFacts
<1>4. \A d : Fifo!Waiting(d) <=> Contains(Waiters, d)
  BY <1>3, LenProperties DEF Fifo!Waiting, Contains
<1> QED
  BY <1>1, <1>2, <1>3, <1>4 DEF r

\* A step that leaves lists and holders alone is a stutter.
LEMMA QuietMaps ==
  ASSUME UNCHANGED <<lifo, fifo>>,
         \A d \in Coroutines : Holds(d)' <=> Holds(d)
  PROVE  UNCHANGED <<Holder, Waiters>>
<1>1. Waiters' = Waiters
  BY DEF Waiters
<1>2. Holder' = Holder
  BY DEF Holder
<1> QED
  BY <1>1, <1>2

\* A successful compare-exchange from unlocked is Acquire.
LEMMA LockFreeMaps ==
  ASSUME Inv, Inv', NEW c \in Coroutines, LockFree(c)
  PROVE  Fifo!Acquire(c)
<1>1. free /\ UNCHANGED <<lifo, fifo>>
  BY StateType DEF LockFree, Inv
<1>2. Holds(c)'
  BY DEF LockFree, Goto, Holds, Inv, TypeOK
<1>3. Holder = Null /\ Holder' = c
  BY <1>1, <1>2, HolderFacts, HolderFactsNext DEF Inv, HolderIsRight
<1>4. Waiters = << >> /\ Waiters' = Waiters
  BY <1>1, Mapped DEF Inv, ListInv, Waiters
<1> QED
  BY <1>3, <1>4 DEF Fifo!Acquire

\* Becoming the head of the newcomers is Enqueue.
LEMMA LockWaitMaps ==
  ASSUME Inv, Inv', NEW c \in Coroutines, LockWait(c)
  PROVE  Fifo!Enqueue(c)
<1>1. /\ ~free /\ pc[c] = "lock" /\ lifo' = <<c>> \o lifo /\ fifo' = fifo
  BY StateType DEF LockWait, Inv
<1>2. \A d \in Coroutines : Holds(d)' <=> Holds(d)
  BY DEF LockWait, Goto, Holds, Inv, TypeOK
<1>3. PICK h \in Coroutines : Holds(h)
  BY <1>1 DEF Inv, MutualExclusion
<1>4. Holder = h /\ Holder' = h
  BY <1>2, <1>3, HolderFacts, HolderFactsNext DEF Inv, HolderIsRight
<1>5. h # c /\ h # Null
  BY <1>1, <1>3, PointerAssumption DEF Holds
<1>6. ~Fifo!Waiting(c)
  BY <1>1, Mapped DEF Inv, ListInv
<1>7. Waiters' = Append(Waiters, c)
  BY <1>1, Mapped, NewcomerIsLast DEF Waiters
<1> QED
  BY <1>4, <1>5, <1>6, <1>7 DEF Fifo!Enqueue

\* Handing over to the first waiter is Release.
LEMMA HandOverMaps ==
  ASSUME Inv, Inv', NEW c \in Coroutines, Holds(c),
         Waiters # << >>, Head(Waiters) \in Coroutines,
         pc'[Head(Waiters)] = "held", Waiters' = Tail(Waiters)
  PROVE  Fifo!Release
<1>1. Holder = c /\ c # Null
  BY HolderFacts, PointerAssumption DEF Inv, HolderIsRight
<1>2. \A h \in Coroutines : pc'[h] = "held" => Holds(h)'
  BY DEF Holds
<1>3. Holder' = Head(Waiters)
  BY <1>2, HolderFactsNext DEF Inv, HolderIsRight
<1> QED
  BY <1>1, <1>3 DEF Fifo!Release

\* unlock() with waiters of an earlier round is Release.
LEMMA UnlockNextMaps ==
  ASSUME Inv, Inv', NEW c \in Coroutines, UnlockNext(c)
  PROVE  Fifo!Release
<1>1. /\ Holds(c) /\ fifo # << >> /\ lifo' = lifo /\ fifo' = Tail(fifo)
      /\ pc' = [pc EXCEPT ![c] = "out", ![Head(fifo)] = "held"]
  BY DEF UnlockNext, HandOver, Holds
<1>2. /\ fifo \in Seq(Coroutines) /\ Reverse(lifo) \in Seq(Coroutines)
      /\ Waiters = fifo \o Reverse(lifo)
  BY Mapped, ReverseFacts
<1>3. /\ Waiters # << >> /\ Head(Waiters) = Head(fifo)
      /\ Waiters' = Tail(Waiters)
  BY <1>1, <1>2, FirstIsFirst DEF Waiters
<1>4. Head(fifo) \in Coroutines
  BY <1>1, <1>2, TailFacts
<1>5. pc'[Head(fifo)] = "held"
  BY <1>1, <1>4 DEF Inv, TypeOK
<1> QED
  BY <1>1, <1>3, <1>4, <1>5, HandOverMaps

\* unlock() that turns the newcomers' list around is Release.
LEMMA UnlockTakeMaps ==
  ASSUME Inv, Inv', NEW c \in Coroutines, UnlockTake(c)
  PROVE  Fifo!Release
<1> DEFINE r == Reverse(lifo)
<1>1. /\ pc[c] = "take" /\ Holds(c) /\ lifo # << >> /\ lifo' = << >>
      /\ pc' = [pc EXCEPT ![c] = "out", ![Head(r)] = "held"]
      /\ fifo' = Tail(r)
  BY DEF UnlockTake, HandOver, Holds
<1>2. fifo = << >>
  BY <1>1 DEF Inv, ListInv
<1>3. /\ r \in Seq(Coroutines) /\ r # << >>
      /\ Waiters = << >> \o r /\ Waiters' = fifo' \o Reverse(lifo')
  BY <1>1, <1>2, Mapped, ReverseFacts DEF Waiters
<1>4. Reverse(lifo') = << >>
  BY <1>1, ReverseFacts, EmptyFacts
<1>5. Tail(r) \in Seq(Coroutines) /\ Head(r) \in Coroutines
  BY <1>3, TailFacts
<1> HIDE DEF r
<1>6. Waiters = r /\ Waiters' = Tail(r)
  BY <1>1, <1>3, <1>4, <1>5, ConcatEmptySeq
<1>7. pc'[Head(r)] = "held"
  BY <1>1, <1>5 DEF Inv, TypeOK
<1> QED
  BY <1>1, <1>3, <1>5, <1>6, <1>7, HandOverMaps

\* unlock()'s compare-exchange is Release if it succeeds, else a stutter.
LEMMA UnlockCASMaps ==
  ASSUME Inv, Inv', NEW c \in Coroutines, UnlockCAS(c)
  PROVE  Fifo!Release \/ UNCHANGED <<Holder, Waiters>>
<1>1. /\ pc[c] = "unlock" /\ Holds(c) /\ UNCHANGED <<lifo, fifo>>
  BY DEF UnlockCAS, Holds
<1>2. CASE free'
  <2>1. Waiters = << >> /\ Waiters' = Waiters
    BY <1>1, <1>2, Mapped DEF Inv, ListInv, Waiters
  <2>2. Holder = c /\ c # Null /\ Holder' = Null
    BY <1>1, <1>2, HolderFacts, HolderFactsNext, PointerAssumption
       DEF Inv, HolderIsRight
  <2> QED
    BY <2>1, <2>2 DEF Fifo!Release
<1>3. CASE ~free'
  <2>1. pc' = [pc EXCEPT ![c] = "take"]
    BY <1>3 DEF UnlockCAS, Goto
  <2>2. \A d \in Coroutines : Holds(d)' <=> Holds(d)
    BY <1>1, <2>1 DEF Holds, Inv, TypeOK
  <2> QED
    BY <1>1, <2>2, QuietMaps
<1> QED
  BY <1>2, <1>3

\* Every step of the mutex is a step of FifoLock or a stutter.
LEMMA NextMaps ==
  ASSUME Inv, Inv', [Next]_vars
  PROVE  [Fifo!Next]_<<Holder, Waiters>>
<1>1. CASE UNCHANGED vars
  BY <1>1, QuietMaps DEF vars, Holds
<1>2. ASSUME NEW c \in Coroutines, Lock(c) \/ LockRetry(c) \/ Unlock(c)
      PROVE  UNCHANGED <<Holder, Waiters>>
  <2>1. UNCHANGED <<lifo, fifo>>
    BY <1>2 DEF Lock, LockRetry, Unlock
  <2>2. \A d \in Coroutines : Holds(d)' <=> Holds(d)
    <3>1. CASE Lock(c)
      BY <3>1 DEF Lock, Goto, Holds, Inv, TypeOK
    <3>2. CASE LockRetry(c)
      BY <3>2 DEF LockRetry, Holds
    <3>3. CASE Unlock(c)
      <4>1. ~free
        BY <3>3 DEF Unlock, Inv, MutualExclusion, Holds
      <4> QED
        BY <3>3, <4>1 DEF Unlock, Goto, Holds, Inv, TypeOK
    <3> QED
      BY <1>2, <3>1, <3>2, <3>3
  <2> QED
    BY <2>1, <2>2, QuietMaps
<1> QED
  BY <1>1, <1>2, LockFreeMaps, LockWaitMaps, UnlockNextMaps, UnlockTakeMaps,
     UnlockCASMaps
  DEF Next, LockStep, UnlockStep, Fifo!Next

\* At first nobody has the lock or waits for it.
LEMMA InitMaps == Init => Fifo!Init
<1> SUFFICES ASSUME Init PROVE Fifo!Init
  OBVIOUS
<1>1. Inv
  BY InitInv
<1>2. Holder = Null
  BY <1>1, HolderFacts DEF Inv, Init, HolderIsRight
<1>3. Waiters = << >>
  BY <1>1, Mapped DEF Init
<1> QED
  BY <1>2, <1>3 DEF Fifo!Init

\* The mutex is a FIFO lock: whoever gets it either found it free with nobody
\* waiting or was handed it as the one that had waited longest.
THEOREM ImplementsFifoLock == Spec => Fifo!Init /\ [][Fifo!Next]_Fifo!vars
<1>1. Init => Fifo!Init
  BY InitMaps
<1>2. Inv /\ Inv' /\ [Next]_vars => [Fifo!Next]_Fifo!vars
  BY NextMaps DEF Fifo!vars
<1> QED
  BY <1>1, <1>2, InvAlways, PTL DEF Spec

-----------------------------------------------------------------------------
(* Sequences.                                                              *)

Members(s) == {s[i] : i \in DOMAIN s}

\* How often v occurs in s.
Times(s, v) == Cardinality({i \in DOMAIN s : s[i] = v})

\* A list with a new first node.
LEMMA ListCons ==
  ASSUME NEW S, NEW s \in Seq(S), NEW c \in S
  PROVE  /\ <<c>> \o s \in Seq(S) /\ Len(<<c>> \o s) = Len(s) + 1
         /\ (<<c>> \o s)[1] = c
         /\ \A i \in 2 .. Len(s) + 1 : (<<c>> \o s)[i] = s[i - 1]
OBVIOUS

\* A list without its first node.
LEMMA ListTail ==
  ASSUME NEW S, NEW s \in Seq(S), s # << >>
  PROVE  /\ Tail(s) \in Seq(S) /\ Len(Tail(s)) = Len(s) - 1 /\ Len(s) \in Nat \ {0}
         /\ Head(s) = s[1] /\ Head(s) \in S
         /\ \A i \in 1 .. Len(s) - 1 : Tail(s)[i] = s[i + 1]
BY HeadTailProperties, EmptySeq

\* Who is in the rest of a list was in the list, and no longer at its head
\* when the list repeats nobody.
LEMMA TailMembers ==
  ASSUME NEW S, NEW s \in Seq(S), s # << >>
  PROVE  /\ Contains(s, Head(s))
         /\ \A d : Contains(Tail(s), d) => Contains(s, d)
         /\ Distinct(s) => Distinct(Tail(s)) /\ ~Contains(Tail(s), Head(s))
<1> DEFINE t == Tail(s)
           h == Head(s)
<1>1. /\ t \in Seq(S) /\ Len(t) = Len(s) - 1 /\ Len(s) \in Nat \ {0}
      /\ h = s[1] /\ \A i \in 1 .. Len(s) - 1 : t[i] = s[i + 1]
  BY ListTail
<1>2. /\ DOMAIN s = 1 .. Len(s) /\ DOMAIN t = 1 .. Len(t)
  BY <1>1
<1> HIDE DEF t, h
<1>3. Contains(s, h)
  BY <1>1 DEF Contains
<1>4. \A d : Contains(t, d) => Contains(s, d)
  BY <1>1 DEF Contains
<1>5. Distinct(s) => Distinct(t) /\ ~Contains(t, h)
  BY <1>1, <1>2 DEF Distinct, Contains
<1> QED
  BY <1>3, <1>4, <1>5 DEF t, h

\* A list with a new last node.
LEMMA AppendMembers ==
  ASSUME NEW S, NEW s \in Seq(S), NEW c \in S
  PROVE  /\ Append(s, c) \in Seq(S) /\ Append(s, c) # << >>
         /\ \A d : Contains(Append(s, c), d) <=> Contains(s, d) \/ d = c
         /\ Distinct(s) /\ ~Contains(s, c) => Distinct(Append(s, c))
<1> DEFINE t == Append(s, c)
<1>1. /\ t \in Seq(S) /\ Len(t) = Len(s) + 1 /\ Len(s) \in Nat
      /\ t[Len(s) + 1] = c /\ \A i \in 1 .. Len(s) : t[i] = s[i]
  BY AppendProperties
<1>2. t # << >>
  BY <1>1
<1>3. /\ DOMAIN s = 1 .. Len(s) /\ DOMAIN t = 1 .. Len(t)
  BY <1>1
<1> HIDE DEF t
<1>4. \A d : Contains(t, d) <=> Contains(s, d) \/ d = c
  BY <1>1 DEF Contains
<1>5. Distinct(s) /\ ~Contains(s, c) => Distinct(t)
  BY <1>1, <1>3 DEF Distinct, Contains
<1> QED
  BY <1>1, <1>2, <1>4, <1>5 DEF t

\* Nobody is in the empty list, and somebody in every other.
LEMMA EmptyList ==
  /\ \A d : ~Contains(<< >>, d)
  /\ Distinct(<< >>)
  /\ \A S : \A s \in Seq(S) : s # << >> => Contains(s, Head(s))
<1>1. (\A d : ~Contains(<< >>, d)) /\ Distinct(<< >>)
  BY DEF Contains, Distinct
<1>2. ASSUME NEW S, NEW s \in Seq(S), s # << >>
      PROVE  Contains(s, Head(s))
  BY <1>2, TailMembers
<1> QED
  BY <1>1, <1>2

-----------------------------------------------------------------------------
(* How often a value occurs.                                               *)

\* A set of numbers shifted by one has as many of them.
LEMMA Shifted ==
  ASSUME NEW I, IsFiniteSet(I), I \subseteq Nat
  PROVE  /\ IsFiniteSet({i + 1 : i \in I})
         /\ Cardinality({i + 1 : i \in I}) = Cardinality(I)
<1> DEFINE J == {i + 1 : i \in I}
           f == [i \in I |-> i + 1]
<1>1. f \in [I -> J]
  OBVIOUS
<1>2. \A i, j \in I : f[i] = f[j] => i = j
  OBVIOUS
<1>3. \A j \in J : \E i \in I : f[i] = j
  OBVIOUS
<1>4. f \in Bijection(I, J)
  <2> HIDE DEF f, J
  <2> QED
    BY <1>1, <1>2, <1>3 DEF Bijection, Injection, Surjection, IsInjective
<1> HIDE DEF f, J
<1>5. ExistsBijection(I, J)
  BY <1>4 DEF ExistsBijection
<1>6. IsFiniteSet(J) /\ Cardinality(J) = Cardinality(I)
  BY <1>5, FS_Bijection
<1> QED
  BY <1>6 DEF J

\* The positions of a value in a sequence are finitely many.
LEMMA TimesType ==
  ASSUME NEW S, NEW s \in Seq(S), NEW v
  PROVE  IsFiniteSet({i \in DOMAIN s : s[i] = v}) /\ Times(s, v) \in Nat
<1>1. IsFiniteSet(1 .. Len(s)) /\ DOMAIN s = 1 .. Len(s)
  BY FS_Interval
<1>2. IsFiniteSet({i \in DOMAIN s : s[i] = v})
  BY <1>1, FS_Subset
<1> QED
  BY <1>2, FS_CardinalityType DEF Times

\* A value appended occurs once more.
LEMMA TimesAppend ==
  ASSUME NEW S, NEW s \in Seq(S), NEW c \in S, NEW v
  PROVE  Times(Append(s, c), v) = Times(s, v) + (IF v = c THEN 1 ELSE 0)
<1> DEFINE t == Append(s, c)
           I == {i \in DOMAIN s : s[i] = v}
           J == {i \in DOMAIN t : t[i] = v}
           n == Len(s) + 1
<1>1. /\ t \in Seq(S) /\ Len(t) = n /\ n \in Nat
      /\ t[n] = c /\ \A i \in 1 .. Len(s) : t[i] = s[i]
  BY AppendProperties
<1>2. DOMAIN s = 1 .. Len(s) /\ DOMAIN t = 1 .. n /\ Len(s) \in Nat
  BY <1>1
<1> HIDE DEF t
<1>3. J = IF v = c THEN I \cup {n} ELSE I
  BY <1>1, <1>2
<1>4. n \notin I /\ IsFiniteSet(I) /\ Cardinality(I) \in Nat
  <2>1. n \notin I
    BY <1>2
  <2>2. IsFiniteSet(I) /\ Times(s, v) \in Nat
    BY TimesType
  <2> QED
    BY <2>1, <2>2 DEF Times
<1> HIDE DEF I, J, n
<1>5. v = c => Cardinality(J) = Cardinality(I) + 1
  BY <1>3, <1>4, FS_AddElement
<1>6. Times(s, v) = Cardinality(I) /\ Times(t, v) = Cardinality(J)
  BY DEF Times, I, J
<1> QED
  BY <1>3, <1>4, <1>5, <1>6 DEF t

\* The first value of a sequence occurs once less in the rest.
LEMMA TimesTail ==
  ASSUME NEW S, NEW s \in Seq(S), s # << >>, NEW v
  PROVE  Times(s, v) = Times(Tail(s), v) + (IF v = Head(s) THEN 1 ELSE 0)
<1> DEFINE t == Tail(s)
           h == Head(s)
           I == {i \in DOMAIN t : t[i] = v}
           J == {i \in DOMAIN s : s[i] = v}
           K == {i + 1 : i \in I}
<1>1. /\ t \in Seq(S) /\ Len(t) = Len(s) - 1 /\ Len(s) \in Nat \ {0}
      /\ h = s[1] /\ \A i \in 1 .. Len(s) - 1 : t[i] = s[i + 1]
  BY ListTail
<1>2. DOMAIN s = 1 .. Len(s) /\ DOMAIN t = 1 .. Len(s) - 1
  BY <1>1
<1> HIDE DEF t, h
<1>3. I \subseteq Nat \ {0} /\ IsFiniteSet(I) /\ Cardinality(I) \in Nat
  <2>1. I \subseteq Nat \ {0}
    BY <1>1, <1>2
  <2>2. IsFiniteSet(I) /\ Times(t, v) \in Nat
    BY <1>1, TimesType
  <2> QED
    BY <2>1, <2>2 DEF Times
<1>4. IsFiniteSet(K) /\ Cardinality(K) = Cardinality(I)
  <2> HIDE DEF I
  <2>1. I \subseteq Nat
    BY <1>3
  <2> QED
    BY <1>3, <2>1, Shifted
<1>5. J = IF v = h THEN K \cup {1} ELSE K
  <2>1. ASSUME NEW j \in J, j # 1 PROVE j \in K
    <3>1. j - 1 \in I /\ j = (j - 1) + 1
      BY <1>1, <1>2, <2>1
    <3> QED
      BY <3>1
  <2>2. \A k \in K : k \in J
    BY <1>1, <1>2
  <2>3. 1 \in J <=> v = h
    BY <1>1, <1>2
  <2> HIDE DEF J, K
  <2> QED
    BY <2>1, <2>2, <2>3
<1>6. 1 \notin K
  BY <1>3
<1> HIDE DEF I, J, K
<1>7. v = h => Cardinality(J) = Cardinality(K) + 1
  BY <1>4, <1>5, <1>6, FS_AddElement
<1>8. Times(s, v) = Cardinality(J) /\ Times(t, v) = Cardinality(I)
  BY DEF Times, I, J
<1> QED
  BY <1>3, <1>4, <1>5, <1>7, <1>8 DEF t, h

\* A value in a sequence occurs at least once, another one never.
LEMMA TimesNone ==
  ASSUME NEW S, NEW s \in Seq(S), NEW v, v \notin S
  PROVE  Times(s, v) = 0
<1>1. {i \in DOMAIN s : s[i] = v} = {}
  BY ElementOfSeq
<1> QED
  BY <1>1, FS_EmptySet DEF Times

-----------------------------------------------------------------------------
(* The ring buffer.                                                        *)

Sendable == Users \X (1 .. MaxSends)

Cell(r, i) == r.data[(r.start + i - 1) % r.slots]

RingOK(r) ==
  /\ r \in [start : 0 .. Capacity, end : 0 .. Capacity, slots : {Capacity + 1},
            data : [0 .. Capacity -> Sendable \cup {Null}]]
  /\ \A i \in 1 .. Size(r) : Cell(r, i) \in Sendable

\* Indices are taken modulo the slots.
LEMMA Wrapped ==
  ASSUME NEW n \in Nat \ {0}, NEW a \in 0 .. 2 * n - 1
  PROVE  a % n = (IF a < n THEN a ELSE a - n)
OBVIOUS

\* ... as in safety_push and safety_pop, in size, and in Cell.
LEMMA WrapFacts ==
  ASSUME NEW n \in Nat \ {0}, NEW s \in 0 .. n - 1
  PROVE  /\ (s + 1) % n = (IF s + 1 < n THEN s + 1 ELSE 0)
         /\ \A e \in 0 .. n - 1 :
              (e - s + n) % n = (IF s <= e THEN e - s ELSE e - s + n)
         /\ \A i \in 1 .. n :
              (s + i - 1) % n = (IF s + i - 1 < n THEN s + i - 1 ELSE s + i - 1 - n)
<1>1. (s + 1) % n = (IF s + 1 < n THEN s + 1 ELSE 0)
  <2> DEFINE x == s + 1
  <2>1. x \in 0 .. 2 * n - 1 /\ x = s + 1
    OBVIOUS
  <2> HIDE DEF x
  <2>2. x % n = IF x < n THEN x ELSE x - n
    BY <2>1, Wrapped
  <2>3. x % n = IF x < n THEN x ELSE 0
    BY <2>1, <2>2
  <2> QED
    BY <2>3 DEF x
<1>2. ASSUME NEW e \in 0 .. n - 1
      PROVE  (e - s + n) % n = (IF s <= e THEN e - s ELSE e - s + n)
  <2> DEFINE x == e - s + n
  <2>1. x \in 0 .. 2 * n - 1 /\ x = e - s + n
    OBVIOUS
  <2> HIDE DEF x
  <2>2. x % n = IF x < n THEN x ELSE x - n
    BY <2>1, Wrapped
  <2>3. x % n = IF s <= e THEN e - s ELSE e - s + n
    BY <2>1, <2>2
  <2> QED
    BY <2>3 DEF x
<1>3. ASSUME NEW i \in 1 .. n
      PROVE  (s + i - 1) % n = (IF s + i - 1 < n THEN s + i - 1 ELSE s + i - 1 - n)
  <2> DEFINE x == s + i - 1
  <2>1. x \in 0 .. 2 * n - 1
    OBVIOUS
  <2> HIDE DEF x
  <2>2. x % n = IF x < n THEN x ELSE x - n
    BY <2>1, Wrapped
  <2> QED
    BY <2>2 DEF x
<1> QED
  BY <1>1, <1>2, <1>3

\* Where a ring's values are, without the modulus.
LEMMA RingFacts ==
  ASSUME NEW r, RingOK(r)
  PROVE  /\ r.start \in 0 .. Capacity /\ r.end \in 0 .. Capacity
         /\ r.slots = Capacity + 1 /\ r.data \in [0 .. Capacity -> Sendable \cup {Null}]
         /\ Size(r) = (IF r.start <= r.end THEN r.end - r.start
                       ELSE r.end - r.start + r.slots)
         /\ Size(r) \in 0 .. Capacity
         /\ IsEmpty(r) <=> Size(r) = 0
         /\ IsFill(r) <=> Size(r) = Capacity
         /\ \A i \in 1 .. Capacity + 1 :
              Cell(r, i) = r.data[IF r.start + i - 1 < r.slots THEN r.start + i - 1
                                  ELSE r.start + i - 1 - r.slots]
<1> DEFINE n == r.slots
           st == r.start
           en == r.end
<1>1. /\ st \in 0 .. n - 1 /\ en \in 0 .. n - 1 /\ n = Capacity + 1
      /\ r.data \in [0 .. Capacity -> Sendable \cup {Null}]
      /\ n \in Nat \ {0} /\ Capacity \in Nat
  BY ChannelAssumption DEF RingOK
<1> HIDE DEF n, st, en
<1>2. /\ (en + 1) % n = (IF en + 1 < n THEN en + 1 ELSE 0)
      /\ (en - st + n) % n = (IF st <= en THEN en - st ELSE en - st + n)
      /\ \A i \in 1 .. n :
           (st + i - 1) % n = (IF st + i - 1 < n THEN st + i - 1 ELSE st + i - 1 - n)
  BY <1>1, WrapFacts
<1>3. Size(r) = (en - st + n) % n
  BY DEF Size, st, en, n
<1>4. IsEmpty(r) <=> st = en
  BY DEF IsEmpty, st, en
<1>5. IsFill(r) <=> (en + 1) % n = st
  BY DEF IsFill, st, en, n
<1>6. \A i \in 1 .. n : Cell(r, i) = r.data[(st + i - 1) % n]
  BY DEF Cell, st, n
<1>7. Size(r) = IF st <= en THEN en - st ELSE en - st + n
  BY <1>2, <1>3
<1>8. Size(r) \in 0 .. Capacity /\ (IsEmpty(r) <=> Size(r) = 0)
  BY <1>1, <1>4, <1>7
<1>9. IsFill(r) <=> Size(r) = Capacity
  BY <1>1, <1>2, <1>5, <1>7
<1>10. \A i \in 1 .. Capacity + 1 :
         Cell(r, i) = r.data[IF st + i - 1 < n THEN st + i - 1 ELSE st + i - 1 - n]
  BY <1>1, <1>2, <1>6
<1>11. st \in 0 .. Capacity /\ en \in 0 .. Capacity
  BY <1>1
<1> QED
  BY <1>1, <1>7, <1>8, <1>9, <1>10, <1>11 DEF n, st, en

\* What is buffered is a sequence, empty when IsEmpty says so.
LEMMA BufferedFacts ==
  ASSUME NEW r, RingOK(r)
  PROVE  /\ Buffered(r) \in Seq(Sendable) /\ Len(Buffered(r)) = Size(r)
         /\ \A i \in 1 .. Size(r) : Buffered(r)[i] = Cell(r, i)
         /\ IsEmpty(r) <=> Buffered(r) = << >>
<1>1. Size(r) \in Nat /\ (IsEmpty(r) <=> Size(r) = 0)
  BY RingFacts, ChannelAssumption
<1>2. Buffered(r) = [i \in 1 .. Size(r) |-> Cell(r, i)]
  BY DEF Buffered, Cell
<1>3. \A i \in 1 .. Size(r) : Cell(r, i) \in Sendable
  BY DEF RingOK
<1> DEFINE b == [i \in 1 .. Size(r) |-> Cell(r, i)]
           k == Size(r)
<1>4. b \in [1 .. k -> Sendable] /\ \A i \in 1 .. k : b[i] = Cell(r, i)
  BY <1>3
<1> HIDE DEF b, k
<1>5. b \in Seq(Sendable) /\ Len(b) = k
  BY <1>1, <1>4 DEF k
<1>6. b = << >> <=> k = 0
  BY <1>5
<1> QED
  BY <1>1, <1>2, <1>4, <1>5, <1>6 DEF b, k

\* safety_push of a ring with room appends, and overwrites nothing.
LEMMA PushFacts ==
  ASSUME NEW r, RingOK(r), ~IsFill(r), NEW v \in Sendable
  PROVE  /\ RingOK(SafetyPush(r, v))
         /\ Buffered(SafetyPush(r, v)) = Append(Buffered(r), v)
<1> DEFINE q == SafetyPush(r, v)
           n == r.slots
           st == r.start
           en == r.end
           k == Size(r)
           at(i) == IF st + i - 1 < n THEN st + i - 1 ELSE st + i - 1 - n
<1>1. /\ st \in 0 .. Capacity /\ en \in 0 .. Capacity /\ n = Capacity + 1
      /\ r.data \in [0 .. Capacity -> Sendable \cup {Null}]
      /\ k = IF st <= en THEN en - st ELSE en - st + n
      /\ k \in 0 .. Capacity /\ k # Capacity /\ Capacity \in Nat
      /\ \A i \in 1 .. Capacity + 1 : Cell(r, i) = r.data[at(i)]
  BY RingFacts, ChannelAssumption
<1>2. /\ (en + 1) % n = (IF en + 1 < n THEN en + 1 ELSE 0)
      /\ (en + 1) % n \in 0 .. Capacity
  <2> HIDE DEF n, st, en
  <2>1. n \in Nat \ {0} /\ en \in 0 .. n - 1
    BY <1>1
  <2>2. (en + 1) % n = (IF en + 1 < n THEN en + 1 ELSE 0)
    BY <2>1, WrapFacts
  <2> QED
    BY <1>1, <2>1, <2>2
<1>3. /\ q.start = st /\ q.slots = n /\ q.data = [r.data EXCEPT ![en] = v]
      /\ q.end = (en + 1) % n
      /\ q \in [start : 0 .. Capacity, end : 0 .. Capacity, slots : {Capacity + 1},
                data : [0 .. Capacity -> Sendable \cup {Null}]]
  <2>1. r \in [start : 0 .. Capacity, end : 0 .. Capacity, slots : {Capacity + 1},
               data : [0 .. Capacity -> Sendable \cup {Null}]]
    BY DEF RingOK
  <2> QED
    BY <1>1, <1>2, <2>1 DEF SafetyPush
<1> HIDE DEF q, n, st, en, k
<1>4. Size(q) = k + 1
  <2> DEFINE eq == q.end
  <2>1. n \in Nat \ {0} /\ st \in 0 .. n - 1 /\ eq \in 0 .. n - 1
    BY <1>1, <1>2, <1>3
  <2>2. Size(q) = (eq - st + n) % n
    BY <1>3 DEF Size
  <2> HIDE DEF eq
  <2>3. (eq - st + n) % n = IF st <= eq THEN eq - st ELSE eq - st + n
    BY <2>1, WrapFacts
  <2>4. eq = IF en + 1 < n THEN en + 1 ELSE 0
    BY <1>2, <1>3 DEF eq
  <2>5. Size(q) = IF st <= eq THEN eq - st ELSE eq - st + n
    BY <2>2, <2>3
  <2> QED
    BY <1>1, <2>1, <2>4, <2>5
<1>5. ASSUME NEW i \in 1 .. k + 1
      PROVE  Cell(q, i) = IF i = k + 1 THEN v ELSE Cell(r, i)
  <2>1. n \in Nat \ {0} /\ st \in 0 .. n - 1 /\ i \in 1 .. n
    BY <1>1
  <2>2. (st + i - 1) % n = at(i)
    BY <2>1, WrapFacts
  <2>3. at(i) \in 0 .. Capacity /\ (at(i) = en <=> i = k + 1)
    BY <1>1, <2>1
  <2>4. Cell(q, i) = [r.data EXCEPT ![en] = v][at(i)]
    BY <1>3, <2>2 DEF Cell
  <2>5. Cell(r, i) = r.data[at(i)]
    BY <1>1, <2>1
  <2> HIDE DEF at
  <2> QED
    BY <1>1, <2>3, <2>4, <2>5
<1>6. RingOK(q)
  <2>1. \A i \in 1 .. k : Cell(r, i) \in Sendable
    BY DEF RingOK, k
  <2> QED
    BY <1>1, <1>3, <1>4, <1>5, <2>1 DEF RingOK
<1> HIDE DEF at
<1> DEFINE a == Buffered(q)
           b == Buffered(r)
           c == Append(b, v)
<1>7. b \in Seq(Sendable) /\ Len(b) = k /\ \A i \in 1 .. k : b[i] = Cell(r, i)
  BY BufferedFacts DEF k
<1>8. /\ a \in Seq(Sendable) /\ Len(a) = k + 1
      /\ \A i \in 1 .. k + 1 : a[i] = Cell(q, i)
  BY <1>4, <1>6, BufferedFacts
<1> HIDE DEF a, b
<1>9. /\ c \in Seq(Sendable) /\ Len(c) = k + 1 /\ c[k + 1] = v
      /\ \A i \in 1 .. k : c[i] = b[i]
  BY <1>7, AppendProperties
<1> HIDE DEF c
<1>10. \A i \in 1 .. k + 1 : a[i] = c[i]
  <2>1. \A i \in 1 .. k + 1 : i = k + 1 \/ i \in 1 .. k
    BY <1>1
  <2> QED
    BY <1>5, <1>7, <1>8, <1>9, <2>1
<1>11. a = c
  BY <1>8, <1>9, <1>10, SeqEqual
<1> QED
  BY <1>6, <1>11 DEF a, b, c, q

\* safety_pop of a ring that is not empty takes the oldest value off.
LEMMA PopFacts ==
  ASSUME NEW r, RingOK(r), ~IsEmpty(r)
  PROVE  /\ RingOK(SafetyPop(r))
         /\ Buffered(r) # << >> /\ Oldest(r) = Head(Buffered(r))
         /\ Buffered(SafetyPop(r)) = Tail(Buffered(r))
<1> DEFINE q == SafetyPop(r)
           n == r.slots
           st == r.start
           en == r.end
           k == Size(r)
           at(i) == IF st + i - 1 < n THEN st + i - 1 ELSE st + i - 1 - n
<1>1. /\ st \in 0 .. Capacity /\ en \in 0 .. Capacity /\ n = Capacity + 1
      /\ r.data \in [0 .. Capacity -> Sendable \cup {Null}]
      /\ k = IF st <= en THEN en - st ELSE en - st + n
      /\ k \in 0 .. Capacity /\ k # 0 /\ Capacity \in Nat
      /\ \A i \in 1 .. Capacity + 1 : Cell(r, i) = r.data[at(i)]
  BY RingFacts, ChannelAssumption
<1>2. /\ (st + 1) % n = (IF st + 1 < n THEN st + 1 ELSE 0)
      /\ (st + 1) % n \in 0 .. Capacity
  <2> HIDE DEF n, st, en
  <2>1. n \in Nat \ {0} /\ st \in 0 .. n - 1
    BY <1>1
  <2>2. (st + 1) % n = (IF st + 1 < n THEN st + 1 ELSE 0)
    BY <2>1, WrapFacts
  <2> QED
    BY <1>1, <2>1, <2>2
<1>3. /\ q.start = (st + 1) % n /\ q.slots = n /\ q.data = r.data /\ q.end = en
      /\ q \in [start : 0 .. Capacity, end : 0 .. Capacity, slots : {Capacity + 1},
                data : [0 .. Capacity -> Sendable \cup {Null}]]
  <2>1. r \in [start : 0 .. Capacity, end : 0 .. Capacity, slots : {Capacity + 1},
               data : [0 .. Capacity -> Sendable \cup {Null}]]
    BY DEF RingOK
  <2> QED
    BY <1>1, <1>2, <2>1 DEF SafetyPop
<1>4. Oldest(r) = r.data[at(1)]
  <2>1. at(1) = st
    BY <1>1
  <2> QED
    BY <2>1 DEF Oldest
<1> HIDE DEF q, n, st, en, k
<1> DEFINE sq == q.start
<1>5. /\ n \in Nat \ {0} /\ st \in 0 .. n - 1 /\ sq \in 0 .. n - 1 /\ en \in 0 .. n - 1
      /\ sq = IF st + 1 < n THEN st + 1 ELSE 0
  BY <1>1, <1>2, <1>3
<1> HIDE DEF sq
<1>6. Size(q) = k - 1
  <2>1. Size(q) = (en - sq + n) % n
    BY <1>3 DEF Size, sq
  <2>2. (en - sq + n) % n = IF sq <= en THEN en - sq ELSE en - sq + n
    BY <1>5, WrapFacts
  <2>3. Size(q) = IF sq <= en THEN en - sq ELSE en - sq + n
    BY <2>1, <2>2
  <2> QED
    BY <1>1, <1>5, <2>3
<1>7. ASSUME NEW i \in 1 .. k - 1
      PROVE  Cell(q, i) = Cell(r, i + 1)
  <2>1. i \in 1 .. n /\ i + 1 \in 1 .. Capacity + 1
    BY <1>1
  <2>2. (sq + i - 1) % n = IF sq + i - 1 < n THEN sq + i - 1 ELSE sq + i - 1 - n
    BY <1>5, <2>1, WrapFacts
  <2>3. (sq + i - 1) % n = at(i + 1)
    BY <1>1, <1>5, <2>2
  <2>4. Cell(q, i) = r.data[at(i + 1)]
    BY <1>3, <2>3 DEF Cell, sq
  <2> HIDE DEF at
  <2> QED
    BY <1>1, <2>1, <2>4
<1>8. Cell(r, 1) = Oldest(r)
  <2> HIDE DEF at
  <2>1. 1 \in 1 .. Capacity + 1
    BY <1>1
  <2> QED
    BY <1>1, <1>4, <2>1
<1> HIDE DEF at
<1>9. RingOK(q)
  <2>1. \A i \in 1 .. k - 1 : i + 1 \in 1 .. k
    BY <1>1
  <2>2. \A i \in 1 .. k : Cell(r, i) \in Sendable
    BY DEF RingOK, k
  <2> QED
    BY <1>3, <1>6, <1>7, <2>1, <2>2 DEF RingOK
<1> DEFINE a == Buffered(q)
           b == Buffered(r)
           c == Tail(b)
<1>10. b \in Seq(Sendable) /\ Len(b) = k /\ \A i \in 1 .. k : b[i] = Cell(r, i)
  BY BufferedFacts DEF k
<1>11. /\ a \in Seq(Sendable) /\ Len(a) = k - 1
       /\ \A i \in 1 .. k - 1 : a[i] = Cell(q, i)
  BY <1>6, <1>9, BufferedFacts
<1> HIDE DEF a, b
<1>12. b # << >>
  BY <1>1, <1>10
<1>13. /\ c \in Seq(Sendable) /\ Len(c) = k - 1 /\ Head(b) = b[1]
       /\ \A i \in 1 .. k - 1 : c[i] = b[i + 1]
  BY <1>10, <1>12, ListTail
<1> HIDE DEF c
<1>14. \A i \in 1 .. k - 1 : i + 1 \in 1 .. k
  BY <1>1
<1>15. \A i \in 1 .. k - 1 : a[i] = c[i]
  BY <1>7, <1>10, <1>11, <1>13, <1>14
<1>16. a = c
  BY <1>11, <1>13, <1>15, SeqEqual
<1>17. Head(b) = Oldest(r)
  BY <1>1, <1>8, <1>10, <1>13
<1> QED
  BY <1>9, <1>12, <1>16, <1>17 DEF a, b, c, q

\* A new channel's buffer is empty.
LEMMA NewRingFacts ==
  RingOK(NewRing(Capacity, Null)) /\ IsEmpty(NewRing(Capacity, Null))
<1> DEFINE r == NewRing(Capacity, Null)
<1>1. Capacity \in Nat
  BY ChannelAssumption
<1>2. /\ r.start = 0 /\ r.end = 0 /\ r.slots = Capacity + 1
      /\ r \in [start : 0 .. Capacity, end : 0 .. Capacity, slots : {Capacity + 1},
                data : [0 .. Capacity -> Sendable \cup {Null}]]
  BY <1>1 DEF NewRing
<1> HIDE DEF r
<1>4. Size(r) = 0
  <2>1. Size(r) = (0 - 0 + (Capacity + 1)) % (Capacity + 1)
    BY <1>2 DEF Size
  <2> DEFINE n == Capacity + 1
  <2>2. n \in Nat \ {0}
    BY <1>1
  <2> HIDE DEF n
  <2>3. (0 - 0 + n) % n = 0
    BY <2>2, WrapFacts
  <2> QED
    BY <2>1, <2>3 DEF n
<1>5. RingOK(r) /\ IsEmpty(r)
  BY <1>2, <1>4 DEF RingOK, IsEmpty
<1> QED
  BY <1>5 DEF r

-----------------------------------------------------------------------------
(* Coroutines and the mutex.                                               *)

OfUsers(f) == f = [u \in Users |-> f[u]]

\* What a coroutine does only inside its critical section, whatever others do.
HeldActs == {"push", "send full", "recv empty"}

\* Whoever unlocks holds the mutex, and has left its critical section.
Parting ==
  /\ ticket \in [Users -> {1, 2}] /\ leaving \subseteq Parties
  /\ \A p \in leaving : Holds(p)
  /\ \A p \in Parties : pc[p] \in {"unlock", "take"} => p \in leaving

LockInv ==
  /\ Inv /\ Parting /\ OfUsers(act)
  /\ \A u \in Users : act[u] \in HeldActs => Inside(u)

\* How a step of a coroutine uses the mutex: it calls lock, or it does
\* nothing to the mutex, or it ends its critical section.
Stays == UNCHANGED <<vars, ticket, leaving>>

Leaves(u) ==
  Inside(u) /\ UNCHANGED <<vars, ticket>> /\ leaving' = leaving \cup {Mine(u)}

Enters(u) ==
  /\ \/ pc[Mine(u)] = "out" /\ Lock(Mine(u)) /\ UNCHANGED ticket
     \/ /\ pc[Mine(u)] # "out" /\ Lock(Other(u))
        /\ ticket' = [ticket EXCEPT ![u] = 3 - @]
  /\ UNCHANGED leaving

\* One coroutine at a time is inside, and then nobody unlocks.
LEMMA InsideAlone ==
  ASSUME LockInv, NEW u \in Users, Inside(u)
  PROVE  leaving = {} /\ \A v \in Users : Inside(v) => v = u
<1>1. \A v \in Users : Mine(v) \in Parties /\ (Inside(v) => Holds(Mine(v)))
  BY DEF LockInv, Parting, Parties, Mine, Inside, Holds
<1>2. \A p, q \in Parties : Holds(p) /\ Holds(q) => p = q
  BY ClientsAssumption DEF LockInv, Inv, MutualExclusion
<1>3. leaving = {}
  BY <1>1, <1>2 DEF LockInv, Parting, Inside
<1>4. ASSUME NEW v \in Users, Inside(v) PROVE v = u
  <2>1. Mine(v) = Mine(u)
    BY <1>1, <1>2, <1>4
  <2> QED
    BY <2>1 DEF Mine
<1> QED
  BY <1>3, <1>4

\* A coroutine's step leaves the others where they are.
LEMMA UserKeepsMutex ==
  ASSUME LockInv, NEW u \in Users, Enters(u) \/ Stays \/ Leaves(u)
  PROVE  /\ [Next]_vars /\ Inv' /\ Parting'
         /\ \A v \in Users \ {u} : Inside(v) => Inside(v)'
         /\ Stays => (Inside(u) => Inside(u)')
<1>1. /\ ticket \in [Users -> {1, 2}] /\ leaving \subseteq Parties
      /\ \A v \in Users : Mine(v) \in Parties /\ Other(v) \in Parties
      /\ pc \in [Parties -> {"out", "lock", "parked", "held", "unlock", "take"}]
  BY ClientsAssumption DEF LockInv, Parting, Parties, Mine, Other, Inv, TypeOK
<1>2. CASE Stays
  <2>1. Inv'
    BY <1>2, NextInv DEF LockInv, Stays
  <2>2. Parting'
    BY <1>2 DEF Stays, LockInv, Parting, vars, Holds
  <2> QED
    BY <1>2, <2>1, <2>2 DEF Stays, Inside, Mine, vars
<1>3. CASE Leaves(u)
  <2>1. Inv'
    BY <1>3, NextInv DEF LockInv, Leaves
  <2>2. Parting'
    BY <1>1, <1>3 DEF Leaves, LockInv, Parting, vars, Holds, Inside
  <2>3. ASSUME NEW v \in Users \ {u}, Inside(v) PROVE Inside(v)'
    BY <1>3, <2>3 DEF Leaves, Inside, Mine, vars
  <2>4. Stays => (Inside(u) => Inside(u)')
    BY DEF Stays, Inside, Mine, vars
  <2> QED
    BY <1>3, <2>1, <2>2, <2>3, <2>4 DEF Leaves
<1>4. CASE Enters(u)
  <2>1. PICK p \in Parties :
          /\ Lock(p) /\ p \in {Mine(u), Other(u)} /\ UNCHANGED leaving
          /\ ticket' = ticket \/ ticket' = [ticket EXCEPT ![u] = 3 - @]
    BY <1>1, <1>4 DEF Enters
  <2>2. Next
    BY <2>1, ClientsAssumption DEF Next
  <2>3. Inv'
    BY <2>2, NextInv DEF LockInv
  <2>4. /\ pc[p] = "out" /\ pc' = [pc EXCEPT ![p] = "lock"]
    BY <2>1 DEF Lock, Goto
  <2>5. \A q \in Parties : q # p => pc'[q] = pc[q]
    BY <1>1, <2>4
  <2>6. pc'[p] = "lock"
    BY <1>1, <2>4
  <2>7. Parting'
    <3>1. ticket' \in [Users -> {1, 2}]
      BY <1>1, <2>1
    <3>2. \A q \in leaving : q # p
      BY <2>4 DEF LockInv, Parting, Holds
    <3>3. \A q \in leaving : Holds(q)'
      BY <1>1, <2>5, <3>2 DEF LockInv, Parting, Holds
    <3>4. \A q \in Parties : pc'[q] \in {"unlock", "take"} => q \in leaving
      BY <2>5, <2>6 DEF LockInv, Parting
    <3> QED
      BY <1>1, <2>1, <3>1, <3>3, <3>4 DEF Parting
  <2>8. ASSUME NEW v \in Users \ {u}, Inside(v) PROVE Inside(v)'
    <3>1. ticket'[v] = ticket[v] /\ Mine(v) # p
      BY <1>1, <2>1 DEF Mine, Other
    <3> QED
      BY <1>1, <2>1, <2>5, <2>8, <3>1 DEF Inside, Mine
  <2>9. Stays => (Inside(u) => Inside(u)')
    BY DEF Stays, Inside, Mine, vars
  <2> QED
    BY <2>2, <2>3, <2>7, <2>8, <2>9
<1> QED
  BY <1>2, <1>3, <1>4

\* ... and may begin what needs the critical section only inside it.
LEMMA UserKeepsLock ==
  ASSUME LockInv, NEW u \in Users, Enters(u) \/ Stays \/ Leaves(u), OfUsers(act'),
         \A v \in Users \ {u} : act'[v] \in HeldActs => act[v] \in HeldActs,
         act'[u] \in HeldActs => Stays /\ Inside(u)
  PROVE  LockInv' /\ [Next]_vars
<1>1. /\ [Next]_vars /\ Inv' /\ Parting'
      /\ \A v \in Users \ {u} : Inside(v) => Inside(v)'
      /\ Stays => (Inside(u) => Inside(u)')
  BY UserKeepsMutex
<1>2. \A v \in Users : act'[v] \in HeldActs => Inside(v)'
  BY <1>1 DEF LockInv
<1>3. OfUsers(act)'
  BY DEF OfUsers
<1> QED
  BY <1>1, <1>2, <1>3 DEF LockInv

\* The steps of lock() and unlock() keep whoever is inside.
LEMMA MutexKeepsLock ==
  ASSUME LockInv, NEW p \in Parties, LockSteps(p) \/ UnlockSteps(p)
  PROVE  /\ LockInv' /\ Next /\ UNCHANGED act
         /\ \A u \in Users : Inside(u) => Inside(u)'
<1>1. /\ ticket \in [Users -> {1, 2}] /\ leaving \subseteq Parties
      /\ \A v \in Users : Mine(v) \in Parties
      /\ pc \in [Parties -> {"out", "lock", "parked", "held", "unlock", "take"}]
  BY ClientsAssumption DEF LockInv, Parting, Parties, Mine, Inv, TypeOK
<1>2. Next /\ UNCHANGED <<act, ticket>>
  BY ClientsAssumption DEF LockSteps, UnlockSteps, Next, clientVars
<1>3. Inv'
  BY <1>2, NextInv DEF LockInv
<1>4. Parting' /\ \A u \in Users : Inside(u) => Inside(u)'
  <2>1. CASE LockSteps(p)
    <3>1. /\ pc[p] = "lock" /\ UNCHANGED leaving
          /\ \A q \in Parties : q # p => pc'[q] = pc[q]
          /\ pc'[p] \in {"lock", "held", "parked"}
      BY <1>1, <2>1 DEF LockSteps, LockStep, LockFree, LockWait, LockRetry, Goto,
         clientVars
    <3>2. \A q \in leaving : q # p
      BY <3>1 DEF LockInv, Parting, Holds
    <3>3. \A q \in leaving : Holds(q)'
      BY <1>1, <3>1, <3>2 DEF LockInv, Parting, Holds
    <3>4. \A q \in Parties : pc'[q] \in {"unlock", "take"} => q \in leaving
      BY <3>1 DEF LockInv, Parting
    <3>5. Parting'
      BY <1>1, <1>2, <3>1, <3>3, <3>4 DEF Parting
    <3>6. ASSUME NEW u \in Users, Inside(u) PROVE Inside(u)'
      <4>1. Mine(u) # p
        BY <3>1, <3>6 DEF Inside
      <4> QED
        BY <1>1, <1>2, <3>1, <3>6, <4>1 DEF Inside, Mine
    <3> QED
      BY <3>5, <3>6
  <2>2. CASE UnlockSteps(p)
    <3>1. p \in leaving /\ leaving = {p} /\ ~free
      <4>1. p \in leaving /\ Holds(p)
        BY <2>2 DEF UnlockSteps, LockInv, Parting
      <4>2. \A q \in Parties : Holds(q) => q = p
        BY <4>1, ClientsAssumption DEF LockInv, Inv, MutualExclusion
      <4>3. ~free
        BY <4>1, ClientsAssumption DEF LockInv, Inv, MutualExclusion
      <4> QED
        BY <1>1, <4>1, <4>2, <4>3 DEF LockInv, Parting
    <3>2. /\ pc'[p] \in {"out", "held", "unlock", "take"}
          /\ \A q \in Parties : q # p => pc'[q] = pc[q] \/ pc'[q] = "held"
      BY <1>1, <2>2, <3>1
      DEF UnlockSteps, UnlockStep, UnlockNext, Unlock, UnlockCAS, UnlockTake,
          HandOver, Goto
    <3>3. leaving' = IF pc'[p] = "out" THEN {} ELSE {p}
      BY <2>2, <3>1 DEF UnlockSteps
    <3>4. \A q \in leaving' : Holds(q)'
      BY <3>2, <3>3 DEF Holds
    <3>5. \A q \in Parties : pc'[q] \in {"unlock", "take"} => q \in leaving'
      BY <3>1, <3>2, <3>3 DEF LockInv, Parting
    <3>6. Parting'
      BY <1>1, <1>2, <3>1, <3>3, <3>4, <3>5 DEF Parting
    <3>7. \A u \in Users : ~Inside(u)
      BY <3>1, InsideAlone
    <3> QED
      BY <3>6, <3>7
  <2> QED
    BY <2>1, <2>2
<1>5. LockInv'
  BY <1>2, <1>3, <1>4 DEF LockInv, OfUsers
<1> QED
  BY <1>2, <1>4, <1>5

-----------------------------------------------------------------------------
(* The list of a condition variable.                                       *)

\* A set of numbers with 0 that has each successor is the set of all numbers.
LEMMA NatSetInduction ==
  ASSUME NEW T \in SUBSET Nat, 0 \in T, \A n \in T : n + 1 \in T
  PROVE  T = Nat
<1> DEFINE R == StrictSubsetOrdering(Nat)
           F == FiniteSubsetsOf(Nat)
<1>1. IsWellFoundedOn(R, F)
  BY FS_StrictSubsetOrderingWellFounded
<1>2. SUFFICES ASSUME NEW b \in Nat \ T PROVE FALSE
  OBVIOUS
<1> DEFINE U == {0 .. n : n \in Nat \ T}
<1>3. U \subseteq F /\ U # {}
  <2>1. \A n \in Nat : IsFiniteSet(0 .. n)
    BY FS_Interval
  <2> QED
    BY <2>1, <1>2 DEF FiniteSubsetsOf
<1>4. PICK I \in U : \A J \in U : ~ (<<J, I>> \in R)
  <2> HIDE DEF U, R, F
  <2> QED
    BY <1>1, <1>3, WFMin
<1>5. PICK n \in Nat \ T : I = 0 .. n
  OBVIOUS
<1>6. n # 0 /\ n - 1 \in Nat \ T
  OBVIOUS
<1>7. <<0 .. n - 1, 0 .. n>> \in R
  <2>1. n \in 0 .. n /\ n \notin 0 .. n - 1 /\ 0 .. n - 1 \subseteq 0 .. n
    OBVIOUS
  <2>2. 0 .. n - 1 \in SUBSET Nat /\ 0 .. n \in SUBSET Nat
    OBVIOUS
  <2> QED
    BY <2>1, <2>2 DEF StrictSubsetOrdering
<1>8. 0 .. n - 1 \in U
  BY <1>6
<1> HIDE DEF U, R
<1> QED
  BY <1>4, <1>5, <1>7, <1>8

\* The number of the first numbers.
LEMMA UpTo ==
  ASSUME NEW n \in Nat
  PROVE  IsFiniteSet(1 .. n) /\ Cardinality(1 .. n) = n
<1>1. IsFiniteSet(1 .. n) /\ Cardinality(1 .. n) = IF 1 > n THEN 0 ELSE n - 1 + 1
  BY FS_Interval
<1>2. (IF 1 > n THEN 0 ELSE n - 1 + 1) = n
  OBVIOUS
<1> QED
  BY <1>1, <1>2

Nth(L, i) == IF i \in 1 .. Len(L) THEN L[i] ELSE Null

\* L are the nodes from head on, and their coroutines those that sleep.
IsChain(L) ==
  /\ Distinct(L)
  /\ \A u \in Users : act[u] = "asleep" <=> Contains(L, u)
  /\ head = Nth(L, 1)
  /\ \A i \in 1 .. Len(L) : next[L[i]] = Nth(L, i + 1)

\* A list that repeats nobody is no longer than there are coroutines.
LEMMA ListsAreShort ==
  ASSUME NEW L \in Seq(Users), Distinct(L)
  PROVE  Len(L) \in Nat /\ Cardinality(Users) \in Nat /\ Len(L) <= Cardinality(Users)
<1> DEFINE D == 1 .. Len(L)
<1>1. L \in Injection(D, Users)
  BY DEF Injection, IsInjective, Distinct
<1>2. IsFiniteSet(Users) /\ Len(L) \in Nat
  BY ClientsAssumption
<1>3. Cardinality(D) = Len(L)
  BY <1>2, UpTo
<1> HIDE DEF D
<1>4. Cardinality(D) <= Cardinality(Users) /\ Cardinality(Users) \in Nat
  BY <1>1, <1>2, FS_Injection, FS_CardinalityType
<1> QED
  BY <1>2, <1>3, <1>4

\* Chain is that list.
LEMMA ChainIs ==
  ASSUME NEW L \in Seq(Users), IsChain(L)
  PROVE  Chain = L
<1> DEFINE N == Cardinality(Users) + 1
           body(f) == [k \in 1 .. N |->
                         IF k = 1 THEN head
                         ELSE IF f[k - 1] = Null THEN Null ELSE next[f[k - 1]]]
           at == CHOOSE f : f = body(f)
           w == [k \in 1 .. N |-> Nth(L, k)]
<1>1. Chain = [k \in 1 .. Cardinality({i \in DOMAIN at : at[i] # Null}) |-> at[k]]
  BY DEF Chain
<1>2. /\ Len(L) \in Nat /\ N \in Nat \ {0} /\ Len(L) <= N - 1
      /\ \A i \in 1 .. Len(L) : L[i] \in Users /\ L[i] # Null
  <2>1. Distinct(L)
    BY DEF IsChain
  <2>2. Len(L) \in Nat /\ Cardinality(Users) \in Nat /\ Len(L) <= Cardinality(Users)
    BY <2>1, ListsAreShort
  <2>3. \A i \in 1 .. Len(L) : L[i] \in Users
    BY ElementOfSeq
  <2> QED
    BY <2>2, <2>3, ClientsAssumption
<1> HIDE DEF N
<1>3. w = body(w)
  <2>1. ASSUME NEW k \in 1 .. N
        PROVE  w[k] = IF k = 1 THEN head
                      ELSE IF w[k - 1] = Null THEN Null ELSE next[w[k - 1]]
    <3>1. CASE k = 1
      BY <3>1 DEF IsChain
    <3>2. CASE k # 1
      <4>1. k - 1 \in 1 .. N /\ w[k - 1] = Nth(L, k - 1) /\ w[k] = Nth(L, k)
        BY <3>2, <1>2
      <4>2. CASE k - 1 \in 1 .. Len(L)
        <5>1. w[k - 1] = L[k - 1] /\ L[k - 1] # Null
          BY <4>1, <4>2, <1>2 DEF Nth
        <5>2. next[L[k - 1]] = Nth(L, k)
          <6>1. next[L[k - 1]] = Nth(L, (k - 1) + 1)
            BY <4>2 DEF IsChain
          <6>2. (k - 1) + 1 = k
            BY <1>2
          <6> QED
            BY <6>1, <6>2
        <5> HIDE DEF w
        <5> QED
          BY <3>2, <4>1, <5>1, <5>2
      <4>3. CASE k - 1 \notin 1 .. Len(L)
        <5>1. w[k - 1] = Null /\ w[k] = Null
          BY <4>1, <4>3, <1>2 DEF Nth
        <5> QED
          BY <3>2, <5>1
      <4> QED
        BY <4>2, <4>3
    <3> QED
      BY <3>1, <3>2
  <2> QED
    BY <2>1
<1>4. at = body(at)
  <2> HIDE DEF w, body
  <2> QED
    BY <1>3
<1> HIDE DEF at
<1>5. DOMAIN at = 1 .. N /\ at[1] = head
      /\ \A k \in 2 .. N : at[k] = IF at[k - 1] = Null THEN Null ELSE next[at[k - 1]]
  BY <1>2, <1>4
<1>6. w[1] = head
      /\ \A k \in 2 .. N : w[k] = IF w[k - 1] = Null THEN Null ELSE next[w[k - 1]]
  <2> HIDE DEF w
  <2> QED
    BY <1>2, <1>3
<1> DEFINE T == {k \in Nat : k \in 1 .. N => at[k] = w[k]}
<1>7. T = Nat
  <2>1. 0 \in T
    BY <1>2
  <2>2. ASSUME NEW k \in T PROVE k + 1 \in T
    <3> HIDE DEF w
    <3>1. CASE k + 1 \in 2 .. N
      <4>1. k \in 1 .. N /\ (k + 1) - 1 = k
        BY <3>1, <1>2
      <4>2. at[k + 1] = w[k + 1]
        BY <1>5, <1>6, <3>1, <4>1
      <4> QED
        BY <4>2
    <3>2. CASE k + 1 = 1
      BY <1>5, <1>6, <3>2
    <3>3. CASE k + 1 \notin 1 .. N
      BY <3>3
    <3> QED
      BY <3>1, <3>2, <3>3, <1>2
  <2> HIDE DEF T
  <2>3. T \in SUBSET Nat
    BY DEF T
  <2> QED
    BY <2>1, <2>2, <2>3, NatSetInduction
<1>8. \A k \in 1 .. N : at[k] = Nth(L, k)
  <2>1. \A k \in 1 .. N : w[k] = Nth(L, k)
    OBVIOUS
  <2> HIDE DEF w
  <2> QED
    BY <1>2, <1>7, <2>1
<1>9. {i \in DOMAIN at : at[i] # Null} = 1 .. Len(L)
  BY <1>2, <1>5, <1>8 DEF Nth
<1>10. Cardinality(1 .. Len(L)) = Len(L)
  BY <1>2, UpTo
<1>11. Chain = [k \in 1 .. Len(L) |-> at[k]]
  BY <1>1, <1>9, <1>10
<1>12. \A k \in 1 .. Len(L) : at[k] = L[k]
  BY <1>2, <1>8 DEF Nth
<1> HIDE DEF w
<1>13. Chain = [k \in 1 .. Len(L) |-> L[k]]
  BY <1>11, <1>12
<1> QED
  BY <1>13

\* A list of which nothing has changed.
LEMMA ChainKept ==
  ASSUME NEW L \in Seq(Users), IsChain(L), UNCHANGED <<head, next>>,
         \A u \in Users : act'[u] = "asleep" <=> act[u] = "asleep"
  PROVE  IsChain(L)'
BY DEF IsChain, Nth

\* The head of the list is its first node.
LEMMA ChainHead ==
  ASSUME NEW L \in Seq(Users), IsChain(L)
  PROVE  /\ head = Null <=> L = << >>
         /\ head = Null => \A u \in Users : act[u] # "asleep"
         /\ head # Null => /\ head \in Users /\ act[head] = "asleep"
                           /\ head = Head(L) /\ next[head] = Nth(L, 2)
<1>1. Len(L) \in Nat /\ \A i \in 1 .. Len(L) : L[i] \in Users /\ L[i] # Null
  BY ElementOfSeq, ClientsAssumption
<1>2. head = Null <=> L = << >>
  BY <1>1, EmptySeq DEF IsChain, Nth
<1>3. head = Null => \A u \in Users : act[u] # "asleep"
  BY <1>2, EmptyList DEF IsChain
<1>4. ASSUME head # Null
      PROVE  head \in Users /\ act[head] = "asleep" /\ head = Head(L) /\ next[head] = Nth(L, 2)
  <2>1. 1 \in 1 .. Len(L) /\ head = L[1]
    BY <1>1, <1>4 DEF IsChain, Nth
  <2>2. head = Head(L) /\ Contains(L, head)
    BY <2>1 DEF Contains
  <2> QED
    BY <1>1, <2>1, <2>2 DEF IsChain
<1> QED
  BY <1>2, <1>3, <1>4

\* wait puts its node before the others.
LEMMA ChainPushed ==
  ASSUME NEW L \in Seq(Users), IsChain(L), NEW u \in Users, act[u] # "asleep",
         DOMAIN next = Users,
         head' = u, next' = [next EXCEPT ![u] = head],
         \A v \in Users : act'[v] = "asleep" <=> act[v] = "asleep" \/ v = u
  PROVE  \E M \in Seq(Users) : IsChain(M)'
<1> DEFINE M == <<u>> \o L
           n == Len(L)
<1>1. /\ M \in Seq(Users) /\ Len(M) = n + 1 /\ M[1] = u /\ n \in Nat
      /\ \A i \in 2 .. n + 1 : M[i] = L[i - 1]
  BY ListCons
<1>2. /\ \A i \in 1 .. n : L[i] \in Users
      /\ ~Contains(L, u) /\ \A i \in 1 .. n : L[i] # u
  BY ElementOfSeq DEF IsChain, Contains
<1>3. Distinct(L) /\ head = Nth(L, 1)
      /\ \A i \in 1 .. n : next[L[i]] = Nth(L, i + 1)
  BY DEF IsChain
<1> HIDE DEF M
<1>4. Distinct(M)
  <2>1. ASSUME NEW i \in 1 .. n + 1, NEW j \in 1 .. n + 1, i # j PROVE M[i] # M[j]
    BY SMTT(30), <1>1, <1>2, <1>3, <2>1 DEF Distinct
  <2> QED
    BY <1>1, <2>1 DEF Distinct
<1>5. \A v : Contains(M, v) <=> Contains(L, v) \/ v = u
  <2>1. ASSUME NEW v, Contains(L, v) PROVE Contains(M, v)
    <3>1. PICK i \in 1 .. n : L[i] = v
      BY <2>1 DEF Contains
    <3>2. i + 1 \in 2 .. n + 1 /\ M[i + 1] = v
      BY <1>1, <3>1
    <3> QED
      BY <1>1, <3>2 DEF Contains
  <2>2. Contains(M, u)
    BY <1>1 DEF Contains
  <2>3. ASSUME NEW v, Contains(M, v), v # u PROVE Contains(L, v)
    BY <1>1, <2>3 DEF Contains
  <2> QED
    BY <2>1, <2>2, <2>3
<1>6. \A i \in 1 .. n + 1 : Nth(M, i + 1) = Nth(L, i)
  BY <1>1 DEF Nth
<1>7. ASSUME NEW i \in 1 .. n + 1 PROVE next'[M[i]] = Nth(M, i + 1)
  <2>1. CASE i = 1
    BY <1>1, <1>3, <1>6, <2>1
  <2>2. CASE i \in 2 .. n + 1
    <3>1. M[i] = L[i - 1] /\ i - 1 \in 1 .. n /\ (i - 1) + 1 = i
      BY <1>1, <2>2
    <3>2. next'[M[i]] = next[L[i - 1]]
      BY <1>2, <3>1
    <3> QED
      BY <1>3, <1>6, <3>1, <3>2
  <2> QED
    BY <1>1, <2>1, <2>2
<1>8. head' = Nth(M, 1)
  BY <1>1 DEF Nth
<1>9. \A v \in Users : act'[v] = "asleep" <=> Contains(M, v)
  BY <1>5 DEF IsChain
<1>10. IsChain(M)'
  <2>1. \A i \in 1 .. Len(M) : next'[M[i]] = Nth(M, i + 1)
    BY <1>1, <1>7
  <2> QED
    BY <1>4, <1>8, <1>9, <2>1 DEF IsChain, Nth
<1> QED
  BY <1>1, <1>10

\* notify_one takes the first node off.
LEMMA ChainPopped ==
  ASSUME NEW L \in Seq(Users), IsChain(L), head # Null, DOMAIN next = Users,
         head' = next[head], next' = [next EXCEPT ![head] = Null],
         \A v \in Users : act'[v] = "asleep" <=> act[v] = "asleep" /\ v # head
  PROVE  \E M \in Seq(Users) : IsChain(M)'
<1> DEFINE M == Tail(L)
           n == Len(L)
<1>1. L # << >> /\ head \in Users /\ head = Head(L) /\ next[head] = Nth(L, 2)
  BY ChainHead
<1>2. /\ M \in Seq(Users) /\ Len(M) = n - 1 /\ n \in Nat \ {0}
      /\ head = L[1] /\ \A i \in 1 .. n - 1 : M[i] = L[i + 1]
  BY <1>1, ListTail
<1>3. Distinct(L) /\ \A i \in 1 .. n : next[L[i]] = Nth(L, i + 1)
  BY DEF IsChain
<1>4. /\ Distinct(M) /\ ~Contains(M, head)
      /\ \A v : Contains(M, v) => Contains(L, v)
  BY <1>1, <1>3, TailMembers
<1> HIDE DEF M
<1>5. \A v : Contains(L, v) /\ v # head => Contains(M, v)
  <2>1. ASSUME NEW v, Contains(L, v), v # head PROVE Contains(M, v)
    <3>1. PICK i \in 1 .. n : L[i] = v
      BY <2>1 DEF Contains
    <3>2. i - 1 \in 1 .. n - 1 /\ M[i - 1] = v
      BY <1>2, <2>1, <3>1
    <3> QED
      BY <1>2, <3>2 DEF Contains
  <2> QED
    BY <2>1
<1>6. \A i \in 1 .. n : Nth(M, i) = Nth(L, i + 1)
  BY <1>2 DEF Nth
<1>7. head' = Nth(M, 1)
  BY <1>1, <1>2, <1>6
<1>8. ASSUME NEW i \in 1 .. n - 1 PROVE next'[M[i]] = Nth(M, i + 1)
  <2>1. M[i] = L[i + 1] /\ i + 1 \in 1 .. n
    BY <1>2
  <2>2. M[i] # head
    BY <1>2, <1>4 DEF Contains
  <2>3. M[i] \in Users
    BY <1>2, ElementOfSeq
  <2>4. next'[M[i]] = next[L[i + 1]]
    BY <2>1, <2>2, <2>3
  <2> QED
    BY <1>3, <1>6, <2>1, <2>4
<1>9. \A v \in Users : act'[v] = "asleep" <=> Contains(M, v)
  BY <1>4, <1>5 DEF IsChain
<1>10. IsChain(M)'
  <2>1. \A i \in 1 .. Len(M) : next'[M[i]] = Nth(M, i + 1)
    BY <1>2, <1>8
  <2> QED
    BY <1>4, <1>7, <1>9, <2>1 DEF IsChain, Nth
<1> QED
  BY <1>2, <1>10

\* The list of which nobody is a node.
LEMMA ChainEmpty ==
  ASSUME head' = Null, \A v \in Users : act'[v] # "asleep"
  PROVE  \E M \in Seq(Users) : IsChain(M)'
<1>1. << >> \in Seq(Users) /\ Len(<< >>) = 0
  OBVIOUS
<1>2. IsChain(<< >>)'
  BY <1>1, EmptyList DEF IsChain, Nth
<1> QED
  BY <1>1, <1>2

-----------------------------------------------------------------------------
(* The condition variable.                                                 *)

Notifying == {"notifier", "give", "load", "read", "pop"}

\* On their way to look at the tokens, or about to wake somebody who will.
OnTheWay == {u \in Users : act[u] \in {"notified", "test", "load", "read", "pop"}}

\* What a notify_one has read of the list is still so while no other notify
\* takes a node off: a node in the list is not written to.
SeenInv ==
  /\ \A u \in Users : act[u] \in {"read", "pop"} =>
       seen[u][1] \in Users /\ act[seen[u][1]] = "asleep"
  /\ \A u \in Users : act[u] = "pop" => seen[u][2] = next[seen[u][1]]

\* While somebody sleeps, there are no more tokens than coroutines that will
\* look at one or wake somebody; and a waiter that is about to sleep, which
\* has the mutex, has seen that there is none.
TokenInv ==
  /\ tokens \in Nat
  /\ \A u \in Users : act[u] = "push" => tokens = 0
  /\ (\E u \in Users : act[u] = "asleep") => tokens <= Cardinality(OnTheWay)

CvTypes ==
  /\ next = [u \in Users |-> next[u]]
  /\ seen = [u \in Users |-> <<seen[u][1], seen[u][2]>>]

Chained == \E L \in Seq(Users) : IsChain(L)

\* The state of the list until a notify takes nodes off under another.
Orderly == CvTypes /\ Chained /\ SeenInv /\ TokenInv

CvInv == CvTypes /\ (~raced => Orderly)

CvActs == Notifying \cup {"test", "push", "asleep", "notified"}

\* Adding to a set of coroutines, and taking one out.
LEMMA CountFacts ==
  ASSUME NEW A \in SUBSET Users, NEW B \in SUBSET Users
  PROVE  /\ Cardinality(A) \in Nat
         /\ A \subseteq B => Cardinality(A) <= Cardinality(B)
         /\ \A u \in A : B = A \ {u} => Cardinality(B) = Cardinality(A) - 1
         /\ \A u \in Users \ A : B = A \cup {u} => Cardinality(B) = Cardinality(A) + 1
<1>1. IsFiniteSet(A) /\ IsFiniteSet(B)
  BY ClientsAssumption, FS_Subset
<1>2. Cardinality(A) \in Nat
  BY <1>1, FS_CardinalityType
<1>3. A \subseteq B => Cardinality(A) <= Cardinality(B)
  BY <1>1, FS_Subset
<1>4. \A u \in A : B = A \ {u} => Cardinality(B) = Cardinality(A) - 1
  BY <1>1, FS_RemoveElement
<1>5. \A u \in Users \ A : B = A \cup {u} => Cardinality(B) = Cardinality(A) + 1
  BY <1>1, FS_AddElement
<1> QED
  BY <1>2, <1>3, <1>4, <1>5

\* Steps that do not touch the list: who sleeps sleeps on.
LEMMA ChainedKept ==
  ASSUME Orderly, UNCHANGED <<head, next>>,
         \A u \in Users : act'[u] = "asleep" <=> act[u] = "asleep"
  PROVE  Chained'
<1>1. PICK L \in Seq(Users) : IsChain(L)
  BY DEF Orderly, Chained
<1>2. IsChain(L)'
  BY <1>1, ChainKept
<1> QED
  BY <1>2 DEF Chained

\* As many are on the way after the step as before.
LEMMA TokensKept ==
  ASSUME Orderly, UNCHANGED tokens, OnTheWay \subseteq OnTheWay',
         \A u \in Users : act'[u] = "asleep" <=> act[u] = "asleep",
         \A u \in Users : act'[u] = "push" => act[u] = "push"
  PROVE  TokenInv'
<1>1. /\ OnTheWay \in SUBSET Users /\ OnTheWay' \in SUBSET Users
  BY DEF OnTheWay
<1>2. /\ Cardinality(OnTheWay) \in Nat /\ Cardinality(OnTheWay') \in Nat
      /\ Cardinality(OnTheWay) <= Cardinality(OnTheWay')
  BY <1>1, CountFacts
<1>3. Cardinality(OnTheWay)' = Cardinality(OnTheWay')
  OBVIOUS
<1> QED
  BY <1>2, <1>3 DEF Orderly, TokenInv

\* Steps of other coroutines.
LEMMA CvQuiet ==
  ASSUME CvInv, UNCHANGED cvVars,
         \A u \in Users : act'[u] = act[u] \/ (act[u] \notin CvActs /\ act'[u] \notin CvActs)
  PROVE  CvInv'
<1>1. \A u \in Users : \A l \in CvActs : act'[u] = l <=> act[u] = l
  OBVIOUS
<1>2. UNCHANGED <<head, next, seen, tokens, raced>>
  BY DEF cvVars
<1>3. \A u \in Users : /\ act'[u] = "asleep" <=> act[u] = "asleep"
                       /\ act'[u] = "push" <=> act[u] = "push"
                       /\ act'[u] = "pop" <=> act[u] = "pop"
                       /\ act'[u] = "read" <=> act[u] = "read"
  BY <1>1 DEF CvActs, Notifying
<1>4. OnTheWay' = OnTheWay
  BY <1>1 DEF OnTheWay, CvActs, Notifying
<1>5. CvTypes'
  BY <1>2 DEF CvInv, CvTypes
<1>6. ASSUME Orderly PROVE Orderly'
  <2>1. Chained'
    BY <1>2, <1>3, <1>6, ChainedKept
  <2>2. TokenInv'
    BY <1>2, <1>3, <1>4, <1>6, TokensKept
  <2>3. SeenInv'
    BY <1>2, <1>3, <1>6 DEF Orderly, SeenInv
  <2> QED
    BY <1>5, <2>1, <2>2, <2>3 DEF Orderly
<1> QED
  BY <1>2, <1>5, <1>6 DEF CvInv

\* A step of a waiter that neither sleeps nor notifies.
LEMMA WaiterSeen ==
  ASSUME Orderly, NEW u \in Users, act[u] \notin Notifying \cup {"asleep"},
         UNCHANGED seen, \A w \in Users \ {u} : next'[w] = next[w],
         \A w \in Users \ {u} : act'[w] = act[w], act'[u] \notin Notifying
  PROVE  SeenInv'
BY DEF Orderly, SeenInv, Notifying

\* Going to look at the tokens.
LEMMA WaitBeginInv ==
  ASSUME LockInv, Orderly, NEW u \in Users, WaitBegin(u) \/ WaitAgain(u)
  PROVE  Orderly'
<1>1. /\ Enters(u) /\ act' = [act EXCEPT ![u] = "test"]
      /\ act[u] \in {"wait", "notified"} /\ UNCHANGED <<head, next, seen, tokens>>
  BY DEF WaitBegin, WaitAgain, BeginLock, Enters, cvVars
<1>2. OfUsers(act') /\ act'[u] = "test" /\ \A w \in Users \ {u} : act'[w] = act[w]
  BY <1>1 DEF LockInv, OfUsers
<1>4. Chained'
  BY <1>1, <1>2, ChainedKept
<1>5. OnTheWay \subseteq OnTheWay'
  BY <1>1, <1>2 DEF OnTheWay
<1>6. TokenInv'
  BY <1>1, <1>2, <1>5, TokensKept
<1>7. SeenInv'
  BY <1>1, <1>2, WaiterSeen DEF Notifying
<1> QED
  BY <1>1, <1>4, <1>6, <1>7 DEF Orderly, CvTypes

\* A waiter takes a token, or finds none.
LEMMA WaitTestInv ==
  ASSUME LockInv, Orderly, NEW u \in Users, WaitTest(u)
  PROVE  Orderly'
<1>1. /\ act[u] = "test" /\ Inside(u) /\ UNCHANGED <<head, next, seen>>
      /\ IF tokens > 0
           THEN tokens' = tokens - 1 /\ Leaves(u) /\ act' = [act EXCEPT ![u] = "served"]
           ELSE UNCHANGED tokens /\ Stays /\ act' = [act EXCEPT ![u] = "push"]
  BY DEF WaitTest, Leave, Become, Leaves, Stays
<1>2. /\ OfUsers(act') /\ act'[u] \in {"served", "push"}
      /\ act'[u] = "served" <=> tokens > 0
      /\ \A w \in Users \ {u} : act'[w] = act[w]
  BY <1>1 DEF LockInv, OfUsers
<1>4. Chained'
  BY <1>1, <1>2, ChainedKept
<1>5. SeenInv'
  BY <1>1, <1>2, WaiterSeen DEF Notifying
<1>6. /\ tokens \in Nat /\ \A w \in Users : act[w] = "push" => tokens = 0
      /\ (\E w \in Users : act[w] = "asleep") => tokens <= Cardinality(OnTheWay)
  BY DEF Orderly, TokenInv
<1>7. /\ OnTheWay \in SUBSET Users /\ OnTheWay' \in SUBSET Users /\ u \in OnTheWay
      /\ OnTheWay' = OnTheWay \ {u}
  BY <1>1, <1>2 DEF OnTheWay
<1>8. /\ Cardinality(OnTheWay) \in Nat /\ Cardinality(OnTheWay') \in Nat
      /\ Cardinality(OnTheWay') = Cardinality(OnTheWay) - 1
  BY <1>7, CountFacts
<1>9. TokenInv'
  <2>1. Cardinality(OnTheWay)' = Cardinality(OnTheWay')
    OBVIOUS
  <2>2. tokens' \in Nat /\ \A w \in Users : act'[w] = "push" => tokens' = 0
    BY <1>1, <1>2, <1>6
  <2>3. (\E w \in Users : act'[w] = "asleep") => (\E w \in Users : act[w] = "asleep")
    BY <1>2
  <2>4. (\E w \in Users : act'[w] = "asleep") => tokens' <= Cardinality(OnTheWay')
    BY <1>1, <1>6, <1>8, <2>3
  <2> QED
    BY <2>1, <2>2, <2>4 DEF TokenInv
<1> QED
  BY <1>1, <1>4, <1>5, <1>9 DEF Orderly, CvTypes

\* A waiter goes to sleep.
LEMMA WaitSuspendInv ==
  ASSUME LockInv, Orderly, NEW u \in Users, WaitSuspend(u)
  PROVE  Orderly'
<1>1. /\ act[u] = "push" /\ Leaves(u) /\ act' = [act EXCEPT ![u] = "asleep"]
      /\ next' = [next EXCEPT ![u] = head] /\ head' = u
      /\ UNCHANGED <<seen, tokens>>
  BY DEF WaitSuspend, Leave, Become, Leaves
<1>2. OfUsers(act') /\ act'[u] = "asleep" /\ \A w \in Users \ {u} : act'[w] = act[w]
  BY <1>1 DEF LockInv, OfUsers
<1>4. /\ CvTypes' /\ DOMAIN next = Users
      /\ \A w \in Users \ {u} : next'[w] = next[w]
  BY <1>1 DEF Orderly, CvTypes
<1>5. Chained'
  <2>1. PICK L \in Seq(Users) : IsChain(L)
    BY DEF Orderly, Chained
  <2>2. act[u] # "asleep"
    BY <1>1
  <2>3. \A v \in Users : act'[v] = "asleep" <=> act[v] = "asleep" \/ v = u
    BY <1>2
  <2>4. \E M \in Seq(Users) : IsChain(M)'
    BY <1>1, <1>4, <2>1, <2>2, <2>3, ChainPushed
  <2> QED
    BY <2>4 DEF Chained
<1>6. SeenInv'
  BY <1>1, <1>2, <1>4, WaiterSeen DEF Notifying
<1>7. TokenInv'
  <2>1. tokens = 0
    BY <1>1 DEF Orderly, TokenInv
  <2>2. OnTheWay' \in SUBSET Users
    BY DEF OnTheWay
  <2>3. Cardinality(OnTheWay') \in Nat
    BY <2>2, CountFacts
  <2>4. Cardinality(OnTheWay)' = Cardinality(OnTheWay')
    OBVIOUS
  <2> QED
    BY <1>1, <2>1, <2>3, <2>4 DEF TokenInv
<1> QED
  BY <1>4, <1>5, <1>6, <1>7 DEF Orderly

\* The notifier locks the mutex.
LEMMA NotifierBeginInv ==
  ASSUME LockInv, Orderly, NEW u \in Users, NotifierBegin(u)
  PROVE  Orderly'
<1>1. /\ Enters(u) /\ act' = [act EXCEPT ![u] = "give"]
      /\ act[u] = "notifier" /\ UNCHANGED <<head, next, seen, tokens>>
  BY DEF NotifierBegin, BeginLock, Enters, cvVars
<1>2. OfUsers(act') /\ act'[u] = "give" /\ \A w \in Users \ {u} : act'[w] = act[w]
  BY <1>1 DEF LockInv, OfUsers
<1>4. Chained'
  BY <1>1, <1>2, ChainedKept
<1>5. OnTheWay \subseteq OnTheWay'
  BY <1>1, <1>2 DEF OnTheWay
<1>6. TokenInv'
  BY <1>1, <1>2, <1>5, TokensKept
<1>7. SeenInv'
  BY <1>1, <1>2 DEF Orderly, SeenInv, Notifying
<1> QED
  BY <1>1, <1>4, <1>6, <1>7 DEF Orderly, CvTypes

\* A token more, and a notification to come.
LEMMA GiveInv ==
  ASSUME LockInv, Orderly, NEW u \in Users, Give(u)
  PROVE  Orderly'
<1>1. /\ act[u] = "give" /\ Inside(u) /\ (Stays \/ Leaves(u))
      /\ act' = [act EXCEPT ![u] = "load"] /\ tokens' = tokens + 1
      /\ UNCHANGED <<head, next, seen>>
  BY DEF Give, Leave, Become, Leaves, Stays
<1>2. OfUsers(act') /\ act'[u] = "load" /\ \A w \in Users \ {u} : act'[w] = act[w]
  BY <1>1 DEF LockInv, OfUsers
<1>4. Chained'
  BY <1>1, <1>2, ChainedKept
<1>5. \A w \in Users : act[w] # "push" /\ act'[w] # "push"
  BY <1>1, <1>2, InsideAlone DEF LockInv, HeldActs
<1>6. /\ OnTheWay \in SUBSET Users /\ OnTheWay' \in SUBSET Users /\ u \notin OnTheWay
      /\ OnTheWay' = OnTheWay \cup {u}
  BY <1>1, <1>2 DEF OnTheWay
<1>7. /\ Cardinality(OnTheWay) \in Nat
      /\ Cardinality(OnTheWay') = Cardinality(OnTheWay) + 1
  BY <1>6, CountFacts
<1>8. TokenInv'
  <2>1. Cardinality(OnTheWay)' = Cardinality(OnTheWay')
    OBVIOUS
  <2>2. (\E w \in Users : act'[w] = "asleep") => (\E w \in Users : act[w] = "asleep")
    BY <1>2
  <2> QED
    BY <1>1, <1>5, <1>7, <2>1, <2>2 DEF Orderly, TokenInv
<1>9. SeenInv'
  BY <1>1, <1>2 DEF Orderly, SeenInv, Notifying
<1> QED
  BY <1>1, <1>4, <1>8, <1>9 DEF Orderly, CvTypes

\* The notifier looks at the list: if it has a head, its coroutine sleeps.
LEMMA NotifyLoadInv ==
  ASSUME LockInv, Orderly, NEW u \in Users, NotifyLoad(u)
  PROVE  Orderly'
<1>1. /\ act[u] = "load" /\ (Stays \/ Leaves(u))
      /\ seen' = [seen EXCEPT ![u] = <<head, Null>>]
      /\ act' = [act EXCEPT ![u] = IF head = Null THEN "notifier" ELSE "read"]
      /\ UNCHANGED <<head, next, tokens>>
  BY DEF NotifyLoad, Notified, Leave, Become, Leaves, Stays
<1>2. /\ OfUsers(act') /\ act'[u] = IF head = Null THEN "notifier" ELSE "read"
      /\ \A w \in Users \ {u} : act'[w] = act[w]
  BY <1>1 DEF LockInv, OfUsers
<1>4. Chained' /\ \A w \in Users : act'[w] = "asleep" <=> act[w] = "asleep"
  BY <1>1, <1>2, ChainedKept
<1>5. /\ head = Null => \A w \in Users : act[w] # "asleep"
      /\ head # Null => head \in Users /\ act[head] = "asleep"
  BY ChainHead DEF Orderly, Chained
<1>6. CvTypes' /\ seen'[u][1] = head /\ \A w \in Users \ {u} : seen'[w] = seen[w]
  BY <1>1 DEF Orderly, CvTypes
<1>7. SeenInv'
  BY <1>1, <1>2, <1>5, <1>6 DEF Orderly, SeenInv, Notifying
<1>8. TokenInv'
  <2>1. CASE head = Null
    <3>1. \A w \in Users : act'[w] # "asleep"
      BY <1>4, <1>5, <2>1
    <3> QED
      BY <1>1, <1>2, <3>1 DEF Orderly, TokenInv
  <2>2. CASE head # Null
    <3>1. OnTheWay \subseteq OnTheWay'
      BY <1>1, <1>2, <2>2 DEF OnTheWay
    <3> QED
      BY <1>1, <1>2, <1>4, <3>1, TokensKept
  <2> QED
    BY <2>1, <2>2
<1> QED
  BY <1>4, <1>6, <1>7, <1>8 DEF Orderly

\* ... and reads its _next.
LEMMA NotifyReadInv ==
  ASSUME LockInv, Orderly, NEW u \in Users, NotifyRead(u)
  PROVE  Orderly'
<1>1. /\ act[u] = "read" /\ Stays /\ act' = [act EXCEPT ![u] = "pop"]
      /\ seen' = [seen EXCEPT ![u] = <<seen[u][1], next[seen[u][1]]>>]
      /\ UNCHANGED <<head, next, tokens>>
  BY DEF NotifyRead, Become, Stays, Orderly, SeenInv
<1>2. OfUsers(act') /\ act'[u] = "pop" /\ \A w \in Users \ {u} : act'[w] = act[w]
  BY <1>1 DEF LockInv, OfUsers
<1>4. Chained'
  BY <1>1, <1>2, ChainedKept
<1>5. CvTypes' /\ seen'[u][1] = seen[u][1] /\ seen'[u][2] = next[seen[u][1]]
      /\ \A w \in Users \ {u} : seen'[w] = seen[w]
  BY <1>1 DEF Orderly, CvTypes
<1>6. SeenInv'
  BY <1>1, <1>2, <1>5 DEF Orderly, SeenInv, Notifying
<1>7. OnTheWay \subseteq OnTheWay'
  BY <1>1, <1>2 DEF OnTheWay
<1>8. TokenInv'
  BY <1>1, <1>2, <1>7, TokensKept
<1> QED
  BY <1>4, <1>5, <1>6, <1>8 DEF Orderly

\* The compare-exchange takes the head off and resumes its coroutine, or
\* fails and gives the notifier another head.
LEMMA NotifyPopInv ==
  ASSUME LockInv, Orderly, NEW u \in Users, NotifyPop(u), ~raced'
  PROVE  Orderly'
<1>1. /\ act[u] = "pop" /\ seen[u][1] \in Users /\ act[seen[u][1]] = "asleep"
      /\ seen[u][2] = next[seen[u][1]]
  BY DEF NotifyPop, Orderly, SeenInv
<1>2. head \in Users /\ act[head] = "asleep" /\ head # Null
  BY <1>1, ChainHead DEF Orderly, Chained
<1>3. CASE head = seen[u][1]
  <2> DEFINE h == head
  <2>1. /\ h \in Users /\ h # u /\ act[h] = "asleep"
        /\ head' = next[h] /\ next' = [next EXCEPT ![h] = Null]
        /\ act' = [act EXCEPT ![u] = "notifier", ![h] = "notified"]
        /\ (Stays \/ Leaves(u)) /\ UNCHANGED <<seen, tokens>>
    BY <1>1, <1>2, <1>3 DEF NotifyPop, Leaves, Stays
  <2> HIDE DEF h
  <2>2. /\ OfUsers(act') /\ act'[u] = "notifier" /\ act'[h] = "notified"
        /\ \A w \in Users \ {u, h} : act'[w] = act[w]
    BY <2>1 DEF LockInv, OfUsers
  <2>4. CvTypes' /\ DOMAIN next = Users
    BY <2>1 DEF Orderly, CvTypes
  <2>5. Chained'
    <3>1. PICK L \in Seq(Users) : IsChain(L)
      BY DEF Orderly, Chained
    <3>2. \A v \in Users : act'[v] = "asleep" <=> act[v] = "asleep" /\ v # h
      BY <1>1, <2>1, <2>2
    <3>3. \E M \in Seq(Users) : IsChain(M)'
      BY <1>2, <2>1, <2>4, <3>1, <3>2, ChainPopped DEF h
    <3> QED
      BY <3>3 DEF Chained
  <2>6. SeenInv'
    <3>1. \A w \in Users \ {u} : act[w] \notin {"read", "pop"}
      BY <1>3 DEF NotifyPop, Races
    <3>2. \A w \in Users : act'[w] \notin {"read", "pop"}
      BY <2>2, <3>1
    <3> QED
      BY <3>2 DEF SeenInv
  <2>7. TokenInv'
    <3> DEFINE A == OnTheWay \ {u}
    <3>1. /\ OnTheWay \in SUBSET Users /\ A \in SUBSET Users /\ OnTheWay' \in SUBSET Users
          /\ u \in OnTheWay /\ h \notin A
          /\ OnTheWay' = A \cup {h}
      BY <1>1, <2>1, <2>2 DEF OnTheWay
    <3> HIDE DEF A
    <3>2. Cardinality(A) = Cardinality(OnTheWay) - 1
      BY <3>1, CountFacts DEF A
    <3>3. Cardinality(OnTheWay') = Cardinality(A) + 1
      BY <2>1, <3>1, CountFacts
    <3>4. Cardinality(OnTheWay) \in Nat
      BY <3>1, CountFacts
    <3>5. Cardinality(OnTheWay)' = Cardinality(OnTheWay)
      BY <3>2, <3>3, <3>4
    <3>6. \A w \in Users : /\ act'[w] = "push" => act[w] = "push"
                           /\ act'[w] = "asleep" => act[w] = "asleep"
      BY <2>1, <2>2
    <3> QED
      BY <2>1, <3>5, <3>6 DEF Orderly, TokenInv
  <2> QED
    BY <2>4, <2>5, <2>6, <2>7 DEF Orderly
<1>4. CASE head # seen[u][1]
  <2>1. /\ seen' = [seen EXCEPT ![u] = <<head, Null>>] /\ Stays
        /\ act' = [act EXCEPT ![u] = "read"] /\ UNCHANGED <<head, next, tokens>>
    BY <1>4 DEF NotifyPop, Become, Stays
  <2>2. OfUsers(act') /\ act'[u] = "read" /\ \A w \in Users \ {u} : act'[w] = act[w]
    BY <2>1 DEF LockInv, OfUsers
  <2>4. Chained'
    BY <1>1, <2>1, <2>2, ChainedKept
  <2>5. CvTypes' /\ seen'[u][1] = head /\ \A w \in Users \ {u} : seen'[w] = seen[w]
    BY <2>1 DEF Orderly, CvTypes
  <2>6. SeenInv'
    BY <1>1, <1>2, <2>1, <2>2, <2>5 DEF Orderly, SeenInv, Notifying
  <2>7. OnTheWay \subseteq OnTheWay'
    BY <1>1, <2>2 DEF OnTheWay
  <2>8. TokenInv'
    BY <1>1, <2>1, <2>2, <2>7, TokensKept
  <2> QED
    BY <2>4, <2>5, <2>6, <2>8 DEF Orderly
<1> QED
  BY <1>3, <1>4

\* notify_all takes the list and resumes exactly those who sleep.
LEMMA NotifyAllInv ==
  ASSUME LockInv, Orderly, NEW u \in Users, NotifyAll(u), ~raced'
  PROVE  Orderly'
<1>1. /\ act[u] = "load" /\ head' = Null /\ (Stays \/ Leaves(u))
      /\ act' = [w \in Users |->
                   IF w = u THEN "notifier"
                   ELSE IF Contains(Chain, w) THEN "notified" ELSE act[w]]
      /\ UNCHANGED <<next, seen, tokens>>
  BY DEF NotifyAll, Leaves, Stays
<1>2. \A w \in Users : Contains(Chain, w) <=> act[w] = "asleep"
  <2>1. PICK L \in Seq(Users) : IsChain(L)
    BY DEF Orderly, Chained
  <2>2. Chain = L
    BY <2>1, ChainIs
  <2> QED
    BY <2>1, <2>2 DEF IsChain
<1>3. /\ OfUsers(act') /\ act'[u] = "notifier"
      /\ \A w \in Users \ {u} : act'[w] = IF act[w] = "asleep" THEN "notified" ELSE act[w]
  BY <1>1, <1>2 DEF OfUsers
<1>4. \A w \in Users : act'[w] # "asleep"
  BY <1>3
<1>6. Chained'
  <2>1. \E M \in Seq(Users) : IsChain(M)'
    BY <1>1, <1>4, ChainEmpty
  <2> QED
    BY <2>1 DEF Chained
<1>7. SeenInv'
  <2>1. \A w \in Users \ {u} : act[w] \notin {"read", "pop"}
    BY DEF NotifyAll, Races
  <2> QED
    BY <1>3, <2>1 DEF SeenInv
<1>8. TokenInv'
  BY <1>1, <1>3, <1>4 DEF Orderly, TokenInv
<1> QED
  BY <1>1, <1>6, <1>7, <1>8 DEF Orderly, CvTypes


-----------------------------------------------------------------------------
(* The channel.                                                            *)

SendLabels ==
  {"producer", "send", "send full", "send waits", "send resumed", "send failed"}
RecvLabels ==
  {"consumer", "recv", "recv empty", "recv waits", "recv resumed", "recv closed"}
ChActs == SendLabels \cup RecvLabels \cup {"destroy", "wake"}

\* Who has a handle that is not closed.
Senders == {u \in Users : act[u] \in SendLabels}
Receivers == {u \in Users : act[u] \in RecvLabels}

\* A value its sender has begun to send, and of which nothing is decided.
Unsettled == {"send", "send full", "send waits"}
Pending(u) == act[u] \in Unsettled \/ (act[u] = "send resumed" /\ res[u] = Null)

ChTypes ==
  /\ count \in [Users -> 0 .. MaxSends]
  /\ handles \in [send : Nat, recv : Nat]
  /\ wsend \in Seq(Users) /\ wrecv \in Seq(Users) /\ OfUsers(res)
  /\ \A u \in Users : act[u] \in Unsettled \cup {"send resumed"} => count[u] # 0

\* Only what was sent is anywhere, and it is there once.
ValueInv ==
  /\ RingOK(ring) /\ Buffered(ring) \in Seq(Started)
  /\ got \in Seq(Started) /\ refused \subseteq Started
  /\ ExactlyOnce

\* The counters are not below the number of open handles, and the channel is
\* destroyed once, after one of them has become 0.
HandleInv ==
  /\ Cardinality(Senders) <= handles.send
  /\ Cardinality(Receivers) <= handles.recv
  /\ closed \/ (\E u \in Users : act[u] \in {"destroy", "wake"})
       => handles.send = 0 \/ handles.recv = 0
  /\ \A u \in Users : act[u] = "wake" => closed
  /\ \A u, v \in Users : act[u] = "wake" /\ act[v] = "wake" => u = v

\* destroy does not clear _waiting_receivers: what it leaves there is stale,
\* but then no sender is left to look at it.
InUse == ~closed \/ (\E u \in Users : act[u] = "wake") \/ handles.send # 0

QueueInv ==
  /\ Distinct(wsend) /\ \A u \in Users : Contains(wsend, u) => act[u] = "send waits"
  /\ InUse => /\ Distinct(wrecv)
              /\ \A u \in Users : Contains(wrecv, u) => act[u] = "recv waits"

\* What an awaiter has found under the mutex is so until it is in its list.
DecisionInv ==
  /\ \A u \in Users : act[u] = "send full" => wrecv = << >> /\ IsFill(ring)
  /\ \A u \in Users : act[u] = "recv empty" => wsend = << >> /\ IsEmpty(ring)
  /\ NobodyWaitsInVain

\* A result is set when its value is handed over; and a receiver that is told
\* ClosedChannel, or will be, leaves nothing behind.
Refusing(u) == act[u] = "recv closed" \/ (act[u] = "recv resumed" /\ res[u] = Null)

ResultInv ==
  /\ \A u \in Users : act[u] \in Unsettled => res[u] = Null
  /\ \A u \in Users : Refusing(u) => handles.send = 0 /\ IsEmpty(ring)

ChInv ==
  ChTypes /\ ValueInv /\ HandleInv /\ QueueInv /\ DecisionInv /\ ResultInv

\* A coroutine's step gives it another label.
LEMMA Relabelled ==
  ASSUME LockInv, NEW u \in Users, NEW l, Become(u, l),
         Enters(u) \/ Stays \/ Leaves(u), l \in HeldActs => Stays /\ Inside(u)
  PROVE  LockInv' /\ act'[u] = l /\ \A w \in Users \ {u} : act'[w] = act[w]
<1>1. OfUsers(act') /\ act'[u] = l /\ \A w \in Users \ {u} : act'[w] = act[w]
  BY DEF LockInv, OfUsers, Become
<1> QED
  BY <1>1, UserKeepsLock

\* A value and its coroutine.
LEMMA ValueFacts ==
  ASSUME ChTypes
  PROVE  /\ \A v : v \in Started <=> v \in Sendable /\ v[2] <= count[v[1]]
         /\ \A v \in Started : v[1] \in Users
         /\ \A u \in Users : Value(u)[1] = u
         /\ \A u \in Users : count[u] # 0 => Value(u) \in Started
         /\ \A v \in Started : WithSender(v) <=> v = Value(v[1]) /\ Pending(v[1])
         /\ Null \notin Started
<1>1. \A u \in Users : count[u] \in 0 .. MaxSends /\ MaxSends \in Nat
  BY ChannelAssumption DEF ChTypes
<1>2. ASSUME NEW u \in Users, count[u] # 0 PROVE Value(u) \in Started
  <2>1. count[u] \in 1 .. MaxSends /\ count[u] <= count[u]
    BY <1>1, <1>2
  <2> QED
    BY <2>1 DEF Value, Started
<1> QED
  BY <1>2, ChannelAssumption DEF Value, Started, Sendable, WithSender, Pending, Unsettled

\* How often a value is somewhere.
TimesOf(v) ==
  (IF WithSender(v) THEN 1 ELSE 0) + (IF v \in refused THEN 1 ELSE 0)
  + Times(got, v) + Times(Buffered(ring), v)

\* ExactlyOnce, by counting.
LEMMA OnceTimes == ExactlyOnce <=> \A v \in Started : TimesOf(v) = 1
BY DEF ExactlyOnce, TimesOf, Times

\* Steps that neither begin to send nor settle a value.
LEMMA ValuesKept ==
  ASSUME ChInv, UNCHANGED <<ring, got, refused, count>>,
         \A w \in Users : Pending(w)' <=> Pending(w)
  PROVE  ValueInv'
<1>1. Started' = Started /\ \A w \in Users : Value(w)' = Value(w)
  BY DEF Started, Value
<1>2. \A v \in Started : WithSender(v)' <=> WithSender(v)
  <2>1. \A v \in Started : v[1] \in Users
    BY DEF Started
  <2>2. \A v \in Started : WithSender(v) <=> v = Value(v[1]) /\ Pending(v[1])
    BY DEF WithSender, Pending, Unsettled
  <2>3. \A v \in Started : WithSender(v)' <=> v = Value(v[1])' /\ Pending(v[1])'
    BY DEF WithSender, Pending, Unsettled
  <2> QED
    BY <1>1, <2>1, <2>2, <2>3
<1>3. ValueInv
  BY DEF ChInv
<1>4. ExactlyOnce'
  BY <1>1, <1>2, <1>3 DEF ValueInv, ExactlyOnce
<1>5. RingOK(ring)' /\ Buffered(ring)' = Buffered(ring)
  BY <1>3 DEF ValueInv, RingOK, Cell
<1> QED
  BY <1>1, <1>3, <1>4, <1>5 DEF ValueInv

\* A value is settled: a receiver is given it, or the buffer, or its sender is
\* told that the channel is closed.
LEMMA ValueSettled ==
  ASSUME ChInv, UNCHANGED count, NEW s \in Users, Pending(s), ~Pending(s)',
         \A w \in Users \ {s} : Pending(w)' <=> Pending(w),
         \/ got' = Append(got, Value(s)) /\ UNCHANGED <<ring, refused>>
         \/ refused' = refused \cup {Value(s)} /\ UNCHANGED <<ring, got>>
         \/ ~IsFill(ring) /\ ring' = SafetyPush(ring, Value(s)) /\ UNCHANGED <<got, refused>>
  PROVE  ValueInv'
<1> DEFINE b == Buffered(ring)
<1>0. PICK x : x = Value(s)
  OBVIOUS
<1>1. Started' = Started /\ \A w \in Users : Value(w)' = Value(w)
  BY DEF Started, Value
<1>2. /\ x \in Started /\ x \in Sendable /\ x[1] = s
      /\ \A v \in Started : v[1] \in Users
      /\ \A v \in Started : WithSender(v) <=> v = Value(v[1]) /\ Pending(v[1])
  BY <1>0, ValueFacts DEF ChInv, ChTypes, Pending
<1>3. \A v \in Started : WithSender(v)' <=> v = Value(v[1])' /\ Pending(v[1])'
  BY DEF WithSender, Pending, Unsettled
<1>4. /\ RingOK(ring) /\ b \in Seq(Started) /\ got \in Seq(Started)
      /\ refused \subseteq Started /\ \A v \in Started : TimesOf(v) = 1
  BY OnceTimes DEF ChInv, ValueInv
<1>5. \A v \in Started : Times(got, v) \in Nat /\ Times(b, v) \in Nat
  BY <1>4, TimesType
<1>6. WithSender(x) /\ ~WithSender(x)'
  BY <1>0, <1>1, <1>2, <1>3
<1>7. \A v \in Started \ {x} : WithSender(v)' <=> WithSender(v)
  <2>1. ASSUME NEW v \in Started \ {x}, v[1] = s PROVE ~WithSender(v) /\ ~WithSender(v)'
    BY <1>0, <1>1, <1>2, <1>3, <2>1
  <2>2. ASSUME NEW v \in Started \ {x}, v[1] # s PROVE WithSender(v)' <=> WithSender(v)
    BY <1>1, <1>2, <1>3, <2>2
  <2> QED
    BY <2>1, <2>2
<1> HIDE DEF b
<1>8. \A v \in Started : TimesOf(v) = (IF WithSender(v) THEN 1 ELSE 0)
         + (IF v \in refused THEN 1 ELSE 0) + Times(got, v) + Times(b, v)
  BY DEF TimesOf, b
<1>9. x \notin refused /\ Times(got, x) = 0 /\ Times(b, x) = 0
  BY <1>2, <1>4, <1>5, <1>6, <1>8
<1>10. \A v \in Started : TimesOf(v)' = (IF WithSender(v)' THEN 1 ELSE 0)
         + (IF v \in refused' THEN 1 ELSE 0) + Times(got', v) + Times(Buffered(ring'), v)
  <2>1. \A v : Times(got, v)' = Times(got', v) /\ Times(Buffered(ring), v)' = Times(Buffered(ring'), v)
    BY DEF Times, Buffered, Size
  <2> QED
    BY <2>1 DEF TimesOf
<1>14. (\A v \in Started : TimesOf(v)' = 1) => ExactlyOnce'
  <2>1. (\A v \in Started : TimesOf(v) = 1)' => ExactlyOnce'
    BY OnceTimes, PTL
  <2> QED
    BY <1>1, <2>1
<1>11. CASE got' = Append(got, x) /\ UNCHANGED <<ring, refused>>
  <2>1. got' \in Seq(Started) /\ Buffered(ring') = b /\ RingOK(ring')
    BY <1>2, <1>4, <1>11, AppendProperties DEF b
  <2>2. \A v \in Started : Times(got', v) = Times(got, v) + (IF v = x THEN 1 ELSE 0)
    BY <1>2, <1>4, <1>11, TimesAppend
  <2>3. ASSUME NEW v \in Started PROVE TimesOf(v)' = 1
    <3> DEFINE n == Times(got, v)
               m == Times(b, v)
               N == Times(got', v)
               M == Times(Buffered(ring'), v)
               P == TimesOf(v)'
    <3>1. Times(got', v) = Times(got, v) + (IF v = x THEN 1 ELSE 0)
          /\ Times(Buffered(ring'), v) = Times(b, v) /\ (v \in refused' <=> v \in refused)
      BY <1>11, <2>1, <2>2
    <3>2. P = (IF WithSender(v)' THEN 1 ELSE 0) + (IF v \in refused' THEN 1 ELSE 0) + N + M
      BY <1>10
    <3>3. 1 = (IF WithSender(v) THEN 1 ELSE 0) + (IF v \in refused THEN 1 ELSE 0) + n + m
      BY <1>4, <1>8
    <3>4. n \in Nat /\ m \in Nat
      BY <1>5
    <3>5. v = x => ~WithSender(v)' /\ v \notin refused /\ n = 0 /\ m = 0
      BY <1>6, <1>9
    <3>6. v # x => (WithSender(v)' <=> WithSender(v))
      BY <1>7
    <3> HIDE DEF n, m, N, M, P
    <3>7. CASE v = x
      <4>1. P = 1
        BY <3>1, <3>2, <3>5, <3>7 DEF n, m, N, M
      <4> QED
        BY <4>1 DEF P
    <3>8. CASE v # x
      <4>1. N = n /\ M = m /\ (v \in refused' <=> v \in refused)
        BY <3>1, <3>4, <3>8 DEF n, m, N, M
      <4>2. P = 1
        BY <3>2, <3>3, <3>4, <3>6, <3>8, <4>1
      <4> QED
        BY <4>2 DEF P
    <3> QED
      BY <3>7, <3>8
  <2>4. ExactlyOnce'
    BY <1>14, <2>3
  <2> QED
    BY <1>1, <1>4, <1>11, <2>1, <2>4 DEF ValueInv
<1>12. CASE refused' = refused \cup {x} /\ UNCHANGED <<ring, got>>
  <2>1. refused' \subseteq Started /\ Buffered(ring') = b /\ RingOK(ring')
    BY <1>2, <1>4, <1>12 DEF b
  <2>3. ASSUME NEW v \in Started PROVE TimesOf(v)' = 1
    <3> DEFINE n == Times(got, v)
               m == Times(b, v)
               N == Times(got', v)
               M == Times(Buffered(ring'), v)
               P == TimesOf(v)'
    <3>1. Times(got', v) = Times(got, v) /\ Times(Buffered(ring'), v) = Times(b, v)
          /\ (v \in refused' <=> v \in refused \/ v = x)
      BY <1>12, <2>1
    <3>2. P = (IF WithSender(v)' THEN 1 ELSE 0) + (IF v \in refused' THEN 1 ELSE 0) + N + M
      BY <1>10
    <3>3. 1 = (IF WithSender(v) THEN 1 ELSE 0) + (IF v \in refused THEN 1 ELSE 0) + n + m
      BY <1>4, <1>8
    <3>4. n \in Nat /\ m \in Nat
      BY <1>5
    <3>5. v = x => ~WithSender(v)' /\ v \notin refused /\ n = 0 /\ m = 0
      BY <1>6, <1>9
    <3>6. v # x => (WithSender(v)' <=> WithSender(v))
      BY <1>7
    <3> HIDE DEF n, m, N, M, P
    <3>7. CASE v = x
      <4>1. P = 1
        BY <3>1, <3>2, <3>5, <3>7 DEF n, m, N, M
      <4> QED
        BY <4>1 DEF P
    <3>8. CASE v # x
      <4>1. N = n /\ M = m /\ (v \in refused' <=> v \in refused)
        BY <3>1, <3>4, <3>8 DEF n, m, N, M
      <4>2. P = 1
        BY <3>2, <3>3, <3>4, <3>6, <3>8, <4>1
      <4> QED
        BY <4>2 DEF P
    <3> QED
      BY <3>7, <3>8
  <2>4. ExactlyOnce'
    BY <1>14, <2>3
  <2> QED
    BY <1>1, <1>4, <1>12, <2>1, <2>4 DEF ValueInv
<1>13. CASE ~IsFill(ring) /\ ring' = SafetyPush(ring, x) /\ UNCHANGED <<got, refused>>
  <2>1. RingOK(ring') /\ Buffered(ring') = Append(b, x)
    BY <1>2, <1>4, <1>13, PushFacts DEF b
  <2>2. Append(b, x) \in Seq(Started)
    BY <1>2, <1>4, AppendProperties
  <2>3. \A v \in Started :
          Times(Buffered(ring'), v) = Times(b, v) + (IF v = x THEN 1 ELSE 0)
    BY <1>2, <1>4, <2>1, TimesAppend
  <2>4. ASSUME NEW v \in Started PROVE TimesOf(v)' = 1
    <3> DEFINE n == Times(got, v)
               m == Times(b, v)
               N == Times(got', v)
               M == Times(Buffered(ring'), v)
               P == TimesOf(v)'
    <3>1. Times(got', v) = Times(got, v) /\ (v \in refused' <=> v \in refused)
          /\ Times(Buffered(ring'), v) = Times(b, v) + (IF v = x THEN 1 ELSE 0)
      BY <1>13, <2>3
    <3>2. P = (IF WithSender(v)' THEN 1 ELSE 0) + (IF v \in refused' THEN 1 ELSE 0) + N + M
      BY <1>10
    <3>3. 1 = (IF WithSender(v) THEN 1 ELSE 0) + (IF v \in refused THEN 1 ELSE 0) + n + m
      BY <1>4, <1>8
    <3>4. n \in Nat /\ m \in Nat
      BY <1>5
    <3>5. v = x => ~WithSender(v)' /\ v \notin refused /\ n = 0 /\ m = 0
      BY <1>6, <1>9
    <3>6. v # x => (WithSender(v)' <=> WithSender(v))
      BY <1>7
    <3> HIDE DEF n, m, N, M, P
    <3>7. CASE v = x
      <4>1. P = 1
        BY <3>1, <3>2, <3>5, <3>7 DEF n, m, N, M
      <4> QED
        BY <4>1 DEF P
    <3>8. CASE v # x
      <4>1. N = n /\ M = m /\ (v \in refused' <=> v \in refused)
        BY <3>1, <3>4, <3>8 DEF n, m, N, M
      <4>2. P = 1
        BY <3>2, <3>3, <3>4, <3>6, <3>8, <4>1
      <4> QED
        BY <4>2 DEF P
    <3> QED
      BY <3>7, <3>8
  <2>5. ExactlyOnce'
    BY <1>14, <2>4
  <2> QED
    BY <1>1, <1>4, <1>13, <2>1, <2>2, <2>5 DEF ValueInv
<1> QED
  BY <1>0, <1>11, <1>12, <1>13

\* Somebody who has a handle is counted.
LEMMA Counted ==
  ASSUME ChInv
  PROVE  /\ \A u \in Users : act[u] \in SendLabels => handles.send # 0
         /\ \A u \in Users : act[u] \in RecvLabels => handles.recv # 0
<1>1. Senders \in SUBSET Users /\ Receivers \in SUBSET Users
  BY DEF Senders, Receivers
<1>2. handles.send \in Nat /\ handles.recv \in Nat
      /\ Cardinality(Senders) <= handles.send /\ Cardinality(Receivers) <= handles.recv
  BY DEF ChInv, ChTypes, HandleInv
<1>3. ASSUME NEW A \in SUBSET Users, NEW u \in A PROVE Cardinality(A) \in Nat \ {0}
  <2>1. A \ {u} \in SUBSET Users
    OBVIOUS
  <2>2. Cardinality(A) \in Nat /\ Cardinality(A \ {u}) \in Nat
        /\ Cardinality(A \ {u}) = Cardinality(A) - 1
    BY <2>1, CountFacts
  <2> QED
    BY <2>2
<1>4. /\ \A u \in Senders : Cardinality(Senders) \in Nat \ {0}
      /\ \A u \in Receivers : Cardinality(Receivers) \in Nat \ {0}
  BY <1>1, <1>3
<1>5. /\ \A u \in Users : act[u] \in SendLabels => u \in Senders
      /\ \A u \in Users : act[u] \in RecvLabels => u \in Receivers
  BY DEF Senders, Receivers
<1> HIDE DEF SendLabels, RecvLabels
<1>6. ASSUME NEW u \in Users, act[u] \in SendLabels PROVE handles.send # 0
  <2>1. Cardinality(Senders) \in Nat \ {0}
    BY <1>4, <1>5, <1>6
  <2> QED
    BY <1>2, <2>1
<1>7. ASSUME NEW u \in Users, act[u] \in RecvLabels PROVE handles.recv # 0
  <2>1. Cardinality(Receivers) \in Nat \ {0}
    BY <1>4, <1>5, <1>7
  <2> QED
    BY <1>2, <2>1
<1> QED
  BY <1>6, <1>7

\* Steps that open or close no handle.
LEMMA HandlesKept ==
  ASSUME ChInv, UNCHANGED <<handles, closed>>,
         \A w \in Users : /\ act'[w] \in SendLabels <=> act[w] \in SendLabels
                          /\ act'[w] \in RecvLabels <=> act[w] \in RecvLabels
                          /\ act'[w] = "destroy" <=> act[w] = "destroy"
                          /\ act'[w] = "wake" <=> act[w] = "wake"
  PROVE  HandleInv'
<1>1. Senders' = Senders /\ Receivers' = Receivers
  <2> HIDE DEF SendLabels, RecvLabels
  <2> QED
    BY DEF Senders, Receivers
<1>2. /\ Cardinality(Senders)' = Cardinality(Senders)
      /\ Cardinality(Receivers)' = Cardinality(Receivers)
  BY <1>1
<1> QED
  BY <1>2 DEF ChInv, HandleInv

\* Steps that leave the lists, and those who are in them, alone.
LEMMA ListsKept ==
  ASSUME ChInv, UNCHANGED <<wsend, wrecv>>, InUse' => InUse,
         \A w \in Users : act[w] \in {"send waits", "recv waits"} => act'[w] = act[w]
  PROVE  QueueInv'
BY DEF ChInv, QueueInv

\* Steps of other coroutines.
LEMMA ChQuiet ==
  ASSUME ChInv, UNCHANGED chVars,
         \A u \in Users : act'[u] = act[u] \/ (act[u] \notin ChActs /\ act'[u] \notin ChActs)
  PROVE  ChInv'
<1>1. \A u \in Users : \A l \in ChActs : act'[u] = l <=> act[u] = l
  OBVIOUS
<1>2. UNCHANGED <<ring, wsend, wrecv, closed, handles, count, res, got, refused>>
  BY DEF chVars
<1>3. \A w \in Users : /\ act'[w] \in SendLabels <=> act[w] \in SendLabels
                       /\ act'[w] \in RecvLabels <=> act[w] \in RecvLabels
                       /\ act'[w] = "destroy" <=> act[w] = "destroy"
                       /\ act'[w] = "wake" <=> act[w] = "wake"
                       /\ act[w] \in {"send waits", "recv waits"} => act'[w] = act[w]
                       /\ act'[w] \in Unsettled <=> act[w] \in Unsettled
                       /\ act'[w] = "send resumed" <=> act[w] = "send resumed"
                       /\ act'[w] = "recv closed" <=> act[w] = "recv closed"
                       /\ act'[w] = "recv resumed" <=> act[w] = "recv resumed"
                       /\ act'[w] = "send full" <=> act[w] = "send full"
                       /\ act'[w] = "recv empty" <=> act[w] = "recv empty"
  BY <1>1 DEF ChActs, SendLabels, RecvLabels, Unsettled
<1>4. HandleInv'
  BY <1>2, <1>3, HandlesKept
<1>5. QueueInv'
  <2>1. InUse' => InUse
    BY <1>2, <1>3 DEF InUse
  <2> QED
    BY <1>2, <1>3, <2>1, ListsKept
<1>6. ValueInv'
  <2>1. \A w \in Users : Pending(w)' <=> Pending(w)
    BY <1>2, <1>3 DEF Pending
  <2> QED
    BY <1>2, <2>1, ValuesKept
<1>7. DecisionInv'
  BY <1>2, <1>3 DEF ChInv, DecisionInv, NobodyWaitsInVain
<1>8. ResultInv'
  BY <1>2, <1>3 DEF ChInv, ResultInv, Refusing
<1>9. ChTypes'
  BY <1>2, <1>3 DEF ChInv, ChTypes, OfUsers
<1> QED
  BY <1>4, <1>5, <1>6, <1>7, <1>8, <1>9 DEF ChInv

\* Handles are copied and closed by coroutines that neither send nor receive.
LEMMA HandleStep ==
  ASSUME LockInv, ChInv, NEW x \in Users, NEW l, Become(x, l), Stays,
         UNCHANGED <<ring, wsend, wrecv, count, res, got, refused>>,
         act[x] \notin Unsettled \cup HeldActs \cup
                  {"send waits", "recv waits", "send resumed", "recv resumed"},
         l \notin Unsettled \cup HeldActs \cup
                  {"send waits", "recv waits", "send resumed", "recv resumed", "recv closed"},
         handles' \in [send : Nat, recv : Nat],
         handles.send = 0 => handles'.send = 0,
         InUse' => InUse, HandleInv'
  PROVE  LockInv' /\ ChInv'
<1>1. LockInv' /\ act'[x] = l /\ \A w \in Users \ {x} : act'[w] = act[w]
  BY Relabelled
<1>2. \A w \in Users : /\ act[w] \in {"send waits", "recv waits"} => act'[w] = act[w]
                       /\ act'[w] \in Unsettled <=> act[w] \in Unsettled
                       /\ act'[w] = "send resumed" <=> act[w] = "send resumed"
                       /\ act'[w] = "recv resumed" <=> act[w] = "recv resumed"
                       /\ act'[w] = "recv closed" => act[w] = "recv closed"
                       /\ act'[w] = "send full" => act[w] = "send full"
                       /\ act'[w] = "recv empty" => act[w] = "recv empty"
  BY <1>1 DEF HeldActs, Unsettled
<1>3. QueueInv'
  BY <1>2, ListsKept
<1>4. ValueInv'
  <2>1. \A w \in Users : Pending(w)' <=> Pending(w)
    BY <1>2 DEF Pending
  <2> QED
    BY <2>1, ValuesKept
<1>5. DecisionInv'
  BY <1>2 DEF ChInv, DecisionInv, NobodyWaitsInVain
<1>6. ResultInv'
  BY <1>2 DEF ChInv, ResultInv, Refusing
<1>7. ChTypes'
  BY <1>2 DEF ChInv, ChTypes, OfUsers
<1> QED
  BY <1>1, <1>3, <1>4, <1>5, <1>6, <1>7 DEF ChInv

\* One handle less, of one or more.
LEMMA OneLess ==
  ASSUME NEW n \in Nat, n # 0
  PROVE  n - 1 \in Nat /\ (n = 1 => n - 1 = 0)
OBVIOUS

\* One handle more, or less.
LEMMA HandleCounts ==
  ASSUME NEW h \in [send : Nat, recv : Nat], NEW n \in Nat
  PROVE  /\ h.send \in Nat /\ h.recv \in Nat
         /\ [h EXCEPT !.send = n] \in [send : Nat, recv : Nat]
         /\ [h EXCEPT !.send = n].send = n /\ [h EXCEPT !.send = n].recv = h.recv
         /\ [h EXCEPT !.recv = n] \in [send : Nat, recv : Nat]
         /\ [h EXCEPT !.recv = n].recv = n /\ [h EXCEPT !.recv = n].send = h.send
OBVIOUS

\* A handle more.
LEMMA CopyInv ==
  ASSUME LockInv, ChInv, NEW u \in Users, NEW v \in Users,
         CopySender(u, v) \/ CopyReceiver(u, v)
  PROVE  LockInv' /\ ChInv'
<1>1. /\ Stays /\ UNCHANGED <<ring, wsend, wrecv, closed, count, res, got, refused>>
      /\ \/ /\ act[u] = "producer" /\ act[v] = "new producer" /\ Become(v, "producer")
            /\ handles' = [handles EXCEPT !.send = @ + 1]
         \/ /\ act[u] = "consumer" /\ act[v] = "new consumer" /\ Become(v, "consumer")
            /\ handles' = [handles EXCEPT !.recv = @ + 1]
  BY DEF CopySender, CopyReceiver, Stays
<1>0. /\ act[u] = "producer" => handles.send # 0
      /\ act[u] = "consumer" => handles.recv # 0
  BY Counted DEF SendLabels, RecvLabels
<1>2. /\ handles \in [send : Nat, recv : Nat] /\ handles' \in [send : Nat, recv : Nat]
      /\ act[u] = "producer" => handles'.send = handles.send + 1 /\ handles'.recv = handles.recv
                                /\ handles.send # 0
      /\ act[u] = "consumer" => handles'.recv = handles.recv + 1 /\ handles'.send = handles.send
                                /\ handles.recv # 0
  <2>1. handles \in [send : Nat, recv : Nat]
    BY DEF ChInv, ChTypes
  <2>2. handles.send \in Nat /\ handles.recv \in Nat
    BY <2>1, HandleCounts
  <2>3. handles.send + 1 \in Nat /\ handles.recv + 1 \in Nat
    BY <2>2
  <2>4. CASE act[u] = "producer"
    <3>1. handles' = [handles EXCEPT !.send = handles.send + 1]
      BY <1>1, <2>4
    <3>2. /\ handles' \in [send : Nat, recv : Nat]
          /\ handles'.send = handles.send + 1 /\ handles'.recv = handles.recv
      BY <2>1, <2>3, <3>1, HandleCounts
    <3> QED
      BY <1>0, <2>1, <2>4, <3>2
  <2>5. CASE act[u] = "consumer"
    <3>1. handles' = [handles EXCEPT !.recv = handles.recv + 1]
      BY <1>1, <2>5
    <3>2. /\ handles' \in [send : Nat, recv : Nat]
          /\ handles'.recv = handles.recv + 1 /\ handles'.send = handles.send
      BY <2>1, <2>3, <3>1, HandleCounts
    <3> QED
      BY <1>0, <2>1, <2>5, <3>2
  <2> QED
    BY <1>1, <2>4, <2>5
<1>3. /\ \A w \in Users \ {v} : act'[w] = act[w]
      /\ act'[v] = IF act[u] = "producer" THEN "producer" ELSE "consumer"
  BY <1>1 DEF LockInv, OfUsers, Become
<1>4. /\ Senders' = (IF act[u] = "producer" THEN Senders \cup {v} ELSE Senders)
      /\ Receivers' = (IF act[u] = "consumer" THEN Receivers \cup {v} ELSE Receivers)
      /\ v \in Users \ Senders /\ v \in Users \ Receivers
      /\ Senders \in SUBSET Users /\ Receivers \in SUBSET Users
      /\ Senders' \in SUBSET Users /\ Receivers' \in SUBSET Users
  BY <1>1, <1>3 DEF Senders, Receivers, SendLabels, RecvLabels
<1>5. /\ Cardinality(Senders) \in Nat /\ Cardinality(Receivers) \in Nat
      /\ Cardinality(Senders') = Cardinality(Senders) + (IF act[u] = "producer" THEN 1 ELSE 0)
      /\ Cardinality(Receivers') = Cardinality(Receivers) + (IF act[u] = "consumer" THEN 1 ELSE 0)
  BY <1>4, CountFacts
<1>6. /\ Cardinality(Senders) <= handles.send /\ Cardinality(Receivers) <= handles.recv
      /\ closed \/ (\E w \in Users : act[w] \in {"destroy", "wake"})
           => handles.send = 0 \/ handles.recv = 0
      /\ \A w \in Users : act[w] = "wake" => closed
      /\ \A w, x \in Users : act[w] = "wake" /\ act[x] = "wake" => w = x
  BY DEF ChInv, HandleInv
<1>7. HandleInv'
  <2>1. Cardinality(Senders)' = Cardinality(Senders') /\ Cardinality(Receivers)' = Cardinality(Receivers')
    OBVIOUS
  <2>2. /\ Cardinality(Senders') <= handles'.send
        /\ Cardinality(Receivers') <= handles'.recv
    <3> DEFINE a == Cardinality(Senders)
               b == Cardinality(Receivers)
               c == Cardinality(Senders')
               d == Cardinality(Receivers')
               s == handles.send
               r == handles.recv
               t == handles'.send
               q == handles'.recv
    <3>1. /\ a \in Nat /\ b \in Nat /\ s \in Nat /\ r \in Nat /\ a <= s /\ b <= r
      BY <1>2, <1>5, <1>6
    <3>2. \/ c = a + 1 /\ d = b + 0 /\ t = s + 1 /\ q = r
          \/ c = a + 0 /\ d = b + 1 /\ t = s /\ q = r + 1
      BY <1>1, <1>2, <1>5
    <3> HIDE DEF a, b, c, d, s, r, t, q
    <3>3. c <= t /\ d <= q
      BY <3>1, <3>2
    <3> QED
      BY <3>3 DEF c, d, t, q
  <2>3. (\E w \in Users : act'[w] \in {"destroy", "wake"})
          => \E w \in Users : act[w] \in {"destroy", "wake"}
    BY <1>3
  <2>4. closed' \/ (\E w \in Users : act'[w] \in {"destroy", "wake"})
          => handles'.send = 0 \/ handles'.recv = 0
    BY <1>1, <1>2, <1>6, <2>3
  <2>5. \A w \in Users : act'[w] = "wake" => act[w] = "wake"
    BY <1>3
  <2> QED
    BY <1>1, <1>6, <2>1, <2>2, <2>4, <2>5 DEF HandleInv
<1>8. InUse' => InUse
  BY <1>1, <1>2, <1>3 DEF InUse
<1> QED
  BY <1>1, <1>2, <1>7, <1>8, HandleStep DEF Unsettled, HeldActs

\* A handle less; the last of its kind destroys the channel.
LEMMA CloseInv ==
  ASSUME LockInv, ChInv, NEW u \in Users, CloseSender(u) \/ CloseReceiver(u)
  PROVE  LockInv' /\ ChInv'
<1> DEFINE sends == act[u] \in {"producer", "send failed"}
           l == IF sends THEN (IF handles.send = 1 THEN "destroy" ELSE "gone")
                ELSE (IF handles.recv = 1 THEN "destroy" ELSE "gone")
<1>1. /\ Stays /\ UNCHANGED <<ring, wsend, wrecv, closed, count, res, got, refused>>
      /\ Become(u, l) /\ l \in {"destroy", "gone"}
      /\ \/ sends /\ handles' = [handles EXCEPT !.send = @ - 1]
         \/ /\ ~sends /\ act[u] \in {"consumer", "recv closed"}
            /\ handles' = [handles EXCEPT !.recv = @ - 1]
  BY DEF CloseSender, CloseReceiver, Stays
<1>0. /\ sends => handles.send # 0
      /\ ~sends => handles.recv # 0
  BY <1>1, Counted DEF SendLabels, RecvLabels
<1>2. /\ handles \in [send : Nat, recv : Nat]
      /\ sends => /\ handles.send # 0 /\ handles'.send = handles.send - 1
                  /\ handles'.recv = handles.recv
      /\ ~sends => /\ handles.recv # 0 /\ handles'.recv = handles.recv - 1
                   /\ handles'.send = handles.send
      /\ handles' \in [send : Nat, recv : Nat]
  <2>1. handles \in [send : Nat, recv : Nat]
    BY DEF ChInv, ChTypes
  <2>2. handles.send \in Nat /\ handles.recv \in Nat
    BY <2>1, HandleCounts
  <2>3. CASE sends
    <3>0. handles.send - 1 \in Nat
      <4>1. handles.send \in Nat /\ handles.send # 0
        BY <1>0, <2>2, <2>3
      <4> QED
        BY <4>1, OneLess
    <3>1. handles' = [handles EXCEPT !.send = handles.send - 1]
      BY <1>1, <2>3
    <3>2. /\ handles' \in [send : Nat, recv : Nat]
          /\ handles'.send = handles.send - 1 /\ handles'.recv = handles.recv
      BY <2>1, <3>0, <3>1, HandleCounts
    <3> QED
      BY <1>0, <2>1, <2>3, <3>2
  <2>4. CASE ~sends
    <3>0. handles.recv - 1 \in Nat
      <4>1. handles.recv \in Nat /\ handles.recv # 0
        BY <1>0, <2>2, <2>4
      <4> QED
        BY <4>1, OneLess
    <3>1. handles' = [handles EXCEPT !.recv = handles.recv - 1]
      BY <1>1, <2>4
    <3>2. /\ handles' \in [send : Nat, recv : Nat]
          /\ handles'.recv = handles.recv - 1 /\ handles'.send = handles.send
      BY <2>1, <3>0, <3>1, HandleCounts
    <3> QED
      BY <1>0, <2>1, <2>4, <3>2
  <2> QED
    BY <2>3, <2>4
<1>3. handles' \in [send : Nat, recv : Nat]
  BY <1>2
<1>4. (\A w \in Users \ {u} : act'[w] = act[w]) /\ act'[u] = l
  BY <1>1 DEF LockInv, OfUsers, Become
<1>5. /\ Senders' = (IF sends THEN Senders \ {u} ELSE Senders)
      /\ Receivers' = (IF sends THEN Receivers ELSE Receivers \ {u})
      /\ sends => u \in Senders
      /\ ~sends => u \in Receivers
      /\ Senders \in SUBSET Users /\ Receivers \in SUBSET Users
      /\ Senders' \in SUBSET Users /\ Receivers' \in SUBSET Users
  BY <1>1, <1>4 DEF Senders, Receivers, SendLabels, RecvLabels
<1>6. /\ Cardinality(Senders) \in Nat /\ Cardinality(Receivers) \in Nat
      /\ sends => /\ Cardinality(Senders') = Cardinality(Senders) - 1
                  /\ Cardinality(Receivers') = Cardinality(Receivers)
      /\ ~sends => /\ Cardinality(Senders') = Cardinality(Senders)
                   /\ Cardinality(Receivers') = Cardinality(Receivers) - 1
  <2> HIDE DEF sends
  <2> QED
    BY <1>5, CountFacts
<1>7. /\ Cardinality(Senders) <= handles.send /\ Cardinality(Receivers) <= handles.recv
      /\ closed \/ (\E w \in Users : act[w] \in {"destroy", "wake"})
           => handles.send = 0 \/ handles.recv = 0
      /\ \A w \in Users : act[w] = "wake" => closed
      /\ \A w, x \in Users : act[w] = "wake" /\ act[x] = "wake" => w = x
  BY DEF ChInv, HandleInv
<1>8. HandleInv'
  <2>1. Cardinality(Senders)' = Cardinality(Senders') /\ Cardinality(Receivers)' = Cardinality(Receivers')
    OBVIOUS
  <2>2. /\ Cardinality(Senders') <= handles'.send
        /\ Cardinality(Receivers') <= handles'.recv
    <3> DEFINE a == Cardinality(Senders)
               b == Cardinality(Receivers)
               c == Cardinality(Senders')
               d == Cardinality(Receivers')
               s == handles.send
               r == handles.recv
               t == handles'.send
               q == handles'.recv
    <3>1. /\ a \in Nat /\ b \in Nat /\ s \in Nat /\ r \in Nat /\ a <= s /\ b <= r
      BY <1>2, <1>6, <1>7
    <3>2. \/ c = a - 1 /\ d = b /\ t = s - 1 /\ q = r
          \/ c = a /\ d = b - 1 /\ t = s /\ q = r - 1
      BY <1>2, <1>6
    <3> HIDE DEF a, b, c, d, s, r, t, q
    <3>3. c <= t /\ d <= q
      BY <3>1, <3>2
    <3> QED
      BY <3>3 DEF c, d, t, q
  <2>3. l = "destroy" => handles'.send = 0 \/ handles'.recv = 0
    <3>1. CASE sends
      <4>1. handles.send # 1 => l = "gone"
        BY <3>1
      <4>2. handles.send = 1 => handles'.send = 0
        <5>1. /\ handles.send \in Nat /\ handles.send # 0
              /\ handles'.send = handles.send - 1
          BY <1>2, <3>1
        <5> QED
          BY <5>1, OneLess
      <4> HIDE DEF l
      <4> QED
        BY <4>1, <4>2
    <3>2. CASE ~sends
      <4>1. handles.recv # 1 => l = "gone"
        BY <3>2
      <4>2. handles.recv = 1 => handles'.recv = 0
        <5>1. /\ handles.recv \in Nat /\ handles.recv # 0
              /\ handles'.recv = handles.recv - 1
          BY <1>2, <3>2
        <5> QED
          BY <5>1, OneLess
      <4> HIDE DEF l
      <4> QED
        BY <4>1, <4>2
    <3> QED
      BY <3>1, <3>2
  <2>4. /\ handles.send = 0 => handles'.send = 0
        /\ handles.recv = 0 => handles'.recv = 0
    BY <1>2
  <2>5. closed' \/ (\E w \in Users : act'[w] \in {"destroy", "wake"})
          => handles'.send = 0 \/ handles'.recv = 0
    BY <1>1, <1>4, <1>7, <2>3, <2>4
  <2>6. \A w \in Users : act'[w] = "wake" => act[w] = "wake"
    BY <1>1, <1>4
  <2> QED
    BY <1>1, <1>7, <2>1, <2>2, <2>5, <2>6 DEF HandleInv
<1>9. InUse' => InUse
  <2>1. \A w \in Users : act'[w] = "wake" => act[w] = "wake"
    BY <1>1, <1>4
  <2>2. handles'.send # 0 => handles.send # 0
    BY <1>2
  <2> QED
    BY <1>1, <2>1, <2>2 DEF InUse
<1>10. handles.send = 0 => handles'.send = 0
  BY <1>2
<1>11. /\ act[u] \notin Unsettled \cup HeldActs \cup
                  {"send waits", "recv waits", "send resumed", "recv resumed"}
       /\ l \notin Unsettled \cup HeldActs \cup
                  {"send waits", "recv waits", "send resumed", "recv resumed", "recv closed"}
  BY <1>1 DEF Unsettled, HeldActs
<1> HIDE DEF l, sends
<1> QED
  BY <1>1, <1>3, <1>8, <1>9, <1>10, <1>11, HandleStep

\* The exchange of _is_closed.
LEMMA DestroyInv ==
  ASSUME LockInv, ChInv, NEW u \in Users, Destroy(u)
  PROVE  LockInv' /\ ChInv'
<1> DEFINE l == IF closed THEN "gone" ELSE "wake"
<1>1. /\ Stays /\ UNCHANGED <<ring, wsend, wrecv, handles, count, res, got, refused>>
      /\ act[u] = "destroy" /\ closed' /\ Become(u, l)
  BY DEF Destroy, Stays
<1>2. (\A w \in Users \ {u} : act'[w] = act[w]) /\ act'[u] = l
  BY <1>1 DEF LockInv, OfUsers, Become
<1>3. Senders' = Senders /\ Receivers' = Receivers
  BY <1>1, <1>2 DEF Senders, Receivers, SendLabels, RecvLabels
<1>4. /\ Cardinality(Senders) <= handles.send /\ Cardinality(Receivers) <= handles.recv
      /\ handles.send = 0 \/ handles.recv = 0
      /\ \A w \in Users : act[w] = "wake" => closed
      /\ \A w, x \in Users : act[w] = "wake" /\ act[x] = "wake" => w = x
  BY <1>1 DEF ChInv, HandleInv
<1>5. HandleInv'
  <2>1. Cardinality(Senders)' = Cardinality(Senders) /\ Cardinality(Receivers)' = Cardinality(Receivers)
    BY <1>3
  <2>2. \A w, x \in Users : act'[w] = "wake" /\ act'[x] = "wake" => w = x
    BY <1>2, <1>4
  <2> QED
    BY <1>1, <1>4, <2>1, <2>2 DEF HandleInv
<1>6. InUse' => InUse
  <2>1. \A w \in Users : act'[w] = "wake" => act[w] = "wake" \/ ~closed
    BY <1>2
  <2> QED
    BY <1>1, <2>1 DEF InUse
<1>7. handles' \in [send : Nat, recv : Nat] /\ (handles.send = 0 => handles'.send = 0)
  BY <1>1 DEF ChInv, ChTypes
<1>8. /\ act[u] \notin Unsettled \cup HeldActs \cup
                  {"send waits", "recv waits", "send resumed", "recv resumed"}
      /\ l \notin Unsettled \cup HeldActs \cup
                  {"send waits", "recv waits", "send resumed", "recv resumed", "recv closed"}
  BY <1>1 DEF Unsettled, HeldActs
<1> HIDE DEF l
<1> QED
  BY <1>1, <1>5, <1>6, <1>7, <1>8, HandleStep

\* Steps of coroutines that keep their handles.
LEMMA SidesKept ==
  ASSUME ChInv, UNCHANGED <<handles, closed>>,
         \A w \in Users : \/ act'[w] = act[w]
                          \/ act[w] \in SendLabels /\ act'[w] \in SendLabels
                          \/ act[w] \in RecvLabels /\ act'[w] \in RecvLabels
  PROVE  HandleInv' /\ (InUse' => InUse)
<1>1. \A w \in Users : /\ act'[w] \in SendLabels <=> act[w] \in SendLabels
                       /\ act'[w] \in RecvLabels <=> act[w] \in RecvLabels
                       /\ act'[w] = "destroy" <=> act[w] = "destroy"
                       /\ act'[w] = "wake" <=> act[w] = "wake"
  BY DEF SendLabels, RecvLabels
<1>2. InUse' => InUse
  BY <1>1 DEF InUse
<1> QED
  BY <1>1, <1>2, HandlesKept

\* Who is inside is alone in what it has found there.
LEMMA NobodyElse ==
  ASSUME LockInv, NEW u \in Users, Inside(u)
  PROVE  \A w \in Users \ {u} : act[w] # "send full" /\ act[w] # "recv empty"
BY InsideAlone DEF LockInv, HeldActs

\* destroy resumes whoever is in the lists.
LEMMA DestroyWakeInv ==
  ASSUME LockInv, ChInv, NEW u \in Users, DestroyWake(u)
  PROVE  LockInv' /\ ChInv'
<1>1. /\ act[u] = "wake" /\ Stays /\ wsend' = << >>
      /\ UNCHANGED <<ring, wrecv, closed, handles, count, res, got, refused>>
      /\ act' = [w \in Users |->
                   IF w = u THEN "gone"
                   ELSE IF Contains(wsend, w) THEN "send resumed"
                   ELSE IF Contains(wrecv, w) THEN "recv resumed" ELSE act[w]]
  BY DEF DestroyWake, Stays
<1>2. /\ closed /\ (handles.send = 0 \/ handles.recv = 0) /\ InUse
      /\ \A w \in Users : act[w] = "wake" => w = u
  BY <1>1 DEF ChInv, HandleInv, InUse
<1>3. /\ Distinct(wrecv)
      /\ \A w \in Users : Contains(wsend, w) => act[w] = "send waits"
      /\ \A w \in Users : Contains(wrecv, w) => act[w] = "recv waits"
  BY <1>2 DEF ChInv, QueueInv
<1>4. /\ OfUsers(act') /\ act'[u] = "gone"
      /\ \A w \in Users \ {u} :
           \/ act'[w] = act[w] /\ ~Contains(wsend, w) /\ ~Contains(wrecv, w)
           \/ act[w] = "send waits" /\ act'[w] = "send resumed"
           \/ act[w] = "recv waits" /\ act'[w] = "recv resumed" /\ Contains(wrecv, w)
  BY <1>1, <1>3 DEF OfUsers
<1>5. LockInv'
  BY <1>1, <1>4, UserKeepsLock DEF HeldActs
<1>6. HandleInv'
  <2>1. Senders' = Senders /\ Receivers' = Receivers
    BY <1>1, <1>4 DEF Senders, Receivers, SendLabels, RecvLabels
  <2>2. Cardinality(Senders)' = Cardinality(Senders) /\ Cardinality(Receivers)' = Cardinality(Receivers)
    BY <2>1
  <2>3. \A w \in Users : act'[w] # "wake"
    BY <1>2, <1>4
  <2> QED
    BY <1>1, <1>2, <2>2, <2>3 DEF ChInv, HandleInv
<1>7. QueueInv'
  <2>1. \A w \in Users : act'[w] # "wake"
    BY <1>2, <1>4
  <2>2. InUse' => handles.recv = 0
    BY <1>1, <1>2, <2>1 DEF InUse
  <2>3. InUse' => \A w \in Users : ~Contains(wrecv, w)
    BY <1>3, <2>2, Counted DEF RecvLabels
  <2> QED
    BY <1>1, <1>3, <2>3, EmptyList DEF QueueInv
<1>8. ValueInv'
  <2>1. \A w \in Users : act[w] = "send waits" => res[w] = Null
    BY DEF ChInv, ResultInv, Unsettled
  <2>2. \A w \in Users : Pending(w)' <=> Pending(w)
    BY <1>1, <1>4, <2>1 DEF Pending, Unsettled
  <2> QED
    BY <1>1, <2>2, ValuesKept
<1>9. DecisionInv'
  BY <1>1, <1>4 DEF ChInv, DecisionInv, NobodyWaitsInVain
<1>10. ResultInv'
  <2>1. \A w \in Users : act'[w] \in Unsettled => act[w] \in Unsettled
    BY <1>4 DEF Unsettled
  <2>2. ASSUME NEW w \in Users, Refusing(w)' PROVE handles.send = 0 /\ IsEmpty(ring)
    <3>1. CASE Refusing(w)
      BY <3>1 DEF ChInv, ResultInv
    <3>2. CASE Contains(wrecv, w)
      <4>1. handles.recv # 0
        BY <1>3, <3>2, Counted DEF RecvLabels
      <4>2. wrecv # << >>
        BY <3>2, EmptyList
      <4> QED
        BY <1>2, <4>1, <4>2 DEF ChInv, DecisionInv, NobodyWaitsInVain
    <3>3. Refusing(w) \/ Contains(wrecv, w)
      BY <1>1, <1>4, <2>2 DEF Refusing
    <3> QED
      BY <3>1, <3>2, <3>3
  <2> QED
    BY <1>1, <2>1, <2>2 DEF ChInv, ResultInv
<1>11. ChTypes'
  <2>1. << >> \in Seq(Users)
    OBVIOUS
  <2> QED
    BY <1>1, <1>4, <2>1 DEF ChInv, ChTypes, OfUsers, Unsettled
<1> QED
  BY <1>5, <1>6, <1>7, <1>8, <1>9, <1>10, <1>11 DEF ChInv

\* A sender begins with a new value.
LEMMA SendBeginInv ==
  ASSUME LockInv, ChInv, NEW u \in Users, SendBegin(u)
  PROVE  LockInv' /\ ChInv'
<1>1. /\ act[u] = "producer" /\ count[u] < MaxSends /\ Enters(u) /\ Become(u, "send")
      /\ count' = [count EXCEPT ![u] = count[u] + 1] /\ res' = [res EXCEPT ![u] = Null]
      /\ UNCHANGED <<ring, wsend, wrecv, closed, handles, got, refused>>
  BY DEF SendBegin, BeginLock, Enters, Become
<1>2. LockInv' /\ act'[u] = "send" /\ \A w \in Users \ {u} : act'[w] = act[w]
  BY <1>1, Relabelled DEF HeldActs
<1>3. /\ count \in [Users -> 0 .. MaxSends] /\ OfUsers(res) /\ MaxSends \in Nat
      /\ res'[u] = Null /\ \A w \in Users \ {u} : res'[w] = res[w]
      /\ OfUsers(res)'
  BY <1>1, ChannelAssumption DEF ChInv, ChTypes, OfUsers
<1>4. PICK n : n = count[u] + 1
  OBVIOUS
<1>5. /\ n \in 1 .. MaxSends /\ n # 0 /\ count' = [count EXCEPT ![u] = n]
      /\ count[u] = n - 1
  <2>1. count[u] \in 0 .. MaxSends
    BY <1>3
  <2> QED
    BY <1>1, <1>3, <1>4, <2>1
<1>6. /\ count' \in [Users -> 0 .. MaxSends] /\ count'[u] = n
      /\ \A w \in Users \ {u} : count'[w] = count[w]
  BY <1>3, <1>5
<1>7. ChTypes'
  BY <1>1, <1>2, <1>3, <1>5, <1>6 DEF ChInv, ChTypes
<1>8. HandleInv' /\ (InUse' => InUse)
  BY <1>1, <1>2, SidesKept DEF SendLabels
<1>9. QueueInv'
  BY <1>1, <1>2, <1>8, ListsKept
<1>10. DecisionInv'
  BY <1>1, <1>2 DEF ChInv, DecisionInv, NobodyWaitsInVain
<1>11. ResultInv'
  BY <1>1, <1>2, <1>3 DEF ChInv, ResultInv, Refusing, Unsettled
<1>12. ValueInv'
  <2> DEFINE b == Buffered(ring)
  <2>1. PICK x : x = <<u, n>>
    OBVIOUS
  <2>2. /\ RingOK(ring) /\ b \in Seq(Started) /\ got \in Seq(Started)
        /\ refused \subseteq Started /\ \A v \in Started : TimesOf(v) = 1
    BY OnceTimes DEF ChInv, ValueInv
  <2>3. /\ x \notin Started /\ Started' = Started \cup {x} /\ x[1] = u /\ Started \subseteq Started'
    <3>1. \A v : v \in Started <=> v \in Sendable /\ v[2] <= count[v[1]]
      BY DEF Started, Sendable
    <3>2. \A v : v \in Started' <=> v \in Sendable /\ v[2] <= count'[v[1]]
      BY DEF Started, Sendable
    <3>3. x \in Sendable /\ x[1] = u /\ x[2] = n /\ ~(n <= count[u])
      BY <1>3, <1>5, <2>1 DEF Sendable
    <3>4. ASSUME NEW v \in Sendable, v # x PROVE v[2] <= count'[v[1]] <=> v[2] <= count[v[1]]
      <4>1. v[1] \in Users /\ v[2] \in Nat /\ v = <<v[1], v[2]>>
        BY DEF Sendable
      <4>2. v[1] = u => v[2] # n
        BY <2>1, <3>4, <4>1
      <4>3. v[1] # u => count'[v[1]] = count[v[1]]
        BY <1>6, <4>1
      <4>4. CASE v[1] = u
        BY <1>5, <1>6, <4>1, <4>2, <4>4
      <4> QED
        BY <4>3, <4>4
    <3>5. x \in Started'
      <4>1. n <= n
        BY <1>5
      <4> QED
        BY <1>6, <3>2, <3>3, <4>1
    <3>6. Started' = Started \cup {x}
      BY <3>1, <3>2, <3>3, <3>4, <3>5
    <3> QED
      BY <3>1, <3>3, <3>6
  <2>4. Value(u)' = x /\ \A w \in Users \ {u} : Value(w)' = Value(w)
    BY <1>6, <2>1 DEF Value
  <2>5. \A v \in Started : v[1] \in Users
    BY DEF Started
  <2>6. /\ \A v : WithSender(v) <=> v = Value(v[1]) /\ Pending(v[1])
        /\ \A v : WithSender(v)' <=> v = Value(v[1])' /\ Pending(v[1])'
    BY DEF WithSender, Pending, Unsettled
  <2>7. Pending(u)' /\ ~Pending(u) /\ \A w \in Users \ {u} : Pending(w)' <=> Pending(w)
    BY <1>1, <1>2, <1>3 DEF Pending, Unsettled
  <2>8. WithSender(x)' /\ \A v \in Started : WithSender(v)' <=> WithSender(v)
    BY <2>3, <2>4, <2>5, <2>6, <2>7
  <2>9. Times(got, x) = 0 /\ Times(b, x) = 0 /\ x \notin refused
    BY <2>2, <2>3, TimesNone
  <2> HIDE DEF b
  <2>10. \A v : TimesOf(v)' = (IF WithSender(v)' THEN 1 ELSE 0)
           + (IF v \in refused THEN 1 ELSE 0) + Times(got, v) + Times(b, v)
    <3>1. \A v : Times(got, v)' = Times(got, v) /\ Times(Buffered(ring), v)' = Times(b, v)
      BY <1>1 DEF Times, Buffered, Size, b
    <3> QED
      BY <1>1, <3>1 DEF TimesOf
  <2>11. \A v \in Started : TimesOf(v)' = 1
    <3>1. \A v : TimesOf(v) = (IF WithSender(v) THEN 1 ELSE 0)
             + (IF v \in refused THEN 1 ELSE 0) + Times(got, v) + Times(b, v)
      BY DEF TimesOf, b
    <3> QED
      BY <2>2, <2>8, <2>10, <3>1
  <2>12. TimesOf(x)' = 1
    BY <2>8, <2>9, <2>10
  <2>13. (\A v \in Started : TimesOf(v) = 1)'
    BY <2>3, <2>11, <2>12
  <2>14. ExactlyOnce'
    BY <2>13, OnceTimes, PTL
  <2>15. Seq(Started) \subseteq Seq(Started')
    BY <2>3
  <2>16. Buffered(ring)' = b /\ RingOK(ring)'
    BY <1>1, <2>2 DEF Buffered, Size, RingOK, Cell, b
  <2> QED
    BY <1>1, <2>2, <2>3, <2>14, <2>15, <2>16 DEF ValueInv
<1> QED
  BY <1>2, <1>7, <1>8, <1>9, <1>10, <1>11, <1>12 DEF ChInv

\* A receiver begins.
LEMMA RecvBeginInv ==
  ASSUME LockInv, ChInv, NEW u \in Users, RecvBegin(u)
  PROVE  LockInv' /\ ChInv'
<1>1. /\ act[u] = "consumer" /\ Enters(u) /\ Become(u, "recv")
      /\ res' = [res EXCEPT ![u] = Null]
      /\ UNCHANGED <<ring, wsend, wrecv, closed, handles, count, got, refused>>
  BY DEF RecvBegin, BeginLock, Enters, Become
<1>2. LockInv' /\ act'[u] = "recv" /\ \A w \in Users \ {u} : act'[w] = act[w]
  BY <1>1, Relabelled DEF HeldActs
<1>3. OfUsers(res)' /\ \A w \in Users \ {u} : res'[w] = res[w]
  BY <1>1 DEF ChInv, ChTypes, OfUsers
<1>4. ChTypes'
  BY <1>1, <1>2, <1>3 DEF ChInv, ChTypes, Unsettled
<1>5. HandleInv' /\ (InUse' => InUse)
  BY <1>1, <1>2, SidesKept DEF RecvLabels
<1>6. QueueInv'
  BY <1>1, <1>2, <1>5, ListsKept
<1>7. DecisionInv'
  BY <1>1, <1>2 DEF ChInv, DecisionInv, NobodyWaitsInVain
<1>8. ResultInv'
  BY <1>1, <1>2, <1>3 DEF ChInv, ResultInv, Refusing, Unsettled
<1>9. ValueInv'
  <2>1. \A w \in Users : Pending(w)' <=> Pending(w)
    BY <1>1, <1>2, <1>3 DEF Pending, Unsettled
  <2> QED
    BY <1>1, <2>1, ValuesKept
<1> QED
  BY <1>2, <1>4, <1>5, <1>6, <1>7, <1>8, <1>9 DEF ChInv

\* A value for a receiver that waits.
LEMMA SendHandInv ==
  ASSUME LockInv, ChInv, NEW u \in Users, SendHand(u)
  PROVE  LockInv' /\ ChInv'
<1>1. PICK r : r = Head(wrecv)
  OBVIOUS
<1>2. /\ act[u] = "send" /\ Inside(u) /\ Leaves(u) /\ wrecv # << >>
      /\ res' = [res EXCEPT ![r] = Value(u)]
      /\ act' = [act EXCEPT ![r] = "recv resumed", ![u] = "producer"]
      /\ wrecv' = Tail(wrecv) /\ got' = Append(got, Value(u))
      /\ UNCHANGED <<ring, wsend, closed, handles, count, refused>>
  BY <1>1 DEF SendHand, Sending, Leaves
<1>3. handles.send # 0 /\ InUse
  BY <1>2, Counted DEF SendLabels, InUse
<1>4. /\ wrecv \in Seq(Users) /\ Distinct(wrecv)
      /\ \A w \in Users : Contains(wrecv, w) => act[w] = "recv waits"
  BY <1>3 DEF ChInv, ChTypes, QueueInv
<1>5. /\ r \in Users /\ act[r] = "recv waits" /\ r # u
      /\ wrecv' \in Seq(Users) /\ Distinct(wrecv') /\ ~Contains(wrecv', r)
      /\ \A w : Contains(wrecv', w) => Contains(wrecv, w)
  BY <1>1, <1>2, <1>4, TailMembers, ListTail
<1>6. /\ OfUsers(act') /\ act'[u] = "producer" /\ act'[r] = "recv resumed"
      /\ \A w \in Users \ {u, r} : act'[w] = act[w]
  BY <1>2, <1>5 DEF LockInv, OfUsers
<1>7. LockInv'
  BY <1>2, <1>5, <1>6, UserKeepsLock DEF HeldActs
<1>8. OfUsers(res)' /\ res'[r] = Value(u) /\ \A w \in Users \ {r} : res'[w] = res[w]
  BY <1>2, <1>5 DEF ChInv, ChTypes, OfUsers
<1>9. ChTypes'
  BY <1>2, <1>5, <1>6, <1>8 DEF ChInv, ChTypes, Unsettled
<1>10. HandleInv' /\ (InUse' => InUse)
  BY <1>2, <1>5, <1>6, SidesKept DEF SendLabels, RecvLabels
<1>11. QueueInv'
  <2>1. \A w \in Users : Contains(wsend, w) => act'[w] = "send waits"
    BY <1>2, <1>5, <1>6 DEF ChInv, QueueInv
  <2>2. \A w \in Users : Contains(wrecv', w) => act'[w] = "recv waits"
    BY <1>2, <1>4, <1>5, <1>6
  <2> QED
    BY <1>2, <1>5, <2>1, <2>2 DEF ChInv, QueueInv
<1>12. DecisionInv'
  <2>1. \A w \in Users : act'[w] # "send full" /\ act'[w] # "recv empty"
    BY <1>2, <1>5, <1>6, NobodyElse
  <2> QED
    BY <1>2, <2>1 DEF ChInv, DecisionInv, NobodyWaitsInVain
<1>13. Value(u) # Null
  BY <1>2, ValueFacts DEF ChInv, ChTypes, Unsettled
<1>14. ResultInv'
  BY <1>2, <1>5, <1>6, <1>8, <1>13 DEF ChInv, ResultInv, Refusing, Unsettled
<1>15. ValueInv'
  <2>1. Pending(u) /\ ~Pending(u)' /\ \A w \in Users \ {u} : Pending(w)' <=> Pending(w)
    BY <1>2, <1>5, <1>6, <1>8 DEF Pending, Unsettled
  <2> QED
    BY <1>2, <2>1, ValueSettled
<1> QED
  BY <1>7, <1>9, <1>10, <1>11, <1>12, <1>14, <1>15 DEF ChInv

\* A value for the buffer.
LEMMA SendBufferInv ==
  ASSUME LockInv, ChInv, NEW u \in Users, SendBuffer(u)
  PROVE  LockInv' /\ ChInv'
<1>1. /\ act[u] = "send" /\ Inside(u) /\ Leaves(u) /\ wrecv = << >> /\ ~IsFill(ring)
      /\ ring' = SafetyPush(ring, Value(u)) /\ Become(u, "producer")
      /\ UNCHANGED <<wsend, wrecv, closed, handles, count, res, got, refused>>
  BY DEF SendBuffer, Sending, Leave, Leaves, Become
<1>2. LockInv' /\ act'[u] = "producer" /\ \A w \in Users \ {u} : act'[w] = act[w]
  BY <1>1, Relabelled DEF HeldActs
<1>3. ChTypes'
  BY <1>1, <1>2 DEF ChInv, ChTypes, Unsettled, OfUsers
<1>4. HandleInv' /\ (InUse' => InUse)
  BY <1>1, <1>2, SidesKept DEF SendLabels
<1>5. QueueInv'
  BY <1>1, <1>2, <1>4, ListsKept
<1>6. DecisionInv'
  <2>1. \A w \in Users : act'[w] # "send full" /\ act'[w] # "recv empty"
    BY <1>1, <1>2, NobodyElse
  <2>2. wsend = << >>
    BY <1>1 DEF ChInv, DecisionInv, NobodyWaitsInVain
  <2> QED
    BY <1>1, <2>1, <2>2 DEF DecisionInv, NobodyWaitsInVain
<1>7. ResultInv'
  <2>1. handles.send # 0
    BY <1>1, Counted DEF SendLabels
  <2> QED
    BY <1>1, <1>2, <2>1 DEF ChInv, ResultInv, Refusing, Unsettled
<1>8. ValueInv'
  <2>1. Pending(u) /\ ~Pending(u)' /\ \A w \in Users \ {u} : Pending(w)' <=> Pending(w)
    BY <1>1, <1>2 DEF Pending, Unsettled
  <2> QED
    BY <1>1, <2>1, ValueSettled
<1> QED
  BY <1>2, <1>3, <1>4, <1>5, <1>6, <1>7, <1>8 DEF ChInv

\* No room: the send is refused, or will wait.
LEMMA SendFullInv ==
  ASSUME LockInv, ChInv, NEW u \in Users, SendFull(u)
  PROVE  LockInv' /\ ChInv'
<1> DEFINE l == IF closed THEN "send failed" ELSE "send full"
<1>1. /\ act[u] = "send" /\ Inside(u) /\ wrecv = << >> /\ IsFill(ring) /\ Become(u, l)
      /\ UNCHANGED <<ring, wsend, wrecv, closed, handles, count, res, got>>
      /\ IF closed THEN Leaves(u) /\ refused' = refused \cup {Value(u)}
         ELSE Stays /\ UNCHANGED refused
  BY DEF SendFull, Sending, Leave, Leaves, Become, Stays
<1>2. LockInv' /\ act'[u] = l /\ \A w \in Users \ {u} : act'[w] = act[w]
  <2>1. l \in HeldActs => ~closed
    BY DEF HeldActs
  <2> HIDE DEF l
  <2> QED
    BY <1>1, <2>1, Relabelled
<1>3. ChTypes'
  BY <1>1, <1>2 DEF ChInv, ChTypes, Unsettled, OfUsers
<1>4. HandleInv' /\ (InUse' => InUse)
  BY <1>1, <1>2, SidesKept DEF SendLabels
<1>5. QueueInv'
  BY <1>1, <1>2, <1>4, ListsKept
<1>6. DecisionInv'
  <2>1. \A w \in Users : act'[w] # "recv empty"
    BY <1>1, <1>2, NobodyElse
  <2> QED
    BY <1>1, <2>1 DEF ChInv, DecisionInv, NobodyWaitsInVain
<1>7. ResultInv'
  BY <1>1, <1>2 DEF ChInv, ResultInv, Refusing, Unsettled
<1>8. ValueInv'
  <2>1. CASE closed
    <3>1. Pending(u) /\ ~Pending(u)' /\ \A w \in Users \ {u} : Pending(w)' <=> Pending(w)
      BY <1>1, <1>2, <2>1 DEF Pending, Unsettled
    <3> QED
      BY <1>1, <2>1, <3>1, ValueSettled
  <2>2. CASE ~closed
    <3>1. \A w \in Users : Pending(w)' <=> Pending(w)
      BY <1>1, <1>2, <2>2 DEF Pending, Unsettled
    <3> QED
      BY <1>1, <2>2, <3>1, ValuesKept
  <2> QED
    BY <2>1, <2>2
<1> QED
  BY <1>2, <1>3, <1>4, <1>5, <1>6, <1>7, <1>8 DEF ChInv

\* ... and waits.
LEMMA SendWaitInv ==
  ASSUME LockInv, ChInv, NEW u \in Users, SendWait(u)
  PROVE  LockInv' /\ ChInv'
<1>1. /\ act[u] = "send full" /\ wsend' = Append(wsend, u) /\ Become(u, "send waits")
      /\ UNCHANGED <<ring, wrecv, closed, handles, count, res, got, refused>>
  BY DEF SendWait, Leave
<1>2. Inside(u) /\ Leaves(u)
  BY <1>1 DEF LockInv, HeldActs, SendWait, Leave, Leaves
<1>3. LockInv' /\ act'[u] = "send waits" /\ \A w \in Users \ {u} : act'[w] = act[w]
  BY <1>1, <1>2, Relabelled DEF HeldActs
<1>4. /\ wsend \in Seq(Users) /\ Distinct(wsend) /\ ~Contains(wsend, u)
      /\ \A w \in Users : Contains(wsend, w) => act[w] = "send waits"
  BY <1>1 DEF ChInv, ChTypes, QueueInv
<1>5. /\ wsend' \in Seq(Users) /\ Distinct(wsend')
      /\ \A w : Contains(wsend', w) <=> Contains(wsend, w) \/ w = u
  BY <1>1, <1>4, AppendMembers
<1>6. ChTypes'
  BY <1>1, <1>3, <1>5 DEF ChInv, ChTypes, Unsettled, OfUsers
<1>7. HandleInv' /\ (InUse' => InUse)
  BY <1>1, <1>3, SidesKept DEF SendLabels
<1>8. QueueInv'
  <2>1. \A w \in Users : Contains(wsend', w) => act'[w] = "send waits"
    BY <1>3, <1>4, <1>5
  <2>2. \A w \in Users : act[w] = "recv waits" => act'[w] = "recv waits"
    BY <1>1, <1>3
  <2> QED
    BY <1>1, <1>5, <1>7, <2>1, <2>2 DEF ChInv, QueueInv
<1>9. DecisionInv'
  <2>1. \A w \in Users : act'[w] # "send full" /\ act'[w] # "recv empty"
    BY <1>2, <1>3, NobodyElse
  <2>2. wrecv = << >> /\ IsFill(ring)
    BY <1>1 DEF ChInv, DecisionInv
  <2> QED
    BY <1>1, <2>1, <2>2 DEF DecisionInv, NobodyWaitsInVain
<1>10. ResultInv'
  BY <1>1, <1>3 DEF ChInv, ResultInv, Refusing, Unsettled
<1>11. ValueInv'
  <2>1. \A w \in Users : Pending(w)' <=> Pending(w)
    BY <1>1, <1>3 DEF Pending, Unsettled
  <2> QED
    BY <1>1, <2>1, ValuesKept
<1> QED
  BY <1>3, <1>6, <1>7, <1>8, <1>9, <1>10, <1>11 DEF ChInv

\* A sender learns what became of its value.
LEMMA SendResumedInv ==
  ASSUME LockInv, ChInv, NEW u \in Users, SendResumed(u)
  PROVE  LockInv' /\ ChInv'
<1> DEFINE l == IF res[u] = Null THEN "send failed" ELSE "producer"
<1>1. /\ act[u] = "send resumed" /\ Become(u, l) /\ Stays
      /\ refused' = IF res[u] = Null THEN refused \cup {Value(u)} ELSE refused
      /\ UNCHANGED <<ring, wsend, wrecv, closed, handles, count, res, got>>
  BY DEF SendResumed, Stays
<1>2. LockInv' /\ act'[u] = l /\ \A w \in Users \ {u} : act'[w] = act[w]
  <2>1. l \notin HeldActs
    BY DEF HeldActs
  <2> HIDE DEF l
  <2> QED
    BY <1>1, <2>1, Relabelled
<1>3. ChTypes'
  BY <1>1, <1>2 DEF ChInv, ChTypes, Unsettled, OfUsers
<1>4. HandleInv' /\ (InUse' => InUse)
  BY <1>1, <1>2, SidesKept DEF SendLabels
<1>5. QueueInv'
  BY <1>1, <1>2, <1>4, ListsKept
<1>6. DecisionInv'
  BY <1>1, <1>2 DEF ChInv, DecisionInv, NobodyWaitsInVain
<1>7. ResultInv'
  BY <1>1, <1>2 DEF ChInv, ResultInv, Refusing, Unsettled
<1>8. ValueInv'
  <2>1. CASE res[u] = Null
    <3>1. Pending(u) /\ ~Pending(u)' /\ \A w \in Users \ {u} : Pending(w)' <=> Pending(w)
      BY <1>1, <1>2, <2>1 DEF Pending, Unsettled
    <3> QED
      BY <1>1, <2>1, <3>1, ValueSettled
  <2>2. CASE res[u] # Null
    <3>1. \A w \in Users : Pending(w)' <=> Pending(w)
      BY <1>1, <1>2, <2>2 DEF Pending, Unsettled
    <3> QED
      BY <1>1, <2>2, <3>1, ValuesKept
  <2> QED
    BY <2>1, <2>2
<1> QED
  BY <1>2, <1>3, <1>4, <1>5, <1>6, <1>7, <1>8 DEF ChInv

\* A receiver takes the value of a sender that waits.
LEMMA RecvFromSenderInv ==
  ASSUME LockInv, ChInv, NEW u \in Users, RecvFromSender(u)
  PROVE  LockInv' /\ ChInv'
<1>1. PICK s : s = Head(wsend)
  OBVIOUS
<1>2. /\ act[u] = "recv" /\ Inside(u) /\ Leaves(u) /\ wsend # << >>
      /\ res' = [res EXCEPT ![s] = Value(s)]
      /\ act' = [act EXCEPT ![s] = "send resumed", ![u] = "consumer"]
      /\ wsend' = Tail(wsend) /\ got' = Append(got, Value(s))
      /\ UNCHANGED <<ring, wrecv, closed, handles, count, refused>>
  BY <1>1 DEF RecvFromSender, Receiving, Leaves
<1>3. /\ wsend \in Seq(Users) /\ Distinct(wsend)
      /\ \A w \in Users : Contains(wsend, w) => act[w] = "send waits"
  BY DEF ChInv, ChTypes, QueueInv
<1>4. /\ s \in Users /\ act[s] = "send waits" /\ s # u
      /\ wsend' \in Seq(Users) /\ Distinct(wsend') /\ ~Contains(wsend', s)
      /\ \A w : Contains(wsend', w) => Contains(wsend, w)
  BY <1>1, <1>2, <1>3, TailMembers, ListTail
<1>5. /\ OfUsers(act') /\ act'[u] = "consumer" /\ act'[s] = "send resumed"
      /\ \A w \in Users \ {u, s} : act'[w] = act[w]
  BY <1>2, <1>4 DEF LockInv, OfUsers
<1>6. LockInv'
  BY <1>2, <1>4, <1>5, UserKeepsLock DEF HeldActs
<1>7. OfUsers(res)' /\ res'[s] = Value(s) /\ \A w \in Users \ {s} : res'[w] = res[w]
  BY <1>2, <1>4 DEF ChInv, ChTypes, OfUsers
<1>8. ChTypes'
  BY <1>2, <1>4, <1>5, <1>7 DEF ChInv, ChTypes, Unsettled
<1>9. HandleInv' /\ (InUse' => InUse)
  BY <1>2, <1>4, <1>5, SidesKept DEF SendLabels, RecvLabels
<1>10. QueueInv'
  <2>1. \A w \in Users : Contains(wsend', w) => act'[w] = "send waits"
    BY <1>2, <1>3, <1>4, <1>5
  <2>2. \A w \in Users : act[w] = "recv waits" => act'[w] = "recv waits"
    BY <1>2, <1>4, <1>5
  <2> QED
    BY <1>2, <1>4, <1>9, <2>1, <2>2 DEF ChInv, QueueInv
<1>11. DecisionInv'
  <2>1. \A w \in Users : act'[w] # "send full" /\ act'[w] # "recv empty"
    BY <1>2, <1>4, <1>5, NobodyElse
  <2> QED
    BY <1>2, <2>1 DEF ChInv, DecisionInv, NobodyWaitsInVain
<1>12. Value(s) # Null
  BY <1>4, ValueFacts DEF ChInv, ChTypes, Unsettled
<1>13. ResultInv'
  BY <1>2, <1>4, <1>5, <1>7, <1>12 DEF ChInv, ResultInv, Refusing, Unsettled
<1>14. ValueInv'
  <2>1. Pending(s) /\ ~Pending(s)' /\ \A w \in Users \ {s} : Pending(w)' <=> Pending(w)
    BY <1>2, <1>4, <1>5, <1>7, <1>12 DEF Pending, Unsettled
  <2> QED
    BY <1>2, <1>4, <2>1, ValueSettled
<1> QED
  BY <1>6, <1>8, <1>9, <1>10, <1>11, <1>13, <1>14 DEF ChInv

\* ... or the oldest value of the buffer.
LEMMA RecvBufferInv ==
  ASSUME LockInv, ChInv, NEW u \in Users, RecvBuffer(u)
  PROVE  LockInv' /\ ChInv'
<1>1. /\ act[u] = "recv" /\ Inside(u) /\ Leaves(u) /\ wsend = << >> /\ ~IsEmpty(ring)
      /\ ring' = SafetyPop(ring) /\ got' = Append(got, Oldest(ring))
      /\ Become(u, "consumer")
      /\ UNCHANGED <<wsend, wrecv, closed, handles, count, res, refused>>
  BY DEF RecvBuffer, Receiving, Leave, Leaves, Become
<1>2. LockInv' /\ act'[u] = "consumer" /\ \A w \in Users \ {u} : act'[w] = act[w]
  BY <1>1, Relabelled DEF HeldActs
<1>3. ChTypes'
  BY <1>1, <1>2 DEF ChInv, ChTypes, Unsettled, OfUsers
<1>4. HandleInv' /\ (InUse' => InUse)
  BY <1>1, <1>2, SidesKept DEF RecvLabels
<1>5. QueueInv'
  BY <1>1, <1>2, <1>4, ListsKept
<1>6. DecisionInv'
  <2>1. \A w \in Users : act'[w] # "send full" /\ act'[w] # "recv empty"
    BY <1>1, <1>2, NobodyElse
  <2>2. wrecv = << >>
    BY <1>1 DEF ChInv, DecisionInv, NobodyWaitsInVain
  <2> QED
    BY <1>1, <2>1, <2>2 DEF DecisionInv, NobodyWaitsInVain
<1>7. ResultInv'
  BY <1>1, <1>2 DEF ChInv, ResultInv, Refusing, Unsettled
<1>8. ValueInv'
  <2> DEFINE b == Buffered(ring)
             c == Buffered(ring')
  <2>1. PICK x : x = Oldest(ring)
    OBVIOUS
  <2>2. /\ RingOK(ring) /\ b \in Seq(Started) /\ got \in Seq(Started)
        /\ refused \subseteq Started /\ \A v \in Started : TimesOf(v) = 1
    BY OnceTimes DEF ChInv, ValueInv
  <2>3. RingOK(ring') /\ b # << >> /\ x = Head(b) /\ c = Tail(b)
    BY <1>1, <2>1, <2>2, PopFacts
  <2>4. x \in Started /\ c \in Seq(Started) /\ got' \in Seq(Started)
    BY <1>1, <2>1, <2>2, <2>3, ListTail, AppendProperties
  <2>5. Started' = Started /\ \A v \in Started : WithSender(v)' <=> WithSender(v)
    <3>1. \A w \in Users : Value(w)' = Value(w)
      BY <1>1 DEF Value
    <3>2. \A w \in Users : Pending(w)' <=> Pending(w)
      BY <1>1, <1>2 DEF Pending, Unsettled
    <3>3. /\ \A v : WithSender(v) <=> v = Value(v[1]) /\ Pending(v[1])
          /\ \A v : WithSender(v)' <=> v = Value(v[1])' /\ Pending(v[1])'
      BY DEF WithSender, Pending, Unsettled
    <3>4. \A v \in Started : v[1] \in Users
      BY DEF Started
    <3>5. Started' = Started
      BY <1>1 DEF Started
    <3> QED
      BY <3>1, <3>2, <3>3, <3>4, <3>5
  <2> HIDE DEF b, c
  <2>6. ASSUME NEW v \in Started PROVE TimesOf(v)' = 1
    <3> DEFINE n == Times(got, v)
               m == Times(b, v)
               N == Times(got', v)
               M == Times(c, v)
               P == TimesOf(v)'
    <3>1. /\ N = n + (IF v = x THEN 1 ELSE 0)
          /\ m = M + (IF v = x THEN 1 ELSE 0)
      BY <1>1, <2>1, <2>2, <2>3, <2>4, TimesAppend, TimesTail
    <3>2. P = (IF WithSender(v)' THEN 1 ELSE 0) + (IF v \in refused THEN 1 ELSE 0) + N + M
      <4>1. Times(got, v)' = N /\ Times(Buffered(ring), v)' = M
        BY DEF Times, Buffered, Size, c
      <4> QED
        BY <1>1, <4>1 DEF TimesOf
    <3>3. 1 = (IF WithSender(v) THEN 1 ELSE 0) + (IF v \in refused THEN 1 ELSE 0) + n + m
      BY <2>2 DEF TimesOf, b
    <3>4. n \in Nat /\ m \in Nat /\ M \in Nat
      BY <2>2, <2>4, TimesType
    <3> HIDE DEF n, m, N, M, P
    <3>5. P = 1
      BY <2>5, <3>1, <3>2, <3>3, <3>4
    <3> QED
      BY <3>5 DEF P
  <2>7. (\A v \in Started : TimesOf(v) = 1)'
    BY <2>5, <2>6
  <2>8. ExactlyOnce'
    BY <2>7, OnceTimes, PTL
  <2>9. Buffered(ring)' = c
    BY DEF Buffered, Size, c
  <2> QED
    BY <1>1, <2>2, <2>3, <2>4, <2>5, <2>8, <2>9 DEF ValueInv, RingOK, Cell
<1> QED
  BY <1>2, <1>3, <1>4, <1>5, <1>6, <1>7, <1>8 DEF ChInv

\* Nothing there: the receiver is told so, or will wait.
LEMMA RecvEmptyInv ==
  ASSUME LockInv, ChInv, NEW u \in Users, RecvEmpty(u)
  PROVE  LockInv' /\ ChInv'
<1> DEFINE l == IF closed THEN "recv closed" ELSE "recv empty"
<1>1. /\ act[u] = "recv" /\ Inside(u) /\ wsend = << >> /\ IsEmpty(ring) /\ Become(u, l)
      /\ UNCHANGED <<ring, wsend, wrecv, closed, handles, count, res, got, refused>>
      /\ IF closed THEN Leaves(u) ELSE Stays
  BY DEF RecvEmpty, Receiving, Leave, Leaves, Become, Stays, chVars
<1>2. LockInv' /\ act'[u] = l /\ \A w \in Users \ {u} : act'[w] = act[w]
  <2>1. l \in HeldActs => ~closed
    BY DEF HeldActs
  <2> HIDE DEF l
  <2> QED
    BY <1>1, <2>1, Relabelled
<1>3. ChTypes'
  BY <1>1, <1>2 DEF ChInv, ChTypes, Unsettled, OfUsers
<1>4. HandleInv' /\ (InUse' => InUse)
  BY <1>1, <1>2, SidesKept DEF RecvLabels
<1>5. QueueInv'
  BY <1>1, <1>2, <1>4, ListsKept
<1>6. DecisionInv'
  <2>1. \A w \in Users : act'[w] # "send full"
    BY <1>1, <1>2, NobodyElse
  <2> QED
    BY <1>1, <2>1 DEF ChInv, DecisionInv, NobodyWaitsInVain
<1>7. ResultInv'
  <2>1. closed => handles.send = 0
    BY <1>1, Counted DEF RecvLabels, ChInv, HandleInv
  <2> QED
    BY <1>1, <1>2, <2>1 DEF ChInv, ResultInv, Refusing, Unsettled
<1>8. ValueInv'
  <2>1. \A w \in Users : Pending(w)' <=> Pending(w)
    BY <1>1, <1>2 DEF Pending, Unsettled
  <2> QED
    BY <1>1, <2>1, ValuesKept
<1> QED
  BY <1>2, <1>3, <1>4, <1>5, <1>6, <1>7, <1>8 DEF ChInv

\* ... and waits.
LEMMA RecvWaitInv ==
  ASSUME LockInv, ChInv, NEW u \in Users, RecvWait(u)
  PROVE  LockInv' /\ ChInv'
<1>1. /\ act[u] = "recv empty" /\ wrecv' = Append(wrecv, u) /\ Become(u, "recv waits")
      /\ UNCHANGED <<ring, wsend, closed, handles, count, res, got, refused>>
  BY DEF RecvWait, Leave
<1>2. Inside(u) /\ Leaves(u)
  BY <1>1 DEF LockInv, HeldActs, RecvWait, Leave, Leaves
<1>3. LockInv' /\ act'[u] = "recv waits" /\ \A w \in Users \ {u} : act'[w] = act[w]
  BY <1>1, <1>2, Relabelled DEF HeldActs
<1>4. /\ wrecv \in Seq(Users)
      /\ InUse => /\ Distinct(wrecv) /\ ~Contains(wrecv, u)
                  /\ \A w \in Users : Contains(wrecv, w) => act[w] = "recv waits"
  BY <1>1 DEF ChInv, ChTypes, QueueInv
<1>5. /\ wrecv' \in Seq(Users) /\ (InUse => Distinct(wrecv'))
      /\ \A w : Contains(wrecv', w) <=> Contains(wrecv, w) \/ w = u
  BY <1>1, <1>4, AppendMembers
<1>6. ChTypes'
  BY <1>1, <1>3, <1>5 DEF ChInv, ChTypes, Unsettled, OfUsers
<1>7. HandleInv' /\ (InUse' => InUse)
  BY <1>1, <1>3, SidesKept DEF RecvLabels
<1>8. QueueInv'
  <2>1. InUse => \A w \in Users : Contains(wrecv', w) => act'[w] = "recv waits"
    BY <1>3, <1>4, <1>5
  <2>2. \A w \in Users : act[w] = "send waits" => act'[w] = "send waits"
    BY <1>1, <1>3
  <2> QED
    BY <1>1, <1>5, <1>7, <2>1, <2>2 DEF ChInv, QueueInv
<1>9. DecisionInv'
  <2>1. \A w \in Users : act'[w] # "send full" /\ act'[w] # "recv empty"
    BY <1>2, <1>3, NobodyElse
  <2>2. wsend = << >> /\ IsEmpty(ring)
    BY <1>1 DEF ChInv, DecisionInv
  <2> QED
    BY <1>1, <2>1, <2>2 DEF DecisionInv, NobodyWaitsInVain
<1>10. ResultInv'
  BY <1>1, <1>3 DEF ChInv, ResultInv, Refusing, Unsettled
<1>11. ValueInv'
  <2>1. \A w \in Users : Pending(w)' <=> Pending(w)
    BY <1>1, <1>3 DEF Pending, Unsettled
  <2> QED
    BY <1>1, <2>1, ValuesKept
<1> QED
  BY <1>3, <1>6, <1>7, <1>8, <1>9, <1>10, <1>11 DEF ChInv

\* A receiver learns what it is given.
LEMMA RecvResumedInv ==
  ASSUME LockInv, ChInv, NEW u \in Users, RecvResumed(u)
  PROVE  LockInv' /\ ChInv'
<1> DEFINE l == IF res[u] = Null THEN "recv closed" ELSE "consumer"
<1>1. /\ act[u] = "recv resumed" /\ Become(u, l) /\ Stays
      /\ UNCHANGED <<ring, wsend, wrecv, closed, handles, count, res, got, refused>>
  BY DEF RecvResumed, Stays, chVars
<1>2. LockInv' /\ act'[u] = l /\ \A w \in Users \ {u} : act'[w] = act[w]
  <2>1. l \notin HeldActs
    BY DEF HeldActs
  <2> HIDE DEF l
  <2> QED
    BY <1>1, <2>1, Relabelled
<1>3. ChTypes'
  BY <1>1, <1>2 DEF ChInv, ChTypes, Unsettled, OfUsers
<1>4. HandleInv' /\ (InUse' => InUse)
  BY <1>1, <1>2, SidesKept DEF RecvLabels
<1>5. QueueInv'
  BY <1>1, <1>2, <1>4, ListsKept
<1>6. DecisionInv'
  BY <1>1, <1>2 DEF ChInv, DecisionInv, NobodyWaitsInVain
<1>7. ResultInv'
  BY <1>1, <1>2 DEF ChInv, ResultInv, Refusing, Unsettled
<1>8. ValueInv'
  <2>1. \A w \in Users : Pending(w)' <=> Pending(w)
    BY <1>1, <1>2 DEF Pending, Unsettled
  <2> QED
    BY <1>1, <2>1, ValuesKept
<1> QED
  BY <1>2, <1>3, <1>4, <1>5, <1>6, <1>7, <1>8 DEF ChInv

-----------------------------------------------------------------------------
(* The three uses together.                                                *)

SyncInv == LockInv /\ CvInv /\ ChInv

\* What one use says of a coroutine, the steps of the others keep.
OnlyChannel ==
  \A w \in Users : act'[w] = act[w] \/ (act[w] \notin CvActs /\ act'[w] \notin CvActs)
OnlyCondVar ==
  \A w \in Users : act'[w] = act[w] \/ (act[w] \notin ChActs /\ act'[w] \notin ChActs)

\* The users of a condition variable stay its users, and what they do to the
\* mutex is what its holder, or whoever comes to it, may do ...
LEMMA CvMoves ==
  ASSUME LockInv, NEW u \in Users, Enters(u) \/ Stays \/ Leaves(u), OfUsers(act'),
         \A w \in Users :
           \/ act'[w] = act[w] /\ w # u
           \/ /\ act[w] \notin ChActs
              /\ act'[w] \notin ChActs
              /\ act'[w] \notin HeldActs
  PROVE  LockInv' /\ OnlyCondVar
<1>1. LockInv'
  BY UserKeepsLock
<1> QED
  BY <1>1 DEF OnlyCondVar

\* ... one of them going on with another label ...
LEMMA CvRelabelled ==
  ASSUME LockInv, NEW u \in Users, NEW l, Enters(u) \/ Stays \/ Leaves(u),
         act' = [act EXCEPT ![u] = l],
         act[u] \in {"wait", "test", "push", "notified", "notifier", "give", "load",
                     "read", "pop"},
         l \in {"test", "served", "asleep", "give", "load", "notifier", "read", "pop"}
  PROVE  LockInv' /\ OnlyCondVar
<1>1. OfUsers(act') /\ act'[u] = l /\ \A w \in Users \ {u} : act'[w] = act[w]
  BY DEF LockInv, OfUsers
<1>2. act[u] \notin ChActs /\ l \notin ChActs /\ l \notin HeldActs
  BY DEF ChActs, SendLabels, RecvLabels, HeldActs
<1> QED
  BY <1>1, <1>2, CvMoves

\* ... whether notifies have raced or not.
LEMMA CvStepActs ==
  ASSUME LockInv, NEW u \in Users, CvStep(u)
  PROVE  LockInv' /\ OnlyCondVar
<1>1. OfUsers(act)
  BY DEF LockInv
<1> DEFINE waking == {"load", "pop", "asleep"}
           woken == {"notifier", "notified"}
<1>2. \A l \in waking \cup woken : l \notin ChActs /\ l \notin HeldActs
  BY DEF ChActs, SendLabels, RecvLabels, HeldActs
<1>3. CASE NotifyAll(u)
  <2>1. /\ act[u] = "load" /\ (Stays \/ Leaves(u))
        /\ \A w \in Users : Contains(Chain, w) => act[w] = "asleep"
        /\ act' = [w \in Users |->
                     IF w = u THEN "notifier"
                     ELSE IF Contains(Chain, w) THEN "notified" ELSE act[w]]
    BY <1>3 DEF NotifyAll, Stays, Leaves
  <2>2. OfUsers(act')
    BY <2>1 DEF OfUsers
  <2>3. \A w \in Users :
          \/ act'[w] = act[w] /\ w # u
          \/ act[w] \in waking /\ act'[w] \in woken
    BY <2>1
  <2> HIDE DEF waking, woken
  <2> QED
    BY <1>2, <2>1, <2>2, <2>3, CvMoves
<1>4. CASE NotifyPop(u) /\ head = seen[u][1]
  <2>1. /\ act[u] = "pop" /\ act[head] = "asleep" /\ (Stays \/ Leaves(u))
        /\ act' = [act EXCEPT ![u] = "notifier", ![head] = "notified"]
    BY <1>4 DEF NotifyPop, Stays, Leaves
  <2>2. OfUsers(act')
    BY <1>1, <2>1 DEF OfUsers
  <2>3. \A w \in Users :
          \/ act'[w] = act[w] /\ w # u
          \/ act[w] \in waking /\ act'[w] \in woken
    BY <1>1, <2>1 DEF OfUsers
  <2> HIDE DEF waking, woken
  <2> QED
    BY <1>2, <2>1, <2>2, <2>3, CvMoves
<1>5. CASE NotifyPop(u) /\ head # seen[u][1]
  <2>1. act[u] = "pop" /\ act' = [act EXCEPT ![u] = "read"] /\ Stays
    BY <1>5 DEF NotifyPop, Become, Stays
  <2> QED
    BY <2>1, CvRelabelled
<1>6. CASE WaitTest(u) /\ ~(tokens > 0)
  <2>1. act[u] = "test" /\ act' = [act EXCEPT ![u] = "push"] /\ Stays /\ Inside(u)
    BY <1>6 DEF WaitTest, Become, Stays
  <2>2. OfUsers(act') /\ act'[u] = "push" /\ \A w \in Users \ {u} : act'[w] = act[w]
    BY <1>1, <2>1 DEF OfUsers
  <2>3. act[u] \notin ChActs /\ act'[u] \notin ChActs
    BY <2>1, <2>2 DEF ChActs, SendLabels, RecvLabels
  <2>4. LockInv'
    BY <2>1, <2>2, UserKeepsLock
  <2> QED
    BY <2>2, <2>3, <2>4 DEF OnlyCondVar
<1>7. CASE WaitTest(u) /\ tokens > 0
  <2>1. act[u] = "test" /\ act' = [act EXCEPT ![u] = "served"] /\ Leaves(u)
    BY <1>7 DEF WaitTest, Leave, Become, Leaves
  <2> QED
    BY <2>1, CvRelabelled
<1>8. CASE WaitBegin(u) \/ WaitAgain(u) \/ NotifierBegin(u)
  <2>1. PICK l \in {"test", "give"} : act' = [act EXCEPT ![u] = l]
    BY <1>8 DEF WaitBegin, WaitAgain, NotifierBegin, BeginLock, Become
  <2>2. act[u] \in {"wait", "notified", "notifier"} /\ Enters(u)
    BY <1>8 DEF WaitBegin, WaitAgain, NotifierBegin, BeginLock, Enters
  <2> QED
    BY <2>1, <2>2, CvRelabelled
<1>9. CASE WaitSuspend(u) \/ Give(u) \/ NotifyLoad(u) \/ NotifyRead(u)
  <2>1. PICK l \in {"asleep", "load", "notifier", "read", "pop"} :
          act' = [act EXCEPT ![u] = l]
    BY <1>9
    DEF WaitSuspend, Give, NotifyLoad, NotifyRead, Notified, Leave, Become
  <2>2. act[u] \in {"push", "give", "load", "read"} /\ (Stays \/ Leaves(u))
    BY <1>9
    DEF WaitSuspend, Give, NotifyLoad, NotifyRead, Notified, Leave, Become, Stays, Leaves
  <2> QED
    BY <2>1, <2>2, CvRelabelled
<1> QED
  BY <1>3, <1>4, <1>5, <1>6, <1>7, <1>8, <1>9 DEF CvStep

\* What is in the variables of a condition variable, and that a race is not
\* forgotten.
LEMMA CvStepTypes ==
  ASSUME CvTypes, NEW u \in Users, CvStep(u)
  PROVE  CvTypes' /\ (raced => raced')
<1>1. CASE WaitBegin(u) \/ WaitTest(u) \/ WaitAgain(u) \/ NotifierBegin(u) \/ Give(u)
  <2>1. UNCHANGED <<next, seen, raced>>
    BY <1>1 DEF WaitBegin, WaitTest, WaitAgain, NotifierBegin, Give, cvVars
  <2> QED
    BY <2>1 DEF CvTypes
<1>2. CASE WaitSuspend(u)
  BY <1>2 DEF WaitSuspend, CvTypes
<1>3. CASE NotifyLoad(u)
  BY <1>3 DEF NotifyLoad, CvTypes
<1>4. CASE NotifyRead(u)
  <2>1. UNCHANGED <<next, raced>>
    BY <1>4 DEF NotifyRead
  <2>2. PICK n : seen' = [seen EXCEPT ![u] = <<seen[u][1], n>>]
    BY <1>4 DEF NotifyRead
  <2> QED
    BY <2>1, <2>2 DEF CvTypes
<1>5. CASE NotifyPop(u)
  <2>1. CASE head = seen[u][1]
    BY <1>5, <2>1 DEF NotifyPop, CvTypes
  <2>2. CASE head # seen[u][1]
    BY <1>5, <2>2 DEF NotifyPop, CvTypes
  <2> QED
    BY <2>1, <2>2
<1>6. CASE NotifyAll(u)
  BY <1>6 DEF NotifyAll, CvTypes
<1> QED
  BY <1>1, <1>2, <1>3, <1>4, <1>5, <1>6 DEF CvStep

\* The steps of a condition variable, one by one.
LEMMA CvStepInv ==
  ASSUME LockInv, CvInv, NEW u \in Users, CvStep(u)
  PROVE  CvInv'
<1>1. CvTypes' /\ (raced => raced')
  BY CvStepTypes DEF CvInv
<1>2. ASSUME ~raced' PROVE Orderly'
  <2>1. Orderly
    BY <1>1, <1>2 DEF CvInv
  <2> QED
    BY <1>2, <2>1, WaitBeginInv, WaitTestInv, WaitSuspendInv, NotifierBeginInv, GiveInv,
       NotifyLoadInv, NotifyReadInv, NotifyPopInv, NotifyAllInv
    DEF CvStep
<1> QED
  BY <1>1, <1>2 DEF CvInv

\* ... and those of a channel's users stay users of the channel.
LEMMA ChStepActs ==
  ASSUME LockInv, ChInv, NEW u \in Users, ChStep(u)
  PROVE  OnlyChannel
<1>1. OfUsers(act)
  BY DEF LockInv
<1> DEFINE channel == ChActs \cup {"gone", "new producer", "new consumer"}
<1>2. channel \cap CvActs = {}
  BY DEF ChActs, SendLabels, RecvLabels, CvActs, Notifying
<1>3. CASE DestroyWake(u)
  <2>1. /\ act[u] = "wake"
        /\ act' = [w \in Users |->
                     IF w = u THEN "gone"
                     ELSE IF Contains(wsend, w) THEN "send resumed"
                     ELSE IF Contains(wrecv, w) THEN "recv resumed" ELSE act[w]]
    BY <1>3 DEF DestroyWake
  <2>2. InUse
    BY <2>1 DEF InUse
  <2>3. \A w \in Users : /\ Contains(wsend, w) => act[w] = "send waits"
                         /\ Contains(wrecv, w) => act[w] = "recv waits"
    BY <2>2 DEF ChInv, QueueInv
  <2>4. \A w \in Users : act'[w] = act[w] \/ {act[w], act'[w]} \subseteq channel
    BY <2>1, <2>3 DEF ChActs, SendLabels, RecvLabels
  <2> HIDE DEF channel
  <2> QED
    BY <1>2, <2>4 DEF OnlyChannel
<1>4. CASE SendHand(u)
  <2>1. /\ act[u] = "send" /\ wrecv # << >>
        /\ act' = [act EXCEPT ![Head(wrecv)] = "recv resumed", ![u] = "producer"]
    BY <1>4 DEF SendHand, Sending
  <2>2. InUse
    BY <2>1, Counted DEF SendLabels, InUse
  <2>3. Head(wrecv) \in Users /\ act[Head(wrecv)] = "recv waits"
    BY <2>1, <2>2, TailMembers, ListTail DEF ChInv, ChTypes, QueueInv
  <2>4. \A w \in Users : act'[w] = act[w] \/ {act[w], act'[w]} \subseteq channel
    BY <1>1, <2>1, <2>3 DEF OfUsers, ChActs, SendLabels, RecvLabels
  <2> HIDE DEF channel
  <2> QED
    BY <1>2, <2>4 DEF OnlyChannel
<1>5. CASE RecvFromSender(u)
  <2>1. /\ act[u] = "recv" /\ wsend # << >>
        /\ act' = [act EXCEPT ![Head(wsend)] = "send resumed", ![u] = "consumer"]
    BY <1>5 DEF RecvFromSender, Receiving
  <2>2. Head(wsend) \in Users /\ act[Head(wsend)] = "send waits"
    BY <2>1, TailMembers, ListTail DEF ChInv, ChTypes, QueueInv
  <2>3. \A w \in Users : act'[w] = act[w] \/ {act[w], act'[w]} \subseteq channel
    BY <1>1, <2>1, <2>2 DEF OfUsers, ChActs, SendLabels, RecvLabels
  <2> HIDE DEF channel
  <2> QED
    BY <1>2, <2>3 DEF OnlyChannel
<1>6. CASE \E v \in Users : CopySender(u, v) \/ CopyReceiver(u, v)
  <2>1. PICK v \in Users : CopySender(u, v) \/ CopyReceiver(u, v)
    BY <1>6
  <2>2. \A w \in Users : act'[w] = act[w] \/ {act[w], act'[w]} \subseteq channel
    BY <1>1, <2>1 DEF CopySender, CopyReceiver, Become, OfUsers, ChActs, SendLabels, RecvLabels
  <2> HIDE DEF channel
  <2> QED
    BY <1>2, <2>2 DEF OnlyChannel
<1>7. CASE CloseSender(u) \/ CloseReceiver(u) \/ Destroy(u)
           \/ SendBegin(u) \/ SendBuffer(u) \/ SendFull(u) \/ SendWait(u) \/ SendResumed(u)
           \/ RecvBegin(u) \/ RecvBuffer(u) \/ RecvEmpty(u) \/ RecvWait(u) \/ RecvResumed(u)
  <2>1. PICK l \in channel : act' = [act EXCEPT ![u] = l]
    BY <1>7
    DEF CloseSender, CloseReceiver, Destroy, SendBegin, SendBuffer, SendFull, SendWait,
        SendResumed, RecvBegin, RecvBuffer, RecvEmpty, RecvWait, RecvResumed, BeginLock,
        Leave, Become, ChActs, SendLabels, RecvLabels
  <2>2. act[u] \in channel
    BY <1>7
    DEF CloseSender, CloseReceiver, Destroy, SendBegin, SendBuffer, SendFull, SendWait,
        SendResumed, RecvBegin, RecvBuffer, RecvEmpty, RecvWait, RecvResumed,
        Sending, Receiving, ChActs, SendLabels, RecvLabels
  <2> HIDE DEF channel
  <2>3. \A w \in Users : act'[w] = act[w] \/ {act[w], act'[w]} \subseteq channel
    BY <1>1, <2>1, <2>2 DEF OfUsers
  <2> QED
    BY <1>2, <2>3 DEF OnlyChannel
<1> QED
  BY <1>3, <1>4, <1>5, <1>6, <1>7 DEF ChStep

\* The steps of a channel, one by one.
LEMMA ChStepInv ==
  ASSUME LockInv, ChInv, NEW u \in Users, ChStep(u)
  PROVE  LockInv' /\ ChInv'
<1>1. CASE \E v \in Users : CopySender(u, v) \/ CopyReceiver(u, v)
  BY <1>1, CopyInv
<1>2. CASE CloseSender(u) \/ CloseReceiver(u) \/ Destroy(u) \/ DestroyWake(u)
  BY <1>2, CloseInv, DestroyInv, DestroyWakeInv
<1>3. CASE SendBegin(u) \/ SendHand(u) \/ SendBuffer(u) \/ SendFull(u)
           \/ SendWait(u) \/ SendResumed(u)
  BY <1>3, SendBeginInv, SendHandInv, SendBufferInv, SendFullInv, SendWaitInv, SendResumedInv
<1>4. CASE RecvBegin(u) \/ RecvFromSender(u) \/ RecvBuffer(u) \/ RecvEmpty(u)
           \/ RecvWait(u) \/ RecvResumed(u)
  BY <1>4, RecvBeginInv, RecvFromSenderInv, RecvBufferInv, RecvEmptyInv, RecvWaitInv,
     RecvResumedInv
<1> QED
  BY <1>1, <1>2, <1>3, <1>4 DEF ChStep

\* A coroutine that only locks and unlocks.
LEMMA PlainStep ==
  ASSUME LockInv, NEW u \in Users, PlainLock(u) \/ PlainUnlock(u)
  PROVE  LockInv' /\ OnlyChannel /\ OnlyCondVar
<1>1. PICK l \in {"plain locked", "plain"} :
        Become(u, l) /\ (Enters(u) \/ Leaves(u)) /\ act[u] \in {"plain locked", "plain"}
  BY DEF PlainLock, PlainUnlock, BeginLock, Leave, Become, Enters, Leaves
<1>2. LockInv' /\ act'[u] = l /\ \A w \in Users \ {u} : act'[w] = act[w]
  BY <1>1, Relabelled DEF HeldActs
<1> QED
  BY <1>1, <1>2
  DEF OnlyChannel, OnlyCondVar, ChActs, SendLabels, RecvLabels, CvActs, Notifying

\* Whoever uses the mutex takes steps of Mutex, or none of its steps.
LEMMA UserUsesMutex ==
  ASSUME LockInv, NEW u \in Users, UserStep(u)
  PROVE  [Next]_vars
<1>1. Mine(u) \in Parties /\ Other(u) \in Parties
  BY DEF LockInv, Parting, Parties, Mine, Other
<1>2. ASSUME NEW l, BeginLock(u, l) PROVE Next
  BY <1>1, <1>2, ClientsAssumption DEF BeginLock, Next
<1>3. CASE PlainLock(u) \/ PlainUnlock(u)
  BY <1>2, <1>3 DEF PlainLock, PlainUnlock
<1>4. CASE CvStep(u)
  BY <1>2, <1>4
  DEF CvStep, WaitBegin, WaitTest, WaitSuspend, WaitAgain, NotifierBegin, Give,
      NotifyLoad, NotifyRead, NotifyPop, NotifyAll
<1>5. CASE ChStep(u)
  BY <1>2, <1>5
  DEF ChStep, CopySender, CopyReceiver, CloseSender, CloseReceiver, Destroy, DestroyWake,
      SendBegin, SendHand, SendBuffer, SendFull, SendWait, SendResumed,
      RecvBegin, RecvFromSender, RecvBuffer, RecvEmpty, RecvWait, RecvResumed
<1> QED
  BY <1>3, <1>4, <1>5 DEF UserStep

\* A step of one use is invisible to the invariants of the others.
LEMMA SyncNextInv ==
  ASSUME SyncInv, [SyncNext]_SyncVars
  PROVE  SyncInv' /\ [Next]_vars
<1>1. LockInv /\ CvInv /\ ChInv
  BY DEF SyncInv
<1>2. CASE UNCHANGED SyncVars
  <2>1. UNCHANGED <<vars, act, ticket, leaving, cvVars, chVars>>
    BY <1>2 DEF SyncVars, clientVars
  <2>2. Inv' /\ [Next]_vars
    BY <1>1, <2>1, NextInv DEF LockInv
  <2>3. LockInv'
    BY <1>1, <2>1, <2>2 DEF LockInv, Parting, OfUsers, Holds, Inside, Mine, vars
  <2>4. CvInv'
    BY <1>1, <2>1, CvQuiet
  <2>5. ChInv'
    BY <1>1, <2>1, ChQuiet
  <2> QED
    BY <2>2, <2>3, <2>4, <2>5 DEF SyncInv
<1>3. ASSUME NEW p \in Parties, MutexStep(p) PROVE SyncInv' /\ [Next]_vars
  <2>1. (LockSteps(p) \/ UnlockSteps(p)) /\ UNCHANGED <<cvVars, chVars>>
    BY <1>3 DEF MutexStep
  <2>2. LockInv' /\ Next /\ UNCHANGED act
    BY <1>1, <2>1, MutexKeepsLock
  <2>3. CvInv'
    BY <1>1, <2>1, <2>2, CvQuiet
  <2>4. ChInv'
    BY <1>1, <2>1, <2>2, ChQuiet
  <2> QED
    BY <2>2, <2>3, <2>4 DEF SyncInv
<1>4. ASSUME NEW u \in Users, UserStep(u) PROVE SyncInv' /\ [Next]_vars
  <2>1. [Next]_vars
    BY <1>1, <1>4, UserUsesMutex
  <2>2. CASE (PlainLock(u) \/ PlainUnlock(u)) /\ UNCHANGED <<cvVars, chVars>>
    <3>1. LockInv' /\ OnlyChannel /\ OnlyCondVar
      BY <1>1, <2>2, PlainStep
    <3>2. CvInv'
      BY <1>1, <2>2, <3>1, CvQuiet DEF OnlyChannel
    <3>3. ChInv'
      BY <1>1, <2>2, <3>1, ChQuiet DEF OnlyCondVar
    <3> QED
      BY <2>1, <3>1, <3>2, <3>3 DEF SyncInv
  <2>3. CASE CvStep(u) /\ UNCHANGED chVars
    <3>1. CvInv'
      BY <1>1, <2>3, CvStepInv
    <3>2. LockInv' /\ OnlyCondVar
      BY <1>1, <2>3, CvStepActs
    <3>3. ChInv'
      BY <1>1, <2>3, <3>2, ChQuiet DEF OnlyCondVar
    <3> QED
      BY <2>1, <3>1, <3>2, <3>3 DEF SyncInv
  <2>4. CASE ChStep(u) /\ UNCHANGED cvVars
    <3>1. LockInv' /\ ChInv'
      BY <1>1, <2>4, ChStepInv
    <3>2. OnlyChannel
      BY <1>1, <2>4, ChStepActs
    <3>3. CvInv'
      BY <1>1, <2>4, <3>2, CvQuiet DEF OnlyChannel
    <3> QED
      BY <2>1, <3>1, <3>3 DEF SyncInv
  <2> QED
    BY <1>4, <2>2, <2>3, <2>4 DEF UserStep
<1> QED
  BY <1>2, <1>3, <1>4 DEF SyncNext

\* A set that does not have two members has one at most.
LEMMA AtMostOne ==
  ASSUME NEW A \in SUBSET Users, \A u, v \in A : u = v
  PROVE  Cardinality(A) \in Nat /\ Cardinality(A) <= 1
<1>1. CASE A = {}
  BY <1>1, FS_EmptySet
<1>2. CASE A # {}
  <2>1. PICK u : u \in A
    BY <1>2
  <2>2. A = {u}
    BY <2>1
  <2> QED
    BY <2>2, FS_Singleton
<1> QED
  BY <1>1, <1>2

\* Nobody sleeps, and nothing is sent.
LEMMA SyncInitInv == SyncInit => SyncInv
<1> SUFFICES ASSUME SyncInit PROVE SyncInv
  OBVIOUS
<1>1. /\ Init /\ CvInit /\ ChInit
      /\ ticket = [u \in Users |-> 1] /\ leaving = {} /\ act \in Roles
  BY DEF SyncInit, ClientInit
<1>2. /\ act \in [Users -> FirstActs]
      /\ \A u, v \in Users : act[u] = "producer" /\ act[v] = "producer" => u = v
      /\ \A u, v \in Users : act[u] = "consumer" /\ act[v] = "consumer" => u = v
  BY <1>1, RolesAssumption DEF Alone
<1>3. \A u \in Users : act[u] \in FirstActs
  BY <1>2
<1>4. LockInv
  <2>1. Inv
    BY <1>1, InitInv
  <2>2. Parting
    BY <1>1, ClientsAssumption DEF Parting, Init
  <2> QED
    BY <1>2, <1>3, <2>1, <2>2 DEF LockInv, OfUsers, FirstActs, HeldActs
<1>5. CvInv
  <2>1. /\ head = Null /\ next = [u \in Users |-> Null] /\ tokens = 0
        /\ seen = [u \in Users |-> <<Null, Null>>]
    BY <1>1 DEF CvInit
  <2>2. \A u \in Users : act[u] \notin {"asleep", "read", "pop", "push", "give"}
    BY <1>3 DEF FirstActs
  <2>3. CvTypes
    BY <2>1 DEF CvTypes
  <2>4. Chained
    <3>1. IsChain(<< >>)
      BY <2>1, <2>2, EmptyList DEF IsChain, Nth
    <3>2. << >> \in Seq(Users)
      OBVIOUS
    <3> QED
      BY <3>1, <3>2 DEF Chained
  <2>5. SeenInv
    BY <2>2 DEF SeenInv
  <2>6. TokenInv
    BY <2>1, <2>2 DEF TokenInv
  <2> QED
    BY <2>3, <2>4, <2>5, <2>6 DEF CvInv, Orderly
<1>6. ChInv
  <2>1. /\ ring = NewRing(Capacity, Null) /\ wsend = << >> /\ wrecv = << >> /\ ~closed
        /\ handles = [send |-> 1, recv |-> 1] /\ count = [u \in Users |-> 0]
        /\ res = [u \in Users |-> Null] /\ got = << >> /\ refused = {}
    BY <1>1 DEF ChInit
  <2>2. \A u \in Users :
          act[u] \notin (SendLabels \cup RecvLabels \cup {"destroy", "wake"})
                          \ {"producer", "consumer"}
    BY <1>3 DEF FirstActs, SendLabels, RecvLabels
  <2>3. << >> \in Seq(Users) /\ 0 \in 0 .. MaxSends
    BY ChannelAssumption
  <2>4. ChTypes
    BY <2>1, <2>2, <2>3 DEF ChTypes, OfUsers, Unsettled, SendLabels, RecvLabels
  <2>5. ValueInv
    <3>1. Started = {}
      BY <2>1, ChannelAssumption DEF Started
    <3>2. RingOK(ring) /\ Buffered(ring) = << >>
      BY <2>1, NewRingFacts, BufferedFacts
    <3>3. << >> \in Seq(Started)
      OBVIOUS
    <3> QED
      BY <2>1, <3>1, <3>2, <3>3 DEF ValueInv, ExactlyOnce
  <2>6. HandleInv
    <3>1. /\ Senders \in SUBSET Users /\ Receivers \in SUBSET Users
          /\ \A u, v \in Senders : u = v
          /\ \A u, v \in Receivers : u = v
      BY <1>2, <2>2 DEF Senders, Receivers, SendLabels, RecvLabels
    <3>2. Cardinality(Senders) <= 1 /\ Cardinality(Receivers) <= 1
      BY <3>1, AtMostOne
    <3>3. \A u \in Users : act[u] # "destroy" /\ act[u] # "wake"
      BY <2>2
    <3>4. handles.send = 1 /\ handles.recv = 1
      BY <2>1
    <3> QED
      BY <2>1, <3>2, <3>3, <3>4 DEF HandleInv
  <2>7. QueueInv
    BY <2>1, EmptyList DEF QueueInv
  <2>8. DecisionInv
    BY <2>1, <2>2 DEF DecisionInv, NobodyWaitsInVain, SendLabels, RecvLabels
  <2>9. ResultInv
    BY <2>1, <2>2 DEF ResultInv, Refusing, SendLabels, RecvLabels
  <2> QED
    BY <2>4, <2>5, <2>6, <2>7, <2>8, <2>9 DEF ChInv
<1> QED
  BY <1>4, <1>5, <1>6 DEF SyncInv

\* The inductive invariant.
LEMMA SyncInvAlways == SyncSpec => []SyncInv
<1>1. SyncInv /\ [SyncNext]_SyncVars => SyncInv'
  BY SyncNextInv
<1> QED
  BY <1>1, SyncInitInv, PTL DEF SyncSpec

-----------------------------------------------------------------------------
(* Theorems.                                                               *)

\* Coroutines that use the mutex only to lock and unlock, that wait on and
\* notify a condition variable, or that send and receive, use it as Mutex
\* describes: whatever is shown there of lock() and unlock() holds for them.
THEOREM UsesTheMutex == SyncSpec => Init /\ [][Next]_vars
<1>1. SyncInit => Init
  BY DEF SyncInit, ClientInit
<1>2. SyncInv /\ [SyncNext]_SyncVars => [Next]_vars
  BY SyncNextInv
<1> QED
  BY <1>1, <1>2, SyncInvAlways, PTL DEF SyncSpec

\* One coroutine at a time is inside, although an awaiter unlocks on a thread
\* that its coroutine has already left.
THEOREM SyncMutualExclusion == SyncSpec => [](TypeOK /\ MutualExclusion /\ WaitersAreListed)
<1>1. SyncInv => TypeOK /\ MutualExclusion /\ WaitersAreListed
  BY InvListsWaiters DEF SyncInv, LockInv, Inv
<1> QED
  BY <1>1, SyncInvAlways, PTL

\* The lock goes to whoever has waited longest, among all of its uses.
THEOREM SyncImplementsFifoLock == SyncSpec => Fifo!Init /\ [][Fifo!Next]_Fifo!vars
<1>1. Init => Fifo!Init
  BY InitMaps
<1>2. SyncInv /\ SyncInv' /\ [SyncNext]_SyncVars => [Fifo!Next]_Fifo!vars
  <2> SUFFICES ASSUME SyncInv, SyncInv', [SyncNext]_SyncVars PROVE [Fifo!Next]_Fifo!vars
    OBVIOUS
  <2>1. Inv /\ Inv' /\ [Next]_vars
    BY SyncNextInv DEF SyncInv, LockInv
  <2> QED
    BY <2>1, NextMaps DEF Fifo!vars
<1>3. SyncInit => Init
  BY DEF SyncInit, ClientInit
<1> QED
  BY <1>1, <1>2, <1>3, SyncInvAlways, PTL DEF SyncSpec

\* In the state the list has until notifies race, it holds the sleepers.
LEMMA OrderlyList ==
  ASSUME Orderly
  PROVE  ListOfSleepers
<1>1. PICK L \in Seq(Users) : IsChain(L)
  BY DEF Orderly, Chained
<1>2. Chain = L
  BY <1>1, ChainIs
<1>3. DOMAIN L = 1 .. Len(L)
  OBVIOUS
<1> QED
  BY <1>1, <1>2, <1>3 DEF IsChain, Distinct, ListOfSleepers

\* Whoever sleeps on a condition variable is in its list exactly once, and
\* nobody else is, through the pushes and the notify_one and notify_all calls
\* of any number of coroutines, until a notify takes nodes off while another
\* is between its load of the head and its compare-exchange.
THEOREM SleepersAreChainedAlways == SyncSpec => []SleepersAreChained
<1>1. CvInv => SleepersAreChained
  BY OrderlyList DEF CvInv, SleepersAreChained
<1> QED
  BY <1>1, SyncInvAlways, PTL DEF SyncInv

\* No wakeup is lost between the test of the predicate and the suspension,
\* for as long.
THEOREM NoLostNotifyAlways == SyncSpec => []NoLostNotify
<1>1. CvInv => NoLostNotify
  <2> SUFFICES ASSUME CvInv, ~raced, tokens > 0, \E u \in Users : act[u] = "asleep"
               PROVE  \E u \in Users :
                        act[u] \in {"load", "read", "pop", "notified", "test", "push"}
    BY DEF NoLostNotify
  <2>1. tokens \in Nat /\ tokens <= Cardinality(OnTheWay)
    BY DEF CvInv, Orderly, TokenInv
  <2>2. OnTheWay # {}
    BY <2>1, FS_EmptySet
  <2> QED
    BY <2>2 DEF OnTheWay
<1> QED
  BY <1>1, SyncInvAlways, PTL DEF SyncInv

\* Notifies that are called with the mutex locked never race, however many
\* coroutines make them: under that rule of use a coroutine sleeps when, and
\* only when, it is in the list, once.
THEOREM LockedNotifiesKeepTheList ==
  SyncSpec /\ []NotifiersHoldMutex => [](~raced /\ ListOfSleepers)
<1>1. SyncInit => ~raced
  BY DEF SyncInit, CvInit
<1>2. SyncInv /\ NotifiersHoldMutex /\ ~raced /\ [SyncNext]_SyncVars => ~raced'
  <2> SUFFICES ASSUME SyncInv, NotifiersHoldMutex, ~raced, [SyncNext]_SyncVars
               PROVE  ~raced'
    OBVIOUS
  <2>1. ASSUME NEW u \in Users, act[u] \in {"load", "pop"} PROVE ~Races(u)
    <3>1. \A w \in Users : act[w] \in {"read", "pop"} => Inside(w)
      BY DEF NotifiersHoldMutex
    <3>2. Inside(u)
      BY <2>1 DEF NotifiersHoldMutex
    <3>3. \A w \in Users : Inside(w) => w = u
      BY <3>2, InsideAlone DEF SyncInv
    <3> QED
      BY <3>1, <3>3 DEF Races
  <2>2. CASE \E u \in Users : NotifyPop(u) \/ NotifyAll(u)
    BY <2>1, <2>2 DEF NotifyPop, NotifyAll
  <2>3. CASE UNCHANGED cvVars
    BY <2>3 DEF cvVars
  <2>4. CASE \E u \in Users : CvStep(u) /\ ~(NotifyPop(u) \/ NotifyAll(u))
    BY <2>4
    DEF CvStep, WaitBegin, WaitTest, WaitSuspend, WaitAgain, NotifierBegin, Give,
        NotifyLoad, NotifyRead, cvVars
  <2> QED
    BY <2>2, <2>3, <2>4 DEF SyncNext, MutexStep, UserStep, SyncVars
<1>3. SyncInv /\ ~raced => ListOfSleepers
  BY OrderlyList DEF SyncInv, CvInv
<1> QED
  BY <1>1, <1>2, <1>3, SyncInvAlways, PTL DEF SyncSpec

\* Nobody waits on a channel for what is there.
THEOREM NobodyWaitsInVainAlways == SyncSpec => []NobodyWaitsInVain
BY SyncInvAlways, PTL DEF SyncInv, ChInv, DecisionInv

\* Every value sent is in one place: with its sender, in the buffer, with a
\* receiver, or refused, whatever races between them and destroy.
THEOREM ExactlyOnceAlways == SyncSpec => []ExactlyOnce
BY SyncInvAlways, PTL DEF SyncInv, ChInv, ValueInv

\* A receiver that is told ClosedChannel leaves no value behind.
THEOREM DrainedBeforeClosedAlways == SyncSpec => []DrainedBeforeClosed
<1>1. ChInv => DrainedBeforeClosed
  <2> SUFFICES ASSUME ChInv, NEW u \in Users, act[u] = "recv closed"
               PROVE  IsEmpty(ring) /\ \A w \in Users : act[w] # "send waits"
    BY DEF DrainedBeforeClosed
  <2>1. handles.send = 0 /\ IsEmpty(ring)
    BY DEF ChInv, ResultInv, Refusing
  <2> QED
    BY <2>1, Counted DEF SendLabels
<1> QED
  BY <1>1, SyncInvAlways, PTL DEF SyncInv
=============================================================================
