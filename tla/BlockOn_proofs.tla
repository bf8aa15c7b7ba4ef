-------------------------- MODULE BlockOn_proofs ----------------------------
(***************************************************************************)
(* Proofs about BlockOn, for any callers, tasks, coroutines and workers:   *)
(* a tracker counts exactly what it waits for, so that block_on and        *)
(* wait_all return neither before what they have counted nor before the    *)
(* results are there.                                                      *)
(***************************************************************************)
EXTENDS BlockOn, FiniteSetTheorems, TLAPS

\* Whom a coroutine's end is counted down for.
Owner(c) == IF c \in Mains THEN CallerOf(c) ELSE notify[c]

\* The coroutines that a tracker still waits for.
Counted(t) == {c \in Coros : Owner(c) = t /\ call[t] # "idle" /\ ~Ended(c)}

\* Nothing is left of what a tracker counted before it reached zero.
Over(t) == \A c \in joined[t] : Ended(c)

\* pending_count counts what it waits for.
Counting == \A t \in Callers : pending[t] = Cardinality(Counted(t))

\* A tracker that somebody points to has been made by a call, and so has one
\* whose tasks have been submitted.
Begun ==
  /\ \A w \in Workers : current[w] # Null => call[current[w]] # "idle"
  /\ \A m \in Mains : prev[m] # Null => call[prev[m]] # "idle"
  /\ \A k \in Kids : notify[k] # Null => call[notify[k]] # "idle"
  /\ \A m \in Mains : at[m] # "unborn" => call[CallerOf(m)] # "idle"

\* joined is a call's tasks, and coroutines registered since.
Joining ==
  \A t \in Callers :
    /\ call[t] = "idle" => joined[t] = {} /\ ~ready[t]
    /\ call[t] # "idle" => ToSet(Tasks[t]) \subseteq joined[t]
    /\ \A c \in joined[t] : Owner(c) = t

\* A task is waited for by its awaiter or by a tracker, not by both, and an
\* awaiter waits for one task.
Waiting ==
  /\ \A c \in Coros : c \in Mains \/ at[c] = "unborn" => notify[c] = Null /\ awaiter[c] = Null
  /\ \A c \in Coros : awaiter[c] # Null =>
       notify[c] = Null /\ (~Ended(c) => at[awaiter[c]] = "awaits")
  /\ \A c, d \in Coros :
       awaiter[c] # Null /\ awaiter[c] = awaiter[d] /\ ~Ended(c) /\ ~Ended(d) => c = d

\* Only when all is over is the completion signalled; and a call that goes on
\* has seen it.
Signalling ==
  /\ \A c \in Coros : at[c] \in {"signals", "signals, throws"} =>
       Owner(c) \in Callers /\ Over(Owner(c))
  /\ \A t \in Callers : ready[t] => Over(t)
  /\ \A t \in Callers : call[t] \in {"get", "returned"} => ready[t]

\* A wrapper fills its slot before it ends.
Filling == \A m \in Mains : at[m] = "filled" \/ Ended(m) => slot[m] # Null

IInv ==
  TypeOK /\ Counting /\ Begun /\ Joining /\ Waiting /\ Signalling /\ Filling

-----------------------------------------------------------------------------
(* Constants and sets.                                                     *)

\* CallerOf finds the call a task belongs to.
LEMMA CallerOfFacts ==
  /\ \A m \in Mains : CallerOf(m) \in Callers /\ m \in ToSet(Tasks[CallerOf(m)])
  /\ \A t \in Callers : \A m \in ToSet(Tasks[t]) : m \in Mains /\ CallerOf(m) = t
<1>1. \A t \in Callers : \A m : Contains(Tasks[t], m) <=> m \in ToSet(Tasks[t])
  BY TasksAssumption DEF Contains, ToSet
<1>2. ASSUME NEW m \in Mains
      PROVE  CallerOf(m) \in Callers /\ m \in ToSet(Tasks[CallerOf(m)])
  <2>1. \E t \in Callers : Contains(Tasks[t], m)
    BY <1>1 DEF Mains
  <2>2. CallerOf(m) \in Callers /\ Contains(Tasks[CallerOf(m)], m)
    BY <2>1 DEF CallerOf
  <2> QED
    BY <1>1, <2>2
<1>3. ASSUME NEW t \in Callers, NEW m \in ToSet(Tasks[t])
      PROVE  m \in Mains /\ CallerOf(m) = t
  <2>1. m \in Mains
    BY DEF Mains
  <2> QED
    BY <1>2, <2>1, TasksAssumption
<1> QED
  BY <1>2, <1>3

\* A call has as many tasks as Tasks lists, and finitely many.
LEMMA TasksCounted ==
  ASSUME NEW t \in Callers
  PROVE  /\ IsFiniteSet(ToSet(Tasks[t]))
         /\ Cardinality(ToSet(Tasks[t])) = Len(Tasks[t])
         /\ Len(Tasks[t]) \in Nat \ {0}
<1>1. /\ Tasks[t] \in Seq(Mains) /\ Tasks[t] # << >>
      /\ IsInjective(Tasks[t])
  BY TasksAssumption
<1>2. Len(Tasks[t]) \in Nat \ {0} /\ DOMAIN Tasks[t] = 1 .. Len(Tasks[t])
  BY <1>1
<1>3. Tasks[t] \in Bijection(1 .. Len(Tasks[t]), ToSet(Tasks[t]))
  BY <1>1, <1>2 DEF Bijection, Injection, Surjection, IsInjective, ToSet
<1>4. IsFiniteSet(1 .. Len(Tasks[t])) /\ Cardinality(1 .. Len(Tasks[t])) = Len(Tasks[t])
  BY <1>2, FS_Interval
<1>5. ExistsBijection(1 .. Len(Tasks[t]), ToSet(Tasks[t]))
  BY <1>3 DEF ExistsBijection
<1> QED
  BY <1>2, <1>4, <1>5, FS_Bijection

\* A tracker waits for finitely many coroutines.
LEMMA CountedFinite ==
  ASSUME NEW t \in Callers
  PROVE  IsFiniteSet(Counted(t))
<1>1. IsFiniteSet(ToSet(Tasks[t]) \cup Kids)
  BY TasksCounted, TasksAssumption, FS_Union
<1>2. Counted(t) \subseteq ToSet(Tasks[t]) \cup Kids
  BY CallerOfFacts DEF Counted, Owner, Coros
<1> QED
  BY <1>1, <1>2, FS_Subset

-----------------------------------------------------------------------------
(* Steps that end no coroutine and count none.                             *)

\* What a step that leaves these alone leaves of the counting.
LEMMA NothingCounted ==
  ASSUME IInv, UNCHANGED <<pending, ready, notify, joined>>,
         \A c \in Coros : Ended(c)' <=> Ended(c),
         \A c \in Coros : at'[c] \in {"signals", "signals, throws"} =>
                            at[c] \in {"signals", "signals, throws"},
         \A t \in Callers : call'[t] = "idle" <=> call[t] = "idle"
  PROVE  /\ Counting' /\ Joining'
         /\ \A c \in Coros : at'[c] \in {"signals", "signals, throws"} =>
              Owner(c)' \in Callers /\ Over(Owner(c))'
         /\ \A t \in Callers : ready'[t] => Over(t)'
<1>1. \A c : Owner(c)' = Owner(c)
  BY DEF Owner
<1>2. \A t \in Callers : joined[t] \subseteq Coros
  BY DEF IInv, TypeOK
<1>3. \A t \in Callers : Counted(t)' = Counted(t) /\ (Over(t)' <=> Over(t))
  BY <1>1, <1>2 DEF Counted, Over
<1>4. Counting'
  BY <1>3 DEF IInv, Counting
<1>5. Joining'
  BY <1>1 DEF IInv, Joining
<1> QED
  BY <1>1, <1>3, <1>4, <1>5 DEF IInv, Signalling

\* A submitted task was counted by its call already.
LEMMA SubmitInv ==
  ASSUME IInv, NEW t \in Callers, Submit(t)
  PROVE  IInv'
<1> USE DEF IInv
<1>1. PICK m \in Mains :
        /\ CallerOf(m) = t /\ at[m] = "unborn"
        /\ at' = [at EXCEPT ![m] = "submitted"]
        /\ \E label \in {"wait", "submit"} : call' = [call EXCEPT ![t] = label]
  <2>1. PICK i \in DOMAIN Tasks[t] :
          /\ \A j \in DOMAIN Tasks[t] : at[Tasks[t][j]] = "unborn" <=> i <= j
          /\ at' = [at EXCEPT ![Tasks[t][i]] = "submitted"]
          /\ call' = [call EXCEPT ![t] = IF i = Len(Tasks[t]) THEN "wait" ELSE "submit"]
    BY DEF Submit
  <2>2. i \in 1 .. Len(Tasks[t]) /\ i <= i
    BY <2>1, TasksAssumption
  <2>3. at[Tasks[t][i]] = "unborn"
    BY <2>1, <2>2
  <2>4. Tasks[t][i] \in ToSet(Tasks[t])
    BY DEF ToSet
  <2> QED
    BY <2>1, <2>3, <2>4, CallerOfFacts
<1>0. /\ call[t] = "submit" /\ m \in Coros
      /\ UNCHANGED <<pending, ready, slot, running, current, prev, notify, awaiter,
                      parks, tree, joined, crashed>>
  BY DEF Submit, Coros
<1>2. TypeOK'
  BY <1>0, <1>1 DEF TypeOK, Standing
<1>3. /\ \A d \in Coros : Ended(d)' <=> Ended(d)
      /\ \A d \in Coros : at'[d] \in {"signals", "signals, throws"} =>
                            at[d] \in {"signals", "signals, throws"}
      /\ \A u \in Callers : call'[u] = "idle" <=> call[u] = "idle"
  BY <1>0, <1>1 DEF TypeOK, Ended
<1>4. /\ Counting' /\ Joining'
      /\ \A d \in Coros : at'[d] \in {"signals", "signals, throws"} =>
           Owner(d)' \in Callers /\ Over(Owner(d))'
      /\ \A u \in Callers : ready'[u] => Over(u)'
  BY <1>0, <1>3, NothingCounted
<1>5. Begun'
  BY <1>0, <1>1 DEF TypeOK, Begun
<1>6. Waiting'
  BY ZenonT(30), <1>0, <1>1 DEF TypeOK, Waiting, Ended
<1>7. Signalling'
  BY <1>0, <1>1, <1>4 DEF TypeOK, Signalling
<1>8. Filling'
  BY <1>0, <1>1 DEF TypeOK, Filling, Ended, Coros
<1> QED
  BY <1>2, <1>4, <1>5, <1>6, <1>7, <1>8

\* A call that goes on has seen the completion.
LEMMA WaitAllDoneInv ==
  ASSUME IInv, NEW t \in Callers, WaitAllDone(t)
  PROVE  IInv'
<1> USE DEF IInv
<1>1. TypeOK'
  BY CallerOfFacts, TasksAssumption DEF TypeOK, WaitAllDone, Standing, Coros
<1>2. /\ \A d \in Coros : Ended(d)' <=> Ended(d)
      /\ \A d \in Coros : at'[d] \in {"signals", "signals, throws"} =>
                            at[d] \in {"signals", "signals, throws"}
      /\ \A u \in Callers : call'[u] = "idle" <=> call[u] = "idle"
      /\ UNCHANGED <<pending, ready, notify, joined>>
  BY CallerOfFacts DEF TypeOK, WaitAllDone, Ended, Coros
<1>3. /\ Counting' /\ Joining'
      /\ \A d \in Coros : at'[d] \in {"signals", "signals, throws"} =>
           Owner(d)' \in Callers /\ Over(Owner(d))'
      /\ \A u \in Callers : ready'[u] => Over(u)'
  BY <1>2, NothingCounted
<1>4. Begun'
  BY CallerOfFacts DEF TypeOK, WaitAllDone, Begun, Coros
<1>5. Waiting'
  BY CallerOfFacts, TasksAssumption DEF TypeOK, WaitAllDone, Waiting, Ended, Coros
<1>6. Signalling'
  BY <1>3, TasksAssumption DEF TypeOK, WaitAllDone, Signalling
<1>7. Filling'
  BY TasksAssumption DEF TypeOK, WaitAllDone, Filling, Ended, Coros
<1> QED
  BY <1>1, <1>3, <1>4, <1>5, <1>6, <1>7

\* get() returns: nothing is counted or ended.
LEMMA GetInv ==
  ASSUME IInv, NEW t \in Callers, Get(t)
  PROVE  IInv'
<1> USE DEF IInv
<1>1. TypeOK'
  BY CallerOfFacts, TasksAssumption DEF TypeOK, Get, Standing, Coros
<1>2. /\ \A d \in Coros : Ended(d)' <=> Ended(d)
      /\ \A d \in Coros : at'[d] \in {"signals", "signals, throws"} =>
                            at[d] \in {"signals", "signals, throws"}
      /\ \A u \in Callers : call'[u] = "idle" <=> call[u] = "idle"
      /\ UNCHANGED <<pending, ready, notify, joined>>
  BY CallerOfFacts DEF TypeOK, Get, Ended, Coros
<1>3. /\ Counting' /\ Joining'
      /\ \A d \in Coros : at'[d] \in {"signals", "signals, throws"} =>
           Owner(d)' \in Callers /\ Over(Owner(d))'
      /\ \A u \in Callers : ready'[u] => Over(u)'
  BY <1>2, NothingCounted
<1>4. Begun'
  BY CallerOfFacts DEF TypeOK, Get, Begun, Coros
<1>5. Waiting'
  BY CallerOfFacts, TasksAssumption DEF TypeOK, Get, Waiting, Ended, Coros
<1>6. Signalling'
  BY <1>3, TasksAssumption DEF TypeOK, Get, Signalling
<1>7. Filling'
  BY TasksAssumption DEF TypeOK, Get, Filling, Ended, Coros
<1> QED
  BY <1>1, <1>3, <1>4, <1>5, <1>6, <1>7

\* A wrapper makes its call's tracker the worker's, and saves the other one.
LEMMA EnterInv ==
  ASSUME IInv, NEW w \in Workers, NEW m \in Mains, Enter(w, m)
  PROVE  IInv'
<1> USE DEF IInv
<1>1. TypeOK'
  BY CallerOfFacts, TasksAssumption DEF TypeOK, Enter, Standing, Coros
<1>2. /\ \A d \in Coros : Ended(d)' <=> Ended(d)
      /\ \A d \in Coros : at'[d] \in {"signals", "signals, throws"} =>
                            at[d] \in {"signals", "signals, throws"}
      /\ \A u \in Callers : call'[u] = "idle" <=> call[u] = "idle"
      /\ UNCHANGED <<pending, ready, notify, joined>>
  BY CallerOfFacts DEF TypeOK, Enter, Ended, Coros
<1>3. /\ Counting' /\ Joining'
      /\ \A d \in Coros : at'[d] \in {"signals", "signals, throws"} =>
           Owner(d)' \in Callers /\ Over(Owner(d))'
      /\ \A u \in Callers : ready'[u] => Over(u)'
  BY <1>2, NothingCounted
<1>4. Begun'
  BY CallerOfFacts DEF TypeOK, Enter, Begun, Coros
<1>5. Waiting'
  BY ZenonT(30), CallerOfFacts, TasksAssumption DEF TypeOK, Enter, Waiting, Ended, Coros
<1>6. Signalling'
  BY <1>3, TasksAssumption DEF TypeOK, Enter, Signalling
<1>7. Filling'
  BY TasksAssumption DEF TypeOK, Enter, Filling, Ended, Coros
<1> QED
  BY <1>1, <1>3, <1>4, <1>5, <1>6, <1>7

\* A worker resumes a coroutine.
LEMMA ResumeInv ==
  ASSUME IInv, NEW w \in Workers, NEW c \in Coros, Resume(w, c)
  PROVE  IInv'
<1> USE DEF IInv
<1>1. TypeOK'
  BY CallerOfFacts, TasksAssumption DEF TypeOK, Resume, Standing, Coros
<1>2. /\ \A d \in Coros : Ended(d)' <=> Ended(d)
      /\ \A d \in Coros : at'[d] \in {"signals", "signals, throws"} =>
                            at[d] \in {"signals", "signals, throws"}
      /\ \A u \in Callers : call'[u] = "idle" <=> call[u] = "idle"
      /\ UNCHANGED <<pending, ready, notify, joined>>
  BY CallerOfFacts DEF TypeOK, Resume, Ended, Coros
<1>3. /\ Counting' /\ Joining'
      /\ \A d \in Coros : at'[d] \in {"signals", "signals, throws"} =>
           Owner(d)' \in Callers /\ Over(Owner(d))'
      /\ \A u \in Callers : ready'[u] => Over(u)'
  BY <1>2, NothingCounted
<1>4. Begun'
  BY CallerOfFacts DEF TypeOK, Resume, Begun, Coros
<1>5. Waiting'
  BY ZenonT(30), CallerOfFacts, TasksAssumption DEF TypeOK, Resume, Waiting, Ended, Coros
<1>6. Signalling'
  BY <1>3, TasksAssumption DEF TypeOK, Resume, Signalling
<1>7. Filling'
  BY TasksAssumption DEF TypeOK, Resume, Filling, Ended, Coros
<1> QED
  BY <1>1, <1>3, <1>4, <1>5, <1>6, <1>7

\* What a coroutine waited for has happened.
LEMMA WakeInv ==
  ASSUME IInv, NEW c \in Coros, Wake(c)
  PROVE  IInv'
<1> USE DEF IInv
<1>1. TypeOK'
  BY CallerOfFacts, TasksAssumption DEF TypeOK, Wake, Standing, Coros
<1>2. /\ \A d \in Coros : Ended(d)' <=> Ended(d)
      /\ \A d \in Coros : at'[d] \in {"signals", "signals, throws"} =>
                            at[d] \in {"signals", "signals, throws"}
      /\ \A u \in Callers : call'[u] = "idle" <=> call[u] = "idle"
      /\ UNCHANGED <<pending, ready, notify, joined>>
  BY CallerOfFacts DEF TypeOK, Wake, Ended, Coros
<1>3. /\ Counting' /\ Joining'
      /\ \A d \in Coros : at'[d] \in {"signals", "signals, throws"} =>
           Owner(d)' \in Callers /\ Over(Owner(d))'
      /\ \A u \in Callers : ready'[u] => Over(u)'
  BY <1>2, NothingCounted
<1>4. Begun'
  BY CallerOfFacts DEF TypeOK, Wake, Begun, Coros
<1>5. Waiting'
  BY CallerOfFacts, TasksAssumption DEF TypeOK, Wake, Waiting, Ended, Coros
<1>6. Signalling'
  BY <1>3, TasksAssumption DEF TypeOK, Wake, Signalling
<1>7. Filling'
  BY TasksAssumption DEF TypeOK, Wake, Filling, Ended, Coros
<1> QED
  BY <1>1, <1>3, <1>4, <1>5, <1>6, <1>7

\* A coroutine is suspended; the worker's current_tracker stays.
LEMMA ParkInv ==
  ASSUME IInv, NEW w \in Workers, Park(w)
  PROVE  IInv'
<1> USE DEF IInv
<1>1. PICK c \in Coros : /\ c = running[w] /\ at[c] = "runs" /\ parks < MaxParks
                         /\ running' = [running EXCEPT ![w] = Null]
                         /\ at' = [at EXCEPT ![c] = "parked"]
                         /\ parks' = parks + 1
  BY DEF Park, TypeOK
<1>2. UNCHANGED <<call, pending, ready, slot, current, prev, notify, awaiter,
                  tree, joined, crashed>>
  BY DEF Park
<1>3. TypeOK'
  <2>1. MaxParks \in Nat
    BY TasksAssumption
  <2>2. parks' \in 0 .. MaxParks
    BY <1>1, <2>1 DEF TypeOK
  <2>3. at' \in [Coros -> Standing] /\ running' \in [Workers -> Coros \cup {Null}]
    BY <1>1 DEF TypeOK, Standing
  <2> QED
    BY <1>2, <2>2, <2>3 DEF TypeOK
<1>4. /\ \A d \in Coros : Ended(d)' <=> Ended(d)
      /\ \A d \in Coros : at'[d] \in {"signals", "signals, throws"} =>
                            at[d] \in {"signals", "signals, throws"}
  BY <1>1 DEF TypeOK, Ended
<1>5. /\ Counting' /\ Joining'
      /\ \A d \in Coros : at'[d] \in {"signals", "signals, throws"} =>
           Owner(d)' \in Callers /\ Over(Owner(d))'
      /\ \A u \in Callers : ready'[u] => Over(u)'
  BY <1>2, <1>4, NothingCounted
<1>6. Begun'
  BY <1>1, <1>2 DEF TypeOK, Begun, Coros
<1>7. Waiting'
  BY ZenonT(30), <1>1, <1>2 DEF TypeOK, Waiting, Ended
<1>8. Signalling'
  BY <1>2, <1>5 DEF Signalling
<1>9. Filling'
  BY <1>1, <1>2 DEF TypeOK, Filling, Ended, Coros
<1> QED
  BY <1>3, <1>5, <1>6, <1>7, <1>8, <1>9

\* A coroutine awaits a new one: nobody else awaits or counts that one.
LEMMA AwaitInv ==
  ASSUME IInv, NEW w \in Workers, NEW k \in Kids, Await(w, k)
  PROVE  IInv'
<1> USE DEF IInv
<1>1. PICK c \in Coros : /\ c = running[w] /\ at[c] = "runs"
                         /\ at[k] = "unborn"
                         /\ at' = [at EXCEPT ![k] = "runs", ![c] = "awaits"]
                         /\ running' = [running EXCEPT ![w] = k]
                         /\ awaiter' = [awaiter EXCEPT ![k] = c]
                         /\ tree' = [tree EXCEPT ![k] = tree[c]]
  BY DEF Await, TypeOK
<1>2. UNCHANGED <<call, pending, ready, slot, current, prev, notify, parks,
                  joined, crashed>>
  BY DEF Await
<1>3. k \in Coros /\ k # c /\ Mains \subseteq Coros /\ k \notin Mains
      /\ Null \notin Coros
  BY <1>1, TasksAssumption DEF Coros
<1>4. TypeOK'
  BY <1>1, <1>2, <1>3 DEF TypeOK, Standing
<1>5. /\ \A d \in Coros : Ended(d)' <=> Ended(d)
      /\ \A d \in Coros : at'[d] \in {"signals", "signals, throws"} =>
                            at[d] \in {"signals", "signals, throws"}
  BY <1>1, <1>3 DEF TypeOK, Ended
<1>6. /\ Counting' /\ Joining'
      /\ \A d \in Coros : at'[d] \in {"signals", "signals, throws"} =>
           Owner(d)' \in Callers /\ Over(Owner(d))'
      /\ \A u \in Callers : ready'[u] => Over(u)'
  BY <1>2, <1>5, NothingCounted
<1>7. Begun'
  BY <1>1, <1>2, <1>3 DEF TypeOK, Begun
<1>8. Waiting'
  <2>1. ASSUME NEW d \in Coros PROVE
          /\ d \in Mains \/ at'[d] = "unborn" => notify'[d] = Null /\ awaiter'[d] = Null
          /\ awaiter'[d] # Null =>
               notify'[d] = Null /\ (~Ended(d)' => at'[awaiter'[d]] = "awaits")
    <3>1. CASE d = k
      BY <1>1, <1>2, <1>3, <3>1 DEF TypeOK, Waiting
    <3>2. CASE d # k
      <4>1. awaiter'[d] = awaiter[d] /\ notify'[d] = notify[d] /\ (Ended(d)' <=> Ended(d))
        BY <1>1, <1>2, <1>3, <1>5, <3>2 DEF TypeOK
      <4>2. at'[d] = "unborn" => at[d] = "unborn"
        BY <1>1, <1>3, <3>2 DEF TypeOK
      <4>3. \A e \in Coros : at[e] = "awaits" => at'[e] = "awaits"
        BY <1>1, <1>3 DEF TypeOK
      <4> QED
        BY <4>1, <4>2, <4>3 DEF TypeOK, Waiting
    <3> QED
      BY <3>1, <3>2
  <2>2. \A d \in Coros : awaiter[d] = c => Ended(d)
    BY <1>1, <1>3 DEF Waiting
  <2>3. ASSUME NEW d \in Coros, NEW e \in Coros, awaiter'[d] # Null,
               awaiter'[d] = awaiter'[e], ~Ended(d)', ~Ended(e)'
        PROVE  d = e
    <3>1. ~Ended(d) /\ ~Ended(e)
      BY <1>5, <2>3
    <3>2. \A x \in Coros : awaiter'[x] = IF x = k THEN c ELSE awaiter[x]
      BY <1>1 DEF TypeOK
    <3> QED
      BY <2>2, <2>3, <3>1, <3>2 DEF Waiting
  <2> QED
    BY <2>1, <2>3 DEF Waiting
<1>9. Signalling'
  BY <1>2, <1>6 DEF Signalling
<1>10. Filling'
  BY <1>1, <1>2, <1>3 DEF TypeOK, Filling, Ended
<1> QED
  BY <1>4, <1>6, <1>7, <1>8, <1>9, <1>10

\* A wrapper fills the slot of its task.
LEMMA FillSlotInv ==
  ASSUME IInv, NEW w \in Workers, FillSlot(w)
  PROVE  IInv'
<1> USE DEF IInv
<1>1. PICK m \in Mains, result \in {"value", "exception"} :
        /\ m = running[w] /\ at[m] = "runs"
        /\ slot' = [slot EXCEPT ![m] = result]
        /\ at' = [at EXCEPT ![m] = "filled"]
  BY DEF FillSlot
<1>2. UNCHANGED <<call, pending, ready, running, current, prev, notify, awaiter,
                  parks, tree, joined, crashed>>
  BY DEF FillSlot
<1>3. Mains \subseteq Coros /\ result # Null
  BY TasksAssumption DEF Coros
<1>4. TypeOK'
  BY <1>1, <1>2, <1>3 DEF TypeOK, Standing
<1>5. /\ \A d \in Coros : Ended(d)' <=> Ended(d)
      /\ \A d \in Coros : at'[d] \in {"signals", "signals, throws"} =>
                            at[d] \in {"signals", "signals, throws"}
  BY <1>1, <1>3 DEF TypeOK, Ended
<1>6. /\ Counting' /\ Joining'
      /\ \A d \in Coros : at'[d] \in {"signals", "signals, throws"} =>
           Owner(d)' \in Callers /\ Over(Owner(d))'
      /\ \A u \in Callers : ready'[u] => Over(u)'
  BY <1>2, <1>5, NothingCounted
<1>7. Begun'
  BY <1>1, <1>2, <1>3 DEF TypeOK, Begun
<1>8. Waiting'
  BY <1>1, <1>2, <1>3 DEF TypeOK, Waiting, Ended
<1>9. Signalling'
  BY <1>2, <1>6 DEF Signalling
<1>10. Filling'
  BY <1>1, <1>2, <1>3 DEF TypeOK, Filling, Ended
<1> QED
  BY <1>4, <1>6, <1>7, <1>8, <1>9, <1>10

-----------------------------------------------------------------------------
(* Steps that count.                                                       *)

\* A call counts all its tasks before one is submitted.
LEMMA CallInv ==
  ASSUME IInv, NEW t \in Callers, Call(t)
  PROVE  IInv'
<1> USE DEF IInv
<1>1. /\ call[t] = "idle"
      /\ pending' = [pending EXCEPT ![t] = Len(Tasks[t])]
      /\ joined' = [joined EXCEPT ![t] = ToSet(Tasks[t])]
      /\ call' = [call EXCEPT ![t] = "submit"]
      /\ UNCHANGED <<ready, slot, at, running, current, prev, notify, awaiter,
                     parks, tree, crashed>>
  BY DEF Call
<1>2. ToSet(Tasks[t]) \subseteq Mains /\ Mains \subseteq Coros
  BY CallerOfFacts DEF Coros
<1>3. TypeOK'
  BY <1>1, <1>2, TasksCounted DEF TypeOK
<1>4. \A c \in Coros : Owner(c)' = Owner(c) /\ (Ended(c)' <=> Ended(c))
  BY <1>1 DEF Owner, Ended
<1>5. \A c \in Coros : Owner(c) = t <=> c \in ToSet(Tasks[t])
  <2>1. ASSUME NEW c \in Kids PROVE notify[c] # t /\ c \notin ToSet(Tasks[t])
    BY <1>1, <1>2, TasksAssumption DEF Begun
  <2> QED
    BY <2>1, CallerOfFacts, TasksAssumption DEF Owner, Coros
<1>6. \A m \in ToSet(Tasks[t]) : at[m] = "unborn"
  BY <1>1, CallerOfFacts DEF Begun
<1>7. Counting'
  <2>1. Counted(t)' = ToSet(Tasks[t])
    BY <1>1, <1>2, <1>4, <1>5, <1>6 DEF Counted, Ended, TypeOK
  <2>2. \A u \in Callers \ {t} : Counted(u)' = Counted(u)
    BY <1>1, <1>4 DEF Counted, TypeOK
  <2>3. ASSUME NEW u \in Callers PROVE pending'[u] = Cardinality(Counted(u)')
    BY <1>1, <2>1, <2>2, TasksCounted DEF Counting, TypeOK
  <2> QED
    BY <2>3 DEF Counting
<1>8. Begun'
  BY <1>1 DEF TypeOK, Begun
<1>9. Joining'
  BY <1>1, <1>2, <1>4, <1>5 DEF Joining, TypeOK
<1>10. Waiting'
  BY <1>1 DEF Waiting, Ended
<1>11. Signalling'
  <2>1. ~ready[t]
    BY <1>1 DEF Joining
  <2>2. \A c \in Coros : at[c] \in {"signals", "signals, throws"} => Owner(c) # t
    BY <1>5, <1>6
  <2>3. \A u \in Callers \ {t} : Over(u)' <=> Over(u)
    BY <1>1 DEF Over, Ended, TypeOK
  <2>4. \A c \in Coros : at'[c] = at[c]
    BY <1>1
  <2> QED
    BY <1>1, <1>4, <2>1, <2>2, <2>3, <2>4 DEF Signalling, TypeOK
<1>12. Filling'
  BY <1>1 DEF Filling, Ended
<1> QED
  BY <1>3, <1>7, <1>8, <1>9, <1>10, <1>11, <1>12

\* Nobody stops awaiting, begins anew, or comes back.
LEMMA WaitingKept ==
  ASSUME IInv, UNCHANGED <<notify, awaiter>>,
         \A d \in Coros :
           /\ at'[d] = "unborn" => at[d] = "unborn"
           /\ at[d] = "awaits" => at'[d] = "awaits"
           /\ Ended(d) => Ended(d)'
  PROVE  Waiting'
<1>1. \A d \in Coros : awaiter[d] # Null => awaiter[d] \in Coros
  BY DEF IInv, TypeOK
<1> QED
  BY <1>1 DEF IInv, Waiting

\* A step of a coroutine that its tracker counts, and that ends.
LEMMA CountedDown ==
  ASSUME IInv, NEW c \in Coros, NEW t \in Callers, Owner(c) = t, ~Ended(c),
         call[t] # "idle",
         NEW s \in {"signals", "signals, throws", "done"},
         s # "done" => pending[t] = 1,
         at' = [at EXCEPT ![c] = s],
         pending' = [pending EXCEPT ![t] = @ - 1],
         UNCHANGED <<call, ready, notify, joined>>
  PROVE  pending' \in [Callers -> Nat] /\ Counting' /\ Joining' /\ Signalling'
<1> USE DEF IInv
<1>1. \A d \in Coros : Owner(d)' = Owner(d)
  BY DEF Owner
<1>2. \A d \in Coros : Ended(d)' <=> Ended(d) \/ d = c
  BY DEF Ended, TypeOK
<1>3. Counted(t)' = Counted(t) \ {c} /\ c \in Counted(t)
  BY <1>1, <1>2 DEF Counted
<1>4. \A u \in Callers \ {t} : Counted(u)' = Counted(u)
  BY <1>1, <1>2 DEF Counted
<1> DEFINE rest == Counted(t) \ {c}
<1>5. /\ pending[t] = Cardinality(Counted(t))
      /\ IsFiniteSet(rest) /\ Cardinality(rest) = pending[t] - 1
  BY <1>3, CountedFinite, FS_RemoveElement DEF Counting
<1> HIDE DEF rest
<1>6. pending[t] - 1 \in Nat
  BY <1>5, FS_CardinalityType
<1>7. pending' \in [Callers -> Nat]
  BY <1>6 DEF TypeOK
<1>8. Counting'
  <2>1. ASSUME NEW u \in Callers PROVE pending'[u] = Cardinality(Counted(u)')
    BY <1>3, <1>4, <1>5 DEF Counting, TypeOK, rest
  <2> QED
    BY <2>1 DEF Counting
<1>9. Joining'
  BY <1>1 DEF Joining, TypeOK
<1>10. \A u \in Callers : Over(u) => Over(u)'
  BY <1>2 DEF Over, TypeOK
<1>11. s # "done" => Over(t)'
  <2> SUFFICES ASSUME s # "done", NEW d \in joined[t] PROVE Ended(d)'
    BY DEF Over
  <2>0. IsFiniteSet(Counted(t)) /\ Cardinality(Counted(t)) = 1
    BY <1>5, CountedFinite
  <2>1. Counted(t) \subseteq {c}
    <3>1. ASSUME NEW S, IsFiniteSet(S), Cardinality(S) = 1, c \in S PROVE S \subseteq {c}
      <4>1. \E x : S = {x}
        BY <3>1, FS_Singleton
      <4> QED
        BY <3>1, <4>1
    <3> QED
      BY <1>3, <2>0, <3>1
  <2>2. d \in Coros /\ Owner(d) = t
    BY DEF Joining, TypeOK
  <2> QED
    BY <1>2, <2>1, <2>2 DEF Counted
<1>12. Signalling'
  <2>1. \A d \in Coros \ {c} : at'[d] = at[d]
    BY DEF TypeOK
  <2>2. at'[c] = s
    BY DEF TypeOK
  <2> QED
    BY <1>1, <1>10, <1>11, <2>1, <2>2 DEF Signalling
<1> QED
  BY <1>7, <1>8, <1>9, <1>12

\* The end of a wrapper counts down once for its call.
LEMMA LeaveWrapperInv ==
  ASSUME IInv, NEW w \in Workers, LeaveWrapper(w)
  PROVE  IInv'
<1> USE DEF IInv
<1>1. PICK m \in Mains, t \in Callers, s \in {"signals", "done"} :
        /\ m = running[w] /\ at[m] = "filled" /\ t = CallerOf(m)
        /\ current' = [current EXCEPT ![w] = prev[m]]
        /\ pending' = [pending EXCEPT ![t] = @ - 1]
        /\ at' = [at EXCEPT ![m] = s] /\ (s # "done" => pending[t] = 1)
        /\ running' = [running EXCEPT ![w] = IF s = "done" THEN Null ELSE @]
  <2>1. running[w] \in Mains /\ CallerOf(running[w]) \in Callers
    BY CallerOfFacts DEF LeaveWrapper
  <2>2. [running EXCEPT ![w] = @] = running
    BY DEF TypeOK
  <2> QED
    BY <2>1, <2>2 DEF LeaveWrapper, CountDown
<1>2. UNCHANGED <<call, ready, slot, prev, notify, awaiter, parks, tree, joined,
                  crashed>>
  BY DEF LeaveWrapper
<1>3. m \in Coros /\ Owner(m) = t /\ ~Ended(m) /\ call[t] # "idle"
  BY <1>1 DEF Coros, Owner, Ended, Begun
<1>4. pending' \in [Callers -> Nat] /\ Counting' /\ Joining' /\ Signalling'
  BY <1>1, <1>2, <1>3, CountedDown
<1>5. TypeOK'
  BY <1>1, <1>2, <1>3, <1>4 DEF TypeOK, Standing
<1>6. Begun'
  BY <1>1, <1>2, <1>3 DEF TypeOK, Begun, Coros
<1>7. Waiting'
  BY <1>1, <1>2, <1>3, WaitingKept DEF TypeOK, Ended
<1>8. Filling'
  BY <1>1, <1>2, <1>3 DEF TypeOK, Filling, Ended, Coros
<1> QED
  BY <1>4, <1>5, <1>6, <1>7, <1>8

\* The end of a spawned coroutine counts down for the tracker it was
\* registered with, if there is one.
LEMMA FinishSpawnedInv ==
  ASSUME IInv, NEW w \in Workers, FinishSpawned(w) \/ FinishThrowing(w)
  PROVE  IInv'
<1> USE DEF IInv
<1>1. PICK c \in Kids : c = running[w] /\ at[c] = "runs" /\ awaiter[c] = Null
  BY DEF FinishSpawned, FinishThrowing
<1>2. UNCHANGED <<call, ready, slot, current, prev, notify, awaiter, parks,
                  tree, joined>>
  BY DEF FinishSpawned, FinishThrowing
<1>3. c \in Coros /\ Owner(c) = notify[c] /\ ~Ended(c) /\ c \notin Mains
  BY <1>1, TasksAssumption DEF Coros, Owner, Ended
<1>4. PICK s \in {"signals", "signals, throws", "done"} :
        /\ at' = [at EXCEPT ![c] = s]
        /\ running' \in [Workers -> Coros \cup {Null}] /\ crashed' \in BOOLEAN
        /\ IF notify[c] = Null THEN s = "done" /\ UNCHANGED pending
           ELSE /\ pending' = [pending EXCEPT ![notify[c]] = @ - 1]
                /\ s # "done" => pending[notify[c]] = 1
  <2>1. CASE FinishSpawned(w)
    BY <1>1, <2>1 DEF FinishSpawned, CountDown, TypeOK
  <2>2. CASE FinishThrowing(w)
    BY <1>1, <2>2 DEF FinishThrowing, TypeOK
  <2> QED
    BY <2>1, <2>2
<1>5. pending' \in [Callers -> Nat] /\ Counting' /\ Joining' /\ Signalling'
  <2>1. CASE notify[c] # Null
    <3>1. notify[c] \in Callers /\ call[notify[c]] # "idle"
      BY <1>3, <2>1 DEF TypeOK, Begun
    <3> QED
      BY <1>2, <1>3, <1>4, <2>1, <3>1, CountedDown
  <2>2. CASE notify[c] = Null
    <3>1. Owner(c) \notin Callers
      BY <1>3, <2>2, TasksAssumption
    <3>2. \A d \in Coros : Owner(d)' = Owner(d) /\ (Ended(d)' <=> Ended(d) \/ d = c)
      BY <1>2, <1>4, <2>2 DEF Owner, Ended, TypeOK
    <3>3. \A u \in Callers : c \notin joined[u] /\ c \notin Counted(u)
      BY <3>1 DEF Joining, Counted
    <3>4. \A u \in Callers : Counted(u)' = Counted(u) /\ (Over(u)' <=> Over(u))
      BY <1>2, <3>2, <3>3 DEF Counted, Over, TypeOK
    <3>5. Counting'
      BY <1>4, <2>2, <3>4 DEF Counting
    <3>6. Joining'
      BY <1>2, <3>2 DEF Joining, TypeOK
    <3>7. Signalling'
      <4>1. \A d \in Coros : at'[d] \in {"signals", "signals, throws"} => at'[d] = at[d]
        BY <1>4, <2>2 DEF TypeOK
      <4>2. ASSUME NEW d \in Coros, at'[d] \in {"signals", "signals, throws"}
            PROVE  (Owner(d) \in Callers /\ Over(Owner(d)))'
        <5>1. at[d] \in {"signals", "signals, throws"} /\ Owner(d)' = Owner(d)
          BY <3>2, <4>1, <4>2
        <5>2. Owner(d) \in Callers /\ Over(Owner(d))
          BY <5>1 DEF Signalling
        <5> QED
          BY <3>4, <5>1, <5>2
      <4>3. \A u \in Callers : ready'[u] = ready[u] /\ call'[u] = call[u]
        BY <1>2
      <4>4. \A u \in Callers : ready'[u] => Over(u)'
        BY <3>4, <4>3 DEF Signalling
      <4> QED
        BY <4>2, <4>3, <4>4 DEF Signalling
    <3> QED
      BY <1>4, <2>2, <3>5, <3>6, <3>7 DEF TypeOK
  <2> QED
    BY <2>1, <2>2
<1>6. TypeOK'
  BY <1>2, <1>3, <1>4, <1>5 DEF TypeOK, Standing
<1>7. Begun'
  BY <1>2, <1>3, <1>4 DEF TypeOK, Begun, Coros
<1>8. Waiting'
  BY <1>1, <1>2, <1>3, <1>4, WaitingKept DEF TypeOK, Ended
<1>9. Filling'
  BY <1>2, <1>3, <1>4 DEF TypeOK, Filling, Ended, Coros
<1> QED
  BY <1>5, <1>6, <1>7, <1>8, <1>9

\* A spawned coroutine is counted by the tracker it is registered with.
LEMMA SpawnInv ==
  ASSUME IInv, NEW w \in Workers, NEW k \in Kids, Spawn(w, k)
  PROVE  IInv'
<1> USE DEF IInv
<1>1. PICK c \in Coros : /\ c = running[w] /\ at[c] = "runs"
                         /\ at[k] = "unborn"
                         /\ at' = [at EXCEPT ![k] = "queued"]
                         /\ tree' = [tree EXCEPT ![k] = tree[c]]
  BY DEF Spawn, TypeOK
<1>2. UNCHANGED <<call, ready, slot, running, current, prev, awaiter, parks,
                  crashed>>
  BY DEF Spawn
<1>3. k \in Coros /\ k \notin Mains /\ notify[k] = Null /\ awaiter[k] = Null
      /\ Mains \subseteq Coros
  BY <1>1, TasksAssumption DEF Coros, Waiting
<1>4. \A d \in Coros : /\ Ended(d)' <=> Ended(d)
                       /\ at'[d] \in {"signals", "signals, throws"} => at'[d] = at[d]
                       /\ at'[d] = "unborn" => at[d] = "unborn"
                       /\ at[d] = "awaits" => at'[d] = "awaits"
                       /\ d \in Mains => at'[d] = at[d]
  BY <1>1, <1>3 DEF Ended, TypeOK
<1>5. Filling'
  BY <1>2, <1>3, <1>4 DEF Filling
<1>6. CASE current[w] = Null
  <2>1. UNCHANGED <<pending, notify, joined>>
    BY <1>6 DEF Spawn
  <2>2. /\ Counting' /\ Joining'
        /\ \A d \in Coros : at'[d] \in {"signals", "signals, throws"} =>
             Owner(d)' \in Callers /\ Over(Owner(d))'
        /\ \A u \in Callers : ready'[u] => Over(u)'
    BY <1>2, <1>4, <2>1, NothingCounted
  <2>3. TypeOK'
    BY <1>1, <1>2, <1>3, <2>1 DEF TypeOK, Standing
  <2>4. Begun' /\ Signalling'
    BY <1>2, <1>3, <1>4, <2>1, <2>2, CallerOfFacts DEF Begun, Signalling
  <2>5. Waiting'
    BY <1>2, <1>4, <2>1, WaitingKept
  <2> QED
    BY <1>5, <2>2, <2>3, <2>4, <2>5
<1>7. CASE current[w] # Null
  <2>1. PICK t \in Callers :
          /\ t = current[w] /\ call[t] # "idle"
          /\ pending' = [pending EXCEPT ![t] = @ + 1]
          /\ notify' = [notify EXCEPT ![k] = t]
          /\ joined' = IF Over(t) THEN joined ELSE [joined EXCEPT ![t] = @ \cup {k}]
    BY <1>7 DEF Spawn, TypeOK, Begun, Over
  <2>2. \A d \in Coros : Owner(d)' = IF d = k THEN t ELSE Owner(d)
    BY <1>3, <2>1 DEF Owner, TypeOK
  <2>3. Owner(k) = Null /\ Null \notin Callers
    BY <1>3, TasksAssumption DEF Owner
  <2>4. ~Ended(k)
    BY <1>1 DEF Ended
  <2>5. Counting'
    <3>1. Counted(t)' = Counted(t) \cup {k} /\ k \notin Counted(t)
      BY <1>2, <1>3, <1>4, <2>1, <2>2, <2>3, <2>4 DEF Counted
    <3>2. \A u \in Callers \ {t} : Counted(u)' = Counted(u)
      BY <1>2, <1>3, <1>4, <2>2, <2>3 DEF Counted
    <3>3. Cardinality(Counted(t) \cup {k}) = pending[t] + 1
      BY <3>1, CountedFinite, FS_AddElement DEF Counting
    <3>4. ASSUME NEW u \in Callers PROVE pending'[u] = Cardinality(Counted(u)')
      BY <2>1, <3>1, <3>2, <3>3 DEF Counting, TypeOK
    <3> QED
      BY <3>4 DEF Counting
  <2>6. \A u \in Callers : k \notin joined[u]
    BY <2>3 DEF Joining
  <2>7. \A u \in Callers : joined'[u] = joined[u] \/ (u = t /\ joined'[u] = joined[u] \cup {k})
    BY <2>1 DEF TypeOK
  <2>8. \A u \in Callers : Over(u) => Over(u)'
    <3>1. \A u \in Callers : Over(u) => joined'[u] = joined[u]
      BY <2>1 DEF TypeOK
    <3> QED
      BY <1>4, <3>1 DEF Over, TypeOK
  <2>9. TypeOK'
    <3>1. pending' \in [Callers -> Nat] /\ joined' \in [Callers -> SUBSET Coros]
      BY <1>3, <2>1 DEF TypeOK
    <3>2. /\ notify' \in [Coros -> Callers \cup {Null}]
          /\ tree' \in [Coros -> Callers \cup {Null}]
          /\ at' \in [Coros -> Standing]
      BY <1>1, <1>3, <2>1 DEF TypeOK, Standing
    <3> QED
      BY <1>2, <3>1, <3>2 DEF TypeOK
  <2>10. Begun'
    <3>1. ASSUME NEW d \in Kids, notify'[d] # Null PROVE call[notify'[d]] # "idle"
      BY <2>1, <3>1 DEF Begun, TypeOK, Coros
    <3>2. ASSUME NEW m \in Mains, at'[m] # "unborn" PROVE call[CallerOf(m)] # "idle"
      BY <1>3, <1>4, <3>2 DEF Begun
    <3> QED
      BY <1>2, <3>1, <3>2 DEF Begun
  <2>11. Joining'
    BY <1>2, <1>3, <2>1, <2>2, <2>6, <2>7 DEF Joining, TypeOK
  <2>12. Waiting'
    <3>1. ASSUME NEW d \in Coros
          PROVE  awaiter[d] # Null => d # k /\ awaiter[d] \in Coros
      BY <1>3 DEF TypeOK
    <3>2. k # c /\ at'[k] # "unborn"
      BY <1>1, <1>3 DEF TypeOK
    <3>3. \A d \in Coros : d # k => notify'[d] = notify[d]
      BY <2>1 DEF TypeOK
    <3> QED
      BY <1>2, <1>3, <1>4, <3>1, <3>2, <3>3 DEF Waiting
  <2>13. Signalling'
    BY <1>2, <1>4, <1>1, <2>2, <2>8, <2>4 DEF Signalling, Ended
  <2> QED
    BY <1>5, <2>5, <2>9, <2>10, <2>11, <2>12, <2>13
<1> QED
  BY <1>6, <1>7

\* The end of an awaited task resumes the one coroutine that awaits it.
LEMMA FinishAwaitedInv ==
  ASSUME IInv, NEW w \in Workers, FinishAwaited(w)
  PROVE  IInv'
<1> USE DEF IInv
<1>1. PICK c \in Kids, a \in Coros :
        /\ c = running[w] /\ at[c] = "runs" /\ a = awaiter[c] /\ a # Null
        /\ at' = [at EXCEPT ![c] = "done", ![a] = "runs"]
        /\ running' = [running EXCEPT ![w] = a]
  BY TasksAssumption DEF FinishAwaited, TypeOK, Coros
<1>2. UNCHANGED <<call, pending, ready, slot, current, prev, notify, awaiter,
                  parks, tree, joined, crashed>>
  BY DEF FinishAwaited
<1>3. /\ c \in Coros /\ c \notin Mains /\ Mains \subseteq Coros
      /\ notify[c] = Null /\ at[a] = "awaits" /\ a # c
  BY <1>1, TasksAssumption DEF Coros, Waiting, Ended
<1>4. \A d \in Coros : at'[d] = IF d = c THEN "done" ELSE IF d = a THEN "runs" ELSE at[d]
  BY <1>1, <1>3 DEF TypeOK
<1>5. \A d \in Coros : Owner(d)' = Owner(d) /\ (Ended(d)' <=> Ended(d) \/ d = c)
  BY <1>2, <1>3, <1>4 DEF Owner, Ended
<1>6. \A u \in Callers : Owner(c) # u /\ c \notin Counted(u) /\ c \notin joined[u]
  BY <1>3, TasksAssumption DEF Owner, Counted, Joining
<1>7. \A u \in Callers : Counted(u)' = Counted(u) /\ (Over(u)' <=> Over(u))
  BY <1>2, <1>5, <1>6 DEF Counted, Over, TypeOK
<1>8. TypeOK'
  BY <1>1, <1>2, <1>3 DEF TypeOK, Standing
<1>9. Counting' /\ Joining'
  BY <1>2, <1>5, <1>7 DEF Counting, Joining, TypeOK
<1>10. Begun'
  BY <1>2, <1>3, <1>4, CallerOfFacts DEF Begun
<1>11. Waiting'
  <2>1. ASSUME NEW d \in Coros, awaiter[d] # Null, ~Ended(d)'
        PROVE  ~Ended(d) /\ awaiter[d] # a /\ awaiter[d] # c /\ at'[awaiter[d]] = "awaits"
    <3>1. ~Ended(d) /\ d # c
      BY <1>5, <2>1
    <3>2. awaiter[d] # a /\ awaiter[d] \in Coros /\ at[awaiter[d]] = "awaits"
      BY ZenonT(30), <1>1, <1>3, <2>1, <3>1 DEF Waiting, Ended, TypeOK
    <3> QED
      BY <1>1, <1>4, <3>1, <3>2
  <2>2. \A d \in Coros : at'[d] = "unborn" => at[d] = "unborn"
    BY <1>4
  <2> QED
    BY <1>2, <2>1, <2>2 DEF Waiting
<1>12. Signalling'
  BY <1>2, <1>4, <1>5, <1>7 DEF Signalling
<1>13. Filling'
  BY <1>2, <1>3, <1>4 DEF Filling, Ended
<1> QED
  BY <1>8, <1>9, <1>10, <1>11, <1>12, <1>13

\* Only the coroutine that counted down to zero signals, when all is over.
LEMMA SignalInv ==
  ASSUME IInv, NEW w \in Workers, Signal(w)
  PROVE  IInv'
<1> USE DEF IInv
<1>1. PICK c \in Coros, t \in Callers :
        /\ c = running[w] /\ at[c] \in {"signals", "signals, throws"}
        /\ t = Owner(c) /\ Over(t)
        /\ ready' = [ready EXCEPT ![t] = TRUE]
        /\ at' = [at EXCEPT ![c] = "done"]
        /\ running' = [running EXCEPT ![w] = Null]
        /\ crashed' \in BOOLEAN
  BY DEF Signal, Signalling, Owner, TypeOK
<1>2. UNCHANGED <<call, pending, slot, current, prev, notify, awaiter, parks,
                  tree, joined>>
  BY DEF Signal
<1>3. \A d \in Coros : at'[d] = IF d = c THEN "done" ELSE at[d]
  BY <1>1 DEF TypeOK
<1>4. \A d \in Coros : Owner(d)' = Owner(d) /\ (Ended(d)' <=> Ended(d))
  BY <1>1, <1>2, <1>3 DEF Owner, Ended
<1>5. \A u \in Callers : Counted(u)' = Counted(u) /\ (Over(u)' <=> Over(u))
  BY <1>2, <1>4 DEF Counted, Over, TypeOK
<1>6. TypeOK'
  BY <1>1, <1>2 DEF TypeOK, Standing
<1>7. call[t] # "idle"
  <2>1. CASE c \in Mains
    BY <1>1, <2>1 DEF Owner, Begun
  <2>2. CASE c \notin Mains
    BY <1>1, <2>2, TasksAssumption DEF Owner, Begun, Coros
  <2> QED
    BY <2>1, <2>2
<1>8. Counting' /\ Joining'
  BY ZenonT(30), <1>1, <1>2, <1>4, <1>5, <1>7 DEF Counting, Joining, TypeOK
<1>9. Begun'
  BY <1>1, <1>2, <1>3 DEF Begun, Coros
<1>10. Waiting'
  <2>1. \A d \in Coros : /\ at'[d] = "unborn" => at[d] = "unborn"
                         /\ at[d] = "awaits" => at'[d] = "awaits"
    <3>1. at[c] # "awaits"
      BY <1>1
    <3> QED
      BY <1>3, <3>1
  <2> QED
    BY <1>2, <1>4, <2>1, WaitingKept
<1>11. Signalling'
  <2>1. \A d \in Coros : at'[d] \in {"signals", "signals, throws"} => at'[d] = at[d]
    BY <1>3
  <2>2. ASSUME NEW u \in Callers PROVE ready'[u] => Over(u)'
    BY <1>1, <1>5 DEF Signalling, TypeOK
  <2>3. ASSUME NEW u \in Callers PROVE call[u] \in {"get", "returned"} => ready'[u]
    BY <1>1 DEF Signalling, TypeOK
  <2>4. ASSUME NEW d \in Coros, at'[d] \in {"signals", "signals, throws"}
        PROVE  Owner(d)' \in Callers /\ Over(Owner(d))'
    BY <1>4, <1>5, <2>1, <2>4 DEF Signalling
  <2> QED
    BY <1>2, <2>2, <2>3, <2>4 DEF Signalling
<1>12. Filling'
  BY <1>2, <1>4, <1>3 DEF Filling, Coros
<1> QED
  BY <1>6, <1>8, <1>9, <1>10, <1>11, <1>12
-----------------------------------------------------------------------------
(* The specification keeps the invariant.                                  *)

\* Nothing is counted before the first call.
LEMMA InitInv ==
  ASSUME Init
  PROVE  IInv
<1> USE DEF Init
<1>1. TypeOK
  <2>1. tree \in [Coros -> Callers \cup {Null}]
    BY CallerOfFacts
  <2>2. parks \in 0 .. MaxParks
    BY TasksAssumption
  <2> QED
    BY <2>1, <2>2 DEF TypeOK, Standing
<1>2. Counting
  <2>1. \A t \in Callers : Counted(t) = {}
    BY DEF Counted
  <2>2. Cardinality({}) = 0
    BY FS_EmptySet
  <2> QED
    BY <2>1, <2>2 DEF Counting
<1>3. Mains \subseteq Coros /\ Kids \subseteq Coros
  BY DEF Coros
<1>4. Begun /\ Filling
  BY <1>3 DEF Begun, Filling, Ended
<1>5. Joining /\ Waiting
  BY <1>3 DEF Joining, Waiting
<1>6. Signalling
  BY DEF Signalling
<1> QED
  BY <1>1, <1>2, <1>4, <1>5, <1>6 DEF IInv

\* A step that changes nothing changes nothing here.
LEMMA StutterInv ==
  ASSUME IInv, UNCHANGED vars
  PROVE  IInv'
<1> USE DEF IInv, vars
<1>1. TypeOK'
  BY DEF TypeOK
<1>2. \A c : Owner(c)' = Owner(c) /\ (Ended(c)' <=> Ended(c))
  BY DEF Owner, Ended
<1>3. \A t : Counted(t)' = Counted(t) /\ (Over(t)' <=> Over(t))
  BY <1>2 DEF Counted, Over
<1>4. Counting' /\ Joining' /\ Signalling'
  BY <1>2, <1>3 DEF Counting, Joining, Signalling
<1>5. Begun' /\ Waiting' /\ Filling'
  BY <1>2 DEF Begun, Waiting, Filling
<1> QED
  BY <1>1, <1>4, <1>5

\* One case for each action.
LEMMA NextInv ==
  ASSUME IInv, [Next]_vars
  PROVE  IInv'
<1>1. CASE UNCHANGED vars
  BY <1>1, StutterInv
<1>2. ASSUME NEW t \in Callers, CallStep(t)
      PROVE  IInv'
  BY <1>2, CallInv, SubmitInv, WaitAllDoneInv, GetInv DEF CallStep
<1>3. ASSUME NEW w \in Workers, WorkStep(w)
      PROVE  IInv'
  <2>1. CASE \E m \in Mains : Enter(w, m)
    BY <2>1, EnterInv
  <2>2. CASE \E c \in Coros : Resume(w, c)
    BY <2>2, ResumeInv
  <2>3. CASE Park(w)
    BY <2>3, ParkInv
  <2>4. CASE \E k \in Kids : Spawn(w, k) \/ Await(w, k)
    BY <2>4, SpawnInv, AwaitInv
  <2>5. CASE FinishAwaited(w)
    BY <2>5, FinishAwaitedInv
  <2>6. CASE FinishSpawned(w) \/ FinishThrowing(w)
    BY <2>6, FinishSpawnedInv
  <2>7. CASE FillSlot(w)
    BY <2>7, FillSlotInv
  <2>8. CASE LeaveWrapper(w)
    BY <2>8, LeaveWrapperInv
  <2>9. CASE Signal(w)
    BY <2>9, SignalInv
  <2> QED
    BY <1>3, <2>1, <2>2, <2>3, <2>4, <2>5, <2>6, <2>7, <2>8, <2>9 DEF WorkStep
<1>4. ASSUME NEW c \in Coros, Wake(c)
      PROVE  IInv'
  BY <1>4, WakeInv
<1> QED
  BY <1>1, <1>2, <1>3, <1>4 DEF Next

\* The invariant holds in every reachable state.
LEMMA InvAlways == Spec => []IInv
<1>1. Init => IInv
  BY InitInv
<1>2. IInv /\ [Next]_vars => IInv'
  BY NextInv
<1> QED
  BY <1>1, <1>2, PTL DEF Spec

-----------------------------------------------------------------------------
(* What the calls promise.                                                 *)

\* The types hold, and with them: complete_subtask (context.hpp) never counts
\* a tracker's pending_count down from zero, which would wrap it.
THEOREM TypeCorrect == Spec => []TypeOK
<1>1. IInv => TypeOK
  BY DEF IInv
<1> QED
  BY <1>1, InvAlways, PTL

\* block_on and wait_all return only when their tasks, and all that was
\* registered with their tracker while it counted, have ended, whichever
\* workers' current_tracker pointers it was registered through.
THEOREM WaitsForRegisteredAlways == Spec => []WaitsForRegistered
<1>1. IInv => WaitsForRegistered
  BY DEF IInv, Signalling, Over, WaitsForRegistered
<1> QED
  BY <1>1, InvAlways, PTL

\* The wrapper of a task has filled its result_slot before the tracker is
\* signalled: get() finds every result.
THEOREM SlotsAreFilledAlways == Spec => []SlotsAreFilled
<1>1. ASSUME IInv, NEW t \in Callers, ready[t], NEW m \in ToSet(Tasks[t])
      PROVE  slot[m] # Null
  <2>1. call[t] # "idle" /\ Over(t)
    BY <1>1 DEF IInv, Joining, Signalling
  <2>2. Ended(m)
    BY <1>1, <2>1 DEF IInv, Joining, Over
  <2> QED
    BY <1>1, <2>2, CallerOfFacts DEF IInv, Filling
<1>2. IInv => SlotsAreFilled
  BY <1>1 DEF SlotsAreFilled
<1> QED
  BY <1>2, InvAlways, PTL
=============================================================================
