---------------------------- MODULE Http_proofs -----------------------------
(***************************************************************************)
(* Proofs about HttpServer and the sessions it runs, for any programs,     *)
(* routers, buffers, window and turns of the client's read loop: the types *)
(* and bounds of the sessions, the clients and the wire, and the order of  *)
(* the responses.  First, that the folds that feed the parsers keep what   *)
(* each callback keeps; then the wire, HTTP/1.1's responses as bytes, and  *)
(* HTTP/2's as frames counted on each stream.                              *)
(***************************************************************************)
EXTENDS HttpServer, SequenceTheorems, Counting_proofs

\* f folds step over b: f[X] is what the elements at the indices X make of s.
Folding(f, S, step, s, b, n) ==
  /\ f \in [SUBSET (1 .. n) -> S]
  /\ \A X \in SUBSET (1 .. n) :
       /\ f[X] = IF X = {} THEN s ELSE step[<<f[X \ {Max(X)}], b[Max(X)]>>]
       /\ X # {} => Max(X) \in X

\* What a fold over n things is made of: the function the definition chooses
\* exists, when a step leads from S to S.
LEMMA FoldExists ==
  ASSUME NEW S, NEW T, NEW step \in [S \X T -> S], NEW s \in S, NEW n \in Nat,
         NEW b \in [1 .. n -> T]
  PROVE  \E f : Folding(f, S, step, s, b, n)
<1> DEFINE Fits1(f, X) == /\ f[X] = IF X = {} THEN s ELSE step[<<f[X \ {Max(X)}], b[Max(X)]>>]
                          /\ X # {} => Max(X) \in X
           Good(k) == \E f \in [SUBSET (1 .. k) -> S] : \A X \in SUBSET (1 .. k) : Fits1(f, X)
           P == {k \in Nat : k <= n => Good(k)}
<1>1. Good(0)
  <2> DEFINE f == [X \in SUBSET (1 .. 0) |-> s]
  <2>1. \A X \in SUBSET (1 .. 0) : X = {} /\ f[X] = s
    OBVIOUS
  <2>2. f \in [SUBSET (1 .. 0) -> S]
    OBVIOUS
  <2> HIDE DEF f
  <2> QED
    BY <2>1, <2>2
<1>2. ASSUME NEW k \in Nat, k + 1 <= n, Good(k) PROVE Good(k + 1)
  <2> HIDE DEF Good
  <2>0. k + 1 \in 1 .. n
    BY <1>2
  <2>1. PICK f \in [SUBSET (1 .. k) -> S] : \A X \in SUBSET (1 .. k) : Fits1(f, X)
    BY <1>2 DEF Good
  <2>2. ASSUME NEW X \in SUBSET (1 .. k + 1), k + 1 \in X
        PROVE  Max(X) = k + 1 /\ X \ {k + 1} \in SUBSET (1 .. k)
    <3>1. \A x \in X : x \in Nat /\ x <= k + 1
      OBVIOUS
    <3>2. \A x \in X : x >= k + 1 => x = k + 1
      BY <3>1
    <3>3. Max(X) = k + 1
      BY <2>2, <3>1, <3>2 DEF Max
    <3> QED
      BY <3>3
  <2> DEFINE g == [X \in SUBSET (1 .. k + 1) |->
                     IF k + 1 \in X THEN step[<<f[X \ {k + 1}], b[k + 1]>>] ELSE f[X]]
  <2>3. ASSUME NEW X \in SUBSET (1 .. k + 1)
        PROVE  g[X] \in S /\ Fits1(g, X)
    <3>1. CASE k + 1 \in X
      <4>1. X \ {k + 1} \in SUBSET (1 .. k) /\ X \ {k + 1} \in SUBSET (1 .. k + 1)
        BY <2>2, <3>1
      <4>2. g[X \ {k + 1}] = f[X \ {k + 1}] /\ f[X \ {k + 1}] \in S
        BY <4>1
      <4>3. b[k + 1] \in T
        BY <2>0
      <4>4. g[X] = step[<<f[X \ {k + 1}], b[k + 1]>>]
        BY <3>1
      <4>5. Max(X) = k + 1
        BY <2>2, <3>1
      <4> HIDE DEF g
      <4>6. step[<<f[X \ {k + 1}], b[k + 1]>>] \in S
        BY <4>2, <4>3
      <4> QED
        BY <3>1, <4>2, <4>4, <4>5, <4>6
    <3>2. CASE k + 1 \notin X
      <4>1. X \in SUBSET (1 .. k)
        BY <3>2
      <4>2. Fits1(f, X) /\ f[X] \in S
        BY <2>1, <4>1
      <4>3. g[X] = f[X] /\ g[X \ {Max(X)}] = f[X \ {Max(X)}]
        BY <3>2
      <4> HIDE DEF g
      <4> QED
        BY <4>2, <4>3
    <3> QED
      BY <3>1, <3>2
  <2>4. g \in [SUBSET (1 .. k + 1) -> S]
    <3>1. g = [X \in SUBSET (1 .. k + 1) |-> g[X]]
      OBVIOUS
    <3> HIDE DEF g, Fits1
    <3> QED
      BY <2>3, <3>1
  <2> HIDE DEF g, Fits1
  <2> QED
    BY <2>3, <2>4 DEF Good
<1> HIDE DEF Good
<1>3. P = Nat
  <2>1. P \in SUBSET Nat /\ 0 \in P /\ \A k \in P : k + 1 \in P
    BY <1>1, <1>2
  <2> HIDE DEF P
  <2> QED
    BY <2>1, NatSetInduction
<1>4. n \in P
  BY <1>3
<1>5. Good(n)
  BY <1>4
<1> QED
  BY <1>5 DEF Good, Folding

\* A fold over n things stays in a set that every step leads back into.
LEMMA FoldStays ==
  ASSUME NEW S, NEW n \in Nat, NEW f, f[{}] \in S,
         \A k \in 0 .. n - 1 : f[1 .. k] \in S => f[1 .. k + 1] \in S
  PROVE  f[1 .. n] \in S
<1> DEFINE P == {k \in Nat : k <= n => f[1 .. k] \in S}
<1>1. P \in SUBSET Nat /\ 0 \in P
  <2>1. 1 .. 0 = {}
    OBVIOUS
  <2> QED
    BY <2>1
<1>2. ASSUME NEW k \in P PROVE k + 1 \in P
  <2>1. CASE k + 1 <= n
    <3>1. k \in 0 .. n - 1 /\ f[1 .. k] \in S
      BY <2>1
    <3> QED
      BY <3>1
  <2> QED
    BY <2>1
<1> HIDE DEF P
<1>3. P = Nat
  BY <1>1, <1>2, NatSetInduction
<1>4. n \in P
  BY <1>3
<1> QED
  BY <1>4 DEF P

\* So it keeps what every step keeps of a place and what has come of it by there.
LEMMA FoldGoes ==
  ASSUME NEW S, NEW R, NEW n \in Nat, NEW f, f[{}] \in S, <<0, f[{}]>> \in R,
         \A k \in 0 .. n - 1 : f[1 .. k] \in S => f[1 .. k + 1] \in S,
         \A k \in 0 .. n - 1 : f[1 .. k] \in S /\ <<k, f[1 .. k]>> \in R
                                 => <<k + 1, f[1 .. k + 1]>> \in R
  PROVE  f[1 .. n] \in S /\ <<n, f[1 .. n]>> \in R
<1> DEFINE P == {k \in Nat : k <= n => f[1 .. k] \in S /\ <<k, f[1 .. k]>> \in R}
<1>1. P \in SUBSET Nat /\ 0 \in P
  <2>1. 1 .. 0 = {}
    OBVIOUS
  <2> QED
    BY <2>1
<1>2. ASSUME NEW k \in P PROVE k + 1 \in P
  <2>1. CASE k + 1 <= n
    <3>1. k \in 0 .. n - 1 /\ f[1 .. k] \in S /\ <<k, f[1 .. k]>> \in R
      BY <2>1
    <3> QED
      BY <3>1
  <2> QED
    BY <2>1
<1> HIDE DEF P
<1>3. P = Nat
  BY <1>1, <1>2, NatSetInduction
<1>4. n \in P
  BY <1>3
<1> QED
  BY <1>4 DEF P

\* The largest of the numbers up to one, and what is left without it.
LEMMA MaxOfRange ==
  ASSUME NEW k \in Nat
  PROVE  Max(1 .. k + 1) = k + 1 /\ (1 .. k + 1) \ {k + 1} = 1 .. k /\ 1 .. k + 1 # {}
<1>1. \A x \in 1 .. k + 1 : x \in Nat /\ x <= k + 1 /\ (x >= k + 1 => x = k + 1)
  OBVIOUS
<1>2. k + 1 \in 1 .. k + 1
  OBVIOUS
<1> QED
  BY <1>1, <1>2 DEF Max

\* What holds of the server's session after every frame holds after a read: the
\* same lemma of each of the sessions' four folds.
LEMMA ProcessFramesStays ==
  ASSUME NEW S, NEW T, NEW bytes \in Seq(T), NEW s \in S,
         \A a \in S, t \in T : ServerFrame(a, t) \in S
  PROVE  ProcessFrames(s, bytes) \in S
<1> DEFINE n == Len(bytes)
           D == DOMAIN bytes
           Folds(f) == f = [X \in SUBSET D |-> IF X = {} THEN s
                              ELSE ServerFrame(f[X \ {Max(X)}], bytes[Max(X)])]
           fold == CHOOSE f : Folds(f)
           step == [p \in S \X T |-> ServerFrame(p[1], p[2])]
<1>1. ProcessFrames(s, bytes) = fold[D]
  BY DEF ProcessFrames, FoldLeft, MapThenFoldSet
<1>2. n \in Nat /\ D = 1 .. n /\ bytes \in [1 .. n -> T]
  OBVIOUS
<1>3. /\ step \in [S \X T -> S]
      /\ \A a \in S, t \in T : step[<<a, t>>] = ServerFrame(a, t)
  OBVIOUS
<1> HIDE DEF n, D, step
<1>4. \E f : Folds(f)
  <2>1. PICK f : Folding(f, S, step, s, bytes, n)
    BY <1>2, <1>3, FoldExists
  <2>2. ASSUME NEW X \in SUBSET D
        PROVE  f[X] = IF X = {} THEN s
                      ELSE ServerFrame(f[X \ {Max(X)}], bytes[Max(X)])
    <3>1. CASE X # {}
      <4>1. f[X \ {Max(X)}] \in S /\ bytes[Max(X)] \in T
        BY <1>2, <2>1, <3>1 DEF Folding
      <4>2. f[X] = step[<<f[X \ {Max(X)}], bytes[Max(X)]>>]
        BY <1>2, <2>1, <3>1 DEF Folding
      <4> QED
        BY <1>3, <3>1, <4>1, <4>2, Zenon
    <3> QED
      BY <1>2, <2>1, <3>1 DEF Folding
  <2>3. f = [X \in SUBSET D |-> f[X]]
    BY <1>2, <2>1 DEF Folding
  <2>4. Folds(f)
    BY <2>2, <2>3, Zenon
  <2> QED
    BY <2>4
<1>5. Folds(fold)
  BY <1>4
<1> HIDE DEF fold
<1>6. \A X \in SUBSET D : fold[X] = IF X = {} THEN s
        ELSE ServerFrame(fold[X \ {Max(X)}], bytes[Max(X)])
  BY <1>5
<1>7. fold[{}] \in S
  BY <1>6
<1>8. ASSUME NEW k \in 0 .. n - 1, fold[1 .. k] \in S PROVE fold[1 .. k + 1] \in S
  <2>1. k \in Nat /\ 1 .. k + 1 \in SUBSET D /\ k + 1 \in 1 .. n
    BY <1>2
  <2>2. fold[1 .. k + 1] = ServerFrame(fold[1 .. k], bytes[k + 1])
    BY <1>6, <2>1, MaxOfRange
  <2> QED
    BY <1>2, <1>8, <2>1, <2>2
<1>9. fold[1 .. n] \in S
  BY <1>2, <1>7, <1>8, FoldStays
<1> QED
  BY <1>1, <1>2, <1>9

\* Of the frames the client's session receives, ...
LEMMA ClientFramesGoes ==
  ASSUME NEW S, NEW T, NEW R, NEW bytes \in Seq(T), NEW s \in S, <<0, s>> \in R,
         \A a \in S, t \in T : ClientFrame(a, t) \in S,
         \A k \in 0 .. Len(bytes) - 1, a \in S :
           <<k, a>> \in R => <<k + 1, ClientFrame(a, bytes[k + 1])>> \in R
  PROVE  FoldLeft(ClientFrame, s, bytes) \in S /\ <<Len(bytes), FoldLeft(ClientFrame, s, bytes)>> \in R
<1> DEFINE n == Len(bytes)
           D == DOMAIN bytes
           Folds(f) == f = [X \in SUBSET D |-> IF X = {} THEN s
                              ELSE ClientFrame(f[X \ {Max(X)}], bytes[Max(X)])]
           fold == CHOOSE f : Folds(f)
           step == [p \in S \X T |-> ClientFrame(p[1], p[2])]
<1>1. FoldLeft(ClientFrame, s, bytes) = fold[D]
  BY DEF FoldLeft, MapThenFoldSet
<1>2. n \in Nat /\ D = 1 .. n /\ bytes \in [1 .. n -> T]
  OBVIOUS
<1>3. /\ step \in [S \X T -> S]
      /\ \A a \in S, t \in T : step[<<a, t>>] = ClientFrame(a, t)
  OBVIOUS
<1> HIDE DEF n, D, step
<1>4. \E f : Folds(f)
  <2>1. PICK f : Folding(f, S, step, s, bytes, n)
    BY <1>2, <1>3, FoldExists
  <2>2. ASSUME NEW X \in SUBSET D
        PROVE  f[X] = IF X = {} THEN s
                      ELSE ClientFrame(f[X \ {Max(X)}], bytes[Max(X)])
    <3>1. CASE X # {}
      <4>1. f[X \ {Max(X)}] \in S /\ bytes[Max(X)] \in T
        BY <1>2, <2>1, <3>1 DEF Folding
      <4>2. f[X] = step[<<f[X \ {Max(X)}], bytes[Max(X)]>>]
        BY <1>2, <2>1, <3>1 DEF Folding
      <4> QED
        BY <1>3, <3>1, <4>1, <4>2, Zenon
    <3> QED
      BY <1>2, <2>1, <3>1 DEF Folding
  <2>3. f = [X \in SUBSET D |-> f[X]]
    BY <1>2, <2>1 DEF Folding
  <2>4. Folds(f)
    BY <2>2, <2>3, Zenon
  <2> QED
    BY <2>4
<1>5. Folds(fold)
  BY <1>4
<1> HIDE DEF fold
<1>6. \A X \in SUBSET D : fold[X] = IF X = {} THEN s
        ELSE ClientFrame(fold[X \ {Max(X)}], bytes[Max(X)])
  BY <1>5
<1>7. fold[{}] = s
  BY <1>6
<1>8. ASSUME NEW k \in 0 .. n - 1 PROVE fold[1 .. k + 1] = ClientFrame(fold[1 .. k], bytes[k + 1]) /\ bytes[k + 1] \in T
  <2>1. k \in Nat /\ 1 .. k + 1 \in SUBSET D /\ k + 1 \in 1 .. n
    BY <1>2
  <2>2. fold[1 .. k + 1] = ClientFrame(fold[1 .. k], bytes[k + 1])
    BY <1>6, <2>1, MaxOfRange
  <2>3. bytes[k + 1] \in T
    BY <1>2, <2>1
  <2> QED
    BY <2>2, <2>3
<1>9. fold[1 .. n] \in S /\ <<n, fold[1 .. n]>> \in R
  <2>1. \A k \in 0 .. n - 1 : fold[1 .. k] \in S => fold[1 .. k + 1] \in S
    BY <1>8
  <2>2. \A k \in 0 .. n - 1 : fold[1 .. k] \in S /\ <<k, fold[1 .. k]>> \in R
                                 => <<k + 1, fold[1 .. k + 1]>> \in R
    BY <1>8 DEF n
  <2>3. fold[{}] \in S /\ <<0, fold[{}]>> \in R
    BY <1>7
  <2> QED
    BY <1>2, <2>1, <2>2, <2>3, FoldGoes
<1> QED
  BY <1>1, <1>2, <1>9 DEF n

LEMMA ClientFramesStays ==
  ASSUME NEW S, NEW T, NEW bytes \in Seq(T), NEW s \in S,
         \A a \in S, t \in T : ClientFrame(a, t) \in S
  PROVE  FoldLeft(ClientFrame, s, bytes) \in S
<1> DEFINE R == Nat \X S
<1>1. <<0, s>> \in R /\ \A k \in 0 .. Len(bytes) - 1, a \in S :
        <<k, a>> \in R => <<k + 1, ClientFrame(a, bytes[k + 1])>> \in R
  OBVIOUS
<1> HIDE DEF R
<1> QED
  BY <1>1, ClientFramesGoes

\* ... of the bytes of requests, ...
LEMMA ProcessReceivedDataGoes ==
  ASSUME NEW S, NEW T, NEW R, NEW bytes \in Seq(T), NEW s \in S, <<0, s>> \in R,
         \A a \in S, t \in T : RequestByte(a, t) \in S,
         \A k \in 0 .. Len(bytes) - 1, a \in S :
           <<k, a>> \in R => <<k + 1, RequestByte(a, bytes[k + 1])>> \in R
  PROVE  ProcessReceivedData(s, bytes) \in S /\ <<Len(bytes), ProcessReceivedData(s, bytes)>> \in R
<1> DEFINE n == Len(bytes)
           D == DOMAIN bytes
           Folds(f) == f = [X \in SUBSET D |-> IF X = {} THEN s
                              ELSE RequestByte(f[X \ {Max(X)}], bytes[Max(X)])]
           fold == CHOOSE f : Folds(f)
           step == [p \in S \X T |-> RequestByte(p[1], p[2])]
<1>1. ProcessReceivedData(s, bytes) = fold[D]
  BY DEF ProcessReceivedData, FoldLeft, MapThenFoldSet
<1>2. n \in Nat /\ D = 1 .. n /\ bytes \in [1 .. n -> T]
  OBVIOUS
<1>3. /\ step \in [S \X T -> S]
      /\ \A a \in S, t \in T : step[<<a, t>>] = RequestByte(a, t)
  OBVIOUS
<1> HIDE DEF n, D, step
<1>4. \E f : Folds(f)
  <2>1. PICK f : Folding(f, S, step, s, bytes, n)
    BY <1>2, <1>3, FoldExists
  <2>2. ASSUME NEW X \in SUBSET D
        PROVE  f[X] = IF X = {} THEN s
                      ELSE RequestByte(f[X \ {Max(X)}], bytes[Max(X)])
    <3>1. CASE X # {}
      <4>1. f[X \ {Max(X)}] \in S /\ bytes[Max(X)] \in T
        BY <1>2, <2>1, <3>1 DEF Folding
      <4>2. f[X] = step[<<f[X \ {Max(X)}], bytes[Max(X)]>>]
        BY <1>2, <2>1, <3>1 DEF Folding
      <4> QED
        BY <1>3, <3>1, <4>1, <4>2, Zenon
    <3> QED
      BY <1>2, <2>1, <3>1 DEF Folding
  <2>3. f = [X \in SUBSET D |-> f[X]]
    BY <1>2, <2>1 DEF Folding
  <2>4. Folds(f)
    BY <2>2, <2>3, Zenon
  <2> QED
    BY <2>4
<1>5. Folds(fold)
  BY <1>4
<1> HIDE DEF fold
<1>6. \A X \in SUBSET D : fold[X] = IF X = {} THEN s
        ELSE RequestByte(fold[X \ {Max(X)}], bytes[Max(X)])
  BY <1>5
<1>7. fold[{}] = s
  BY <1>6
<1>8. ASSUME NEW k \in 0 .. n - 1 PROVE fold[1 .. k + 1] = RequestByte(fold[1 .. k], bytes[k + 1]) /\ bytes[k + 1] \in T
  <2>1. k \in Nat /\ 1 .. k + 1 \in SUBSET D /\ k + 1 \in 1 .. n
    BY <1>2
  <2>2. fold[1 .. k + 1] = RequestByte(fold[1 .. k], bytes[k + 1])
    BY <1>6, <2>1, MaxOfRange
  <2>3. bytes[k + 1] \in T
    BY <1>2, <2>1
  <2> QED
    BY <2>2, <2>3
<1>9. fold[1 .. n] \in S /\ <<n, fold[1 .. n]>> \in R
  <2>1. \A k \in 0 .. n - 1 : fold[1 .. k] \in S => fold[1 .. k + 1] \in S
    BY <1>8
  <2>2. \A k \in 0 .. n - 1 : fold[1 .. k] \in S /\ <<k, fold[1 .. k]>> \in R
                                 => <<k + 1, fold[1 .. k + 1]>> \in R
    BY <1>8 DEF n
  <2>3. fold[{}] \in S /\ <<0, fold[{}]>> \in R
    BY <1>7
  <2> QED
    BY <1>2, <2>1, <2>2, <2>3, FoldGoes
<1> QED
  BY <1>1, <1>2, <1>9 DEF n

LEMMA ProcessReceivedDataStays ==
  ASSUME NEW S, NEW T, NEW bytes \in Seq(T), NEW s \in S,
         \A a \in S, t \in T : RequestByte(a, t) \in S
  PROVE  ProcessReceivedData(s, bytes) \in S
<1> DEFINE R == Nat \X S
<1>1. <<0, s>> \in R /\ \A k \in 0 .. Len(bytes) - 1, a \in S :
        <<k, a>> \in R => <<k + 1, RequestByte(a, bytes[k + 1])>> \in R
  OBVIOUS
<1> HIDE DEF R
<1> QED
  BY <1>1, ProcessReceivedDataGoes

\* ... and of the bytes of responses.
LEMMA ProcessResponseGoes ==
  ASSUME NEW S, NEW T, NEW R, NEW bytes \in Seq(T), NEW s \in S, <<0, s>> \in R,
         \A a \in S, t \in T : ResponseByte(a, t) \in S,
         \A k \in 0 .. Len(bytes) - 1, a \in S :
           <<k, a>> \in R => <<k + 1, ResponseByte(a, bytes[k + 1])>> \in R
  PROVE  ProcessResponse(s, bytes) \in S /\ <<Len(bytes), ProcessResponse(s, bytes)>> \in R
<1> DEFINE n == Len(bytes)
           D == DOMAIN bytes
           Folds(f) == f = [X \in SUBSET D |-> IF X = {} THEN s
                              ELSE ResponseByte(f[X \ {Max(X)}], bytes[Max(X)])]
           fold == CHOOSE f : Folds(f)
           step == [p \in S \X T |-> ResponseByte(p[1], p[2])]
<1>1. ProcessResponse(s, bytes) = fold[D]
  BY DEF ProcessResponse, FoldLeft, MapThenFoldSet
<1>2. n \in Nat /\ D = 1 .. n /\ bytes \in [1 .. n -> T]
  OBVIOUS
<1>3. /\ step \in [S \X T -> S]
      /\ \A a \in S, t \in T : step[<<a, t>>] = ResponseByte(a, t)
  OBVIOUS
<1> HIDE DEF n, D, step
<1>4. \E f : Folds(f)
  <2>1. PICK f : Folding(f, S, step, s, bytes, n)
    BY <1>2, <1>3, FoldExists
  <2>2. ASSUME NEW X \in SUBSET D
        PROVE  f[X] = IF X = {} THEN s
                      ELSE ResponseByte(f[X \ {Max(X)}], bytes[Max(X)])
    <3>1. CASE X # {}
      <4>1. f[X \ {Max(X)}] \in S /\ bytes[Max(X)] \in T
        BY <1>2, <2>1, <3>1 DEF Folding
      <4>2. f[X] = step[<<f[X \ {Max(X)}], bytes[Max(X)]>>]
        BY <1>2, <2>1, <3>1 DEF Folding
      <4> QED
        BY <1>3, <3>1, <4>1, <4>2, Zenon
    <3> QED
      BY <1>2, <2>1, <3>1 DEF Folding
  <2>3. f = [X \in SUBSET D |-> f[X]]
    BY <1>2, <2>1 DEF Folding
  <2>4. Folds(f)
    BY <2>2, <2>3, Zenon
  <2> QED
    BY <2>4
<1>5. Folds(fold)
  BY <1>4
<1> HIDE DEF fold
<1>6. \A X \in SUBSET D : fold[X] = IF X = {} THEN s
        ELSE ResponseByte(fold[X \ {Max(X)}], bytes[Max(X)])
  BY <1>5
<1>7. fold[{}] = s
  BY <1>6
<1>8. ASSUME NEW k \in 0 .. n - 1 PROVE fold[1 .. k + 1] = ResponseByte(fold[1 .. k], bytes[k + 1]) /\ bytes[k + 1] \in T
  <2>1. k \in Nat /\ 1 .. k + 1 \in SUBSET D /\ k + 1 \in 1 .. n
    BY <1>2
  <2>2. fold[1 .. k + 1] = ResponseByte(fold[1 .. k], bytes[k + 1])
    BY <1>6, <2>1, MaxOfRange
  <2>3. bytes[k + 1] \in T
    BY <1>2, <2>1
  <2> QED
    BY <2>2, <2>3
<1>9. fold[1 .. n] \in S /\ <<n, fold[1 .. n]>> \in R
  <2>1. \A k \in 0 .. n - 1 : fold[1 .. k] \in S => fold[1 .. k + 1] \in S
    BY <1>8
  <2>2. \A k \in 0 .. n - 1 : fold[1 .. k] \in S /\ <<k, fold[1 .. k]>> \in R
                                 => <<k + 1, fold[1 .. k + 1]>> \in R
    BY <1>8 DEF n
  <2>3. fold[{}] \in S /\ <<0, fold[{}]>> \in R
    BY <1>7
  <2> QED
    BY <1>2, <2>1, <2>2, <2>3, FoldGoes
<1> QED
  BY <1>1, <1>2, <1>9 DEF n

LEMMA ProcessResponseStays ==
  ASSUME NEW S, NEW T, NEW bytes \in Seq(T), NEW s \in S,
         \A a \in S, t \in T : ResponseByte(a, t) \in S
  PROVE  ProcessResponse(s, bytes) \in S
<1> DEFINE R == Nat \X S
<1>1. <<0, s>> \in R /\ \A k \in 0 .. Len(bytes) - 1, a \in S :
        <<k, a>> \in R => <<k + 1, ResponseByte(a, bytes[k + 1])>> \in R
  OBVIOUS
<1> HIDE DEF R
<1> QED
  BY <1>1, ProcessResponseGoes

-----------------------------------------------------------------------------
(* The parser's callbacks.                                                 *)

Bytes == Seq(Tokens)
Maps(K, V) == UNION {[D -> V] : D \in SUBSET K}

\* A parsed request or response.
Message == [message : Nat, url : Bytes, headers : Maps(Bytes, Bytes), body : Bytes,
            keep : BOOLEAN]

ParserPlaces == {"start", "message", "closed", "error"}

\* A set of sessions that is closed under whatever a callback does to the
\* message in the parser.
Parsing(S) ==
  /\ \A s \in S :
       /\ s.at \in ParserPlaces /\ s.url \in Bytes /\ s.field \in Bytes /\ s.value \in Bytes
       /\ s.headers \in Maps(Bytes, Bytes) /\ s.body \in Bytes /\ s.reading \in BOOLEAN
       /\ s.pending \in Seq(Message)
  /\ \A s \in S, v \in ParserPlaces : [s EXCEPT !.at = v] \in S
  /\ \A s \in S, v \in Bytes :
       /\ [s EXCEPT !.url = v] \in S /\ [s EXCEPT !.field = v] \in S
       /\ [s EXCEPT !.value = v] \in S /\ [s EXCEPT !.body = v] \in S
  /\ \A s \in S, v \in Maps(Bytes, Bytes) : [s EXCEPT !.headers = v] \in S
  /\ \A s \in S, v \in BOOLEAN : [s EXCEPT !.reading = v] \in S
  /\ \A s \in S, v \in Seq(Message) : [s EXCEPT !.pending = v] \in S

\* An entry made or replaced.
LEMMA PutType ==
  ASSUME NEW K, NEW V, NEW map \in Maps(K, V), NEW key \in K, NEW value \in V
  PROVE  Put(map, key, value) \in Maps(K, V)
<1>1. PICK D \in SUBSET K : map \in [D -> V]
  BY DEF Maps
<1>2. Put(map, key, value) \in [D \cup {key} -> V]
  BY <1>1 DEF Put
<1> QED
  BY <1>2 DEF Maps

\* No entry is a map of any type.
LEMMA EmptyMap ==
  ASSUME NEW K, NEW V
  PROVE  <<>> \in Maps(K, V)
<1>1. <<>> \in [{} -> V] /\ {} \in SUBSET K
  OBVIOUS
<1> QED
  BY <1>1 DEF Maps

\* The parts of a message grow by a byte.
LEMMA BytesFacts ==
  ASSUME NEW t \in Tokens
  PROVE  <<>> \in Bytes /\ \A b \in Bytes : Append(b, t) \in Bytes
  BY DEF Bytes

\* Each callback leads from such a set to itself.  The header that is read last
\* joins the others.
LEMMA FinalizeHeaderStays ==
  ASSUME NEW S, Parsing(S), NEW s \in S
  PROVE  FinalizeHeaderIfReady(s) \in S
<1> DEFINE h == Put(s.headers, s.field, s.value)
           u == [s EXCEPT !.headers = h]
           v == [u EXCEPT !.field = <<>>]
<1>1. h \in Maps(Bytes, Bytes) /\ <<>> \in Bytes
  BY PutType DEF Parsing, Bytes
<1> HIDE DEF h
<1>2. u \in S
  BY <1>1 DEF Parsing
<1> HIDE DEF u
<1>3. v \in S
  BY <1>1, <1>2 DEF Parsing
<1> HIDE DEF v
<1>4. [v EXCEPT !.value = <<>>] \in S
  BY <1>1, <1>3 DEF Parsing
<1> QED
  BY <1>4 DEF FinalizeHeaderIfReady, h, u, v

\* A message begins with nothing of the one before.
LEMMA OnMessageBeginStays ==
  ASSUME NEW S, Parsing(S), NEW s \in S
  PROVE  OnMessageBegin(s) \in S
<1> DEFINE a == [s EXCEPT !.at = "message"]
           b == [a EXCEPT !.url = <<>>]
           c == [b EXCEPT !.field = <<>>]
           d == [c EXCEPT !.value = <<>>]
           e == [d EXCEPT !.headers = <<>>]
           f == [e EXCEPT !.body = <<>>]
<1>0. /\ <<>> \in Bytes /\ <<>> \in Maps(Bytes, Bytes) /\ "message" \in ParserPlaces
      /\ FALSE \in BOOLEAN
  BY EmptyMap DEF Bytes, ParserPlaces
<1>1. a \in S
  BY <1>0 DEF Parsing
<1> HIDE DEF a
<1>2. b \in S
  BY <1>0, <1>1 DEF Parsing
<1> HIDE DEF b
<1>3. c \in S
  BY <1>0, <1>2 DEF Parsing
<1> HIDE DEF c
<1>4. d \in S
  BY <1>0, <1>3 DEF Parsing
<1> HIDE DEF d
<1>5. e \in S
  BY <1>0, <1>4 DEF Parsing
<1> HIDE DEF e
<1>6. f \in S
  BY <1>0, <1>5 DEF Parsing
<1> HIDE DEF f
<1>7. [f EXCEPT !.reading = FALSE] \in S
  BY <1>0, <1>6 DEF Parsing
<1> QED
  BY <1>7 DEF OnMessageBegin, a, b, c, d, e, f

\* A byte of a header's name, the first of which ends the header before it.
LEMMA OnHeaderFieldStays ==
  ASSUME NEW S, Parsing(S), NEW s \in S, NEW t \in Tokens
  PROVE  OnHeaderField(s, t) \in S
<1> DEFINE f == IF s.reading THEN [FinalizeHeaderIfReady(s) EXCEPT !.reading = FALSE] ELSE s
<1>1. f \in S
  BY FinalizeHeaderStays DEF Parsing
<1> HIDE DEF f
<1>2. Append(f.field, t) \in Bytes
  BY <1>1, BytesFacts DEF Parsing
<1>3. [f EXCEPT !.field = Append(f.field, t)] \in S
  BY <1>1, <1>2 DEF Parsing
<1> QED
  BY <1>3 DEF OnHeaderField, f

\* A byte of a header's value.
LEMMA OnHeaderValueStays ==
  ASSUME NEW S, Parsing(S), NEW s \in S, NEW t \in Tokens
  PROVE  OnHeaderValue(s, t) \in S
<1> DEFINE f == [s EXCEPT !.reading = TRUE]
<1>1. f \in S
  BY DEF Parsing
<1>2. Append(s.value, t) \in Bytes
  BY BytesFacts DEF Parsing
<1>3. Append(f.value, t) \in Bytes
  BY <1>1, BytesFacts DEF Parsing
<1> HIDE DEF f
<1>4. [f EXCEPT !.value = Append(s.value, t)] \in S /\ [f EXCEPT !.value = Append(f.value, t)] \in S
  BY <1>1, <1>2, <1>3 DEF Parsing
<1> QED
  BY <1>4 DEF OnHeaderValue, f

\* A byte of the body.
LEMMA OnBodyStays ==
  ASSUME NEW S, Parsing(S), NEW s \in S, NEW t \in Tokens
  PROVE  OnBody(s, t) \in S
<1>1. Append(s.body, t) \in Bytes
  BY BytesFacts DEF Parsing
<1> QED
  BY <1>1 DEF OnBody, Parsing

\* The message is queued.
LEMMA OnMessageCompleteStays ==
  ASSUME NEW S, Parsing(S), NEW s \in S, NEW m \in Nat, NEW keep \in BOOLEAN
  PROVE  OnMessageComplete(s, m, keep) \in S
<1> DEFINE f == [s EXCEPT !.at = IF keep THEN "start" ELSE "closed"]
           p == [message |-> m, url |-> s.url, headers |-> s.headers, body |-> s.body,
                 keep |-> keep]
<1>1. f \in S
  BY DEF Parsing, ParserPlaces
<1>2. p \in Message
  BY DEF Parsing, Message
<1>3. f.pending \in Seq(Message) /\ s.pending \in Seq(Message)
  BY <1>1 DEF Parsing
<1> HIDE DEF f, p
<1>4. Append(f.pending, p) \in Seq(Message) /\ Append(s.pending, p) \in Seq(Message)
  BY <1>2, <1>3
<1>5. [f EXCEPT !.pending = Append(f.pending, p)] \in S /\ [f EXCEPT !.pending = Append(s.pending, p)] \in S
  BY <1>1, <1>4 DEF Parsing
<1> QED
  BY <1>5 DEF OnMessageComplete, f, p

\* Whatever byte llhttp is given, its callbacks stay in such a set.
LEMMA CallbacksStay ==
  ASSUME NEW S, Parsing(S), NEW s \in S, NEW t \in Tokens, NEW begins, NEW keep \in BOOLEAN
  PROVE  Callbacks(s, t, begins, keep) \in S
<1>1. t[1] \in Nat
  BY DEF Tokens
<1>2. /\ OnMessageBegin(s) \in S /\ OnHeaderField(s, t) \in S /\ OnHeaderValue(s, t) \in S
      /\ OnHeadersComplete(s) \in S /\ OnBody(s, t) \in S
  BY OnMessageBeginStays, OnHeaderFieldStays, OnHeaderValueStays, FinalizeHeaderStays,
     OnBodyStays DEF OnHeadersComplete
<1>3. /\ OnMessageComplete(OnHeadersComplete(s), t[1], keep) \in S
      /\ OnMessageComplete(OnBody(s, t), t[1], keep) \in S
  BY <1>1, <1>2, OnMessageCompleteStays
<1>4. [s EXCEPT !.url = Append(@, t)] \in S /\ [s EXCEPT !.at = "error"] \in S
  <2>1. Append(s.url, t) \in Bytes /\ "error" \in ParserPlaces
    BY BytesFacts DEF Parsing, ParserPlaces
  <2> QED
    BY <2>1 DEF Parsing
<1> QED
  BY <1>2, <1>3, <1>4 DEF Callbacks

-----------------------------------------------------------------------------
(* Types.                                                                  *)

Server1Type ==
  [at : ParserPlaces, url : Bytes, field : Bytes, value : Bytes,
   headers : Maps(Bytes, Bytes), body : Bytes, reading : BOOLEAN, pending : Seq(Message),
   pc : {"new", "consume", "handle", "write", "read", "close", "return", "left"},
   phase : {"initial", "loop", "eof"}, keepAlive : BOOLEAN, current : Nat, keep : BOOLEAN,
   head : Bytes, rest : Bytes, made : Seq(Nat \X BOOLEAN), written : Bytes]

Client1Type ==
  [at : ParserPlaces, url : Bytes, field : Bytes, value : Bytes,
   headers : Maps(Bytes, Bytes), body : Bytes, reading : BOOLEAN, pending : Seq(Message),
   pc : {"idle", "write", "await", "failed"}, out : Bytes, results : Seq(Message)]

\* A slot, an entry of the queue, and a request taken from the callbacks.
SlotType == [headers : BOOLEAN, body : Bytes, complete : BOOLEAN]
EntryType == [stream : Nat, head : Tokens \cup {<<>>}, left : 0 .. 2]
Request2Type == [stream : Nat, body : Bytes]

Server2Type ==
  [pc : {"new", "initialized", "consume", "handle", "send", "write", "read", "refused",
         "left"},
   phase : {"initialize", "initial", "loop"}, requests : Maps(Nat, SlotType),
   pending : Seq(Request2Type), queue : Seq(EntryType), dropped : SUBSET Nat,
   window : Nat, copy : Bytes, current : Nat, body : Bytes,
   made : Seq(Nat \X BOOLEAN), written : Bytes]

ReplyType == [status : Nat, body : Bytes, complete : BOOLEAN]

Client2Type ==
  [pc : {"new", "idle", "send", "write", "read", "check", "failed"},
   responses : Maps(Nat, ReplyType), queue : Bytes, copy : Bytes, reads : 0 .. MaxReads,
   then : {"idle", "read", "check"}, results : Seq(ReplyType)]

WireType ==
  [bytes : [Directions -> Bytes], ended : SUBSET Directions, deaf : SUBSET Directions,
   reset : BOOLEAN]

WireOK(w) ==
  w \in WireType /\ \A d \in Directions : Len(w.bytes[d]) <= Space(d)

ConnType ==
  [pc : {"setup", "listening", "accept", "detect", "http1", "http2", "done", "terminated"},
   data : Bytes]

ClientType ==
  [kind : {"h1", "h2", "auto", "raw"}, pc : {"none", "start", "open", "gone"},
   bytes : Bytes, sent : Nat]

Types ==
  /\ h1 \in Server1Type /\ c1 \in Client1Type /\ h2 \in Server2Type /\ c2 \in Client2Type
  /\ WireOK(wire)
  /\ conn \in ConnType
  /\ client \in ClientType /\ client.sent <= Len(client.bytes)

\* These types are more than the type invariant asks for.
LEMMA TypesImply == Types => HttpTypeOK
<1> SUFFICES ASSUME Types PROVE HttpTypeOK
  OBVIOUS
<1>1. /\ conn.pc \in {"setup", "listening", "accept", "detect", "http1", "http2",
                      "done", "terminated"}
      /\ \A d \in Directions : Len(wire.bytes[d]) <= Space(d)
  BY DEF Types, ConnType, WireOK
<1>2. /\ client.kind \in {"h1", "h2", "auto", "raw"}
      /\ client.pc \in {"none", "start", "open", "gone"}
      /\ client.sent \in 0 .. Len(client.bytes)
  <2>1. client.bytes \in Bytes /\ client.sent \in Nat /\ client.sent <= Len(client.bytes)
    BY DEF Types, ClientType
  <2>2. Len(client.bytes) \in Nat
    BY <2>1 DEF Bytes
  <2> QED
    BY <2>1, <2>2 DEF Types, ClientType
<1>3. /\ h1.pc \in {"new", "consume", "handle", "write", "read", "close", "return", "left"}
      /\ h1.at \in {"start", "message", "closed", "error"}
  BY DEF Types, Server1Type, ParserPlaces
<1>4. c1.pc \in {"idle", "write", "await", "failed"}
  BY DEF Types, Client1Type
<1>5. /\ h2.pc \in {"new", "initialized", "consume", "handle", "send", "write", "read",
                   "refused", "left"}
      /\ h2.window \in Nat
  BY DEF Types, Server2Type
<1>6. /\ c2.pc \in {"new", "idle", "send", "write", "read", "check", "failed"}
      /\ c2.reads \in 0 .. MaxReads
  BY DEF Types, Client2Type
<1> QED
  BY <1>1, <1>2, <1>3, <1>4, <1>5, <1>6 DEF HttpTypeOK

\* What the callbacks leave of a session of HTTP/1.1.
Same1(a, b) ==
  /\ a.made = b.made /\ a.written = b.written /\ a.head = b.head /\ a.rest = b.rest

\* A server session keeps its type, and what the callbacks leave, in any callback.
LEMMA ServersParse ==
  ASSUME NEW s \in Server1Type
  PROVE  Parsing({x \in Server1Type : Same1(x, s)})
<1> DEFINE S == {x \in Server1Type : Same1(x, s)}
<1>1. \A x \in S :
        /\ x.at \in ParserPlaces /\ x.url \in Bytes /\ x.field \in Bytes /\ x.value \in Bytes
        /\ x.headers \in Maps(Bytes, Bytes) /\ x.body \in Bytes /\ x.reading \in BOOLEAN
        /\ x.pending \in Seq(Message)
  BY DEF Server1Type
<1>2. \A x \in S, v \in ParserPlaces : [x EXCEPT !.at = v] \in S
  BY ZenonT(40) DEF Server1Type, Same1
<1>3. \A x \in S, v \in Bytes : [x EXCEPT !.url = v] \in S
  BY ZenonT(40) DEF Server1Type, Same1
<1>4. \A x \in S, v \in Bytes : [x EXCEPT !.field = v] \in S
  BY ZenonT(40) DEF Server1Type, Same1
<1>5. \A x \in S, v \in Bytes : [x EXCEPT !.value = v] \in S
  BY ZenonT(40) DEF Server1Type, Same1
<1>6. \A x \in S, v \in Bytes : [x EXCEPT !.body = v] \in S
  BY ZenonT(40) DEF Server1Type, Same1
<1>7. \A x \in S, v \in Maps(Bytes, Bytes) : [x EXCEPT !.headers = v] \in S
  BY ZenonT(40) DEF Server1Type, Same1
<1>8. \A x \in S, v \in BOOLEAN : [x EXCEPT !.reading = v] \in S
  BY ZenonT(40) DEF Server1Type, Same1
<1>9. \A x \in S, v \in Seq(Message) : [x EXCEPT !.pending = v] \in S
  BY ZenonT(40) DEF Server1Type, Same1
<1> HIDE DEF S
<1>10. Parsing(S)
  BY <1>1, <1>2, <1>3, <1>4, <1>5, <1>6, <1>7, <1>8, <1>9 DEF Parsing
<1> QED
  BY <1>10 DEF S

\* So does a client session.
LEMMA ClientsParse == Parsing(Client1Type)
<1> DEFINE S == Client1Type
<1>1. \A x \in S :
        /\ x.at \in ParserPlaces /\ x.url \in Bytes /\ x.field \in Bytes /\ x.value \in Bytes
        /\ x.headers \in Maps(Bytes, Bytes) /\ x.body \in Bytes /\ x.reading \in BOOLEAN
        /\ x.pending \in Seq(Message)
  BY DEF Client1Type
<1>2. \A x \in S, v \in ParserPlaces : [x EXCEPT !.at = v] \in S
  BY DEF Client1Type
<1>3. \A x \in S, v \in Bytes :
        /\ [x EXCEPT !.url = v] \in S /\ [x EXCEPT !.field = v] \in S
        /\ [x EXCEPT !.value = v] \in S /\ [x EXCEPT !.body = v] \in S
  BY DEF Client1Type
<1>4. \A x \in S, v \in Maps(Bytes, Bytes) : [x EXCEPT !.headers = v] \in S
  BY DEF Client1Type
<1>5. \A x \in S, v \in BOOLEAN : [x EXCEPT !.reading = v] \in S
  BY DEF Client1Type
<1>6. \A x \in S, v \in Seq(Message) : [x EXCEPT !.pending = v] \in S
  BY DEF Client1Type
<1> QED
  BY <1>1, <1>2, <1>3, <1>4, <1>5, <1>6 DEF Parsing

\* Whatever the server reads, it composes and writes nothing by that, ...
LEMMA ProcessReceivedDataType ==
  ASSUME NEW s \in Server1Type, NEW bytes \in Bytes
  PROVE  /\ ProcessReceivedData(s, bytes) \in Server1Type
         /\ Same1(ProcessReceivedData(s, bytes), s)
<1> DEFINE S == {x \in Server1Type : Same1(x, s)}
<1>1. Parsing(S) /\ s \in S
  BY ServersParse DEF Same1
<1> HIDE DEF S
<1>2. ASSUME NEW a \in S, NEW t \in Tokens PROVE RequestByte(a, t) \in S
  <2> DEFINE keep == t[1] \in DOMAIN requests /\ ~requests[t[1]].close
  <2>1. keep \in BOOLEAN
    OBVIOUS
  <2> HIDE DEF keep
  <2>2. Callbacks(a, t, {"P", "method"}, keep) \in S
    BY <1>1, <2>1, CallbacksStay
  <2> QED
    BY <2>2 DEF RequestByte, keep
<1>3. ProcessReceivedData(s, bytes) \in S
  BY <1>1, <1>2, ProcessReceivedDataStays DEF Bytes
<1> QED
  BY <1>3 DEF S

\* ... and the client stays what it is.
LEMMA ProcessResponseType ==
  ASSUME NEW s \in Client1Type, NEW bytes \in Bytes
  PROVE  ProcessResponse(s, bytes) \in Client1Type
<1>1. ASSUME NEW a \in Client1Type, NEW t \in Tokens PROVE ResponseByte(a, t) \in Client1Type
  BY ClientsParse, CallbacksStay DEF ResponseByte
<1> QED
  BY <1>1, ProcessResponseStays DEF Bytes

-----------------------------------------------------------------------------
(* The responses.                                                          *)

\* HTTP/1.1: what is on the wire and what is still to be written are the bytes
\* of the responses made, whether the session goes on or has given one up.
Writing1 ==
  /\ h1.pc \in {"new", "consume", "handle", "read"} => h1.written = Responses1(h1.made)
  /\ h1.pc = "write" => h1.written \o (h1.head \o h1.rest) = Responses1(h1.made)
  /\ IsPrefix(h1.written, Responses1(h1.made))

\* HTTP/2: a stream is taken for a request once, when it has ended.
Accepted(s, stream) == stream \in DOMAIN s.requests /\ s.requests[stream].complete
IsMade(s, stream) == \E i \in DOMAIN s.made : s.made[i][1] = stream

TakenOnce(s) ==
  /\ \A i \in DOMAIN s.made : Accepted(s, s.made[i][1])
  /\ s.pc = "handle" => Accepted(s, s.current) /\ ~IsMade(s, s.current)
  /\ \A i \in DOMAIN s.pending :
       /\ Accepted(s, s.pending[i].stream) /\ ~IsMade(s, s.pending[i].stream)
       /\ s.pc = "handle" => s.pending[i].stream # s.current
       /\ \A j \in DOMAIN s.pending : s.pending[i].stream = s.pending[j].stream => i = j

\* The frames nghttp2 has given, sent or about to be; how many of the first i
\* are a stream's.
Given(s) == s.written \o s.copy
OnStream(frames, stream, i) == Cardinality({j \in 1 .. i : frames[j][1] = stream})

\* Each is the next one of the response that was made to its stream.
FramesFollow(frames, made) ==
  \A i \in DOMAIN frames :
    LET stream == frames[i][1]
        n == OnStream(frames, stream, i)
    IN  stream # 0 => \E k \in DOMAIN made :
          /\ made[k][1] = stream
          /\ n <= Len(Frames2(stream, made[k][2]))
          /\ frames[i] = Frames2(stream, made[k][2])[n]

\* An entry of the queue has what follows the frames it has given.
Entry(e, frames, made) ==
  LET given == OnStream(frames, e.stream, Len(frames))
  IN  e.stream # 0 => \E k \in DOMAIN made :
        /\ made[k][1] = e.stream
        /\ \/ e.head # <<>> /\ given = 0 /\ made[k][2] /\ e.left = 2
                /\ e.head = <<e.stream, "HEADERS">>
           \/ e.head # <<>> /\ given = 0 /\ ~made[k][2] /\ e.left = 0
                /\ e.head = <<e.stream, "HEADERS!">>
           \/ e.head = <<>> /\ e.left \in {1, 2} /\ given = 3 - e.left /\ made[k][2]

QueueFollows(queue, frames, made) ==
  \A i \in DOMAIN queue :
    /\ Entry(queue[i], frames, made)
    /\ \A j \in DOMAIN queue :
         queue[i].stream # 0 /\ queue[i].stream = queue[j].stream => i = j

\* An entry's head is a frame of its stream; one that has given it has a part
\* of a body left.
EntryOK(e) == IF e.head = <<>> THEN e.left # 0 ELSE e.head[1] = e.stream

Server2OK(s) ==
  /\ s \in Server2Type
  /\ \A i \in DOMAIN s.queue : EntryOK(s.queue[i])
  /\ TakenOnce(s)
  /\ s.pc \notin {"write", "left"} => s.copy = <<>>
  /\ FramesFollow(Given(s), s.made)
  /\ QueueFollows(s.queue, Given(s), s.made)

-----------------------------------------------------------------------------
(* The frames of HTTP/2.                                                   *)

\* What nghttp2's callbacks leave of the server's session.
Same2(a, b) ==
  /\ a.made = b.made /\ a.queue = b.queue /\ a.copy = b.copy /\ a.written = b.written
  /\ a.current = b.current /\ a.pc = b.pc

\* A stream that has been accepted remains so.
Accepting(a, b) == \A stream : Accepted(b, stream) => Accepted(a, stream)

\* One callback, and what it may queue: a stream that it accepts.
LEMMA SlotOfType ==
  ASSUME NEW s \in Server2Type, NEW stream \in Nat
  PROVE  SlotOf(s, stream) \in SlotType
<1>1. PICK D \in SUBSET Nat : s.requests \in [D -> SlotType]
  BY DEF Server2Type, Maps
<1>2. Slot \in SlotType
  BY DEF Slot, SlotType, Bytes
<1> QED
  BY <1>1, <1>2 DEF SlotOf

\* The slot of a stream that has not ended is replaced.
LEMMA SlotReplaced ==
  ASSUME NEW s \in Server2Type, NEW stream \in Nat, ~SlotOf(s, stream).complete,
         NEW slot \in SlotType,
         NEW r, r = [s EXCEPT !.requests = Put(@, stream, slot)]
  PROVE  /\ r \in Server2Type /\ Same2(r, s) /\ Accepting(r, s) /\ r.pending = s.pending
         /\ r.requests = Put(s.requests, stream, slot)
         /\ stream \in DOMAIN r.requests /\ r.requests[stream] = slot
         /\ \A x : x # stream => (x \in DOMAIN r.requests <=> x \in DOMAIN s.requests)
<1>1. Put(s.requests, stream, slot) \in Maps(Nat, SlotType)
  BY PutType DEF Server2Type
<1>2. r \in Server2Type /\ Same2(r, s) /\ r.pending = s.pending
      /\ r.requests = Put(s.requests, stream, slot)
  BY <1>1 DEF Server2Type, Same2
<1>3. /\ stream \in DOMAIN r.requests /\ r.requests[stream] = slot
      /\ \A x : x # stream =>
           /\ x \in DOMAIN r.requests <=> x \in DOMAIN s.requests
           /\ x \in DOMAIN s.requests => r.requests[x] = s.requests[x]
  BY <1>2 DEF Put
<1>4. Accepting(r, s)
  BY <1>3 DEF Accepting, Accepted, SlotOf
<1> QED
  BY <1>2, <1>3, <1>4

\* A stream that has not been accepted is now, and may be queued.
LEMMA FrameRecvKeeps ==
  ASSUME NEW s \in Server2Type, TakenOnce(s), NEW stream \in DOMAIN s.requests,
         ~s.requests[stream].complete
  PROVE  /\ ServerOnFrameRecv(s, stream) \in Server2Type
         /\ Same2(ServerOnFrameRecv(s, stream), s)
         /\ TakenOnce(ServerOnFrameRecv(s, stream))
<1> DEFINE slot == s.requests[stream]
           done == [s EXCEPT !.requests[stream].complete = TRUE]
           p == [stream |-> stream, body |-> slot.body]
           q == Append(s.pending, p)
           more == [done EXCEPT !.pending = q]
<1>1. PICK D \in SUBSET Nat : s.requests \in [D -> SlotType]
  BY DEF Server2Type, Maps
<1>2. slot \in SlotType /\ stream \in Nat
  BY <1>1
<1>3. [s.requests EXCEPT ![stream].complete = TRUE] \in Maps(Nat, SlotType)
  <2>1. [slot EXCEPT !.complete = TRUE] \in SlotType
    BY <1>2 DEF SlotType
  <2>2. [s.requests EXCEPT ![stream].complete = TRUE] \in [D -> SlotType]
    BY <1>1, <2>1
  <2> QED
    BY <2>2 DEF Maps
<1>4. done \in Server2Type /\ Same2(done, s) /\ done.pending = s.pending
      /\ done.requests = [s.requests EXCEPT ![stream].complete = TRUE]
  BY <1>3 DEF Server2Type, Same2
<1>5. Accepting(done, s) /\ Accepted(done, stream)
  BY <1>1, <1>2, <1>4 DEF Accepting, Accepted, SlotType
<1>6. p \in Request2Type /\ p.stream = stream
  BY <1>2 DEF Request2Type, SlotType
<1> HIDE DEF done, p, slot
<1>11. q \in Seq(Request2Type)
  BY <1>6 DEF Server2Type
<1> HIDE DEF q
<1>12. /\ more \in Server2Type /\ more.pending = q /\ more.requests = done.requests
       /\ Same2(more, done)
  BY <1>4, <1>11 DEF Server2Type, Same2
<1> HIDE DEF more
<1>7. /\ more \in Server2Type /\ Same2(more, s) /\ more.pending = Append(s.pending, p)
      /\ more.requests = done.requests
  BY <1>4, <1>12 DEF Same2, q
<1>8. TakenOnce(done)
  BY <1>4, <1>5 DEF TakenOnce, Same2, Accepting, IsMade
<1>9. TakenOnce(more)
  <2>1. /\ \A i \in DOMAIN more.made : Accepted(more, more.made[i][1])
        /\ more.pc = "handle" => Accepted(more, more.current) /\ ~IsMade(more, more.current)
    BY <1>4, <1>7, <1>8 DEF TakenOnce, Same2, IsMade, Accepted
  <2>2. ~Accepted(s, stream)
    BY DEF Accepted
  <2>3. /\ s.pending \in Seq(Request2Type) /\ DOMAIN s.pending = 1 .. Len(s.pending)
        /\ DOMAIN more.pending = 1 .. Len(s.pending) + 1 /\ Len(s.pending) \in Nat
        /\ \A i \in 1 .. Len(s.pending) : more.pending[i] = s.pending[i]
        /\ more.pending[Len(s.pending) + 1] = p
    BY <1>6, <1>7 DEF Server2Type
  <2>4. ~IsMade(s, stream) /\ (s.pc = "handle" => stream # s.current)
        /\ \A i \in DOMAIN s.pending : s.pending[i].stream # stream
    BY <2>2 DEF TakenOnce, IsMade
  <2>5. Accepting(more, s) /\ Accepted(more, stream)
    BY <1>5, <1>7 DEF Accepting, Accepted
  <2>6. ASSUME NEW i \in DOMAIN more.pending
        PROVE  /\ Accepted(more, more.pending[i].stream) /\ ~IsMade(more, more.pending[i].stream)
               /\ more.pc = "handle" => more.pending[i].stream # more.current
               /\ \A j \in DOMAIN more.pending :
                    more.pending[i].stream = more.pending[j].stream => i = j
    <3>1. CASE i = Len(s.pending) + 1
      <4>1. more.pending[i].stream = stream
        BY <1>6, <2>3, <3>1
      <4>2. Accepted(more, stream) /\ ~IsMade(more, stream)
            /\ (more.pc = "handle" => stream # more.current)
        BY <1>7, <2>4, <2>5 DEF Same2, IsMade
      <4>3. ASSUME NEW j \in DOMAIN more.pending, more.pending[j].stream = stream
            PROVE  i = j
        BY <2>3, <2>4, <3>1, <4>3
      <4> QED
        BY <4>1, <4>2, <4>3
    <3>2. CASE i \in DOMAIN s.pending
      <4>1. more.pending[i] = s.pending[i]
        BY <2>3, <3>2
      <4>2. /\ Accepted(more, s.pending[i].stream) /\ ~IsMade(more, s.pending[i].stream)
            /\ more.pc = "handle" => s.pending[i].stream # more.current
        BY <1>7, <2>5, <3>2 DEF TakenOnce, Same2, IsMade, Accepting
      <4>3. ASSUME NEW j \in DOMAIN more.pending, more.pending[j].stream = s.pending[i].stream
            PROVE  i = j
        <5>1. CASE j \in DOMAIN s.pending
          BY <2>3, <3>2, <4>3, <5>1 DEF TakenOnce
        <5>2. CASE j = Len(s.pending) + 1
          BY <1>6, <2>3, <2>4, <3>2, <4>3, <5>2
        <5> QED
          BY <2>3, <5>1, <5>2
      <4> QED
        BY <4>1, <4>2, <4>3
    <3> QED
      BY <2>3, <3>1, <3>2
  <2> QED
    BY <2>1, <2>6 DEF TakenOnce
<1> QED
  BY <1>4, <1>7, <1>8, <1>9 DEF ServerOnFrameRecv, done, more, p, q, slot

\* The callbacks before the last of a stream's frames.
LEMMA OpenSlotKeeps ==
  ASSUME NEW s \in Server2Type, TakenOnce(s), NEW stream \in Nat,
         ~SlotOf(s, stream).complete, NEW slot \in SlotType, ~slot.complete,
         NEW r, r = [s EXCEPT !.requests = Put(@, stream, slot)]
  PROVE  /\ r \in Server2Type /\ Same2(r, s) /\ TakenOnce(r)
         /\ stream \in DOMAIN r.requests /\ ~r.requests[stream].complete
<1>1. /\ r \in Server2Type /\ Same2(r, s) /\ Accepting(r, s) /\ r.pending = s.pending
      /\ stream \in DOMAIN r.requests /\ r.requests[stream] = slot
  BY SlotReplaced
<1>2. TakenOnce(r)
  BY <1>1 DEF TakenOnce, Same2, IsMade, Accepting
<1> QED
  BY <1>1, <1>2

\* A frame leaves the type, what is queued and made, and that each request is
\* taken once.
LEMMA ServerFrameKeeps ==
  ASSUME NEW s \in Server2Type, TakenOnce(s), NEW t \in Tokens
  PROVE  /\ ServerFrame(s, t) \in Server2Type
         /\ Same2(ServerFrame(s, t), s) /\ TakenOnce(ServerFrame(s, t))
<1> DEFINE stream == t[1]
           slot == SlotOf(s, stream)
           a == ServerOnHeaders(s, stream)
           d == ServerOnDataChunk(s, t)
           Ok(r) == r \in Server2Type /\ Same2(r, s) /\ TakenOnce(r)
<1>1. stream \in Nat
  BY DEF Tokens
<1>2. slot \in SlotType
  BY <1>1, SlotOfType
<1>3. Ok(s)
  BY DEF Same2
<1>4. Ok(StreamReset(s, stream))
  <2>1. StreamReset(s, stream) \in Server2Type
    BY <1>1 DEF StreamReset, Server2Type
  <2>2. /\ Same2(StreamReset(s, stream), s)
        /\ StreamReset(s, stream).requests = s.requests
        /\ StreamReset(s, stream).pending = s.pending
    BY DEF StreamReset, Server2Type, Same2
  <2> HIDE DEF stream
  <2> DEFINE r == StreamReset(s, stream)
  <2> HIDE DEF r
  <2>3. TakenOnce(r)
    BY <2>2 DEF TakenOnce, Same2, IsMade, Accepted, r
  <2> QED
    BY <2>1, <2>2, <2>3 DEF r
<1>5. Ok([s EXCEPT !.window = @ + 1])
  <2> DEFINE r == [s EXCEPT !.window = @ + 1]
  <2>3. s.window + 1 \in Nat
    BY DEF Server2Type
  <2>4. r \in Server2Type
    BY <2>3 DEF Server2Type
  <2>1. r \in Server2Type /\ Same2(r, s) /\ r.requests = s.requests /\ r.pending = s.pending
    BY <2>4 DEF Server2Type, Same2
  <2> HIDE DEF r
  <2>2. TakenOnce(r)
    BY <2>1 DEF TakenOnce, Same2, IsMade, Accepted
  <2> QED
    BY <2>1, <2>2 DEF r
<1>6. ASSUME ~slot.complete
      PROVE  /\ Ok(a) /\ Ok(ServerOnFrameRecv(a, stream))
             /\ Ok(d) /\ Ok(ServerOnFrameRecv(d, stream))
  <2>1. /\ [slot EXCEPT !.headers = TRUE] \in SlotType
        /\ ~[slot EXCEPT !.headers = TRUE].complete
    BY <1>2, <1>6 DEF SlotType
  <2>2. /\ [slot EXCEPT !.body = Append(@, t)] \in SlotType
        /\ ~[slot EXCEPT !.body = Append(@, t)].complete
    BY <1>2, <1>6, BytesFacts DEF SlotType
  <2> DEFINE va == [slot EXCEPT !.headers = TRUE]
             vd == [slot EXCEPT !.body = Append(@, t)]
  <2>3. a = [s EXCEPT !.requests = Put(@, stream, va)]
    BY DEF ServerOnHeaders
  <2>4. d = [s EXCEPT !.requests = Put(@, stream, vd)]
    BY DEF ServerOnDataChunk
  <2> HIDE DEF va, vd, a, d, slot, stream
  <2>5. Ok(a) /\ stream \in DOMAIN a.requests /\ ~a.requests[stream].complete
    BY <1>1, <1>6, <2>1, <2>3, OpenSlotKeeps DEF va, slot
  <2>6. Ok(d) /\ stream \in DOMAIN d.requests /\ ~d.requests[stream].complete
    BY <1>1, <1>6, <2>2, <2>4, OpenSlotKeeps DEF vd, slot
  <2>7. Ok(ServerOnFrameRecv(a, stream)) /\ Ok(ServerOnFrameRecv(d, stream))
    BY <2>5, <2>6, FrameRecvKeeps DEF Same2
  <2> QED
    BY <2>5, <2>6, <2>7
<1>7. ASSUME Refused(s, t) PROVE Ok(ServerFrame(s, t))
  BY <1>3, <1>7 DEF ServerFrame
<1>8. ASSUME ~Refused(s, t) PROVE Ok(ServerFrame(s, t))
  <2>1. slot.complete => t[2] = "RST"
    BY <1>8 DEF Refused
  <2>8. ServerFrame(s, t) = Received(s, t)
    BY <1>8 DEF ServerFrame
  <2>9. t[2] # "WINDOW_UPDATE" => t # Update
    BY DEF Update
  <2> HIDE DEF a, d, slot, stream, Ok
  <2>2. CASE t[2] = "HEADERS"
    BY <1>6, <1>8, <2>1, <2>2, <2>8, <2>9 DEF Received, a, stream
  <2>3. CASE t[2] = "HEADERS!"
    BY <1>6, <1>8, <2>1, <2>3, <2>8, <2>9 DEF Received, a, stream
  <2>4. CASE t[2] \in {"data", "DATA"}
    BY <1>6, <1>8, <2>1, <2>4, <2>8, <2>9 DEF Received, d
  <2>5. CASE t[2] = "DATA!"
    BY <1>6, <1>8, <2>1, <2>5, <2>8, <2>9 DEF Received, d, stream
  <2>6. CASE t[2] = "RST"
    BY <1>4, <1>8, <2>6, <2>8, <2>9 DEF Received, stream
  <2>7. CASE t[2] \notin {"HEADERS", "HEADERS!", "data", "DATA", "DATA!", "RST"}
    BY <1>3, <1>5, <1>8, <2>7, <2>8 DEF Received
  <2> QED
    BY <2>2, <2>3, <2>4, <2>5, <2>6, <2>7
<1> QED
  BY <1>7, <1>8

\* So does whatever a read returns.
LEMMA ProcessFramesType ==
  ASSUME NEW s \in Server2Type, TakenOnce(s), NEW bytes \in Bytes
  PROVE  /\ ProcessFrames(s, bytes) \in Server2Type
         /\ Same2(ProcessFrames(s, bytes), s) /\ TakenOnce(ProcessFrames(s, bytes))
<1> DEFINE S == {x \in Server2Type : Same2(x, s) /\ TakenOnce(x)}
<1>1. s \in S
  BY DEF Same2
<1>2. ASSUME NEW a \in S, NEW t \in Tokens PROVE ServerFrame(a, t) \in S
  BY ServerFrameKeeps DEF Same2
<1> HIDE DEF S
<1>3. ProcessFrames(s, bytes) \in S
  BY <1>1, <1>2, ProcessFramesStays DEF Bytes
<1> QED
  BY <1>3 DEF S

\* The client's callbacks.
LEMMA ClientFrameType ==
  ASSUME NEW s \in Client2Type, NEW t \in Tokens
  PROVE  ClientFrame(s, t) \in Client2Type /\ ClientFrame(s, t).reads = s.reads
<1> DEFINE stream == t[1]
           a == ClientOnHeader(s, stream)
           d == ClientOnDataChunk(s, t)
<1>1. stream \in Nat
  BY DEF Tokens
<1>2. ResponseOf(s, stream) \in ReplyType
  <2>1. PICK D \in SUBSET Nat : s.responses \in [D -> ReplyType]
    BY DEF Client2Type, Maps
  <2>2. NoResponse \in ReplyType
    BY DEF NoResponse, ReplyType, Bytes
  <2> QED
    BY <2>1, <2>2 DEF ResponseOf
<1>3. a \in Client2Type /\ a.reads = s.reads
  <2> DEFINE v == [ResponseOf(s, stream) EXCEPT !.status = stream]
             m == Put(s.responses, stream, v)
  <2>1. v \in ReplyType
    BY <1>1, <1>2 DEF ReplyType
  <2> HIDE DEF v
  <2>2. m \in Maps(Nat, ReplyType)
    BY <1>1, <2>1, PutType DEF Client2Type
  <2>3. a = [s EXCEPT !.responses = m]
    BY DEF ClientOnHeader, v
  <2> HIDE DEF m, a
  <2> QED
    BY <2>2, <2>3 DEF Client2Type
<1>4. d \in Client2Type /\ d.reads = s.reads
  <2> DEFINE v == [ResponseOf(s, stream) EXCEPT !.body = Append(@, t)]
             m == Put(s.responses, stream, v)
             q == Append(s.queue, Update)
  <2>1. v \in ReplyType
    BY <1>2, BytesFacts DEF ReplyType
  <2> HIDE DEF v
  <2>2. m \in Maps(Nat, ReplyType)
    BY <1>1, <2>1, PutType DEF Client2Type
  <2>3. q \in Bytes
    <3>1. Update \in Tokens
      BY DEF Update, Tokens, Parts
    <3> QED
      BY <3>1, BytesFacts DEF Client2Type
  <2>4. d = [s EXCEPT !.responses = m, !.queue = q]
    BY DEF ClientOnDataChunk, v, Client2Type
  <2> HIDE DEF m, d, q
  <2> QED
    BY <2>2, <2>3, <2>4 DEF Client2Type
<1>5. ASSUME NEW r \in Client2Type
      PROVE  /\ ClientOnStreamClose(r, stream) \in Client2Type
             /\ ClientOnStreamClose(r, stream).reads = r.reads
  <2>1. PICK D \in SUBSET Nat : r.responses \in [D -> ReplyType]
    BY DEF Client2Type, Maps
  <2>2. CASE stream \in DOMAIN r.responses
    <3> DEFINE m == [r.responses EXCEPT ![stream].complete = TRUE]
    <3>1. [r.responses[stream] EXCEPT !.complete = TRUE] \in ReplyType
      BY <2>1, <2>2 DEF ReplyType
    <3>2. m \in [D -> ReplyType]
      BY <2>1, <3>1
    <3>3. m \in Maps(Nat, ReplyType)
      BY <3>2 DEF Maps
    <3>4. ClientOnStreamClose(r, stream) = [r EXCEPT !.responses = m]
      BY <2>2 DEF ClientOnStreamClose
    <3> HIDE DEF m
    <3> QED
      BY <3>3, <3>4 DEF Client2Type
  <2> QED
    BY <2>2 DEF ClientOnStreamClose
<1> HIDE DEF a, d, stream
<1> QED
  BY <1>3, <1>4, <1>5 DEF ClientFrame, a, d, stream

-----------------------------------------------------------------------------
(* The bytes of HTTP/1.1's responses.                                      *)

\* The constants' sequences of bytes.
LEMMA ResponseBytes ==
  ASSUME NEW m \in Nat
  PROVE  /\ Headers(m) \in Bytes /\ Body(m) \in Bytes
         /\ \A body \in BOOLEAN : Block(m, body) \in Bytes /\ Bytes1(m, body) \in Bytes
         /\ <<<<m, "status">>>> \in Bytes
         /\ <<<<m, "body follows">>>> \in Bytes /\ <<<<m, "end">>>> \in Bytes
<1>1. \A p \in Parts : <<m, p>> \in Tokens
  BY DEF Tokens
<1> DEFINE t(p) == <<m, p>>
<1>2. /\ t("status") \in Tokens /\ t("body follows") \in Tokens /\ t("end") \in Tokens
      /\ t("name a") \in Tokens /\ t("name b") \in Tokens /\ t("name c") \in Tokens
      /\ t("value") \in Tokens /\ t("body") \in Tokens /\ t("body end") \in Tokens
  BY <1>1 DEF Parts
<1>9. ASSUME NEW x \in Tokens, NEW y \in Tokens
      PROVE  <<x>> \in Bytes /\ <<x, y>> \in Bytes
  BY DEF Bytes
<1>10. ASSUME NEW x \in Tokens, NEW y \in Tokens, NEW z \in Tokens, NEW v \in Tokens
       PROVE  <<x, y, z, v, z>> \in Bytes
  BY DEF Bytes
<1>3. /\ <<t("status")>> \in Bytes /\ <<t("body follows")>> \in Bytes
      /\ <<t("end")>> \in Bytes /\ <<t("body"), t("body end")>> \in Bytes
  <2> HIDE DEF t
  <2> QED
    BY <1>2, <1>9
<1>4. <<t("name a"), t("name b"), t("value"), t("name c"), t("value")>> \in Bytes
  <2> HIDE DEF t
  <2> QED
    BY <1>2, <1>10
<1>5. Headers(m) \in Bytes /\ Body(m) \in Bytes
  BY <1>3, <1>4 DEF Headers, Body
<1>6. ASSUME NEW a \in Bytes, NEW b \in Bytes PROVE a \o b \in Bytes
  BY DEF Bytes
<1>7. ASSUME NEW body \in BOOLEAN PROVE Block(m, body) \in Bytes
  <2> DEFINE u == <<t("body follows")>> \o Body(m)
  <2>1. u \in Bytes
    BY <1>3, <1>5, <1>6
  <2>2. Block(m, body) = IF body THEN u ELSE <<t("end")>>
    BY DEF Block
  <2> HIDE DEF u, t
  <2> QED
    BY <1>3, <2>1, <2>2
<1>8. ASSUME NEW body \in BOOLEAN PROVE Bytes1(m, body) \in Bytes
  <2>1. <<t("status")>> \o Headers(m) \in Bytes
    BY <1>3, <1>5, <1>6
  <2> QED
    BY <1>6, <1>7, <2>1 DEF Bytes1
<1> QED
  BY <1>3, <1>5, <1>7, <1>8

\* The fold over the responses made, one by one.
LEMMA ResponsesFold ==
  ASSUME NEW made \in Seq(Nat \X BOOLEAN)
  PROVE  \E f : /\ Responses1(made) = f[1 .. Len(made)] /\ f[{}] = <<>>
                /\ \A k \in 0 .. Len(made) - 1 :
                     f[1 .. k + 1] = f[1 .. k] \o Bytes1(made[k + 1][1], made[k + 1][2])
<1> DEFINE n == Len(made)
           D == DOMAIN made
           T == Nat \X BOOLEAN
           Folds(f) == f = [X \in SUBSET D |-> IF X = {} THEN <<>>
                              ELSE f[X \ {Max(X)}] \o Bytes1(made[Max(X)][1], made[Max(X)][2])]
           fold == CHOOSE f : Folds(f)
           step == [p \in Bytes \X T |-> p[1] \o Bytes1(p[2][1], p[2][2])]
<1>1. Responses1(made) = fold[D]
  BY DEF Responses1, FoldLeft, MapThenFoldSet
<1>2. n \in Nat /\ D = 1 .. n /\ made \in [1 .. n -> T]
  OBVIOUS
<1>3. /\ step \in [Bytes \X T -> Bytes]
      /\ \A a \in Bytes, t \in T : step[<<a, t>>] = a \o Bytes1(t[1], t[2])
  <2>1. ASSUME NEW a \in Bytes, NEW t \in T PROVE a \o Bytes1(t[1], t[2]) \in Bytes
    <3>1. t[1] \in Nat /\ t[2] \in BOOLEAN
      OBVIOUS
    <3>2. Bytes1(t[1], t[2]) \in Bytes
      BY <3>1, ResponseBytes
    <3> QED
      BY <3>2 DEF Bytes
  <2> HIDE DEF T
  <2> QED
    BY <2>1
<1>4. <<>> \in Bytes
  BY DEF Bytes
<1> HIDE DEF n, D, step, T
<1>5. \E f : Folds(f)
  <2>1. PICK f : Folding(f, Bytes, step, <<>>, made, n)
    BY <1>2, <1>3, <1>4, FoldExists
  <2>2. ASSUME NEW X \in SUBSET D
        PROVE  f[X] = IF X = {} THEN <<>>
                      ELSE f[X \ {Max(X)}] \o Bytes1(made[Max(X)][1], made[Max(X)][2])
    <3>1. CASE X # {}
      <4>1. f[X \ {Max(X)}] \in Bytes /\ made[Max(X)] \in T
        BY <1>2, <2>1, <3>1 DEF Folding
      <4>2. f[X] = step[<<f[X \ {Max(X)}], made[Max(X)]>>]
        BY <1>2, <2>1, <3>1 DEF Folding
      <4> QED
        BY <1>3, <3>1, <4>1, <4>2, Zenon
    <3> QED
      BY <1>2, <2>1, <3>1 DEF Folding
  <2>3. f = [X \in SUBSET D |-> f[X]]
    BY <1>2, <2>1 DEF Folding
  <2>4. Folds(f)
    BY <2>2, <2>3, Zenon
  <2> QED
    BY <2>4
<1>6. Folds(fold)
  BY <1>5
<1> HIDE DEF fold
<1>7. \A X \in SUBSET D : fold[X] = IF X = {} THEN <<>>
        ELSE fold[X \ {Max(X)}] \o Bytes1(made[Max(X)][1], made[Max(X)][2])
  BY <1>6
<1>8. fold[{}] = <<>>
  BY <1>7
<1>9. ASSUME NEW k \in 0 .. n - 1
      PROVE  fold[1 .. k + 1] = fold[1 .. k] \o Bytes1(made[k + 1][1], made[k + 1][2])
  <2>1. k \in Nat /\ 1 .. k + 1 \in SUBSET D /\ k + 1 \in 1 .. n
    BY <1>2
  <2>2. Max(1 .. k + 1) = k + 1 /\ (1 .. k + 1) \ {k + 1} = 1 .. k /\ 1 .. k + 1 # {}
    BY <2>1, MaxOfRange
  <2>3. fold[1 .. k + 1] = fold[(1 .. k + 1) \ {Max(1 .. k + 1)}]
          \o Bytes1(made[Max(1 .. k + 1)][1], made[Max(1 .. k + 1)][2])
    BY <1>7, <2>1, <2>2, Zenon
  <2> QED
    BY <2>2, <2>3, Zenon
<1>10. Responses1(made) = fold[1 .. n]
  BY <1>1, <1>2
<1> QED
  BY <1>8, <1>9, <1>10 DEF n

\* One more response is one more at the end.
LEMMA ResponsesAppend ==
  ASSUME NEW made \in Seq(Nat \X BOOLEAN), NEW m \in Nat, NEW body \in BOOLEAN
  PROVE  /\ Responses1(made) \in Bytes
         /\ Responses1(Append(made, <<m, body>>)) = Responses1(made) \o Bytes1(m, body)
<1> DEFINE n == Len(made)
           more == Append(made, <<m, body>>)
<1>1. /\ more \in Seq(Nat \X BOOLEAN) /\ Len(more) = n + 1 /\ n \in Nat
      /\ \A i \in 1 .. n : more[i] = made[i]
      /\ more[n + 1] = <<m, body>>
      /\ made \in [1 .. n -> Nat \X BOOLEAN]
  OBVIOUS
<1> HIDE DEF more, n
<1>2. PICK f : /\ Responses1(made) = f[1 .. n] /\ f[{}] = <<>>
               /\ \A k \in 0 .. n - 1 :
                    f[1 .. k + 1] = f[1 .. k] \o Bytes1(made[k + 1][1], made[k + 1][2])
  BY ResponsesFold DEF n
<1>3. PICK g : /\ Responses1(more) = g[1 .. Len(more)] /\ g[{}] = <<>>
               /\ \A k \in 0 .. Len(more) - 1 :
                    g[1 .. k + 1] = g[1 .. k] \o Bytes1(more[k + 1][1], more[k + 1][2])
  BY <1>1, ResponsesFold
<1>9. 0 .. Len(more) - 1 = 0 .. n /\ 1 .. Len(more) = 1 .. n + 1
  BY <1>1
<1> DEFINE P == {k \in Nat : k <= n => f[1 .. k] = g[1 .. k] /\ f[1 .. k] \in Bytes}
<1>4. 0 \in P
  <2>1. 1 .. 0 = {} /\ <<>> \in Bytes
    BY DEF Bytes
  <2> QED
    BY <1>2, <1>3, <2>1
<1>5. ASSUME NEW k \in P PROVE k + 1 \in P
  <2>1. CASE k + 1 <= n
    <3>1. k \in Nat /\ k \in 0 .. n - 1 /\ k \in 0 .. n /\ k + 1 \in 1 .. n
      BY <1>1, <2>1
    <3>2. f[1 .. k] = g[1 .. k] /\ f[1 .. k] \in Bytes
      BY <1>1, <2>1
    <3>3. made[k + 1][1] \in Nat /\ made[k + 1][2] \in BOOLEAN /\ more[k + 1] = made[k + 1]
      BY <1>1, <3>1
    <3>4. Bytes1(made[k + 1][1], made[k + 1][2]) \in Bytes
      BY <3>3, ResponseBytes
    <3>5. f[1 .. k + 1] = g[1 .. k + 1]
      BY <1>2, <1>3, <1>9, <3>1, <3>2, <3>3
    <3>6. f[1 .. k + 1] \in Bytes
      <4>1. f[1 .. k + 1] = f[1 .. k] \o Bytes1(made[k + 1][1], made[k + 1][2])
        BY <1>2, <3>1
      <4> QED
        BY <3>2, <3>4, <4>1 DEF Bytes
    <3> QED
      BY <3>1, <3>5, <3>6
  <2> QED
    BY <1>1, <2>1
<1>6. P = Nat
  <2> HIDE DEF P
  <2>1. P \in SUBSET Nat
    BY DEF P
  <2> QED
    BY <1>4, <1>5, <2>1, NatSetInduction
<1>7. f[1 .. n] = g[1 .. n] /\ f[1 .. n] \in Bytes
  <2>1. n \in P
    BY <1>1, <1>6
  <2> QED
    BY <1>1, <2>1
<1>8. g[1 .. n + 1] = g[1 .. n] \o Bytes1(m, body)
  <2>1. n \in 0 .. n /\ more[n + 1][1] = m /\ more[n + 1][2] = body
    BY <1>1
  <2> QED
    BY <1>3, <1>9, <2>1
<1> QED
  BY <1>2, <1>3, <1>7, <1>8, <1>9 DEF more

\* No responses amount to nothing.
LEMMA ResponsesNone == Responses1(<<>>) = <<>>
<1>1. <<>> \in Seq(Nat \X BOOLEAN) /\ Len(<<>>) = 0 /\ 1 .. 0 = {}
  OBVIOUS
<1>2. PICK f : /\ Responses1(<<>>) = f[1 .. Len(<<>>)] /\ f[{}] = <<>>
  BY <1>1, ResponsesFold
<1> QED
  BY <1>1, <1>2

\* The head and the body of a response are its bytes.
LEMMA HeadAndRest ==
  ASSUME NEW m \in Nat, NEW body \in BOOLEAN
  PROVE  LET head == <<<<m, "status">>>> \o Headers(m) \o SubSeq(Block(m, body), 1, 1)
             rest == IF body THEN Body(m) ELSE <<>>
         IN  head \in Bytes /\ rest \in Bytes /\ head \o rest = Bytes1(m, body)
<1> DEFINE a == <<<<m, "status">>>> \o Headers(m)
           b == IF body THEN <<<<m, "body follows">>>> ELSE <<<<m, "end">>>>
           rest == IF body THEN Body(m) ELSE <<>>
<1>1. a \in Bytes /\ b \in Bytes /\ rest \in Bytes /\ Block(m, body) \in Bytes
  <2>1. <<<<m, "status">>>> \in Bytes /\ Headers(m) \in Bytes
    BY ResponseBytes
  <2>2. a \in Bytes
    BY <2>1 DEF Bytes
  <2>3. b \in Bytes
    BY ResponseBytes
  <2>4. rest \in Bytes
    <3>1. <<>> \in Bytes
      BY DEF Bytes
    <3> QED
      BY <3>1, ResponseBytes
  <2> QED
    BY <2>2, <2>3, <2>4, ResponseBytes
<1>2. Block(m, body) = b \o rest
  <2>1. CASE body
    BY <2>1 DEF Block
  <2>2. CASE ~body
    <3>2. rest = <<>> /\ Block(m, body) = b
      BY <2>2 DEF Block
    <3>1. b \in Seq(Tokens) /\ rest = <<>> /\ Block(m, body) = b
      <4> HIDE DEF b, rest
      <4> QED
        BY <1>1, <3>2 DEF Bytes
    <3> HIDE DEF b, rest
    <3> QED
      BY <3>1, ConcatEmptySeq
  <2> QED
    BY <2>1, <2>2
<1>3. Len(b) = 1
  OBVIOUS
<1> HIDE DEF a, b, rest
<1>4. SubSeq(b \o rest, 1, 1) = b
  <2>1. b \in Seq(Tokens) /\ rest \in Seq(Tokens) /\ 1 \in 1 .. Len(b)
    BY <1>1, <1>3 DEF Bytes
  <2>2. SubSeq(b \o rest, 1, 1) = SubSeq(b, 1, 1)
    BY <2>1, SubSeqOfConcat1
  <2>3. SubSeq(b, 1, Len(b)) = b
    BY <2>1, SubSeqFull
  <2> QED
    BY <1>3, <2>2, <2>3
<1>5. (a \o b) \o rest = a \o (b \o rest) /\ a \o b \in Bytes
  <2>1. a \in Seq(Tokens) /\ b \in Seq(Tokens) /\ rest \in Seq(Tokens)
    BY <1>1 DEF Bytes
  <2>2. (a \o b) \o rest = a \o (b \o rest)
    BY <2>1, ConcatAssociative
  <2>3. a \o b \in Seq(Tokens)
    BY <2>1
  <2> QED
    BY <2>2, <2>3 DEF Bytes
<1>6. Bytes1(m, body) = a \o Block(m, body)
  BY DEF Bytes1, a
<1> QED
  BY <1>1, <1>2, <1>4, <1>5, <1>6 DEF a, rest

-----------------------------------------------------------------------------
(* The connection.                                                         *)

\* What a send takes: the less of what there is and what fits.
LEMMA MinOfTwo ==
  ASSUME NEW a \in Int, NEW b \in Int
  PROVE  Min({a, b}) = IF a <= b THEN a ELSE b
  BY DEF Min

\* Cutting and joining.
LEMMA BytesCut ==
  ASSUME NEW b \in Bytes, NEW n \in 0 .. Len(b)
  PROVE  /\ SubSeq(b, 1, n) \in Bytes /\ Len(SubSeq(b, 1, n)) = n
         /\ Rest(b, n) \in Bytes /\ Len(Rest(b, n)) = Len(b) - n
         /\ SubSeq(b, 1, n) \o Rest(b, n) = b
<1>1. b \in Seq(Tokens) /\ Len(b) \in Nat /\ n \in Nat /\ n <= Len(b)
  BY DEF Bytes
<1>2. SubSeq(b, 1, n) \in Seq(Tokens) /\ Len(SubSeq(b, 1, n)) = n
  BY <1>1, SubSeqType
<1>3. SubSeq(b, n + 1, Len(b)) \in Seq(Tokens)
      /\ Len(SubSeq(b, n + 1, Len(b))) = IF n + 1 <= Len(b) THEN Len(b) - (n + 1) + 1 ELSE 0
  <2>1. n + 1 \in Nat \ {0}
    BY <1>1
  <2> QED
    BY <1>1, <2>1, SubSeqType
<1>4. Len(SubSeq(b, n + 1, Len(b))) = Len(b) - n
  BY <1>1, <1>3
<1>5. SubSeq(b, 1, n) \o SubSeq(b, n + 1, Len(b)) = b
  <2>1. 1 \in 1 .. Len(b) + 1 /\ n \in 1 - 1 .. Len(b) /\ Len(b) \in n .. Len(b)
    BY <1>1
  <2>2. SubSeq(b, 1, n) \o SubSeq(b, n + 1, Len(b)) = SubSeq(b, 1, Len(b))
    BY <1>1, <2>1, ConcatAdjacentSubSeq
  <2> QED
    BY <1>1, <2>2, SubSeqFull
<1> QED
  BY <1>2, <1>3, <1>4, <1>5 DEF Rest, Bytes

\* Joined bytes are bytes, as many as the two have.
LEMMA BytesJoined ==
  ASSUME NEW a \in Bytes, NEW b \in Bytes
  PROVE  a \o b \in Bytes /\ Len(a \o b) = Len(a) + Len(b)
  BY ConcatProperties DEF Bytes

\* Bytes joined in whatever order.
Associated(a, b, c) == (a \o b) \o c = a \o (b \o c)

LEMMA BytesAssociative ==
  ASSUME NEW a \in Bytes, NEW b \in Bytes, NEW c \in Bytes
  PROVE  Associated(a, b, c)
  BY ConcatAssociative DEF Bytes, Associated

\* A direction holds a number of bytes.
LEMMA SpaceType == \A d \in Directions : Space(d) \in Nat
  BY StreamAssumption DEF Directions, Space

\* A send that is possible takes a byte at least, and what fits.
LEMMA FittingType ==
  ASSUME WireOK(wire), NEW d \in Directions, NEW b \in Bytes, CanSend(d, b)
  PROVE  /\ Fitting(d, b) \in 1 .. Len(b)
         /\ d \notin wire.deaf => Len(wire.bytes[d]) + Fitting(d, b) <= Space(d)
<1>1. Len(b) \in Nat /\ wire.bytes[d] \in Bytes /\ Space(d) \in Nat
  BY SpaceType DEF WireOK, WireType, Bytes
<1>2. Len(wire.bytes[d]) \in Nat
  BY <1>1 DEF Bytes
<1>3. CASE d \in wire.deaf
  BY <1>1, <1>3 DEF Fitting, CanSend
<1>4. CASE d \notin wire.deaf
  <2>1. Fitting(d, b) = IF Len(b) <= Space(d) - Len(wire.bytes[d]) THEN Len(b)
                        ELSE Space(d) - Len(wire.bytes[d])
    BY <1>1, <1>2, <1>4, MinOfTwo DEF Fitting
  <2> QED
    BY <1>1, <1>2, <1>4, <2>1 DEF CanSend
<1> QED
  BY <1>3, <1>4

\* A send leaves the wire what it is ...
LEMMA SentType ==
  ASSUME WireOK(wire), NEW d \in Directions, NEW b \in Bytes, CanSend(d, b)
  PROVE  WireOK(Sent(d, b))
<1>1. CASE d \in wire.deaf
  <2>1. Sent(d, b) = [wire EXCEPT !.reset = TRUE]
    BY <1>1 DEF Sent
  <2> QED
    BY <2>1 DEF WireOK, WireType
<1>2. CASE d \notin wire.deaf
  <2> DEFINE n == Fitting(d, b)
             new == wire.bytes[d] \o SubSeq(b, 1, n)
  <2>1. n \in 1 .. Len(b) /\ n \in 0 .. Len(b) /\ Len(wire.bytes[d]) + n <= Space(d)
    <3>1. n \in 1 .. Len(b) /\ Len(wire.bytes[d]) + n <= Space(d)
      BY <1>2, FittingType
    <3> QED
      BY <3>1
  <2> HIDE DEF n
  <2>2. wire.bytes[d] \in Bytes /\ SubSeq(b, 1, n) \in Bytes /\ Len(SubSeq(b, 1, n)) = n
    BY <2>1, BytesCut DEF WireOK, WireType
  <2>3. new \in Bytes /\ Len(new) <= Space(d)
    BY <2>1, <2>2, BytesJoined
  <2>4. Sent(d, b) = [wire EXCEPT !.bytes[d] = new]
    BY <1>2 DEF Sent, n
  <2> HIDE DEF new
  <2>5. Sent(d, b) \in WireType
    BY <2>3, <2>4 DEF WireOK, WireType
  <2>6. Sent(d, b).bytes = [wire.bytes EXCEPT ![d] = new]
    BY <2>4 DEF WireOK, WireType
  <2>7. \A x \in Directions : Len(Sent(d, b).bytes[x]) <= Space(x)
    BY <2>3, <2>6 DEF WireOK, WireType
  <2> QED
    BY <2>5, <2>7 DEF WireOK
<1> QED
  BY <1>1, <1>2

\* ... as a read does, which returns bytes, ...
LEMMA TakenType ==
  ASSUME WireOK(wire), NEW d \in Directions, NEW n \in Readable(d)
  PROVE  WireOK(Taken(d, n)) /\ Arrived(d, n) \in Bytes
<1> DEFINE new == Rest(wire.bytes[d], n)
<1>1. wire.bytes[d] \in Bytes
  BY DEF WireOK, WireType
<1>2. Len(wire.bytes[d]) \in Nat
  BY <1>1 DEF Bytes
<1>3. n \in 0 .. Len(wire.bytes[d])
  BY <1>2 DEF Readable
<1>4. new \in Bytes /\ Len(new) = Len(wire.bytes[d]) - n /\ Arrived(d, n) \in Bytes
  BY <1>1, <1>3, BytesCut DEF Arrived
<1>5. Taken(d, n) = [wire EXCEPT !.bytes[d] = new]
  BY DEF Taken
<1>6. Len(new) <= Space(d)
  <2>1. Len(wire.bytes[d]) <= Space(d) /\ Space(d) \in Nat
    BY SpaceType DEF WireOK
  <2> QED
    BY <1>2, <1>3, <1>4, <2>1
<1> HIDE DEF new
<1>7. Taken(d, n) \in WireType
  BY <1>4, <1>5 DEF WireOK, WireType
<1>8. Taken(d, n).bytes = [wire.bytes EXCEPT ![d] = new]
  BY <1>5 DEF WireOK, WireType
<1>9. \A x \in Directions : Len(Taken(d, n).bytes[x]) <= Space(x)
  BY <1>6, <1>8 DEF WireOK, WireType
<1> QED
  BY <1>4, <1>7, <1>9 DEF WireOK

\* ... and an end that closes.
LEMMA ClosedType ==
  ASSUME WireOK(wire), NEW in \in Directions, NEW out \in Directions
  PROVE  WireOK(Closed(in, out))
<1> DEFINE a == [wire EXCEPT !.ended = @ \cup {out}]
           b == [a EXCEPT !.deaf = @ \cup {in}]
           c == [b EXCEPT !.bytes[in] = <<>>]
           r == wire.reset \/ wire.bytes[in] # <<>>
           e == [c EXCEPT !.reset = r]
<1>1. a \in WireType /\ a.bytes = wire.bytes /\ a.deaf = wire.deaf /\ a.reset = wire.reset
  BY DEF WireOK, WireType
<1> HIDE DEF a
<1>2. b \in WireType /\ b.bytes = wire.bytes /\ b.reset = wire.reset
  BY <1>1 DEF WireType
<1> HIDE DEF b
<1>3. <<>> \in Bytes /\ Len(<<>>) = 0 /\ r \in BOOLEAN
  BY DEF Bytes
<1>4. c \in WireType /\ c.bytes = [wire.bytes EXCEPT ![in] = <<>>] /\ c.reset = wire.reset
  BY <1>2, <1>3 DEF WireType
<1> HIDE DEF c, r
<1>5. e \in WireType /\ e.bytes = [wire.bytes EXCEPT ![in] = <<>>]
  BY <1>3, <1>4 DEF WireType
<1>6. e = Closed(in, out)
  BY <1>1, <1>4 DEF Closed, a, b, c, r
<1> HIDE DEF e
<1>7. \A x \in Directions : Len(e.bytes[x]) <= Space(x)
  BY <1>3, <1>5, SpaceType DEF WireOK, WireType
<1> QED
  BY <1>5, <1>6, <1>7 DEF WireOK

\* What is written so far of a whole is a prefix of it.
LEMMA JoinedPrefix ==
  ASSUME NEW a \in Bytes, NEW b \in Bytes
  PROVE  IsPrefix(a, a \o b)
<1>1. a \in Seq(Tokens) /\ b \in Seq(Tokens) /\ Len(a) \in Nat /\ Len(b) \in Nat
  BY DEF Bytes
<1>2. Len(a \o b) = Len(a) + Len(b)
  BY BytesJoined
<1>3. SubSeq(a, 1, Len(a)) = a
  BY <1>1, SubSeqFull
<1>4. SubSeq(a \o b, 1, Len(a)) = a
  <2>1. CASE Len(a) = 0
    <3>1. SubSeq(a \o b, 1, Len(a)) = <<>> /\ a = <<>>
      BY <1>1, <2>1, SubSeqEmpty
    <3> QED
      BY <3>1
  <2>2. CASE Len(a) # 0
    <3>1. 1 \in 1 .. Len(a) /\ Len(a) \in 1 .. Len(a)
      BY <1>1, <2>2
    <3>2. SubSeq(a \o b, 1, Len(a)) = SubSeq(a, 1, Len(a))
      BY <1>1, <3>1, SubSeqOfConcat1
    <3> QED
      BY <1>3, <3>2
  <2> QED
    BY <2>1, <2>2
<1> QED
  BY <1>1, <1>2, <1>3, <1>4 DEF IsPrefix

\* What remains behind the first part of two.
LEMMA RestOfJoined ==
  ASSUME NEW a \in Bytes, NEW b \in Bytes
  PROVE  Rest(a \o b, Len(a)) = b
<1> DEFINE c == a \o b
<1>1. /\ c \in Bytes /\ Len(c) = Len(a) + Len(b) /\ Len(a) \in Nat /\ Len(b) \in Nat
      /\ Len(a) \in 0 .. Len(c)
  <2>1. c \in Bytes /\ Len(c) = Len(a) + Len(b)
    BY BytesJoined
  <2> HIDE DEF c
  <2> QED
    BY <2>1 DEF Bytes
<1>2. SubSeq(c, 1, Len(a)) \o Rest(c, Len(a)) = c /\ Rest(c, Len(a)) \in Bytes
  BY <1>1, BytesCut
<1>3. SubSeq(c, 1, Len(a)) = a
  <2>1. SubSeq(a, 1, Len(a)) = a
    BY SubSeqFull DEF Bytes
  <2> QED
    BY <2>1, JoinedPrefix DEF IsPrefix
<1>4. a \o Rest(c, Len(a)) = a \o b
  BY <1>2, <1>3
<1> QED
  BY <1>2, <1>4, ConcatSimplifications DEF Bytes

-----------------------------------------------------------------------------
(* HTTP/1.1: every step of the server's session, ...                       *)

\* A step that composes and writes nothing.
LEMMA QuietServer1 ==
  ASSUME Writing1, h1' \in Server1Type, Same1(h1', h1),
         h1.pc \in {"new", "consume", "handle", "read"}
           \/ h1'.pc \in {"close", "return", "left"}
           \/ (h1.pc = "write" /\ h1'.pc = "write"),
         h1'.pc \in {"new", "consume", "handle", "read"} => h1.pc # "write",
         h1'.pc # "write" \/ h1.pc = "write",
         h1.pc \in {"close", "return", "left"} => h1'.pc \in {"close", "return", "left"}
  PROVE  Writing1'
<1>1. /\ h1'.written = h1.written /\ Responses1(h1'.made) = Responses1(h1.made)
      /\ h1'.head = h1.head /\ h1'.rest = h1.rest
  BY DEF Same1
<1>2. h1'.pc \in {"new", "consume", "handle", "read"}
        => h1.pc \in {"new", "consume", "handle", "read"}
  OBVIOUS
<1> QED
  BY <1>1, <1>2 DEF Writing1

\* run() gets what the protocol was told from.
LEMMA Started1Keeps ==
  ASSUME h1 \in Server1Type, Writing1, NEW initial \in Bytes, h1.pc = "new",
         h1' = Started1(initial)
  PROVE  h1' \in Server1Type /\ Writing1'
<1> DEFINE s == ProcessReceivedData(h1, initial)
           place == IF s.at = "error" THEN "return" ELSE "consume"
<1>1. s \in Server1Type /\ Same1(s, h1)
  BY ProcessReceivedDataType
<1>2. h1' = [s EXCEPT !.pc = place] /\ place \in {"return", "consume"}
  BY DEF Started1
<1> HIDE DEF s, place
<1>3. h1' \in Server1Type /\ h1'.pc = place
  BY <1>1, <1>2 DEF Server1Type
<1>4. Same1(h1', s)
  BY <1>1, <1>2 DEF Server1Type, Same1
<1>5. Same1(h1', h1)
  BY <1>1, <1>4 DEF Same1
<1> QED
  BY <1>2, <1>3, <1>5, QuietServer1

\* The bytes of a read go to the parser, not to the responses.
LEMMA Read1Keeps ==
  ASSUME h1 \in Server1Type, Writing1, WireOK(wire), Read1
  PROVE  h1' \in Server1Type /\ Writing1' /\ WireOK(wire')
<1>1. PICK n \in Readable("up") :
        /\ h1.pc = "read" /\ wire' = Taken("up", n)
        /\ h1' = LET s == ProcessReceivedData(h1, Arrived("up", n))
                 IN  [s EXCEPT !.pc = IF s.at = "error" THEN "close" ELSE "consume"]
  BY DEF Read1
<1>2. WireOK(wire') /\ Arrived("up", n) \in Bytes
  BY <1>1, TakenType DEF Directions
<1> DEFINE s == ProcessReceivedData(h1, Arrived("up", n))
           place == IF s.at = "error" THEN "close" ELSE "consume"
<1>3. s \in Server1Type /\ Same1(s, h1)
  BY <1>2, ProcessReceivedDataType
<1>4. h1' = [s EXCEPT !.pc = place] /\ place \in {"close", "consume"}
  BY <1>1
<1> HIDE DEF s, place
<1>5. h1' \in Server1Type /\ h1'.pc = place
  BY <1>3, <1>4 DEF Server1Type
<1>6. Same1(h1', s)
  BY <1>3, <1>4 DEF Server1Type, Same1
<1>7. Same1(h1', h1)
  BY <1>3, <1>6 DEF Same1
<1> QED
  BY <1>1, <1>2, <1>4, <1>5, <1>7, QuietServer1

\* A response is composed, ...
LEMMA Respond1Keeps ==
  ASSUME h1 \in Server1Type, Writing1, NEW body \in BOOLEAN, Respond1(body)
  PROVE  h1' \in Server1Type /\ Writing1'
<1> DEFINE m == h1.current
           head == <<<<m, "status">>>> \o Headers(m) \o SubSeq(Block(m, body), 1, 1)
           rest == IF body THEN Body(m) ELSE <<>>
           made == Append(h1.made, <<m, body>>)
<1>1. h1.pc = "handle" /\ m \in Nat /\ h1.made \in Seq(Nat \X BOOLEAN) /\ h1.written \in Bytes
  BY DEF Respond1, Server1Type
<1>2. head \in Bytes /\ rest \in Bytes /\ head \o rest = Bytes1(m, body)
  BY <1>1, HeadAndRest
<1>3. made \in Seq(Nat \X BOOLEAN)
  BY <1>1
<1>4. Responses1(h1.made) \in Bytes /\ Responses1(made) = Responses1(h1.made) \o Bytes1(m, body)
  BY <1>1, ResponsesAppend
<1>5. h1' = [h1 EXCEPT !.pc = "write", !.made = made, !.head = head, !.rest = rest]
  BY DEF Respond1
<1> HIDE DEF m, head, rest, made
<1>6. /\ h1' \in Server1Type /\ h1'.pc = "write" /\ h1'.made = made
      /\ h1'.head = head /\ h1'.rest = rest /\ h1'.written = h1.written
  BY <1>2, <1>3, <1>5 DEF Server1Type
<1>7. h1.written = Responses1(h1.made) /\ Bytes1(m, body) \in Bytes
  BY <1>1, ResponseBytes DEF Writing1
<1>8. IsPrefix(h1.written, Responses1(made))
  BY <1>1, <1>4, <1>7, JoinedPrefix
<1> QED
  BY <1>2, <1>4, <1>6, <1>7, <1>8 DEF Writing1

\* What remains of two pieces, the first served first.
LEMMA RestOfBoth ==
  ASSUME NEW x \in Bytes, NEW y \in Bytes, NEW n \in 0 .. Len(x \o y)
  PROVE  /\ n < Len(x) => Rest(x, n) \in Bytes /\ Rest(x, n) \o y = Rest(x \o y, n)
         /\ ~(n < Len(x)) => /\ Rest(y, n - Len(x)) \in Bytes
                             /\ <<>> \o Rest(y, n - Len(x)) = Rest(x \o y, n)
<1>1. /\ Len(x) \in Nat /\ Len(y) \in Nat /\ Len(x \o y) = Len(x) + Len(y) /\ n \in Nat
      /\ n <= Len(x) + Len(y)
  <2>1. Len(x) \in Nat /\ Len(y) \in Nat
    BY DEF Bytes
  <2>2. Len(x \o y) = Len(x) + Len(y)
    BY BytesJoined
  <2> QED
    BY <2>1, <2>2
<1>2. ASSUME n < Len(x) PROVE Rest(x, n) \in Bytes /\ Rest(x, n) \o y = Rest(x \o y, n)
  <2> DEFINE a == SubSeq(x, 1, n)
             b == Rest(x, n)
  <2>1. n \in 0 .. Len(x)
    BY <1>1, <1>2
  <2>2. a \in Bytes /\ Len(a) = n /\ b \in Bytes /\ a \o b = x
    BY <2>1, BytesCut
  <2> HIDE DEF a, b
  <2>3. (a \o b) \o y = a \o (b \o y)
    <3>1. Associated(a, b, y)
      BY <2>2, BytesAssociative
    <3> QED
      BY <2>2, <3>1 DEF Associated
  <2>4. b \o y \in Bytes
    BY <2>2, BytesJoined
  <2>5. Rest(a \o (b \o y), n) = b \o y
    BY <2>2, <2>4, RestOfJoined
  <2>6. x \o y = a \o (b \o y)
    BY <2>2, <2>3
  <2> QED
    BY <2>2, <2>5, <2>6 DEF b
<1>3. ASSUME ~(n < Len(x))
      PROVE  /\ Rest(y, n - Len(x)) \in Bytes
             /\ <<>> \o Rest(y, n - Len(x)) = Rest(x \o y, n)
  <2> DEFINE k == n - Len(x)
             a == SubSeq(y, 1, k)
             b == Rest(y, k)
  <2>1. k \in 0 .. Len(y) /\ n = Len(x) + k
    BY <1>1, <1>3
  <2> HIDE DEF k
  <2>2. a \in Bytes /\ Len(a) = k /\ b \in Bytes /\ a \o b = y
    BY <2>1, BytesCut
  <2> HIDE DEF a, b
  <2>3. (x \o a) \o b = x \o (a \o b)
    <3>1. Associated(x, a, b)
      BY <2>2, BytesAssociative
    <3> QED
      BY <2>2, <3>1 DEF Associated
  <2>4. x \o a \in Bytes /\ Len(x \o a) = n
    BY <2>1, <2>2, BytesJoined
  <2>5. Rest((x \o a) \o b, n) = b
    BY <2>2, <2>4, RestOfJoined
  <2>6. x \o y = (x \o a) \o b
    BY <2>2, <2>3
  <2>7. <<>> \o b = b
    BY <2>2, ConcatEmptySeq DEF Bytes
  <2> QED
    BY <2>2, <2>5, <2>6, <2>7 DEF b, k
<1> QED
  BY <1>2, <1>3

\* ... written as far as it fits, ...
LEMMA AdvanceRest ==
  ASSUME h1 \in Server1Type, NEW n \in 0 .. Len(h1.head \o h1.rest)
  PROVE  /\ Advance(n) \in Server1Type
         /\ Advance(n).head \o Advance(n).rest = Rest(h1.head \o h1.rest, n)
         /\ Advance(n).made = h1.made /\ Advance(n).written = h1.written
         /\ Advance(n).pc = h1.pc
<1> DEFINE b == Rest(h1.head, n)
           r == Rest(h1.rest, n - Len(h1.head))
<1>1. h1.head \in Bytes /\ h1.rest \in Bytes /\ <<>> \in Bytes
  BY DEF Server1Type, Bytes
<1>2. /\ n < Len(h1.head) => b \in Bytes /\ b \o h1.rest = Rest(h1.head \o h1.rest, n)
      /\ ~(n < Len(h1.head)) => r \in Bytes /\ <<>> \o r = Rest(h1.head \o h1.rest, n)
  BY <1>1, RestOfBoth
<1>3. Advance(n) = IF n < Len(h1.head) THEN [h1 EXCEPT !.head = b]
                   ELSE [h1 EXCEPT !.head = <<>>, !.rest = r]
  BY DEF Advance
<1> HIDE DEF b, r
<1>4. CASE n < Len(h1.head)
  <2>1. Advance(n) = [h1 EXCEPT !.head = b] /\ b \in Bytes
    BY <1>2, <1>3, <1>4
  <2>2. /\ Advance(n) \in Server1Type /\ Advance(n).head = b /\ Advance(n).rest = h1.rest
        /\ Advance(n).made = h1.made /\ Advance(n).written = h1.written
        /\ Advance(n).pc = h1.pc
    BY <2>1 DEF Server1Type
  <2> QED
    BY <1>2, <1>4, <2>2
<1>5. CASE ~(n < Len(h1.head))
  <2>1. Advance(n) = [h1 EXCEPT !.head = <<>>, !.rest = r] /\ r \in Bytes
    BY <1>2, <1>3, <1>5
  <2>2. /\ Advance(n) \in Server1Type /\ Advance(n).head = <<>> /\ Advance(n).rest = r
        /\ Advance(n).made = h1.made /\ Advance(n).written = h1.written
        /\ Advance(n).pc = h1.pc
    BY <1>1, <2>1, ZenonT(40) DEF Server1Type
  <2> QED
    BY <1>2, <1>5, <2>2
<1> QED
  BY <1>4, <1>5

\* What a write puts on the wire goes from what is still to be written to what
\* is, so that the two together stay the responses made.
LEMMA WriteResponseKeeps ==
  ASSUME h1 \in Server1Type, Writing1, WireOK(wire), WriteResponse
  PROVE  h1' \in Server1Type /\ Writing1' /\ WireOK(wire')
<1> DEFINE bytes == h1.head \o h1.rest
           n == Fitting("down", bytes)
           a == SubSeq(bytes, 1, n)
           r == Responses1(h1.made)
<1>1. /\ h1.pc = "write" /\ CanSend("down", bytes) /\ wire' = Sent("down", bytes)
      /\ h1' = [Advance(n) EXCEPT !.written = @ \o a]
  BY DEF WriteResponse
<1>2. bytes \in Bytes /\ h1.written \in Bytes
  BY BytesJoined DEF Server1Type
<1> HIDE DEF bytes
<1>3. n \in 1 .. Len(bytes) /\ WireOK(wire')
  BY <1>1, <1>2, FittingType, SentType DEF Directions
<1>4. n \in 0 .. Len(bytes)
  BY <1>3
<1> HIDE DEF n
<1>5. a \in Bytes /\ Rest(bytes, n) \in Bytes /\ a \o Rest(bytes, n) = bytes
  BY <1>2, <1>4, BytesCut
<1> DEFINE v == Advance(n)
<1>6. /\ v \in Server1Type /\ v.head \o v.rest = Rest(bytes, n)
      /\ v.made = h1.made /\ v.written = h1.written /\ v.pc = "write"
  BY <1>1, <1>4, AdvanceRest DEF bytes
<1>7. h1.written \o a \in Bytes
  BY <1>2, <1>5, BytesJoined
<1> HIDE DEF a, v
<1>8. /\ h1' \in Server1Type /\ h1'.head = v.head /\ h1'.rest = v.rest /\ h1'.made = h1.made
      /\ h1'.written = h1.written \o a /\ h1'.pc = "write"
  BY <1>1, <1>6, <1>7 DEF Server1Type, v
<1>9. h1.written \o bytes = r
  BY <1>1 DEF Writing1, bytes
<1>10. (h1.written \o a) \o Rest(bytes, n) = r
  <2>1. (h1.written \o a) \o Rest(bytes, n) = h1.written \o (a \o Rest(bytes, n))
    <3>1. Associated(h1.written, a, Rest(bytes, n))
      BY <1>2, <1>5, BytesAssociative
    <3> QED
      BY <1>2, <1>5, <3>1 DEF Associated
  <2> QED
    BY <1>5, <1>9, <2>1
<1>11. IsPrefix(h1.written \o a, r)
  BY <1>5, <1>7, <1>10, JoinedPrefix
<1> QED
  BY <1>3, <1>6, <1>8, <1>10, <1>11 DEF Writing1

\* ... and, when it has all been written, done with.
LEMMA Responded1Keeps ==
  ASSUME h1 \in Server1Type, Writing1, Responded1
  PROVE  h1' \in Server1Type /\ Writing1'
<1>1. /\ h1.pc = "write" /\ h1.head \o h1.rest = <<>>
      /\ h1' = [h1 EXCEPT !.keepAlive = h1.keep, !.pc = "consume"]
  BY DEF Responded1
<1>2. /\ h1' \in Server1Type /\ h1'.written = h1.written /\ h1'.made = h1.made
      /\ h1'.pc = "consume"
  BY <1>1 DEF Server1Type
<1>3. h1.written \o <<>> = h1.written
  BY ConcatEmptySeq DEF Server1Type, Bytes
<1> QED
  BY <1>1, <1>2, <1>3 DEF Writing1

\* Every step of the session.
LEMMA Server1Keeps ==
  ASSUME h1 \in Server1Type, Writing1, WireOK(wire), Server1
  PROVE  /\ h1' \in Server1Type /\ Writing1' /\ WireOK(wire')
         /\ c1' = c1 /\ requests' = requests
<1>10. c1' = c1 /\ requests' = requests
  BY DEF Server1, TakeRequest1, ConsumedAll1, WriteResponse, Responded1, WriteFails1,
         Read1, ReadEnd1, ReadFails1, Leave1
<1> SUFFICES h1' \in Server1Type /\ Writing1' /\ WireOK(wire')
  BY <1>10
<1>1. CASE TakeRequest1
  <2>1. /\ Head(h1.pending) \in Message /\ Tail(h1.pending) \in Seq(Message)
    BY <1>1, HeadTailProperties DEF TakeRequest1, Server1Type
  <2>2. h1' \in Server1Type /\ Same1(h1', h1) /\ h1'.pc = "handle" /\ h1.pc = "consume"
    BY <1>1, <2>1 DEF TakeRequest1, Server1Type, Same1, Message
  <2> QED
    BY <1>1, <2>2, QuietServer1 DEF TakeRequest1
<1>2. CASE ConsumedAll1
  <2>1. /\ h1' \in Server1Type /\ Same1(h1', h1) /\ h1.pc = "consume"
        /\ h1'.pc \in {"read", "return", "close"}
    BY <1>2, ZenonT(40) DEF ConsumedAll1, Server1Type, Same1
  <2> QED
    BY <1>2, <2>1, QuietServer1 DEF ConsumedAll1
<1>3. CASE WriteResponse
  BY <1>3, WriteResponseKeeps
<1>4. CASE Responded1
  BY <1>4, Responded1Keeps DEF Responded1
<1>5. CASE WriteFails1
  <2>1. /\ h1' \in Server1Type /\ Same1(h1', h1) /\ h1'.pc \in {"return", "close"}
    BY <1>5 DEF WriteFails1, Server1Type, Same1
  <2> QED
    BY <1>5, <2>1, QuietServer1 DEF WriteFails1
<1>6. CASE Read1
  BY <1>6, Read1Keeps
<1>7. CASE ReadEnd1
  <2>1. h1' \in Server1Type /\ Same1(h1', h1) /\ h1.pc = "read" /\ h1'.pc = "consume"
    BY <1>7 DEF ReadEnd1, Server1Type, Same1
  <2> QED
    BY <1>7, <2>1, QuietServer1 DEF ReadEnd1
<1>8. CASE ReadFails1
  <2>1. h1' \in Server1Type /\ Same1(h1', h1) /\ h1.pc = "read" /\ h1'.pc = "close"
    BY <1>8 DEF ReadFails1, Server1Type, Same1
  <2> QED
    BY <1>8, <2>1, QuietServer1 DEF ReadFails1
<1>9. CASE Leave1
  <2>1. h1' \in Server1Type /\ Same1(h1', h1) /\ h1'.pc = "left"
    BY <1>9 DEF Leave1, Server1Type, Same1
  <2>2. WireOK(wire')
    BY <1>9, ClosedType DEF Leave1, Directions
  <2>3. Writing1'
    BY <2>1, QuietServer1
  <2> QED
    BY <2>1, <2>2, <2>3
<1> QED
  BY <1>1, <1>2, <1>3, <1>4, <1>5, <1>6, <1>7, <1>8, <1>9 DEF Server1

-----------------------------------------------------------------------------
(* HTTP/2: the frames of each stream, counted.                             *)

\* One more frame changes no earlier count, ...
LEMMA OnStreamBefore ==
  ASSUME NEW frames \in Bytes, NEW t \in Tokens, NEW stream, NEW i \in 1 .. Len(frames)
  PROVE  OnStream(Append(frames, t), stream, i) = OnStream(frames, stream, i)
<1>1. \A j \in 1 .. i : Append(frames, t)[j] = frames[j]
  BY DEF Bytes
<1> QED
  BY <1>1 DEF OnStream

\* ... and counts for its own stream.
LEMMA OnStreamGrows ==
  ASSUME NEW frames \in Bytes, NEW t \in Tokens, NEW stream
  PROVE  LET more == Append(frames, t)
             n == Len(frames)
         IN  /\ OnStream(frames, stream, n) \in Nat
             /\ OnStream(more, stream, n + 1)
                  = OnStream(frames, stream, n) + (IF t[1] = stream THEN 1 ELSE 0)
<1> DEFINE more == Append(frames, t)
           n == Len(frames)
           Its(f, i) == {j \in 1 .. i : f[j][1] = stream}
<1>1. /\ n \in Nat /\ more[n + 1] = t /\ \A j \in 1 .. n : more[j] = frames[j]
  BY DEF Bytes
<1> HIDE DEF more, n
<1>3. IsFiniteSet(Its(frames, n)) /\ n + 1 \notin Its(frames, n)
  <2>1. IsFiniteSet(1 .. n)
    BY <1>1, FS_Interval
  <2>2. Its(frames, n) \in SUBSET (1 .. n)
    OBVIOUS
  <2>3. n + 1 \notin 1 .. n
    BY <1>1
  <2> QED
    BY <2>1, <2>2, <2>3, FS_Subset
<1>4. 1 .. n + 1 = (1 .. n) \cup {n + 1}
  BY <1>1
<1>5. Its(more, n + 1) = IF t[1] = stream THEN Its(frames, n) \cup {n + 1} ELSE Its(frames, n)
  BY <1>1, <1>4
<1> HIDE DEF Its
<1>6. Cardinality(Its(frames, n)) \in Nat
  BY <1>3, FS_CardinalityType
<1>7. Cardinality(Its(more, n + 1))
        = Cardinality(Its(frames, n)) + (IF t[1] = stream THEN 1 ELSE 0)
  <2> DEFINE S == Its(frames, n)
             x == n + 1
  <2> HIDE DEF S, x
  <2>1. IsFiniteSet(S) /\ x \notin S
    BY <1>3 DEF S, x
  <2>2. Cardinality(S \cup {x}) = Cardinality(S) + 1
    BY <2>1, FS_AddElement
  <2> QED
    BY <1>5, <1>6, <2>2 DEF S, x
<1> QED
  BY <1>6, <1>7 DEF OnStream, Its, more, n

\* No frame of a stream: none counted.
LEMMA NoneOnStream ==
  ASSUME NEW frames \in Bytes, NEW stream, \A i \in DOMAIN frames : frames[i][1] # stream
  PROVE  OnStream(frames, stream, Len(frames)) = 0
<1>1. DOMAIN frames = 1 .. Len(frames)
  BY DEF Bytes
<1>2. {j \in 1 .. Len(frames) : frames[j][1] = stream} = {}
  BY <1>1
<1> QED
  BY <1>2, FS_EmptySet DEF OnStream

\* The frames of a response are its streams', and it has as many.
LEMMA FramesOf ==
  ASSUME NEW stream
  PROVE  /\ Len(Frames2(stream, TRUE)) = 3 /\ Len(Frames2(stream, FALSE)) = 1
         /\ Frames2(stream, TRUE)[1] = <<stream, "HEADERS">>
         /\ Frames2(stream, TRUE)[2] = <<stream, "DATA">>
         /\ Frames2(stream, TRUE)[3] = <<stream, "DATA!">>
         /\ Frames2(stream, FALSE)[1] = <<stream, "HEADERS!">>
  BY DEF Frames2

\* A response more leaves the frames and the entries following theirs.
LEMMA FollowMore ==
  ASSUME NEW made \in Seq(Nat \X BOOLEAN), NEW r \in Nat \X BOOLEAN, NEW frames
  PROVE  /\ FramesFollow(frames, made) => FramesFollow(frames, Append(made, r))
         /\ \A e : Entry(e, frames, made) => Entry(e, frames, Append(made, r))
<1> DEFINE more == Append(made, r)
<1>1. \A k \in DOMAIN made : k \in DOMAIN more /\ more[k] = made[k]
  OBVIOUS
<1> HIDE DEF more
<1>2. FramesFollow(frames, made) => FramesFollow(frames, more)
  BY <1>1, ZenonT(40) DEF FramesFollow
<1>3. \A e : Entry(e, frames, made) => Entry(e, frames, more)
  BY <1>1 DEF Entry
<1> QED
  BY <1>2, <1>3 DEF more

\* A frame more that is the next one of its stream.
NextFrame(t, frames, made) ==
  t[1] # 0 => \E k \in DOMAIN made :
    LET n == OnStream(frames, t[1], Len(frames)) + 1
    IN  /\ made[k][1] = t[1]
        /\ n <= Len(Frames2(t[1], made[k][2]))
        /\ t = Frames2(t[1], made[k][2])[n]

\* The next frame of a response follows those given.
LEMMA FramesFollowMore ==
  ASSUME NEW frames \in Bytes, NEW made, NEW t \in Tokens, FramesFollow(frames, made),
         NextFrame(t, frames, made)
  PROVE  FramesFollow(Append(frames, t), made)
<1> DEFINE more == Append(frames, t)
           n == Len(frames)
<1>1. /\ n \in Nat /\ more[n + 1] = t /\ \A j \in 1 .. n : more[j] = frames[j]
      /\ DOMAIN more = 1 .. n + 1 /\ DOMAIN frames = 1 .. n
  BY DEF Bytes
<1>2. OnStream(more, t[1], n + 1) = OnStream(frames, t[1], n) + 1
  BY OnStreamGrows
<1>3. ASSUME NEW stream, NEW i \in 1 .. n
      PROVE  OnStream(more, stream, i) = OnStream(frames, stream, i)
  BY OnStreamBefore
<1> DEFINE Right(f, i) ==
             f[i][1] # 0 => \E k \in DOMAIN made :
               /\ made[k][1] = f[i][1]
               /\ OnStream(f, f[i][1], i) <= Len(Frames2(f[i][1], made[k][2]))
               /\ f[i] = Frames2(f[i][1], made[k][2])[OnStream(f, f[i][1], i)]
<1> HIDE DEF more, n
<1>4. \A i \in 1 .. n : Right(frames, i)
  BY <1>1 DEF FramesFollow
<1>5. Right(more, n + 1)
  BY <1>1, <1>2 DEF n, NextFrame
<1>6. \A i \in 1 .. n : Right(more, i)
  BY <1>1, <1>3, <1>4
<1>7. \A i \in DOMAIN more : Right(more, i)
  BY <1>1, <1>5, <1>6
<1> QED
  BY <1>7 DEF FramesFollow, more

-----------------------------------------------------------------------------
(* ... and every step of HTTP/2's.                                         *)

\* A step that gives no frame and makes no response.
LEMMA QuietServer2 ==
  ASSUME NEW s, Server2OK(s), NEW r \in Server2Type, TakenOnce(r),
         r.queue = s.queue, r.made = s.made, r.copy = s.copy, r.written = s.written,
         r.pc \notin {"write", "left"} => s.copy = <<>>
  PROVE  Server2OK(r)
  BY DEF Server2OK, Given

\* A place that takes no request.
LEMMA PlaceKeeps ==
  ASSUME NEW s, TakenOnce(s), NEW r, r.requests = s.requests, r.made = s.made,
         r.pending = s.pending, r.pc # "handle"
  PROVE  TakenOnce(r)
  BY DEF TakenOnce, Accepted, IsMade

\* initialize() queues SETTINGS.
LEMMA Initialized2Keeps ==
  ASSUME Server2OK(h2), h2.pc = "new"
  PROVE  Server2OK(Initialized2)
<1> DEFINE e == [stream |-> 0, head |-> Settings, left |-> 0]
           r == Initialized2
<1>1. e \in EntryType /\ EntryOK(e) /\ e.stream = 0
  <2>1. Settings \in Tokens /\ Settings # <<>> /\ Settings[1] = 0
    BY DEF Settings, Tokens, Parts
  <2> QED
    BY <2>1 DEF EntryType, EntryOK
<1> HIDE DEF e
<1>2. <<e>> \in Seq(EntryType) /\ DOMAIN <<e>> = {1} /\ <<e>>[1] = e
  BY <1>1
<1>3. r = [h2 EXCEPT !.pc = "send", !.queue = <<e>>]
  BY DEF Initialized2, e
<1> HIDE DEF r
<1>4. /\ r \in Server2Type /\ r.pc = "send" /\ r.queue = <<e>> /\ r.made = h2.made
      /\ r.copy = h2.copy /\ r.written = h2.written /\ r.requests = h2.requests
      /\ r.pending = h2.pending
  BY <1>2, <1>3 DEF Server2OK, Server2Type
<1>5. TakenOnce(r)
  BY <1>4, PlaceKeeps DEF Server2OK
<1>6. QueueFollows(r.queue, Given(r), r.made)
  <2> DEFINE q == r.queue
             g == Given(r)
             m == r.made
  <2>1. \A i \in DOMAIN q : q[i].stream = 0
    BY <1>1, <1>2, <1>4
  <2> HIDE DEF q, g, m
  <2>2. QueueFollows(q, g, m)
    BY <2>1 DEF QueueFollows, Entry
  <2> QED
    BY <2>2 DEF q, g, m
<1>7. Given(r) = Given(h2)
  BY <1>4 DEF Given
<1> QED
  BY <1>1, <1>2, <1>4, <1>5, <1>6, <1>7 DEF Server2OK, r

\* run() gets what the protocol was told from.
LEMMA Started2Keeps ==
  ASSUME Server2OK(h2), h2.pc = "initialized", NEW initial \in Bytes
  PROVE  Server2OK(Started2(initial))
<1> DEFINE p == ProcessFrames(h2, initial)
           r == Started2(initial)
<1>1. p \in Server2Type /\ Same2(p, h2) /\ TakenOnce(p)
  BY ProcessFramesType DEF Server2OK
<1>2. r = [p EXCEPT !.pc = "consume", !.phase = "initial"]
  BY DEF Started2
<1> HIDE DEF p, r
<1>3. /\ r \in Server2Type /\ r.pc = "consume" /\ r.requests = p.requests /\ r.made = p.made
      /\ r.pending = p.pending /\ r.queue = p.queue /\ r.copy = p.copy /\ r.written = p.written
  BY <1>1, <1>2 DEF Server2Type
<1>4. TakenOnce(r)
  BY <1>1, <1>3, PlaceKeeps
<1>5. h2.copy = <<>>
  BY DEF Server2OK
<1> QED
  BY <1>1, <1>3, <1>4, <1>5, QuietServer2 DEF Same2, r

\* The frames of a read go to the callbacks, not to the responses'.
LEMMA Read2Keeps ==
  ASSUME Server2OK(h2), WireOK(wire), Read2
  PROVE  Server2OK(h2') /\ WireOK(wire')
<1>1. PICK n \in Readable("up") :
        /\ h2.pc = "read" /\ wire' = Taken("up", n)
        /\ h2' = [ProcessFrames(h2, Arrived("up", n)) EXCEPT !.pc = "consume"]
  BY DEF Read2
<1>2. WireOK(wire') /\ Arrived("up", n) \in Bytes
  BY <1>1, TakenType DEF Directions
<1> DEFINE p == ProcessFrames(h2, Arrived("up", n))
<1>3. p \in Server2Type /\ Same2(p, h2) /\ TakenOnce(p)
  BY <1>2, ProcessFramesType DEF Server2OK
<1>4. h2' = [p EXCEPT !.pc = "consume"]
  BY <1>1
<1> DEFINE r == h2'
<1> HIDE DEF p
<1>5. /\ r \in Server2Type /\ r.pc = "consume" /\ r.requests = p.requests /\ r.made = p.made
      /\ r.pending = p.pending /\ r.queue = p.queue /\ r.copy = p.copy /\ r.written = p.written
  BY <1>3, <1>4 DEF Server2Type
<1> HIDE DEF r
<1>6. TakenOnce(r)
  BY <1>3, <1>5, PlaceKeeps
<1>7. h2.copy = <<>>
  BY <1>1 DEF Server2OK
<1>8. Server2OK(r)
  BY <1>3, <1>5, <1>6, <1>7, QuietServer2 DEF Same2
<1> QED
  BY <1>2, <1>8 DEF r

\* The handler is called with the first request of the queue, ...
LEMMA TakeRequest2Keeps ==
  ASSUME Server2OK(h2), TakeRequest2
  PROVE  Server2OK(h2')
<1> DEFINE r == h2'
           q == h2.pending
           m == Len(q)
<1>1. /\ h2.pc = "consume" /\ q # <<>> /\ q \in Seq(Request2Type) /\ h2.copy = <<>>
      /\ h2 \in Server2Type /\ TakenOnce(h2)
  BY DEF TakeRequest2, Server2OK, Server2Type
<1>2. /\ m \in Nat /\ m # 0 /\ Head(q) = q[1] /\ Tail(q) \in Seq(Request2Type)
      /\ DOMAIN Tail(q) = 1 .. m - 1 /\ DOMAIN q = 1 .. m /\ 1 \in DOMAIN q
      /\ \A i \in 1 .. m - 1 : Tail(q)[i] = q[i + 1] /\ i + 1 \in DOMAIN q
  BY <1>1
<1>3. q[1].stream \in Nat /\ q[1].body \in Bytes
  <2>1. q[1] \in Request2Type
    BY <1>1, <1>2
  <2> QED
    BY <2>1 DEF Request2Type
<1>4. r = [h2 EXCEPT !.pc = "handle", !.pending = Tail(q), !.current = q[1].stream,
                     !.body = q[1].body]
  BY <1>2 DEF TakeRequest2
<1> HIDE DEF r, q, m
<1>5. /\ r \in Server2Type /\ r.pc = "handle" /\ r.pending = Tail(q)
      /\ r.current = q[1].stream /\ r.requests = h2.requests /\ r.made = h2.made
      /\ r.queue = h2.queue /\ r.copy = h2.copy /\ r.written = h2.written
  BY <1>1, <1>2, <1>3, <1>4 DEF Server2Type
<1>6. \A i \in DOMAIN q :
        /\ Accepted(h2, q[i].stream) /\ ~IsMade(h2, q[i].stream)
        /\ \A j \in DOMAIN q : q[i].stream = q[j].stream => i = j
  BY <1>1 DEF TakenOnce, q
<1>7. \A stream : /\ Accepted(r, stream) <=> Accepted(h2, stream)
                  /\ IsMade(r, stream) <=> IsMade(h2, stream)
  BY <1>5 DEF Accepted, IsMade
<1>8. ASSUME NEW i \in DOMAIN r.pending
      PROVE  /\ Accepted(r, r.pending[i].stream) /\ ~IsMade(r, r.pending[i].stream)
             /\ r.pending[i].stream # r.current
             /\ \A j \in DOMAIN r.pending : r.pending[i].stream = r.pending[j].stream => i = j
  <2>1. i \in 1 .. m - 1 /\ i \in Nat /\ i + 1 # 1
    BY <1>2, <1>5
  <2>2. r.pending[i] = q[i + 1] /\ i + 1 \in DOMAIN q
    BY <1>2, <1>5, <2>1
  <2>3. \A j \in DOMAIN r.pending :
          r.pending[j] = q[j + 1] /\ j + 1 \in DOMAIN q /\ (i + 1 = j + 1 => i = j)
    BY <1>2, <1>5, <2>1
  <2>4. r.pending[i].stream # r.current
    BY <1>2, <1>5, <1>6, <2>1, <2>2
  <2> QED
    BY <1>6, <1>7, <2>2, <2>3, <2>4
<1>9. /\ \A i \in DOMAIN r.made : Accepted(r, r.made[i][1])
      /\ Accepted(r, r.current) /\ ~IsMade(r, r.current)
  BY <1>1, <1>2, <1>5, <1>6, <1>7 DEF TakenOnce
<1>10. TakenOnce(r)
  BY <1>8, <1>9 DEF TakenOnce
<1>11. Server2OK(r)
  BY <1>1, <1>5, <1>10, QuietServer2
<1> QED
  BY <1>11 DEF r

\* ... and its response is submitted: no frame of its stream was ever given.
LEMMA Respond2Keeps ==
  ASSUME Server2OK(h2), NEW body \in BOOLEAN, Respond2(body)
  PROVE  Server2OK(h2')
<1> DEFINE r == h2'
           c == h2.current
           e == [stream |-> c, left |-> IF body THEN 2 ELSE 0,
                 head |-> <<c, IF body THEN "HEADERS" ELSE "HEADERS!">>]
           made == Append(h2.made, <<c, body>>)
           queue == Append(h2.queue, e)
           g == Given(h2)
<1>1. /\ h2 \in Server2Type /\ h2.pc = "handle" /\ c \in Nat /\ h2.copy = <<>>
      /\ h2.made \in Seq(Nat \X BOOLEAN) /\ h2.queue \in Seq(EntryType)
      /\ h2.written \in Bytes /\ TakenOnce(h2)
      /\ FramesFollow(g, h2.made) /\ QueueFollows(h2.queue, g, h2.made)
      /\ \A i \in DOMAIN h2.queue : EntryOK(h2.queue[i])
  BY DEF Respond2, Server2OK, Server2Type
<1>2. g \in Bytes
  <2>1. h2.copy \in Bytes
    BY <1>1 DEF Server2Type
  <2> QED
    BY <1>1, <2>1, BytesJoined DEF Given
<1>3. /\ e \in EntryType /\ EntryOK(e) /\ e.stream = c /\ e.head # <<>>
      /\ e.head = <<c, IF body THEN "HEADERS" ELSE "HEADERS!">>
      /\ e.left = (IF body THEN 2 ELSE 0)
  <2> DEFINE h == <<c, IF body THEN "HEADERS" ELSE "HEADERS!">>
             l == IF body THEN 2 ELSE 0
  <2>1. h \in Tokens /\ h # <<>> /\ h[1] = c /\ l \in 0 .. 2
    <3>1. <<c, "HEADERS">> \in Tokens /\ <<c, "HEADERS!">> \in Tokens
      BY <1>1 DEF Tokens, Parts
    <3>2. h \in Tokens
      BY <3>1
    <3> QED
      BY <3>2
  <2> HIDE DEF h, l
  <2>2. e = [stream |-> c, left |-> l, head |-> h]
    BY DEF h, l
  <2> HIDE DEF e, c
  <2>3. e \in EntryType /\ e.stream = c /\ e.head = h /\ e.left = l
    BY <1>1, <2>1, <2>2 DEF EntryType
  <2>4. EntryOK(e)
    BY <2>1, <2>3 DEF EntryOK
  <2> QED
    BY <2>1, <2>3, <2>4 DEF h, l
<1>4. r = [h2 EXCEPT !.pc = "consume", !.made = made, !.queue = queue]
  BY DEF Respond2, SubmitResponse
<1> HIDE DEF r, e, g, c
<1>5. <<c, body>> \in Nat \X BOOLEAN /\ <<c, body>>[1] = c /\ <<c, body>>[2] = body
  BY <1>1
<1>6. /\ made \in Seq(Nat \X BOOLEAN) /\ queue \in Seq(EntryType)
      /\ DOMAIN made = 1 .. Len(h2.made) + 1 /\ made[Len(h2.made) + 1] = <<c, body>>
      /\ DOMAIN h2.made = 1 .. Len(h2.made) /\ Len(h2.made) \in Nat
      /\ \A i \in DOMAIN h2.made : made[i] = h2.made[i]
      /\ DOMAIN queue = 1 .. Len(h2.queue) + 1 /\ queue[Len(h2.queue) + 1] = e
      /\ DOMAIN h2.queue = 1 .. Len(h2.queue) /\ Len(h2.queue) \in Nat
      /\ \A i \in DOMAIN h2.queue : queue[i] = h2.queue[i]
  BY <1>1, <1>3, <1>5
<1>17. /\ \A i \in DOMAIN made : i \in DOMAIN h2.made \/ made[i] = <<c, body>>
       /\ \A i \in DOMAIN queue : i \in DOMAIN h2.queue \/ i = Len(h2.queue) + 1
  <2> DEFINE n == Len(h2.made)
             l == Len(h2.queue)
  <2>1. /\ DOMAIN made = 1 .. n + 1 /\ DOMAIN h2.made = 1 .. n /\ n \in Nat
        /\ made[n + 1] = <<c, body>>
        /\ DOMAIN queue = 1 .. l + 1 /\ DOMAIN h2.queue = 1 .. l /\ l \in Nat
    BY <1>6
  <2> HIDE DEF n, l
  <2>2. \A i \in 1 .. n + 1 : i \in 1 .. n \/ i = n + 1
    BY <2>1
  <2>3. \A i \in 1 .. l + 1 : i \in 1 .. l \/ i = l + 1
    BY <2>1
  <2> QED
    BY <2>1, <2>2, <2>3 DEF l
<1>7. FramesFollow(g, made) /\ \A x : Entry(x, g, h2.made) => Entry(x, g, made)
  BY <1>1, <1>5, FollowMore
<1> HIDE DEF made, queue
<1>8. /\ r \in Server2Type /\ r.pc = "consume" /\ r.made = made /\ r.queue = queue
      /\ r.copy = h2.copy /\ r.written = h2.written /\ r.requests = h2.requests
      /\ r.pending = h2.pending /\ r.current = h2.current
  BY <1>1, <1>4, <1>6 DEF Server2Type
<1>9. Given(r) = g
  BY <1>8 DEF Given, g
<1>10. ~IsMade(h2, c) /\ Accepted(h2, c)
  BY <1>1 DEF TakenOnce, c
<1>11. TakenOnce(r)
  <2>1. \A x : Accepted(r, x) <=> Accepted(h2, x)
    BY <1>8 DEF Accepted
  <2>2. \A i \in DOMAIN r.made : Accepted(r, r.made[i][1])
    <3>1. \A i \in DOMAIN h2.made : Accepted(h2, h2.made[i][1])
      BY <1>1 DEF TakenOnce
    <3> QED
      BY <1>5, <1>6, <1>8, <1>10, <1>17, <2>1, <3>1
  <2>3. \A x : IsMade(r, x) => IsMade(h2, x) \/ x = c
    <3>1. ASSUME NEW i \in DOMAIN made PROVE IsMade(h2, made[i][1]) \/ made[i][1] = c
      BY <1>5, <1>6, <1>17 DEF IsMade
    <3> QED
      BY <1>8, <3>1 DEF IsMade
  <2>4. \A i \in DOMAIN r.pending :
          /\ Accepted(r, r.pending[i].stream) /\ ~IsMade(r, r.pending[i].stream)
          /\ \A j \in DOMAIN r.pending : r.pending[i].stream = r.pending[j].stream => i = j
    BY <1>1, <1>8, <2>1, <2>3 DEF TakenOnce, c
  <2> QED
    BY <1>8, <2>2, <2>4 DEF TakenOnce
<1>12. ASSUME c # 0
       PROVE  /\ OnStream(g, c, Len(g)) = 0
              /\ \A i \in DOMAIN h2.queue : h2.queue[i].stream # c
  <2>1. \A i \in DOMAIN g : g[i][1] # c
    BY <1>1, <1>10, <1>12 DEF FramesFollow, IsMade
  <2>2. \A i \in DOMAIN h2.queue : h2.queue[i].stream # c
    BY <1>1, <1>10, <1>12 DEF QueueFollows, Entry, IsMade
  <2> QED
    BY <1>2, <2>1, <2>2, NoneOnStream
<1>13. Entry(e, g, made)
  <2>1. Len(h2.made) + 1 \in DOMAIN made
    BY <1>6
  <2>2. CASE body
    BY <1>3, <1>5, <1>6, <1>12, <2>1, <2>2 DEF Entry
  <2>3. CASE ~body
    BY <1>3, <1>5, <1>6, <1>12, <2>1, <2>3 DEF Entry
  <2> QED
    BY <2>2, <2>3
<1>14. QueueFollows(queue, g, made)
  <2>1. ASSUME NEW i \in DOMAIN queue PROVE Entry(queue[i], g, made)
    <3>1. CASE i \in DOMAIN h2.queue
      BY <1>1, <1>6, <1>7, <3>1 DEF QueueFollows
    <3>2. CASE i = Len(h2.queue) + 1
      BY <1>6, <1>13, <3>2
    <3> QED
      BY <1>6, <3>1, <3>2
  <2>2. ASSUME NEW i \in DOMAIN queue, NEW j \in DOMAIN queue,
               queue[i].stream # 0, queue[i].stream = queue[j].stream
        PROVE  i = j
    <3>1. CASE i \in DOMAIN h2.queue /\ j \in DOMAIN h2.queue
      BY <1>1, <1>6, <2>2, <3>1 DEF QueueFollows
    <3>2. CASE i = Len(h2.queue) + 1 /\ j \in DOMAIN h2.queue
      BY <1>3, <1>6, <1>12, <2>2, <3>2
    <3>3. CASE j = Len(h2.queue) + 1 /\ i \in DOMAIN h2.queue
      BY <1>3, <1>6, <1>12, <2>2, <3>3
    <3> QED
      BY <1>17, <3>1, <3>2, <3>3
  <2> QED
    BY <2>1, <2>2 DEF QueueFollows
<1>15. ASSUME NEW i \in DOMAIN queue PROVE EntryOK(queue[i])
  <2>1. CASE i \in DOMAIN h2.queue
    BY <1>1, <1>6, <2>1
  <2>2. CASE i = Len(h2.queue) + 1
    BY <1>3, <1>6, <2>2
  <2> QED
    BY <1>17, <2>1, <2>2
<1>16. Server2OK(r)
  BY <1>1, <1>7, <1>8, <1>9, <1>11, <1>14, <1>15 DEF Server2OK
<1> QED
  BY <1>16 DEF r

\* A queue without one of its entries, ...
LEMMA EntryRemoved ==
  ASSUME NEW q \in Seq(EntryType), NEW i \in 1 .. Len(q)
  PROVE  /\ RemoveAt(q, i) \in Seq(EntryType)
         /\ \A a \in DOMAIN RemoveAt(q, i) :
              \E b \in DOMAIN q : /\ b # i /\ RemoveAt(q, i)[a] = q[b]
                                  /\ b = IF a < i THEN a ELSE a + 1
<1> DEFINE s == SubSeq(q, 1, i - 1)
           t == SubSeq(q, i + 1, Len(q))
<1>1. /\ Len(q) \in Nat /\ i \in Nat /\ i # 0 /\ i <= Len(q) /\ DOMAIN q = 1 .. Len(q)
  OBVIOUS
<1>2. /\ s \in Seq(EntryType) /\ Len(s) = i - 1 /\ \A a \in 1 .. i - 1 : s[a] = q[a]
  BY <1>1, SubSeqType
<1>3. /\ t \in Seq(EntryType) /\ Len(t) = Len(q) - i
      /\ \A a \in 1 .. Len(q) - i : t[a] = q[i + a]
  <2>1. t \in Seq(EntryType)
    OBVIOUS
  <2>2. Len(t) = Len(q) - i
    OBVIOUS
  <2>3. \A a \in 1 .. Len(q) - i : t[a] = q[i + a]
    OBVIOUS
  <2> QED
    BY <2>1, <2>2, <2>3
<1> HIDE DEF s, t
<1>4. /\ s \o t \in Seq(EntryType) /\ Len(s \o t) = Len(q) - 1
      /\ \A a \in 1 .. Len(q) - 1 : (s \o t)[a] = IF a <= i - 1 THEN s[a] ELSE t[a - (i - 1)]
  <2>1. /\ s \o t \in Seq(EntryType) /\ Len(s \o t) = Len(s) + Len(t)
        /\ \A a \in 1 .. Len(s) + Len(t) :
             (s \o t)[a] = IF a <= Len(s) THEN s[a] ELSE t[a - Len(s)]
    BY <1>2, <1>3, ConcatType
  <2>2. Len(s) + Len(t) = Len(q) - 1
    BY <1>1, <1>2, <1>3
  <2> QED
    BY <1>2, <2>1, <2>2
<1>5. DOMAIN (s \o t) = 1 .. Len(q) - 1
  BY <1>4
<1>6. ASSUME NEW a \in 1 .. Len(q) - 1
      PROVE  \E b \in DOMAIN q : b # i /\ (s \o t)[a] = q[b] /\ b = IF a < i THEN a ELSE a + 1
  <2>1. CASE a < i
    <3>1. a \in DOMAIN q /\ a # i /\ (s \o t)[a] = q[a]
      BY <1>1, <1>2, <1>4, <2>1
    <3> QED
      BY <2>1, <3>1
  <2>2. CASE ~(a < i)
    <3>1. a - (i - 1) \in 1 .. Len(q) - i /\ i + (a - (i - 1)) = a + 1 /\ ~(a <= i - 1)
      BY <1>1, <2>2
    <3>2. a + 1 \in DOMAIN q /\ a + 1 # i /\ (s \o t)[a] = q[a + 1]
      BY <1>1, <1>3, <1>4, <2>2, <3>1
    <3> QED
      BY <2>2, <3>2
  <2> QED
    BY <2>1, <2>2
<1>7. RemoveAt(q, i) = s \o t
  BY DEF RemoveAt, s, t
<1> QED
  BY <1>4, <1>5, <1>6, <1>7

\* The batch an entry gives is the next frame of its stream, and what the entry
\* then has follows it.
NextEntry(n, e, t, frames, made) ==
  n.left # 0 => /\ n \in EntryType /\ EntryOK(n) /\ n.stream = e.stream
                /\ Entry(n, Append(frames, t), made)

\* What an entry gives is the next frame of its response, and what remains of it
\* follows that frame.
LEMMA BatchFollows ==
  ASSUME NEW made \in Seq(Nat \X BOOLEAN), NEW g \in Bytes, NEW e \in EntryType, EntryOK(e),
         Entry(e, g, made),
         NEW b, b = IF e.head # <<>> THEN e.head
                    ELSE <<e.stream, IF e.left = 1 THEN "DATA!" ELSE "DATA">>,
         NEW n, n = IF e.head # <<>> THEN [e EXCEPT !.head = <<>>]
                    ELSE [e EXCEPT !.left = @ - 1]
  PROVE  /\ b \in Tokens /\ b[1] = e.stream
         /\ NextFrame(b, g, made) /\ NextEntry(n, e, b, g, made)
<1> DEFINE s == e.stream
           given == OnStream(g, s, Len(g))
           later == OnStream(Append(g, b), s, Len(g) + 1)
<1>1. s \in Nat /\ e.head \in Tokens \cup {<<>>} /\ e.left \in 0 .. 2
  BY DEF EntryType
<1>2. b \in Tokens /\ b[1] = s
  <2>1. CASE e.head # <<>>
    BY <1>1, <2>1 DEF EntryOK
  <2>2. CASE e.head = <<>>
    <3>1. <<s, "DATA!">> \in Tokens /\ <<s, "DATA">> \in Tokens
      BY <1>1 DEF Tokens, Parts
    <3> QED
      BY <2>2, <3>1
  <2> QED
    BY <2>1, <2>2
<1>3. /\ n.stream = s
      /\ e.head # <<>> => n.head = <<>> /\ n.left = e.left
      /\ e.head = <<>> => n.head = <<>> /\ n.left = e.left - 1
      /\ n.left # 0 => n \in EntryType
  <2>1. CASE e.head # <<>>
    BY <1>1, <2>1 DEF EntryType
  <2>2. CASE e.head = <<>>
    <3>1. e.left - 1 \in Int /\ (e.left - 1 # 0 => e.left - 1 \in 0 .. 2)
      BY <1>1, <2>2 DEF EntryOK
    <3> DEFINE l == e.left - 1
    <3>2. n = [e EXCEPT !.left = l]
      BY <2>2
    <3> HIDE DEF l
    <3> QED
      BY <2>2, <3>1, <3>2 DEF EntryType, l
  <2> QED
    BY <2>1, <2>2
<1>4. given \in Nat /\ later = given + 1
  BY <1>2, OnStreamGrows
<1>5. Len(Append(g, b)) = Len(g) + 1
  BY <1>2 DEF Bytes
<1>6. \A k \in DOMAIN made : made[k][2] \in BOOLEAN
  OBVIOUS
<1> HIDE DEF given, later
<1>8. ASSUME s # 0
      PROVE  \E k \in DOMAIN made :
               /\ made[k][1] = s
               /\ given + 1 <= Len(Frames2(s, made[k][2]))
               /\ b = Frames2(s, made[k][2])[given + 1]
               /\ n.left # 0 => n.left \in {1, 2} /\ given + 1 = 3 - n.left /\ made[k][2]
  <2>1. PICK k \in DOMAIN made :
          /\ made[k][1] = s
          /\ \/ e.head # <<>> /\ given = 0 /\ made[k][2] /\ e.left = 2
                  /\ e.head = <<s, "HEADERS">>
             \/ e.head # <<>> /\ given = 0 /\ ~made[k][2] /\ e.left = 0
                  /\ e.head = <<s, "HEADERS!">>
             \/ e.head = <<>> /\ e.left \in {1, 2} /\ given = 3 - e.left /\ made[k][2]
    BY <1>8 DEF Entry, given
  <2> DEFINE f == Frames2(s, made[k][2])
  <2> HIDE DEF f
  <2>6. SUFFICES /\ given + 1 <= Len(f) /\ b = f[given + 1]
                 /\ n.left # 0 => n.left \in {1, 2} /\ given + 1 = 3 - n.left /\ made[k][2]
    BY <2>1 DEF f
  <2>2. CASE e.head # <<>> /\ given = 0 /\ made[k][2] /\ e.left = 2 /\ e.head = <<s, "HEADERS">>
    <3>1. made[k][2] = TRUE
      BY <1>6, <2>2
    <3>2. b = <<s, "HEADERS">> /\ n.left = 2 /\ given + 1 = 1
      BY <1>3, <2>2
    <3>3. f = Frames2(s, TRUE)
      BY <3>1 DEF f
    <3>4. Len(f) = 3 /\ f[1] = <<s, "HEADERS">>
      BY <3>3, FramesOf
    <3> QED
      BY <2>1, <2>2, <3>2, <3>4
  <2>3. CASE e.head # <<>> /\ given = 0 /\ ~made[k][2] /\ e.left = 0
               /\ e.head = <<s, "HEADERS!">>
    <3>1. made[k][2] = FALSE
      BY <1>6, <2>3
    <3>2. b = <<s, "HEADERS!">> /\ n.left = 0 /\ given + 1 = 1
      BY <1>3, <2>3
    <3>3. f = Frames2(s, FALSE)
      BY <3>1 DEF f
    <3>4. Len(f) = 1 /\ f[1] = <<s, "HEADERS!">>
      BY <3>3, FramesOf
    <3> QED
      BY <2>1, <2>3, <3>2, <3>4
  <2>4. CASE e.head = <<>> /\ e.left = 2 /\ given = 1 /\ made[k][2]
    <3>1. made[k][2] = TRUE
      BY <1>6, <2>4
    <3>2. b = <<s, "DATA">> /\ n.left = 1 /\ given + 1 = 2
      BY <1>3, <2>4
    <3>3. f = Frames2(s, TRUE)
      BY <3>1 DEF f
    <3>4. Len(f) = 3 /\ f[2] = <<s, "DATA">>
      BY <3>3, FramesOf
    <3> QED
      BY <2>1, <2>4, <3>2, <3>4
  <2>5. CASE e.head = <<>> /\ e.left = 1 /\ given = 2 /\ made[k][2]
    <3>1. made[k][2] = TRUE
      BY <1>6, <2>5
    <3>2. b = <<s, "DATA!">> /\ n.left = 0 /\ given + 1 = 3
      BY <1>3, <2>5
    <3>3. f = Frames2(s, TRUE)
      BY <3>1 DEF f
    <3>4. Len(f) = 3 /\ f[3] = <<s, "DATA!">>
      BY <3>3, FramesOf
    <3> QED
      BY <2>1, <2>5, <3>2, <3>4
  <2> QED
    BY <2>1, <2>2, <2>3, <2>4, <2>5
<1>9. ASSUME n.left # 0 PROVE n \in EntryType /\ EntryOK(n) /\ Entry(n, Append(g, b), made)
  <2>1. n.head = <<>>
    BY <1>3
  <2>2. EntryOK(n)
    BY <1>9, <2>1 DEF EntryOK
  <2>3. OnStream(Append(g, b), n.stream, Len(Append(g, b))) = given + 1
    BY <1>3, <1>4, <1>5 DEF later
  <2>4. Entry(n, Append(g, b), made)
    BY <1>3, <1>8, <1>9, <2>1, <2>3 DEF Entry
  <2> QED
    BY <1>3, <1>9, <2>2, <2>4
<1>10. NextFrame(b, g, made)
  BY <1>2, <1>8 DEF given, NextFrame
<1>11. NextEntry(n, e, b, g, made)
  BY <1>3, <1>9 DEF NextEntry
<1> QED
  BY <1>2, <1>10, <1>11

\* The entries of the other streams follow theirs as before.
LEMMA OthersFollow ==
  ASSUME NEW made, NEW g \in Bytes, NEW b \in Tokens, NEW e, Entry(e, g, made),
         e.stream = 0 \/ e.stream # b[1]
  PROVE  Entry(e, Append(g, b), made)
<1>1. Len(Append(g, b)) = Len(g) + 1
  BY DEF Bytes
<1>2. CASE e.stream = 0
  BY <1>2 DEF Entry
<1>3. CASE e.stream # 0 /\ e.stream # b[1]
  <2> DEFINE s == e.stream
  <2> HIDE DEF s
  <2>1. s # b[1]
    BY <1>3 DEF s
  <2>2. OnStream(Append(g, b), s, Len(g) + 1) = OnStream(g, s, Len(g))
    BY <2>1, OnStreamGrows
  <2> QED
    BY <1>1, <2>2 DEF Entry, s
<1> QED
  BY <1>2, <1>3

\* One entry of the queue gives its batch and is replaced, or done with.
LEMMA QueueAfterBatch ==
  ASSUME NEW q \in Seq(EntryType), NEW made, NEW g \in Bytes, NEW b \in Tokens,
         QueueFollows(q, g, made), \A j \in DOMAIN q : EntryOK(q[j]),
         NEW i \in DOMAIN q, b[1] = q[i].stream, NEW n, NextEntry(n, q[i], b, g, made),
         NEW r, r = IF n.left = 0 THEN RemoveAt(q, i) ELSE ReplaceAt(q, i, n)
  PROVE  /\ r \in Seq(EntryType) /\ \A j \in DOMAIN r : EntryOK(r[j])
         /\ QueueFollows(r, Append(g, b), made)
<1> DEFINE more == Append(g, b)
<1>1. i \in 1 .. Len(q) /\ DOMAIN q = 1 .. Len(q) /\ Len(q) \in Nat
  OBVIOUS
<1>2. /\ \A j \in DOMAIN q : Entry(q[j], g, made)
      /\ \A j, k \in DOMAIN q : q[j].stream # 0 /\ q[j].stream = q[k].stream => j = k
  BY DEF QueueFollows
<1>3. ASSUME NEW j \in DOMAIN q, j # i PROVE Entry(q[j], more, made)
  <2>1. q[j].stream = 0 \/ q[j].stream # b[1]
    BY <1>2, <1>3
  <2> QED
    BY <1>2, <2>1, OthersFollow
<1> HIDE DEF more
<1>4. CASE n.left = 0
  <2>1. r = RemoveAt(q, i)
    BY <1>4
  <2>2. /\ r \in Seq(EntryType)
        /\ \A a \in DOMAIN r : \E c \in DOMAIN q : /\ c # i /\ r[a] = q[c]
                                                  /\ c = IF a < i THEN a ELSE a + 1
    BY <1>1, <2>1, EntryRemoved
  <2>3. ASSUME NEW a \in DOMAIN r PROVE EntryOK(r[a]) /\ Entry(r[a], more, made)
    BY <1>3, <2>2
  <2>4. ASSUME NEW a \in DOMAIN r, NEW c \in DOMAIN r, r[a].stream # 0,
               r[a].stream = r[c].stream
        PROVE  a = c
    <3>1. PICK x \in DOMAIN q : r[a] = q[x] /\ x = IF a < i THEN a ELSE a + 1
      BY <2>2
    <3>2. PICK y \in DOMAIN q : r[c] = q[y] /\ y = IF c < i THEN c ELSE c + 1
      BY <2>2
    <3>3. x = y
      BY <1>2, <2>4, <3>1, <3>2
    <3>4. a \in Nat /\ c \in Nat /\ i \in Nat
      BY <1>1, <2>2
    <3> QED
      BY <3>1, <3>2, <3>3, <3>4
  <2>5. QueueFollows(r, more, made)
    BY <2>3, <2>4 DEF QueueFollows
  <2> QED
    BY <2>2, <2>3, <2>5 DEF more
<1>5. CASE n.left # 0
  <2>1. r = [q EXCEPT ![i] = n]
    BY <1>5 DEF ReplaceAt
  <2>2. n \in EntryType /\ EntryOK(n) /\ n.stream = q[i].stream /\ Entry(n, more, made)
    BY <1>5 DEF more, NextEntry
  <2>3. /\ r \in Seq(EntryType) /\ DOMAIN r = DOMAIN q
        /\ \A j \in DOMAIN q : r[j] = IF j = i THEN n ELSE q[j]
    BY <2>1, <2>2
  <2>4. ASSUME NEW a \in DOMAIN r
        PROVE  EntryOK(r[a]) /\ Entry(r[a], more, made) /\ r[a].stream = q[a].stream
    <3>1. CASE a = i
      BY <2>2, <2>3, <3>1
    <3>2. CASE a # i
      BY <1>3, <2>3, <3>2
    <3> QED
      BY <3>1, <3>2
  <2>5. QueueFollows(r, more, made)
    BY <1>2, <2>3, <2>4 DEF QueueFollows
  <2> QED
    BY <2>3, <2>4, <2>5 DEF more
<1> QED
  BY <1>4, <1>5

\* A turn of send_data(): the batch is copied, ...
LEMMA SendBatchKeeps ==
  ASSUME Server2OK(h2), SendBatch
  PROVE  Server2OK(h2')
<1> DEFINE r == h2'
           g == Given(h2)
<1>1. PICK i \in DOMAIN h2.queue :
        /\ h2.pc = "send" /\ Sendable(i)
        /\ h2' = [h2 EXCEPT !.pc = "write", !.copy = <<Batch(i)>>, !.queue = AfterBatch(i),
                            !.window = @ - (IF h2.queue[i].head = <<>> THEN 1 ELSE 0)]
  BY DEF SendBatch
<1>2. /\ h2 \in Server2Type /\ h2.copy = <<>> /\ h2.made \in Seq(Nat \X BOOLEAN)
      /\ h2.queue \in Seq(EntryType) /\ h2.written \in Bytes /\ TakenOnce(h2)
      /\ FramesFollow(g, h2.made) /\ QueueFollows(h2.queue, g, h2.made)
      /\ \A j \in DOMAIN h2.queue : EntryOK(h2.queue[j])
      /\ h2.window \in Nat
  BY <1>1 DEF Server2OK, Server2Type
<1> DEFINE e == h2.queue[i]
           b == Batch(i)
           n == IF e.head # <<>> THEN [e EXCEPT !.head = <<>>] ELSE [e EXCEPT !.left = @ - 1]
           q == AfterBatch(i)
           w == h2.window - (IF e.head = <<>> THEN 1 ELSE 0)
<1>3. g = h2.written
  BY <1>2, ConcatEmptySeq DEF Given, Bytes
<1>4. e \in EntryType /\ EntryOK(e) /\ Entry(e, g, h2.made)
  BY <1>2 DEF QueueFollows
<1>5. b = IF e.head # <<>> THEN e.head ELSE <<e.stream, IF e.left = 1 THEN "DATA!" ELSE "DATA">>
  BY DEF Batch
<1>6. q = IF n.left = 0 THEN RemoveAt(h2.queue, i) ELSE ReplaceAt(h2.queue, i, n)
  BY DEF AfterBatch
<1>7. w \in Nat
  <2>1. e.head = <<>> => h2.window > 0
    BY <1>1 DEF Sendable
  <2> QED
    BY <1>2, <2>1
<1>17. n = IF e.head # <<>> THEN [e EXCEPT !.head = <<>>] ELSE [e EXCEPT !.left = @ - 1]
  OBVIOUS
<1>8. h2' = [h2 EXCEPT !.pc = "write", !.copy = <<b>>, !.queue = q, !.window = w]
  BY <1>1
<1> HIDE DEF b, n, q, w, g
<1>9. /\ b \in Tokens /\ b[1] = e.stream
      /\ NextFrame(b, g, h2.made) /\ NextEntry(n, e, b, g, h2.made)
  <2>1. g \in Bytes
    BY <1>2, <1>3
  <2> HIDE DEF e
  <2> QED
    BY <1>2, <1>4, <1>5, <1>17, <2>1, BatchFollows
<1>10. /\ q \in Seq(EntryType) /\ \A j \in DOMAIN q : EntryOK(q[j])
       /\ QueueFollows(q, Append(g, b), h2.made)
  <2>1. g \in Bytes
    BY <1>2, <1>3
  <2> QED
    BY <1>2, <1>6, <1>9, <2>1, QueueAfterBatch
<1>11. FramesFollow(Append(g, b), h2.made)
  <2>1. g \in Bytes
    BY <1>2, <1>3
  <2> QED
    BY <1>2, <1>9, <2>1, FramesFollowMore
<1>12. <<b>> \in Bytes
  BY <1>9 DEF Bytes
<1> HIDE DEF r
<1>13. /\ r \in Server2Type /\ r.pc = "write" /\ r.copy = <<b>> /\ r.queue = q
       /\ r.made = h2.made /\ r.written = h2.written /\ r.requests = h2.requests
       /\ r.pending = h2.pending
  BY <1>2, <1>7, <1>8, <1>10, <1>12 DEF Server2Type, r
<1>14. Given(r) = Append(g, b)
  <2>1. Given(r) = h2.written \o <<b>>
    BY <1>13 DEF Given
  <2>2. h2.written \o <<b>> = Append(h2.written, b)
    BY <1>2, <1>9, AppendIsConcat DEF Bytes
  <2> QED
    BY <1>3, <2>1, <2>2
<1>15. TakenOnce(r)
  BY <1>2, <1>13, PlaceKeeps
<1>16. Server2OK(r)
  BY <1>10, <1>11, <1>13, <1>14, <1>15 DEF Server2OK
<1> QED
  BY <1>16 DEF r

\* ... and written.
LEMMA WriteBatchKeeps ==
  ASSUME Server2OK(h2), WireOK(wire), WriteBatch
  PROVE  Server2OK(h2') /\ WireOK(wire')
<1> DEFINE r == h2'
           w == h2.written \o h2.copy
<1>1. /\ h2.pc = "write" /\ CanSend("down", h2.copy) /\ wire' = Sent("down", h2.copy)
      /\ h2' = [h2 EXCEPT !.pc = "send", !.copy = <<>>, !.written = w]
  BY DEF WriteBatch
<1>2. /\ h2 \in Server2Type /\ h2.copy \in Bytes /\ h2.written \in Bytes /\ TakenOnce(h2)
      /\ <<>> \in Bytes
  BY DEF Server2OK, Server2Type, Bytes
<1>3. w \in Bytes
  BY <1>2, BytesJoined
<1>4. w = Given(h2)
  BY DEF Given
<1>5. WireOK(wire')
  BY <1>1, <1>2, SentType DEF Directions
<1> HIDE DEF r, w
<1>6. /\ r \in Server2Type /\ r.pc = "send" /\ r.copy = <<>> /\ r.written = w
      /\ r.queue = h2.queue /\ r.made = h2.made /\ r.requests = h2.requests
      /\ r.pending = h2.pending
  BY <1>1, <1>2, <1>3 DEF Server2Type, r
<1>7. Given(r) = w
  <2>1. w \o <<>> = w
    BY <1>3, ConcatEmptySeq DEF Bytes
  <2> QED
    BY <1>6, <2>1 DEF Given
<1>8. TakenOnce(r)
  BY <1>2, <1>6, PlaceKeeps
<1>9. Server2OK(r)
  BY <1>4, <1>6, <1>7, <1>8 DEF Server2OK
<1> QED
  BY <1>5, <1>9 DEF r

\* Every step of the session.
LEMMA Server2Keeps ==
  ASSUME Server2OK(h2), WireOK(wire), Server2
  PROVE  Server2OK(h2') /\ WireOK(wire') /\ c2' = c2 /\ requests' = requests
<1>1. c2' = c2 /\ requests' = requests
  BY DEF Server2, TakeRequest2, ConsumedAll2, SendBatch, WriteBatch, SentAll, Read2,
         ReadRefused2, Leave2
<1> SUFFICES Server2OK(h2') /\ WireOK(wire')
  BY <1>1
<1> DEFINE r == h2'
<1>2. CASE TakeRequest2
  <2>1. wire' = wire
    BY <1>2 DEF TakeRequest2
  <2> QED
    BY <1>2, <2>1, TakeRequest2Keeps DEF WireOK
<1>3. CASE SendBatch
  <2>1. wire' = wire
    BY <1>3 DEF SendBatch
  <2> QED
    BY <1>3, <2>1, SendBatchKeeps DEF WireOK
<1>4. CASE WriteBatch
  BY <1>4, WriteBatchKeeps
<1>5. CASE Read2
  BY <1>5, Read2Keeps
<1>6. CASE ConsumedAll2 \/ SentAll \/ ReadRefused2 \/ Leave2
  <2>1. h2 \in Server2Type /\ TakenOnce(h2)
    BY DEF Server2OK
  <2>2. /\ r \in Server2Type /\ r.queue = h2.queue /\ r.made = h2.made /\ r.copy = h2.copy
        /\ r.written = h2.written /\ r.requests = h2.requests /\ r.pending = h2.pending
        /\ r.pc # "handle" /\ (h2.pc \in {"consume", "send", "read"} \/ r.pc = "left")
    <3>1. CASE ConsumedAll2
      BY <2>1, <3>1 DEF ConsumedAll2, Server2Type
    <3>2. CASE SentAll
      BY <2>1, <3>2 DEF SentAll, Server2Type
    <3>3. CASE Leave2
      BY <2>1, <3>3 DEF Leave2, Server2Type
    <3>4. CASE ReadRefused2
      BY <2>1, <3>4 DEF ReadRefused2, Server2Type
    <3> QED
      BY <1>6, <3>1, <3>2, <3>3, <3>4
  <2>3. WireOK(wire')
    <3>1. CASE wire' = wire
      BY <3>1 DEF WireOK
    <3>2. CASE wire' = Closed("up", "down")
      BY <3>2, ClosedType DEF Directions
    <3>3. CASE ReadRefused2
      BY <3>3, TakenType DEF ReadRefused2, Directions
    <3> QED
      BY <1>6, <3>1, <3>2, <3>3 DEF ConsumedAll2, SentAll, Leave2
  <2> HIDE DEF r
  <2>4. TakenOnce(r)
    BY <2>1, <2>2, PlaceKeeps
  <2>5. h2.pc \in {"consume", "send", "read"} => h2.copy = <<>>
    BY DEF Server2OK
  <2>6. Server2OK(r)
    BY <2>2, <2>4, <2>5, QuietServer2
  <2> QED
    BY <2>3, <2>6 DEF r
<1> QED
  BY <1>2, <1>3, <1>4, <1>5, <1>6 DEF Server2

-----------------------------------------------------------------------------
(* The clients.                                                            *)

\* The bytes of a request.
LEMMA RequestBytes ==
  ASSUME NEW rs, NEW m \in Nat
  PROVE  SerializeRequest(rs, m) \in Bytes
<1> DEFINE first == IF rs[m].method = Post THEN <<0, "P">> ELSE <<m, "method">>
           url == <<m, "url">>
           block == Block(m, rs[m].body)
<1>1. first \in Tokens /\ url \in Tokens
  <2>1. <<0, "P">> \in Tokens /\ <<m, "method">> \in Tokens /\ url \in Tokens
    BY DEF Tokens, Parts
  <2> QED
    BY <2>1
<1>2. Headers(m) \in Bytes
  BY ResponseBytes
<1>3. block \in Bytes
  <2>1. Block(m, TRUE) \in Bytes /\ Block(m, FALSE) \in Bytes
    BY ResponseBytes
  <2>2. block = Block(m, TRUE) \/ block = Block(m, FALSE)
    BY DEF Block
  <2> QED
    BY <2>1, <2>2
<1>4. SerializeRequest(rs, m) = (<<first, url>> \o Headers(m)) \o block
  BY DEF SerializeRequest
<1> HIDE DEF first, url, block
<1>5. <<first, url>> \in Bytes
  BY <1>1 DEF Bytes
<1>6. <<first, url>> \o Headers(m) \in Bytes
  BY <1>2, <1>5, BytesJoined
<1> QED
  BY <1>3, <1>4, <1>6, BytesJoined

\* What is left of bytes that are sent.
LEMMA RestType ==
  ASSUME WireOK(wire), NEW d \in Directions, NEW b \in Bytes, CanSend(d, b)
  PROVE  Rest(b, Fitting(d, b)) \in Bytes
<1>1. Len(b) \in Nat /\ Fitting(d, b) \in 1 .. Len(b)
  BY FittingType DEF Bytes
<1>2. Fitting(d, b) \in 0 .. Len(b)
  BY <1>1
<1> QED
  BY <1>2, BytesCut

\* Every step of the HTTP/1.1 client.
LEMMA Client1Keeps ==
  ASSUME c1 \in Client1Type, WireOK(wire), Client1
  PROVE  c1' \in Client1Type /\ WireOK(wire') /\ h1' = h1
<1>1. h1' = h1
  BY DEF Client1, Request1, WriteRequest, TakeResponse, ReadResponse, ClientFails1
<1> SUFFICES c1' \in Client1Type /\ WireOK(wire')
  BY <1>1
<1>2. ASSUME wire' = wire PROVE WireOK(wire')
  BY <1>2 DEF WireOK
<1>3. CASE Request1
  <2> DEFINE m == Len(c1.results) + 1
             out == SerializeRequest(requests, m)
  <2>1. m \in Nat
    BY DEF Client1Type
  <2>2. out \in Bytes
    BY <2>1, RequestBytes
  <2>3. c1' = [c1 EXCEPT !.pc = "write", !.out = out] /\ wire' = wire
    BY <1>3 DEF Request1
  <2> HIDE DEF out
  <2> QED
    BY <1>2, <2>2, <2>3 DEF Client1Type
<1>4. CASE WriteRequest
  <2> DEFINE rest == Rest(c1.out, Fitting("up", c1.out))
             place == IF rest = <<>> THEN "await" ELSE "write"
  <2>1. c1.out \in Bytes /\ CanSend("up", c1.out) /\ wire' = Sent("up", c1.out)
    BY <1>4 DEF WriteRequest, Client1Type
  <2>2. rest \in Bytes /\ WireOK(wire')
    BY <2>1, RestType, SentType DEF Directions
  <2>3. c1' = [c1 EXCEPT !.out = rest, !.pc = place] /\ place \in {"await", "write"}
    BY <1>4 DEF WriteRequest
  <2> HIDE DEF rest, place
  <2> QED
    BY <2>2, <2>3 DEF Client1Type
<1>5. CASE TakeResponse
  <2> DEFINE p == c1.pending
             results == Append(c1.results, Head(p))
  <2>1. p \in Seq(Message) /\ p # <<>> /\ c1.results \in Seq(Message)
    BY <1>5 DEF TakeResponse, Client1Type
  <2>2. Head(p) \in Message /\ Tail(p) \in Seq(Message)
    BY <2>1
  <2>3. results \in Seq(Message)
    BY <2>1, <2>2
  <2>4. /\ c1' = [c1 EXCEPT !.pc = "idle", !.at = "start", !.pending = Tail(p),
                            !.results = results]
        /\ wire' = wire
    BY <1>5 DEF TakeResponse
  <2> HIDE DEF results, p
  <2> QED
    BY <1>2, <2>2, <2>3, <2>4 DEF Client1Type, ParserPlaces
<1>6. CASE ReadResponse
  <2>1. PICK n \in Readable("down") :
          /\ wire' = Taken("down", n)
          /\ c1' = LET s == ProcessResponse(c1, Arrived("down", n))
                   IN  IF s.at = "error" THEN [s EXCEPT !.pc = "failed"] ELSE s
    BY <1>6 DEF ReadResponse
  <2>2. WireOK(wire') /\ Arrived("down", n) \in Bytes
    BY <2>1, TakenType DEF Directions
  <2> DEFINE s == ProcessResponse(c1, Arrived("down", n))
  <2>3. s \in Client1Type
    BY <2>2, ProcessResponseType
  <2>4. c1' = IF s.at = "error" THEN [s EXCEPT !.pc = "failed"] ELSE s
    BY <2>1
  <2> HIDE DEF s
  <2>5. [s EXCEPT !.pc = "failed"] \in Client1Type
    BY <2>3 DEF Client1Type
  <2> QED
    BY <2>2, <2>3, <2>4, <2>5
<1>7. CASE ClientFails1
  <2>1. c1' = [c1 EXCEPT !.pc = "failed"] /\ wire' = wire
    BY <1>7 DEF ClientFails1, Failed1
  <2> QED
    BY <1>2, <2>1 DEF Client1Type
<1> QED
  BY <1>3, <1>4, <1>5, <1>6, <1>7 DEF Client1

\* Every step of the HTTP/2 client.
LEMMA Client2Keeps ==
  ASSUME c2 \in Client2Type, WireOK(wire), Client2
  PROVE  c2' \in Client2Type /\ WireOK(wire') /\ h2' = h2
<1>1. h2' = h2
  BY DEF Client2, InitializeClient2, Request2, SendBatchClient, WriteBatchClient,
         SentAllClient, ReadFrames, ReadRefusedClient, CheckResponse, ClientFails2
<1> SUFFICES c2' \in Client2Type /\ WireOK(wire')
  BY <1>1
<1>2. ASSUME wire' = wire PROVE WireOK(wire')
  BY <1>2 DEF WireOK
<1>3. /\ c2.queue \in Bytes /\ c2.copy \in Bytes /\ c2.results \in Seq(ReplyType)
      /\ c2.reads \in 0 .. MaxReads /\ MaxReads \in Nat
      /\ c2.then \in {"idle", "read", "check"}
  BY Http2Assumption DEF Client2Type
<1>4. CASE InitializeClient2
  <2> DEFINE q == Preface \o <<Settings>>
  <2>1. <<0, "P">> \in Tokens /\ <<0, "RI">> \in Tokens /\ <<0, "SETTINGS">> \in Tokens
    BY DEF Tokens, Parts
  <2>2. Preface \in Bytes /\ <<Settings>> \in Bytes
    BY <2>1 DEF Preface, Settings, Bytes
  <2>3. q \in Bytes
    BY <2>2, BytesJoined
  <2>4. c2' = [c2 EXCEPT !.pc = "send", !.queue = q] /\ wire' = wire
    BY <1>4 DEF InitializeClient2
  <2> HIDE DEF q
  <2> QED
    BY <1>2, <2>3, <2>4 DEF Client2Type
<1>5. CASE Request2
  <2> DEFINE m == Len(c2.results) + 1
             more == IF requests[m].body
                     THEN << <<m, "HEADERS">>, <<m, "DATA">>, <<m, "DATA!">> >>
                     ELSE << <<m, "HEADERS!">> >>
             q == c2.queue \o more
  <2>1. m \in Nat
    BY <1>3
  <2>6. /\ c2' = [c2 EXCEPT !.pc = "send", !.then = "read", !.reads = 0, !.queue = q]
        /\ wire' = wire
    BY <1>5 DEF Request2
  <2>7. 0 \in 0 .. MaxReads
    BY <1>3
  <2> HIDE DEF m
  <2>2. /\ <<m, "HEADERS">> \in Tokens /\ <<m, "DATA">> \in Tokens
        /\ <<m, "DATA!">> \in Tokens /\ <<m, "HEADERS!">> \in Tokens
    BY <2>1 DEF Tokens, Parts
  <2>3. << <<m, "HEADERS">>, <<m, "DATA">>, <<m, "DATA!">> >> \in Bytes
        /\ << <<m, "HEADERS!">> >> \in Bytes
    BY <2>2 DEF Bytes
  <2>4. more \in Bytes
    BY <2>3
  <2> HIDE DEF more
  <2>5. q \in Bytes
    BY <1>3, <2>4, BytesJoined
  <2> HIDE DEF q
  <2> QED
    BY <1>2, <2>5, <2>6, <2>7 DEF Client2Type
<1>6. CASE SendBatchClient
  <2> DEFINE q == c2.queue
             first == <<Head(q)>>
             tail == Tail(q)
  <2>1. q # <<>> /\ c2' = [c2 EXCEPT !.pc = "write", !.copy = first, !.queue = tail]
        /\ wire' = wire
    BY <1>6 DEF SendBatchClient
  <2>2. first \in Bytes /\ tail \in Bytes
    BY <1>3, <2>1 DEF Bytes
  <2> HIDE DEF first, tail, q
  <2> QED
    BY <1>2, <2>1, <2>2 DEF Client2Type
<1>7. CASE WriteBatchClient
  <2>1. /\ CanSend("up", c2.copy) /\ wire' = Sent("up", c2.copy)
        /\ c2' = [c2 EXCEPT !.pc = "send", !.copy = <<>>]
    BY <1>7 DEF WriteBatchClient
  <2>2. WireOK(wire')
    BY <1>3, <2>1, SentType DEF Directions
  <2>3. <<>> \in Bytes
    BY DEF Bytes
  <2> QED
    BY <2>1, <2>2, <2>3 DEF Client2Type
<1>8. CASE SentAllClient
  BY <1>2, <1>3, <1>8 DEF SentAllClient, Client2Type
<1>9. CASE ReadFrames
  <2>1. PICK n \in Readable("down") :
          /\ wire' = Taken("down", n) /\ c2.reads < MaxReads
          /\ c2' = [FoldLeft(ClientFrame, c2, Arrived("down", n))
                      EXCEPT !.pc = "send", !.then = "check", !.reads = @ + 1]
    BY <1>9 DEF ReadFrames
  <2>2. WireOK(wire') /\ Arrived("down", n) \in Bytes
    BY <2>1, TakenType DEF Directions
  <2> DEFINE S == {x \in Client2Type : x.reads = c2.reads}
             s == FoldLeft(ClientFrame, c2, Arrived("down", n))
  <2>3. ASSUME NEW a \in S, NEW t \in Tokens PROVE ClientFrame(a, t) \in S
    BY ClientFrameType
  <2>4. c2 \in S
    OBVIOUS
  <2> HIDE DEF S
  <2>5. s \in S
    BY <2>2, <2>3, <2>4, ClientFramesStays DEF Bytes
  <2> HIDE DEF s
  <2>6. s \in Client2Type /\ s.reads = c2.reads
    BY <2>5 DEF S
  <2>7. s.reads + 1 \in 0 .. MaxReads
    BY <1>3, <2>1, <2>6
  <2>8. c2' = [s EXCEPT !.pc = "send", !.then = "check", !.reads = s.reads + 1]
    BY <2>1 DEF s
  <2> DEFINE l == s.reads + 1
  <2> HIDE DEF l
  <2>9. c2' = [s EXCEPT !.pc = "send", !.then = "check", !.reads = l] /\ l \in 0 .. MaxReads
    BY <2>7, <2>8 DEF l
  <2> QED
    BY <2>2, <2>6, <2>9 DEF Client2Type
<1>10. CASE CheckResponse
  <2> DEFINE r == ResponseOf(c2, Len(c2.results) + 1)
             results == Append(c2.results, r)
  <2>1. r \in ReplyType
    <3>1. PICK D \in SUBSET Nat : c2.responses \in [D -> ReplyType]
      BY DEF Client2Type, Maps
    <3>2. NoResponse \in ReplyType
      BY DEF NoResponse, ReplyType, Bytes
    <3> QED
      BY <3>1, <3>2 DEF ResponseOf
  <2>2. results \in Seq(ReplyType)
    BY <1>3, <2>1
  <2>3. /\ c2' = IF r.complete
                 THEN [c2 EXCEPT !.pc = "idle", !.then = "idle", !.results = results]
                 ELSE [c2 EXCEPT !.pc = "read"]
        /\ wire' = wire
    BY <1>10 DEF CheckResponse
  <2> HIDE DEF r, results
  <2> QED
    BY <1>2, <2>2, <2>3 DEF Client2Type
<1>11. CASE ClientFails2
  BY <1>2, <1>11 DEF ClientFails2, Client2Type
<1>12. CASE ReadRefusedClient
  <2>1. WireOK(wire')
    BY <1>12, TakenType DEF ReadRefusedClient, Directions
  <2> QED
    BY <1>12, <2>1 DEF ReadRefusedClient, Client2Type
<1> QED
  BY <1>4, <1>5, <1>6, <1>7, <1>8, <1>9, <1>10, <1>11, <1>12 DEF Client2

-----------------------------------------------------------------------------
(* The connection, and the theorems.                                       *)

HttpInv == Types /\ Writing1 /\ Server2OK(h2)

\* Before the program registers its routes nothing is made or written.
LEMMA HttpInvInit == HttpInit => HttpInv
<1> SUFFICES ASSUME HttpInit PROVE HttpInv
  OBVIOUS
<1>1. <<>> \in Bytes /\ <<>> \in Maps(Bytes, Bytes) /\ <<>> \in Maps(Nat, SlotType)
      /\ <<>> \in Maps(Nat, ReplyType) /\ Len(<<>>) = 0
  BY EmptyMap DEF Bytes
<1>2. h1 \in Server1Type /\ h1.made = <<>> /\ h1.written = <<>> /\ h1.pc = "new"
  BY <1>1 DEF HttpInit, NewServer1, Server1Type, ParserPlaces
<1>3. c1 \in Client1Type
  BY <1>1 DEF HttpInit, NewClient1, Client1Type, ParserPlaces
<1>4. /\ h2 \in Server2Type /\ h2.made = <<>> /\ h2.written = <<>> /\ h2.copy = <<>>
      /\ h2.queue = <<>> /\ h2.pending = <<>> /\ h2.pc = "new"
  BY <1>1, Http2Assumption DEF HttpInit, NewServer2, Server2Type
<1>5. c2 \in Client2Type
  BY <1>1, Http2Assumption DEF HttpInit, NewClient2, Client2Type
<1>6. WireOK(wire)
  <2>1. wire = NewWire
    BY DEF HttpInit
  <2>2. NewWire \in WireType
    BY <1>1 DEF NewWire, WireType
  <2>3. \A d \in Directions : NewWire.bytes[d] = <<>>
    BY DEF NewWire
  <2>4. \A d \in Directions : Len(NewWire.bytes[d]) <= Space(d)
    BY <1>1, <2>3, SpaceType
  <2> QED
    BY <2>1, <2>2, <2>4 DEF WireOK
<1>7. conn \in ConnType /\ client \in ClientType /\ client.sent <= Len(client.bytes)
  BY <1>1 DEF HttpInit, ConnType, ClientType
<1>8. Writing1
  <2>1. Responses1(h1.made) = <<>>
    BY <1>2, ResponsesNone
  <2>2. IsPrefix(<<>>, <<>>)
    BY <1>1, ConcatEmptySeq, JoinedPrefix DEF Bytes
  <2> QED
    BY <1>2, <2>1, <2>2 DEF Writing1
<1>9. Server2OK(h2)
  <2>1. TakenOnce(h2)
    BY <1>4 DEF TakenOnce
  <2>2. Given(h2) = <<>>
    BY <1>1, <1>4, ConcatEmptySeq DEF Given, Bytes
  <2>3. FramesFollow(Given(h2), h2.made)
    BY <2>2 DEF FramesFollow
  <2>4. QueueFollows(h2.queue, Given(h2), h2.made)
    BY <1>4 DEF QueueFollows
  <2> QED
    BY <1>4, <2>1, <2>3, <2>4 DEF Server2OK
<1> QED
  BY <1>2, <1>3, <1>4, <1>5, <1>6, <1>7, <1>8, <1>9 DEF HttpInv, Types

\* Steps of the connection and of the client that touch no session, by what
\* they do to the wire, ...
LEMMA WireSteps ==
  ASSUME HttpInv, UNCHANGED <<h1, c1, h2, c2>>, WireOK(wire'), conn' \in ConnType,
         client' \in ClientType, client'.sent <= Len(client'.bytes)
  PROVE  HttpInv'
<1>1. h1' = h1 /\ c1' = c1 /\ h2' = h2 /\ c2' = c2
  OBVIOUS
<1>2. Writing1'
  BY <1>1 DEF HttpInv, Writing1
<1>3. Server2OK(h2')
  BY <1>1 DEF HttpInv
<1>4. h1' \in Server1Type /\ c1' \in Client1Type /\ h2' \in Server2Type /\ c2' \in Client2Type
  BY <1>1 DEF HttpInv, Types
<1> QED
  BY <1>2, <1>3, <1>4 DEF HttpInv, Types

\* ... the client's, ...
LEMMA ClientSteps ==
  ASSUME HttpInv,
         Begin \/ Connect \/ ConnectFails \/ CloseStream \/ RawWrites \/ RawReads
           \/ RawShutsDown \/ RawLeaves
  PROVE  HttpInv'
<1>1. /\ WireOK(wire) /\ conn \in ConnType /\ client \in ClientType
      /\ client.sent <= Len(client.bytes) /\ client.sent \in Nat /\ client.bytes \in Bytes
      /\ Len(client.bytes) \in Nat
  <2>1. client \in ClientType /\ client.bytes \in Bytes
    BY DEF HttpInv, Types, ClientType
  <2> QED
    BY <2>1 DEF HttpInv, Types, ClientType, Bytes
<1>2. UNCHANGED <<h1, c1, h2, c2>>
  BY DEF Begin, Connect, ConnectFails, CloseStream, RawWrites, RawReads, RawShutsDown,
         RawLeaves, sessions
<1>3. ASSUME wire' = wire PROVE WireOK(wire')
  BY <1>1, <1>3
<1>4. ASSUME wire' = Closed("down", "up") PROVE WireOK(wire')
  BY <1>1, <1>4, ClosedType DEF Directions
<1>5. ASSUME NEW kind \in {"h1", "h2", "auto", "raw"}, NEW pc \in {"none", "start", "open", "gone"},
             client' = [client EXCEPT !.pc = pc, !.kind = kind]
      PROVE  client' \in ClientType /\ client'.sent <= Len(client'.bytes)
  BY <1>1, <1>5 DEF ClientType
<1>6. ASSUME conn' = conn PROVE conn' \in ConnType
  BY <1>1, <1>6
<1>7. CASE Begin
  <2>1. PICK p \in Programs :
          client' = [kind |-> p.kind, pc |-> "start", bytes |-> p.bytes, sent |-> 0]
    BY <1>7 DEF Begin
  <2>2. p.kind \in {"h1", "h2", "auto", "raw"} /\ p.bytes \in Bytes
    BY HttpAssumption DEF Bytes
  <2>3. Len(p.bytes) \in Nat
    BY <2>2 DEF Bytes
  <2>4. client' \in ClientType /\ client'.sent <= Len(client'.bytes)
    BY <2>1, <2>2, <2>3 DEF ClientType
  <2>5. wire' = wire /\ conn' = conn
    BY <1>7 DEF Begin
  <2> QED
    BY <1>2, <1>3, <1>6, <2>4, <2>5, WireSteps
<1>8. CASE Connect
  <2> DEFINE kind == IF client.kind = "auto" THEN "h2" ELSE client.kind
  <2>1. client' = [client EXCEPT !.pc = "open", !.kind = kind]
    BY <1>8 DEF Connect
  <2>2. kind \in {"h1", "h2", "auto", "raw"}
    BY <1>1 DEF ClientType
  <2> HIDE DEF kind
  <2>3. client' \in ClientType /\ client'.sent <= Len(client'.bytes)
    BY <1>5, <2>1, <2>2
  <2>4. wire' = wire /\ conn' \in ConnType
    BY <1>1, <1>8 DEF Connect, ConnType
  <2> QED
    BY <1>2, <1>3, <2>3, <2>4, WireSteps
<1>9. CASE ConnectFails
  <2>1. client' \in ClientType /\ client'.sent <= Len(client'.bytes)
    <3>1. CASE client' = [client EXCEPT !.kind = "h1"]
      BY <1>1, <3>1 DEF ClientType
    <3>2. CASE client' = [client EXCEPT !.pc = "gone"]
      BY <1>1, <3>2 DEF ClientType
    <3> QED
      BY <1>9, <3>1, <3>2 DEF ConnectFails
  <2>2. wire' = wire /\ conn' = conn
    BY <1>9 DEF ConnectFails, sessions
  <2> QED
    BY <1>2, <1>3, <1>6, <2>1, <2>2, WireSteps
<1>10. CASE CloseStream \/ RawLeaves
  <2>1. /\ client' = [client EXCEPT !.pc = "gone"] /\ conn' = conn
        /\ wire' = Closed("down", "up")
    BY <1>10 DEF CloseStream, RawLeaves
  <2>2. client' \in ClientType /\ client'.sent <= Len(client'.bytes)
    BY <1>1, <2>1 DEF ClientType
  <2> QED
    BY <1>2, <1>4, <1>6, <2>1, <2>2, WireSteps
<1>11. CASE RawWrites
  <2> DEFINE n == client.sent + 1
             t == client.bytes[n]
  <2>1. /\ client.sent < Len(client.bytes) /\ CanSend("up", <<t>>) /\ wire' = Sent("up", <<t>>)
        /\ client' = [client EXCEPT !.sent = n] /\ conn' = conn
    BY <1>11 DEF RawWrites
  <2>2. n \in 1 .. Len(client.bytes) /\ n \in Nat
    BY <1>1, <2>1
  <2>3. n <= Len(client.bytes)
    BY <1>1, <2>1
  <2> HIDE DEF n
  <2>4. t \in Tokens
    BY <1>1, <2>2 DEF Bytes
  <2> HIDE DEF t
  <2>5. <<t>> \in Bytes
    BY <2>4 DEF Bytes
  <2>6. WireOK(wire')
    BY <1>1, <2>1, <2>5, SentType DEF Directions
  <2>7. client' \in ClientType /\ client'.sent <= Len(client'.bytes)
    BY <1>1, <2>1, <2>2, <2>3 DEF ClientType
  <2> QED
    BY <1>2, <1>6, <2>1, <2>6, <2>7, WireSteps
<1>12. CASE RawReads
  <2>1. PICK n \in Readable("down") : wire' = Taken("down", n)
    BY <1>12 DEF RawReads
  <2>2. conn' = conn /\ client' = client
    BY <1>12 DEF RawReads
  <2>3. WireOK(wire')
    BY <1>1, <2>1, TakenType DEF Directions
  <2> QED
    BY <1>1, <1>2, <1>6, <2>2, <2>3, WireSteps
<1>13. CASE RawShutsDown
  <2> DEFINE ended == wire.ended \cup {"up"}
  <2>1. wire' = [wire EXCEPT !.ended = ended] /\ conn' = conn /\ client' = client
    BY <1>13 DEF RawShutsDown
  <2>2. ended \in SUBSET Directions
    BY <1>1 DEF WireOK, WireType, Directions
  <2> HIDE DEF ended
  <2>3. wire' \in WireType /\ wire'.bytes = wire.bytes
    BY <1>1, <2>1, <2>2 DEF WireOK, WireType
  <2>4. WireOK(wire')
    BY <1>1, <2>3 DEF WireOK
  <2> QED
    BY <1>1, <1>2, <1>6, <2>1, <2>4, WireSteps
<1> QED
  BY <1>7, <1>8, <1>9, <1>10, <1>11, <1>12, <1>13

\* ... the server's ...
LEMMA ConnectionSteps ==
  ASSUME HttpInv,
         RegisterRoutes \/ Listen \/ Accept \/ Detect \/ DetectEnds \/ HandlerThrows
  PROVE  HttpInv'
<1>1. /\ WireOK(wire) /\ conn \in ConnType /\ client \in ClientType
      /\ client.sent <= Len(client.bytes) /\ conn.data \in Bytes
  BY DEF HttpInv, Types, ConnType
<1>2. UNCHANGED <<h1, c1, h2, c2>> /\ client' = client
  BY DEF RegisterRoutes, Listen, Accept, Detect, DetectEnds, HandlerThrows, sessions
<1>3. client' \in ClientType /\ client'.sent <= Len(client'.bytes)
  BY <1>1, <1>2
<1>4. ASSUME NEW p \in {"setup", "listening", "accept", "detect", "http1", "http2", "done",
                        "terminated"},
             conn' = [conn EXCEPT !.pc = p]
      PROVE  conn' \in ConnType
  BY <1>1, <1>4 DEF ConnType
<1>5. ASSUME wire' = wire PROVE WireOK(wire')
  BY <1>1, <1>5
<1>6. ASSUME wire' = Closed("up", "down") PROVE WireOK(wire')
  BY <1>1, <1>6, ClosedType DEF Directions
<1>7. CASE RegisterRoutes
  <2>1. wire' = wire /\ conn' = conn
    BY <1>7 DEF RegisterRoutes
  <2> QED
    BY <1>1, <1>2, <1>3, <1>5, <2>1, WireSteps
<1>8. CASE Listen
  <2>1. wire' = wire /\ conn' = [conn EXCEPT !.pc = "listening"]
    BY <1>8 DEF Listen
  <2> QED
    BY <1>2, <1>3, <1>4, <1>5, <2>1, WireSteps
<1>9. CASE Accept
  <2>1. wire' = wire /\ conn' = [conn EXCEPT !.pc = "detect"]
    BY <1>9 DEF Accept
  <2> QED
    BY <1>2, <1>3, <1>4, <1>5, <2>1, WireSteps
<1>10. CASE Detect
  <2>1. PICK n \in Readable("up") :
          LET data == conn.data \o Arrived("up", n)
          IN  /\ conn' = [data |-> data,
                          pc |-> IF ~IsH2PrefacePrefix(data) THEN "http1"
                                 ELSE IF IsH2PrefaceComplete(data) THEN "http2" ELSE "detect"]
              /\ wire' = Taken("up", n)
    BY <1>10 DEF Detect
  <2> DEFINE data == conn.data \o Arrived("up", n)
             place == IF ~IsH2PrefacePrefix(data) THEN "http1"
                      ELSE IF IsH2PrefaceComplete(data) THEN "http2" ELSE "detect"
  <2>2. conn' = [data |-> data, pc |-> place] /\ wire' = Taken("up", n)
    BY <2>1
  <2>3. WireOK(wire') /\ Arrived("up", n) \in Bytes
    BY <1>1, <2>2, TakenType DEF Directions
  <2>4. data \in Bytes
    BY <1>1, <2>3, BytesJoined
  <2>5. place \in {"http1", "http2", "detect"}
    OBVIOUS
  <2> HIDE DEF data, place
  <2>6. conn' \in ConnType
    BY <2>2, <2>4, <2>5 DEF ConnType
  <2> QED
    BY <1>2, <1>3, <2>3, <2>6, WireSteps
<1>11. CASE DetectEnds
  <2>1. CASE wire' = wire /\ conn' = [conn EXCEPT !.pc = "http1"]
    BY <1>2, <1>3, <1>4, <1>5, <2>1, WireSteps
  <2>2. CASE wire' = Closed("up", "down") /\ conn' = [conn EXCEPT !.pc = "done"]
    BY <1>2, <1>3, <1>4, <1>6, <2>2, WireSteps
  <2> QED
    BY <1>11, <2>1, <2>2 DEF DetectEnds
<1>12. CASE HandlerThrows
  <2>1. wire' = Closed("up", "down") /\ conn' = [conn EXCEPT !.pc = "terminated"]
    BY <1>12 DEF HandlerThrows
  <2> QED
    BY <1>2, <1>3, <1>4, <1>6, <2>1, WireSteps
<1> QED
  BY <1>7, <1>8, <1>9, <1>10, <1>11, <1>12

\* ... and steps of a session, by what they leave of it.
LEMMA SessionSteps ==
  ASSUME HttpInv, conn' = conn, client' = client, WireOK(wire'), h1' \in Server1Type,
         Writing1', c1' \in Client1Type, Server2OK(h2'), c2' \in Client2Type
  PROVE  HttpInv'
<1>1. h2' \in Server2Type
  BY DEF Server2OK
<1>2. conn' \in ConnType /\ client' \in ClientType /\ client'.sent <= Len(client'.bytes)
  BY DEF HttpInv, Types
<1> QED
  BY <1>1, <1>2 DEF HttpInv, Types

\* Every step of a session, at either end.
LEMMA SessionsStep ==
  ASSUME HttpInv, StartSession \/ RunSession \/ RunClient \/ HandleRequest
  PROVE  HttpInv'
<1>1. /\ WireOK(wire) /\ conn.data \in Bytes /\ h1 \in Server1Type /\ Writing1
      /\ c1 \in Client1Type /\ Server2OK(h2) /\ c2 \in Client2Type
  BY DEF HttpInv, Types, ConnType
<1>2. conn' = conn /\ client' = client
  BY DEF StartSession, RunSession, RunClient, HandleRequest
<1>3. ASSUME h1' = h1 PROVE h1' \in Server1Type /\ Writing1'
  BY <1>1, <1>3 DEF Writing1
<1>4. ASSUME h2' = h2 PROVE Server2OK(h2')
  BY <1>1, <1>4
<1>5. ASSUME c1' = c1 PROVE c1' \in Client1Type
  BY <1>1, <1>5
<1>6. ASSUME c2' = c2 PROVE c2' \in Client2Type
  BY <1>1, <1>6
<1>7. ASSUME wire' = wire PROVE WireOK(wire')
  BY <1>1, <1>7
<1>8. CASE StartSession
  <2>1. c1' = c1 /\ c2' = c2 /\ wire' = wire
    BY <1>8 DEF StartSession
  <2>2. CASE h1.pc = "new" /\ h1' = Started1(conn.data) /\ h2' = h2
    <3>1. h1' \in Server1Type /\ Writing1'
      BY <1>1, <2>2, Started1Keeps
    <3> QED
      BY <1>2, <1>4, <1>5, <1>6, <1>7, <2>1, <2>2, <3>1, SessionSteps
  <2>3. CASE h2.pc = "new" /\ h2' = Initialized2 /\ h1' = h1
    <3>1. Server2OK(h2')
      BY <1>1, <2>3, Initialized2Keeps
    <3> QED
      BY <1>2, <1>3, <1>5, <1>6, <1>7, <2>1, <2>3, <3>1, SessionSteps
  <2>4. CASE h2.pc = "initialized" /\ h2' = Started2(conn.data) /\ h1' = h1
    <3>1. Server2OK(h2')
      BY <1>1, <2>4, Started2Keeps
    <3> QED
      BY <1>2, <1>3, <1>5, <1>6, <1>7, <2>1, <2>4, <3>1, SessionSteps
  <2> QED
    BY <1>8, <2>2, <2>3, <2>4 DEF StartSession
<1>9. CASE RunSession
  <2>1. CASE Server1 /\ UNCHANGED <<h2, c2>>
    <3>1. h1' \in Server1Type /\ Writing1' /\ WireOK(wire') /\ c1' = c1
      BY <1>1, <2>1, Server1Keeps
    <3>2. h2' = h2 /\ c2' = c2
      BY <2>1
    <3> QED
      BY <1>2, <1>4, <1>5, <1>6, <3>1, <3>2, SessionSteps
  <2>2. CASE Server2 /\ UNCHANGED <<h1, c1>>
    <3>1. Server2OK(h2') /\ WireOK(wire') /\ c2' = c2
      BY <1>1, <2>2, Server2Keeps
    <3>2. h1' = h1 /\ c1' = c1
      BY <2>2
    <3> QED
      BY <1>2, <1>3, <1>5, <1>6, <3>1, <3>2, SessionSteps
  <2> QED
    BY <1>9, <2>1, <2>2 DEF RunSession
<1>10. CASE RunClient
  <2>1. CASE Client1 /\ UNCHANGED <<h2, c2>>
    <3>1. c1' \in Client1Type /\ WireOK(wire') /\ h1' = h1
      BY <1>1, <2>1, Client1Keeps
    <3>2. h2' = h2 /\ c2' = c2
      BY <2>1
    <3> QED
      BY <1>2, <1>3, <1>4, <1>6, <3>1, <3>2, SessionSteps
  <2>2. CASE Client2 /\ UNCHANGED <<h1, c1>>
    <3>1. c2' \in Client2Type /\ WireOK(wire') /\ h2' = h2
      BY <1>1, <2>2, Client2Keeps
    <3>2. h1' = h1 /\ c1' = c1
      BY <2>2
    <3> QED
      BY <1>2, <1>3, <1>4, <1>5, <3>1, <3>2, SessionSteps
  <2> QED
    BY <1>10, <2>1, <2>2 DEF RunClient
<1>11. CASE HandleRequest
  <2>1. PICK body \in BOOLEAN :
          \/ Respond1(body) /\ UNCHANGED <<h2, c2>>
          \/ Respond2(body) /\ UNCHANGED <<h1, c1>>
    BY <1>11 DEF HandleRequest
  <2>2. CASE Respond1(body) /\ UNCHANGED <<h2, c2>>
    <3>1. h1' \in Server1Type /\ Writing1'
      BY <1>1, <2>2, Respond1Keeps
    <3>2. h2' = h2 /\ c2' = c2 /\ c1' = c1 /\ wire' = wire
      BY <2>2 DEF Respond1
    <3> QED
      BY <1>2, <1>4, <1>5, <1>6, <1>7, <3>1, <3>2, SessionSteps
  <2>3. CASE Respond2(body) /\ UNCHANGED <<h1, c1>>
    <3>1. Server2OK(h2')
      BY <1>1, <2>3, Respond2Keeps
    <3>2. h1' = h1 /\ c2' = c2 /\ c1' = c1 /\ wire' = wire
      BY <2>3 DEF Respond2
    <3> QED
      BY <1>2, <1>3, <1>5, <1>6, <1>7, <3>1, <3>2, SessionSteps
  <2> QED
    BY <2>1, <2>2, <2>3
<1> QED
  BY <1>8, <1>9, <1>10, <1>11

\* Every step of the whole.
LEMMA HttpInvNext == HttpInv /\ [HttpNext]_httpVars => HttpInv'
<1> SUFFICES ASSUME HttpInv, [HttpNext]_httpVars PROVE HttpInv'
  OBVIOUS
<1>1. CASE Begin \/ Connect \/ ConnectFails \/ CloseStream \/ RawWrites \/ RawReads
             \/ RawShutsDown \/ RawLeaves
  BY <1>1, ClientSteps
<1>2. CASE RegisterRoutes \/ Listen \/ Accept \/ Detect \/ DetectEnds \/ HandlerThrows
  BY <1>2, ConnectionSteps
<1>3. CASE StartSession \/ RunSession \/ RunClient \/ HandleRequest
  BY <1>3, SessionsStep
<1>4. CASE UNCHANGED httpVars
  <2>1. /\ UNCHANGED <<h1, c1, h2, c2>> /\ wire' = wire /\ conn' = conn /\ client' = client
    BY <1>4 DEF httpVars
  <2>2. /\ WireOK(wire') /\ conn' \in ConnType
        /\ client' \in ClientType /\ client'.sent <= Len(client'.bytes)
    BY <2>1 DEF HttpInv, Types
  <2> QED
    BY <2>1, <2>2, WireSteps
<1> QED
  BY <1>1, <1>2, <1>3, <1>4 DEF HttpNext, Client, Server

\* The first of joined bytes.
LEMMA JoinedFirst ==
  ASSUME NEW a \in Bytes, NEW b \in Bytes
  PROVE  \A i \in 1 .. Len(a) : (a \o b)[i] = a[i] /\ i \in DOMAIN (a \o b)
<1>1. a \in Seq(Tokens) /\ b \in Seq(Tokens) /\ Len(a) \in Nat /\ Len(b) \in Nat
  BY DEF Bytes
<1>2. DOMAIN (a \o b) = 1 .. Len(a) + Len(b)
  BY <1>1
<1> SUFFICES ASSUME NEW i \in 1 .. Len(a)
             PROVE  (a \o b)[i] = a[i] /\ i \in DOMAIN (a \o b)
  OBVIOUS
<1>3. i \in 1 .. Len(a) + Len(b) /\ i <= Len(a)
  BY <1>1
<1> QED
  BY <1>1, <1>2, <1>3

\* The frames that are on the wire are the first of those given.
LEMMA InvOrders == HttpInv => ResponsesInOrder
<1> SUFFICES ASSUME HttpInv PROVE ResponsesInOrder
  OBVIOUS
<1>1. IsPrefix(h1.written, Responses1(h1.made))
  BY DEF HttpInv, Writing1
<1> DEFINE w == h2.written
           g == Given(h2)
<1>2. /\ h2 \in Server2Type /\ w \in Bytes /\ h2.copy \in Bytes /\ g = w \o h2.copy
      /\ FramesFollow(g, h2.made)
  BY DEF HttpInv, Server2OK, Server2Type, Given
<1>3. Len(w) \in Nat /\ Len(h2.copy) \in Nat /\ DOMAIN w = 1 .. Len(w)
  BY <1>2 DEF Bytes
<1>4. \A i \in 1 .. Len(w) : g[i] = w[i] /\ i \in DOMAIN g
  <2> DEFINE c == h2.copy
  <2>1. w \in Bytes /\ c \in Bytes /\ g = w \o c
    BY <1>2
  <2> HIDE DEF w, g, c
  <2> QED
    BY <2>1, JoinedFirst
<1> HIDE DEF w, g
<1>5. ASSUME NEW i \in DOMAIN w
      PROVE  LET stream == w[i][1]
                 n == Cardinality({j \in 1 .. i : w[j][1] = stream})
             IN  stream # 0 => \E k \in DOMAIN h2.made :
                   /\ h2.made[k][1] = stream
                   /\ n <= Len(Frames2(stream, h2.made[k][2]))
                   /\ w[i] = Frames2(stream, h2.made[k][2])[n]
  <2>1. i \in 1 .. Len(w) /\ g[i] = w[i] /\ i \in DOMAIN g
    BY <1>3, <1>4, <1>5
  <2>2. \A j \in 1 .. i : j \in 1 .. Len(w)
    BY <1>3, <2>1
  <2>3. \A j \in 1 .. i : g[j] = w[j]
    BY <1>4, <2>2
  <2>4. \A stream : OnStream(g, stream, i) = Cardinality({j \in 1 .. i : w[j][1] = stream})
    BY <2>3 DEF OnStream
  <2> DEFINE stream == w[i][1]
             n == Cardinality({j \in 1 .. i : w[j][1] = stream})
             it == w[i]
  <2>5. n = OnStream(g, stream, i) /\ g[i] = it /\ g[i][1] = stream
    BY <2>1, <2>4
  <2> HIDE DEF n, stream, it
  <2>6. stream # 0 => \E k \in DOMAIN h2.made :
          /\ h2.made[k][1] = stream
          /\ n <= Len(Frames2(stream, h2.made[k][2]))
          /\ it = Frames2(stream, h2.made[k][2])[n]
    BY <1>2, <2>1, <2>5 DEF FramesFollow
  <2> QED
    BY <2>6 DEF n, stream, it
<1> QED
  BY <1>1, <1>5 DEF ResponsesInOrder, w

\* Whatever the programs and the routers, and however little the buffers and the
\* window hold: each session and each client is always at one of its awaits or
\* steps, a buffer never holds more than it can, and send_data and the client's
\* read loop keep the window and the count of turns within their bounds.
THEOREM HttpTypeCorrect == HttpSpec => []HttpTypeOK
<1>1. HttpInit => HttpInv
  BY HttpInvInit
<1>2. HttpInv /\ [HttpNext]_httpVars => HttpInv'
  BY HttpInvNext
<1>3. HttpInv => HttpTypeOK
  BY TypesImply DEF HttpInv
<1> QED
  BY <1>1, <1>2, <1>3, PTL DEF HttpSpec

\* Whatever the sends take of a response and the client of another make writes
\* or resets: write_response's loop puts the HTTP/1.1 responses on the wire one
\* after the other in the order they were made, each byte once; send_data puts
\* on an HTTP/2 stream nothing but the frames, each once and in order, of a
\* response that was made to the stream.
THEOREM ResponsesInOrderAlways == HttpSpec => []ResponsesInOrder
<1>1. HttpInit => HttpInv
  BY HttpInvInit
<1>2. HttpInv /\ [HttpNext]_httpVars => HttpInv'
  BY HttpInvNext
<1>3. HttpInv => ResponsesInOrder
  BY InvOrders
<1> QED
  BY <1>1, <1>2, <1>3, PTL DEF HttpSpec
=============================================================================
