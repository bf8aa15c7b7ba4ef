--------------------------- MODULE Counting_proofs ---------------------------
(***************************************************************************)
(* How often a value occurs in a sequence, or in the sequences of several  *)
(* owners, and what appending, cutting, joining and replacing them does to *)
(* that number.  The proofs that no coroutine handle is lost or duplicated *)
(* by the run queues and by the scheduler count its places with these.     *)
(***************************************************************************)
EXTENDS Integers, Sequences, FiniteSets, FiniteSetTheorems, WellFoundedInduction, TLAPS

Is(x, t) == IF x = t THEN 1 ELSE 0
In(t, S) == IF t \in S THEN 1 ELSE 0

\* How often t is in a sequence, ...
Occ(s, t) == Cardinality({i \in DOMAIN s : s[i] = t})

\* ... and in a function's sequences.
Spots(f) == UNION {{w} \X DOMAIN f[w] : w \in DOMAIN f}
Among(f, t) == Cardinality({p \in Spots(f) : f[p[1]][p[2]] = t})

-----------------------------------------------------------------------------
(* Numbers.                                                                *)

\* A set of numbers with 0 that has each successor is the set of all numbers.
LEMMA NatSetInduction ==
  ASSUME NEW T \in SUBSET Nat, 0 \in T, \A n \in T : n + 1 \in T
  PROVE  T = Nat
<1> DEFINE R == StrictSubsetOrdering(Nat)
           F == FiniteSubsetsOf(Nat)
<1>1. IsWellFoundedOn(R, F)
  BY FS_StrictSubsetOrderingWellFounded
<1>2. SUFFICES ASSUME NEW b \in Nat \ T PROVE FALSE
  OBVIOUS
<1> DEFINE U == {0 .. n : n \in Nat \ T}
<1>3. U \subseteq F /\ U # {}
  <2>1. \A n \in Nat : IsFiniteSet(0 .. n)
    BY FS_Interval
  <2> QED
    BY <2>1, <1>2 DEF FiniteSubsetsOf
<1>4. PICK I \in U : \A J \in U : ~ (<<J, I>> \in R)
  <2> HIDE DEF U, R, F
  <2> QED
    BY <1>1, <1>3, WFMin
<1>5. PICK n \in Nat \ T : I = 0 .. n
  OBVIOUS
<1>6. n # 0 /\ n - 1 \in Nat \ T
  OBVIOUS
<1>7. <<0 .. n - 1, 0 .. n>> \in R
  <2>1. n \in 0 .. n /\ n \notin 0 .. n - 1 /\ 0 .. n - 1 \subseteq 0 .. n
    OBVIOUS
  <2>2. 0 .. n - 1 \in SUBSET Nat /\ 0 .. n \in SUBSET Nat
    OBVIOUS
  <2> QED
    BY <2>1, <2>2 DEF StrictSubsetOrdering
<1>8. 0 .. n - 1 \in U
  BY <1>6
<1> HIDE DEF U, R
<1> QED
  BY <1>4, <1>5, <1>7, <1>8

-----------------------------------------------------------------------------
(* One sequence.                                                           *)

\* SubSeq of a sequence: its type, its length and its elements, ...
LEMMA SubSeqType ==
  ASSUME NEW S, NEW s \in Seq(S), NEW m \in Nat \ {0}, NEW n \in Nat, n <= Len(s)
  PROVE  /\ SubSeq(s, m, n) \in Seq(S)
         /\ Len(SubSeq(s, m, n)) = IF m <= n THEN n - m + 1 ELSE 0
         /\ \A i \in 1 .. n - m + 1 : SubSeq(s, m, n)[i] = s[m + i - 1]
<1>1. SubSeq(s, m, n) \in Seq(S)
  OBVIOUS
<1>2. Len(SubSeq(s, m, n)) = IF m <= n THEN n - m + 1 ELSE 0
  OBVIOUS
<1>3. ASSUME NEW i \in 1 .. n - m + 1 PROVE SubSeq(s, m, n)[i] = s[m + i - 1]
  OBVIOUS
<1> QED
  BY <1>1, <1>2, <1>3

\* ... and what two sequences make, one after the other.
LEMMA ConcatType ==
  ASSUME NEW S, NEW s \in Seq(S), NEW r \in Seq(S)
  PROVE  /\ s \o r \in Seq(S) /\ Len(s \o r) = Len(s) + Len(r)
         /\ \A i \in 1 .. Len(s) + Len(r) :
              (s \o r)[i] = IF i <= Len(s) THEN s[i] ELSE r[i - Len(s)]
  OBVIOUS

\* The positions of a value in a sequence are finitely many.
LEMMA OccType ==
  ASSUME NEW S, NEW s \in Seq(S), NEW t
  PROVE  IsFiniteSet({i \in DOMAIN s : s[i] = t}) /\ Occ(s, t) \in Nat
<1>1. IsFiniteSet(1 .. Len(s)) /\ DOMAIN s = 1 .. Len(s)
  BY FS_Interval
<1>2. IsFiniteSet({i \in DOMAIN s : s[i] = t})
  BY <1>1, FS_Subset
<1> QED
  BY <1>2, FS_CardinalityType DEF Occ

\* A set of numbers moved up.
LEMMA Shifted ==
  ASSUME NEW n \in Int, NEW J \in SUBSET Nat, IsFiniteSet(J)
  PROVE  /\ IsFiniteSet({i + n : i \in J})
         /\ Cardinality({i + n : i \in J}) = Cardinality(J)
<1> DEFINE K == {i + n : i \in J}
           f == [i \in J |-> i + n]
<1>1. f \in [J -> K] /\ \A i \in J : f[i] = i + n
  OBVIOUS
<1>2. \A i, j \in J : f[i] = f[j] => i = j
  <2> HIDE DEF f
  <2> QED
    BY <1>1
<1>3. \A k \in K : \E i \in J : f[i] = k
  BY <1>1
<1> HIDE DEF f, K
<1>4. f \in Bijection(J, K)
  BY <1>1, <1>2, <1>3 DEF Bijection, Injection, Surjection, IsInjective
<1>5. ExistsBijection(J, K)
  BY <1>4 DEF ExistsBijection
<1> QED
  BY <1>5, FS_Bijection DEF K

\* Two sequences joined hold what each holds, ...
LEMMA OccConcat ==
  ASSUME NEW S, NEW s \in Seq(S), NEW r \in Seq(S), NEW t
  PROVE  Occ(s \o r, t) = Occ(s, t) + Occ(r, t)
<1> DEFINE c == s \o r
           n == Len(s)
           I == {i \in DOMAIN s : s[i] = t}
           J == {i \in DOMAIN r : r[i] = t}
           K == {i + n : i \in J}
           C == {i \in DOMAIN c : c[i] = t}
<1>1. /\ c \in Seq(S) /\ Len(c) = n + Len(r) /\ n \in Nat /\ Len(r) \in Nat
      /\ \A i \in 1 .. n + Len(r) : c[i] = IF i <= n THEN s[i] ELSE r[i - n]
  BY ConcatType
<1>2. DOMAIN s = 1 .. n /\ DOMAIN r = 1 .. Len(r) /\ DOMAIN c = 1 .. n + Len(r)
  BY <1>1
<1>3. IsFiniteSet(I) /\ IsFiniteSet(J) /\ Occ(s, t) \in Nat /\ Occ(r, t) \in Nat
  BY OccType
<1>4. Occ(s, t) = Cardinality(I) /\ Occ(r, t) = Cardinality(J) /\ Occ(c, t) = Cardinality(C)
  BY DEF Occ
<1> HIDE DEF c, n
<1>5. I \subseteq 1 .. n /\ J \subseteq 1 .. Len(r)
  BY <1>2
<1>6. C = I \cup K
  <2>1. ASSUME NEW i \in C, i > n PROVE i \in K
    <3>1. i - n \in J /\ i = (i - n) + n
      BY <1>1, <1>2, <2>1
    <3> QED
      BY <3>1
  <2>2. ASSUME NEW i \in C, i <= n PROVE i \in I
    BY <1>1, <1>2, <2>2
  <2>3. \A i \in I : i \in C
    BY <1>1, <1>2
  <2>4. ASSUME NEW j \in J PROVE j + n \in C
    <3>1. j \in 1 .. Len(r) /\ r[j] = t
      BY <1>2
    <3>2. j + n \in 1 .. n + Len(r) /\ ~(j + n <= n) /\ (j + n) - n = j
      BY <1>1, <3>1
    <3>3. c[j + n] = t
      BY <1>1, <3>1, <3>2
    <3> QED
      BY <1>2, <3>2, <3>3
  <2>5. \A i \in C : i \in Int
    BY <1>1, <1>2
  <2>6. \A k \in K : k \in C
    BY <2>4
  <2> HIDE DEF C, I, K, J
  <2> QED
    BY <1>1, <2>1, <2>2, <2>3, <2>5, <2>6
<1> HIDE DEF I, J, C
<1>9. IsFiniteSet(K) /\ Cardinality(K) = Cardinality(J) /\ I \cap K = {}
  <2>1. I \cap K = {}
    BY <1>1, <1>5
  <2>2. J \in SUBSET Nat /\ IsFiniteSet(J) /\ n \in Int
    BY <1>1, <1>3, <1>5
  <2>3. IsFiniteSet(K) /\ Cardinality(K) = Cardinality(J)
    BY <2>2, Shifted, Zenon
  <2> QED
    BY <2>1, <2>3
<1> HIDE DEF K
<1>7. Cardinality(I \cup K) = Cardinality(I) + Cardinality(K) - Cardinality(I \cap K)
  BY <1>3, <1>9, FS_Union
<1>8. Cardinality({}) = 0
  BY FS_EmptySet
<1>11. Cardinality(I \cap K) = 0 /\ Cardinality(K) = Occ(r, t)
  BY <1>4, <1>8, <1>9
<1>10. Occ(c, t) = Occ(s, t) + Occ(r, t)
  <2> HIDE DEF C
  <2> QED
    BY <1>3, <1>4, <1>6, <1>7, <1>11
<1> QED
  BY <1>10, Zenon DEF c

\* ... one more holds one more, ...
LEMMA OccAppend ==
  ASSUME NEW S, NEW s \in Seq(S), NEW x \in S, NEW t
  PROVE  Occ(Append(s, x), t) = Occ(s, t) + Is(x, t)
<1>1. Append(s, x) = s \o <<x>> /\ <<x>> \in Seq(S)
  OBVIOUS
<1>2. Occ(<<x>>, t) = Is(x, t)
  <2> DEFINE q == <<x>>
             I == {i \in DOMAIN q : q[i] = t}
  <2>1. DOMAIN q = {1} /\ q[1] = x
    OBVIOUS
  <2> HIDE DEF q
  <2>2. I = IF x = t THEN {1} ELSE {}
    BY <2>1
  <2>3. Occ(q, t) = Cardinality(I)
    BY DEF Occ
  <2> HIDE DEF I
  <2>4. Occ(q, t) = Is(x, t)
    BY <2>2, <2>3, FS_EmptySet, FS_Singleton DEF Is
  <2> QED
    BY <2>4 DEF q
<1>3. Occ(s \o <<x>>, t) = Occ(s, t) + Occ(<<x>>, t)
  BY <1>1, OccConcat, Zenon
<1> QED
  BY <1>1, <1>2, <1>3, Zenon

\* ... and the parts of a sequence that is cut hold what it held.
LEMMA OccSplit ==
  ASSUME NEW S, NEW s \in Seq(S), NEW n \in 0 .. Len(s), NEW t
  PROVE  Occ(s, t) = Occ(SubSeq(s, 1, n), t) + Occ(SubSeq(s, n + 1, Len(s)), t)
<1> DEFINE a == SubSeq(s, 1, n)
           b == SubSeq(s, n + 1, Len(s))
<1>1. /\ a \in Seq(S) /\ Len(a) = n /\ \A i \in 1 .. n : a[i] = s[i]
      /\ b \in Seq(S) /\ Len(b) = Len(s) - n
      /\ \A i \in 1 .. Len(s) - n : b[i] = s[n + i]
  <2>1. Len(s) \in Nat /\ n \in Nat /\ n <= Len(s) /\ n + 1 \in Nat \ {0}
    OBVIOUS
  <2>2. /\ a \in Seq(S) /\ Len(a) = IF 1 <= n THEN n - 1 + 1 ELSE 0
        /\ \A i \in 1 .. n - 1 + 1 : a[i] = s[1 + i - 1]
    BY <2>1, SubSeqType
  <2>3. /\ b \in Seq(S)
        /\ Len(b) = IF n + 1 <= Len(s) THEN Len(s) - (n + 1) + 1 ELSE 0
        /\ \A i \in 1 .. Len(s) - (n + 1) + 1 : b[i] = s[n + 1 + i - 1]
    BY <2>1, SubSeqType
  <2> HIDE DEF a, b
  <2>4. ASSUME NEW i \in 1 .. n PROVE a[i] = s[i]
    <3>1. i \in 1 .. n - 1 + 1 /\ 1 + i - 1 = i
      BY <2>1
    <3> QED
      BY <2>2, <3>1
  <2>5. ASSUME NEW i \in 1 .. Len(s) - n PROVE b[i] = s[n + i]
    <3>1. i \in 1 .. Len(s) - (n + 1) + 1 /\ n + 1 + i - 1 = n + i
      BY <2>1
    <3> QED
      BY <2>3, <3>1
  <2>6. Len(a) = n /\ Len(b) = Len(s) - n
    BY <2>1, <2>2, <2>3
  <2> QED
    BY <2>2, <2>3, <2>4, <2>5, <2>6
<1> HIDE DEF a, b
<1>2. a \o b = s
  <2>1. /\ a \o b \in Seq(S) /\ Len(a \o b) = Len(s)
        /\ \A i \in 1 .. Len(s) : (a \o b)[i] = IF i <= n THEN a[i] ELSE b[i - n]
    BY <1>1, ConcatType
  <2> DEFINE c == a \o b
  <2>2. ASSUME NEW i \in 1 .. Len(s) PROVE c[i] = s[i]
    <3>1. c[i] = IF i <= n THEN a[i] ELSE b[i - n]
      BY <2>1
    <3> HIDE DEF c
    <3>2. CASE i <= n
      BY <1>1, <3>1, <3>2
    <3>3. CASE i > n
      <4>1. i - n \in 1 .. Len(s) - n /\ n + (i - n) = i
        BY <3>3
      <4>2. b[i - n] = s[n + (i - n)]
        BY <1>1, <4>1
      <4> QED
        BY <3>1, <3>3, <4>1, <4>2
    <3> QED
      BY <3>2, <3>3
  <2> HIDE DEF c
  <2>3. c \in Seq(S) /\ Len(c) = Len(s) /\ \A i \in 1 .. Len(s) : c[i] = s[i]
    BY <2>1, <2>2, Zenon DEF c
  <2>4. c = s
    BY <2>3
  <2> QED
    BY <2>4 DEF c
<1>3. Occ(a \o b, t) = Occ(a, t) + Occ(b, t)
  BY <1>1, OccConcat
<1> QED
  BY <1>2, <1>3 DEF a, b

\* The last one of a part.
LEMMA OccLast ==
  ASSUME NEW S, NEW s \in Seq(S), NEW n \in 1 .. Len(s), NEW t
  PROVE  Occ(SubSeq(s, 1, n), t) = Occ(SubSeq(s, 1, n - 1), t) + Is(s[n], t)
<1>1. SubSeq(s, 1, n) = Append(SubSeq(s, 1, n - 1), s[n])
  OBVIOUS
<1>2. SubSeq(s, 1, n - 1) \in Seq(S) /\ s[n] \in S
  OBVIOUS
<1> QED
  BY ZenonT(30), <1>1, <1>2, OccAppend

\* Taking the first.
LEMMA OccTail ==
  ASSUME NEW S, NEW s \in Seq(S), s # << >>, NEW t
  PROVE  /\ Occ(s, t) = Is(Head(s), t) + Occ(Tail(s), t)
         /\ Head(s) \in S /\ Tail(s) \in Seq(S)
<1>1. /\ Head(s) \in S /\ Tail(s) \in Seq(S)
      /\ s = <<Head(s)>> \o Tail(s) /\ << >> \in Seq(S)
      /\ <<Head(s)>> = Append(<< >>, Head(s))
  OBVIOUS
<1>2. Occ(<< >>, t) = 0
  <2>1. {i \in DOMAIN << >> : << >>[i] = t} = {}
    OBVIOUS
  <2> QED
    BY <2>1, FS_EmptySet DEF Occ
<1>3. Occ(<<Head(s)>>, t) = Is(Head(s), t)
  <2>1. Occ(Append(<< >>, Head(s)), t) = Occ(<< >>, t) + Is(Head(s), t)
    BY <1>1, OccAppend
  <2>2. Is(Head(s), t) \in Nat
    BY DEF Is
  <2> QED
    BY <1>1, <1>2, <2>1, <2>2
<1>4. Occ(<<Head(s)>> \o Tail(s), t) = Occ(<<Head(s)>>, t) + Occ(Tail(s), t)
  <2>1. <<Head(s)>> \in Seq(S)
    BY <1>1
  <2> QED
    BY <1>1, <2>1, OccConcat, Zenon
<1>5. Occ(s, t) = Occ(<<Head(s)>>, t) + Occ(Tail(s), t)
  BY <1>1, <1>4, Zenon
<1>6. Occ(s, t) = Is(Head(s), t) + Occ(Tail(s), t)
  BY <1>3, <1>5, Zenon
<1> QED
  BY <1>1, <1>6, Zenon

\* A sequence cut in three: the tasks before the n-th, the n-th, and the rest.
LEMMA OccCut ==
  ASSUME NEW S, NEW s \in Seq(S), NEW n \in 1 .. Len(s), NEW t
  PROVE  /\ Occ(s, t) = Occ(SubSeq(s, 1, n - 1), t) + Is(s[n], t)
                        + Occ(SubSeq(s, n + 1, Len(s)), t)
         /\ Occ(SubSeq(s, 1, n - 1), t) \in Nat /\ Is(s[n], t) \in Nat
         /\ Occ(SubSeq(s, n + 1, Len(s)), t) \in Nat
         /\ SubSeq(s, 1, n - 1) \in Seq(S) /\ s[n] \in S
         /\ SubSeq(s, n + 1, Len(s)) \in Seq(S)
<1>1. Occ(s, t) = Occ(SubSeq(s, 1, n), t) + Occ(SubSeq(s, n + 1, Len(s)), t)
  <2>1. n \in 0 .. Len(s)
    OBVIOUS
  <2> QED
    BY <2>1, OccSplit
<1>2. Occ(SubSeq(s, 1, n), t) = Occ(SubSeq(s, 1, n - 1), t) + Is(s[n], t)
  BY OccLast
<1>3. SubSeq(s, 1, n - 1) \in Seq(S) /\ SubSeq(s, n + 1, Len(s)) \in Seq(S)
      /\ s[n] \in S
  OBVIOUS
<1>4. /\ Occ(SubSeq(s, 1, n - 1), t) \in Nat /\ Occ(SubSeq(s, n + 1, Len(s)), t) \in Nat
      /\ Is(s[n], t) \in Nat
  BY <1>3, OccType DEF Is
<1> QED
  BY <1>1, <1>2, <1>3, <1>4

-----------------------------------------------------------------------------
(* One owner's part of what all of them have.                              *)

\* Two sets that differ in one element.
LEMMA OneChanged ==
  ASSUME NEW S, IsFiniteSet(S), NEW A \in SUBSET S, NEW B \in SUBSET S,
         NEW x, A \ {x} = B \ {x}
  PROVE  /\ Cardinality(A) \in Nat /\ Cardinality(B) \in Nat
         /\ Cardinality(B) = Cardinality(A) - In(x, A) + In(x, B)
         /\ In(x, A) <= Cardinality(A)
<1>1. IsFiniteSet(A) /\ IsFiniteSet(B)
  BY FS_Subset
<1>2. Cardinality(A) \in Nat /\ Cardinality(B) \in Nat
  BY <1>1, FS_CardinalityType
<1>3. Cardinality(A \ {x}) = IF x \in A THEN Cardinality(A) - 1 ELSE Cardinality(A)
  BY <1>1, FS_RemoveElement
<1>4. Cardinality(B \ {x}) = IF x \in B THEN Cardinality(B) - 1 ELSE Cardinality(B)
  BY <1>1, FS_RemoveElement
<1>5. Cardinality(A \ {x}) = Cardinality(B \ {x})
  OBVIOUS
<1>6. Cardinality(A \ {x}) \in Nat
  BY <1>1, FS_RemoveElement, FS_CardinalityType
<1> QED
  BY <1>2, <1>3, <1>4, <1>5, <1>6 DEF In

\* The sequences of the owners W, or other functions with finite domains.
Owned(f, W) == DOMAIN f = W /\ \A w \in W : IsFiniteSet(DOMAIN f[w])

\* The places of a value in the sequences of all owners but one.
Others(f, w, t) == {p \in Spots(f) : p[1] # w /\ f[p[1]][p[2]] = t}

\* The spots of finitely many sequences.
LEMMA SpotsFinite ==
  ASSUME NEW W, IsFiniteSet(W), NEW f, Owned(f, W)
  PROVE  IsFiniteSet(Spots(f))
<1> DEFINE g == [w \in W |-> {w} \X DOMAIN f[w]]
           T == {{w} \X DOMAIN f[w] : w \in W}
<1>1. g \in Surjection(W, T)
  <2>1. g \in [W -> T] /\ \A x \in T : \E w \in W : g[w] = x
    OBVIOUS
  <2> HIDE DEF g, T
  <2> QED
    BY <2>1 DEF Surjection
<1>3. IsFiniteSet(T)
  <2> HIDE DEF g, T
  <2> QED
    BY <1>1, FS_Surjection
<1>4. ASSUME NEW w \in W PROVE IsFiniteSet({w} \X DOMAIN f[w])
  <2>2. IsFiniteSet(DOMAIN f[w])
    BY DEF Owned
  <2>3. IsFiniteSet({w})
    BY FS_Singleton
  <2> QED
    BY <2>2, <2>3, FS_Product
<1>5. \A x \in T : IsFiniteSet(x)
  BY <1>4
<1> HIDE DEF T
<1>6. IsFiniteSet(UNION T)
  BY <1>3, <1>5, FS_UNION
<1> QED
  BY <1>6 DEF T, Spots, Owned

\* Their places, and the one's.
LEMMA AmongSplit ==
  ASSUME NEW W, IsFiniteSet(W), NEW f, Owned(f, W), NEW w \in W, NEW t
  PROVE  /\ Among(f, t) = Cardinality(Others(f, w, t)) + Occ(f[w], t)
         /\ Cardinality(Others(f, w, t)) \in Nat /\ Occ(f[w], t) \in Nat
<1> DEFINE A == {p \in Spots(f) : f[p[1]][p[2]] = t}
           O == Others(f, w, t)
           I == {i \in DOMAIN f[w] : f[w][i] = t}
           M == {w} \X I
<1>1. IsFiniteSet(A) /\ IsFiniteSet(O)
  <2>1. IsFiniteSet(Spots(f))
    BY SpotsFinite
  <2>2. A \in SUBSET Spots(f) /\ O \in SUBSET Spots(f)
    BY DEF Others
  <2> QED
    BY <2>1, <2>2, FS_Subset
<1>2. A = O \cup M /\ O \cap M = {}
  BY DEF Others, Spots, Owned
<1>3. IsFiniteSet(I) /\ Occ(f[w], t) \in Nat /\ Occ(f[w], t) = Cardinality(I)
  <2>1. IsFiniteSet(DOMAIN f[w])
    BY DEF Owned
  <2>2. IsFiniteSet(I)
    BY <2>1, FS_Subset
  <2> QED
    BY <2>2, FS_CardinalityType DEF Occ
<1>4. IsFiniteSet(M) /\ Cardinality(M) = Cardinality(I)
  <2>1. IsFiniteSet({w}) /\ Cardinality({w}) = 1
    BY FS_Singleton
  <2> HIDE DEF I
  <2>2. IsFiniteSet(M) /\ Cardinality(M) = Cardinality({w}) * Cardinality(I)
    BY <1>3, <2>1, FS_Product
  <2> HIDE DEF M
  <2> QED
    BY <1>3, <2>1, <2>2
<1>5. Among(f, t) = Cardinality(A)
  BY DEF Among
<1>6. Cardinality(O) \in Nat
  BY <1>1, FS_CardinalityType
<1> HIDE DEF A, O, I, M
<1>7. Cardinality(O \cup M) = Cardinality(O) + Cardinality(M) - Cardinality(O \cap M)
  BY <1>1, <1>4, FS_Union
<1>8. Cardinality(O \cap M) = 0
  BY <1>2, FS_EmptySet
<1>9. Cardinality(A) = Cardinality(O) + Cardinality(I)
  BY <1>2, <1>3, <1>4, <1>6, <1>7, <1>8
<1> QED
  BY <1>3, <1>5, <1>6, <1>9 DEF O

\* One of them is replaced.
LEMMA AmongChanged ==
  ASSUME NEW W, IsFiniteSet(W), NEW f, Owned(f, W), NEW g, Owned(g, W),
         NEW w \in W, \A v \in W \ {w} : g[v] = f[v], NEW t
  PROVE  /\ Among(g, t) = Among(f, t) - Occ(f[w], t) + Occ(g[w], t)
         /\ Among(g, t) \in Nat /\ Among(f, t) \in Nat
         /\ Occ(f[w], t) \in Nat /\ Occ(g[w], t) \in Nat
         /\ Occ(f[w], t) <= Among(f, t)
<1>1. Others(g, w, t) = Others(f, w, t)
  BY DEF Others, Spots, Owned
<1>2. /\ Among(f, t) = Cardinality(Others(f, w, t)) + Occ(f[w], t)
      /\ Cardinality(Others(f, w, t)) \in Nat /\ Occ(f[w], t) \in Nat
  BY AmongSplit, Zenon
<1>3. /\ Among(g, t) = Cardinality(Others(g, w, t)) + Occ(g[w], t)
      /\ Cardinality(Others(g, w, t)) \in Nat /\ Occ(g[w], t) \in Nat
  BY AmongSplit, Zenon
<1> QED
  BY <1>1, <1>2, <1>3

\* The same of sequences, for the value an action assigns.
LEMMA AmongSequences ==
  ASSUME NEW W, IsFiniteSet(W), NEW S, NEW f \in [W -> Seq(S)], NEW w \in W,
         NEW s \in Seq(S), NEW t
  PROVE  /\ Among([f EXCEPT ![w] = s], t) = Among(f, t) - Occ(f[w], t) + Occ(s, t)
         /\ Among([f EXCEPT ![w] = s], t) \in Nat /\ Among(f, t) \in Nat
         /\ Occ(f[w], t) \in Nat /\ Occ(s, t) \in Nat
         /\ Occ(f[w], t) <= Among(f, t)
<1> DEFINE g == [f EXCEPT ![w] = s]
<1>1. /\ g \in [W -> Seq(S)] /\ g[w] = s
      /\ \A v \in W \ {w} : g[v] = f[v]
  OBVIOUS
<1> HIDE DEF g
<1>2. \A r \in Seq(S) : IsFiniteSet(DOMAIN r)
  <2> TAKE r \in Seq(S)
  <2>1. DOMAIN r = 1 .. Len(r) /\ Len(r) \in Nat
    OBVIOUS
  <2> QED
    BY <2>1, FS_Interval
<1>3. Owned(f, W) /\ Owned(g, W)
  BY <1>1, <1>2 DEF Owned
<1>4. /\ Among(g, t) = Among(f, t) - Occ(f[w], t) + Occ(g[w], t)
      /\ Among(g, t) \in Nat /\ Among(f, t) \in Nat
      /\ Occ(f[w], t) \in Nat /\ Occ(g[w], t) \in Nat
      /\ Occ(f[w], t) <= Among(f, t)
  BY <1>1, <1>3, AmongChanged
<1> QED
  BY <1>1, <1>4 DEF g

-----------------------------------------------------------------------------
(* Functions that differ in some places.                                   *)

\* One place more, or one place less.
LEMMA OccOneMore ==
  ASSUME NEW f, NEW g, NEW k, IsFiniteSet(DOMAIN f), k \notin DOMAIN f,
         DOMAIN g = DOMAIN f \cup {k}, \A i \in DOMAIN f : g[i] = f[i], NEW t
  PROVE  /\ Occ(g, t) = Occ(f, t) + Is(g[k], t)
         /\ Occ(g, t) \in Nat /\ Occ(f, t) \in Nat
<1> DEFINE A == {i \in DOMAIN f : f[i] = t}
           B == {i \in DOMAIN g : g[i] = t}
<1>1. IsFiniteSet(A) /\ k \notin A
  BY FS_Subset
<1>2. B = IF g[k] = t THEN A \cup {k} ELSE A
  OBVIOUS
<1>3. Occ(f, t) = Cardinality(A) /\ Occ(g, t) = Cardinality(B)
  BY DEF Occ
<1> HIDE DEF A, B
<1>4. Cardinality(A) \in Nat /\ Cardinality(A \cup {k}) = Cardinality(A) + 1
  BY <1>1, FS_CardinalityType, FS_AddElement
<1> QED
  BY <1>2, <1>3, <1>4 DEF Is

\* A range of places more, holding what a sequence holds.
LEMMA OccRangeMore ==
  ASSUME NEW f, NEW g, NEW S, NEW s \in Seq(S), NEW m \in Int,
         IsFiniteSet(DOMAIN f),
         \A i \in 1 .. Len(s) : m + i \notin DOMAIN f,
         DOMAIN g = DOMAIN f \cup {m + i : i \in 1 .. Len(s)},
         \A i \in DOMAIN f : g[i] = f[i],
         \A i \in 1 .. Len(s) : g[m + i] = s[i], NEW t
  PROVE  /\ Occ(g, t) = Occ(f, t) + Occ(s, t)
         /\ Occ(g, t) \in Nat /\ Occ(f, t) \in Nat /\ Occ(s, t) \in Nat
<1> DEFINE A == {i \in DOMAIN f : f[i] = t}
           B == {i \in DOMAIN g : g[i] = t}
           J == {i \in DOMAIN s : s[i] = t}
           K == {i + m : i \in J}
<1>1. IsFiniteSet(A)
  BY FS_Subset
<1>2. J \in SUBSET Nat /\ IsFiniteSet(J) /\ Occ(s, t) \in Nat /\ DOMAIN s = 1 .. Len(s)
  BY OccType
<1>3. IsFiniteSet(K) /\ Cardinality(K) = Cardinality(J)
  <2> HIDE DEF J
  <2> QED
    BY <1>2, Shifted, Zenon
<1>4. B = A \cup K /\ A \cap K = {}
  <2>1. \A i \in 1 .. Len(s) : m + i = i + m
    OBVIOUS
  <2>2. \A k : k \in K <=> \E i \in 1 .. Len(s) : s[i] = t /\ k = m + i
    BY <1>2, <2>1
  <2> HIDE DEF K
  <2>3. \A k : k \in B <=> k \in A \/ k \in K
    BY <2>2
  <2>4. \A k \in K : k \notin A
    BY <2>2
  <2> HIDE DEF A, B
  <2> QED
    BY <2>3, <2>4
<1>5. Occ(f, t) = Cardinality(A) /\ Occ(g, t) = Cardinality(B) /\ Occ(s, t) = Cardinality(J)
  BY DEF Occ
<1> HIDE DEF A, B, J, K
<1>6. /\ Cardinality(A \cup K) = Cardinality(A) + Cardinality(K) - Cardinality(A \cap K)
      /\ Cardinality(A \cap K) = 0 /\ Cardinality(A) \in Nat
  BY <1>1, <1>3, <1>4, FS_Union, FS_EmptySet, FS_CardinalityType
<1> QED
  BY <1>2, <1>3, <1>4, <1>5, <1>6
=============================================================================
