--------------------------- MODULE SequenceLemmas ---------------------------
(***************************************************************************)
(* Facts about sequences that the proofs about several components need:    *)
(* appending to and taking out of a sequence without repetitions, several  *)
(* removals one after the other, and sorting.                              *)
(*                                                                         *)
(* The induction theorems of the library take an operator as a parameter;  *)
(* what is proved here by induction rests on the least element of a set of *)
(* naturals instead.                                                       *)
(***************************************************************************)
EXTENDS SequencesExt, SequenceTheorems, FiniteSetTheorems, WellFoundedInduction, TLAPS

-----------------------------------------------------------------------------
(* Induction over sets of naturals. *)

\* A set of naturals that is not empty has a least element.
LEMMA LeastElement ==
    ASSUME NEW T, T \subseteq Nat, T # {}
    PROVE  \E n \in T : \A m \in T : n <= m
<1> DEFINE R == {ss \in Nat \X Nat : ss[1] < ss[2]}
<1>1. OpToRel(<, Nat) = R
  BY DEF OpToRel
<1>2. IsWellFoundedOn(R, Nat)
  BY <1>1, NatLessThanWellFounded
<1>3. PICK x \in T : \A y \in T : ~ (<<y, x>> \in R)
  <2> HIDE DEF R
  <2> QED BY <1>2, WFMin
<1>4. ASSUME NEW y \in T PROVE x <= y
  <2>1. x \in Nat /\ y \in Nat /\ ~ (y < x)
    BY <1>3
  <2> QED BY <2>1
<1> QED BY <1>4

\* What holds at 0 and passes on to the next holds up to N.
LEMMA UpTo ==
    ASSUME NEW N \in Nat, NEW T, 0 \in T,
           \A k \in 1..N : k - 1 \in T => k \in T
    PROVE  0..N \subseteq T
<1>1. SUFFICES ASSUME (0..N) \ T # {} PROVE FALSE
  OBVIOUS
<1>2. PICK k \in (0..N) \ T : \A m \in (0..N) \ T : k <= m
  <2>1. (0..N) \ T \subseteq Nat
    OBVIOUS
  <2> QED BY <1>1, <2>1, LeastElement
<1>3. k \in 1..N /\ k - 1 \in 0..N
  BY <1>2
<1>4. k - 1 \in T
  BY <1>2, <1>3
<1> QED BY <1>2, <1>3, <1>4

-----------------------------------------------------------------------------
(* One element more or less. *)

\* A sequence without repetitions.
Distinct(q) == \A i, j \in DOMAIN q : q[i] = q[j] => i = j

\* What q has of s is in the order of s.
KeepsOrder(q, s) ==
    \A i, j \in DOMAIN q, m, n \in DOMAIN s :
        i < j /\ q[i] = s[m] /\ q[j] = s[n] => m < n

\* Appending a new element.
LEMMA Appended ==
    ASSUME NEW S, NEW q \in Seq(S), NEW x \in S
    PROVE  /\ Append(q, x) \in Seq(S)
           /\ Range(Append(q, x)) = Range(q) \cup {x}
           /\ Distinct(q) /\ x \notin Range(q) => Distinct(Append(q, x))
<1> DEFINE a == Append(q, x)
<1>1. /\ a \in Seq(S) /\ Len(a) = Len(q) + 1 /\ a[Len(q) + 1] = x
      /\ \A i \in 1..Len(q) : a[i] = q[i]
  OBVIOUS
<1>2. DOMAIN q = 1..Len(q) /\ DOMAIN a = 1..(Len(q) + 1) /\ Len(q) \in Nat
  BY <1>1
<1>3. Range(a) = Range(q) \cup {x}
  BY <1>1, <1>2 DEF Range
<1>4. ASSUME Distinct(q), x \notin Range(q)
      PROVE  Distinct(a)
  BY <1>1, <1>2, <1>4 DEF Distinct, Range
<1> QED
  BY <1>1, <1>3, <1>4

\* Taking the element at i out of a sequence.
LEMMA RemovedAt ==
    ASSUME NEW S, NEW q \in Seq(S), NEW i \in DOMAIN q
    PROVE  /\ RemoveAt(q, i) \in Seq(S)
           /\ Len(q) \in Nat /\ Len(RemoveAt(q, i)) = Len(q) - 1
           /\ DOMAIN q = 1..Len(q) /\ DOMAIN RemoveAt(q, i) = 1..(Len(q) - 1)
           /\ \A k \in 1..(Len(q) - 1) :
                 RemoveAt(q, i)[k] = IF k < i THEN q[k] ELSE q[k + 1]
<1> DEFINE r == RemoveAt(q, i)
           n == Len(q)
<1>1. n \in Nat /\ DOMAIN q = 1..n /\ i \in 1..n
  OBVIOUS
<1>2. /\ r \in Seq(S) /\ Len(r) = n - 1
      /\ \A k \in 1..(n-1) : r[k] = IF k < i THEN q[k] ELSE q[k+1]
  <2> DEFINE front == SubSeq(q, 1, i-1)
             back == SubSeq(q, i+1, n)
  <2>1. /\ front \in Seq(S) /\ Len(front) = i - 1
        /\ \A k \in 1..(i-1) : front[k] = q[k]
    <3>1. \A k \in 1..(i-1) : q[k] \in S
      BY <1>1
    <3> QED
      BY <1>1, <3>1, SubSeqProperties
  <2>2. /\ back \in Seq(S) /\ Len(back) = n - i
        /\ \A k \in 1..(n-i) : back[k] = q[i+k]
    <3>1. \A k \in (i+1)..n : q[k] \in S
      BY <1>1
    <3>2. /\ back \in Seq(S) /\ Len(back) = IF i+1 <= n THEN n-(i+1)+1 ELSE 0
          /\ \A k \in 1..(n-(i+1)+1) : back[k] = q[(i+1)+k-1]
      BY <1>1, <3>1, SubSeqProperties
    <3> QED
      BY <1>1, <3>2
  <2>3. /\ front \o back \in Seq(S)
        /\ Len(front \o back) = Len(front) + Len(back)
        /\ \A k \in 1..(Len(front) + Len(back)) :
              (front \o back)[k] = IF k <= Len(front) THEN front[k] ELSE back[k - Len(front)]
    BY <2>1, <2>2, ConcatProperties
  <2>4. r = front \o back
    BY DEF RemoveAt
  <2>5. ASSUME NEW k \in 1..(n-1)
        PROVE  r[k] = IF k < i THEN q[k] ELSE q[k+1]
    <3> HIDE DEF front, back, r
    <3>1. CASE k < i
      BY <1>1, <2>1, <2>2, <2>3, <2>4, <3>1
    <3>2. CASE k >= i
      <4>0. k - (i-1) \in 1..(n-i) /\ k \in 1..((i-1) + (n-i)) /\ ~(k <= i-1)
        BY <1>1, <3>2
      <4>1. r[k] = back[k - (i-1)] /\ k - (i-1) \in 1..(n-i)
        <5>1. Len(front) = i-1 /\ Len(back) = n-i
          BY Zenon, <2>1, <2>2
        <5> QED
          BY Zenon, <2>3, <2>4, <4>0, <5>1
      <4>2. back[k - (i-1)] = q[i + (k - (i-1))] /\ i + (k - (i-1)) = k + 1
        BY <1>1, <2>2, <4>1
      <4> QED
        BY <1>1, <3>2, <4>1, <4>2
    <3> QED
      BY <1>1, <3>1, <3>2
  <2>6. r \in Seq(S) /\ Len(r) = n - 1
    <3>1. r \in Seq(S) /\ Len(r) = Len(front) + Len(back)
      BY Zenon, <2>3, <2>4
    <3>2. Len(front) + Len(back) = n - 1
      <4> HIDE DEF front, back
      <4> QED
        BY <1>1, <2>1, <2>2
    <3> QED
      BY Zenon, <3>1, <3>2
  <2> QED
    BY Zenon, <2>5, <2>6
<1>3. DOMAIN r = 1..(n-1)
  BY <1>1, <1>2
<1> QED
  BY <1>1, <1>2, <1>3

\* Taking it out of a sequence without repetitions.
LEMMA Removed ==
    ASSUME NEW S, NEW q \in Seq(S), Distinct(q), NEW i \in DOMAIN q
    PROVE  /\ RemoveAt(q, i) \in Seq(S)
           /\ Range(RemoveAt(q, i)) = Range(q) \ {q[i]}
           /\ Distinct(RemoveAt(q, i))
<1> DEFINE r == RemoveAt(q, i)
           n == Len(q)
<1>1. n \in Nat /\ DOMAIN q = 1..n /\ i \in 1..n
  OBVIOUS
<1>2. /\ r \in Seq(S) /\ Len(r) = n - 1
      /\ \A k \in 1..(n-1) : r[k] = IF k < i THEN q[k] ELSE q[k+1]
  BY RemovedAt
<1>3. DOMAIN r = 1..(n-1)
  BY <1>1, <1>2
<1>4. ASSUME NEW k \in 1..(n-1)
      PROVE  r[k] # q[i] /\ r[k] \in Range(q)
  <2> DEFINE m == IF k < i THEN k ELSE k + 1
  <2>1. m \in 1..n /\ m # i /\ r[k] = q[m]
    <3>1. r[k] = IF k < i THEN q[k] ELSE q[k+1]
      BY <1>2
    <3>2. m \in 1..n /\ m # i
      BY <1>1
    <3>3. r[k] = q[m]
      BY Zenon, <3>1
    <3> QED
      BY <3>2, <3>3
  <2> QED
    BY <1>1, <2>1 DEF Distinct, Range
<1>5. ASSUME NEW y \in Range(q) \ {q[i]}
      PROVE  y \in Range(r)
  <2>1. PICK k \in 1..n : y = q[k]
    BY <1>1 DEF Range
  <2>2. CASE k < i
    BY <1>1, <1>2, <1>3, <2>1, <2>2 DEF Range
  <2>3. CASE k > i
    <3>1. k - 1 \in 1..(n-1) /\ r[k-1] = q[k]
      BY <1>1, <1>2, <2>3
    <3> QED
      BY <1>3, <2>1, <3>1 DEF Range
  <2> QED
    BY <1>1, <1>5, <2>1, <2>2, <2>3
<1>6. Range(r) = Range(q) \ {q[i]}
  BY <1>3, <1>4, <1>5 DEF Range
<1>7. Distinct(r)
  <2> DEFINE m(k) == IF k < i THEN k ELSE k + 1
  <2>1. \A k \in 1..(n-1) : m(k) \in 1..n /\ r[k] = q[m(k)]
    BY <1>1, <1>2
  <2>2. \A j, k \in 1..(n-1) : m(j) = m(k) => j = k
    BY <1>1
  <2>3. ASSUME NEW j \in 1..(n-1), NEW k \in 1..(n-1), r[j] = r[k]
        PROVE  j = k
    <3> HIDE DEF m, r, n
    <3>1. m(j) \in DOMAIN q /\ m(k) \in DOMAIN q /\ q[m(j)] = q[m(k)]
      BY <1>1, <2>1, <2>3
    <3> QED
      BY <2>2, <3>1 DEF Distinct
  <2> QED
    BY Zenon, <1>3, <2>3 DEF Distinct
<1> QED
  BY <1>2, <1>6, <1>7

\* A removal keeps the order.
LEMMA RemovedInOrder ==
    ASSUME NEW S, NEW q \in Seq(S), NEW i \in DOMAIN q, NEW s, KeepsOrder(q, s)
    PROVE  KeepsOrder(RemoveAt(q, i), s)
<1> DEFINE r == RemoveAt(q, i)
           N == Len(q)
           m(k) == IF k < i THEN k ELSE k + 1
<1>1. N \in Nat /\ DOMAIN q = 1..N /\ DOMAIN r = 1..(N-1) /\ i \in 1..N
  BY RemovedAt
<1>2. \A k \in 1..(N-1) : r[k] = IF k < i THEN q[k] ELSE q[k+1]
  BY RemovedAt
<1> HIDE DEF r, N
<1>3. \A k \in 1..(N-1) : m(k) \in 1..N /\ r[k] = q[m(k)]
  BY <1>1, <1>2
<1>4. \A j, k \in 1..(N-1) : j < k => m(j) < m(k)
  BY <1>1
<1> HIDE DEF m
<1>5. KeepsOrder(r, s)
  BY <1>1, <1>3, <1>4 DEF KeepsOrder
<1> QED
  BY <1>5 DEF r

\* Joining two sequences that have nothing in common.
LEMMA Joined ==
    ASSUME NEW S, NEW q \in Seq(S), NEW r \in Seq(S)
    PROVE  /\ q \o r \in Seq(S) /\ Range(q \o r) = Range(q) \cup Range(r)
           /\ Distinct(q) /\ Distinct(r) /\ Range(q) \cap Range(r) = {} => Distinct(q \o r)
<1> DEFINE c == q \o r
           m == Len(q)
           n == Len(r)
<1>1. m \in Nat /\ n \in Nat /\ DOMAIN q = 1..m /\ DOMAIN r = 1..n
  OBVIOUS
<1>2. /\ c \in Seq(S) /\ Len(c) = m + n /\ DOMAIN c = 1..(m + n)
      /\ \A i \in 1..(m + n) : c[i] = IF i <= m THEN q[i] ELSE r[i - m]
  <2>1. /\ c \in Seq(S) /\ Len(c) = m + n
        /\ \A i \in 1..(m + n) : c[i] = IF i <= m THEN q[i] ELSE r[i - m]
    BY ConcatProperties
  <2> HIDE DEF c
  <2> QED
    BY <1>1, <2>1
<1> HIDE DEF c, m, n
<1>3. \A i \in 1..m : c[i] = q[i]
  BY <1>1, <1>2
<1>4. ASSUME NEW i \in 1..n PROVE c[i + m] = r[i] /\ i + m \in 1..(m + n)
  <2>1. i + m \in 1..(m + n) /\ ~ (i + m <= m) /\ (i + m) - m = i
    BY <1>1
  <2> QED
    BY <1>2, <2>1
<1>5. \A k \in 1..(m + n) : k \in 1..m \/ \E i \in 1..n : k = i + m
  <2>1. ASSUME NEW k \in 1..(m + n), k \notin 1..m PROVE k - m \in 1..n /\ k = (k - m) + m
    BY <1>1, <2>1
  <2> QED
    BY <2>1
<1>6. Range(c) = Range(q) \cup Range(r)
  <2>1. ASSUME NEW k \in 1..(m + n) PROVE c[k] \in Range(q) \cup Range(r)
    <3>1. CASE k \in 1..m
      BY <1>1, <1>3, <3>1 DEF Range
    <3>2. ASSUME NEW i \in 1..n, k = i + m PROVE c[k] \in Range(r)
      BY <1>1, <1>4, <3>2 DEF Range
    <3> QED
      BY <1>5, <3>1, <3>2
  <2>2. Range(q) \subseteq Range(c)
    BY <1>1, <1>2, <1>3 DEF Range
  <2>3. ASSUME NEW i \in DOMAIN r PROVE r[i] \in Range(c)
    <3>1. i \in 1..n
      BY <1>1, <2>3
    <3>2. i + m \in DOMAIN c /\ c[i + m] = r[i]
      BY <1>2, <1>4, <3>1
    <3> QED
      BY <3>2 DEF Range
  <2>4. Range(c) \subseteq Range(q) \cup Range(r)
    BY <1>2, <2>1 DEF Range
  <2>5. Range(r) \subseteq Range(c)
    BY <2>3 DEF Range
  <2> QED
    BY <2>2, <2>4, <2>5
<1>7. ASSUME Distinct(q), Distinct(r), Range(q) \cap Range(r) = {}
      PROVE  Distinct(c)
  <2> SUFFICES ASSUME NEW i \in 1..(m + n), NEW j \in 1..(m + n), c[i] = c[j]
               PROVE  i = j
    BY <1>2 DEF Distinct
  <2>1. CASE i \in 1..m /\ j \in 1..m
    BY <1>1, <1>3, <1>7, <2>1 DEF Distinct
  <2>2. ASSUME NEW k \in 1..n, i = k + m, NEW l \in 1..n, j = l + m PROVE i = j
    BY <1>1, <1>4, <1>7, <2>2 DEF Distinct
  <2>3. ASSUME NEW k \in 1..m, NEW l \in 1..n PROVE c[k] # c[l + m]
    <3>1. k \in DOMAIN q /\ c[k] = q[k]
      BY <1>1, <1>3
    <3>2. l \in DOMAIN r /\ c[l + m] = r[l]
      BY <1>1, <1>4
    <3>3. c[k] \in Range(q) /\ c[l + m] \in Range(r)
      BY <3>1, <3>2 DEF Range
    <3> QED
      BY <1>7, <3>3
  <2> QED
    BY <1>5, <2>1, <2>2, <2>3
<1> QED
  BY <1>2, <1>6, <1>7 DEF c

\* The head of a sequence without repetitions is not in its tail.
LEMMA Beheaded ==
    ASSUME NEW S, NEW q \in Seq(S), q # <<>>, Distinct(q)
    PROVE  /\ Head(q) \in S /\ Tail(q) \in Seq(S) /\ Distinct(Tail(q))
           /\ Head(q) \in Range(q)
           /\ Range(Tail(q)) = Range(q) \ {Head(q)}
<1> DEFINE n == Len(q)
           r == Tail(q)
<1>1. n \in Nat \ {0} /\ DOMAIN q = 1..n
  OBVIOUS
<1>2. /\ r \in Seq(S) /\ Len(r) = n - 1 /\ Head(q) = q[1]
      /\ \A k \in 1..(n-1) : r[k] = q[k+1]
  BY <1>1
<1>3. DOMAIN r = 1..(n-1)
  BY <1>1, <1>2
<1>4. ASSUME NEW k \in 1..(n-1)
      PROVE  r[k] # q[1] /\ r[k] \in Range(q)
  BY <1>1, <1>2 DEF Distinct, Range
<1>5. ASSUME NEW y \in Range(q) \ {q[1]}
      PROVE  y \in Range(r)
  <2>1. PICK k \in 1..n : y = q[k] /\ k # 1
    BY <1>1, <1>5 DEF Range
  <2>2. k - 1 \in 1..(n-1) /\ r[k-1] = q[k]
    BY <1>1, <1>2, <2>1
  <2> QED
    BY <1>3, <2>1, <2>2 DEF Range
<1>6. Range(r) = Range(q) \ {q[1]}
  BY <1>3, <1>4, <1>5 DEF Range
<1>7. Distinct(r)
  BY <1>1, <1>2, <1>3 DEF Distinct
<1>8. q[1] \in S /\ q[1] \in Range(q)
  BY <1>1 DEF Range
<1> QED
  BY <1>2, <1>6, <1>7, <1>8

-----------------------------------------------------------------------------
(* Sorting. *)

\* The elements of a finite set can be listed by descending value.
LEMMA SortedExists ==
    ASSUME NEW P, IsFiniteSet(P), P \subseteq Nat, NEW v \in [P -> Int]
    PROVE  \E q \in SetToSeqs(P) :
               \A j, k \in DOMAIN q : j < k => v[q[j]] >= v[q[k]]
<1> DEFINE before(i, j) == v[i] > v[j] \/ (v[i] = v[j] /\ i < j)
           earlier(i) == {j \in P : before(j, i)}
           n == Cardinality(P)
           rank == [i \in P |-> Cardinality(earlier(i)) + 1]
<1>1. n \in Nat
  BY FS_CardinalityType
<1>2. ASSUME NEW i \in P
      PROVE  IsFiniteSet(earlier(i)) /\ Cardinality(earlier(i)) \in 0..(n - 1)
  <2>1. earlier(i) \subseteq P \ {i}
    OBVIOUS
  <2>2. IsFiniteSet(P \ {i}) /\ Cardinality(P \ {i}) = n - 1
    BY FS_RemoveElement
  <2> HIDE DEF earlier, n
  <2>3. IsFiniteSet(earlier(i)) /\ Cardinality(earlier(i)) <= n - 1
    BY <2>1, <2>2, FS_Subset
  <2>4. Cardinality(earlier(i)) \in Nat
    BY <2>3, FS_CardinalityType
  <2> QED BY <1>1, <2>3, <2>4
<1>3. ASSUME NEW i \in P, NEW j \in P, before(i, j)
      PROVE  rank[i] < rank[j]
  <2>0. v[i] \in Int /\ v[j] \in Int /\ i \in Nat /\ j \in Nat
    OBVIOUS
  <2>1. i \notin earlier(i) /\ earlier(i) \cup {i} \subseteq earlier(j)
    <3>1. i \notin earlier(i) /\ i \in earlier(j)
      BY <1>3, <2>0
    <3>2. ASSUME NEW k \in earlier(i) PROVE k \in earlier(j)
      <4>1. k \in P /\ before(k, i)
        BY <3>2
      <4>2. k \in Nat /\ v[k] \in Int
        BY <4>1
      <4>3. before(k, j)
        BY <1>3, <2>0, <4>1, <4>2
      <4> QED BY <4>1, <4>3
    <3> QED BY <3>1, <3>2
  <2> HIDE DEF earlier, n
  <2>2. Cardinality(earlier(i) \cup {i}) = Cardinality(earlier(i)) + 1
    BY <1>2, <2>1, FS_AddElement
  <2>3. Cardinality(earlier(i) \cup {i}) <= Cardinality(earlier(j))
    BY <1>2, <2>1, FS_Subset
  <2>4. Cardinality(earlier(i)) \in Nat /\ Cardinality(earlier(j)) \in Nat
    BY <1>1, <1>2
  <2> QED BY <2>2, <2>3, <2>4
<1>4. rank \in Injection(P, 1..n)
  <2>1. rank \in [P -> 1..n]
    <3>1. \A i \in P : Cardinality(earlier(i)) \in 0..(n - 1)
      BY <1>2
    <3> HIDE DEF earlier, n
    <3> QED BY <1>1, <3>1
  <2>2. ASSUME NEW i \in P, NEW j \in P, i # j PROVE rank[i] # rank[j]
    <3>1. before(i, j) \/ before(j, i)
      BY <2>2
    <3>2. rank[i] \in Nat /\ rank[j] \in Nat
      BY <1>1, <2>1
    <3> HIDE DEF rank, before
    <3> QED BY <1>3, <3>1, <3>2
  <2> QED BY <2>1, <2>2 DEF Injection, IsInjective
<1>5. \A k \in 1..n : \E i \in P : rank[i] = k
  <2> HIDE DEF rank, n
  <2>1. IsFiniteSet(1..n) /\ Cardinality(1..n) = n
    BY <1>1, FS_Interval
  <2>2. rank \in Surjection(P, 1..n)
    BY <1>4, <2>1, FS_Injection DEF n
  <2> QED BY <2>2 DEF Surjection
<1> DEFINE q == [k \in 1..n |-> CHOOSE i \in P : rank[i] = k]
<1>6. \A k \in 1..n : q[k] \in P /\ rank[q[k]] = k
  <2> HIDE DEF rank, n
  <2> QED BY <1>5
<1>7. q \in SetToSeqs(P)
  <2> HIDE DEF rank
  <2>1. q \in [1..n -> P]
    BY <1>6
  <2>2. \A j, k \in 1..n : j # k => q[j] # q[k]
    BY <1>6
  <2> HIDE DEF q
  <2> QED BY <2>1, <2>2 DEF SetToSeqs
<1>8. ASSUME NEW j \in DOMAIN q, NEW k \in DOMAIN q, j < k
      PROVE  v[q[j]] >= v[q[k]]
  <2>1. j \in 1..n /\ k \in 1..n
    OBVIOUS
  <2>2. q[j] \in P /\ q[k] \in P /\ rank[q[j]] = j /\ rank[q[k]] = k
    BY <1>6, <2>1
  <2>3. ~ before(q[k], q[j])
    <3> SUFFICES ASSUME before(q[k], q[j]) PROVE FALSE
      OBVIOUS
    <3>1. rank[q[k]] < rank[q[j]]
      <4> HIDE DEF rank, q
      <4> QED BY <1>3, <2>2
    <3> HIDE DEF rank, before, q, n
    <3> QED BY <1>1, <1>8, <2>1, <2>2, <3>1
  <2>4. v[q[j]] \in Int /\ v[q[k]] \in Int
    BY <2>2
  <2> HIDE DEF q
  <2> QED BY <2>3, <2>4
<1> HIDE DEF q
<1> QED BY <1>7, <1>8

\* A listing of a finite set has all its elements.
LEMMA ListsAll ==
    ASSUME NEW P, IsFiniteSet(P), NEW q \in SetToSeqs(P)
    PROVE  /\ q \in [1..Cardinality(P) -> P] /\ Cardinality(P) \in Nat
           /\ DOMAIN q = 1..Cardinality(P)
           /\ Len(q) = Cardinality(P) /\ q \in Seq(P)
           /\ \A j, k \in DOMAIN q : q[j] = q[k] => j = k
           /\ Range(q) = P
<1> DEFINE n == Cardinality(P)
<1>1. n \in Nat
  BY FS_CardinalityType
<1> HIDE DEF n
<1>2. q \in [1..n -> P] /\ \A j, k \in 1..n : j # k => q[j] # q[k]
  BY DEF SetToSeqs, n
<1>3. DOMAIN q = 1..n /\ q \in Seq(P) /\ Len(q) = n
  BY <1>1, <1>2
<1>4. IsFiniteSet(1..n) /\ Cardinality(1..n) = n
  BY <1>1, FS_Interval
<1>5. q \in Injection(1..n, P)
  BY <1>2 DEF Injection, IsInjective
<1>6. q \in Surjection(1..n, P)
  BY <1>4, <1>5, FS_Injection DEF n
<1>7. Range(q) = P
  BY <1>2, <1>6 DEF Surjection, Range
<1> QED BY <1>1, <1>2, <1>3, <1>7 DEF n

-----------------------------------------------------------------------------
(* Several removals. *)

\* The removals of order leave a shorter and shorter sequence: each is within it.
Within(s, order, N) ==
    \A k \in 1..N : order[k] \in Nat \ {0} /\ order[k] <= Len(s) - (k - 1)

\* g follows s through them.
Follows(g, s, order, N) ==
    g[0] = s /\ \A k \in 1..N : g[k] = RemoveAt(g[k - 1], order[k])

\* What defines such a function recursively.
AfterRemovals(g, s, order, N) ==
    [k \in 0..N |-> IF k = 0 THEN s ELSE RemoveAt(g[k - 1], order[k])]

\* It exists.
LEMMA RemovalsDefined ==
    ASSUME NEW s, NEW order, NEW N \in Nat
    PROVE  \E g : g = AfterRemovals(g, s, order, N)
<1> DEFINE Step(g, k) == IF k = 0 THEN s ELSE RemoveAt(g[k - 1], order[k])
           T == {n \in 0..N : \E g : g = [k \in 0..n |-> Step(g, k)]}
<1>1. 0 \in T
  <2> DEFINE g == [k \in 0..0 |-> s]
  <2>1. g = [k \in 0..0 |-> Step(g, k)]
    OBVIOUS
  <2> HIDE DEF g, Step
  <2> QED BY <2>1
<1>2. ASSUME NEW n \in 1..N, n - 1 \in T PROVE n \in T
  <2>1. PICK g : g = [k \in 0..(n-1) |-> Step(g, k)]
    BY <1>2
  <2> DEFINE h == [k \in 0..n |-> IF k < n THEN g[k] ELSE RemoveAt(g[n - 1], order[n])]
  <2>2. ASSUME NEW k \in 0..n PROVE h[k] = Step(h, k)
    <3>1. CASE k = 0
      <4>1. h[k] = g[0] /\ g[0] = Step(g, 0)
        BY <2>1, <3>1
      <4> QED BY <3>1, <4>1
    <3>2. CASE k # 0
      <4>1. k - 1 \in 0..n /\ k - 1 < n
        BY <3>2
      <4>2. h[k - 1] = g[k - 1]
        BY <4>1
      <4>3. CASE k < n
        <5>1. h[k] = g[k] /\ g[k] = Step(g, k)
          BY <2>1, <4>3
        <5> QED BY <3>2, <4>2, <5>1
      <4>4. CASE k = n
        BY <3>2, <4>2, <4>4
      <4> QED BY <4>3, <4>4
    <3> QED BY <3>1, <3>2
  <2>3. h = [k \in 0..n |-> h[k]]
    OBVIOUS
  <2>4. h = [k \in 0..n |-> Step(h, k)]
    <3> HIDE DEF h, Step
    <3> QED BY <2>2, <2>3
  <2> HIDE DEF h, Step
  <2> QED BY <2>4
<1>3. N \in T
  <2>1. 0..N \subseteq T
    <3> HIDE DEF T
    <3> QED BY <1>1, <1>2, UpTo
  <2> QED BY <2>1
<1>4. PICK g : g = [k \in 0..N |-> Step(g, k)]
  BY <1>3
<1> QED BY <1>4 DEF AfterRemovals

\* And it follows the sequence.
LEMMA RemovalsStep ==
    ASSUME NEW s, NEW order, NEW N \in Nat, NEW g, g = AfterRemovals(g, s, order, N)
    PROVE  Follows(g, s, order, N)
<1>1. \A k \in 0..N : g[k] = IF k = 0 THEN s ELSE RemoveAt(g[k - 1], order[k])
  BY DEF AfterRemovals
<1> QED
  BY <1>1 DEF Follows

\* Removals within the sequence, each shortened by those before it.
LEMMA Removals ==
    ASSUME NEW S, NEW s \in Seq(S), Distinct(s),
           NEW N \in Nat, NEW order,
           Within(s, order, N), NEW g, Follows(g, s, order, N)
    PROVE  /\ g[N] \in Seq(S) /\ Distinct(g[N]) /\ KeepsOrder(g[N], s)
           /\ Range(g[N]) \subseteq Range(s)
           /\ \A k \in 0..N : g[k] \in Seq(S) /\ Len(g[k]) = Len(s) - k /\ Distinct(g[k])
<1> DEFINE Good(k) == /\ g[k] \in Seq(S) /\ Len(g[k]) = Len(s) - k /\ Distinct(g[k])
                      /\ KeepsOrder(g[k], s) /\ Range(g[k]) \subseteq Range(s)
           T == {k \in 0..N : Good(k)}
<1>0. Len(s) \in Nat
  OBVIOUS
<1>1. 0 \in T
  <2>1. KeepsOrder(s, s)
    BY DEF KeepsOrder, Distinct
  <2> QED
    BY <1>0, <2>1 DEF Follows
<1>2. ASSUME NEW k \in 1..N, k - 1 \in T PROVE k \in T
  <2>1. /\ g[k-1] \in Seq(S) /\ Len(g[k-1]) = Len(s) - (k-1) /\ Distinct(g[k-1])
        /\ KeepsOrder(g[k-1], s) /\ Range(g[k-1]) \subseteq Range(s)
    BY <1>2
  <2>2. order[k] \in DOMAIN g[k-1]
    <3>1. DOMAIN g[k-1] = 1..(Len(s) - (k-1))
      BY <2>1
    <3> QED
      BY <1>0, <3>1 DEF Within
  <2>3. g[k] = RemoveAt(g[k-1], order[k])
    BY DEF Follows
  <2>4. /\ g[k] \in Seq(S) /\ Distinct(g[k]) /\ Range(g[k]) \subseteq Range(s)
    BY <2>1, <2>2, <2>3, Removed
  <2>5. KeepsOrder(g[k], s)
    BY <2>1, <2>2, <2>3, RemovedInOrder
  <2>6. Len(g[k]) = Len(s) - k
    <3>1. Len(g[k]) = Len(g[k-1]) - 1
      BY <2>1, <2>2, <2>3, RemovedAt
    <3> QED
      BY <1>0, <2>1, <3>1
  <2> QED
    BY <2>4, <2>5, <2>6
<1> HIDE DEF Good
<1>3. 0..N \subseteq T
  <2> HIDE DEF T
  <2> QED
    BY <1>1, <1>2, UpTo
<1> QED
  BY <1>3 DEF Good

\* Places in s, each before the one removed before it.
BackToFront(s, order, N) ==
    /\ \A k \in 1..N : order[k] \in DOMAIN s
    /\ \A j, k \in 1..N : j < k => order[j] > order[k]

\* Removals from the back to the front stay within the sequence.
LEMMA BackToFrontWithin ==
    ASSUME NEW S, NEW s \in Seq(S), NEW N \in Nat, NEW order, BackToFront(s, order, N)
    PROVE  Within(s, order, N)
<1>0. Len(s) \in Nat /\ \A k \in 1..N : order[k] \in 1..Len(s)
  BY DEF BackToFront
<1>1. \A k \in 1..N : order[k] <= Len(s) - (k - 1)
  <2> DEFINE T == {k \in 0..N : k # 0 => order[k] <= Len(s) - (k - 1)}
  <2>1. 0 \in T
    OBVIOUS
  <2>2. ASSUME NEW k \in 1..N, k - 1 \in T PROVE k \in T
    <3>1. CASE k = 1
      BY <1>0, <3>1
    <3>2. CASE k # 1
      <4>1. k - 1 \in 1..N /\ order[k-1] > order[k] /\ order[k-1] <= Len(s) - (k - 2)
        BY <2>2, <3>2 DEF BackToFront
      <4> QED
        BY <1>0, <4>1
    <3> QED
      BY <3>1, <3>2
  <2>3. 0..N \subseteq T
    <3> HIDE DEF T
    <3> QED
      BY <2>1, <2>2, UpTo
  <2> QED
    BY <2>3
<1> QED
  BY <1>0, <1>1 DEF Within

\* What was at the first N of these places.
TakenOut(s, order, N) == {s[order[k]] : k \in 1..N}

\* They take out what was at their places.
LEMMA DescendingRemovals ==
    ASSUME NEW S, NEW s \in Seq(S), Distinct(s),
           NEW N \in Nat, NEW order, BackToFront(s, order, N),
           NEW g, Follows(g, s, order, N)
    PROVE  Range(g[N]) = Range(s) \ TakenOut(s, order, N)
<1>1. Within(s, order, N)
  BY BackToFrontWithin
<1>2. /\ Len(s) \in Nat
      /\ \A k \in 1..N : order[k] \in 1..Len(s) /\ order[k] <= Len(s) - (k - 1)
      /\ \A j, k \in 1..N : j < k => order[j] > order[k]
  BY <1>1 DEF BackToFront, Within
<1> DEFINE Good(k) == /\ Range(g[k]) = Range(s) \ {s[order[j]] : j \in 1..k}
                      /\ \A i \in 1..Len(s) :
                            (\A j \in 1..k : i < order[j]) => g[k][i] = s[i]
           T == {k \in 0..N : Good(k)}
<1>3. \A k \in 0..N : g[k] \in Seq(S) /\ Len(g[k]) = Len(s) - k /\ Distinct(g[k])
  <2> HIDE DEF Good, T
  <2> QED
    BY <1>1, Removals
<1>4. 0 \in T
  BY DEF Follows
<1>5. ASSUME NEW k \in 1..N, k - 1 \in T PROVE k \in T
  <2> DEFINE o == order[k]
             q == g[k-1]
  <2>1. q \in Seq(S) /\ Len(q) = Len(s) - (k-1) /\ Distinct(q)
    <3>1. k - 1 \in 0..N
      OBVIOUS
    <3> QED
      BY <1>3, <3>1
  <2>2. /\ Range(q) = Range(s) \ {s[order[j]] : j \in 1..(k-1)}
        /\ \A i \in 1..Len(s) : (\A j \in 1..(k-1) : i < order[j]) => q[i] = s[i]
    BY <1>5
  <2>3. o \in 1..Len(s) /\ o <= Len(s) - (k-1) /\ \A j \in 1..(k-1) : o < order[j]
    BY <1>2
  <2>4. o \in DOMAIN q /\ q[o] = s[o]
    <3>1. DOMAIN q = 1..(Len(s) - (k-1))
      BY <2>1
    <3> HIDE DEF q, o
    <3>2. o \in DOMAIN q
      BY <1>2, <2>3, <3>1
    <3>3. q[o] = s[o]
      BY <2>2, <2>3
    <3> QED
      BY <3>2, <3>3
  <2>5. g[k] = RemoveAt(q, o)
    BY DEF Follows
  <2> HIDE DEF q
  <2>6. Range(g[k]) = Range(q) \ {s[o]}
    BY <2>1, <2>4, <2>5, Removed
  <2>7. Range(g[k]) = Range(s) \ {s[order[j]] : j \in 1..k}
    <3>1. 1..k = (1..(k-1)) \cup {k}
      OBVIOUS
    <3> QED
      BY <2>2, <2>6, <3>1
  <2>8. ASSUME NEW i \in 1..Len(s), \A j \in 1..k : i < order[j]
        PROVE  g[k][i] = s[i]
    <3>1. i < o /\ \A j \in 1..(k-1) : i < order[j]
      BY <2>8
    <3>2. q[i] = s[i]
      BY <2>2, <3>1
    <3>3. \A m \in 1..(Len(q) - 1) : g[k][m] = IF m < o THEN q[m] ELSE q[m + 1]
      <4> HIDE DEF o
      <4>1. \A m \in 1..(Len(q) - 1) :
               RemoveAt(q, o)[m] = IF m < o THEN q[m] ELSE q[m + 1]
        BY <2>1, <2>4, RemovedAt
      <4> QED
        BY Zenon, <2>5, <4>1
    <3>4. i \in 1..(Len(q) - 1)
      <4> HIDE DEF o
      <4> QED
        BY <1>2, <2>1, <2>3, <3>1
    <3> QED
      BY <3>1, <3>2, <3>3, <3>4
  <2>9. Good(k)
    BY <2>7, <2>8
  <2> QED
    BY <2>9
<1> HIDE DEF Good
<1>6. 0..N \subseteq T
  <2> HIDE DEF T
  <2> QED
    BY <1>4, <1>5, UpTo
<1>7. Good(N)
  BY <1>6
<1> QED
  BY <1>7 DEF Good, TakenOut
=============================================================================
