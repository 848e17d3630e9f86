-------------------------- MODULE QueueRing_proofs --------------------------
(***************************************************************************)
(* Theorems about the rings and lists of QueueRing, for every set of       *)
(* elements and of lists: RingsIntact, OperationsKeepOrder, and that the   *)
(* lists implement QueueLists.                                             *)
(***************************************************************************)
EXTENDS QueueRing, CommonLemmas, SequenceTheorems

-----------------------------------------------------------------------------
(***************************************************************************)
(* Sequences with an element more or less.                                 *)
(***************************************************************************)
WithMore(s, i, e, t) ==
  /\ Len(t) = Len(s) + 1
  /\ \A j \in 1 .. Len(s) + 1 :
       t[j] = IF j < i THEN s[j] ELSE IF j = i THEN e ELSE s[j - 1]

WithLess(s, i, t) ==
  /\ Len(t) = Len(s) - 1
  /\ \A j \in 1 .. Len(s) - 1 : t[j] = IF j < i THEN s[j] ELSE s[j + 1]

LEMMA InsertAtIs ==
  ASSUME NEW S, NEW s \in Seq(S), NEW i \in 1 .. Len(s) + 1, NEW e \in S
  PROVE  InsertAt(s, i, e) \in Seq(S) /\ WithMore(s, i, e, InsertAt(s, i, e))
<1>0. Len(s) \in Nat /\ i \in Nat
  BY LenProperties
<1>1. PICK a : a = SubSeq(s, 1, i - 1)
  OBVIOUS
<1>2. PICK b : b = SubSeq(s, i, Len(s))
  OBVIOUS
<1>3. a \in Seq(S) /\ Len(a) = i - 1 /\ \A j \in 1 .. i - 1 : a[j] = s[j]
  BY <1>0, <1>1, SubSeqProperties
<1>4. b \in Seq(S) /\ Len(b) = Len(s) - i + 1
      /\ \A j \in 1 .. Len(s) - i + 1 : b[j] = s[i + j - 1]
  BY <1>0, <1>2, SubSeqProperties
<1>5. <<e>> \in Seq(S) /\ Len(<<e>>) = 1 /\ <<e>>[1] = e
  OBVIOUS
<1>6. PICK c : c = a \o <<e>>
  OBVIOUS
<1>7. c \in Seq(S) /\ Len(c) = i
      /\ \A j \in 1 .. i : c[j] = IF j < i THEN s[j] ELSE e
  BY <1>0, <1>3, <1>5, <1>6, ConcatProperties
<1>8. InsertAt(s, i, e) = c \o b
  BY <1>1, <1>2, <1>6 DEF InsertAt
<1>9. /\ c \o b \in Seq(S) /\ Len(c \o b) = Len(s) + 1
      /\ \A j \in 1 .. Len(s) + 1 : (c \o b)[j] = IF j <= i THEN c[j] ELSE b[j - i]
  <2>1. Len(c) + Len(b) = Len(s) + 1 /\ Len(c) = i
    BY <1>0, <1>4, <1>7
  <2>2. /\ c \o b \in Seq(S) /\ Len(c \o b) = Len(c) + Len(b)
        /\ \A j \in 1 .. Len(c) + Len(b) :
             (c \o b)[j] = IF j <= Len(c) THEN c[j] ELSE b[j - Len(c)]
    <3>1. c \in Seq(S) /\ b \in Seq(S)
      BY <1>4, <1>7
    <3> QED
      BY <3>1, ConcatProperties
  <2> QED
    BY <2>1, <2>2
<1>10. ASSUME NEW j \in 1 .. Len(s) + 1
       PROVE  (c \o b)[j] = IF j < i THEN s[j] ELSE IF j = i THEN e ELSE s[j - 1]
  <2>1. CASE j <= i
    BY <2>1, <1>0, <1>7, <1>9
  <2>2. CASE j > i
    <3>1. j - i \in 1 .. Len(s) - i + 1 /\ i + (j - i) - 1 = j - 1
      BY <2>2, <1>0
    <3>2. b[j - i] = s[j - 1]
      BY <3>1, <1>4
    <3>3. ~(j <= i) /\ ~(j < i) /\ j # i
      BY <2>2, <1>0
    <3>4. (c \o b)[j] = b[j - i]
      BY <3>3, <1>9
    <3> QED
      BY <3>2, <3>3, <3>4
  <2>3. j <= i \/ j > i
    BY <1>0
  <2> QED
    BY <2>1, <2>2, <2>3
<1> QED
  BY <1>8, <1>9, <1>10 DEF WithMore

LEMMA RemoveAtIs ==
  ASSUME NEW S, NEW s \in Seq(S), NEW i \in 1 .. Len(s)
  PROVE  RemoveAt(s, i) \in Seq(S) /\ WithLess(s, i, RemoveAt(s, i))
<1>0. Len(s) \in Nat /\ i \in Nat
  BY LenProperties
<1>1. PICK a : a = SubSeq(s, 1, i - 1)
  OBVIOUS
<1>2. PICK b : b = SubSeq(s, i + 1, Len(s))
  OBVIOUS
<1>3. a \in Seq(S) /\ Len(a) = i - 1 /\ \A j \in 1 .. i - 1 : a[j] = s[j]
  BY <1>0, <1>1, SubSeqProperties
<1>4. b \in Seq(S) /\ Len(b) = Len(s) - i
      /\ \A j \in 1 .. Len(s) - i : b[j] = s[i + j]
  BY <1>0, <1>2, SubSeqProperties
<1>5. RemoveAt(s, i) = a \o b
  BY <1>1, <1>2 DEF RemoveAt
<1>6. /\ a \o b \in Seq(S) /\ Len(a \o b) = Len(s) - 1
      /\ \A j \in 1 .. Len(s) - 1 : (a \o b)[j] = IF j < i THEN a[j] ELSE b[j - i + 1]
  <2>1. Len(a) + Len(b) = Len(s) - 1 /\ Len(a) = i - 1
    BY <1>0, <1>3, <1>4
  <2>2. /\ a \o b \in Seq(S) /\ Len(a \o b) = Len(a) + Len(b)
        /\ \A j \in 1 .. Len(a) + Len(b) :
             (a \o b)[j] = IF j <= Len(a) THEN a[j] ELSE b[j - Len(a)]
    <3>1. a \in Seq(S) /\ b \in Seq(S)
      BY <1>3, <1>4
    <3> QED
      BY <3>1, ConcatProperties
  <2>3. \A j \in 1 .. Len(s) - 1 : (j <= i - 1) = (j < i) /\ j - (i - 1) = j - i + 1
    BY <1>0
  <2> QED
    BY <2>1, <2>2, <2>3
<1>7. ASSUME NEW j \in 1 .. Len(s) - 1
      PROVE  (a \o b)[j] = IF j < i THEN s[j] ELSE s[j + 1]
  <2>1. CASE j < i
    BY <2>1, <1>0, <1>3, <1>6
  <2>2. CASE j >= i
    <3>1. j - i + 1 \in 1 .. Len(s) - i /\ i + (j - i + 1) = j + 1
      BY <2>2, <1>0
    <3>2. b[j - i + 1] = s[j + 1]
      BY <3>1, <1>4
    <3>3. ~(j < i)
      BY <2>2, <1>0
    <3>4. (a \o b)[j] = b[j - i + 1]
      BY <3>3, <1>6
    <3> QED
      BY <3>2, <3>3, <3>4
  <2>3. j < i \/ j >= i
    BY <1>0
  <2> QED
    BY <2>1, <2>2, <2>3
<1> QED
  BY <1>5, <1>6, <1>7 DEF WithLess

-----------------------------------------------------------------------------
(***************************************************************************)
(* Walking a ring.  A sequence with no element twice lies on the pointers  *)
(* next when each element points to the one after it, the last to the      *)
(* first.                                                                  *)
(***************************************************************************)
Succ(s, i) == IF i = Len(s) THEN 1 ELSE i + 1
Pred(s, i) == IF i = 1 THEN Len(s) ELSE i - 1

Distinct(s) == \A i, j \in 1 .. Len(s) : s[i] = s[j] => i = j
Circle(next, s) == \A i \in 1 .. Len(s) : next[s[i]] = s[Succ(s, i)]

\* Counting on by one under a modulus.
LEMMA ModNext ==
  ASSUME NEW k \in Nat, NEW n \in Nat \ {0}
  PROVE  (k + 1) % n = IF k % n = n - 1 THEN 0 ELSE (k % n) + 1
<1> DEFINE d == k \div n
           r == k % n
<1>1. d \in Int /\ r \in Int /\ 0 <= r /\ r < n /\ r = k - d * n
  BY DivMod
<1> HIDE DEF d, r
<1>2. d * n \in Int /\ (d + 1) * n = d * n + n
  BY <1>1
<1>3. CASE r = n - 1
  <2>1. k + 1 = (d + 1) * n + 0 /\ k + 1 \in Int /\ d + 1 \in Int
        /\ 0 \in Int /\ 0 <= 0 /\ 0 < n
    BY <1>1, <1>2, <1>3
  <2>2. (k + 1) % n = 0
    BY <2>1, DivModUnique
  <2> QED
    BY <2>2, <1>3 DEF r
<1>4. CASE r # n - 1
  <2>1. k + 1 = d * n + (r + 1) /\ r + 1 < n /\ 0 <= r + 1 /\ r + 1 \in Int
    BY <1>1, <1>2, <1>4
  <2>2. k + 1 \in Int
    OBVIOUS
  <2>3. (k + 1) % n = r + 1
    BY <2>1, <2>2, <1>1, DivModUnique
  <2> QED
    BY <2>3, <1>4 DEF r
<1> QED
  BY <1>3, <1>4

\* A sequence with no element twice is no longer than there are elements.
LEMMA DistinctLength ==
  ASSUME NEW s \in Seq(Elms), Distinct(s)
  PROVE  Len(s) <= Cardinality(Elms) /\ Cardinality(Elms) \in Nat
<1>1. Len(s) \in Nat /\ s \in [1 .. Len(s) -> Elms]
  BY LenProperties
<1>2. s \in Injection(1 .. Len(s), Elms)
  BY <1>1 DEF Injection, IsInjective, Distinct
<1>3. IsFiniteSet(Elms)
  BY ElmsAssumption
<1>4. Cardinality(1 .. Len(s)) <= Cardinality(Elms)
  BY <1>2, <1>3, FS_Injection
<1>5. Cardinality(1 .. Len(s)) = Len(s)
  <2>1. Cardinality(1 .. Len(s)) = IF 1 > Len(s) THEN 0 ELSE Len(s) - 1 + 1
    BY <1>1, FS_Interval
  <2> QED
    BY <2>1, <1>1
<1>6. Cardinality(Elms) \in Nat
  BY <1>3, FS_CardinalityType
<1> QED
  BY <1>4, <1>5, <1>6

(***************************************************************************)
(* The walk of qr_foreach from the first element of such a sequence is the *)
(* sequence.  The walk is a recursive function: there is one, k steps lead *)
(* to the element k modulo the length, and there is one only, by the least *)
(* number of steps at which two would differ.                              *)
(***************************************************************************)
LEMMA VisitsIs ==
  ASSUME NEW next \in [Elms -> Elms], NEW s \in Seq(Elms), s # <<>>,
         Distinct(s), Circle(next, s)
  PROVE  Visits(next, s[1]) = s
<1> DEFINE n == Len(s)
           N == Cardinality(Elms)
           Step(a) == [k \in 0 .. N |-> IF k = 0 THEN s[1] ELSE next[a[k - 1]]]
           F == [k \in 0 .. N |-> s[(k % n) + 1]]
<1>1. n \in Nat \ {0} /\ s \in [1 .. n -> Elms] /\ n <= N /\ N \in Nat
  BY DistinctLength, LenProperties, EmptySeq
<1>2. \A k \in 0 .. N : k % n \in 0 .. n - 1
  BY <1>1
<1>3. ASSUME NEW k \in 0 .. N
      PROVE  F[k] = IF k = 0 THEN s[1] ELSE next[F[k - 1]]
  <2>1. CASE k = 0
    <3>1. 0 % n = 0
      BY <1>1, ModSmall
    <3> QED
      BY <3>1, <2>1
  <2>2. CASE k # 0
    <3>1. k - 1 \in 0 .. N /\ k - 1 \in Nat /\ (k - 1) + 1 = k
      BY <2>2, <1>1
    <3>2. PICK i : i = ((k - 1) % n) + 1
      OBVIOUS
    <3>3. i \in 1 .. n
      BY <1>1, <1>2, <3>1, <3>2
    <3>4. ((k - 1) + 1) % n = IF (k - 1) % n = n - 1 THEN 0 ELSE ((k - 1) % n) + 1
      <4> HIDE DEF n
      <4> QED
        BY <1>1, <3>1, ModNext
    <3>5. (k % n) + 1 = Succ(s, i)
      <4>1. k % n = IF (k - 1) % n = n - 1 THEN 0 ELSE ((k - 1) % n) + 1
        BY <3>1, <3>4
      <4>2. PICK r : r = (k - 1) % n
        OBVIOUS
      <4>3. r \in 0 .. n - 1 /\ i = r + 1 /\ k % n = IF r = n - 1 THEN 0 ELSE r + 1
        BY <3>1, <3>2, <4>1, <4>2, <1>2
      <4> HIDE DEF n
      <4>4. i = n <=> r = n - 1
        BY <4>3, <1>1
      <4>5. (k % n) + 1 = IF i = n THEN 1 ELSE i + 1
        BY <4>3, <4>4
      <4> QED
        BY <4>5 DEF n, Succ
    <3>6. F[k - 1] = s[i]
      BY <3>1, <3>2
    <3>7. next[s[i]] = s[Succ(s, i)]
      BY <3>3 DEF Circle
    <3>8. F[k] = s[(k % n) + 1]
      OBVIOUS
    <3> QED
      BY <3>5, <3>6, <3>7, <3>8, <2>2
  <2> QED
    BY <2>1, <2>2
<1>4. F = Step(F)
  <2> HIDE DEF F, n
  <2>1. F = [k \in 0 .. N |-> F[k]]
    BY DEF F
  <2>2. [k \in 0 .. N |-> F[k]] = Step(F)
    BY <1>3
  <2> QED
    BY <2>1, <2>2
<1>5. PICK a : a = CHOOSE aa : aa = Step(aa)
  OBVIOUS
<1>6. a = Step(a)
  <2>1. \E aa : aa = Step(aa)
    BY <1>4
  <2> HIDE DEF Step
  <2> QED
    BY <2>1, <1>5
<1>7. \A k \in 0 .. N : a[k] = F[k]
  <2> DEFINE T == {k \in 0 .. N : a[k] # F[k]}
  <2> HIDE DEF F, n
  <2> SUFFICES ASSUME T # {} PROVE FALSE
    OBVIOUS
  <2>1. T \in SUBSET Nat
    BY <1>1
  <2>2. PICK k \in T : \A j \in T : k <= j
    BY <2>1, LeastElement
  <2>3. k \in 0 .. N /\ a[k] # F[k]
    BY <2>2
  <2>4. a[k] = IF k = 0 THEN s[1] ELSE next[a[k - 1]]
    BY <2>3, <1>6
  <2>5. F[k] = IF k = 0 THEN s[1] ELSE next[F[k - 1]]
    BY <2>3, <1>3
  <2>6. k # 0
    BY <2>3, <2>4, <2>5
  <2>7. k - 1 \in 0 .. N /\ ~(k <= k - 1)
    BY <2>3, <2>6, <1>1
  <2>8. a[k - 1] = F[k - 1]
    BY <2>2, <2>7
  <2> QED
    BY <2>3, <2>4, <2>5, <2>8
<1>8. \A k \in 0 .. n - 1 : a[k] = s[k + 1]
  <2> TAKE k \in 0 .. n - 1
  <2>1. k \in Nat /\ k < n /\ k \in 0 .. N
    BY <1>1
  <2>2. k % n = k
    BY <2>1, <1>1, ModSmall
  <2> QED
    BY <2>1, <2>2, <1>7
<1>9. a[n] = s[1]
  <2>1. n % n = 0
    BY <1>1
  <2> QED
    BY <2>1, <1>1, <1>7
<1> DEFINE again == {k \in 1 .. N : a[k] = s[1]} \cup {N}
<1>10. n \in again /\ \A k \in again : n <= k
  <2>1. n \in again
    BY <1>1, <1>9
  <2>2. ASSUME NEW k \in again, k < n PROVE FALSE
    <3>1. k \in 1 .. N /\ a[k] = s[1] /\ k \in 0 .. n - 1
      BY <2>2, <1>1
    <3>2. s[k + 1] = s[1] /\ k + 1 \in 1 .. n /\ 1 \in 1 .. n
      BY <3>1, <1>8, <1>1
    <3> QED
      BY <3>1, <3>2, <1>1 DEF Distinct
  <2>3. \A k \in again : k \in Nat
    BY <1>1
  <2> QED
    BY <2>1, <2>2, <2>3, <1>1
<1>11. Min(again) = n
  <2> HIDE DEF again, n, F, N
  <2>1. Min(again) \in again /\ \A y \in again : Min(again) =< y
    BY <1>10 DEF Min
  <2>2. \A k \in again : k \in Nat
    BY <1>1 DEF again
  <2>3. Min(again) <= n /\ n <= Min(again)
    BY <1>10, <2>1
  <2>4. Min(again) \in Nat /\ n \in Nat
    BY <1>1, <2>1, <2>2
  <2> QED
    BY <2>3, <2>4
<1>12. Visits(next, s[1]) = [i \in 1 .. Min(again) |-> a[i - 1]]
  BY <1>5 DEF Visits
<1>13. [i \in 1 .. n |-> a[i - 1]] = [i \in 1 .. n |-> s[i]]
  <2>1. ASSUME NEW i \in 1 .. n PROVE a[i - 1] = s[i]
    <3>1. i - 1 \in 0 .. n - 1 /\ (i - 1) + 1 = i
      BY <1>1
    <3> QED
      BY <3>1, <1>8
  <2> QED
    BY <2>1
<1>14. s = [i \in 1 .. n |-> s[i]]
  BY <1>1
<1> QED
  BY <1>11, <1>12, <1>13, <1>14

-----------------------------------------------------------------------------
(***************************************************************************)
(* A ring with both pointers, seen from its first element.                 *)
(***************************************************************************)
Rings == [qre_next : [Elms -> Elms], qre_prev : [Elms -> Elms]]

Has(s, e) == \E i \in 1 .. Len(s) : s[i] = e

IsRing(r, s) ==
  /\ Distinct(s)
  /\ Circle(r.qre_next, s)
  /\ \A i \in 1 .. Len(s) : r.qre_prev[s[i]] = s[Pred(s, i)]

First(s) == IF s = <<>> THEN NULL ELSE s[1]

LEMMA SeqLength ==
  ASSUME NEW S, NEW s \in Seq(S)
  PROVE  /\ Len(s) \in Nat /\ s \in [1 .. Len(s) -> S]
         /\ s = <<>> <=> Len(s) = 0
         /\ \A i \in 1 .. Len(s) : Succ(s, i) \in 1 .. Len(s) /\ Pred(s, i) \in 1 .. Len(s)
<1>1. Len(s) \in Nat /\ s \in [1 .. Len(s) -> S]
  BY LenProperties
<1>2. s = <<>> <=> Len(s) = 0
  BY EmptySeq
<1>3. ASSUME NEW i \in 1 .. Len(s)
      PROVE  Succ(s, i) \in 1 .. Len(s) /\ Pred(s, i) \in 1 .. Len(s)
  <2>1. PICK n : n = Len(s)
    OBVIOUS
  <2>2. n \in Nat /\ i \in 1 .. n
    BY <1>1, <2>1
  <2>3. /\ (IF i = n THEN 1 ELSE i + 1) \in 1 .. n
        /\ (IF i = 1 THEN n ELSE i - 1) \in 1 .. n
    BY <2>2
  <2> QED
    BY <2>1, <2>3 DEF Succ, Pred
<1> QED
  BY <1>1, <1>2, <1>3

LEMMA HasIs ==
  ASSUME NEW S, NEW s \in Seq(S), NEW e
  PROVE  e \in ToSet(s) <=> Has(s, e)
<1>1. DOMAIN s = 1 .. Len(s)
  BY LenProperties
<1> QED
  BY <1>1 DEF ToSet, Has

LEMMA RingFields ==
  ASSUME NEW r \in Rings
  PROVE  r.qre_next \in [Elms -> Elms] /\ r.qre_prev \in [Elms -> Elms]
BY DEF Rings

\* qr_foreach.
LEMMA ForeachIs ==
  ASSUME NEW r \in Rings, NEW s \in Seq(Elms), IsRing(r, s)
  PROVE  qr_foreach(r, First(s)) = s
<1>1. CASE s = <<>>
  BY <1>1 DEF First, qr_foreach
<1>2. CASE s # <<>>
  <2>1. First(s) = s[1] /\ s[1] \in Elms /\ NULL \notin Elms
    <3>1. s[1] \in Elms
      BY <1>2, SeqLength
    <3> QED
      BY <1>2, <3>1, ElmsAssumption DEF First
  <2>2. Visits(r.qre_next, s[1]) = s
    BY <1>2, RingFields, VisitsIs DEF IsRing
  <2> QED
    BY <2>1, <2>2 DEF qr_foreach
<1> QED
  BY <1>1, <1>2

LEMMA ReverseIs ==
  ASSUME NEW S, NEW s \in Seq(S)
  PROVE  /\ Reverse(s) \in Seq(S) /\ Len(Reverse(s)) = Len(s)
         /\ \A i \in 1 .. Len(s) : Reverse(s)[i] = s[Len(s) - i + 1]
<1>1. Len(s) \in Nat /\ s \in [1 .. Len(s) -> S]
  BY SeqLength
<1>2. \A i \in 1 .. Len(s) : (Len(s) - i) + 1 \in 1 .. Len(s)
  BY <1>1
<1>3. Reverse(s) \in [1 .. Len(s) -> S]
  BY <1>1, <1>2 DEF Reverse
<1>4. Reverse(s) \in Seq(S) /\ Len(Reverse(s)) = Len(s)
  BY <1>1, <1>3, IsASeq, LenProperties
<1> QED
  BY <1>1, <1>2, <1>4 DEF Reverse

\* qr_reverse_foreach.
LEMMA ReverseForeachIs ==
  ASSUME NEW r \in Rings, NEW s \in Seq(Elms), IsRing(r, s)
  PROVE  qr_reverse_foreach(r, First(s)) = Reverse(s)
<1>1. CASE s = <<>>
  <2>1. Reverse(s) \in Seq(Elms) /\ Len(Reverse(s)) = 0
    BY <1>1, ReverseIs, SeqLength
  <2>2. Reverse(s) = <<>>
    BY <2>1, SeqLength
  <2> QED
    BY <1>1, <2>2 DEF First, qr_reverse_foreach
<1>2. CASE s # <<>>
  <2> DEFINE n == Len(s)
  <2>0. n \in Nat \ {0} /\ s \in [1 .. n -> Elms]
    BY <1>2, SeqLength
  <2>1. First(s) = s[1] /\ s[1] \in Elms /\ NULL \notin Elms
    BY <1>2, <2>0, ElmsAssumption DEF First
  <2>2. PICK t : t = Reverse(s)
    OBVIOUS
  <2>3. t \in Seq(Elms) /\ Len(t) = n /\ \A i \in 1 .. n : t[i] = s[n - i + 1]
    BY <2>2, ReverseIs
  <2>4. Distinct(t)
    <3> SUFFICES ASSUME NEW i \in 1 .. n, NEW j \in 1 .. n, t[i] = t[j]
                 PROVE  i = j
      BY <2>3 DEF Distinct
    <3>1. s[n - i + 1] = s[n - j + 1] /\ n - i + 1 \in 1 .. n /\ n - j + 1 \in 1 .. n
      BY <2>0, <2>3
    <3>2. n - i + 1 = n - j + 1
      BY <3>1 DEF IsRing, Distinct
    <3> QED
      BY <3>2, <2>0
  <2>5. Circle(r.qre_prev, t)
    <3> SUFFICES ASSUME NEW i \in 1 .. n
                 PROVE  r.qre_prev[t[i]] = t[Succ(t, i)]
      BY <2>3 DEF Circle
    <3>1. PICK k : k = n - i + 1
      OBVIOUS
    <3>2. k \in 1 .. n /\ t[i] = s[k]
      BY <3>1, <2>0, <2>3
    <3>3. r.qre_prev[s[k]] = s[Pred(s, k)]
      BY <3>2 DEF IsRing
    <3>4. Succ(t, i) \in 1 .. n /\ n - Succ(t, i) + 1 = Pred(s, k)
      <4>1. PICK m : m = n
        OBVIOUS
      <4>2. m \in Nat /\ i \in 1 .. m /\ k = m - i + 1
        BY <4>1, <3>1, <2>0
      <4>3. PICK j : j = IF i = m THEN 1 ELSE i + 1
        OBVIOUS
      <4>4. j \in 1 .. m /\ m - j + 1 = IF k = 1 THEN m ELSE k - 1
        BY <4>2, <4>3
      <4>5. Succ(t, i) = j /\ Pred(s, k) = IF k = 1 THEN m ELSE k - 1
        BY <4>1, <4>3, <2>3 DEF Succ, Pred
      <4> QED
        BY <4>1, <4>4, <4>5
    <3>5. t[Succ(t, i)] = s[n - Succ(t, i) + 1]
      BY <3>4, <2>3
    <3> QED
      BY <3>2, <3>3, <3>4, <3>5
  <2>6. t # <<>>
    BY <2>0, <2>3, SeqLength
  <2>7. Visits(r.qre_prev, t[1]) = t
    BY <2>3, <2>4, <2>5, <2>6, RingFields, VisitsIs
  <2>8. t[1] = r.qre_prev[s[1]]
    <3>1. 1 \in 1 .. n /\ n - 1 + 1 = n /\ Pred(s, 1) = n
      BY <2>0 DEF Pred
    <3> QED
      BY <3>1, <2>3 DEF IsRing
  <2>9. PICK m : m = {i \in DOMAIN t : t[i] = s[1]} \cup {Len(t)}
    OBVIOUS
  <2>10. m = {n}
    <3>1. DOMAIN t = 1 .. n
      BY <2>3, LenProperties
    <3>2. ASSUME NEW i \in 1 .. n, t[i] = s[1] PROVE i = n
      <4>1. s[n - i + 1] = s[1] /\ n - i + 1 \in 1 .. n /\ 1 \in 1 .. n
        BY <3>2, <2>0, <2>3
      <4>2. n - i + 1 = 1
        BY <4>1 DEF IsRing, Distinct
      <4>3. n \in Nat /\ i \in Nat /\ i <= n
        BY <2>0
      <4> HIDE DEF n
      <4> QED
        BY <4>2, <4>3
    <3> QED
      BY <3>1, <3>2, <2>3, <2>9
  <2>11. Min(m) = n
    BY <2>0, <2>10 DEF Min
  <2>12. SubSeq(t, 1, n) = t
    BY <2>3, SubSeqFull
  <2>13. qr_reverse_foreach(r, s[1]) = SubSeq(t, 1, Min(m))
    BY <2>1, <2>7, <2>8, <2>9 DEF qr_reverse_foreach
  <2> QED
    BY <2>1, <2>2, <2>11, <2>12, <2>13
<1> QED
  BY <1>1, <1>2

-----------------------------------------------------------------------------
(***************************************************************************)
(* What each operation of qr.h does to the pointers of every element.      *)
(***************************************************************************)
LEMMA BeforePointers ==
  ASSUME NEW r \in Rings, NEW at \in Elms, NEW e \in Elms, at # e,
         NEW q, q = qr_before_insert(qr_new(r, e), at, e)
  PROVE  /\ q \in Rings
         /\ \A x \in Elms :
              /\ q.qre_next[x] = IF x = r.qre_prev[at] THEN e
                                 ELSE IF x = e THEN at ELSE r.qre_next[x]
              /\ q.qre_prev[x] = IF x = at THEN e
                                 ELSE IF x = e THEN r.qre_prev[at] ELSE r.qre_prev[x]
<1>1. r.qre_next \in [Elms -> Elms] /\ r.qre_prev \in [Elms -> Elms]
  BY RingFields
<1>2. PICK p : p = r.qre_prev[at]
  OBVIOUS
<1>3. PICK nn, pp : nn = [r.qre_next EXCEPT ![e] = e] /\ pp = [r.qre_prev EXCEPT ![e] = e]
  OBVIOUS
<1>4. nn \in [Elms -> Elms] /\ pp \in [Elms -> Elms] /\ pp[at] = p /\ p \in Elms
  BY <1>1, <1>2, <1>3
<1>5. q = [qre_next |-> [nn EXCEPT ![e] = at, ![p] = e],
           qre_prev |-> [pp EXCEPT ![e] = p, ![at] = e]]
  BY <1>3, <1>4 DEF qr_before_insert, qr_new
<1>6. q.qre_next = [nn EXCEPT ![e] = at, ![p] = e]
      /\ q.qre_prev = [pp EXCEPT ![e] = p, ![at] = e]
  BY <1>5
<1>7. q \in Rings
  BY <1>4, <1>5 DEF Rings
<1>8. ASSUME NEW x \in Elms
      PROVE  /\ q.qre_next[x] = IF x = p THEN e ELSE IF x = e THEN at ELSE r.qre_next[x]
             /\ q.qre_prev[x] = IF x = at THEN e ELSE IF x = e THEN p ELSE r.qre_prev[x]
  BY <1>1, <1>3, <1>4, <1>6
<1> QED
  BY <1>2, <1>7, <1>8

LEMMA AfterPointers ==
  ASSUME NEW r \in Rings, NEW at \in Elms, NEW e \in Elms, at # e,
         NEW q, q = qr_after_insert(qr_new(r, e), at, e)
  PROVE  /\ q \in Rings
         /\ \A x \in Elms :
              /\ q.qre_next[x] = IF x = at THEN e
                                 ELSE IF x = e THEN r.qre_next[at] ELSE r.qre_next[x]
              /\ q.qre_prev[x] = IF x = r.qre_next[at] THEN e
                                 ELSE IF x = e THEN at ELSE r.qre_prev[x]
<1>1. r.qre_next \in [Elms -> Elms] /\ r.qre_prev \in [Elms -> Elms]
  BY RingFields
<1>2. PICK n : n = r.qre_next[at]
  OBVIOUS
<1>3. PICK nn, pp : nn = [r.qre_next EXCEPT ![e] = e] /\ pp = [r.qre_prev EXCEPT ![e] = e]
  OBVIOUS
<1>4. nn \in [Elms -> Elms] /\ pp \in [Elms -> Elms] /\ nn[at] = n /\ n \in Elms
  BY <1>1, <1>2, <1>3
<1>5. q = [qre_next |-> [nn EXCEPT ![e] = n, ![at] = e],
           qre_prev |-> [pp EXCEPT ![e] = at, ![n] = e]]
  BY <1>3, <1>4 DEF qr_after_insert, qr_new
<1>6. q.qre_next = [nn EXCEPT ![e] = n, ![at] = e]
      /\ q.qre_prev = [pp EXCEPT ![e] = at, ![n] = e]
  BY <1>5
<1>7. q \in Rings
  BY <1>4, <1>5 DEF Rings
<1>8. ASSUME NEW x \in Elms
      PROVE  /\ q.qre_next[x] = IF x = at THEN e ELSE IF x = e THEN n ELSE r.qre_next[x]
             /\ q.qre_prev[x] = IF x = n THEN e ELSE IF x = e THEN at ELSE r.qre_prev[x]
  BY <1>1, <1>3, <1>4, <1>6
<1> QED
  BY <1>2, <1>7, <1>8

LEMMA RemovePointers ==
  ASSUME NEW r \in Rings, NEW e \in Elms, NEW q, q = qr_remove(r, e),
         NEW n, n = r.qre_next[e], NEW p, p = r.qre_prev[e]
  PROVE  /\ q \in Rings
         /\ \A x \in Elms :
              /\ q.qre_next[x] = IF x = e THEN e ELSE IF x = p THEN n ELSE r.qre_next[x]
              /\ q.qre_prev[x] = IF x = e THEN e ELSE IF x = n THEN p ELSE r.qre_prev[x]
<1>1. r.qre_next \in [Elms -> Elms] /\ r.qre_prev \in [Elms -> Elms]
  BY RingFields
<1>2. n = r.qre_next[e] /\ p = r.qre_prev[e]
  OBVIOUS
<1>3. n \in Elms /\ p \in Elms
  BY <1>1, <1>2
<1>4. PICK nn, pp : nn = r.qre_next /\ pp = r.qre_prev
  OBVIOUS
<1>5. q = [qre_next |-> [nn EXCEPT ![p] = n, ![e] = e],
           qre_prev |-> [pp EXCEPT ![n] = p, ![e] = e]]
  BY <1>2, <1>4 DEF qr_remove
<1>6. q.qre_next = [nn EXCEPT ![p] = n, ![e] = e]
      /\ q.qre_prev = [pp EXCEPT ![n] = p, ![e] = e]
  BY <1>5
<1>7. q \in Rings
  BY <1>1, <1>3, <1>4, <1>5 DEF Rings
<1>8. ASSUME NEW x \in Elms
      PROVE  /\ q.qre_next[x] = IF x = e THEN e ELSE IF x = p THEN n ELSE r.qre_next[x]
             /\ q.qre_prev[x] = IF x = e THEN e ELSE IF x = n THEN p ELSE r.qre_prev[x]
  BY <1>1, <1>3, <1>4, <1>6
<1> QED
  BY <1>7, <1>8

-----------------------------------------------------------------------------
(***************************************************************************)
(* What each operation does to the ring it is applied to.                  *)
(***************************************************************************)
SamePointers(r, q, x) ==
  q.qre_next[x] = r.qre_next[x] /\ q.qre_prev[x] = r.qre_prev[x]

Elsewhere(r, q, s, e) == \A x \in Elms : x # e /\ ~Has(s, x) => SamePointers(r, q, x)

\* A ring of which no pointer changed is still one.
LEMMA SameRing ==
  ASSUME NEW r \in Rings, NEW q \in Rings, NEW s \in Seq(Elms), IsRing(r, s),
         \A i \in 1 .. Len(s) : /\ q.qre_next[s[i]] = r.qre_next[s[i]]
                                /\ q.qre_prev[s[i]] = r.qre_prev[s[i]]
  PROVE  IsRing(q, s)
BY DEF IsRing, Circle

\* Insertion before the i-th element.
LEMMA InsertBefore ==
  ASSUME NEW r \in Rings, NEW s \in Seq(Elms), IsRing(r, s),
         NEW i \in 1 .. Len(s), NEW e \in Elms, ~Has(s, e),
         NEW q, q = qr_before_insert(qr_new(r, e), s[i], e)
  PROVE  /\ q \in Rings
         /\ IsRing(q, InsertAt(s, i, e))
         /\ Elsewhere(r, q, s, e)
<1>1. PICK n : n = Len(s)
  OBVIOUS
<1>2. n \in Nat /\ s \in [1 .. n -> Elms] /\ i \in 1 .. n
  BY <1>1, SeqLength
<1>3. PICK at, p : at = s[i] /\ p = r.qre_prev[at]
  OBVIOUS
<1>4. at \in Elms /\ at # e /\ \A k \in 1 .. n : s[k] # e
  BY <1>1, <1>2, <1>3 DEF Has
<1>5. /\ q \in Rings
      /\ \A x \in Elms :
           /\ q.qre_next[x] = IF x = p THEN e ELSE IF x = e THEN at ELSE r.qre_next[x]
           /\ q.qre_prev[x] = IF x = at THEN e ELSE IF x = e THEN p ELSE r.qre_prev[x]
  BY <1>3, <1>4, BeforePointers
<1>6. PICK pi : pi = IF i = 1 THEN n ELSE i - 1
  OBVIOUS
<1>7. pi \in 1 .. n /\ p = s[pi]
  <2>1. pi \in 1 .. n
    BY <1>2, <1>6
  <2>2. Pred(s, i) = pi
    BY <1>1, <1>6 DEF Pred
  <2> QED
    BY <2>1, <2>2, <1>1, <1>3 DEF IsRing
<1>8. PICK t : t = InsertAt(s, i, e)
  OBVIOUS
<1>9. /\ t \in Seq(Elms) /\ Len(t) = n + 1
      /\ \A j \in 1 .. n + 1 : t[j] = IF j < i THEN s[j] ELSE IF j = i THEN e ELSE s[j - 1]
  <2>1. i \in 1 .. Len(s) + 1
    BY <1>1, <1>2
  <2>2. t \in Seq(Elms) /\ WithMore(s, i, e, t)
    BY <2>1, <1>8, InsertAtIs
  <2> QED
    BY <2>2, <1>1 DEF WithMore
<1> DEFINE ix(j) == IF j < i THEN j ELSE j - 1
<1>10. \A j \in 1 .. n + 1 : j # i => ix(j) \in 1 .. n /\ t[j] = s[ix(j)]
  <2> TAKE j \in 1 .. n + 1
  <2> HAVE j # i
  <2>1. ix(j) \in 1 .. n
    BY <1>2
  <2> QED
    BY <2>1, <1>9
<1>11. t[i] = e /\ i \in 1 .. n + 1
  BY <1>2, <1>9
<1>12. \A k, l \in 1 .. n : s[k] = s[l] => k = l
  BY <1>1 DEF IsRing, Distinct
<1>13. Distinct(t)
  <2> SUFFICES ASSUME NEW j \in 1 .. n + 1, NEW k \in 1 .. n + 1, t[j] = t[k]
               PROVE  j = k
    BY <1>9 DEF Distinct
  <2>1. CASE j # i /\ k # i
    <3>1. ix(j) \in 1 .. n /\ ix(k) \in 1 .. n /\ s[ix(j)] = s[ix(k)]
      BY <2>1, <1>10
    <3>2. ix(j) = ix(k)
      <4> HIDE DEF ix
      <4> QED
        BY <3>1, <1>12
    <3> QED
      BY <3>2, <2>1, <1>2
  <2>2. CASE j = i /\ k # i
    BY <2>2, <1>4, <1>10, <1>11
  <2>3. CASE j # i /\ k = i
    BY <2>3, <1>4, <1>10, <1>11
  <2> QED
    BY <2>1, <2>2, <2>3
<1>14. Circle(q.qre_next, t)
  <2> SUFFICES ASSUME NEW j \in 1 .. n + 1
               PROVE  q.qre_next[t[j]] = t[Succ(t, j)]
    BY <1>9 DEF Circle
  <2>1. PICK m : m = IF j = n + 1 THEN 1 ELSE j + 1
    OBVIOUS
  <2>2. Succ(t, j) = m /\ m \in 1 .. n + 1
    <3>1. m \in 1 .. n + 1
      BY <2>1, <1>2
    <3> QED
      BY <3>1, <2>1, <1>9 DEF Succ
  <2>3. CASE j = i
    <3>1. q.qre_next[e] = at
      BY <1>4, <1>5, <1>7
    <3>2. m = i + 1 /\ ix(m) = i /\ m # i
      BY <2>1, <2>3, <1>2
    <3>3. t[m] = s[i]
      BY <3>2, <2>2, <1>10
    <3> QED
      BY <3>1, <3>3, <2>2, <2>3, <1>3, <1>11
  <2>4. CASE j # i
    <3>1. PICK k : k = ix(j)
      OBVIOUS
    <3>2. k \in 1 .. n /\ t[j] = s[k]
      BY <3>1, <2>4, <1>10
    <3>3. k = pi <=> m = i
      BY <3>1, <2>1, <2>4, <1>2, <1>6
    <3>4. CASE k = pi
      <4>1. q.qre_next[s[k]] = e
        BY <3>2, <3>4, <1>2, <1>5, <1>7
      <4> QED
        BY <4>1, <3>2, <3>3, <3>4, <2>2, <1>11
    <3>5. CASE k # pi
      <4>1. s[k] # p /\ s[k] # e /\ s[k] \in Elms
        BY <3>2, <3>5, <1>2, <1>4, <1>7, <1>12
      <4>2. q.qre_next[s[k]] = r.qre_next[s[k]]
        BY <4>1, <1>5
      <4>3. PICK l : l = IF k = n THEN 1 ELSE k + 1
        OBVIOUS
      <4>4. r.qre_next[s[k]] = s[l]
        BY <4>3, <3>2, <1>1 DEF IsRing, Circle, Succ
      <4>5. m # i /\ ix(m) = l
        BY <4>3, <3>1, <3>3, <3>5, <2>1, <2>4, <1>2
      <4>6. t[m] = s[l]
        BY <4>5, <2>2, <1>10
      <4> QED
        BY <4>2, <4>4, <4>6, <3>2, <2>2
    <3> QED
      BY <3>4, <3>5
  <2> QED
    BY <2>3, <2>4
<1>15. \A j \in 1 .. n + 1 : q.qre_prev[t[j]] = t[Pred(t, j)]
  <2> SUFFICES ASSUME NEW j \in 1 .. n + 1
               PROVE  q.qre_prev[t[j]] = t[Pred(t, j)]
    OBVIOUS
  <2>1. PICK m : m = IF j = 1 THEN n + 1 ELSE j - 1
    OBVIOUS
  <2>2. Pred(t, j) = m /\ m \in 1 .. n + 1
    <3>1. m \in 1 .. n + 1
      BY <2>1, <1>2
    <3> QED
      BY <3>1, <2>1, <1>9 DEF Pred
  <2>3. CASE j = i
    <3>1. q.qre_prev[e] = p
      BY <1>4, <1>5
    <3>2. m # i /\ ix(m) = pi
      BY <2>1, <2>3, <1>2, <1>6
    <3>3. t[m] = s[pi]
      BY <3>2, <2>2, <1>10
    <3> QED
      BY <3>1, <3>3, <2>2, <2>3, <1>7, <1>11
  <2>4. CASE j # i
    <3>1. PICK k : k = ix(j)
      OBVIOUS
    <3>2. k \in 1 .. n /\ t[j] = s[k]
      BY <3>1, <2>4, <1>10
    <3>3. k = i <=> m = i
      BY <3>1, <2>1, <2>4, <1>2
    <3>4. CASE k = i
      <4>1. q.qre_prev[s[k]] = e
        BY <3>2, <3>4, <1>3, <1>4, <1>5
      <4> QED
        BY <4>1, <3>2, <3>3, <3>4, <2>2, <1>11
    <3>5. CASE k # i
      <4>1. s[k] # at /\ s[k] # e /\ s[k] \in Elms
        BY <3>2, <3>5, <1>2, <1>3, <1>4, <1>12
      <4>2. q.qre_prev[s[k]] = r.qre_prev[s[k]]
        BY <4>1, <1>5
      <4>3. PICK l : l = IF k = 1 THEN n ELSE k - 1
        OBVIOUS
      <4>4. r.qre_prev[s[k]] = s[l]
        BY <4>3, <3>2, <1>1 DEF IsRing, Pred
      <4>5. m # i /\ ix(m) = l
        BY <4>3, <3>1, <3>3, <3>5, <2>1, <2>4, <1>2
      <4>6. t[m] = s[l]
        BY <4>5, <2>2, <1>10
      <4> QED
        BY <4>2, <4>4, <4>6, <3>2, <2>2
    <3> QED
      BY <3>4, <3>5
  <2> QED
    BY <2>3, <2>4
<1>16. Elsewhere(r, q, s, e)
  <2> SUFFICES ASSUME NEW x \in Elms, x # e, ~Has(s, x) PROVE SamePointers(r, q, x)
    BY DEF Elsewhere
  <2>1. x # at /\ x # p
    BY <1>1, <1>2, <1>3, <1>7 DEF Has
  <2> QED
    BY <2>1, <1>5 DEF SamePointers
<1> QED
  BY <1>5, <1>8, <1>9, <1>13, <1>14, <1>15, <1>16 DEF IsRing

\* The same ring seen from the next element.
LEMMA RotateIs ==
  ASSUME NEW S, NEW s \in Seq(S), s # <<>>
  PROVE  /\ Append(Tail(s), Head(s)) \in Seq(S)
         /\ Len(Append(Tail(s), Head(s))) = Len(s)
         /\ \A i \in 1 .. Len(s) : Append(Tail(s), Head(s))[i] = s[Succ(s, i)]
<1>1. PICK n : n = Len(s)
  OBVIOUS
<1>2. n \in Nat \ {0}
  BY <1>1, EmptySeq
<1>3. PICK a, b : a = Tail(s) /\ b = Head(s)
  OBVIOUS
<1>4. a \in Seq(S) /\ Len(a) = n - 1 /\ b \in S /\ b = s[1]
      /\ \A i \in 1 .. n - 1 : a[i] = s[i + 1]
  <2>1. /\ Head(s) \in S /\ Tail(s) \in Seq(S)
    BY HeadTailProperties
  <2>2. Len(Tail(s)) = Len(s) - 1 /\ Head(s) = s[1]
        /\ \A i \in 1 .. Len(s) - 1 : Tail(s)[i] = s[i + 1]
    OBVIOUS
  <2> QED
    BY <2>1, <2>2, <1>1, <1>3
<1>5. Append(a, b) \in Seq(S) /\ Len(Append(a, b)) = n
      /\ \A i \in 1 .. n : Append(a, b)[i] = IF i = n THEN b ELSE a[i]
  BY <1>2, <1>4, AppendProperties
<1>6. ASSUME NEW i \in 1 .. n PROVE Append(a, b)[i] = s[Succ(s, i)]
  <2>1. CASE i = n
    BY <2>1, <1>1, <1>4, <1>5 DEF Succ
  <2>2. CASE i # n
    <3>1. i \in 1 .. n - 1
      BY <2>2, <1>2
    <3>2. Append(a, b)[i] = a[i] /\ a[i] = s[i + 1]
      BY <3>1, <2>2, <1>4, <1>5
    <3> QED
      BY <3>2, <2>2, <1>1 DEF Succ
  <2> QED
    BY <2>1, <2>2
<1> QED
  BY <1>1, <1>3, <1>5, <1>6

LEMMA RotatedRing ==
  ASSUME NEW r \in Rings, NEW s \in Seq(Elms), s # <<>>, IsRing(r, s)
  PROVE  /\ IsRing(r, Append(Tail(s), Head(s)))
         /\ \A x : Has(Append(Tail(s), Head(s)), x) <=> Has(s, x)
<1>1. PICK n : n = Len(s)
  OBVIOUS
<1>2. n \in Nat \ {0}
  BY <1>1, EmptySeq
<1>3. PICK t : t = Append(Tail(s), Head(s))
  OBVIOUS
<1> DEFINE su(i) == IF i = n THEN 1 ELSE i + 1
           pr(i) == IF i = 1 THEN n ELSE i - 1
<1>4. t \in Seq(Elms) /\ Len(t) = n /\ \A i \in 1 .. n : t[i] = s[su(i)]
  <2>1. /\ Append(Tail(s), Head(s)) \in Seq(Elms)
        /\ Len(Append(Tail(s), Head(s))) = Len(s)
        /\ \A i \in 1 .. Len(s) : Append(Tail(s), Head(s))[i] = s[Succ(s, i)]
    BY RotateIs
  <2> QED
    BY <2>1, <1>1, <1>3 DEF Succ
<1>5. /\ \A i \in 1 .. n : su(i) \in 1 .. n /\ pr(i) \in 1 .. n
                           /\ su(pr(i)) = i /\ pr(su(i)) = i
      /\ \A i, j \in 1 .. n : su(i) = su(j) => i = j
  BY <1>2
<1>6. /\ \A i, j \in 1 .. n : s[i] = s[j] => i = j
      /\ \A i \in 1 .. n : r.qre_next[s[i]] = s[su(i)] /\ r.qre_prev[s[i]] = s[pr(i)]
  BY <1>1 DEF IsRing, Distinct, Circle, Succ, Pred
<1>7. \A i \in 1 .. n : Succ(t, i) = su(i) /\ Pred(t, i) = pr(i)
  BY <1>4 DEF Succ, Pred
<1> HIDE DEF su, pr
<1>8. Distinct(t)
  <2> SUFFICES ASSUME NEW i \in 1 .. n, NEW j \in 1 .. n, t[i] = t[j]
               PROVE  i = j
    BY <1>4 DEF Distinct
  <2>1. s[su(i)] = s[su(j)] /\ su(i) \in 1 .. n /\ su(j) \in 1 .. n
    BY <1>4, <1>5
  <2>2. su(i) = su(j)
    BY <2>1, <1>6
  <2> QED
    BY <2>2, <1>5
<1>9. Circle(r.qre_next, t)
  <2> SUFFICES ASSUME NEW i \in 1 .. n
               PROVE  r.qre_next[t[i]] = t[Succ(t, i)]
    BY <1>4 DEF Circle
  <2>1. t[i] = s[su(i)] /\ su(i) \in 1 .. n
    BY <1>4, <1>5
  <2>2. r.qre_next[s[su(i)]] = s[su(su(i))]
    BY <2>1, <1>6
  <2>3. t[su(i)] = s[su(su(i))]
    BY <2>1, <1>4
  <2> QED
    BY <2>1, <2>2, <2>3, <1>7
<1>10. \A i \in 1 .. n : r.qre_prev[t[i]] = t[Pred(t, i)]
  <2> TAKE i \in 1 .. n
  <2>1. t[i] = s[su(i)] /\ su(i) \in 1 .. n
    BY <1>4, <1>5
  <2>2. r.qre_prev[s[su(i)]] = s[pr(su(i))] /\ pr(su(i)) = i
    BY <2>1, <1>5, <1>6
  <2>3. t[pr(i)] = s[su(pr(i))] /\ su(pr(i)) = i
    BY <1>4, <1>5
  <2> QED
    BY <2>1, <2>2, <2>3, <1>7
<1>11. \A x : Has(t, x) <=> Has(s, x)
  <2> TAKE x
  <2>1. ASSUME NEW i \in 1 .. n, t[i] = x PROVE \E j \in 1 .. n : s[j] = x
    BY <2>1, <1>4, <1>5
  <2>2. ASSUME NEW j \in 1 .. n, s[j] = x PROVE \E i \in 1 .. n : t[i] = x
    <3>1. t[pr(j)] = s[su(pr(j))] /\ su(pr(j)) = j /\ pr(j) \in 1 .. n
      BY <1>4, <1>5
    <3> QED
      BY <3>1, <2>2
  <2> QED
    BY <2>1, <2>2, <1>1, <1>4 DEF Has
<1> QED
  BY <1>3, <1>4, <1>8, <1>9, <1>10, <1>11 DEF IsRing

\* Insertion behind the i-th element is insertion before the one after it; a
\* ring has no end, so behind the last element is before the first.
LEMMA AfterIsBefore ==
  ASSUME NEW r \in Rings, NEW s \in Seq(Elms), IsRing(r, s),
         NEW i \in 1 .. Len(s), NEW e \in Elms, ~Has(s, e)
  PROVE  qr_after_insert(qr_new(r, e), s[i], e)
           = qr_before_insert(qr_new(r, e), s[Succ(s, i)], e)
<1>1. PICK j : j = Succ(s, i)
  OBVIOUS
<1>2. j \in 1 .. Len(s) /\ s[i] \in Elms /\ s[j] \in Elms
  BY <1>1, SeqLength
<1>3. s[i] # e /\ s[j] # e
  BY <1>2 DEF Has
<1>4. r.qre_next[s[i]] = s[j]
  BY <1>1 DEF IsRing, Circle
<1>5. r.qre_prev[s[j]] = s[i]
  <2>1. PICK n : n = Len(s)
    OBVIOUS
  <2>2. n \in Nat /\ i \in 1 .. n /\ j = IF i = n THEN 1 ELSE i + 1
    BY <2>1, <1>1, SeqLength DEF Succ
  <2>3. i = IF j = 1 THEN n ELSE j - 1
    BY <2>2
  <2>4. Pred(s, j) = i
    BY <2>1, <2>3 DEF Pred
  <2> QED
    BY <2>4, <1>2 DEF IsRing
<1>6. r.qre_next \in [Elms -> Elms] /\ r.qre_prev \in [Elms -> Elms]
  BY RingFields
<1>7. PICK nn, pp : nn = [r.qre_next EXCEPT ![e] = e] /\ pp = [r.qre_prev EXCEPT ![e] = e]
  OBVIOUS
<1>8. nn[s[i]] = s[j] /\ pp[s[j]] = s[i]
  BY <1>2, <1>3, <1>4, <1>5, <1>6, <1>7
<1>9. qr_after_insert(qr_new(r, e), s[i], e)
        = [qre_next |-> [nn EXCEPT ![e] = s[j], ![s[i]] = e],
           qre_prev |-> [pp EXCEPT ![e] = s[i], ![s[j]] = e]]
  BY <1>7, <1>8 DEF qr_after_insert, qr_new
<1>10. qr_before_insert(qr_new(r, e), s[j], e)
        = [qre_next |-> [nn EXCEPT ![e] = s[j], ![s[i]] = e],
           qre_prev |-> [pp EXCEPT ![e] = s[i], ![s[j]] = e]]
  BY <1>7, <1>8 DEF qr_before_insert, qr_new
<1> QED
  BY <1>1, <1>9, <1>10

\* Removal of the i-th element of a ring that has others.
LEMMA RemoveElement ==
  ASSUME NEW r \in Rings, NEW s \in Seq(Elms), IsRing(r, s), Len(s) >= 2,
         NEW i \in 1 .. Len(s), NEW q, q = qr_remove(r, s[i])
  PROVE  /\ q \in Rings
         /\ IsRing(q, RemoveAt(s, i))
         /\ q.qre_next[s[i]] = s[i] /\ q.qre_prev[s[i]] = s[i]
         /\ Elsewhere(r, q, s, s[i])
<1>1. PICK n : n = Len(s)
  OBVIOUS
<1>2. n \in Nat /\ n >= 2 /\ s \in [1 .. n -> Elms] /\ i \in 1 .. n
  BY <1>1, SeqLength
<1>3. PICK e : e = s[i]
  OBVIOUS
<1>4. e \in Elms
  BY <1>2, <1>3
<1> DEFINE su(k) == IF k = n THEN 1 ELSE k + 1
           pr(k) == IF k = 1 THEN n ELSE k - 1
           ix(j) == IF j < i THEN j ELSE j + 1
<1>5. /\ \A k, l \in 1 .. n : s[k] = s[l] => k = l
      /\ \A k \in 1 .. n : r.qre_next[s[k]] = s[su(k)] /\ r.qre_prev[s[k]] = s[pr(k)]
  BY <1>1 DEF IsRing, Distinct, Circle, Succ, Pred
<1>6. PICK pi, si : pi = pr(i) /\ si = su(i)
  OBVIOUS
<1>7. pi \in 1 .. n /\ si \in 1 .. n /\ pi # i /\ si # i
  BY <1>2, <1>6
<1>8. /\ q \in Rings
      /\ \A x \in Elms :
           /\ q.qre_next[x] = IF x = e THEN e ELSE IF x = s[pi] THEN s[si] ELSE r.qre_next[x]
           /\ q.qre_prev[x] = IF x = e THEN e ELSE IF x = s[si] THEN s[pi] ELSE r.qre_prev[x]
  <2>1. r.qre_prev[e] = s[pi] /\ r.qre_next[e] = s[si]
    BY <1>2, <1>3, <1>5, <1>6
  <2>2. q = qr_remove(r, e)
    BY <1>3
  <2> QED
    BY <2>1, <2>2, <1>4, RemovePointers
<1>9. PICK t : t = RemoveAt(s, i)
  OBVIOUS
<1>10. /\ t \in Seq(Elms) /\ Len(t) = n - 1
       /\ \A j \in 1 .. n - 1 : t[j] = s[ix(j)]
  <2>1. t \in Seq(Elms) /\ WithLess(s, i, t)
    BY <1>9, RemoveAtIs
  <2> QED
    BY <2>1, <1>1 DEF WithLess
<1>11. \A j \in 1 .. n - 1 : ix(j) \in 1 .. n /\ ix(j) # i
  BY <1>2
<1>12. Distinct(t)
  <2> SUFFICES ASSUME NEW j \in 1 .. n - 1, NEW k \in 1 .. n - 1, t[j] = t[k]
               PROVE  j = k
    BY <1>10 DEF Distinct
  <2>1. s[ix(j)] = s[ix(k)]
    BY <1>10
  <2>2. ix(j) = ix(k)
    <3> HIDE DEF ix
    <3> QED
      BY <2>1, <1>5, <1>11
  <2> QED
    BY <2>2, <1>2
<1>13. Circle(q.qre_next, t)
  <2> SUFFICES ASSUME NEW j \in 1 .. n - 1
               PROVE  q.qre_next[t[j]] = t[Succ(t, j)]
    BY <1>10 DEF Circle
  <2>1. PICK m : m = IF j = n - 1 THEN 1 ELSE j + 1
    OBVIOUS
  <2>2. Succ(t, j) = m /\ m \in 1 .. n - 1
    <3>1. m \in 1 .. n - 1
      BY <2>1, <1>2
    <3> QED
      BY <3>1, <2>1, <1>10 DEF Succ
  <2>3. PICK k, l : k = ix(j) /\ l = ix(m)
    OBVIOUS
  <2>4. /\ k \in 1 .. n /\ k # i /\ t[j] = s[k] /\ l \in 1 .. n /\ t[m] = s[l]
        /\ s[k] \in Elms /\ s[k] # e
    <3>1. k \in 1 .. n /\ k # i /\ t[j] = s[k] /\ l \in 1 .. n /\ t[m] = s[l]
      BY <2>2, <2>3, <1>10, <1>11
    <3> QED
      BY <3>1, <1>2, <1>3, <1>5
  <2>5. l = IF k = pi THEN si ELSE su(k)
    BY <2>1, <2>3, <1>2, <1>6
  <2>6. q.qre_next[s[k]] = IF s[k] = s[pi] THEN s[si] ELSE r.qre_next[s[k]]
    BY <2>4, <1>8
  <2>7. s[k] = s[pi] <=> k = pi
    BY <2>4, <1>5, <1>7
  <2>8. r.qre_next[s[k]] = s[su(k)]
    BY <2>4, <1>5
  <2> HIDE DEF su
  <2> QED
    BY <2>2, <2>4, <2>5, <2>6, <2>7, <2>8
<1>14. \A j \in 1 .. n - 1 : q.qre_prev[t[j]] = t[Pred(t, j)]
  <2> SUFFICES ASSUME NEW j \in 1 .. n - 1
               PROVE  q.qre_prev[t[j]] = t[Pred(t, j)]
    OBVIOUS
  <2>1. PICK m : m = IF j = 1 THEN n - 1 ELSE j - 1
    OBVIOUS
  <2>2. Pred(t, j) = m /\ m \in 1 .. n - 1
    <3>1. m \in 1 .. n - 1
      BY <2>1, <1>2
    <3> QED
      BY <3>1, <2>1, <1>10 DEF Pred
  <2>3. PICK k, l : k = ix(j) /\ l = ix(m)
    OBVIOUS
  <2>4. /\ k \in 1 .. n /\ k # i /\ t[j] = s[k] /\ l \in 1 .. n /\ t[m] = s[l]
        /\ s[k] \in Elms /\ s[k] # e
    <3>1. k \in 1 .. n /\ k # i /\ t[j] = s[k] /\ l \in 1 .. n /\ t[m] = s[l]
      BY <2>2, <2>3, <1>10, <1>11
    <3> QED
      BY <3>1, <1>2, <1>3, <1>5
  <2>5. l = IF k = si THEN pi ELSE pr(k)
    BY <2>1, <2>3, <1>2, <1>6
  <2>6. q.qre_prev[s[k]] = IF s[k] = s[si] THEN s[pi] ELSE r.qre_prev[s[k]]
    BY <2>4, <1>8
  <2>7. s[k] = s[si] <=> k = si
    BY <2>4, <1>5, <1>7
  <2>8. r.qre_prev[s[k]] = s[pr(k)]
    BY <2>4, <1>5
  <2> HIDE DEF pr
  <2> QED
    BY <2>2, <2>4, <2>5, <2>6, <2>7, <2>8
<1>15. Elsewhere(r, q, s, e)
  <2> SUFFICES ASSUME NEW x \in Elms, ~Has(s, x) PROVE SamePointers(r, q, x)
    BY DEF Elsewhere
  <2>1. x # e /\ x # s[pi] /\ x # s[si]
    BY <1>1, <1>2, <1>3, <1>7 DEF Has
  <2> QED
    BY <2>1, <1>8 DEF SamePointers
<1>16. q.qre_next[e] = e /\ q.qre_prev[e] = e
  BY <1>4, <1>8
<1> QED
  BY <1>3, <1>8, <1>9, <1>10, <1>12, <1>13, <1>14, <1>15, <1>16 DEF IsRing

-----------------------------------------------------------------------------
(***************************************************************************)
(* All the lists.  The pointers represent the sequences ls: each is a ring *)
(* whose first element the head points to, no element is in two, and one   *)
(* in none points to itself.                                               *)
(***************************************************************************)
Represents(r, firsts, ls) ==
  /\ ls \in [Heads -> Seq(Elms)]
  /\ firsts = [h \in Heads |-> First(ls[h])]
  /\ \A h \in Heads : IsRing(r, ls[h])
  /\ \A h, g \in Heads : h # g => \A e \in Elms : ~(Has(ls[h], e) /\ Has(ls[g], e))
  /\ \A e \in Elms : (\A h \in Heads : ~Has(ls[h], e)) =>
                       r.qre_next[e] = e /\ r.qre_prev[e] = e

AllLists(r, firsts) == [h \in Heads |-> qr_foreach(r, firsts[h])]

\* The sequences are those qr_foreach visits.
LEMMA RepresentsLists ==
  ASSUME NEW r \in Rings, NEW f, NEW ls, Represents(r, f, ls)
  PROVE  ls = AllLists(r, f)
<1>1. ls \in [Heads -> Seq(Elms)] /\ \A h \in Heads : f[h] = First(ls[h])
  BY DEF Represents
<1>2. ASSUME NEW h \in Heads PROVE qr_foreach(r, f[h]) = ls[h]
  <2>1. ls[h] \in Seq(Elms) /\ IsRing(r, ls[h]) /\ f[h] = First(ls[h])
    BY <1>1 DEF Represents
  <2> QED
    BY <2>1, ForeachIs
<1> QED
  BY <1>1, <1>2 DEF AllLists

\* One list becomes t; its elements were in the list or in none, and those
\* that leave it point to themselves.
LEMMA OneListChanges ==
  ASSUME NEW r \in Rings, NEW f, NEW ls, Represents(r, f, ls), NEW h \in Heads,
         NEW q \in Rings, NEW t \in Seq(Elms), IsRing(q, t),
         \A x \in Elms : ~Has(ls[h], x) /\ ~Has(t, x) => SamePointers(r, q, x),
         \A x \in Elms : Has(t, x) => Has(ls[h], x) \/ \A g \in Heads : ~Has(ls[g], x),
         \A x \in Elms : Has(ls[h], x) /\ ~Has(t, x) =>
           q.qre_next[x] = x /\ q.qre_prev[x] = x,
         NEW f2, f2 = [f EXCEPT ![h] = First(t)], NEW l2, l2 = [ls EXCEPT ![h] = t]
  PROVE  Represents(q, f2, l2)
<1>1. l2 = [ls EXCEPT ![h] = t] /\ f2 = [f EXCEPT ![h] = First(t)]
  OBVIOUS
<1>2. ls \in [Heads -> Seq(Elms)] /\ f = [g \in Heads |-> First(ls[g])]
  BY DEF Represents
<1>3. l2 \in [Heads -> Seq(Elms)] /\ \A g \in Heads : l2[g] = IF g = h THEN t ELSE ls[g]
  BY <1>1, <1>2
<1>4. f2 = [g \in Heads |-> First(l2[g])]
  BY <1>1, <1>2, <1>3
<1>5. ASSUME NEW g \in Heads, NEW x \in Elms, g # h, Has(ls[g], x)
      PROVE  ~Has(ls[h], x) /\ ~Has(t, x)
  BY <1>5 DEF Represents
<1>6. ASSUME NEW g \in Heads PROVE IsRing(q, l2[g])
  <2>1. CASE g = h
    BY <2>1, <1>3
  <2>2. CASE g # h
    <3>1. ls[g] \in Seq(Elms) /\ IsRing(r, ls[g])
      BY <1>2 DEF Represents
    <3>2. ASSUME NEW i \in 1 .. Len(ls[g])
          PROVE  /\ q.qre_next[ls[g][i]] = r.qre_next[ls[g][i]]
                 /\ q.qre_prev[ls[g][i]] = r.qre_prev[ls[g][i]]
      <4>1. ls[g][i] \in Elms /\ Has(ls[g], ls[g][i])
        BY <3>1, ElementOfSeq DEF Has
      <4>2. ~Has(ls[h], ls[g][i]) /\ ~Has(t, ls[g][i])
        BY <2>2, <4>1, <1>5
      <4> QED
        BY <4>1, <4>2 DEF SamePointers
    <3>3. IsRing(q, ls[g])
      BY <3>1, <3>2, SameRing
    <3> QED
      BY <3>3, <2>2, <1>3
  <2> QED
    BY <2>1, <2>2
<1>7. ASSUME NEW g \in Heads, NEW k \in Heads, g # k, NEW x \in Elms
      PROVE  ~(Has(l2[g], x) /\ Has(l2[k], x))
  <2>1. CASE g = h
    BY <2>1, <1>3, <1>5, <1>7
  <2>2. CASE k = h
    BY <2>2, <1>3, <1>5, <1>7
  <2>3. CASE g # h /\ k # h
    BY <2>3, <1>3, <1>7 DEF Represents
  <2> QED
    BY <2>1, <2>2, <2>3
<1>8. ASSUME NEW x \in Elms, \A g \in Heads : ~Has(l2[g], x)
      PROVE  q.qre_next[x] = x /\ q.qre_prev[x] = x
  <2>1. ~Has(t, x) /\ \A g \in Heads : g # h => ~Has(ls[g], x)
    BY <1>3, <1>8
  <2>2. CASE Has(ls[h], x)
    BY <2>1, <2>2
  <2>3. CASE ~Has(ls[h], x)
    <3>1. r.qre_next[x] = x /\ r.qre_prev[x] = x
      BY <2>1, <2>3 DEF Represents
    <3> QED
      BY <3>1, <2>1, <2>3 DEF SamePointers
  <2> QED
    BY <2>2, <2>3
<1> QED
  BY <1>3, <1>4, <1>6, <1>7, <1>8 DEF Represents

\* The elements of a list with one more and one less.
HasAlso(t, s, e) == \A x : Has(t, x) <=> x = e \/ Has(s, x)

LEMMA InsertedElements ==
  ASSUME NEW S, NEW s \in Seq(S), NEW i \in 1 .. Len(s) + 1, NEW e \in S
  PROVE  HasAlso(InsertAt(s, i, e), s, e)
<1>1. PICK n, t : n = Len(s) /\ t = InsertAt(s, i, e)
  OBVIOUS
<1>2. n \in Nat /\ i \in 1 .. n + 1
  BY <1>1, SeqLength
<1>3. Len(t) = n + 1 /\ \A j \in 1 .. n + 1 :
        t[j] = IF j < i THEN s[j] ELSE IF j = i THEN e ELSE s[j - 1]
  <2>1. WithMore(s, i, e, t)
    BY <1>1, InsertAtIs
  <2> QED
    BY <2>1, <1>1 DEF WithMore
<1>4. ASSUME NEW x, NEW j \in 1 .. n + 1, t[j] = x
      PROVE  x = e \/ \E k \in 1 .. n : s[k] = x
  <2>1. CASE j < i
    <3>1. j \in 1 .. n /\ t[j] = s[j]
      BY <2>1, <1>2, <1>3
    <3> QED
      BY <3>1, <1>4
  <2>2. CASE j > i
    <3>1. j - 1 \in 1 .. n /\ ~(j < i) /\ j # i
      BY <2>2, <1>2
    <3>2. t[j] = s[j - 1]
      BY <3>1, <1>3
    <3> QED
      BY <3>1, <3>2, <1>4
  <2>3. CASE j = i
    BY <2>3, <1>2, <1>3, <1>4
  <2>4. j < i \/ j = i \/ j > i
    BY <1>2
  <2> QED
    BY <2>1, <2>2, <2>3, <2>4
<1>5. ASSUME NEW k \in 1 .. n PROVE \E j \in 1 .. n + 1 : t[j] = s[k]
  <2>1. CASE k < i
    <3>1. k \in 1 .. n + 1 /\ t[k] = s[k]
      BY <2>1, <1>2, <1>3
    <3> QED
      BY <3>1
  <2>2. CASE k >= i
    <3>1. k + 1 \in 1 .. n + 1 /\ ~(k + 1 < i) /\ k + 1 # i /\ (k + 1) - 1 = k
      BY <2>2, <1>2
    <3>2. t[k + 1] = s[k]
      BY <3>1, <1>3
    <3> QED
      BY <3>1, <3>2
  <2>3. k < i \/ k >= i
    BY <1>2
  <2> QED
    BY <2>1, <2>2, <2>3
<1>6. t[i] = e /\ i \in 1 .. n + 1
  BY <1>2, <1>3
<1>7. \A x : Has(t, x) <=> x = e \/ Has(s, x)
  BY <1>1, <1>3, <1>4, <1>5, <1>6 DEF Has
<1> QED
  BY <1>1, <1>7 DEF HasAlso

LEMMA RemovedElements ==
  ASSUME NEW S, NEW s \in Seq(S), NEW i \in 1 .. Len(s), Distinct(s)
  PROVE  \A x : Has(RemoveAt(s, i), x) <=> x # s[i] /\ Has(s, x)
<1>1. PICK n, t : n = Len(s) /\ t = RemoveAt(s, i)
  OBVIOUS
<1>2. n \in Nat /\ i \in 1 .. n
  BY <1>1, SeqLength
<1>3. Len(t) = n - 1 /\ \A j \in 1 .. n - 1 : t[j] = IF j < i THEN s[j] ELSE s[j + 1]
  <2>1. WithLess(s, i, t)
    BY <1>1, RemoveAtIs
  <2> QED
    BY <2>1, <1>1 DEF WithLess
<1>4. ASSUME NEW j \in 1 .. n - 1
      PROVE  \E k \in 1 .. n : k # i /\ s[k] = t[j]
  <2>1. CASE j < i
    <3>1. j \in 1 .. n /\ j # i /\ t[j] = s[j]
      BY <2>1, <1>2, <1>3
    <3> QED
      BY <3>1
  <2>2. CASE j >= i
    <3>1. j + 1 \in 1 .. n /\ j + 1 # i /\ ~(j < i)
      BY <2>2, <1>2
    <3>2. t[j] = s[j + 1]
      BY <3>1, <1>3
    <3> QED
      BY <3>1, <3>2
  <2>3. j < i \/ j >= i
    BY <1>2
  <2> QED
    BY <2>1, <2>2, <2>3
<1>5. ASSUME NEW k \in 1 .. n, k # i PROVE \E j \in 1 .. n - 1 : t[j] = s[k]
  <2>1. CASE k < i
    <3>1. k \in 1 .. n - 1 /\ t[k] = s[k]
      BY <2>1, <1>2, <1>3
    <3> QED
      BY <3>1
  <2>2. CASE k > i
    <3>1. k - 1 \in 1 .. n - 1 /\ ~(k - 1 < i) /\ (k - 1) + 1 = k
      BY <2>2, <1>2
    <3>2. t[k - 1] = s[k]
      BY <3>1, <1>3
    <3> QED
      BY <3>1, <3>2
  <2>3. k < i \/ k > i
    BY <1>2, <1>5
  <2> QED
    BY <2>1, <2>2, <2>3
<1>6. \A k \in 1 .. n : s[k] = s[i] <=> k = i
  BY <1>1, <1>2 DEF Distinct
<1>7. ASSUME NEW x PROVE Has(t, x) <=> x # s[i] /\ Has(s, x)
  <2>1. ASSUME Has(t, x) PROVE x # s[i] /\ Has(s, x)
    <3>1. PICK j \in 1 .. n - 1 : t[j] = x
      BY <2>1, <1>3 DEF Has
    <3>2. PICK k \in 1 .. n : k # i /\ s[k] = x
      BY <3>1, <1>4
    <3> QED
      BY <3>2, <1>1, <1>6 DEF Has
  <2>2. ASSUME x # s[i], Has(s, x) PROVE Has(t, x)
    <3>1. PICK k \in 1 .. n : s[k] = x
      BY <2>2, <1>1 DEF Has
    <3>2. \E j \in 1 .. n - 1 : t[j] = x
      BY <2>2, <3>1, <1>5
    <3> QED
      BY <3>2, <1>3 DEF Has
  <2> QED
    BY <2>1, <2>2
<1> QED
  BY <1>1, <1>7

-----------------------------------------------------------------------------
(***************************************************************************)
(* The operations, on pointers that represent sequences.                   *)
(***************************************************************************)
LEMMA HeadPointer ==
  ASSUME NEW r \in Rings, NEW f, NEW ls, Represents(r, f, ls), NEW h \in Heads
  PROVE  /\ ls[h] \in Seq(Elms) /\ IsRing(r, ls[h]) /\ f[h] = First(ls[h])
         /\ f[h] = NULL <=> ls[h] = <<>>
         /\ f[h] # NULL => Len(ls[h]) \in Nat \ {0} /\ f[h] = ls[h][1] /\ f[h] \in Elms
<1>1. ls[h] \in Seq(Elms) /\ IsRing(r, ls[h]) /\ f[h] = First(ls[h])
  BY DEF Represents
<1>2. CASE ls[h] = <<>>
  BY <1>1, <1>2 DEF First
<1>3. CASE ls[h] # <<>>
  <2>1. Len(ls[h]) \in Nat \ {0}
    BY <1>1, <1>3, EmptySeq
  <2>2. ls[h][1] \in Elms /\ f[h] = ls[h][1]
    BY <1>1, <1>3, <2>1, ElementOfSeq DEF First
  <2>3. f[h] # NULL
    BY <2>2, ElmsAssumption
  <2> QED
    BY <1>1, <1>3, <2>1, <2>2, <2>3
<1> QED
  BY <1>2, <1>3

\* The ways to put an element at an end.
LEMMA EndInserts ==
  ASSUME NEW S, NEW s \in Seq(S), NEW e \in S
  PROVE  /\ <<e>> \o s \in Seq(S) /\ <<e>> \o s # <<>>
         /\ InsertAt(s, 1, e) = <<e>> \o s
         /\ InsertAt(s, Len(s) + 1, e) = Append(s, e)
         /\ Append(Tail(<<e>> \o s), Head(<<e>> \o s)) = Append(s, e)
<1>1. PICK n, t, u, v : /\ n = Len(s) /\ t = <<e>> \o s
                        /\ u = InsertAt(s, 1, e) /\ v = InsertAt(s, n + 1, e)
  OBVIOUS
<1>2. n \in Nat /\ 1 \in 1 .. n + 1 /\ n + 1 \in 1 .. n + 1
  BY <1>1, SeqLength
<1>3. /\ t \in Seq(S) /\ Len(t) = n + 1
      /\ \A j \in 1 .. n + 1 : t[j] = IF j = 1 THEN e ELSE s[j - 1]
  <2>1. <<e>> \in Seq(S) /\ Len(<<e>>) = 1 /\ <<e>>[1] = e
    OBVIOUS
  <2> QED
    BY <2>1, <1>1, <1>2, ConcatProperties
<1>4. t # <<>>
  BY <1>2, <1>3, SeqLength
<1>5. /\ u \in Seq(S) /\ Len(u) = n + 1
      /\ \A j \in 1 .. n + 1 : u[j] = IF j < 1 THEN s[j] ELSE IF j = 1 THEN e ELSE s[j - 1]
  <2>1. 1 \in 1 .. Len(s) + 1
    BY <1>1, <1>2
  <2>2. u \in Seq(S) /\ WithMore(s, 1, e, u)
    BY <2>1, <1>1, InsertAtIs
  <2> QED
    BY <2>2, <1>1 DEF WithMore
<1>6. /\ v \in Seq(S) /\ Len(v) = n + 1
      /\ \A j \in 1 .. n + 1 :
           v[j] = IF j < n + 1 THEN s[j] ELSE IF j = n + 1 THEN e ELSE s[j - 1]
  <2>1. PICK k : k = n + 1
    OBVIOUS
  <2>2. k \in 1 .. Len(s) + 1
    BY <2>1, <1>1, <1>2
  <2>3. v = InsertAt(s, k, e)
    BY <2>1, <1>1
  <2>4. v \in Seq(S) /\ WithMore(s, k, e, v)
    BY <2>2, <2>3, InsertAtIs
  <2> QED
    BY <2>1, <2>4, <1>1 DEF WithMore
<1>7. PICK w, z : w = Append(s, e) /\ z = Append(Tail(t), Head(t))
  OBVIOUS
<1>8. /\ w \in Seq(S) /\ Len(w) = n + 1
      /\ \A j \in 1 .. n + 1 : w[j] = IF j = n + 1 THEN e ELSE s[j]
  BY <1>1, <1>2, <1>7, AppendProperties
<1>9. u = t
  BY <1>2, <1>3, <1>5, SeqEqual
<1>10. v = w
  BY <1>2, <1>6, <1>8, SeqEqual
<1>11. /\ z \in Seq(S) /\ Len(z) = n + 1
       /\ \A j \in 1 .. n + 1 : z[j] = t[Succ(t, j)]
  <2>1. /\ Append(Tail(t), Head(t)) \in Seq(S)
        /\ Len(Append(Tail(t), Head(t))) = Len(t)
        /\ \A i \in 1 .. Len(t) : Append(Tail(t), Head(t))[i] = t[Succ(t, i)]
    BY <1>3, <1>4, RotateIs
  <2> QED
    BY <2>1, <1>3, <1>7
<1>12. ASSUME NEW j \in 1 .. n + 1 PROVE z[j] = w[j]
  <2>1. CASE j = n + 1
    <3>1. Succ(t, j) = 1 /\ 1 \in 1 .. n + 1
      BY <2>1, <1>2, <1>3 DEF Succ
    <3> QED
      BY <3>1, <2>1, <1>3, <1>8, <1>11
  <2>2. CASE j # n + 1
    <3>1. Succ(t, j) = j + 1 /\ j + 1 \in 1 .. n + 1 /\ j + 1 # 1 /\ (j + 1) - 1 = j
      BY <2>2, <1>2, <1>3 DEF Succ
    <3>2. t[j + 1] = s[j]
      BY <3>1, <1>3
    <3> QED
      BY <3>1, <3>2, <2>2, <1>8, <1>11
  <2> QED
    BY <2>1, <2>2
<1>13. z = w
  BY <1>8, <1>11, <1>12, SeqEqual
<1> QED
  BY <1>1, <1>3, <1>4, <1>7, <1>9, <1>10, <1>13

Loose(ls, e) == \A h \in Heads : ~Has(ls[h], e)

\* A list takes in an element that is in none.
LEMMA TakesIn ==
  ASSUME NEW r \in Rings, NEW f, NEW ls, Represents(r, f, ls), NEW h \in Heads,
         NEW e \in Elms, Loose(ls, e),
         NEW q \in Rings, NEW t \in Seq(Elms), IsRing(q, t),
         HasAlso(t, ls[h], e), Elsewhere(r, q, ls[h], e),
         NEW f2, f2 = [f EXCEPT ![h] = First(t)], NEW l2, l2 = [ls EXCEPT ![h] = t]
  PROVE  Represents(q, f2, l2)
<1>1. \A x \in Elms : ~Has(ls[h], x) /\ ~Has(t, x) => SamePointers(r, q, x)
  BY DEF HasAlso, Elsewhere
<1>2. \A x \in Elms : Has(t, x) => Has(ls[h], x) \/ \A g \in Heads : ~Has(ls[g], x)
  BY DEF HasAlso, Loose
<1>3. \A x \in Elms : Has(ls[h], x) /\ ~Has(t, x) => q.qre_next[x] = x /\ q.qre_prev[x] = x
  BY DEF HasAlso
<1> QED
  BY <1>1, <1>2, <1>3, OneListChanges

AtBothEnds(q, f, ls, h, e) ==
  /\ Represents(q, [f EXCEPT ![h] = e], [ls EXCEPT ![h] = <<e>> \o ls[h]])
  /\ Represents(q, [f EXCEPT ![h] = q.qre_next[e]],
                [ls EXCEPT ![h] = Append(ls[h], e)])
  /\ f[h] # NULL => q.qre_next[e] = f[h]

\* The pointers after ql_head_insert, ql_tail_insert and a push before fl_now:
\* a ring from the new element on, and from the first one on.
LEMMA EndInserted ==
  ASSUME NEW r \in Rings, NEW f, NEW ls, Represents(r, f, ls), NEW h \in Heads,
         NEW e \in Elms, Loose(ls, e),
         NEW q, q = IF f[h] # NULL THEN qr_before_insert(qr_new(r, e), f[h], e)
                    ELSE qr_new(r, e)
  PROVE  q \in Rings /\ AtBothEnds(q, f, ls, h, e)
<1>1. PICK s : s = ls[h]
  OBVIOUS
<1>2. /\ s \in Seq(Elms) /\ IsRing(r, s) /\ ~Has(s, e)
      /\ f[h] = NULL <=> s = <<>>
      /\ f[h] # NULL => Len(s) \in Nat \ {0} /\ f[h] = s[1]
  BY <1>1, HeadPointer DEF Loose
<1>3. PICK t : t = <<e>> \o s
  OBVIOUS
<1>4. /\ t \in Seq(Elms) /\ t # <<>> /\ InsertAt(s, 1, e) = t
      /\ Append(Tail(t), Head(t)) = Append(s, e)
      /\ 1 \in 1 .. Len(s) + 1
  <2>1. 1 \in 1 .. Len(s) + 1
    <3>1. Len(s) \in Nat
      BY <1>2, SeqLength
    <3> QED
      BY <3>1
  <2>2. /\ <<e>> \o s \in Seq(Elms) /\ <<e>> \o s # <<>>
        /\ InsertAt(s, 1, e) = <<e>> \o s
        /\ Append(Tail(<<e>> \o s), Head(<<e>> \o s)) = Append(s, e)
    BY <1>2, EndInserts
  <2> QED
    BY <2>1, <2>2, <1>3
<1>5. Len(t) = Len(s) + 1 /\ t[1] = e /\ (Len(s) >= 1 => t[2] = s[1])
  <2>1. <<e>> \in Seq(Elms) /\ Len(<<e>>) = 1 /\ <<e>>[1] = e /\ Len(s) \in Nat
    BY <1>2, SeqLength
  <2>2. /\ <<e>> \o s \in Seq(Elms)
        /\ Len(<<e>> \o s) = Len(<<e>>) + Len(s)
        /\ \A i \in 1 .. Len(<<e>>) + Len(s) :
             (<<e>> \o s)[i] = IF i <= Len(<<e>>) THEN <<e>>[i] ELSE s[i - Len(<<e>>)]
    BY <1>2, <2>1, ConcatProperties
  <2> QED
    BY <2>1, <2>2, <1>3
<1>6. HasAlso(t, s, e)
  BY <1>2, <1>4, InsertedElements
<1>7. q \in Rings /\ IsRing(q, t) /\ Elsewhere(r, q, s, e)
  <2>1. CASE s = <<>>
    <3>1. q = qr_new(r, e)
      BY <2>1, <1>2
    <3>2. r.qre_next \in [Elms -> Elms] /\ r.qre_prev \in [Elms -> Elms]
      BY RingFields
    <3>3. /\ q.qre_next = [r.qre_next EXCEPT ![e] = e]
          /\ q.qre_prev = [r.qre_prev EXCEPT ![e] = e]
          /\ q \in Rings
      BY <3>1, <3>2 DEF qr_new, Rings
    <3>4. Len(t) = 1
      BY <2>1, <1>5, EmptySeq
    <3>5. IsRing(q, t)
      <4>1. \A i \in 1 .. Len(t) : i = 1 /\ Succ(t, i) = 1 /\ Pred(t, i) = 1
        BY <3>4 DEF Succ, Pred
      <4>2. q.qre_next[e] = e /\ q.qre_prev[e] = e
        BY <3>2, <3>3
      <4> QED
        BY <4>1, <4>2, <1>5 DEF IsRing, Distinct, Circle
    <3> QED
      BY <3>2, <3>3, <3>5 DEF Elsewhere, SamePointers
  <2>2. CASE s # <<>>
    <3>1. q = qr_before_insert(qr_new(r, e), s[1], e) /\ 1 \in 1 .. Len(s)
      BY <2>2, <1>2
    <3> QED
      BY <3>1, <1>2, <1>4, InsertBefore
  <2> QED
    BY <2>1, <2>2
<1>8. First(t) = e
  BY <1>4, <1>5 DEF First
<1>9. Represents(q, [f EXCEPT ![h] = e], [ls EXCEPT ![h] = t])
  <2>1. PICK f2, l2 : f2 = [f EXCEPT ![h] = First(t)] /\ l2 = [ls EXCEPT ![h] = t]
    OBVIOUS
  <2>2. Represents(q, f2, l2)
    <3>1. HasAlso(t, ls[h], e) /\ Elsewhere(r, q, ls[h], e)
      BY <1>1, <1>6, <1>7 DEF HasAlso
    <3> QED
      BY <2>1, <3>1, <1>4, <1>7, TakesIn
  <2> QED
    BY <2>1, <2>2, <1>8
<1>10. PICK w : w = Append(s, e)
  OBVIOUS
<1>11. /\ w \in Seq(Elms) /\ IsRing(q, w) /\ \A x : Has(w, x) <=> Has(t, x)
  BY <1>2, <1>4, <1>7, <1>10, RotatedRing, AppendProperties
<1>12. First(w) = q.qre_next[e] /\ (f[h] # NULL => q.qre_next[e] = f[h])
  <2>1. Len(s) \in Nat /\ Len(w) = Len(s) + 1
        /\ w[Len(s) + 1] = e /\ \A i \in 1 .. Len(s) : w[i] = s[i]
    BY <1>2, <1>10, SeqLength, AppendProperties
  <2>2. w # <<>>
    BY <2>1, <1>11, SeqLength
  <2>3. q.qre_next[e] = t[Succ(t, 1)]
    <3>1. 1 \in 1 .. Len(t)
      BY <2>1, <1>5
    <3> QED
      BY <3>1, <1>5, <1>7 DEF IsRing, Circle
  <2>4. CASE Len(s) = 0
    <3>1. Succ(t, 1) = 1 /\ w[1] = e /\ f[h] = NULL
      BY <2>1, <2>4, <1>2, <1>5 DEF Succ
    <3> QED
      BY <3>1, <2>2, <2>3, <1>5 DEF First
  <2>5. CASE Len(s) # 0
    <3>1. Succ(t, 1) = 2 /\ Len(s) >= 1 /\ 1 \in 1 .. Len(s)
      BY <2>1, <2>5, <1>5 DEF Succ
    <3>2. w[1] = s[1] /\ t[2] = s[1]
      BY <3>1, <2>1, <1>5
    <3> QED
      BY <3>1, <3>2, <2>2, <2>3, <1>2 DEF First
  <2> QED
    BY <2>4, <2>5
<1>13. Represents(q, [f EXCEPT ![h] = q.qre_next[e]], [ls EXCEPT ![h] = w])
  <2>1. PICK f2, l2 : f2 = [f EXCEPT ![h] = First(w)] /\ l2 = [ls EXCEPT ![h] = w]
    OBVIOUS
  <2>2. Represents(q, f2, l2)
    <3>1. HasAlso(w, ls[h], e) /\ Elsewhere(r, q, ls[h], e)
      BY <1>1, <1>6, <1>7, <1>11 DEF HasAlso
    <3> QED
      BY <2>1, <3>1, <1>7, <1>11, TakesIn
  <2> QED
    BY <2>1, <2>2, <1>12
<1> QED
  BY <1>1, <1>3, <1>7, <1>9, <1>10, <1>12, <1>13 DEF AtBothEnds

\* ql_before_insert: the new element is the i-th, and the first when i is 1.
LEMMA InsertedBefore ==
  ASSUME NEW r \in Rings, NEW f, NEW ls, Represents(r, f, ls), NEW h \in Heads,
         NEW e \in Elms, Loose(ls, e), NEW i \in 1 .. Len(ls[h]),
         NEW q, q = qr_before_insert(qr_new(r, e), ls[h][i], e),
         NEW f2, f2 = IF f[h] = ls[h][i] THEN [f EXCEPT ![h] = e] ELSE f
  PROVE  /\ q \in Rings
         /\ Represents(q, f2, [ls EXCEPT ![h] = InsertAt(ls[h], i, e)])
<1>1. PICK s : s = ls[h]
  OBVIOUS
<1>2. /\ s \in Seq(Elms) /\ IsRing(r, s) /\ ~Has(s, e) /\ i \in 1 .. Len(s)
      /\ f[h] = First(s)
  BY <1>1, HeadPointer DEF Loose
<1>3. Len(s) \in Nat /\ s # <<>> /\ f[h] = s[1] /\ i \in 1 .. Len(s) + 1
  <2>1. Len(s) \in Nat
    BY <1>2, SeqLength
  <2>2. s # <<>>
    BY <2>1, <1>2, EmptySeq
  <2> QED
    BY <2>1, <2>2, <1>2 DEF First
<1>4. PICK t : t = InsertAt(s, i, e)
  OBVIOUS
<1>5. t \in Seq(Elms) /\ WithMore(s, i, e, t) /\ HasAlso(t, s, e)
  BY <1>2, <1>3, <1>4, InsertAtIs, InsertedElements
<1>6. q \in Rings /\ IsRing(q, t) /\ Elsewhere(r, q, s, e)
  <2>1. q = qr_before_insert(qr_new(r, e), s[i], e)
    BY <1>1
  <2> QED
    BY <2>1, <1>2, <1>4, InsertBefore
<1>7. First(t) = IF i = 1 THEN e ELSE s[1]
  <2>1. Len(t) = Len(s) + 1 /\ t[1] = IF i = 1 THEN e ELSE s[1]
    <3>1. 1 \in 1 .. Len(s) + 1 /\ ~(1 < 1) /\ (i # 1 => 1 < i)
      BY <1>2, <1>3
    <3>2. t[1] = IF 1 < i THEN s[1] ELSE IF 1 = i THEN e ELSE s[1 - 1]
      BY <3>1, <1>5 DEF WithMore
    <3>3. Len(t) = Len(s) + 1
      BY <1>5 DEF WithMore
    <3> QED
      BY <3>1, <3>2, <3>3
  <2>2. t # <<>>
    <3>1. Len(t) # 0
      BY <2>1, <1>3
    <3> QED
      BY <3>1, <1>5, SeqLength
  <2> QED
    BY <2>1, <2>2 DEF First
<1>8. f2 = [f EXCEPT ![h] = First(t)]
  <2>1. s[i] = s[1] <=> i = 1
    BY <1>2, <1>3 DEF IsRing, Distinct
  <2>2. f = [g \in Heads |-> First(ls[g])]
    BY DEF Represents
  <2>3. f = [f EXCEPT ![h] = s[1]]
    BY <2>2, <1>1, <1>2, <1>3
  <2> QED
    BY <2>1, <2>3, <1>1, <1>3, <1>7
<1>9. PICK l2 : l2 = [ls EXCEPT ![h] = t]
  OBVIOUS
<1>10. Represents(q, f2, l2)
  BY <1>1, <1>5, <1>6, <1>8, <1>9, TakesIn
<1> QED
  BY <1>1, <1>4, <1>6, <1>9, <1>10

\* ql_after_insert: the new element comes after the i-th; behind the last one
\* the pointers are those of an insertion before the first, and the first
\* pointer stays.
LEMMA InsertedAfter ==
  ASSUME NEW r \in Rings, NEW f, NEW ls, Represents(r, f, ls), NEW h \in Heads,
         NEW e \in Elms, Loose(ls, e), NEW i \in 1 .. Len(ls[h]),
         NEW q, q = qr_after_insert(qr_new(r, e), ls[h][i], e)
  PROVE  /\ q \in Rings
         /\ Represents(q, f, [ls EXCEPT ![h] = InsertAt(ls[h], i + 1, e)])
<1>1. PICK s, n : s = ls[h] /\ n = Len(s)
  OBVIOUS
<1>2. /\ s \in Seq(Elms) /\ IsRing(r, s) /\ ~Has(s, e) /\ i \in 1 .. Len(s)
      /\ f[h] = First(s) /\ (f[h] = NULL <=> s = <<>>)
  BY <1>1, HeadPointer DEF Loose
<1>3. n \in Nat /\ i \in 1 .. n /\ s # <<>> /\ f[h] = s[1] /\ f[h] # NULL
  <2>1. n \in Nat /\ i \in 1 .. n
    BY <1>1, <1>2, SeqLength
  <2>2. s # <<>>
    BY <2>1, <1>1, <1>2, EmptySeq
  <2> QED
    BY <2>1, <2>2, <1>2 DEF First
<1>4. f = [f EXCEPT ![h] = s[1]] /\ \A g \in Heads : f[g] = First(ls[g])
  <2>1. f = [g \in Heads |-> First(ls[g])]
    BY DEF Represents
  <2> QED
    BY <2>1, <1>1, <1>2, <1>3
<1>5. q = qr_before_insert(qr_new(r, e), s[Succ(s, i)], e)
  BY <1>1, <1>2, AfterIsBefore
<1>6. CASE i # n
  <2>1. PICK k : k = i + 1
    OBVIOUS
  <2>2. Succ(s, i) = k /\ k \in 1 .. n /\ k # 1
    BY <2>1, <1>1, <1>3, <1>6 DEF Succ
  <2>3. s[k] # s[1]
    <3>1. k \in 1 .. Len(s) /\ 1 \in 1 .. Len(s)
      BY <2>2, <1>1, <1>3
    <3> QED
      BY <3>1, <2>2, <1>2 DEF IsRing, Distinct
  <2>4. k \in 1 .. Len(ls[h]) /\ q = qr_before_insert(qr_new(r, e), ls[h][k], e)
        /\ f = IF f[h] = ls[h][k] THEN [f EXCEPT ![h] = e] ELSE f
    BY <2>2, <2>3, <1>1, <1>3, <1>5
  <2>5. q \in Rings /\ Represents(q, f, [ls EXCEPT ![h] = InsertAt(ls[h], k, e)])
    BY <2>4, InsertedBefore
  <2> QED
    BY <2>1, <2>5
<1>7. CASE i = n
  <2>1. Succ(s, i) = 1
    BY <1>1, <1>7 DEF Succ
  <2>2. q = IF f[h] # NULL THEN qr_before_insert(qr_new(r, e), f[h], e) ELSE qr_new(r, e)
    BY <2>1, <1>3, <1>5
  <2>3. /\ q \in Rings /\ (f[h] # NULL => q.qre_next[e] = f[h])
        /\ Represents(q, [f EXCEPT ![h] = q.qre_next[e]],
                      [ls EXCEPT ![h] = Append(ls[h], e)])
    <3>1. q \in Rings /\ AtBothEnds(q, f, ls, h, e)
      BY <2>2, EndInserted
    <3> QED
      BY <3>1 DEF AtBothEnds
  <2>4. [f EXCEPT ![h] = q.qre_next[e]] = f
    BY <2>3, <1>3, <1>4
  <2>5. InsertAt(ls[h], i + 1, e) = Append(ls[h], e)
    <3>1. InsertAt(s, Len(s) + 1, e) = Append(s, e)
      BY <1>2, EndInserts
    <3> QED
      BY <3>1, <1>1, <1>7
  <2> QED
    BY <2>3, <2>4, <2>5
<1> QED
  BY <1>6, <1>7

\* A rotation: the first pointer moves on.
LEMMA Rotated ==
  ASSUME NEW r \in Rings, NEW f, NEW ls, Represents(r, f, ls), NEW h \in Heads,
         f[h] # NULL, NEW f2, f2 = [f EXCEPT ![h] = r.qre_next[@]]
  PROVE  Represents(r, f2, [ls EXCEPT ![h] = Append(Tail(ls[h]), Head(ls[h]))])
<1>1. PICK s : s = ls[h]
  OBVIOUS
<1>2. /\ s \in Seq(Elms) /\ IsRing(r, s) /\ s # <<>>
      /\ Len(s) \in Nat \ {0} /\ f[h] = s[1]
  BY <1>1, HeadPointer
<1>3. PICK t : t = Append(Tail(s), Head(s))
  OBVIOUS
<1>4. t \in Seq(Elms) /\ Len(t) = Len(s) /\ t[1] = s[Succ(s, 1)]
  <2>1. /\ Append(Tail(s), Head(s)) \in Seq(Elms)
        /\ Len(Append(Tail(s), Head(s))) = Len(s)
        /\ \A i \in 1 .. Len(s) : Append(Tail(s), Head(s))[i] = s[Succ(s, i)]
    BY <1>2, RotateIs
  <2>2. 1 \in 1 .. Len(s)
    BY <1>2
  <2> QED
    BY <2>1, <2>2, <1>3
<1>5. IsRing(r, t) /\ \A x : Has(t, x) <=> Has(s, x)
  BY <1>2, <1>3, RotatedRing
<1>6. First(t) = r.qre_next[s[1]]
  <2>1. t # <<>>
    BY <1>2, <1>4, SeqLength
  <2>2. 1 \in 1 .. Len(s)
    BY <1>2
  <2> QED
    BY <2>1, <2>2, <1>2, <1>4 DEF First, IsRing, Circle
<1>7. f2 = [f EXCEPT ![h] = First(t)]
  <2>1. f = [g \in Heads |-> First(ls[g])]
    BY DEF Represents
  <2> QED
    BY <2>1, <1>2, <1>6
<1>8. PICK l2 : l2 = [ls EXCEPT ![h] = t]
  OBVIOUS
<1>9. /\ \A x \in Elms : ~Has(ls[h], x) /\ ~Has(t, x) => SamePointers(r, r, x)
      /\ \A x \in Elms : Has(t, x) => Has(ls[h], x) \/ \A g \in Heads : ~Has(ls[g], x)
      /\ \A x \in Elms : Has(ls[h], x) /\ ~Has(t, x) => r.qre_next[x] = x /\ r.qre_prev[x] = x
  BY <1>1, <1>5 DEF SamePointers
<1>10. Represents(r, f2, l2)
  BY <1>4, <1>5, <1>7, <1>8, <1>9, OneListChanges
<1> QED
  BY <1>1, <1>3, <1>8, <1>10

\* ql_remove, and the removal in pmempool_chunk_alloc: the i-th element goes,
\* and the first pointer moves on if it was the first.
LEMMA RemovedOne ==
  ASSUME NEW r \in Rings, NEW f, NEW ls, Represents(r, f, ls), NEW h \in Heads,
         NEW i \in 1 .. Len(ls[h]), Len(ls[h]) >= 2,
         NEW q, q = qr_remove(r, ls[h][i]),
         NEW f2,
         f2 = [f EXCEPT ![h] = IF i = 1 THEN r.qre_next[ls[h][1]] ELSE ls[h][1]]
  PROVE  /\ q \in Rings
         /\ Represents(q, f2, [ls EXCEPT ![h] = RemoveAt(ls[h], i)])
<1>1. PICK s : s = ls[h]
  OBVIOUS
<1>2. /\ s \in Seq(Elms) /\ IsRing(r, s) /\ i \in 1 .. Len(s) /\ Len(s) >= 2
      /\ Len(s) \in Nat /\ q = qr_remove(r, s[i])
  BY <1>1, HeadPointer, SeqLength
<1>3. PICK t : t = RemoveAt(s, i)
  OBVIOUS
<1>4. t \in Seq(Elms) /\ WithLess(s, i, t) /\ \A x : Has(t, x) <=> x # s[i] /\ Has(s, x)
  <2>1. t \in Seq(Elms) /\ WithLess(s, i, t)
    BY <1>2, <1>3, RemoveAtIs
  <2>2. Distinct(s)
    BY <1>2 DEF IsRing
  <2> QED
    BY <2>1, <2>2, <1>2, <1>3, RemovedElements
<1>5. /\ q \in Rings /\ IsRing(q, t)
      /\ q.qre_next[s[i]] = s[i] /\ q.qre_prev[s[i]] = s[i]
      /\ Elsewhere(r, q, s, s[i])
  BY <1>2, <1>3, RemoveElement
<1>6. First(t) = IF i = 1 THEN r.qre_next[s[1]] ELSE s[1]
  <2>1. Len(t) = Len(s) - 1 /\ 1 \in 1 .. Len(s) - 1
    BY <1>2, <1>4 DEF WithLess
  <2>2. t[1] = IF 1 < i THEN s[1] ELSE s[2]
    BY <2>1, <1>4 DEF WithLess
  <2>3. t # <<>>
    BY <2>1, <1>2, <1>4, EmptySeq
  <2>4. r.qre_next[s[1]] = s[2]
    <3>1. 1 # Len(s) /\ 1 + 1 = 2 /\ 1 \in 1 .. Len(s)
      <4>1. PICK n : n = Len(s)
        OBVIOUS
      <4>2. n \in Nat /\ n >= 2
        BY <4>1, <1>2
      <4>3. 1 # n /\ 1 + 1 = 2 /\ 1 \in 1 .. n
        BY <4>2
      <4> QED
        BY <4>1, <4>3
    <3>2. Succ(s, 1) = 2
      BY <3>1 DEF Succ
    <3> QED
      BY <3>1, <3>2, <1>2 DEF IsRing, Circle
  <2>5. 1 < i <=> i # 1
    BY <1>2
  <2> QED
    BY <2>2, <2>3, <2>4, <2>5 DEF First
<1>7. f2 = [f EXCEPT ![h] = First(t)]
  BY <1>1, <1>6
<1>8. PICK l2 : l2 = [ls EXCEPT ![h] = t]
  OBVIOUS
<1>9. /\ \A x \in Elms : ~Has(ls[h], x) /\ ~Has(t, x) => SamePointers(r, q, x)
      /\ \A x \in Elms : Has(t, x) => Has(ls[h], x) \/ \A g \in Heads : ~Has(ls[g], x)
      /\ \A x \in Elms : Has(ls[h], x) /\ ~Has(t, x) => q.qre_next[x] = x /\ q.qre_prev[x] = x
  <2>1. Has(s, s[i])
    BY <1>2 DEF Has
  <2> QED
    BY <2>1, <1>1, <1>4, <1>5 DEF Elsewhere
<1>10. Represents(q, f2, l2)
  BY <1>4, <1>5, <1>7, <1>8, <1>9, OneListChanges
<1> QED
  BY <1>1, <1>3, <1>5, <1>8, <1>10

\* The last element of a list goes: its pointers already say so.
LEMMA RemovedLast ==
  ASSUME NEW r \in Rings, NEW f, NEW ls, Represents(r, f, ls), NEW h \in Heads,
         Len(ls[h]) = 1, NEW f2, f2 = [f EXCEPT ![h] = NULL]
  PROVE  Represents(r, f2, [ls EXCEPT ![h] = RemoveAt(ls[h], 1)])
<1>1. PICK s : s = ls[h]
  OBVIOUS
<1>2. s \in Seq(Elms) /\ IsRing(r, s) /\ Len(s) = 1 /\ 1 \in 1 .. Len(s)
  BY <1>1, HeadPointer
<1>3. PICK t : t = RemoveAt(s, 1)
  OBVIOUS
<1>4. t \in Seq(Elms) /\ WithLess(s, 1, t)
  BY <1>2, <1>3, RemoveAtIs
<1>5. Len(t) = 0 /\ t = <<>>
  BY <1>2, <1>4, SeqLength DEF WithLess
<1>6. IsRing(r, t) /\ First(t) = NULL /\ \A x : ~Has(t, x)
  BY <1>5 DEF IsRing, Distinct, Circle, First, Has
<1>7. \A x \in Elms : Has(s, x) => r.qre_next[x] = x /\ r.qre_prev[x] = x
  <2>1. Succ(s, 1) = 1 /\ Pred(s, 1) = 1
    BY <1>2 DEF Succ, Pred
  <2>2. r.qre_next[s[1]] = s[1] /\ r.qre_prev[s[1]] = s[1]
    BY <2>1, <1>2 DEF IsRing, Circle
  <2> QED
    BY <2>2, <1>2 DEF Has
<1>8. PICK l2 : l2 = [ls EXCEPT ![h] = t]
  OBVIOUS
<1>9. /\ \A x \in Elms : ~Has(ls[h], x) /\ ~Has(t, x) => SamePointers(r, r, x)
      /\ \A x \in Elms : Has(t, x) => Has(ls[h], x) \/ \A g \in Heads : ~Has(ls[g], x)
      /\ \A x \in Elms : Has(ls[h], x) /\ ~Has(t, x) => r.qre_next[x] = x /\ r.qre_prev[x] = x
  BY <1>1, <1>6, <1>7 DEF SamePointers
<1>10. f2 = [f EXCEPT ![h] = First(t)]
  BY <1>6
<1>11. Represents(r, f2, l2)
  BY <1>4, <1>6, <1>8, <1>9, <1>10, OneListChanges
<1> QED
  BY <1>1, <1>3, <1>8, <1>11

-----------------------------------------------------------------------------
(***************************************************************************)
(* The inductive invariant: the pointers are those of rings, and represent *)
(* the sequences that qr_foreach visits.                                   *)
(***************************************************************************)
Lists == [h \in Heads |-> ListOf(h)]

RingsInv == qre \in Rings /\ Represents(qre, qlh_first, Lists)

\* In a state with the invariant, the elements of a list, and the loose ones.
LEMMA ListFacts ==
  ASSUME RingsInv, NEW h \in Heads
  PROVE  /\ Lists[h] = ListOf(h) /\ ListOf(h) \in Seq(Elms) /\ IsRing(qre, ListOf(h))
         /\ qlh_first[h] = First(ListOf(h))
         /\ \A e : e \in Elements(h) <=> Has(ListOf(h), e)
<1>1. Lists[h] = ListOf(h)
  BY DEF Lists
<1>2. ListOf(h) \in Seq(Elms) /\ IsRing(qre, ListOf(h)) /\ qlh_first[h] = First(ListOf(h))
  BY <1>1, HeadPointer DEF RingsInv
<1>3. \A e : e \in Elements(h) <=> Has(ListOf(h), e)
  BY <1>2, HasIs DEF Elements
<1> QED
  BY <1>1, <1>2, <1>3

LEMMA LooseIs ==
  ASSUME RingsInv, NEW e \in Elms
  PROVE  Free(e) <=> Loose(Lists, e)
<1>1. \A h \in Heads : Lists[h] = ListOf(h) /\ (e \in Elements(h) <=> Has(ListOf(h), e))
  BY ListFacts
<1> QED
  BY <1>1 DEF Free, Loose

\* A step after which the pointers represent ls has led to the invariant, and
\* to the lists ls.
LEMMA StepTo ==
  ASSUME NEW ls, qre' \in Rings, Represents(qre', qlh_first', ls)
  PROVE  RingsInv' /\ Lists' = ls
<1>1. ls = AllLists(qre', qlh_first')
  BY RepresentsLists
<1>2. Lists' = AllLists(qre', qlh_first')
  BY DEF Lists, AllLists, ListOf, ql_first
<1> QED
  BY <1>1, <1>2 DEF RingsInv

-----------------------------------------------------------------------------
(***************************************************************************)
(* The steps: what each action makes of the lists.                         *)
(***************************************************************************)
StepMakes(ls) == RingsInv' /\ Lists' = ls

LEMMA EndInsertStep ==
  ASSUME RingsInv, NEW h \in Heads, NEW e \in Elms, Free(e),
         qre' = IF ql_first(h) # NULL
                THEN qr_before_insert(qr_new(qre, e), ql_first(h), e)
                ELSE qr_new(qre, e)
  PROVE  qre' \in Rings /\ AtBothEnds(qre', qlh_first, Lists, h, e)
<1>1. Represents(qre, qlh_first, Lists) /\ qre \in Rings /\ Loose(Lists, e)
  BY LooseIs DEF RingsInv
<1>2. PICK q : q = qre'
  OBVIOUS
<1>3. q = IF qlh_first[h] # NULL
          THEN qr_before_insert(qr_new(qre, e), qlh_first[h], e) ELSE qr_new(qre, e)
  BY <1>2 DEF ql_first
<1>4. q \in Rings /\ AtBothEnds(q, qlh_first, Lists, h, e)
  BY <1>1, <1>3, EndInserted
<1> QED
  BY <1>2, <1>4

LEMMA HeadInsertStep ==
  ASSUME RingsInv, NEW h \in Heads, NEW e \in Elms, ql_head_insert(h, e)
  PROVE  StepMakes([Lists EXCEPT ![h] = <<e>> \o Lists[h]])
<1>1. Free(e) /\ qlh_first' = [qlh_first EXCEPT ![h] = e]
      /\ qre' = IF ql_first(h) # NULL
                THEN qr_before_insert(qr_new(qre, e), ql_first(h), e)
                ELSE qr_new(qre, e)
  BY DEF ql_head_insert
<1>2. qre' \in Rings /\ AtBothEnds(qre', qlh_first, Lists, h, e)
  BY <1>1, EndInsertStep
<1>3. PICK ls : ls = [Lists EXCEPT ![h] = <<e>> \o Lists[h]]
  OBVIOUS
<1>4. Represents(qre', qlh_first', ls)
  BY <1>1, <1>2, <1>3 DEF AtBothEnds
<1> QED
  BY <1>2, <1>3, <1>4, StepTo DEF StepMakes

LEMMA TailInsertStep ==
  ASSUME RingsInv, NEW h \in Heads, NEW e \in Elms,
         ql_tail_insert(h, e) \/ PushBack(h, e)
  PROVE  StepMakes([Lists EXCEPT ![h] = Append(Lists[h], e)])
<1>1. Free(e) /\ qre' = IF ql_first(h) # NULL
                        THEN qr_before_insert(qr_new(qre, e), ql_first(h), e)
                        ELSE qr_new(qre, e)
  BY DEF ql_tail_insert, PushBack
<1>2. qre' \in Rings /\ AtBothEnds(qre', qlh_first, Lists, h, e)
  BY <1>1, EndInsertStep
<1>3. PICK ls : ls = [Lists EXCEPT ![h] = Append(Lists[h], e)]
  OBVIOUS
<1>4. qlh_first' = [qlh_first EXCEPT ![h] = qre'.qre_next[e]]
  <2>1. CASE ql_tail_insert(h, e)
    BY <2>1 DEF ql_tail_insert
  <2>2. CASE PushBack(h, e)
    <3>1. qlh_first[h] # NULL /\ qlh_first' = qlh_first
      BY <2>2 DEF PushBack, ql_first
    <3>2. qre'.qre_next[e] = qlh_first[h]
      BY <3>1, <1>2 DEF AtBothEnds
    <3>3. qlh_first = [g \in Heads |-> First(Lists[g])]
      BY DEF RingsInv, Represents
    <3> QED
      BY <3>1, <3>2, <3>3
  <2> QED
    BY <2>1, <2>2
<1>5. Represents(qre', qlh_first', ls)
  BY <1>2, <1>3, <1>4 DEF AtBothEnds
<1> QED
  BY <1>2, <1>3, <1>5, StepTo DEF StepMakes

LEMMA BeforeInsertStep ==
  ASSUME RingsInv, NEW h \in Heads, NEW e \in Elms, NEW at \in Elms,
         ql_before_insert(h, at, e)
  PROVE  \E i \in 1 .. Len(Lists[h]) :
           StepMakes([Lists EXCEPT ![h] = InsertAt(Lists[h], i, e)])
<1>1. Free(e) /\ Has(Lists[h], at)
      /\ qre' = qr_before_insert(qr_new(qre, e), at, e)
      /\ qlh_first' = IF qlh_first[h] = at THEN [qlh_first EXCEPT ![h] = e] ELSE qlh_first
  BY ListFacts DEF ql_before_insert, ql_first
<1>2. PICK i \in 1 .. Len(Lists[h]) : Lists[h][i] = at
  BY <1>1 DEF Has
<1>3. Represents(qre, qlh_first, Lists) /\ qre \in Rings /\ Loose(Lists, e)
  BY <1>1, LooseIs DEF RingsInv
<1>4. PICK q, f2 : q = qre' /\ f2 = qlh_first'
  OBVIOUS
<1>5. q = qr_before_insert(qr_new(qre, e), Lists[h][i], e)
      /\ f2 = IF qlh_first[h] = Lists[h][i] THEN [qlh_first EXCEPT ![h] = e] ELSE qlh_first
  BY <1>1, <1>2, <1>4
<1>6. q \in Rings /\ Represents(q, f2, [Lists EXCEPT ![h] = InsertAt(Lists[h], i, e)])
  BY <1>3, <1>5, InsertedBefore
<1>7. PICK ls : ls = [Lists EXCEPT ![h] = InsertAt(Lists[h], i, e)]
  OBVIOUS
<1>8. qre' \in Rings /\ Represents(qre', qlh_first', ls)
  BY <1>4, <1>6, <1>7
<1>9. StepMakes(ls)
  BY <1>8, StepTo DEF StepMakes
<1> QED
  BY <1>7, <1>9

LEMMA AfterInsertStep ==
  ASSUME RingsInv, NEW h \in Heads, NEW e \in Elms, NEW at \in Elms,
         ql_after_insert(h, at, e)
  PROVE  \E i \in 1 .. Len(Lists[h]) :
           StepMakes([Lists EXCEPT ![h] = InsertAt(Lists[h], i + 1, e)])
<1>1. Free(e) /\ Has(Lists[h], at)
      /\ qre' = qr_after_insert(qr_new(qre, e), at, e)
      /\ qlh_first' = qlh_first
  BY ListFacts DEF ql_after_insert
<1>2. PICK i \in 1 .. Len(Lists[h]) : Lists[h][i] = at
  BY <1>1 DEF Has
<1>3. Represents(qre, qlh_first, Lists) /\ qre \in Rings /\ Loose(Lists, e)
  BY <1>1, LooseIs DEF RingsInv
<1>4. PICK q : q = qre'
  OBVIOUS
<1>5. q = qr_after_insert(qr_new(qre, e), Lists[h][i], e)
  BY <1>1, <1>2, <1>4
<1>6. /\ q \in Rings
      /\ Represents(q, qlh_first, [Lists EXCEPT ![h] = InsertAt(Lists[h], i + 1, e)])
  BY <1>3, <1>5, InsertedAfter
<1>7. PICK ls : ls = [Lists EXCEPT ![h] = InsertAt(Lists[h], i + 1, e)]
  OBVIOUS
<1>8. qre' \in Rings /\ Represents(qre', qlh_first', ls)
  BY <1>1, <1>4, <1>6, <1>7
<1>9. StepMakes(ls)
  BY <1>8, StepTo DEF StepMakes
<1> QED
  BY <1>7, <1>9

\* Also the removals at the ends.
LEMMA RemoveStep ==
  ASSUME RingsInv, NEW h \in Heads, NEW e, ql_remove(h, e)
  PROVE  \E i \in 1 .. Len(Lists[h]) :
           Lists[h][i] = e /\ StepMakes([Lists EXCEPT ![h] = RemoveAt(Lists[h], i)])
<1>1. PICK s : s = Lists[h]
  OBVIOUS
<1>2. /\ s \in Seq(Elms) /\ IsRing(qre, s) /\ Has(s, e)
      /\ Represents(qre, qlh_first, Lists) /\ qre \in Rings
  BY <1>1, ListFacts DEF ql_remove, RingsInv
<1>3. PICK i \in 1 .. Len(s) : s[i] = e
  BY <1>2 DEF Has
<1>4. PICK n : n = Len(s)
  OBVIOUS
<1>5. n \in Nat /\ i \in 1 .. n /\ 1 \in 1 .. n
  BY <1>2, <1>3, <1>4, SeqLength
<1>6. qlh_first[h] = s[1]
  <2>1. s # <<>>
    BY <1>2, <1>4, <1>5, EmptySeq
  <2> QED
    BY <2>1, <1>1, <1>2, HeadPointer DEF First
<1>7. s[1] = e <=> i = 1
  BY <1>2, <1>3, <1>4, <1>5 DEF IsRing, Distinct
<1>8. qre.qre_next[s[1]] = s[Succ(s, 1)]
  BY <1>2, <1>4, <1>5 DEF IsRing, Circle
<1>9. PICK first : first = IF i = 1 THEN qre.qre_next[s[1]] ELSE s[1]
  OBVIOUS
<1>10. IF first # e
       THEN qre' = qr_remove(qre, e) /\ qlh_first' = [qlh_first EXCEPT ![h] = first]
       ELSE qlh_first' = [qlh_first EXCEPT ![h] = NULL] /\ qre' = qre
  BY <1>3, <1>6, <1>7, <1>9 DEF ql_remove, ql_first
<1>11. CASE n >= 2
  <2>1. first # e
    <3>1. CASE i = 1
      <4>1. Succ(s, 1) = 2 /\ 2 \in 1 .. n /\ 2 # 1
        <5>1. 1 # n /\ 1 + 1 = 2 /\ 2 \in 1 .. n
          BY <1>5, <1>11
        <5> QED
          BY <5>1, <1>4 DEF Succ
      <4>2. s[2] # s[1]
        BY <4>1, <1>2, <1>4, <1>5 DEF IsRing, Distinct
      <4> QED
        BY <4>1, <4>2, <3>1, <1>3, <1>8, <1>9
    <3>2. CASE i # 1
      BY <3>2, <1>7, <1>9
    <3> QED
      BY <3>1, <3>2
  <2>2. PICK q, f2 : q = qre' /\ f2 = qlh_first'
    OBVIOUS
  <2>3. /\ q = qr_remove(qre, Lists[h][i])
        /\ f2 = [qlh_first EXCEPT
                   ![h] = IF i = 1 THEN qre.qre_next[Lists[h][1]] ELSE Lists[h][1]]
        /\ i \in 1 .. Len(Lists[h]) /\ Len(Lists[h]) >= 2
    BY <2>1, <2>2, <1>1, <1>3, <1>4, <1>9, <1>10, <1>11
  <2>4. q \in Rings /\ Represents(q, f2, [Lists EXCEPT ![h] = RemoveAt(Lists[h], i)])
    BY <2>3, <1>2, RemovedOne
  <2>5. PICK ls : ls = [Lists EXCEPT ![h] = RemoveAt(Lists[h], i)]
    OBVIOUS
  <2>6. qre' \in Rings /\ Represents(qre', qlh_first', ls)
    BY <2>2, <2>4, <2>5
  <2>7. StepMakes(ls)
    BY <2>6, StepTo DEF StepMakes
  <2> QED
    BY <2>5, <2>7, <1>1, <1>3
<1>12. CASE ~(n >= 2)
  <2>1. n = 1 /\ i = 1
    BY <1>5, <1>12
  <2>2. first = e
    <3>1. Succ(s, 1) = 1
      BY <2>1, <1>4 DEF Succ
    <3> QED
      BY <3>1, <2>1, <1>3, <1>8, <1>9
  <2>3. PICK f2 : f2 = qlh_first'
    OBVIOUS
  <2>4. f2 = [qlh_first EXCEPT ![h] = NULL] /\ Len(Lists[h]) = 1
    BY <2>1, <2>2, <2>3, <1>1, <1>4, <1>10
  <2>5. Represents(qre, f2, [Lists EXCEPT ![h] = RemoveAt(Lists[h], 1)])
    BY <2>4, <1>2, RemovedLast
  <2>6. PICK ls : ls = [Lists EXCEPT ![h] = RemoveAt(Lists[h], 1)]
    OBVIOUS
  <2>7. qre' \in Rings /\ Represents(qre', qlh_first', ls)
    BY <2>2, <2>3, <2>5, <2>6, <1>2, <1>10
  <2>8. StepMakes(ls)
    BY <2>7, StepTo DEF StepMakes
  <2> QED
    BY <2>1, <2>6, <2>8, <1>1, <1>3
<1> QED
  BY <1>11, <1>12

LEMMA AdvanceStep ==
  ASSUME RingsInv, NEW h \in Heads, Advance(h)
  PROVE  /\ Lists[h] # <<>>
         /\ StepMakes([Lists EXCEPT ![h] = Append(Tail(Lists[h]), Head(Lists[h]))])
<1>1. /\ Represents(qre, qlh_first, Lists) /\ qre \in Rings
      /\ qlh_first[h] # NULL /\ qre' = qre
      /\ qlh_first' = [qlh_first EXCEPT ![h] = qre.qre_next[@]]
  BY DEF RingsInv, Advance, ql_first
<1>2. PICK f2 : f2 = qlh_first'
  OBVIOUS
<1>3. f2 = [qlh_first EXCEPT ![h] = qre.qre_next[@]]
  BY <1>1, <1>2
<1>4. Represents(qre, f2, [Lists EXCEPT ![h] = Append(Tail(Lists[h]), Head(Lists[h]))])
  BY <1>1, <1>3, Rotated
<1>5. PICK ls : ls = [Lists EXCEPT ![h] = Append(Tail(Lists[h]), Head(Lists[h]))]
  OBVIOUS
<1>6. qre' \in Rings /\ Represents(qre', qlh_first', ls)
  BY <1>1, <1>2, <1>4, <1>5
<1>7. StepMakes(ls)
  BY <1>6, StepTo DEF StepMakes
<1>8. Lists[h] # <<>>
  BY <1>1, HeadPointer
<1> QED
  BY <1>5, <1>7, <1>8

LEMMA AdvanceRemoveStep ==
  ASSUME RingsInv, NEW h \in Heads, AdvanceRemove(h)
  PROVE  /\ 1 \in 1 .. Len(Lists[h])
         /\ StepMakes([Lists EXCEPT ![h] = RemoveAt(Lists[h], 1)])
<1>1. /\ Represents(qre, qlh_first, Lists) /\ qre \in Rings
      /\ qlh_first[h] # NULL /\ qre.qre_next[qlh_first[h]] # qlh_first[h]
      /\ qre' = qr_remove(qre, qlh_first[h])
      /\ qlh_first' = [qlh_first EXCEPT ![h] = qre.qre_next[@]]
  BY DEF RingsInv, AdvanceRemove, ql_first
<1>2. PICK s, n : s = Lists[h] /\ n = Len(s)
  OBVIOUS
<1>3. s \in Seq(Elms) /\ IsRing(qre, s) /\ n \in Nat \ {0} /\ qlh_first[h] = s[1]
  BY <1>1, <1>2, HeadPointer
<1>4. 1 \in 1 .. n
  BY <1>3
<1>5. n # 1
  <2> SUFFICES ASSUME n = 1 PROVE FALSE
    OBVIOUS
  <2>1. Succ(s, 1) = 1
    BY <1>2 DEF Succ
  <2>2. qre.qre_next[s[1]] = s[1]
    BY <2>1, <1>2, <1>3, <1>4 DEF IsRing, Circle
  <2> QED
    BY <2>2, <1>1, <1>3
<1>6. n >= 2
  BY <1>3, <1>5
<1>7. PICK i : i = 1
  OBVIOUS
<1>8. PICK q, f2 : q = qre' /\ f2 = qlh_first'
  OBVIOUS
<1>9. f2 = [qlh_first EXCEPT ![h] = qre.qre_next[Lists[h][1]]]
  BY <1>1, <1>2, <1>3, <1>8
<1>10. /\ q = qr_remove(qre, Lists[h][i]) /\ i \in 1 .. Len(Lists[h]) /\ Len(Lists[h]) >= 2
       /\ f2 = [qlh_first EXCEPT
                  ![h] = IF i = 1 THEN qre.qre_next[Lists[h][1]] ELSE Lists[h][1]]
  BY <1>1, <1>2, <1>3, <1>4, <1>6, <1>7, <1>8, <1>9
<1>11. q \in Rings /\ Represents(q, f2, [Lists EXCEPT ![h] = RemoveAt(Lists[h], i)])
  BY <1>1, <1>10, RemovedOne
<1>12. PICK ls : ls = [Lists EXCEPT ![h] = RemoveAt(Lists[h], 1)]
  OBVIOUS
<1>13. qre' \in Rings /\ Represents(qre', qlh_first', ls)
  BY <1>7, <1>8, <1>11, <1>12
<1>14. StepMakes(ls)
  BY <1>13, StepTo DEF StepMakes
<1> QED
  BY <1>2, <1>4, <1>12, <1>14

-----------------------------------------------------------------------------
(***************************************************************************)
(* The invariant holds, and every step is one of the lists as sequences.   *)
(***************************************************************************)
LEMMA InitRings ==
  ASSUME Init
  PROVE  RingsInv /\ Lists = [h \in Heads |-> <<>>]
<1>1. qre \in Rings /\ qlh_first = [h \in Heads |-> NULL]
      /\ \A e \in Elms : qre.qre_next[e] = e /\ qre.qre_prev[e] = e
  BY DEF Init, Rings
<1>2. PICK ls : ls = [h \in Heads |-> <<>>]
  OBVIOUS
<1>3. <<>> \in Seq(Elms) /\ First(<<>>) = NULL /\ Len(<<>>) = 0
  BY EmptySeq DEF First
<1>4. IsRing(qre, <<>>) /\ \A e : ~Has(<<>>, e)
  BY <1>3 DEF IsRing, Distinct, Circle, Has
<1>5. Represents(qre, qlh_first, ls)
  BY <1>1, <1>2, <1>3, <1>4 DEF Represents
<1>6. Lists = AllLists(qre, qlh_first)
  BY DEF Lists, AllLists, ListOf, ql_first
<1>7. ls = AllLists(qre, qlh_first)
  BY <1>1, <1>5, RepresentsLists
<1> QED
  BY <1>1, <1>2, <1>5, <1>6, <1>7 DEF RingsInv

\* A step of the lists as sequences, or none.
SequenceStep == RingsInv' /\ (Sequence!Next \/ Lists' = Lists)

LEMMA SequencesAbsent ==
  ASSUME RingsInv, NEW e \in Elms, Free(e)
  PROVE  Sequence!Absent(e)
<1>1. \A h \in Heads : Lists[h] = ListOf(h) /\ e \notin ToSet(ListOf(h))
  BY DEF Lists, Free, Elements
<1> QED
  BY <1>1 DEF Sequence!Absent, Sequence!ToSet, ToSet, Lists

LEMMA NextSequence ==
  ASSUME RingsInv, Next
  PROVE  SequenceStep
<1>1. \A h \in Heads : Lists[h] \in Seq(Elms) /\ Len(Lists[h]) \in Nat
  BY ListFacts, SeqLength
<1>2. PICK h \in Heads :
        \/ \E e \in Elms :
             \/ ql_head_insert(h, e) \/ ql_tail_insert(h, e) \/ PushBack(h, e)
             \/ \E at \in Elms : ql_before_insert(h, at, e) \/ ql_after_insert(h, at, e)
             \/ ql_remove(h, e)
        \/ ql_head_remove(h) \/ ql_tail_remove(h)
        \/ Advance(h) \/ AdvanceRemove(h)
  BY DEF Next
<1>3. ASSUME NEW e \in Elms, ql_head_insert(h, e) PROVE SequenceStep
  <2>1. StepMakes([Lists EXCEPT ![h] = <<e>> \o Lists[h]])
    BY <1>3, HeadInsertStep
  <2>2. Sequence!InsertHead(h, e)
    BY <2>1, <1>3, SequencesAbsent
       DEF ql_head_insert, Sequence!InsertHead, StepMakes, Lists
  <2> QED
    BY <2>1, <2>2 DEF SequenceStep, Sequence!Next, StepMakes
<1>4. ASSUME NEW e \in Elms, ql_tail_insert(h, e) \/ PushBack(h, e) PROVE SequenceStep
  <2>1. StepMakes([Lists EXCEPT ![h] = Append(Lists[h], e)])
    BY <1>4, TailInsertStep
  <2>2. Sequence!InsertTail(h, e)
    BY <2>1, <1>4, SequencesAbsent
       DEF ql_tail_insert, PushBack, Sequence!InsertTail, StepMakes, Lists
  <2> QED
    BY <2>1, <2>2 DEF SequenceStep, Sequence!Next, StepMakes
<1>5. ASSUME NEW e \in Elms, NEW i \in 1 .. Len(Lists[h]) + 1, Free(e),
             StepMakes([Lists EXCEPT ![h] = InsertAt(Lists[h], i, e)])
      PROVE  SequenceStep
  <2>1. Sequence!InsertBetween(h, i, e)
    <3>1. Lists' = [Lists EXCEPT ![h] = InsertAt(Lists[h], i, e)] /\ Sequence!Absent(e)
      BY <1>5, SequencesAbsent DEF StepMakes
    <3> QED
      BY <3>1 DEF Sequence!InsertBetween, Sequence!InsertAt, InsertAt, Lists
  <2>2. \E j \in 1 .. Len(Lists[h]) + 1 : Sequence!InsertBetween(h, j, e)
    BY <2>1, <1>5
  <2> QED
    BY <2>2, <1>5 DEF SequenceStep, Sequence!Next, StepMakes, Lists
<1>6. ASSUME NEW e \in Elms, NEW at \in Elms, ql_before_insert(h, at, e)
      PROVE  SequenceStep
  <2>1. PICK i \in 1 .. Len(Lists[h]) :
          StepMakes([Lists EXCEPT ![h] = InsertAt(Lists[h], i, e)])
    BY <1>6, BeforeInsertStep
  <2>2. i \in 1 .. Len(Lists[h]) + 1 /\ Free(e)
    BY <1>1, <1>6 DEF ql_before_insert
  <2> QED
    BY <2>1, <2>2, <1>5
<1>7. ASSUME NEW e \in Elms, NEW at \in Elms, ql_after_insert(h, at, e)
      PROVE  SequenceStep
  <2>1. PICK i \in 1 .. Len(Lists[h]) :
          StepMakes([Lists EXCEPT ![h] = InsertAt(Lists[h], i + 1, e)])
    BY <1>7, AfterInsertStep
  <2>2. i + 1 \in 1 .. Len(Lists[h]) + 1 /\ Free(e)
    BY <1>1, <1>7 DEF ql_after_insert
  <2> QED
    BY <2>1, <2>2, <1>5
<1>8. ASSUME NEW i \in 1 .. Len(Lists[h]),
             StepMakes([Lists EXCEPT ![h] = RemoveAt(Lists[h], i)])
      PROVE  SequenceStep
  <2>1. Sequence!RemoveFrom(h, i)
    BY <1>8 DEF Sequence!RemoveFrom, Sequence!RemoveAt, RemoveAt, StepMakes, Lists
  <2> QED
    BY <2>1, <1>8 DEF SequenceStep, Sequence!Next, StepMakes, Lists
<1>9. ASSUME NEW e, ql_remove(h, e) PROVE SequenceStep
  BY <1>8, <1>9, RemoveStep
<1>10. CASE ql_head_remove(h) \/ ql_tail_remove(h)
  BY <1>9, <1>10 DEF ql_head_remove, ql_tail_remove
<1>11. CASE Advance(h)
  <2>1. /\ Lists[h] # <<>>
        /\ StepMakes([Lists EXCEPT ![h] = Append(Tail(Lists[h]), Head(Lists[h]))])
    BY <1>11, AdvanceStep
  <2>2. Sequence!Rotate(h)
    BY <2>1 DEF Sequence!Rotate, StepMakes, Lists
  <2> QED
    BY <2>1, <2>2 DEF SequenceStep, Sequence!Next, StepMakes
<1>12. CASE AdvanceRemove(h)
  BY <1>8, <1>12, AdvanceRemoveStep
<1> QED
  BY <1>2, <1>3, <1>4, <1>6, <1>7, <1>9, <1>10, <1>11, <1>12

LEMMA StutterRings ==
  ASSUME RingsInv, UNCHANGED vars
  PROVE  RingsInv' /\ Lists' = Lists
<1>1. qre' = qre /\ qlh_first' = qlh_first
  BY DEF vars
<1>2. qre' \in Rings /\ Represents(qre', qlh_first', Lists)
  BY <1>1 DEF RingsInv
<1> QED
  BY <1>2, StepTo

LEMMA RingsInvariant == Spec => []RingsInv
<1>1. Init => RingsInv
  BY InitRings
<1>2. RingsInv /\ [Next]_vars => RingsInv'
  BY NextSequence, StutterRings DEF SequenceStep
<1> QED
  BY <1>1, <1>2, PTL DEF Spec

-----------------------------------------------------------------------------
\* What ql_next and ql_prev give at the i-th element.
LEMMA NeighboursAre ==
  ASSUME RingsInv, NEW h \in Heads, NEW i \in 1 .. Len(ListOf(h))
  PROVE  /\ ql_next(h, ListOf(h)[i])
              = IF i = Len(ListOf(h)) THEN NULL ELSE ListOf(h)[i + 1]
         /\ ql_prev(h, ListOf(h)[i]) = IF i = 1 THEN NULL ELSE ListOf(h)[i - 1]
<1>1. PICK s, n : s = ListOf(h) /\ n = Len(s)
  OBVIOUS
<1>2. /\ s \in Seq(Elms) /\ IsRing(qre, s) /\ i \in 1 .. n /\ n \in Nat
      /\ qlh_first[h] = First(s)
  BY <1>1, ListFacts, SeqLength
<1>3. s # <<>> /\ qlh_first[h] = s[1] /\ s[1] # NULL /\ 1 \in 1 .. n /\ n \in 1 .. n
  <2>1. s # <<>>
    BY <1>1, <1>2, EmptySeq
  <2>2. 1 \in 1 .. n /\ n \in 1 .. n
    BY <1>2
  <2>3. s[1] \in Elms
    BY <2>2, <1>1, <1>2, ElementOfSeq
  <2> QED
    BY <2>1, <2>2, <2>3, <1>2, ElmsAssumption DEF First
<1>4. qre.qre_prev[s[1]] = s[n]
  <2>1. Pred(s, 1) = n
    BY <1>1 DEF Pred
  <2> QED
    BY <2>1, <1>1, <1>2, <1>3 DEF IsRing
<1>5. ql_first(h) = s[1] /\ ql_last(h) = s[n]
  BY <1>3, <1>4 DEF ql_first, ql_last
<1>6. (s[i] = s[n] <=> i = n) /\ (s[i] = s[1] <=> i = 1)
  BY <1>1, <1>2, <1>3 DEF IsRing, Distinct
<1>7. /\ i # n => qre.qre_next[s[i]] = s[i + 1]
      /\ i # 1 => qre.qre_prev[s[i]] = s[i - 1]
  BY <1>1, <1>2 DEF IsRing, Circle, Succ, Pred
<1> QED
  BY <1>1, <1>5, <1>6, <1>7 DEF ql_next, ql_prev

LEMMA InvariantIntact ==
  RingsInv => RingsIntact
<1> SUFFICES ASSUME RingsInv PROVE RingsIntact
  OBVIOUS
<1>1. ASSUME NEW h \in Heads
      PROVE  qr_reverse_foreach(qre, ql_first(h)) = Reverse(ListOf(h))
  <2>1. /\ ListOf(h) \in Seq(Elms) /\ IsRing(qre, ListOf(h))
        /\ ql_first(h) = First(ListOf(h)) /\ qre \in Rings
    BY ListFacts DEF ql_first, RingsInv
  <2> QED
    BY <2>1, ReverseForeachIs
<1>2. ASSUME NEW h \in Heads, NEW g \in Heads, h # g
      PROVE  Elements(h) \cap Elements(g) = {}
  <2> SUFFICES ASSUME NEW e, e \in Elements(h), e \in Elements(g) PROVE FALSE
    OBVIOUS
  <2>1. Lists[h] \in Seq(Elms) /\ Has(Lists[h], e) /\ Has(Lists[g], e)
    BY ListFacts
  <2>2. e \in Elms
    BY <2>1, ElementOfSeq DEF Has
  <2> QED
    BY <2>1, <2>2, <1>2 DEF RingsInv, Represents
<1>3. ASSUME NEW e \in Elms, Free(e)
      PROVE  qre.qre_next[e] = e /\ qre.qre_prev[e] = e
  BY <1>3, LooseIs DEF RingsInv, Represents, Loose
<1> QED
  BY <1>1, <1>2, <1>3, NeighboursAre DEF RingsIntact

(***************************************************************************)
(* The pointers of every list are those of one ring, both ways, no element *)
(* is in two lists, one in none points to itself, and ql_next and ql_prev  *)
(* end where the list does, after every sequence of operations on every    *)
(* number of lists and elements.                                           *)
(***************************************************************************)
THEOREM RingsAreIntact == Spec => []RingsIntact
BY RingsInvariant, InvariantIntact, PTL

(***************************************************************************)
(* An insertion at the head puts the element first, one at the tail or a   *)
(* push into the pool's ring last, and a removal takes out that element    *)
(* and keeps the order of the others.                                      *)
(***************************************************************************)
THEOREM OperationsAreOrdered == Spec => OperationsKeepOrder
<1>1. ASSUME RingsInv, NEW h \in Heads, NEW e \in Elms
      PROVE  /\ ql_head_insert(h, e) => ListOf(h)' = <<e>> \o ListOf(h)
             /\ ql_tail_insert(h, e) \/ PushBack(h, e) => ListOf(h)' = Append(ListOf(h), e)
             /\ ql_remove(h, e) => \E i \in 1 .. Len(ListOf(h)) :
                  /\ ListOf(h)[i] = e
                  /\ ListOf(h)' = RemoveAt(ListOf(h), i)
  <2>1. Lists[h] = ListOf(h) /\ Lists'[h] = ListOf(h)' /\ h \in DOMAIN Lists
    BY DEF Lists
  <2>2. ASSUME NEW t, StepMakes([Lists EXCEPT ![h] = t]) PROVE ListOf(h)' = t
    BY <2>1, <2>2 DEF StepMakes
  <2>3. ASSUME ql_head_insert(h, e) PROVE ListOf(h)' = <<e>> \o ListOf(h)
    BY <2>1, <2>2, <2>3, <1>1, HeadInsertStep
  <2>4. ASSUME ql_tail_insert(h, e) \/ PushBack(h, e)
        PROVE  ListOf(h)' = Append(ListOf(h), e)
    BY <2>1, <2>2, <2>4, <1>1, TailInsertStep
  <2>5. ASSUME ql_remove(h, e)
        PROVE  \E i \in 1 .. Len(ListOf(h)) :
                  ListOf(h)[i] = e /\ ListOf(h)' = RemoveAt(ListOf(h), i)
    <3>1. PICK i \in 1 .. Len(Lists[h]) :
            Lists[h][i] = e /\ StepMakes([Lists EXCEPT ![h] = RemoveAt(Lists[h], i)])
      BY <2>5, <1>1, RemoveStep
    <3>2. ListOf(h)' = RemoveAt(Lists[h], i)
      BY <3>1, <2>2
    <3> QED
      BY <3>1, <3>2, <2>1
  <2> QED
    BY <2>3, <2>4, <2>5
<1> DEFINE Order ==
             \A h \in Heads, e \in Elms :
               /\ ql_head_insert(h, e) => ListOf(h)' = <<e>> \o ListOf(h)
               /\ ql_tail_insert(h, e) \/ PushBack(h, e) =>
                    ListOf(h)' = Append(ListOf(h), e)
               /\ ql_remove(h, e) => \E i \in 1 .. Len(ListOf(h)) :
                    /\ ListOf(h)[i] = e
                    /\ ListOf(h)' = RemoveAt(ListOf(h), i)
<1>2. RingsInv /\ [Next]_vars => [Order]_vars
  BY <1>1
<1>3. OperationsKeepOrder <=> [][Order]_vars
  BY DEF OperationsKeepOrder
<1> QED
  BY <1>2, <1>3, RingsInvariant, PTL DEF Spec

(***************************************************************************)
(* The lists implement sequences: every step is an insertion at an end or  *)
(* between two elements, a removal, or a rotation of one of them.          *)
(***************************************************************************)
THEOREM RingsAreSequences == Spec => ImplementsSequences
<1>1. Init => Sequence!Init
  BY InitRings DEF Sequence!Init, Lists
<1>2. RingsInv /\ [Next]_vars => [Sequence!Next]_Lists
  BY NextSequence, StutterRings DEF SequenceStep
<1> QED
  BY <1>1, <1>2, RingsInvariant, PTL DEF Spec, ImplementsSequences, Sequence!Spec, Lists
=============================================================================
