---------------------------- MODULE CommonLemmas ----------------------------
(***************************************************************************)
(* The lemmas that several modules of proofs use.  First facts about       *)
(* numbers: the least element of a set of naturals, division with          *)
(* remainder and sums, used for the choice of arenas, sizes that wrap,     *)
(* addresses rounded up to an alignment, and counters of bytes.  Then      *)
(* facts about the operators of PmemPoolOps, for every number of chunks    *)
(* per pool: what a refill, an allocation and a free do to a pool whose    *)
(* ring and whose handed-out chunks partition the chunks mapped so far.    *)
(***************************************************************************)
EXTENDS PmemPoolOps, FiniteSetTheorems, WellFoundedInduction, TLAPS

-----------------------------------------------------------------------------
\* A non-empty set of naturals has a least element.
LEMMA LeastElement ==
  ASSUME NEW T \in SUBSET Nat, T # {}
  PROVE  \E x \in T : \A y \in T : x <= y
<1> DEFINE R == {ss \in Nat \X Nat : ss[1] < ss[2]}
<1>1. OpToRel(<, Nat) = R
  BY Zenon DEF OpToRel
<1>2. IsWellFoundedOn(R, Nat)
  BY <1>1, NatLessThanWellFounded, Zenon
<1>3. \E x \in T : \A y \in T : <<y, x>> \notin R
  <2> HIDE DEF R
  <2> QED
    BY <1>2, WFMin, Zenon
<1>4. PICK x \in T : \A y \in T : <<y, x>> \notin R
  BY <1>3
<1>5. \A y \in T : ~(y < x)
  BY <1>4
<1> QED
  BY <1>5

-----------------------------------------------------------------------------
\* Quotient and remainder.
LEMMA DivMod ==
  ASSUME NEW x \in Int, NEW m \in Nat \ {0}
  PROVE  /\ x \div m \in Int /\ x % m \in Int
         /\ 0 <= x % m /\ x % m < m
         /\ x % m = x - (x \div m) * m
<1>1. x % m = x - (x \div m) * m
  BY Z3
<1>2. x \div m \in Int /\ x % m \in Int /\ 0 <= x % m /\ x % m < m
  OBVIOUS
<1> QED
  BY <1>1, <1>2

\* They are the only pair of their kind.
LEMMA DivModUnique ==
  ASSUME NEW x \in Int, NEW m \in Nat \ {0}, NEW q \in Int, NEW r \in Int,
         0 <= r, r < m, x = q * m + r
  PROVE  x % m = r /\ x \div m = q
<1> DEFINE d == x \div m
           s == x % m
<1>1. d \in Int /\ s \in Int /\ 0 <= s /\ s < m /\ s = x - d * m
  BY DivMod
<1> HIDE DEF d, s
<1>2. d * m \in Int /\ q * m \in Int
  BY <1>1
<1>3. (d - q) * m = r - s
  BY <1>1, <1>2
<1>4. ASSUME d - q >= 1 PROVE FALSE
  <2>1. (d - q) * m >= m
    BY <1>1, <1>4
  <2> QED
    BY <2>1, <1>1, <1>3
<1>5. ASSUME d - q <= -1 PROVE FALSE
  <2>1. (d - q) * m <= -m
    BY <1>1, <1>5
  <2> QED
    BY <2>1, <1>1, <1>3
<1>6. d = q
  BY <1>1, <1>4, <1>5
<1> QED
  BY <1>1, <1>2, <1>6 DEF d, s

\* Multiples of the modulus change nothing.
LEMMA ModShift ==
  ASSUME NEW x \in Int, NEW q \in Int, NEW m \in Nat \ {0}
  PROVE  (x + q * m) % m = x % m
<1> DEFINE d == x \div m
           s == x % m
           y == x + q * m
           k == d + q
<1>1. d \in Int /\ s \in Int /\ 0 <= s /\ s < m /\ s = x - d * m
  BY DivMod
<1> HIDE DEF d, s
<1>2. d * m \in Int /\ q * m \in Int /\ (d + q) * m = d * m + q * m
  BY <1>1
<1>3. y \in Int /\ k \in Int /\ y = k * m + s
  BY <1>1, <1>2
<1> HIDE DEF y, k
<1>4. y % m = s
  BY <1>1, <1>3, DivModUnique
<1> QED
  BY <1>4 DEF y, s

\* A subtraction may be done on the remainder.
LEMMA ModSub ==
  ASSUME NEW a \in Int, NEW b \in Int, NEW m \in Nat \ {0}
  PROVE  ((a % m) - b) % m = (a - b) % m
<1> DEFINE d == a \div m
           s == a % m
           x == a - b
           q == -d
<1>1. d \in Int /\ s \in Int /\ s = a - d * m
  BY DivMod
<1> HIDE DEF d, s
<1>2. d * m \in Int /\ (-d) * m = -(d * m)
  BY <1>1
<1>3. s - b = x + q * m /\ x \in Int /\ q \in Int
  BY <1>1, <1>2
<1> HIDE DEF x, q
<1>4. (x + q * m) % m = x % m
  BY <1>3, ModShift
<1> QED
  BY <1>3, <1>4 DEF x, s

\* A number below the modulus is its own remainder.
LEMMA ModSmall ==
  ASSUME NEW m \in Nat \ {0}, NEW x \in Nat, x < m
  PROVE  x % m = x
OBVIOUS

\* Rounding up to a multiple.
LEMMA RoundUp ==
  ASSUME NEW x \in Nat, NEW m \in Nat \ {0}
  PROVE  LET c == ((x + m - 1) \div m) * m
         IN  /\ c \in Nat /\ x <= c /\ c < x + m
             /\ \E q \in Nat : c = q * m
<1> DEFINE q == (x + m - 1) \div m
           r == (x + m - 1) % m
<1>1. x + m - 1 \in Nat
  OBVIOUS
<1>2. q \in Int /\ r \in Int /\ 0 <= r /\ r < m /\ r = (x + m - 1) - q * m
  BY <1>1, DivMod
<1>3. q \in Nat
  BY <1>1
<1> HIDE DEF q, r
<1>4. q * m \in Nat
  BY <1>3
<1>5. x <= q * m /\ q * m < x + m
  BY <1>2, <1>4
<1> QED
  BY <1>3, <1>4, <1>5 DEF q

-----------------------------------------------------------------------------
\* Multiples: what they are, sums, differences, multiples of multiples, and
\* the distance between two of them.
LEMMA MultipleIs ==
  ASSUME NEW x \in Nat, NEW m \in Nat \ {0}, x % m = 0
  PROVE  x \div m \in Nat /\ x = (x \div m) * m
<1>1. x % m = x - (x \div m) * m /\ x \div m \in Int
  BY DivMod
<1>2. x \div m \in Nat
  OBVIOUS
<1> DEFINE q == x \div m
<1>3. q * m \in Int
  BY <1>2
<1> QED
  BY <1>1, <1>2, <1>3

LEMMA MultipleOf ==
  ASSUME NEW q \in Nat, NEW m \in Nat \ {0}
  PROVE  q * m \in Nat /\ (q * m) % m = 0 /\ (q * m) \div m = q
<1> DEFINE x == q * m
<1>1. x \in Int /\ x = q * m + 0 /\ x \in Nat
  OBVIOUS
<1>2. q \in Int
  OBVIOUS
<1> HIDE DEF x
<1>3. x % m = 0 /\ x \div m = q
  BY <1>1, <1>2, DivModUnique
<1> QED
  BY <1>1, <1>3 DEF x

LEMMA MultipleSum ==
  ASSUME NEW x \in Nat, NEW y \in Nat, NEW m \in Nat \ {0}, x % m = 0, y % m = 0
  PROVE  /\ (x + y) % m = 0
         /\ (x + y) \div m = (x \div m) + (y \div m)
<1>1. PICK p \in Nat : p = x \div m /\ x = p * m
  BY MultipleIs
<1>2. PICK q \in Nat : q = y \div m /\ y = q * m
  BY MultipleIs
<1>3. (p + q) * m = p * m + q * m
  OBVIOUS
<1>4. ((p + q) * m) % m = 0 /\ ((p + q) * m) \div m = p + q
  BY MultipleOf
<1>5. x + y = (p + q) * m
  BY <1>1, <1>2, <1>3
<1> QED
  BY <1>1, <1>2, <1>4, <1>5

LEMMA MultipleDiff ==
  ASSUME NEW x \in Nat, NEW y \in Nat, NEW m \in Nat \ {0}, x % m = 0, y % m = 0,
         y <= x
  PROVE  (x - y) % m = 0
<1>1. PICK p \in Nat : p = x \div m /\ x = p * m
  BY MultipleIs
<1>2. PICK q \in Nat : q = y \div m /\ y = q * m
  BY MultipleIs
<1>3. ASSUME p < q PROVE FALSE
  <2>1. p * m < q * m
    BY <1>3
  <2> QED
    BY <2>1, <1>1, <1>2
<1>4. p - q \in Nat /\ (p - q) * m = p * m - q * m
  BY <1>3
<1>5. ((p - q) * m) % m = 0
  BY <1>4, MultipleOf
<1> QED
  BY <1>1, <1>2, <1>4, <1>5

LEMMA MultipleTrans ==
  ASSUME NEW x \in Nat, NEW c \in Nat \ {0}, NEW m \in Nat \ {0},
         x % c = 0, c % m = 0
  PROVE  x % m = 0
<1>1. PICK p \in Nat : x = p * c
  BY MultipleIs
<1>2. PICK q \in Nat : c = q * m
  BY MultipleIs
<1>3. p * q \in Nat /\ (p * q) * m = p * (q * m)
  OBVIOUS
<1>4. ((p * q) * m) % m = 0
  BY <1>3, MultipleOf
<1> QED
  BY <1>1, <1>2, <1>3, <1>4

LEMMA MultipleStep ==
  ASSUME NEW x \in Nat, NEW y \in Nat, NEW m \in Nat \ {0}, x % m = 0, y % m = 0,
         x < y
  PROVE  x + m <= y
<1>1. PICK p \in Nat : x = p * m
  BY MultipleIs
<1>2. PICK q \in Nat : y = q * m
  BY MultipleIs
<1>3. ASSUME q <= p PROVE FALSE
  <2>1. q * m <= p * m
    BY <1>3
  <2> QED
    BY <2>1, <1>1, <1>2
<1>4. p + 1 <= q
  BY <1>3
<1>5. (p + 1) * m <= q * m
  BY <1>4
<1>6. (p + 1) * m = p * m + m
  OBVIOUS
<1> QED
  BY <1>1, <1>2, <1>5, <1>6

\* Quotients are ordered as the numbers are.
LEMMA DivBounds ==
  ASSUME NEW x \in Nat, NEW p \in Nat, NEW q \in Nat, NEW m \in Nat \ {0},
         p * m <= x, x < q * m
  PROVE  p <= x \div m /\ x \div m < q
<1>1. PICK d \in Nat, r \in Nat : d = x \div m /\ r < m /\ r = x - d * m
  BY DivMod
<1>2. d * m \in Nat
  OBVIOUS
<1>3. ASSUME d < p PROVE FALSE
  <2>1. (d + 1) * m <= p * m /\ (d + 1) * m = d * m + m
    BY <1>3
  <2> QED
    BY <2>1, <1>1, <1>2
<1>4. ASSUME q <= d PROVE FALSE
  <2>1. q * m <= d * m
    BY <1>4
  <2> QED
    BY <2>1, <1>1, <1>2
<1> QED
  BY <1>1, <1>3, <1>4

-----------------------------------------------------------------------------
(***************************************************************************)
(* Sums over finite sets.  SumFunctionOnSet takes the elements one by one, *)
(* in an order nobody chooses; the lemmas say that the order is of no      *)
(* consequence.  Where induction on the size of a set is needed, a         *)
(* smallest set for which the claim fails leads to a contradiction.        *)
(***************************************************************************)
Some(s) == CHOOSE x \in s : TRUE

\* One step of the recursion, with the sums g of smaller sets.
SumStepOf(f, S, g) ==
  [s \in SUBSET S |-> IF s = {} THEN 0 ELSE f[Some(s)] + g[s \ {Some(s)}]]

\* g is the sum for every subset of S.
IsSum(g, f, S) == g = SumStepOf(f, S, g)

LEMMA SmallestSet ==
  ASSUME NEW C, C # {}, \A s \in C : IsFiniteSet(s)
  PROVE  \E s \in C : \A r \in C : Cardinality(s) <= Cardinality(r)
<1> DEFINE T == {Cardinality(s) : s \in C}
<1>1. T \in SUBSET Nat /\ T # {}
  BY FS_CardinalityType
<1>2. PICK n \in T : \A k \in T : n <= k
  BY <1>1, LeastElement
<1> QED
  BY <1>2

\* A set without an element of it is smaller.
LEMMA SmallerSet ==
  ASSUME NEW s, IsFiniteSet(s), NEW x \in s
  PROVE  /\ IsFiniteSet(s \ {x})
         /\ Cardinality(s) \in Nat /\ Cardinality(s \ {x}) \in Nat
         /\ Cardinality(s) = Cardinality(s \ {x}) + 1
<1>1. IsFiniteSet(s \ {x}) /\ Cardinality(s \ {x}) = Cardinality(s) - 1
  BY FS_RemoveElement
<1>2. Cardinality(s) \in Nat /\ Cardinality(s \ {x}) \in Nat
  BY <1>1, FS_CardinalityType
<1> QED
  BY <1>1, <1>2

LEMMA SomeIsElement ==
  ASSUME NEW s, s # {}
  PROVE  Some(s) \in s
  BY DEF Some

LEMMA SumExists ==
  ASSUME NEW f, NEW S, IsFiniteSet(S)
  PROVE  \E g : IsSum(g, f, S)
<1> DEFINE Step(g) == SumStepOf(f, S, g)
           Right(g, n) == \A s \in SUBSET S : Cardinality(s) <= n => g[s] = Step(g)[s]
<1>0. \A s \in SUBSET S : IsFiniteSet(s) /\ Cardinality(s) \in Nat
  BY FS_Subset, FS_CardinalityType
<1>1. ASSUME NEW g, NEW h, \A s \in SUBSET S : s # {} => g[s \ {Some(s)}] = h[s \ {Some(s)}]
      PROVE  Step(g) = Step(h)
  BY <1>1 DEF SumStepOf
<1>2. ASSUME NEW g, NEW n \in Nat, Right(g, n)
      PROVE  Right(Step(g), n + 1)
  <2> SUFFICES ASSUME NEW s \in SUBSET S, Cardinality(s) <= n + 1
               PROVE  Step(g)[s] = Step(Step(g))[s]
    OBVIOUS
  <2>1. CASE s = {}
    BY <2>1 DEF SumStepOf
  <2>2. CASE s # {}
    <3>1. Some(s) \in s
      BY <2>2, SomeIsElement
    <3>2. s \ {Some(s)} \in SUBSET S /\ Cardinality(s \ {Some(s)}) <= n
      BY <1>0, <3>1, SmallerSet
    <3>3. g[s \ {Some(s)}] = Step(g)[s \ {Some(s)}]
      BY <1>2, <3>2
    <3>4. Step(g)[s] = f[Some(s)] + g[s \ {Some(s)}]
      BY <2>2 DEF SumStepOf
    <3>5. Step(Step(g))[s] = f[Some(s)] + Step(g)[s \ {Some(s)}]
      BY <2>2 DEF SumStepOf
    <3> QED
      BY <3>3, <3>4, <3>5
  <2> QED
    BY <2>1, <2>2
<1>3. \A g : Right(Step(g), 0)
  <2> SUFFICES ASSUME NEW g, NEW s \in SUBSET S, Cardinality(s) <= 0
               PROVE  Step(g)[s] = Step(Step(g))[s]
    OBVIOUS
  <2>1. s = {}
    BY <1>0, FS_EmptySet
  <2> QED
    BY <2>1 DEF SumStepOf
<1> DEFINE Bad == {n \in Nat : ~ \E g : Right(g, n)}
<1> HIDE DEF Step, Right
<1>4. Bad = {}
  <2> SUFFICES ASSUME Bad # {} PROVE FALSE
    OBVIOUS
  <2>1. PICK n \in Bad : \A k \in Bad : n <= k
    BY LeastElement
  <2>2. n # 0
    BY <1>3
  <2>3. n - 1 \in Nat /\ n - 1 \notin Bad
    BY <2>1, <2>2
  <2>4. PICK g : Right(g, n - 1)
    BY <2>3
  <2>5. Right(Step(g), n)
    BY <1>2, <2>3, <2>4
  <2> QED
    BY <2>5
<1>5. Cardinality(S) \in Nat
  BY <1>0
<1>6. PICK g : Right(g, Cardinality(S))
  BY <1>4, <1>5
<1>7. \A s \in SUBSET S : g[s] = Step(g)[s]
  <2>1. \A s \in SUBSET S : Cardinality(s) <= Cardinality(S)
    BY FS_Subset
  <2> QED
    BY <1>6, <2>1 DEF Right
<1>8. \A s \in SUBSET S : s \ {Some(s)} \in SUBSET S
  OBVIOUS
<1>9. Step(g) = Step(Step(g))
  BY <1>1, <1>7, <1>8
<1> QED
  BY <1>9 DEF IsSum, Step

\* The sums of larger sets agree with those of smaller ones.
LEMMA SumUnique ==
  ASSUME NEW f, NEW S, IsFiniteSet(S), NEW R \in SUBSET S,
         NEW g, IsSum(g, f, S), NEW h, IsSum(h, f, R)
  PROVE  \A s \in SUBSET R : g[s] = h[s]
<1> DEFINE C == {s \in SUBSET R : g[s] # h[s]}
<1> SUFFICES ASSUME C # {} PROVE FALSE
  OBVIOUS
<1>1. \A s \in C : IsFiniteSet(s)
  BY FS_Subset
<1>2. PICK s \in C : \A r \in C : Cardinality(s) <= Cardinality(r)
  <2> HIDE DEF C
  <2> QED
    BY <1>1, SmallestSet
<1>3. s \in SUBSET R /\ s \in SUBSET S /\ IsFiniteSet(s)
  BY <1>1
<1>4. /\ g[s] = IF s = {} THEN 0 ELSE f[Some(s)] + g[s \ {Some(s)}]
      /\ h[s] = IF s = {} THEN 0 ELSE f[Some(s)] + h[s \ {Some(s)}]
  BY <1>3 DEF IsSum, SumStepOf
<1>5. s # {}
  BY <1>2, <1>4
<1>6. Some(s) \in s
  BY <1>5, SomeIsElement
<1>7. /\ Cardinality(s) \in Nat /\ Cardinality(s \ {Some(s)}) \in Nat
      /\ Cardinality(s) = Cardinality(s \ {Some(s)}) + 1
  BY <1>3, <1>6, SmallerSet
<1>8. s \ {Some(s)} \notin C
  <2> HIDE DEF C
  <2> QED
    BY <1>2, <1>7
<1> QED
  BY <1>2, <1>3, <1>4, <1>5, <1>8

\* The equation of the sum.
LEMMA SumEquation ==
  ASSUME NEW f, NEW S, IsFiniteSet(S)
  PROVE  SumFunctionOnSet(f, S) =
           IF S = {} THEN 0 ELSE f[Some(S)] + SumFunctionOnSet(f, S \ {Some(S)})
<1> DEFINE g(R) == CHOOSE h : IsSum(h, f, R)
<1>1. \A R : SumFunctionOnSet(f, R) = g(R)[R]
  BY DEF SumFunctionOnSet, FoldFunctionOnSet, MapThenFoldSet, IsSum, SumStepOf, Some
<1>2. \A R \in SUBSET S : IsFiniteSet(R) /\ IsSum(g(R), f, R)
  BY SumExists, FS_Subset
<1> HIDE DEF g
<1>3. g(S)[S] = IF S = {} THEN 0 ELSE f[Some(S)] + g(S)[S \ {Some(S)}]
  BY <1>2 DEF IsSum, SumStepOf
<1>4. PICK R : R = S \ {Some(S)} /\ R \in SUBSET S
  OBVIOUS
<1>5. g(S)[R] = g(R)[R]
  BY <1>2, <1>4, SumUnique
<1> QED
  BY <1>1, <1>3, <1>4, <1>5

\* A sum of naturals is a natural.
LEMMA SumType ==
  ASSUME NEW f, NEW S, IsFiniteSet(S), \A x \in S : f[x] \in Nat
  PROVE  SumFunctionOnSet(f, S) \in Nat
<1> DEFINE C == {s \in SUBSET S : SumFunctionOnSet(f, s) \notin Nat}
<1> SUFFICES ASSUME C # {} PROVE FALSE
  OBVIOUS
<1>1. \A s \in C : IsFiniteSet(s)
  BY FS_Subset
<1>2. PICK s \in C : \A r \in C : Cardinality(s) <= Cardinality(r)
  <2> HIDE DEF C
  <2> QED
    BY <1>1, SmallestSet
<1>3. s \in SUBSET S /\ IsFiniteSet(s) /\ SumFunctionOnSet(f, s) \notin Nat
  BY <1>1
<1>4. SumFunctionOnSet(f, s) =
        IF s = {} THEN 0 ELSE f[Some(s)] + SumFunctionOnSet(f, s \ {Some(s)})
  BY <1>3, SumEquation
<1>5. s # {}
  BY <1>3, <1>4
<1>6. Some(s) \in s
  BY <1>5, SomeIsElement
<1>7. /\ Cardinality(s) \in Nat /\ Cardinality(s \ {Some(s)}) \in Nat
      /\ Cardinality(s) = Cardinality(s \ {Some(s)}) + 1
  BY <1>3, <1>6, SmallerSet
<1>8. s \ {Some(s)} \notin C
  <2> HIDE DEF C
  <2> QED
    BY <1>2, <1>7
<1>9. s \ {Some(s)} \in SUBSET S /\ f[Some(s)] \in Nat
  BY <1>3, <1>6
<1> QED
  BY <1>3, <1>4, <1>5, <1>8, <1>9

\* Only the values on the set matter.
LEMMA SumSame ==
  ASSUME NEW f, NEW h, NEW S, IsFiniteSet(S), \A x \in S : f[x] = h[x]
  PROVE  SumFunctionOnSet(f, S) = SumFunctionOnSet(h, S)
<1> DEFINE C == {s \in SUBSET S : SumFunctionOnSet(f, s) # SumFunctionOnSet(h, s)}
<1> SUFFICES ASSUME C # {} PROVE FALSE
  OBVIOUS
<1>1. \A s \in C : IsFiniteSet(s)
  BY FS_Subset
<1>2. PICK s \in C : \A r \in C : Cardinality(s) <= Cardinality(r)
  <2> HIDE DEF C
  <2> QED
    BY <1>1, SmallestSet
<1>3. /\ s \in SUBSET S /\ IsFiniteSet(s)
      /\ SumFunctionOnSet(f, s) # SumFunctionOnSet(h, s)
  BY <1>1
<1>4. /\ SumFunctionOnSet(f, s) =
           IF s = {} THEN 0 ELSE f[Some(s)] + SumFunctionOnSet(f, s \ {Some(s)})
      /\ SumFunctionOnSet(h, s) =
           IF s = {} THEN 0 ELSE h[Some(s)] + SumFunctionOnSet(h, s \ {Some(s)})
  BY <1>3, SumEquation
<1>5. s # {}
  BY <1>3, <1>4
<1>6. Some(s) \in s
  BY <1>5, SomeIsElement
<1>7. /\ Cardinality(s) \in Nat /\ Cardinality(s \ {Some(s)}) \in Nat
      /\ Cardinality(s) = Cardinality(s \ {Some(s)}) + 1
  BY <1>3, <1>6, SmallerSet
<1>8. s \ {Some(s)} \notin C
  <2> HIDE DEF C
  <2> QED
    BY <1>2, <1>7
<1>9. s \ {Some(s)} \in SUBSET S /\ f[Some(s)] = h[Some(s)]
  BY <1>3, <1>6
<1> QED
  BY <1>3, <1>4, <1>5, <1>8, <1>9

\* One element more.
LEMMA SumAdd ==
  ASSUME NEW f, NEW S, IsFiniteSet(S), NEW x, x \notin S,
         \A y \in S \cup {x} : f[y] \in Nat
  PROVE  SumFunctionOnSet(f, S \cup {x}) = SumFunctionOnSet(f, S) + f[x]
<1> DEFINE U == S \cup {x}
           Wrong(s, y) == SumFunctionOnSet(f, s \cup {y}) # SumFunctionOnSet(f, s) + f[y]
           C == {s \in SUBSET U : \E y \in U \ s : Wrong(s, y)}
<1>0. IsFiniteSet(U)
  BY FS_AddElement
<1> SUFFICES ASSUME C # {} PROVE FALSE
  <2>1. x \in U \ S /\ S \in SUBSET U
    OBVIOUS
  <2> QED
    BY <2>1
<1>1. \A s \in C : IsFiniteSet(s)
  BY <1>0, FS_Subset
<1>2. PICK s \in C : \A r \in C : Cardinality(s) <= Cardinality(r)
  <2> HIDE DEF C
  <2> QED
    BY <1>1, SmallestSet
<1>3. PICK y \in U \ s : Wrong(s, y)
  BY <1>2
<1>4. s \in SUBSET U /\ IsFiniteSet(s) /\ y \in U /\ y \notin s
  BY <1>1, <1>2, <1>3
<1>5. \A r \in SUBSET U : IsFiniteSet(r) /\ SumFunctionOnSet(f, r) \in Nat
  BY <1>0, FS_Subset, SumType
<1>6. PICK w, z : w = s \cup {y} /\ z = Some(w)
  OBVIOUS
<1>7. w \in SUBSET U /\ w # {} /\ z \in w
  BY <1>4, <1>6, SomeIsElement
<1>8. SumFunctionOnSet(f, w) = f[z] + SumFunctionOnSet(f, w \ {z})
  BY <1>5, <1>6, <1>7, SumEquation
<1>9. f[y] \in Nat /\ f[z] \in Nat
  BY <1>4, <1>7
<1>10. z # y
  <2> SUFFICES ASSUME z = y PROVE FALSE
    OBVIOUS
  <2>1. w \ {z} = s
    BY <1>4, <1>6
  <2> QED
    BY <1>3, <1>4, <1>5, <1>6, <1>8, <1>9, <2>1
<1>11. PICK r : r = s \ {z}
  OBVIOUS
<1>12. z \in s /\ r \in SUBSET U /\ w \ {z} = r \cup {y} /\ s = r \cup {z}
       /\ y \in U \ r /\ z \in U \ r
  BY <1>4, <1>6, <1>7, <1>10, <1>11
<1>13. r \notin C
  <2>1. /\ Cardinality(s) \in Nat /\ Cardinality(r) \in Nat
        /\ Cardinality(s) = Cardinality(r) + 1
    BY <1>4, <1>11, <1>12, SmallerSet
  <2> HIDE DEF C
  <2> QED
    BY <1>2, <2>1
<1>14. /\ SumFunctionOnSet(f, r \cup {y}) = SumFunctionOnSet(f, r) + f[y]
       /\ SumFunctionOnSet(f, r \cup {z}) = SumFunctionOnSet(f, r) + f[z]
  BY <1>12, <1>13
<1>15. SumFunctionOnSet(f, r) \in Nat
  BY <1>5, <1>12
<1>16. SumFunctionOnSet(f, s) = SumFunctionOnSet(f, r) + f[z]
  BY <1>12, <1>14
<1>17. SumFunctionOnSet(f, w) = f[z] + (SumFunctionOnSet(f, r) + f[y])
  BY <1>8, <1>12, <1>14
<1> QED
  BY <1>3, <1>6, <1>9, <1>15, <1>16, <1>17

\* The empty sum, and one element less.
LEMMA SumEmpty == ASSUME NEW f PROVE SumFunctionOnSet(f, {}) = 0
  BY SumEquation, FS_EmptySet

LEMMA SumRemove ==
  ASSUME NEW f, NEW S, IsFiniteSet(S), NEW x \in S, \A y \in S : f[y] \in Nat
  PROVE  SumFunctionOnSet(f, S) = SumFunctionOnSet(f, S \ {x}) + f[x]
<1>1. PICK R : R = S \ {x}
  OBVIOUS
<1>2. IsFiniteSet(R) /\ x \notin R /\ S = R \cup {x}
  BY <1>1, FS_RemoveElement
<1> QED
  BY <1>1, <1>2, SumAdd

\* One value changes.
LEMMA SumUpdate ==
  ASSUME NEW f, NEW h, NEW S, IsFiniteSet(S), NEW x \in S,
         \A y \in S : f[y] \in Nat /\ h[y] \in Nat,
         \A y \in S : y # x => h[y] = f[y]
  PROVE  SumFunctionOnSet(h, S) + f[x] = SumFunctionOnSet(f, S) + h[x]
<1>1. PICK R : R = S \ {x}
  OBVIOUS
<1>2. IsFiniteSet(R) /\ \A y \in R : y \in S /\ h[y] = f[y]
  BY <1>1, FS_RemoveElement
<1>3. SumFunctionOnSet(f, R) = SumFunctionOnSet(h, R) /\ SumFunctionOnSet(f, R) \in Nat
  BY <1>2, SumSame, SumType
<1>4. /\ SumFunctionOnSet(f, S) = SumFunctionOnSet(f, R) + f[x]
      /\ SumFunctionOnSet(h, S) = SumFunctionOnSet(h, R) + h[x]
  BY <1>1, SumRemove
<1>5. f[x] \in Nat /\ h[x] \in Nat
  OBVIOUS
<1> QED
  BY <1>3, <1>4, <1>5

\* Nothing but zeros.
LEMMA SumZero ==
  ASSUME NEW f, NEW S, IsFiniteSet(S), \A x \in S : f[x] = 0
  PROVE  SumFunctionOnSet(f, S) = 0
<1> DEFINE C == {s \in SUBSET S : SumFunctionOnSet(f, s) # 0}
<1> SUFFICES ASSUME C # {} PROVE FALSE
  OBVIOUS
<1>1. \A s \in C : IsFiniteSet(s)
  BY FS_Subset
<1>2. PICK s \in C : \A r \in C : Cardinality(s) <= Cardinality(r)
  <2> HIDE DEF C
  <2> QED
    BY <1>1, SmallestSet
<1>3. s \in SUBSET S /\ IsFiniteSet(s) /\ s # {}
  BY <1>1, <1>2, SumEmpty
<1>4. PICK x \in s : TRUE
  BY <1>3
<1>5. \A y \in s : f[y] = 0 /\ f[y] \in Nat
  BY <1>3
<1>6. SumFunctionOnSet(f, s) = SumFunctionOnSet(f, s \ {x}) + f[x]
  BY <1>3, <1>5, SumRemove
<1>7. /\ Cardinality(s) \in Nat /\ Cardinality(s \ {x}) \in Nat
      /\ Cardinality(s) = Cardinality(s \ {x}) + 1
  BY <1>3, <1>4, SmallerSet
<1>8. s \ {x} \notin C
  <2> HIDE DEF C
  <2>1. PICK r : r = s \ {x}
    OBVIOUS
  <2>2. r \in C => Cardinality(s) <= Cardinality(r)
    BY <1>2
  <2> QED
    BY <1>7, <2>1, <2>2
<1>9. SumFunctionOnSet(f, s \ {x}) = 0
  BY <1>3, <1>8
<1> QED
  BY <1>2, <1>5, <1>6, <1>9

-----------------------------------------------------------------------------
\* Moving the head of a ring to its end keeps its nodes and adds none twice
\* (fl_now = qr_next(fl_now)).
LEMMA RotateRing ==
  ASSUME NEW S, NEW r \in Seq(S), Len(r) >= 1,
         \A i, j \in 1 .. Len(r) : r[i] = r[j] => i = j
  PROVE  LET q == Append(Tail(r), Head(r))
         IN  /\ q \in Seq(S)
             /\ Len(q) = Len(r)
             /\ q[Len(q)] = r[1]
             /\ \A i \in 1 .. Len(r) - 1 : q[i] = r[i + 1]
             /\ \A i, j \in 1 .. Len(q) : q[i] = q[j] => i = j
             /\ {q[i] : i \in 1 .. Len(q)} = {r[i] : i \in 1 .. Len(r)}
<1> DEFINE q == Append(Tail(r), Head(r))
<1>1. Head(r) \in S /\ Tail(r) \in Seq(S) /\ Len(Tail(r)) = Len(r) - 1
      /\ Head(r) = r[1] /\ \A i \in 1 .. Len(r) - 1 : Tail(r)[i] = r[i + 1]
  OBVIOUS
<1>2. q \in Seq(S) /\ Len(q) = Len(r)
  BY <1>1
<1>3. q[Len(q)] = r[1]
  BY <1>1, <1>2
<1>4. \A i \in 1 .. Len(r) - 1 : q[i] = r[i + 1]
  BY <1>1
<1>5. \A i, j \in 1 .. Len(q) : q[i] = q[j] => i = j
  <2> SUFFICES ASSUME NEW i \in 1 .. Len(q), NEW j \in 1 .. Len(q),
                      q[i] = q[j]
               PROVE  i = j
    OBVIOUS
  <2> HIDE DEF q
  <2>1. CASE i = Len(q) /\ j # Len(q)
    BY <2>1, <1>2, <1>3, <1>4
  <2>2. CASE i # Len(q) /\ j = Len(q)
    BY <2>2, <1>2, <1>3, <1>4
  <2>3. CASE i # Len(q) /\ j # Len(q)
    BY <2>3, <1>2, <1>4
  <2> QED
    BY <2>1, <2>2, <2>3
<1>6. {q[i] : i \in 1 .. Len(q)} = {r[i] : i \in 1 .. Len(r)}
  <2> HIDE DEF q
  <2>1. ASSUME NEW i \in 1 .. Len(q)
        PROVE  \E j \in 1 .. Len(r) : r[j] = q[i]
    <3>1. CASE i = Len(q)
      BY <3>1, <1>2, <1>3
    <3>2. CASE i # Len(q)
      <4>1. i + 1 \in 1 .. Len(r)
        BY <3>2, <1>2
      <4> QED
        BY <3>2, <4>1, <1>2, <1>4
    <3> QED
      BY <3>1, <3>2
  <2>2. ASSUME NEW j \in 1 .. Len(r)
        PROVE  \E i \in 1 .. Len(q) : q[i] = r[j]
    <3>1. CASE j = 1
      BY <3>1, <1>2, <1>3
    <3>2. CASE j # 1
      <4>1. /\ j - 1 \in 1 .. Len(r) - 1
            /\ j - 1 \in 1 .. Len(q)
            /\ (j - 1) + 1 = j
        BY <3>2, <1>2
      <4>2. q[j - 1] = r[j]
        BY <4>1, <1>4
      <4> QED
        BY <4>1, <4>2
    <3> QED
      BY <3>1, <3>2
  <2>3. {q[i] : i \in 1 .. Len(q)} \subseteq {r[i] : i \in 1 .. Len(r)}
    BY <2>1
  <2>4. {r[i] : i \in 1 .. Len(r)} \subseteq {q[i] : i \in 1 .. Len(q)}
    BY <2>2
  <2> QED
    BY <2>3, <2>4
<1> QED
  BY <1>2, <1>3, <1>4, <1>5, <1>6

-----------------------------------------------------------------------------
\* Mapping one more pool into a ring that holds the dummy node alone: the
\* new chunks are linked, each once, and the dummy node comes last.
LEMMA CreateOneOnEmptyRing ==
  ASSUME NEW p, NEW out, p \in [ring : Seq(ChunkAddr \cup {Header}),
                                nfiles : Nat, chunk_tot : Nat,
                                chunk_used : Int],
         p.ring = <<Header>>, out = ChunksOf(p.nfiles)
  PROVE  LET q == PmempoolCreateOne(p)
         IN  /\ PoolOK(q, out)
             /\ Len(q.ring) = PoolChunks + 1
             /\ q.ring[1] = <<p.nfiles + 1, 1>>
             /\ q.nfiles = p.nfiles + 1
             /\ q.chunk_tot = p.chunk_tot + PoolChunks
             /\ q.chunk_used = p.chunk_used
<1> DEFINE q == PmempoolCreateOne(p)
           k == p.nfiles + 1
           n == PoolChunks
<1>n. n \in Nat \ {0} /\ k \in Nat \ {0}
  BY PoolChunksAssumption
<1>1. Append(Tail(p.ring), Head(p.ring)) = <<Header>>
  OBVIOUS
<1>2. NewChunks(k) \in Seq(ChunkAddr \cup {Header}) /\ Len(NewChunks(k)) = n
  BY <1>n DEF NewChunks, ChunkAddr
<1>3. q.ring = NewChunks(k) \o <<Header>>
  BY <1>1 DEF PmempoolCreateOne
<1>4. <<Header>> \in Seq(ChunkAddr \cup {Header})
  OBVIOUS
<1>5. q.ring \in Seq(ChunkAddr \cup {Header}) /\ Len(q.ring) = n + 1
  BY <1>2, <1>3, <1>4, <1>n
<1>6. \A i \in 1 .. n : q.ring[i] = <<k, i>>
  BY <1>2, <1>3, <1>4, <1>n DEF NewChunks
<1>7. q.ring[n + 1] = Header
  BY <1>2, <1>3, <1>4, <1>n
<1>8. q.nfiles = k /\ q.chunk_tot = p.chunk_tot + n /\ q.chunk_used = p.chunk_used
  BY DEF PmempoolCreateOne
<1>9. q \in PoolType
  BY <1>5, <1>8, <1>n DEF PmempoolCreateOne, PoolType
<1>h. \A i : Header # <<k, i>>
  BY <1>n DEF Header
<1>10. NoNodeTwice(q)
  <2> SUFFICES ASSUME NEW i \in 1 .. n + 1, NEW j \in 1 .. n + 1,
                      q.ring[i] = q.ring[j]
               PROVE  i = j
    BY <1>5 DEF NoNodeTwice
  <2> HIDE DEF q
  <2>1. CASE i \in 1 .. n /\ j \in 1 .. n
    <3>1. <<k, i>> = <<k, j>>
      BY <2>1, <1>6
    <3> QED
      BY <3>1
  <2>2. CASE i = n + 1 /\ j \in 1 .. n
    BY <2>2, <1>6, <1>7, <1>h
  <2>3. CASE i \in 1 .. n /\ j = n + 1
    BY <2>3, <1>6, <1>7, <1>h
  <2> QED
    BY <2>1, <2>2, <2>3, <1>n
<1>11. Nodes(q) = {Header} \cup ({k} \X (1 .. n))
  <2>1. ASSUME NEW c \in Nodes(q)
        PROVE  c \in {Header} \cup ({k} \X (1 .. n))
    <3>1. PICK i \in 1 .. n + 1 : c = q.ring[i]
      BY <1>5 DEF Nodes
    <3>2. CASE i = n + 1
      BY <3>1, <3>2, <1>7
    <3>3. CASE i # n + 1
      <4>1. i \in 1 .. n
        BY <3>3, <1>n
      <4>2. c = <<k, i>>
        BY <4>1, <3>1, <1>6
      <4>3. <<k, i>> \in {k} \X (1 .. n)
        BY <4>1
      <4> QED
        BY <4>2, <4>3
    <3> QED
      BY <3>2, <3>3
  <2>2. Header \in Nodes(q)
    BY <1>5, <1>7, <1>n DEF Nodes
  <2>3. ASSUME NEW i \in 1 .. n
        PROVE  <<k, i>> \in Nodes(q)
    <3>1. i \in 1 .. Len(q.ring)
      BY <1>5, <1>n
    <3> QED
      BY <3>1, <1>6 DEF Nodes
  <2> QED
    BY <2>1, <2>2, <2>3
<1>12. RingAndOutPartition(q, out)
  <2>1. ChunksOf(q.nfiles) = ChunksOf(p.nfiles) \cup ({k} \X (1 .. n))
    BY <1>8, <1>n DEF ChunksOf
  <2>2. Header \notin ChunksOf(p.nfiles) /\ Header \notin {k} \X (1 .. n)
    BY <1>h, <1>n DEF ChunksOf, Header
  <2>3. ChunksOf(p.nfiles) \cap ({k} \X (1 .. n)) = {}
    BY <1>n DEF ChunksOf
  <2> QED
    BY <1>11, <2>1, <2>2, <2>3 DEF RingAndOutPartition
<1>13. q.ring[1] = <<p.nfiles + 1, 1>>
  BY <1>6, <1>n
<1> QED
  BY <1>5, <1>8, <1>9, <1>10, <1>12, <1>13 DEF PoolOK

\* pmempool_create leaves a well-formed pool of which nothing is handed out.
LEMMA CreateOK == PoolOK(PmempoolCreate, {})
<1> DEFINE p == [ring |-> <<Header>>, nfiles |-> 0,
                 chunk_tot |-> 0, chunk_used |-> 0]
<1>1. p \in [ring : Seq(ChunkAddr \cup {Header}), nfiles : Nat,
             chunk_tot : Nat, chunk_used : Int]
  OBVIOUS
<1>2. p.ring = <<Header>> /\ {} = ChunksOf(p.nfiles)
  BY DEF ChunksOf
<1>3. PmempoolCreate = PmempoolCreateOne(p)
  BY DEF PmempoolCreate
<1> HIDE DEF p
<1> QED
  BY <1>1, <1>2, <1>3, CreateOneOnEmptyRing

\* A one-node ring holds the dummy node, and every mapped chunk is out.
LEMMA ExhaustedMeansAllOut ==
  ASSUME NEW p, NEW out, PoolOK(p, out), Exhausted(p)
  PROVE  p.ring = <<Header>> /\ out = ChunksOf(p.nfiles)
<1>1. p.ring \in Seq(ChunkAddr \cup {Header}) /\ Len(p.ring) = 1
  BY DEF PoolOK, PoolType, Exhausted
<1>2. Header \in Nodes(p)
  BY DEF PoolOK, RingAndOutPartition
<1>3. p.ring[1] = Header
  BY <1>1, <1>2 DEF Nodes
<1>4. Nodes(p) = {Header}
  BY <1>1, <1>3 DEF Nodes
<1>5. p.ring = <<Header>>
  BY <1>1, <1>3
<1> QED
  BY <1>4, <1>5 DEF PoolOK, RingAndOutPartition

\* After the refill the ring holds the dummy node and at least one chunk.
LEMMA RefillOK ==
  ASSUME NEW p, NEW out, PoolOK(p, out)
  PROVE  /\ PoolOK(Refill(p), out)
         /\ Len(Refill(p).ring) >= 2
         /\ Refill(p).chunk_used = p.chunk_used
         /\ Refill(p).nfiles = p.nfiles + (IF Exhausted(p) THEN 1 ELSE 0)
         /\ Refill(p).chunk_tot =
              p.chunk_tot + (IF Exhausted(p) THEN PoolChunks ELSE 0)
<1>1. CASE Exhausted(p)
  <2>1. p.ring = <<Header>> /\ out = ChunksOf(p.nfiles)
    BY <1>1, ExhaustedMeansAllOut
  <2>2. p \in [ring : Seq(ChunkAddr \cup {Header}), nfiles : Nat,
               chunk_tot : Nat, chunk_used : Int]
    BY DEF PoolOK, PoolType
  <2>3. Refill(p) = PmempoolCreateOne(p)
    BY <1>1 DEF Refill
  <2>4. LET q == PmempoolCreateOne(p)
        IN  /\ PoolOK(q, out)
            /\ Len(q.ring) = PoolChunks + 1
            /\ q.nfiles = p.nfiles + 1
            /\ q.chunk_tot = p.chunk_tot + PoolChunks
            /\ q.chunk_used = p.chunk_used
    BY <2>1, <2>2, CreateOneOnEmptyRing
  <2> QED
    BY <1>1, <2>3, <2>4, PoolChunksAssumption
<1>2. CASE ~Exhausted(p)
  <2>1. Refill(p) = p
    BY <1>2 DEF Refill
  <2>2. p.ring \in Seq(ChunkAddr \cup {Header}) /\ Len(p.ring) # 1
        /\ p.nfiles \in Nat /\ p.chunk_tot \in Nat
    BY <1>2 DEF PoolOK, PoolType, Exhausted
  <2>3. Len(p.ring) # 0
    BY <2>2 DEF PoolOK, RingAndOutPartition, Nodes
  <2>4. Len(p.ring) >= 2
    <3> DEFINE l == Len(p.ring)
    <3>1. l \in Nat /\ l # 0 /\ l # 1
      BY <2>2, <2>3
    <3> HIDE DEF l
    <3>2. l >= 2
      BY <3>1
    <3> QED
      BY <3>2 DEF l
  <2>5. p.nfiles = p.nfiles + 0 /\ p.chunk_tot = p.chunk_tot + 0
    BY <2>2
  <2> QED
    BY <1>2, <2>1, <2>4, <2>5
<1> QED
  BY <1>1, <1>2

\* Stepping over the dummy node puts a chunk first and loses nothing.
LEMMA SkipHeaderOK ==
  ASSUME NEW p, NEW out, PoolOK(p, out), Len(p.ring) >= 2
  PROVE  LET r == SkipHeader(p.ring)
         IN  /\ r \in Seq(ChunkAddr \cup {Header})
             /\ Len(r) = Len(p.ring)
             /\ r[1] # Header
             /\ \A i, j \in 1 .. Len(r) : r[i] = r[j] => i = j
             /\ {r[i] : i \in 1 .. Len(r)} = Nodes(p)
<1> DEFINE S == ChunkAddr \cup {Header}
           r == SkipHeader(p.ring)
<1>1. p.ring \in Seq(S)
      /\ \A i, j \in 1 .. Len(p.ring) : p.ring[i] = p.ring[j] => i = j
  BY DEF PoolOK, PoolType, NoNodeTwice
<1>2. Head(p.ring) = p.ring[1]
  BY <1>1
<1>3. CASE p.ring[1] = Header
  <2> DEFINE t == p.ring
             q == Append(Tail(t), Head(t))
  <2>1. r = q
    BY <1>2, <1>3 DEF SkipHeader
  <2>t. t \in Seq(S) /\ Len(t) >= 1
        /\ \A i, j \in 1 .. Len(t) : t[i] = t[j] => i = j
    BY <1>1
  <2> HIDE DEF t, r, S
  <2>q. /\ q \in Seq(S)
        /\ Len(q) = Len(t)
        /\ \A i \in 1 .. Len(t) - 1 : q[i] = t[i + 1]
        /\ \A i, j \in 1 .. Len(q) : q[i] = q[j] => i = j
        /\ {q[i] : i \in 1 .. Len(q)} = {t[i] : i \in 1 .. Len(t)}
    BY <2>t, RotateRing
  <2> HIDE DEF q
  <2>2. /\ q \in Seq(S)
        /\ Len(q) = Len(p.ring)
        /\ \A i \in 1 .. Len(p.ring) - 1 : q[i] = p.ring[i + 1]
        /\ \A i, j \in 1 .. Len(q) : q[i] = q[j] => i = j
        /\ {q[i] : i \in 1 .. Len(q)} = {p.ring[i] : i \in 1 .. Len(p.ring)}
    BY <2>q DEF t
  <2>3. 1 \in 1 .. Len(p.ring) - 1 /\ 2 \in 1 .. Len(p.ring)
    BY <1>1
  <2>4. q[1] = p.ring[2]
    BY <2>2, <2>3
  <2>5. q[1] # Header
    <3>1. p.ring[2] # p.ring[1]
      BY <2>3, <1>1
    <3> QED
      BY <3>1, <2>4, <1>3, SMTT(30)
  <2>6. {q[i] : i \in 1 .. Len(q)} = Nodes(p)
    BY <2>2 DEF Nodes
  <2> QED
    BY <2>1, <2>2, <2>5, <2>6, SMTT(30) DEF r, S
<1>4. CASE p.ring[1] # Header
  BY <1>1, <1>2, <1>4 DEF SkipHeader, Nodes
<1> QED
  BY <1>3, <1>4

\* pmempool_chunk_alloc hands out a chunk nobody holds, and leaves a
\* well-formed pool of which that chunk is now handed out too.
LEMMA ChunkAllocOK ==
  ASSUME NEW p, NEW out, PoolOK(p, out)
  PROVE  LET c == ChunkAllocAddr(p)
         IN  /\ c \in ChunkAddr
             /\ c \notin out
             /\ PoolOK(ChunkAllocPool(p), out \cup {c})
<1> DEFINE u == Refill(p)
           r == SkipHeader(u.ring)
           c == ChunkAllocAddr(p)
           q == ChunkAllocPool(p)
           S == ChunkAddr \cup {Header}
<1>1. PoolOK(u, out) /\ Len(u.ring) >= 2
  BY RefillOK
<1>2. /\ r \in Seq(S)
      /\ Len(r) >= 2
      /\ r[1] # Header
      /\ \A i, j \in 1 .. Len(r) : r[i] = r[j] => i = j
      /\ {r[i] : i \in 1 .. Len(r)} = Nodes(u)
  <2> HIDE DEF u
  <2>1. /\ r \in Seq(S)
        /\ Len(r) = Len(u.ring)
        /\ r[1] # Header
        /\ \A i, j \in 1 .. Len(r) : r[i] = r[j] => i = j
        /\ {r[i] : i \in 1 .. Len(r)} = Nodes(u)
    BY <1>1, SkipHeaderOK
  <2> QED
    BY <2>1, <1>1
<1>3. c = Head(r) /\ q.ring = Tail(r) /\ q.nfiles = u.nfiles
      /\ q.chunk_tot = u.chunk_tot /\ q.chunk_used = u.chunk_used + 1
  BY DEF ChunkAllocAddr, ChunkAllocPool
<1>4. q = [ring |-> q.ring, nfiles |-> q.nfiles, chunk_tot |-> q.chunk_tot,
           chunk_used |-> q.chunk_used]
  BY DEF ChunkAllocPool
<1> HIDE DEF u, r, c, q, S
<1>5. c = r[1] /\ q.ring \in Seq(S) /\ Len(q.ring) = Len(r) - 1
      /\ \A i \in 1 .. Len(q.ring) : q.ring[i] = r[i + 1]
  BY <1>2, <1>3
<1>6. c \in Nodes(u) /\ c # Header /\ c \in ChunkAddr
  <2>1. 1 \in 1 .. Len(r)
    BY <1>2
  <2>2. r[1] \in S
    BY <2>1, <1>2
  <2> QED
    BY <2>1, <2>2, <1>2, <1>5 DEF S
<1>7. q \in PoolType
  <2>1. u.nfiles \in Nat /\ u.chunk_tot \in Nat /\ u.chunk_used \in Int
    BY <1>1 DEF PoolOK, PoolType
  <2>2. q.chunk_used \in Int
    BY <2>1, <1>3
  <2> QED
    BY <1>3, <1>4, <1>5, <2>1, <2>2 DEF PoolType, S
<1>8. NoNodeTwice(q)
  <2> SUFFICES ASSUME NEW i \in 1 .. Len(q.ring), NEW j \in 1 .. Len(q.ring),
                      q.ring[i] = q.ring[j]
               PROVE  i = j
    BY DEF NoNodeTwice
  <2>1. i + 1 \in 1 .. Len(r) /\ j + 1 \in 1 .. Len(r)
    BY <1>2, <1>5
  <2>2. r[i + 1] = r[j + 1]
    BY <1>5
  <2>3. i + 1 = j + 1
    BY <2>1, <2>2, <1>2
  <2> QED
    BY <2>3
<1>9. Nodes(q) = Nodes(u) \ {c}
  <2>1. ASSUME NEW i \in 1 .. Len(q.ring)
        PROVE  q.ring[i] \in Nodes(u) \ {c}
    <3>1. i + 1 \in 1 .. Len(r) /\ 1 \in 1 .. Len(r) /\ i + 1 # 1
      BY <1>2, <1>5
    <3>2. q.ring[i] = r[i + 1] /\ r[i + 1] # r[1]
      BY <3>1, <1>2, <1>5
    <3> QED
      BY <3>1, <3>2, <1>2, <1>5
  <2>2. ASSUME NEW n \in Nodes(u), n # c
        PROVE  n \in Nodes(q)
    <3>1. PICK j \in 1 .. Len(r) : n = r[j]
      BY <1>2
    <3>2. j # 1
      BY <3>1, <2>2, <1>5
    <3>3. j - 1 \in 1 .. Len(q.ring) /\ (j - 1) + 1 = j
      BY <3>2, <1>2, <1>5
    <3>4. q.ring[j - 1] = r[j]
      BY <3>3, <1>5
    <3> QED
      BY <3>1, <3>3, <3>4 DEF Nodes
  <2>3. Nodes(q) \subseteq Nodes(u) \ {c}
    BY <2>1 DEF Nodes
  <2> QED
    BY <2>2, <2>3
<1>10. c \notin out
  BY <1>1, <1>6 DEF PoolOK, RingAndOutPartition
<1>11. RingAndOutPartition(q, out \cup {c})
  <2>1. /\ Header \in Nodes(u)
        /\ out \cap Nodes(u) = {}
        /\ out \cup (Nodes(u) \ {Header}) = ChunksOf(u.nfiles)
    BY <1>1 DEF PoolOK, RingAndOutPartition
  <2>2. q.nfiles = u.nfiles
    BY <1>3
  <2> QED
    BY <2>1, <2>2, <1>6, <1>9 DEF RingAndOutPartition
<1> QED
  BY <1>6, <1>7, <1>8, <1>10, <1>11 DEF PoolOK, c, q

\* pmempool_free of a chunk that is out puts it back into the ring.
LEMMA FreeOK ==
  ASSUME NEW p, NEW out, NEW c \in out, PoolOK(p, out)
  PROVE  PoolOK(PmempoolFree(p, c), out \ {c})
<1> DEFINE q == PmempoolFree(p, c)
           S == ChunkAddr \cup {Header}
           n == Len(p.ring)
<1>1. p \in PoolType /\ p.ring \in Seq(S) /\ n \in Nat
  BY DEF PoolOK, PoolType
<1>2. q = [p EXCEPT !.ring = Append(p.ring, c),
                    !.chunk_used = p.chunk_used - 1]
  BY DEF PmempoolFree
<1>3. c \notin Nodes(p) /\ c \in ChunksOf(p.nfiles)
  BY DEF PoolOK, RingAndOutPartition
<1>4. c \in ChunkAddr /\ c # Header
  BY <1>1, <1>3 DEF ChunksOf, ChunkAddr, PoolType, Header
<1>5. q.ring = Append(p.ring, c) /\ q.nfiles = p.nfiles
  BY <1>1, <1>2 DEF PoolType
<1>6. q \in PoolType
  <2>1. Append(p.ring, c) \in Seq(S)
    BY <1>1, <1>4
  <2>2. p.chunk_used - 1 \in Int
    BY <1>1 DEF PoolType
  <2> QED
    BY <1>1, <1>2, <2>1, <2>2 DEF PoolType
<1> HIDE DEF q
<1>7. /\ Len(q.ring) = n + 1 /\ q.ring[n + 1] = c
      /\ \A i \in 1 .. n : q.ring[i] = p.ring[i]
  BY <1>1, <1>5
<1>8. \A i \in 1 .. n : p.ring[i] # c
  BY <1>3 DEF Nodes
<1>9. NoNodeTwice(q)
  <2>1. \A i, j \in 1 .. n : p.ring[i] = p.ring[j] => i = j
    BY DEF PoolOK, NoNodeTwice
  <2> SUFFICES ASSUME NEW i \in 1 .. n + 1, NEW j \in 1 .. n + 1,
                      q.ring[i] = q.ring[j]
               PROVE  i = j
    BY <1>7 DEF NoNodeTwice
  <2> HIDE DEF n
  <2>2. CASE i \in 1 .. n /\ j \in 1 .. n
    BY <2>1, <2>2, <1>7
  <2>3. CASE i = n + 1 /\ j \in 1 .. n
    BY <2>3, <1>7, <1>8
  <2>4. CASE i \in 1 .. n /\ j = n + 1
    BY <2>4, <1>7, <1>8
  <2> QED
    BY <2>2, <2>3, <2>4, <1>1
<1>10. Nodes(q) = Nodes(p) \cup {c}
  <2> HIDE DEF n
  <2>1. Nodes(q) = {q.ring[i] : i \in 1 .. n + 1}
        /\ Nodes(p) = {p.ring[i] : i \in 1 .. n}
    BY <1>7 DEF Nodes, n
  <2>2. \A i \in 1 .. n + 1 : i \in 1 .. n \/ i = n + 1
    BY <1>1
  <2>3. \A i \in 1 .. n : i \in 1 .. n + 1
    BY <1>1
  <2>4. n + 1 \in 1 .. n + 1
    BY <1>1
  <2> QED
    BY <2>1, <2>2, <2>3, <2>4, <1>7
<1>11. RingAndOutPartition(q, out \ {c})
  <2>1. /\ Header \in Nodes(p)
        /\ out \cap Nodes(p) = {}
        /\ out \cup (Nodes(p) \ {Header}) = ChunksOf(p.nfiles)
    BY DEF PoolOK, RingAndOutPartition
  <2> QED
    BY <2>1, <1>4, <1>5, <1>10 DEF RingAndOutPartition
<1> QED
  BY <1>6, <1>9, <1>11 DEF PoolOK, q

\* n pools have n * PoolChunks chunks.
LEMMA ChunksOfCount ==
  ASSUME NEW n \in Nat
  PROVE  /\ IsFiniteSet(ChunksOf(n))
         /\ Cardinality(ChunksOf(n)) = n * PoolChunks
<1> DEFINE A == 1 .. n
           B == 1 .. PoolChunks
<1>1. PoolChunks \in Nat
  BY PoolChunksAssumption
<1>2. IsFiniteSet(A) /\ Cardinality(A) = n
  BY FS_Interval
<1>3. IsFiniteSet(B) /\ Cardinality(B) = PoolChunks
  BY <1>1, FS_Interval
<1>4. ChunksOf(n) = A \X B
  BY DEF ChunksOf
<1> HIDE DEF A, B
<1>5. IsFiniteSet(A \X B) /\ Cardinality(A \X B) = Cardinality(A) * Cardinality(B)
  BY <1>2, <1>3, FS_Product
<1> QED
  BY <1>2, <1>3, <1>4, <1>5

\* At most all the chunks mapped are handed out, so that the usage figure of
\* pmempool_usedpct is 0 or 1.
LEMMA UsedpctOK ==
  ASSUME NEW p, NEW out, PoolOK(p, out), IsFiniteSet(out), out # {},
         p.chunk_used = Cardinality(out),
         p.chunk_tot = p.nfiles * PoolChunks
  PROVE  PmempoolUsedpct(p) \in {0, 1}
<1>1. p.nfiles \in Nat /\ out \subseteq ChunksOf(p.nfiles)
  BY DEF PoolOK, PoolType, RingAndOutPartition
<1>2. Cardinality(out) <= Cardinality(ChunksOf(p.nfiles)) /\ Cardinality(out) \in Nat
  BY <1>1, ChunksOfCount, FS_Subset, FS_CardinalityType
<1>3. Cardinality(ChunksOf(p.nfiles)) = p.chunk_tot
  BY <1>1, ChunksOfCount
<1>4. Cardinality(out) # 0
  BY FS_EmptySet
<1>5. p.chunk_used \in Nat \ {0} /\ p.chunk_tot \in Nat /\ p.chunk_used <= p.chunk_tot
  <2>1. p.chunk_tot \in Nat
    BY <1>1, PoolChunksAssumption
  <2> QED
    BY <2>1, <1>2, <1>3, <1>4
<1>6. \A u \in Nat \ {0}, n \in Nat : u <= n => u \div n \in {0, 1}
  OBVIOUS
<1> QED
  BY <1>5, <1>6 DEF PmempoolUsedpct
=============================================================================
