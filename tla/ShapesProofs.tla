---------------------------- MODULE ShapesProofs ----------------------------
(***************************************************************************)
(* What the operators of Shapes compute, for every shape: sums, products,  *)
(* C order and the odometer.                                               *)
(*                                                                         *)
(* Their recursions are functions on numbers.  Such a definition satisfies *)
(* its recursion if anything does, so for each there is a lemma that a     *)
(* solution exists up to every bound (SumsExist, WalkExists...), by        *)
(* induction, and one that uses it (SumsDef, WalkDef...).  Induction itself*)
(* follows from the well-foundedness of < : a set of numbers with no least *)
(* member is empty.  T, in a proof, is the set of numbers that have the    *)
(* property.                                                               *)
(*                                                                         *)
(* 1. A multi-index and its place in C order determine each other:         *)
(*    UnravelPlace and PlaceUnraveled.                                     *)
(* 2. The odometer visits the multi-indices in C order, and its offset is  *)
(*    that of the multi-index, whatever the strides (WalkIs).              *)
(* 3. Ordered lists the members of a set by rank, and sums and products can*)
(*    leave out what adds nothing (SumSelected, WeightSelected).           *)
(***************************************************************************)
EXTENDS Shapes, WellFoundedInduction, SequenceTheorems, FiniteSetTheorems, TLAPS

-----------------------------------------------------------------------------
(* Induction.                                                              *)

\* The order in which induction descends.
Below == {p \in Nat \X Nat : p[1] < p[2]}

\* Every nonempty set of numbers has a least member.
LEMMA Least ==
  ASSUME NEW T \in SUBSET Nat, T # {}
  PROVE  \E x \in T : \A y \in T : ~(y < x)
<1>1. IsWellFoundedOn(Below, Nat)  BY NatLessThanWellFounded DEF OpToRel, Below
<1>2. PICK x \in T : \A y \in T : ~(<<y, x>> \in Below)  BY <1>1, WFMin
<1> QED  BY <1>2 DEF Below

\* Induction over the numbers; T is the set of those that have the property.
LEMMA Induction ==
  ASSUME NEW T, 0 \in T, \A n \in Nat : n \in T => n + 1 \in T
  PROVE  \A n \in Nat : n \in T
<1> DEFINE B == {n \in Nat : n \notin T}
<1> SUFFICES ASSUME B # {}  PROVE FALSE
  OBVIOUS
<1>1. PICK x \in B : \A y \in B : ~(y < x)
  <2>1. B \in SUBSET Nat  OBVIOUS
  <2> HIDE DEF B
  <2> QED  BY <2>1, Least
<1>2. x - 1 \in Nat  BY <1>1
<1>3. x - 1 \in T  BY <1>1, <1>2
<1> QED  BY <1>1, <1>2, <1>3

\* Up to a bound.
LEMMA InductionTo ==
  ASSUME NEW N \in Nat, NEW T, 0 \in T, \A n \in 0..N - 1 : n \in T => n + 1 \in T
  PROVE  \A n \in 0..N : n \in T
<1> DEFINE U == {n \in Nat : n \in 0..N => n \in T}
<1>1. 0 \in U  OBVIOUS
<1>2. \A n \in Nat : n \in U => n + 1 \in U
  <2> SUFFICES ASSUME NEW n \in Nat, n \in U, n + 1 \in 0..N  PROVE n + 1 \in T
    OBVIOUS
  <2>1. n \in 0..N - 1 /\ n \in 0..N  OBVIOUS
  <2> QED  BY <2>1
<1> HIDE DEF U
<1>3. \A n \in Nat : n \in U  BY <1>1, <1>2, Induction
<1> QED  BY <1>3 DEF U

-----------------------------------------------------------------------------
(* Sums and products.                                                      *)

-----------------------------------------------------------------------------
(* Arithmetic.                                                             *)

\* A term of an address lies between those of the two ends of the axis.
LEMMA Between ==
  ASSUME NEW x \in Nat, NEW m \in Nat, x < m, NEW s \in Int
  PROVE  /\ (m - 1) * s < 0 => (m - 1) * s <= x * s /\ x * s <= 0
         /\ (m - 1) * s >= 0 => 0 <= x * s /\ x * s <= (m - 1) * s
<1>1. CASE s < 0
  <2>1. x * s <= 0 /\ (m - 1) * s <= 0 /\ (m - 1 - x) * s <= 0  BY <1>1
  <2>2. (m - 1) * s = x * s + (m - 1 - x) * s  OBVIOUS
  <2>3. x * s \in Int /\ (m - 1 - x) * s \in Int  OBVIOUS
  <2>4. (m - 1) * s <= x * s  BY <2>1, <2>2, <2>3
  <2>5. (m - 1) * s >= 0 => m - 1 = 0  BY <1>1
  <2>6. m - 1 = 0 => x = 0  OBVIOUS
  <2>7. x = 0 => x * s = 0  OBVIOUS
  <2> QED  BY <2>1, <2>4, <2>5, <2>6, <2>7
<1>2. CASE s >= 0
  <2>1. x * s >= 0 /\ (m - 1) * s >= 0 /\ (m - 1 - x) * s >= 0  BY <1>2
  <2>2. (m - 1) * s = x * s + (m - 1 - x) * s  OBVIOUS
  <2>3. x * s \in Int /\ (m - 1 - x) * s \in Int  OBVIOUS
  <2> QED  BY <2>1, <2>2, <2>3
<1> QED  BY <1>1, <1>2

\* Different multiples of w are at least w apart.
LEMMA Multiples ==
  ASSUME NEW w \in Nat \ {0}, NEW d \in Int, NEW e \in Int, d > e
  PROVE  d * w >= e * w + w
<1>1. d - e - 1 \in Nat  OBVIOUS
<1>2. (d - e - 1) * w >= 0  BY <1>1
<1>3. d * w = e * w + w + (d - e - 1) * w  OBVIOUS
<1>4. d * w \in Int /\ e * w \in Int /\ (d - e - 1) * w \in Int  OBVIOUS
<1> QED  BY <1>2, <1>3, <1>4

\* Quotient and remainder are the only ones.
LEMMA DivMod ==
  ASSUME NEW k \in Int, NEW w \in Nat \ {0}
  PROVE  /\ k \div w \in Int /\ k % w \in 0..w - 1 /\ k = (k \div w) * w + (k % w)
         /\ \A q \in Int, r \in 0..w - 1 : k = q * w + r => (q = k \div w /\ r = k % w)
<1> DEFINE d == k \div w
           m == k % w
<1>1. d \in Int /\ m \in 0..w - 1 /\ k = d * w + m  OBVIOUS
<1> HIDE DEF d, m
<1>2. ASSUME NEW q \in Int, NEW r \in 0..w - 1, k = q * w + r  PROVE q = d /\ r = m
  <2>1. q * w \in Int /\ d * w \in Int  BY <1>1
  <2>2. ~(d > q)
    <3>1. d > q => d * w >= q * w + w  BY <1>1, Multiples
    <3> HIDE DEF d
    <3> QED  BY <1>1, <1>2, <2>1, <3>1
  <2>3. ~(q > d)
    <3>1. q > d => q * w >= d * w + w  BY <1>1, Multiples
    <3> QED  BY <1>1, <1>2, <2>1, <3>1
  <2>4. q = d  BY <1>1, <2>2, <2>3
  <2> QED  BY <1>1, <1>2, <2>1, <2>4
<1>3. \A q \in Int, r \in 0..w - 1 : k = q * w + r => q = d /\ r = m  BY <1>2
<1>5. d = k \div w /\ m = k % w  BY DEF d, m
<1>4. k \div w \in Int /\ k % w \in 0..w - 1 /\ k = (k \div w) * w + (k % w)
  <2>1. k \div w \in Int  OBVIOUS
  <2>2. k % w \in 0..w - 1  OBVIOUS
  <2>3. k = (k \div w) * w + (k % w)  OBVIOUS
  <2> QED  BY <2>1, <2>2, <2>3
<1>6. \A q \in Int, r \in 0..w - 1 : k = q * w + r => (q = k \div w /\ r = k % w)
  <2> TAKE q \in Int, r \in 0..w - 1
  <2> HAVE k = q * w + r
  <2>1. q = d /\ r = m  BY <1>3
  <2> QED  BY <1>5, <2>1
<1> QED  BY <1>4, <1>6

\* Steps of w in a stretch of d positions.
LEMMA StepsFit ==
  ASSUME NEW d \in Nat \ {0}, NEW w \in Nat \ {0}
  PROVE  /\ (d - 1) \div w \in Nat
         /\ \A j \in 0..(d - 1) \div w : j * w \in 0..d - 1
<1> DEFINE q == (d - 1) \div w
           r == (d - 1) % w
           z == q * w
<1>1. q \in Int /\ r \in 0..w - 1 /\ d - 1 = z + r
  <2>1. d - 1 \in Int  OBVIOUS
  <2> QED  BY <2>1, DivMod
<1> HIDE DEF q, r
<1>2. z \in Int  BY <1>1
<1>3. q >= 0
  <2>1. q < 0 => (-1 - q) \in Nat  BY <1>1
  <2>2. \A x, y \in Nat : x * y >= 0  OBVIOUS
  <2>3. q < 0 => (-1 - q) * w >= 0  BY <2>1, <2>2
  <2>4. (-1 - q) * w = -w - z  BY <1>1
  <2> HIDE DEF z
  <2> QED  BY <1>1, <1>2, <2>3, <2>4
<1>4. ASSUME NEW j \in 0..q  PROVE j * w \in 0..d - 1
  <2>1. j \in Nat /\ q - j \in Nat  BY <1>1
  <2>2. \A x, y \in Nat : x * y >= 0 /\ x * y \in Int  OBVIOUS
  <2>3. j * w >= 0 /\ (q - j) * w >= 0 /\ j * w \in Int /\ (q - j) * w \in Int  BY <2>1, <2>2
  <2>4. (q - j) * w = z - j * w  BY <1>1, <2>1
  <2> DEFINE y == j * w
  <2>5. y \in Int /\ y >= 0 /\ z - y >= 0  BY <2>3, <2>4
  <2> HIDE DEF y, z
  <2>6. y \in 0..d - 1  BY <1>1, <1>2, <2>5
  <2> QED  BY <2>6 DEF y
<1> QED  BY <1>1, <1>3, <1>4 DEF q

\* The multiples of w below d are those of the numbers up to (d - 1) \div w.
LEMMA MultiplesBelow ==
  ASSUME NEW d \in Nat \ {0}, NEW w \in Nat \ {0}
  PROVE  /\ \A j \in 0..(d - 1) \div w : (j * w) % w = 0
         /\ \A x \in 0..d - 1 : x % w = 0 => \E j \in 0..(d - 1) \div w : x = j * w
         /\ \A j, k \in 0..(d - 1) \div w : j * w = k * w => j = k
<1> DEFINE e == (d - 1) \div w
           r == (d - 1) % w
<1>1. e \in Nat  BY StepsFit
<1>2. d - 1 = e * w + r /\ r \in 0..w - 1
  <2>1. d - 1 \in Int  OBVIOUS
  <2>2. r \in 0..w - 1 /\ d - 1 = e * w + r  BY <2>1, DivMod
  <2> HIDE DEF e, r
  <2> QED  BY <2>2
<1> HIDE DEF e, r
<1>3. \A j \in 0..e : (j * w) % w = 0
  <2> SUFFICES ASSUME NEW j \in 0..e  PROVE (j * w) % w = 0
    OBVIOUS
  <2>1. j \in Int /\ 0 \in 0..w - 1  BY <1>1
  <2>2. \A x, y \in Int : x * y \in Int /\ x * y = x * y + 0  OBVIOUS
  <2>3. j * w \in Int /\ j * w = j * w + 0  BY <2>1, <2>2
  <2> DEFINE y == j * w
  <2>4. y \in Int /\ y = j * w + 0  BY <2>3
  <2> HIDE DEF y
  <2>5. \A q \in Int, s \in 0..w - 1 : y = q * w + s => (q = y \div w /\ s = y % w)  BY <2>4, DivMod
  <2>6. 0 = y % w  BY <2>1, <2>4, <2>5
  <2> QED  BY <2>6 DEF y
<1>4. ASSUME NEW x \in 0..d - 1, x % w = 0  PROVE \E j \in 0..e : x = j * w
  <2> DEFINE j == x \div w
             z == j * w
             q == x % w
  <2>1. x \in Int  OBVIOUS
  <2>2. j \in Int /\ x = z + q
    <3>1. j \in Int /\ q \in 0..w - 1 /\ x = j * w + q  BY <2>1, DivMod
    <3> HIDE DEF j, q
    <3> QED  BY <3>1
  <2>3. q = 0  BY <1>4
  <2> HIDE DEF j, q
  <2>4. z \in Int  BY <2>2
  <2> HIDE DEF z
  <2>8. x = z  BY <2>2, <2>3, <2>4
  <2>5. j >= 0
    <3>1. j < 0 => 0 * w >= j * w + w
      <4>1. 0 \in Int  OBVIOUS
      <4> QED  BY <2>2, <4>1, Multiples
    <3>2. 0 * w = 0  OBVIOUS
    <3>3. j < 0 => 0 >= z + w  BY <3>1, <3>2 DEF z
    <3> QED  BY <2>2, <2>4, <2>8, <3>3
  <2>6. j <= e
    <3>1. j > e => j * w >= e * w + w  BY <1>1, <2>2, Multiples
    <3> DEFINE y == e * w
    <3>2. y \in Int /\ d - 1 = y + r  BY <1>1, <1>2
    <3>3. j > e => z >= y + w  BY <3>1 DEF z
    <3> HIDE DEF y
    <3>4. ~(z >= y + w)  BY <1>2, <2>4, <2>8, <3>2
    <3> QED  BY <1>1, <2>2, <3>3, <3>4
  <2>7. j \in 0..e  BY <1>1, <2>2, <2>5, <2>6
  <2> QED  BY <2>7, <2>8 DEF z
<1>5. ASSUME NEW j \in 0..e, NEW k \in 0..e, j * w = k * w  PROVE j = k
  <2>1. j \in Int /\ k \in Int  BY <1>1
  <2>2. (j > k => j * w >= k * w + w) /\ (k > j => k * w >= j * w + w)  BY <2>1, Multiples
  <2> DEFINE y == j * w
  <2>3. y \in Int /\ (j > k => y >= y + w) /\ (k > j => y >= y + w)  BY <1>5, <2>1, <2>2
  <2> HIDE DEF y
  <2> QED  BY <2>1, <2>3
<1> QED  BY <1>3, <1>4, <1>5 DEF e

\* Quotients by the strides of neighbouring axes.
LEMMA NestedDivision ==
  ASSUME NEW k \in Nat, NEW w \in Nat \ {0}, NEW m \in Nat \ {0}, NEW v \in Nat \ {0}, v = m * w
  PROVE  /\ k \div w \in Int /\ k \div v \in Int /\ (k \div w) % m \in 0..m - 1
         /\ k \div w = (k \div v) * m + ((k \div w) % m)
<1> DEFINE q == k \div w
           p == k \div v
           r == k % v
           d == r \div w
           z == r % w
<1>1. p \in Int /\ r \in 0..v - 1 /\ k = p * v + r
  <2>1. k \in Int  OBVIOUS
  <2> QED  BY <2>1, DivMod
<1> HIDE DEF p, r
<1>2. d \in Int /\ z \in 0..w - 1 /\ r = d * w + z
  <2>1. r \in Int  BY <1>1
  <2> QED  BY <2>1, DivMod
<1> HIDE DEF d, z
<1>3. d \in 0..m - 1
  <2>1. d < 0 => 0 * w >= d * w + w
    <3>1. 0 \in Int  OBVIOUS
    <3> QED  BY <1>2, <3>1, Multiples
  <2>2. d > m - 1 => d * w >= (m - 1) * w + w
    <3>1. m - 1 \in Int  OBVIOUS
    <3> QED  BY <1>2, <3>1, Multiples
  <2>3. (m - 1) * w + w = v /\ 0 * w = 0  OBVIOUS
  <2> DEFINE y == d * w
  <2>4. y \in Int /\ r = y + z /\ (d < 0 => 0 >= y + w) /\ (d > m - 1 => y >= v)  BY <1>2, <2>1, <2>2, <2>3
  <2> HIDE DEF y
  <2> QED  BY <1>1, <1>2, <2>4
<1>4. k = (p * m + d) * w + z
  <2>1. p * v = (p * m) * w  BY <1>1
  <2>2. (p * m + d) * w = (p * m) * w + d * w
    <3>1. \A a, b, c \in Int : (a + b) * c = a * c + b * c  OBVIOUS
    <3>2. \A a, b \in Int : a * b \in Int  OBVIOUS
    <3>3. p * m \in Int /\ m \in Int /\ w \in Int  BY <1>1, <3>2
    <3> QED  BY <1>2, <3>1, <3>3
  <2> DEFINE a == p * v
             b == d * w
             c == (p * m) * w
             e == (p * m + d) * w
  <2>3. a \in Int /\ b \in Int /\ a = c /\ e = c + b /\ k = a + r /\ r = b + z  BY <1>1, <1>2, <2>1, <2>2
  <2> HIDE DEF a, b, c, e
  <2>4. k = e + z  BY <1>2, <2>3
  <2> QED  BY <2>4 DEF e
<1>5. q = p * m + d
  <2> DEFINE y == p * m + d
  <2>1. y \in Int /\ k \in Int  BY <1>1, <1>2
  <2>2. k = y * w + z  BY <1>4
  <2> HIDE DEF y
  <2>3. y = k \div w  BY <1>2, <2>1, <2>2, DivMod
  <2> QED  BY <2>3 DEF y
<1>6. q % m = d
  <2>1. q \in Int  BY <1>1, <1>2, <1>5
  <2> HIDE DEF q
  <2>2. d = q % m  BY <1>1, <1>3, <1>5, <2>1, DivMod
  <2> QED  BY <2>2
<1> HIDE DEF q
<1>7. q \in Int  BY <1>1, <1>2, <1>5
<1>8. q % m \in 0..m - 1 /\ q = p * m + (q % m) /\ p \in Int  BY <1>1, <1>3, <1>5, <1>6
<1> QED  BY <1>7, <1>8 DEF q, p

-----------------------------------------------------------------------------
(* Finite sets of positions.                                               *)

\* Every nonempty set of axes has a last one.
LEMMA Greatest ==
  ASSUME NEW N \in Nat, NEW R \in SUBSET (1..N), R # {}
  PROVE  \E k \in R : \A j \in R : j =< k
<1> DEFINE B == {d \in Nat : d <= N /\ N - d \in R}
<1>1. PICK d \in B : \A e \in B : ~(e < d)
  <2>1. PICK k \in R : TRUE  OBVIOUS
  <2>2. N - k \in Nat /\ N - k <= N /\ N - (N - k) = k  OBVIOUS
  <2>3. N - k \in B  BY <2>1, <2>2
  <2>4. B \in SUBSET Nat  OBVIOUS
  <2> HIDE DEF B
  <2> QED  BY <2>3, <2>4, Least
<1>2. \A j \in R : j =< N - d
  <2> SUFFICES ASSUME NEW j \in R  PROVE j =< N - d
    OBVIOUS
  <2>1. N - j \in Nat /\ N - j <= N /\ N - (N - j) = j  OBVIOUS
  <2>2. N - j \in B  BY <2>1
  <2>3. ~(N - j < d) /\ d \in Nat  BY <1>1, <2>2
  <2> QED  BY <2>1, <2>3
<1> QED  BY <1>1, <1>2

\* A set without two members.
LEMMA AtMostOne ==
  ASSUME NEW U, IsFiniteSet(U), ~(Cardinality(U) > 1), NEW j \in U, NEW k \in U
  PROVE  j = k
<1> SUFFICES ASSUME j # k  PROVE FALSE
  OBVIOUS
<1>1. {j} \cup {k} \in SUBSET U  OBVIOUS
<1>2. Cardinality({j}) = 1 /\ IsFiniteSet({j})  BY FS_Singleton
<1>3. Cardinality({j} \cup {k}) = 2
  <2>1. k \notin {j}  OBVIOUS
  <2>2. Cardinality({j} \cup {k}) = Cardinality({j}) + 1  BY <1>2, <2>1, FS_AddElement
  <2> QED  BY <1>2, <2>2
<1>4. Cardinality({j} \cup {k}) <= Cardinality(U)  BY <1>1, FS_Subset
<1>5. Cardinality(U) \in Nat  BY FS_CardinalityType
<1> QED  BY <1>3, <1>4, <1>5

\* A set that 0..n - 1 enumerates has n elements.
LEMMA Enumerated ==
  ASSUME NEW S, NEW n \in Nat, NEW f \in [0..n - 1 -> S],
         \A j, k \in 0..n - 1 : f[j] = f[k] => j = k,
         \A x \in S : \E j \in 0..n - 1 : x = f[j]
  PROVE  Cardinality(S) = n
<1> DEFINE g == [m \in 1..n |-> f[m - 1]]
<1>1. \A m \in 1..n : m - 1 \in 0..n - 1  OBVIOUS
<1>2. g \in [1..n -> S]  BY <1>1
<1>3. \A j, k \in 1..n : g[j] = g[k] => j = k
  <2> SUFFICES ASSUME NEW j \in 1..n, NEW k \in 1..n, g[j] = g[k]  PROVE j = k
    OBVIOUS
  <2>1. j - 1 = k - 1  BY <1>1
  <2> QED  BY <2>1
<1>4. \A x \in S : \E m \in 1..n : g[m] = x
  <2> SUFFICES ASSUME NEW x \in S  PROVE \E m \in 1..n : g[m] = x
    OBVIOUS
  <2>1. PICK j \in 0..n - 1 : x = f[j]  OBVIOUS
  <2>2. j + 1 \in 1..n /\ (j + 1) - 1 = j  OBVIOUS
  <2>3. g[j + 1] = x  BY <2>1, <2>2
  <2> QED  BY <2>2, <2>3
<1> HIDE DEF g
<1>5. g \in Bijection(1..n, S)
  BY <1>2, <1>3, <1>4 DEF Bijection, Injection, Surjection, IsInjective
<1>6. ExistsBijection(1..n, S)  BY <1>5 DEF ExistsBijection
<1> QED  BY <1>6, FS_CountingElements

-----------------------------------------------------------------------------
(* Sequences.                                                              *)

\* Sequences with the same items are the same.
LEMMA SameSequence ==
  ASSUME NEW S, NEW s \in Seq(S), NEW t \in Seq(S), Len(s) = Len(t), \A k \in 1..Len(t) : s[k] = t[k]
  PROVE  s = t
OBVIOUS

\* What InsertAt leaves where it was, and what it moves.
LEMMA InsertAtIs ==
  ASSUME NEW S, NEW s \in Seq(S), NEW x \in S, NEW r \in 1..Len(s) + 1
  PROVE  LET y == InsertAt(s, r, x) IN
         /\ y \in Seq(S) /\ Len(y) = Len(s) + 1 /\ y[r] = x
         /\ \A m \in 1..Len(s) : m < r => y[m] = s[m]
         /\ \A m \in 1..Len(s) : m >= r => y[m + 1] = s[m]
<1> DEFINE N == Len(s)
           a == SubSeq(s, 1, r - 1)
           b == SubSeq(s, r, N)
           c == a \o <<x>>
           y == c \o b
<1>1. N \in Nat /\ r \in Nat /\ r >= 1 /\ r <= N + 1  OBVIOUS
<1>2. a \in Seq(S) /\ Len(a) = r - 1 /\ \A m \in 1..(r - 1) : a[m] = s[m]
  <2>1. \A m \in 1..(r - 1) : s[m] \in S  BY <1>1
  <2> QED  BY <1>1, <2>1
<1>3. b \in Seq(S) /\ Len(b) = N + 1 - r /\ \A m \in 1..(N + 1 - r) : b[m] = s[r + m - 1]
  <2>1. \A m \in r..N : s[m] \in S  BY <1>1
  <2> QED  BY <1>1, <2>1
<1>4. y = InsertAt(s, r, x)  BY DEF InsertAt
<1> HIDE DEF a, b
<1>5. c \in Seq(S) /\ Len(c) = r /\ c[r] = x /\ \A m \in 1..(r - 1) : c[m] = s[m]  BY <1>1, <1>2
<1> HIDE DEF c
<1>6. y \in Seq(S) /\ Len(y) = N + 1 /\ \A m \in 1..r : y[m] = c[m]  BY <1>1, <1>3, <1>5
<1>7. \A m \in 1..(N + 1 - r) : y[r + m] = b[m]  BY <1>1, <1>3, <1>5
<1> HIDE DEF y, N
<1>8. y[r] = x /\ \A m \in 1..N : m < r => y[m] = s[m]  BY <1>1, <1>5, <1>6
<1>9. ASSUME NEW m \in 1..N, m >= r  PROVE y[m + 1] = s[m]
  <2> DEFINE d == m + 1 - r
  <2>1. d \in 1..(N + 1 - r) /\ r + d = m + 1 /\ r + d - 1 = m  BY <1>1, <1>9
  <2> HIDE DEF d
  <2>2. y[r + d] = b[d] /\ b[d] = s[r + d - 1]  BY <1>3, <1>7, <2>1
  <2> QED  BY <2>1, <2>2
<1> QED  BY <1>4, <1>6, <1>8, <1>9 DEF N

\* Reverse, item by item.
LEMMA ReverseIs ==
  ASSUME NEW S, NEW s \in Seq(S)
  PROVE  /\ Reverse(s) \in Seq(S) /\ Len(Reverse(s)) = Len(s)
         /\ \A k \in 1..Len(s) : Len(s) + 1 - k \in 1..Len(s) /\ Reverse(s)[k] = s[Len(s) + 1 - k]
<1> DEFINE N == Len(s)
           r == Reverse(s)
<1>1. N \in Nat /\ \A k \in 1..N : N + 1 - k \in 1..N /\ (N - k) + 1 = N + 1 - k  OBVIOUS
<1>2. r = [k \in 1..N |-> s[(N - k) + 1]]  BY DEF Reverse
<1>3. \A k \in 1..N : s[k] \in S  OBVIOUS
<1> HIDE DEF N, r
<1>4. r \in Seq(S) /\ Len(r) = N /\ \A k \in 1..N : r[k] = s[N + 1 - k]
  <2>1. \A k \in 1..N : s[(N - k) + 1] = s[N + 1 - k] /\ s[(N - k) + 1] \in S
    <3> SUFFICES ASSUME NEW k \in 1..N  PROVE s[(N - k) + 1] = s[N + 1 - k] /\ s[(N - k) + 1] \in S
      OBVIOUS
    <3>1. (N - k) + 1 \in 1..N /\ (N - k) + 1 = N + 1 - k  BY <1>1
    <3> QED  BY <1>3, <3>1
  <2> QED  BY <1>1, <1>2, <2>1
<1> QED  BY <1>1, <1>4 DEF N, r

\* f satisfies the recursion of FlattenSeq up to n.
IsFlat(f, n, s) == f = [k \in 1..n |-> IF k = 1 THEN s[k] ELSE f[k - 1] \o s[k]]

\* The recursion of FlattenSeq has a solution.
LEMMA FlatExists ==
  ASSUME NEW s, NEW m \in Nat
  PROVE  \E f : IsFlat(f, m, s)
<1> DEFINE T == {n \in Nat : \E f : IsFlat(f, n, s)}
<1>1. 0 \in T
  <2>1. IsFlat([k \in 1..0 |-> s[1]], 0, s)  BY DEF IsFlat
  <2> QED  BY <2>1
<1>2. ASSUME NEW n \in Nat, n \in T  PROVE n + 1 \in T
  <2>1. PICK f : IsFlat(f, n, s)  BY <1>2
  <2> DEFINE v == IF n = 0 THEN s[1] ELSE f[n] \o s[n + 1]
             h == [k \in 1..n + 1 |-> IF k = n + 1 THEN v ELSE f[k]]
  <2>2. IsFlat(h, n + 1, s)
    <3>1. ASSUME NEW k \in 1..n + 1
          PROVE  h[k] = IF k = 1 THEN s[k] ELSE h[k - 1] \o s[k]
      <4>1. CASE k = n + 1
        <5>1. h[k] = v  BY <4>1
        <5>2. k # 1 => k - 1 \in 1..n + 1 /\ k - 1 # n + 1 /\ k - 1 = n  BY <4>1
        <5>3. k # 1 => h[k - 1] = f[n]  BY <5>2
        <5>4. (k = 1 <=> n = 0) /\ (k = 1 => s[k] = s[1]) /\ s[k] = s[n + 1]  BY <4>1
        <5> HIDE DEF h
        <5> QED  BY <5>1, <5>3, <5>4
      <4>2. CASE k # n + 1
        <5>1. k \in 1..n  BY <4>2
        <5>2. h[k] = f[k]  BY <4>2
        <5>3. f[k] = IF k = 1 THEN s[k] ELSE f[k - 1] \o s[k]  BY <2>1, <5>1 DEF IsFlat
        <5>4. k # 1 => k - 1 \in 1..n + 1 /\ k - 1 # n + 1  BY <5>1
        <5>5. k # 1 => h[k - 1] = f[k - 1]  BY <5>4
        <5> HIDE DEF h
        <5> QED  BY <5>2, <5>3, <5>5
      <4> QED  BY <4>1, <4>2
    <3>2. h = [k \in 1..n + 1 |-> h[k]]  OBVIOUS
    <3> HIDE DEF h
    <3>3. h = [k \in 1..n + 1 |-> IF k = 1 THEN s[k] ELSE h[k - 1] \o s[k]]  BY <3>1, <3>2
    <3> QED  BY <3>3 DEF IsFlat
  <2> QED  BY <2>2
<1> HIDE DEF T
<1>3. \A n \in Nat : n \in T  BY <1>1, <1>2, Induction
<1> QED  BY <1>3 DEF T

\* Pieces of the same length, one after the other.
IsPieces(s, m, c, S) ==
  /\ m \in Nat /\ c \in Nat /\ s \in Seq(Seq(S)) /\ Len(s) = m
  /\ \A k \in 1..m : Len(s[k]) = c

\* d is the first m pieces of s joined.
Joined(d, s, m, c, S) ==
  /\ d \in Seq(S) /\ Len(d) = m * c
  /\ \A k \in 1..m, q \in 1..c : d[(k - 1) * c + q] = s[k][q]

\* Joining one more piece,
LEMMA JoinedOne ==
  ASSUME NEW s, NEW n \in Nat, NEW c \in Nat, NEW S, NEW d, Joined(d, s, n, c, S),
         s[n + 1] \in Seq(S), Len(s[n + 1]) = c
  PROVE  Joined(d \o s[n + 1], s, n + 1, c, S)
<1> DEFINE x == s[n + 1]
           e == d \o x
<1>1. d \in Seq(S) /\ Len(d) = n * c /\ n * c \in Nat
  <2>1. d \in Seq(S) /\ Len(d) = n * c  BY DEF Joined
  <2>2. Len(d) \in Nat  BY <2>1
  <2> QED  BY <2>1, <2>2
<1>2. \A k \in 1..n, q \in 1..c : d[(k - 1) * c + q] = s[k][q]  BY DEF Joined
<1>3. x \in Seq(S) /\ Len(x) = c  OBVIOUS
<1>4. (n + 1) * c = n * c + c
  <2>1. \A a, b \in Int : (a + 1) * b = a * b + b  OBVIOUS
  <2> QED  BY <2>1
<1> HIDE DEF x
<1> DEFINE y == n * c
<1>5. /\ e \in Seq(S) /\ Len(e) = y + c
      /\ \A p \in 1..y : e[p] = d[p]
      /\ \A q \in 1..c : e[y + q] = x[q]
  <2>1. y \in Nat /\ Len(d) = y  BY <1>1
  <2> HIDE DEF y
  <2>2. e \in Seq(S) /\ Len(e) = y + c  BY <1>1, <1>3, <2>1
  <2>3. \A p \in 1..y : e[p] = d[p]  BY <1>1, <1>3, <2>1
  <2>4. ASSUME NEW q \in 1..c  PROVE e[y + q] = x[q]
    <3>1. y + q \in 1..Len(d) + Len(x) /\ ~(y + q <= Len(d)) /\ (y + q) - Len(d) = q  BY <1>3, <2>1
    <3> QED  BY <1>1, <1>3, <3>1
  <2> QED  BY <2>2, <2>3, <2>4
<1> HIDE DEF e
<1>6. ASSUME NEW k \in 1..n + 1, NEW q \in 1..c  PROVE e[(k - 1) * c + q] = s[k][q]
  <2>1. CASE k = n + 1
    <3>1. k - 1 = n  BY <2>1
    <3> QED  BY <1>5, <2>1, <3>1 DEF x
  <2>2. CASE k # n + 1
    <3>1. k \in 1..n /\ k - 1 \in Int /\ n > k - 1 /\ c \in Nat \ {0}  BY <2>2
    <3>2. n * c >= (k - 1) * c + c  BY <3>1, Multiples
    <3> DEFINE z == (k - 1) * c
    <3>3. z \in Nat
      <4>1. \A a, b \in Nat : a * b \in Nat  OBVIOUS
      <4>2. k - 1 \in Nat  BY <3>1
      <4> QED  BY <4>1, <4>2
    <3>4. y >= z + c /\ y \in Nat  BY <1>1, <3>2
    <3> HIDE DEF z, y
    <3>5. z + q \in 1..y  BY <3>3, <3>4
    <3>6. e[z + q] = d[z + q]  BY <1>5, <3>5
    <3> QED  BY <1>2, <3>1, <3>6 DEF z
  <2> QED  BY <2>1, <2>2
<1> QED  BY <1>4, <1>5, <1>6 DEF Joined, e, x

\* and so FlattenSeq joins all of them.
LEMMA FlattenIs ==
  ASSUME NEW s, NEW m, NEW c, NEW S, IsPieces(s, m, c, S)
  PROVE  Joined(FlattenSeq(s), s, m, c, S)
<1>1. m \in Nat /\ c \in Nat /\ s \in Seq(Seq(S)) /\ Len(s) = m /\ \A k \in 1..m : Len(s[k]) = c  BY DEF IsPieces
<1>2. CASE m = 0
  <2>1. FlattenSeq(s) = s  BY <1>1, <1>2 DEF FlattenSeq
  <2>2. s = <<>>  BY <1>1, <1>2
  <2>3. 0 * c = 0  BY <1>1
  <2>4. s \in Seq(S) /\ Len(s) = m * c  BY <1>1, <1>2, <2>2, <2>3
  <2>5. \A k \in 1..m : FALSE  BY <1>2
  <2> QED  BY <2>1, <2>4, <2>5 DEF Joined
<1>3. CASE m # 0
  <2> DEFINE f == CHOOSE f : f = [k \in 1..Len(s) |-> IF k = 1 THEN s[k] ELSE f[k - 1] \o s[k]]
  <2>1. FlattenSeq(s) = f[m]  BY <1>1, <1>3 DEF FlattenSeq
  <2>2. \E g : IsFlat(g, m, s)  BY <1>1, FlatExists
  <2>3. IsFlat(f, m, s)  BY <1>1, <2>2 DEF IsFlat
  <2> HIDE DEF f
  <2>4. \A k \in 1..m : f[k] = IF k = 1 THEN s[k] ELSE f[k - 1] \o s[k]  BY <2>3 DEF IsFlat
  <2> DEFINE T == {n \in 0..m : n # 0 => Joined(f[n], s, n, c, S)}
  <2>5. 0 \in T  BY <1>1
  <2>6. ASSUME NEW n \in 0..m - 1, n \in T  PROVE n + 1 \in T
    <3>1. n + 1 \in 1..m /\ n + 1 \in 0..m /\ (n + 1) - 1 = n /\ n \in Nat  BY <1>1
    <3>2. s[n + 1] \in Seq(S) /\ Len(s[n + 1]) = c  BY <1>1, <3>1
    <3>3. CASE n = 0
      <4>1. Joined(<<>>, s, 0, c, S)
        <5>1. <<>> \in Seq(S) /\ Len(<<>>) = 0 /\ 0 * c = 0  BY <1>1
        <5>2. \A k \in 1..0 : FALSE  OBVIOUS
        <5> QED  BY <5>1, <5>2 DEF Joined
      <4>2. Joined(<<>> \o s[n + 1], s, n + 1, c, S)  BY <1>1, <3>2, <3>3, <4>1, JoinedOne
      <4>3. <<>> \o s[n + 1] = s[n + 1]  BY <3>2
      <4>4. f[n + 1] = s[n + 1]  BY <2>4, <3>1, <3>3
      <4> QED  BY <3>1, <4>2, <4>3, <4>4
    <3>4. CASE n # 0
      <4>1. Joined(f[n], s, n, c, S)  BY <2>6, <3>4
      <4>2. Joined(f[n] \o s[n + 1], s, n + 1, c, S)  BY <1>1, <3>1, <3>2, <4>1, JoinedOne
      <4>3. f[n + 1] = f[n] \o s[n + 1]
        <5>1. n + 1 # 1  BY <3>1, <3>4
        <5> QED  BY <2>4, <3>1, <5>1
      <4> QED  BY <3>1, <4>2, <4>3
    <3> QED  BY <3>3, <3>4
  <2> HIDE DEF T
  <2>7. \A n \in 0..m : n \in T  BY <1>1, <2>5, <2>6, InductionTo
  <2>8. m \in 0..m  BY <1>1
  <2>9. Joined(f[m], s, m, c, S)  BY <1>3, <2>7, <2>8 DEF T
  <2> QED  BY <2>1, <2>9
<1> QED  BY <1>2, <1>3

-----------------------------------------------------------------------------
(* Sums and products.                                                      *)

\* g satisfies the recursion of Sums up to n.
IsSums(g, n, s) == g = [k \in 0..n |-> IF k = 0 THEN 0 ELSE g[k - 1] + s[k]]

\* The recursion of Sums has a solution,
LEMMA SumsExist ==
  ASSUME NEW s, NEW m \in Nat
  PROVE  \E g : IsSums(g, m, s)
<1> DEFINE T == {n \in Nat : \E g : IsSums(g, n, s)}
<1>1. 0 \in T
  <2>1. IsSums([k \in 0..0 |-> 0], 0, s)  BY DEF IsSums
  <2> QED  BY <2>1
<1>2. ASSUME NEW n \in Nat, n \in T  PROVE n + 1 \in T
  <2>1. PICK g : IsSums(g, n, s)  BY <1>2
  <2> DEFINE h == [k \in 0..n + 1 |-> IF k = n + 1 THEN g[n] + s[n + 1] ELSE g[k]]
  <2>2. IsSums(h, n + 1, s)
    <3>1. \A k \in 0..n + 1 : h[k] = IF k = 0 THEN 0 ELSE h[k - 1] + s[k]  BY <2>1 DEF IsSums
    <3> QED  BY <3>1 DEF IsSums
  <2> QED  BY <2>2
<1> HIDE DEF T
<1>3. \A n \in Nat : n \in T  BY <1>1, <1>2, Induction
<1> QED  BY <1>3 DEF T

\* so Sums satisfies it.
LEMMA SumsDef ==
  ASSUME NEW s \in Seq(Int)
  PROVE  /\ Sums(s) \in [0..Len(s) -> Int] /\ Sums(s)[0] = 0
         /\ \A k \in 1..Len(s) : Sums(s)[k] = Sums(s)[k - 1] + s[k]
         /\ Total(s) \in Int
<1> DEFINE N == Len(s)
<1>1. N \in Nat /\ \A k \in 1..N : s[k] \in Int  OBVIOUS
<1>2. IsSums(Sums(s), N, s)
  <2>1. \E g : IsSums(g, N, s)  BY <1>1, SumsExist
  <2>2. Sums(s) = CHOOSE g : IsSums(g, N, s)  BY DEF Sums, IsSums
  <2> QED  BY <2>1, <2>2
<1> DEFINE g == Sums(s)
<1>3. g = [k \in 0..N |-> IF k = 0 THEN 0 ELSE g[k - 1] + s[k]]  BY <1>2 DEF IsSums
<1> HIDE DEF g, N
<1>4. DOMAIN g = 0..N /\ g[0] = 0 /\ \A k \in 1..N : g[k] = g[k - 1] + s[k]
  <2>1. DOMAIN g = 0..N  BY <1>3
  <2>2. \A k \in 0..N : g[k] = IF k = 0 THEN 0 ELSE g[k - 1] + s[k]  BY <1>3
  <2> QED  BY <1>1, <2>1, <2>2
<1>5. \A k \in 0..N : g[k] \in Int
  <2> DEFINE T == {k \in 0..N : g[k] \in Int}
  <2>1. 0 \in T /\ \A k \in 0..N - 1 : k \in T => k + 1 \in T
    <3> SUFFICES ASSUME NEW k \in 0..N - 1, k \in T  PROVE k + 1 \in T
      BY <1>1, <1>4
    <3>1. k + 1 \in 1..N /\ k + 1 \in 0..N  BY <1>1
    <3>2. g[k + 1] = g[k] + s[k + 1]  BY <1>1, <1>4, <3>1
    <3> QED  BY <1>1, <3>1, <3>2
  <2> HIDE DEF T
  <2>2. \A k \in 0..N : k \in T  BY <1>1, <2>1, InductionTo
  <2> QED  BY <2>2 DEF T
<1>6. g \in [0..N -> Int]
  <2>1. g = [k \in 0..N |-> g[k]]  BY <1>3, <1>4
  <2> QED  BY <1>5, <2>1
<1> QED  BY <1>1, <1>4, <1>5, <1>6 DEF Total, g, N

\* g satisfies the recursion of Products up to n.
IsProducts(g, n, s, N) == g = [k \in 0..n |-> IF k = 0 THEN 1 ELSE s[N + 1 - k] * g[k - 1]]

\* The recursion of Products has a solution,
LEMMA ProductsExist ==
  ASSUME NEW s, NEW N \in Nat, NEW m \in Nat
  PROVE  \E g : IsProducts(g, m, s, N)
<1> DEFINE T == {n \in Nat : \E g : IsProducts(g, n, s, N)}
<1>1. 0 \in T
  <2>1. IsProducts([k \in 0..0 |-> 1], 0, s, N)  BY DEF IsProducts
  <2> QED  BY <2>1
<1>2. ASSUME NEW n \in Nat, n \in T  PROVE n + 1 \in T
  <2>1. PICK g : IsProducts(g, n, s, N)  BY <1>2
  <2> DEFINE h == [k \in 0..n + 1 |-> IF k = n + 1 THEN s[N + 1 - k] * g[n] ELSE g[k]]
  <2>2. IsProducts(h, n + 1, s, N)
    <3>1. \A k \in 0..n + 1 : h[k] = IF k = 0 THEN 1 ELSE s[N + 1 - k] * h[k - 1]  BY <2>1 DEF IsProducts
    <3> QED  BY <3>1 DEF IsProducts
  <2> QED  BY <2>2
<1> HIDE DEF T
<1>3. \A n \in Nat : n \in T  BY <1>1, <1>2, Induction
<1> QED  BY <1>3 DEF T

\* so Products satisfies it.
LEMMA ProductsDef ==
  ASSUME NEW s \in Seq(Nat)
  PROVE  /\ Products(s) \in [0..Len(s) -> Nat] /\ Products(s)[0] = 1
         /\ \A k \in 1..Len(s) : Products(s)[k] = s[Len(s) + 1 - k] * Products(s)[k - 1]
         /\ Product(s) \in Nat
<1> DEFINE N == Len(s)
<1>1. N \in Nat /\ \A k \in 1..N : s[k] \in Nat  OBVIOUS
<1>2. IsProducts(Products(s), N, s, N)
  <2>1. \E g : IsProducts(g, N, s, N)  BY <1>1, ProductsExist
  <2>2. Products(s) = CHOOSE g : IsProducts(g, N, s, N)  BY DEF Products, IsProducts
  <2> QED  BY <2>1, <2>2
<1> DEFINE g == Products(s)
<1>3. g = [k \in 0..N |-> IF k = 0 THEN 1 ELSE s[N + 1 - k] * g[k - 1]]  BY <1>2 DEF IsProducts
<1> HIDE DEF g, N
<1>4. DOMAIN g = 0..N /\ g[0] = 1 /\ \A k \in 1..N : g[k] = s[N + 1 - k] * g[k - 1]
  <2>1. DOMAIN g = 0..N  BY <1>3
  <2>2. \A k \in 0..N : g[k] = IF k = 0 THEN 1 ELSE s[N + 1 - k] * g[k - 1]  BY <1>3
  <2> QED  BY <1>1, <2>1, <2>2
<1>5. \A k \in 0..N : g[k] \in Nat
  <2> DEFINE T == {k \in 0..N : g[k] \in Nat}
  <2>1. 0 \in T /\ \A k \in 0..N - 1 : k \in T => k + 1 \in T
    <3> SUFFICES ASSUME NEW k \in 0..N - 1, k \in T  PROVE k + 1 \in T
      BY <1>1, <1>4
    <3>1. k + 1 \in 1..N /\ k + 1 \in 0..N /\ N + 1 - (k + 1) \in 1..N /\ (k + 1) - 1 = k  BY <1>1
    <3>2. g[k + 1] = s[N + 1 - (k + 1)] * g[k]  BY <1>4, <3>1
    <3>3. \A x, y \in Nat : x * y \in Nat  OBVIOUS
    <3> QED  BY <1>1, <3>1, <3>2, <3>3
  <2> HIDE DEF T
  <2>2. \A k \in 0..N : k \in T  BY <1>1, <2>1, InductionTo
  <2> QED  BY <2>2 DEF T
<1>6. g \in [0..N -> Nat]
  <2>1. g = [k \in 0..N |-> g[k]]  BY <1>3, <1>4
  <2> QED  BY <1>5, <2>1
<1> QED  BY <1>1, <1>4, <1>5, <1>6 DEF Product, g, N

\* What satisfies the recursion is Sums.
LEMMA SumsAre ==
  ASSUME NEW s \in Seq(Int), NEW g, g[0] = 0, \A k \in 1..Len(s) : g[k] = g[k - 1] + s[k]
  PROVE  (\A k \in 0..Len(s) : Sums(s)[k] = g[k]) /\ Total(s) = g[Len(s)]
<1> DEFINE N == Len(s)
           T == {k \in 0..N : Sums(s)[k] = g[k]}
<1>1. N \in Nat /\ Sums(s)[0] = 0 /\ \A k \in 1..N : Sums(s)[k] = Sums(s)[k - 1] + s[k]  BY SumsDef
<1>2. 0 \in T  BY <1>1
<1>3. ASSUME NEW k \in 0..N - 1, k \in T  PROVE k + 1 \in T
  <2>1. k + 1 \in 1..N /\ k + 1 \in 0..N /\ (k + 1) - 1 = k  BY <1>1
  <2> QED  BY <1>1, <1>3, <2>1
<1> HIDE DEF T
<1>4. \A k \in 0..N : k \in T  BY <1>1, <1>2, <1>3, InductionTo
<1>5. N \in T  BY <1>1, <1>4
<1> QED  BY <1>4, <1>5 DEF T, Total

\* Sums of larger numbers are larger.
LEMMA SumsGrow ==
  ASSUME NEW s \in Seq(Int), NEW t \in Seq(Int), Len(s) = Len(t), \A k \in 1..Len(s) : s[k] <= t[k]
  PROVE  /\ \A k \in 0..Len(s) : Sums(s)[k] <= Sums(t)[k]
         /\ Total(s) <= Total(t)
<1> DEFINE N == Len(s)
           a == Sums(s)
           b == Sums(t)
           T == {k \in 0..N : a[k] <= b[k]}
<1>1. N \in Nat /\ \A k \in 1..N : s[k] \in Int /\ t[k] \in Int  OBVIOUS
<1>2. a \in [0..N -> Int] /\ a[0] = 0 /\ \A k \in 1..N : a[k] = a[k - 1] + s[k]  BY SumsDef
<1>3. b \in [0..N -> Int] /\ b[0] = 0 /\ \A k \in 1..N : b[k] = b[k - 1] + t[k]  BY SumsDef
<1>4. Total(s) = a[N] /\ Total(t) = b[N] /\ \A k \in 1..N : s[k] <= t[k]  BY DEF Total
<1> HIDE DEF N, a, b
<1>5. ASSUME NEW k \in 0..N - 1, k \in T  PROVE k + 1 \in T
  <2>1. k + 1 \in 1..N /\ k + 1 \in 0..N /\ k \in 0..N /\ (k + 1) - 1 = k  BY <1>1
  <2>2. a[k + 1] = a[k] + s[k + 1] /\ b[k + 1] = b[k] + t[k + 1]  BY <1>2, <1>3, <2>1
  <2>3. a[k] \in Int /\ b[k] \in Int /\ s[k + 1] \in Int /\ t[k + 1] \in Int /\ s[k + 1] <= t[k + 1]
    BY <1>1, <1>2, <1>3, <1>4, <2>1
  <2>4. a[k] <= b[k]  BY <1>5
  <2> QED  BY <2>1, <2>2, <2>3, <2>4
<1>6. 0 \in T  BY <1>1, <1>2, <1>3
<1> HIDE DEF T
<1>7. \A k \in 0..N : k \in T  BY <1>1, <1>5, <1>6, InductionTo
<1> QED  BY <1>1, <1>4, <1>7 DEF T, N, a, b

\* Adding two sequences item by item adds their sums.
LEMMA SumsAdd ==
  ASSUME NEW s \in Seq(Int), NEW t \in Seq(Int), NEW u \in Seq(Int),
         Len(s) = Len(u), Len(t) = Len(u), \A k \in 1..Len(u) : u[k] = s[k] + t[k]
  PROVE  Total(u) = Total(s) + Total(t)
<1> DEFINE N == Len(u)
           g == [k \in 0..N |-> Sums(s)[k] + Sums(t)[k]]
<1>1. /\ N \in Nat /\ Sums(s)[0] = 0 /\ Sums(t)[0] = 0
      /\ \A k \in 1..N : Sums(s)[k] = Sums(s)[k - 1] + s[k] /\ Sums(t)[k] = Sums(t)[k - 1] + t[k]
      /\ \A k \in 0..N : Sums(s)[k] \in Int /\ Sums(t)[k] \in Int
      /\ \A k \in 1..N : s[k] \in Int /\ t[k] \in Int
  <2>1. N \in Nat /\ Len(s) = N /\ Len(t) = N  OBVIOUS
  <2>2. /\ Sums(s)[0] = 0 /\ \A k \in 1..N : Sums(s)[k] = Sums(s)[k - 1] + s[k]
        /\ Sums(s) \in [0..N -> Int]
    BY <2>1, SumsDef
  <2>3. /\ Sums(t)[0] = 0 /\ \A k \in 1..N : Sums(t)[k] = Sums(t)[k - 1] + t[k]
        /\ Sums(t) \in [0..N -> Int]
    BY <2>1, SumsDef
  <2>4. \A k \in 1..N : s[k] \in Int /\ t[k] \in Int  BY <2>1
  <2> HIDE DEF N
  <2> QED  BY <2>1, <2>2, <2>3, <2>4
<1>2. g[0] = 0  BY <1>1
<1>3. \A k \in 0..N : g[k] = Sums(s)[k] + Sums(t)[k]  OBVIOUS
<1> HIDE DEF g
<1>4. \A k \in 1..N : g[k] = g[k - 1] + u[k]
  <2> SUFFICES ASSUME NEW k \in 1..N  PROVE g[k] = g[k - 1] + u[k]
    OBVIOUS
  <2>1. k \in 0..N /\ k - 1 \in 0..N  BY <1>1
  <2>2. Sums(s)[k] = Sums(s)[k - 1] + s[k] /\ Sums(t)[k] = Sums(t)[k - 1] + t[k] /\ u[k] = s[k] + t[k]
    BY <1>1
  <2>3. Sums(s)[k - 1] \in Int /\ Sums(t)[k - 1] \in Int /\ s[k] \in Int /\ t[k] \in Int  BY <1>1, <2>1
  <2>4. g[k] = Sums(s)[k] + Sums(t)[k] /\ g[k - 1] = Sums(s)[k - 1] + Sums(t)[k - 1]  BY <1>3, <2>1
  <2> HIDE DEF N
  <2> QED  BY <2>2, <2>3, <2>4
<1>5. Total(u) = g[N]  BY <1>2, <1>4, SumsAre
<1>6. N \in 0..N  BY <1>1
<1> QED  BY <1>3, <1>5, <1>6 DEF Total

\* Nothing sums to nothing.
LEMMA SumOfZeros ==
  ASSUME NEW s \in Seq(Int), \A k \in 1..Len(s) : s[k] = 0
  PROVE  Total(s) = 0
<1> DEFINE g == [k \in 0..Len(s) |-> 0]
<1>1. Len(s) \in Nat /\ \A k \in 0..Len(s) : g[k] = 0  OBVIOUS
<1>2. \A k \in 1..Len(s) : k \in 0..Len(s) /\ k - 1 \in 0..Len(s)  OBVIOUS
<1> HIDE DEF g
<1>3. g[0] = 0 /\ \A k \in 1..Len(s) : g[k] = g[k - 1] + s[k]
  <2>1. \A k \in 1..Len(s) : g[k] = 0 /\ g[k - 1] = 0 /\ s[k] = 0  BY <1>1, <1>2
  <2> QED  BY <1>1, <2>1
<1> QED  BY <1>1, <1>3, SumsAre

\* All items but one are zero.
LEMMA SumOfOne ==
  ASSUME NEW s \in Seq(Int), NEW a \in 1..Len(s), \A k \in 1..Len(s) : k # a => s[k] = 0
  PROVE  Total(s) = s[a]
<1> DEFINE g == [k \in 0..Len(s) |-> IF k < a THEN 0 ELSE s[a]]
           N == Len(s)
<1>1. N \in Nat /\ \A k \in 1..N : s[k] \in Int  OBVIOUS
<1>2. g[0] = 0 /\ g[N] = s[a]
  <2>1. 0 \in 0..N /\ N \in 0..N /\ 0 < a /\ ~(N < a)  BY <1>1
  <2> QED  BY <2>1
<1>3. ASSUME NEW k \in 1..N  PROVE g[k] = g[k - 1] + s[k]
  <2>1. k \in 0..N /\ k - 1 \in 0..N  BY <1>1
  <2>2. g[k] = (IF k < a THEN 0 ELSE s[a]) /\ g[k - 1] = (IF k - 1 < a THEN 0 ELSE s[a])  BY <2>1
  <2>3. CASE k = a
    <3>1. ~(k < a) /\ k - 1 < a  BY <2>3
    <3>2. s[a] = 0 + s[a]  BY <1>1
    <3> QED  BY <2>2, <2>3, <3>1, <3>2
  <2>4. CASE k < a
    <3>1. k - 1 < a /\ s[k] = 0 /\ 0 + 0 = 0  BY <2>4
    <3> QED  BY <2>2, <2>4, <3>1
  <2>5. CASE k > a
    <3>1. ~(k < a) /\ ~(k - 1 < a) /\ s[k] = 0  BY <2>5
    <3>2. s[a] = s[a] + 0  BY <1>1
    <3> QED  BY <2>2, <3>1, <3>2
  <2> QED  BY <2>3, <2>4, <2>5
<1> HIDE DEF g
<1> QED  BY <1>2, <1>3, SumsAre

\* The order of the items does not matter.
LEMMA SumReversed ==
  ASSUME NEW s \in Seq(Int), NEW t \in Seq(Int), Len(s) = Len(t),
         \A k \in 1..Len(s) : t[k] = s[Len(s) + 1 - k]
  PROVE  Total(t) = Total(s)
<1> DEFINE N == Len(s)
           g == [k \in 0..N |-> Total(s) - Sums(s)[N - k]]
<1>1. /\ N \in Nat /\ Sums(s)[0] = 0 /\ Total(s) = Sums(s)[N]
      /\ \A k \in 1..N : Sums(s)[k] = Sums(s)[k - 1] + s[k] /\ s[k] \in Int
      /\ \A k \in 0..N : Sums(s)[k] \in Int
  <2>1. Sums(s) \in [0..N -> Int] /\ Sums(s)[0] = 0 /\ \A k \in 1..N : Sums(s)[k] = Sums(s)[k - 1] + s[k]
    BY SumsDef
  <2>2. N \in Nat /\ (\A k \in 1..N : s[k] \in Int) /\ Total(s) = Sums(s)[N]  BY DEF Total
  <2> HIDE DEF N
  <2> QED  BY <2>1, <2>2
<1>2. \A k \in 0..N : g[k] = Total(s) - Sums(s)[N - k]  OBVIOUS
<1> HIDE DEF g, N
<1>3. g[0] = 0 /\ g[N] = Total(s)
  <2>1. 0 \in 0..N /\ N \in 0..N /\ N - 0 = N /\ N - N = 0  BY <1>1
  <2> QED  BY <1>1, <1>2, <2>1
<1>4. \A k \in 1..N : g[k] = g[k - 1] + t[k]
  <2> SUFFICES ASSUME NEW k \in 1..N  PROVE g[k] = g[k - 1] + t[k]
    OBVIOUS
  <2>1. /\ k \in 0..N /\ k - 1 \in 0..N /\ N + 1 - k \in 1..N /\ N - k \in 0..N
        /\ (N + 1 - k) - 1 = N - k /\ N - (k - 1) = N + 1 - k /\ N + 1 - k \in 0..N
    BY <1>1
  <2>2. Sums(s)[N + 1 - k] = Sums(s)[N - k] + s[N + 1 - k]  BY <1>1, <2>1
  <2>3. t[k] = s[N + 1 - k]  BY DEF N
  <2>4. g[k] = Total(s) - Sums(s)[N - k] /\ g[k - 1] = Total(s) - Sums(s)[N + 1 - k]  BY <1>2, <2>1
  <2>5. /\ Total(s) \in Int /\ Sums(s)[N - k] \in Int /\ Sums(s)[N + 1 - k] \in Int
        /\ s[N + 1 - k] \in Int
    BY <1>1, <2>1, SumsDef
  <2> DEFINE A == Total(s)
             x == Sums(s)[N - k]
             y == s[N + 1 - k]
  <2>6. A \in Int /\ x \in Int /\ y \in Int  BY <2>5
  <2>7. g[k] = A - x /\ g[k - 1] = A - (x + y) /\ t[k] = y  BY <2>2, <2>3, <2>4
  <2> HIDE DEF A, x, y
  <2> QED  BY <2>6, <2>7
<1> QED  BY <1>3, <1>4, SumsAre DEF N

\* A product is zero if a factor is.
LEMMA ProductPositive ==
  ASSUME NEW s \in Seq(Nat)
  PROVE  Product(s) # 0 <=> \A k \in 1..Len(s) : s[k] # 0
<1> DEFINE N == Len(s)
           p == Products(s)
<1>1. N \in Nat /\ \A k \in 1..N : s[k] \in Nat  OBVIOUS
<1>2. p \in [0..N -> Nat] /\ p[0] = 1 /\ \A k \in 1..N : p[k] = s[N + 1 - k] * p[k - 1]
  BY ProductsDef
<1> HIDE DEF N, p
<1>3. ASSUME \A k \in 1..N : s[k] # 0  PROVE p[N] # 0
  <2> DEFINE T == {k \in 0..N : p[k] # 0}
  <2>1. ASSUME NEW k \in 0..N - 1, k \in T  PROVE k + 1 \in T
    <3>1. k + 1 \in 1..N /\ k + 1 \in 0..N /\ N + 1 - (k + 1) \in 1..N /\ (k + 1) - 1 = k /\ k \in 0..N  BY <1>1
    <3>2. p[k + 1] = s[N + 1 - (k + 1)] * p[k]  BY <1>2, <3>1
    <3>3. \A x, y \in Nat : x # 0 /\ y # 0 => x * y # 0  OBVIOUS
    <3> QED  BY <1>1, <1>2, <1>3, <2>1, <3>1, <3>2, <3>3
  <2>2. 0 \in T  BY <1>1, <1>2
  <2> HIDE DEF T
  <2>3. \A k \in 0..N : k \in T  BY <1>1, <2>1, <2>2, InductionTo
  <2> QED  BY <1>1, <2>3 DEF T
<1>4. ASSUME NEW z \in 1..N, s[z] = 0  PROVE p[N] = 0
  <2> DEFINE T == {k \in 0..N : k >= N + 1 - z => p[k] = 0}
  <2>1. ASSUME NEW k \in 0..N - 1, k \in T  PROVE k + 1 \in T
    <3>1. k + 1 \in 1..N /\ k + 1 \in 0..N /\ N + 1 - (k + 1) \in 1..N /\ (k + 1) - 1 = k /\ k \in 0..N  BY <1>1
    <3>2. p[k + 1] = s[N + 1 - (k + 1)] * p[k]  BY <1>2, <3>1
    <3>3. \A x \in Nat : x * 0 = 0 /\ 0 * x = 0  OBVIOUS
    <3>4. k + 1 >= N + 1 - z => N + 1 - (k + 1) = z \/ k >= N + 1 - z  BY <1>1
    <3>5. s[N + 1 - (k + 1)] \in Nat /\ p[k] \in Nat  BY <1>1, <1>2, <3>1
    <3> QED  BY <1>4, <2>1, <3>1, <3>2, <3>3, <3>4, <3>5
  <2>2. 0 \in T  BY <1>1
  <2> HIDE DEF T
  <2>3. \A k \in 0..N : k \in T  BY <1>1, <2>1, <2>2, InductionTo
  <2>4. N \in 0..N /\ N >= N + 1 - z  BY <1>1
  <2> QED  BY <2>3, <2>4 DEF T
<1> QED  BY <1>3, <1>4 DEF Product, N, p

-----------------------------------------------------------------------------
(* Multi-indices.                                                          *)

\* The elements one step along axis k goes over; along "axis 0", all of them.
Weight(shape, k) == Products(shape)[Len(shape) - k]

\* The weights are the strides of C order, one axis later.
LEMMA Weights ==
  ASSUME NEW shape \in Seq(Nat)
  PROVE  /\ Weight(shape, 0) = Product(shape) /\ Weight(shape, Len(shape)) = 1
         /\ \A k \in 0..Len(shape) : Weight(shape, k) \in Nat
         /\ \A k \in 1..Len(shape) : /\ Weight(shape, k - 1) = shape[k] * Weight(shape, k)
                                     /\ CStrides(shape)[k] = Weight(shape, k)
         /\ CStrides(shape) \in Seq(Int) /\ Len(CStrides(shape)) = Len(shape)
<1> DEFINE N == Len(shape)
           p == Products(shape)
<1>1. N \in Nat /\ DOMAIN shape = 1..N  OBVIOUS
<1>2. p \in [0..N -> Nat] /\ p[0] = 1 /\ \A k \in 1..N : p[k] = shape[N + 1 - k] * p[k - 1]
  BY ProductsDef
<1>3. CStrides(shape) = [k \in 1..N |-> p[N - k]]  BY <1>1 DEF CStrides
<1>4. Product(shape) = p[N]  BY DEF Product
<1>5. \A k \in 0..N : Weight(shape, k) = p[N - k]  BY DEF Weight
<1> HIDE DEF N, p
<1>6. \A k \in 0..N : N - k \in 0..N /\ p[N - k] \in Nat  BY <1>1, <1>2
<1>7. ASSUME NEW k \in 1..N  PROVE p[N - (k - 1)] = shape[k] * p[N - k]
  <2>1. N + 1 - k \in 1..N /\ N + 1 - (N + 1 - k) = k /\ (N + 1 - k) - 1 = N - k /\ N - (k - 1) = N + 1 - k
    BY <1>1
  <2> QED  BY <1>2, <2>1
<1>8. CStrides(shape) \in Seq(Int) /\ Len(CStrides(shape)) = N
  <2>1. \A k \in 1..N : p[N - k] \in Int  BY <1>1, <1>6
  <2> QED  BY <1>1, <1>3, <2>1
<1>9. \A k \in 1..N : CStrides(shape)[k] = p[N - k]  BY <1>3
<1>10. N - 0 = N /\ N - N = 0 /\ 0 \in 0..N /\ N \in 0..N  BY <1>1
<1>11. \A k \in 1..N : k \in 0..N /\ k - 1 \in 0..N  BY <1>1
<1> QED  BY <1>2, <1>4, <1>5, <1>6, <1>7, <1>8, <1>9, <1>10, <1>11 DEF N

\* What satisfies the recursion of the weights, from the last axis on, is the
\* weights.
LEMMA WeightsAre ==
  ASSUME NEW s \in Seq(Nat), NEW g, g[Len(s)] = 1, \A k \in 1..Len(s) : g[k - 1] = s[k] * g[k]
  PROVE  \A k \in 0..Len(s) : Weight(s, k) = g[k]
<1> DEFINE N == Len(s)
           T == {k \in 0..N : Weight(s, N - k) = g[N - k]}
<1>1. N \in Nat /\ Weight(s, N) = 1 /\ \A k \in 1..N : Weight(s, k - 1) = s[k] * Weight(s, k)  BY Weights
<1>2. 0 \in T
  <2>1. N - 0 = N /\ 0 \in 0..N  BY <1>1
  <2> QED  BY <1>1, <2>1
<1>3. ASSUME NEW k \in 0..N - 1, k \in T  PROVE k + 1 \in T
  <2>1. N - k \in 1..N /\ N - (k + 1) = (N - k) - 1 /\ k + 1 \in 0..N  BY <1>1
  <2>2. Weight(s, N - k) = g[N - k]  BY <1>3
  <2>3. Weight(s, (N - k) - 1) = s[N - k] * Weight(s, N - k)  BY <1>1, <2>1
  <2>4. g[(N - k) - 1] = s[N - k] * g[N - k]  BY <2>1
  <2> QED  BY <2>1, <2>2, <2>3, <2>4
<1> HIDE DEF T
<1>4. \A k \in 0..N : k \in T  BY <1>1, <1>2, <1>3, InductionTo
<1>5. \A k \in 0..N : N - k \in 0..N /\ N - (N - k) = k  BY <1>1
<1> QED
  <2> SUFFICES ASSUME NEW k \in 0..N  PROVE Weight(s, k) = g[k]
    OBVIOUS
  <2>1. N - k \in T  BY <1>4, <1>5
  <2> QED  BY <1>5, <2>1 DEF T

-----------------------------------------------------------------------------
(* The members of a set of positions, in order.                            *)

\* A weight depends on the axes after it only.
LEMMA SameTail ==
  ASSUME NEW a \in Seq(Nat), NEW b \in Seq(Nat), Len(a) = Len(b),
         NEW k \in 0..Len(a), \A j \in k + 1..Len(a) : a[j] = b[j]
  PROVE  Weight(a, k) = Weight(b, k)
<1> DEFINE N == Len(a)
           T == {d \in 0..N - k : Weight(a, N - d) = Weight(b, N - d)}
<1>1. N \in Nat /\ k \in Nat /\ k <= N /\ N - k \in Nat  OBVIOUS
<1>2. /\ Weight(a, N) = 1 /\ \A j \in 1..N : Weight(a, j - 1) = a[j] * Weight(a, j)
      /\ Weight(b, N) = 1 /\ \A j \in 1..N : Weight(b, j - 1) = b[j] * Weight(b, j)
  BY Weights
<1> HIDE DEF N
<1>3. 0 \in T
  <2>1. N - 0 = N /\ 0 \in 0..N - k  BY <1>1
  <2> QED  BY <1>2, <2>1
<1>4. ASSUME NEW d \in 0..N - k - 1, d \in T  PROVE d + 1 \in T
  <2>1. N - d \in 1..N /\ N - d \in k + 1..N /\ N - (d + 1) = (N - d) - 1 /\ d + 1 \in 0..N - k  BY <1>1
  <2>2. a[N - d] = b[N - d]  BY <2>1 DEF N
  <2>3. Weight(a, N - (d + 1)) = a[N - d] * Weight(a, N - d)  BY <1>2, <2>1
  <2>4. Weight(b, N - (d + 1)) = b[N - d] * Weight(b, N - d)  BY <1>2, <2>1
  <2>5. Weight(a, N - d) = Weight(b, N - d)  BY <1>4
  <2> QED  BY <2>1, <2>2, <2>3, <2>4, <2>5
<1> HIDE DEF T
<1>5. \A d \in 0..N - k : d \in T  BY <1>1, <1>3, <1>4, InductionTo
<1>6. N - k \in 0..N - k /\ N - (N - k) = k  BY <1>1
<1>7. N - k \in T  BY <1>5, <1>6
<1> QED  BY <1>6, <1>7 DEF T

\* One factor of a product instead of a one.
LEMMA ProductReplaced ==
  ASSUME NEW s \in Seq(Nat), NEW t \in Seq(Nat), Len(s) = Len(t), NEW j \in 1..Len(s), t[j] = 1,
         \A k \in 1..Len(s) : k # j => s[k] = t[k]
  PROVE  Product(s) = s[j] * Product(t)
<1> DEFINE N == Len(s)
           x == s[j]
           T == {d \in 0..j - 1 : Weight(s, (j - 1) - d) = x * Weight(t, (j - 1) - d)}
<1>1. N \in Nat /\ j \in 1..N /\ x \in Nat /\ \A k \in 1..N : s[k] \in Nat /\ t[k] \in Nat  OBVIOUS
<1>2. /\ Weight(s, 0) = Product(s) /\ \A k \in 1..N : Weight(s, k - 1) = s[k] * Weight(s, k)
      /\ \A k \in 0..N : Weight(s, k) \in Nat
  BY Weights
<1>3. /\ Weight(t, 0) = Product(t) /\ \A k \in 1..N : Weight(t, k - 1) = t[k] * Weight(t, k)
      /\ \A k \in 0..N : Weight(t, k) \in Nat
  BY Weights
<1>4. Weight(s, j) = Weight(t, j)
  <2>1. \A k \in j + 1..N : s[k] = t[k]  BY <1>1
  <2>2. j \in 0..N  BY <1>1
  <2> QED  BY <2>1, <2>2, SameTail
<1> HIDE DEF N, x
<1>5. 0 \in T
  <2>1. 0 \in 0..j - 1 /\ (j - 1) - 0 = j - 1 /\ j \in 0..N  BY <1>1
  <2>2. Weight(s, j - 1) = x * Weight(s, j) /\ Weight(t, j - 1) = 1 * Weight(t, j)  BY <1>1, <1>2, <1>3 DEF x
  <2>3. Weight(t, j) \in Nat  BY <1>3, <2>1
  <2>4. 1 * Weight(t, j) = Weight(t, j)  BY <2>3
  <2>5. Weight(s, j - 1) = x * Weight(t, j - 1)  BY <1>4, <2>2, <2>4
  <2> QED  BY <2>1, <2>5
<1>6. ASSUME NEW d \in 0..(j - 1) - 1, d \in T  PROVE d + 1 \in T
  <2> DEFINE k == (j - 1) - d
  <2>1. k \in 1..N /\ k \in 0..N /\ k # j /\ (j - 1) - (d + 1) = k - 1 /\ d + 1 \in 0..j - 1  BY <1>1
  <2>2. Weight(s, k) = x * Weight(t, k)  BY <1>6
  <2> HIDE DEF k, T
  <2>3. s[k] = t[k] /\ t[k] \in Nat /\ Weight(t, k) \in Nat  BY <1>1, <1>3, <2>1 DEF N
  <2>4. Weight(s, k - 1) = t[k] * (x * Weight(t, k)) /\ Weight(t, k - 1) = t[k] * Weight(t, k)  BY <1>2, <1>3, <2>1, <2>2, <2>3
  <2>5. \A a, b, c \in Nat : a * (b * c) = b * (a * c)  OBVIOUS
  <2>6. Weight(s, k - 1) = x * Weight(t, k - 1)  BY <1>1, <2>3, <2>4, <2>5
  <2> QED  BY <2>1, <2>6 DEF T
<1>7. j - 1 \in Nat  BY <1>1
<1> HIDE DEF T
<1>8. \A d \in 0..j - 1 : d \in T  BY <1>5, <1>6, <1>7, InductionTo
<1>9. j - 1 \in 0..j - 1 /\ (j - 1) - (j - 1) = 0  BY <1>7
<1>10. j - 1 \in T  BY <1>8, <1>9
<1>11. Weight(s, 0) = x * Weight(t, 0)  BY <1>9, <1>10 DEF T
<1> QED  BY <1>2, <1>3, <1>11 DEF x

-----------------------------------------------------------------------------
(* The members of a set of positions, in order.                            *)

\* f satisfies the recursion of Ordered up to n.
IsUpto(f, n, K) ==
  f = [k \in 0..n |-> IF k = 0 THEN <<>> ELSE IF k \in K THEN Append(f[k - 1], k) ELSE f[k - 1]]

\* The recursion of Ordered has a solution,
LEMMA UptoExists ==
  ASSUME NEW K, NEW m \in Nat
  PROVE  \E f : IsUpto(f, m, K)
<1> DEFINE T == {n \in Nat : \E f : IsUpto(f, n, K)}
<1>1. 0 \in T
  <2>1. IsUpto([k \in 0..0 |-> <<>>], 0, K)  BY DEF IsUpto
  <2> QED  BY <2>1
<1>2. ASSUME NEW n \in Nat, n \in T  PROVE n + 1 \in T
  <2>1. PICK f : IsUpto(f, n, K)  BY <1>2
  <2> DEFINE last == IF n + 1 \in K THEN Append(f[n], n + 1) ELSE f[n]
             h == [k \in 0..n + 1 |-> IF k = n + 1 THEN last ELSE f[k]]
  <2>2. IsUpto(h, n + 1, K)
    <3>1. \A k \in 0..n : h[k] = f[k]  OBVIOUS
    <3>2. h[n + 1] = last  OBVIOUS
    <3>3. \A k \in 0..n : f[k] = IF k = 0 THEN <<>> ELSE IF k \in K THEN Append(f[k - 1], k) ELSE f[k - 1]
      BY <2>1 DEF IsUpto
    <3> DEFINE r == [k \in 0..n + 1 |-> IF k = 0 THEN <<>> ELSE IF k \in K THEN Append(h[k - 1], k) ELSE h[k - 1]]
    <3>4. ASSUME NEW k \in 0..n + 1  PROVE h[k] = r[k]
      <4>1. r[k] = IF k = 0 THEN <<>> ELSE IF k \in K THEN Append(h[k - 1], k) ELSE h[k - 1]  OBVIOUS
      <4> HIDE DEF h, r
      <4>2. CASE k = n + 1
        <5>1. k # 0 /\ k - 1 = n /\ n \in 0..n  BY <4>2
        <5>2. h[n] = f[n]  BY <3>1, <5>1
        <5> QED  BY <3>2, <4>1, <4>2, <5>1, <5>2
      <4>3. CASE k # n + 1
        <5>1. k \in 0..n /\ (k # 0 => k - 1 \in 0..n)  BY <4>3
        <5>2. h[k] = f[k] /\ (k # 0 => h[k - 1] = f[k - 1])  BY <3>1, <5>1
        <5>3. f[k] = IF k = 0 THEN <<>> ELSE IF k \in K THEN Append(f[k - 1], k) ELSE f[k - 1]  BY <3>3, <5>1
        <5> QED  BY <4>1, <5>2, <5>3
      <4> QED  BY <4>2, <4>3
    <3>5. h = [k \in 0..n + 1 |-> h[k]]  OBVIOUS
    <3>6. r = [k \in 0..n + 1 |-> r[k]]  OBVIOUS
    <3> HIDE DEF h
    <3>7. h = r
      <4> HIDE DEF r
      <4> QED  BY <3>4, <3>5, <3>6
    <3> QED  BY <3>7 DEF IsUpto
  <2> QED  BY <2>2
<1> HIDE DEF T
<1>3. \A n \in Nat : n \in T  BY <1>1, <1>2, Induction
<1> QED  BY <1>3 DEF T

\* so Ordered satisfies it.
LEMMA OrderedStep ==
  ASSUME NEW K
  PROVE  /\ Ordered(0, K) = <<>>
         /\ \A n \in Nat : Ordered(n + 1, K) =
              IF n + 1 \in K THEN Append(Ordered(n, K), n + 1) ELSE Ordered(n, K)
<1>1. \A m \in Nat : \E f : IsUpto(f, m, K)  BY UptoExists
<1>2. \A m \in Nat : \E f : IsUpto(f, m, K) /\ Ordered(m, K) = f[m]
  <2> SUFFICES ASSUME NEW m \in Nat  PROVE \E f : IsUpto(f, m, K) /\ Ordered(m, K) = f[m]
    OBVIOUS
  <2> DEFINE f == CHOOSE f : IsUpto(f, m, K)
  <2>1. IsUpto(f, m, K)  BY <1>1
  <2>2. Ordered(m, K) = f[m]  BY DEF Ordered, IsUpto
  <2> QED  BY <2>1, <2>2
<1>3. ASSUME NEW m \in Nat, NEW n \in Nat, NEW f, NEW g, IsUpto(f, m, K), IsUpto(g, n, K), m <= n
      PROVE  \A k \in 0..m : f[k] = g[k]
  <2> DEFINE T == {k \in 0..m : f[k] = g[k]}
  <2>1. \A k \in 0..m : f[k] = IF k = 0 THEN <<>> ELSE IF k \in K THEN Append(f[k - 1], k) ELSE f[k - 1]
    BY <1>3 DEF IsUpto
  <2>2. \A k \in 0..n : g[k] = IF k = 0 THEN <<>> ELSE IF k \in K THEN Append(g[k - 1], k) ELSE g[k - 1]
    BY <1>3 DEF IsUpto
  <2>3. 0 \in T
    <3>1. 0 \in 0..m /\ 0 \in 0..n  OBVIOUS
    <3>2. f[0] = <<>> /\ g[0] = <<>>  BY <2>1, <2>2, <3>1
    <3> QED  BY <3>1, <3>2
  <2>4. ASSUME NEW k \in 0..m - 1, k \in T  PROVE k + 1 \in T
    <3>1. k + 1 \in 0..m /\ k + 1 \in 0..n /\ k + 1 # 0 /\ (k + 1) - 1 = k  BY <1>3
    <3>2. f[k + 1] = IF k + 1 \in K THEN Append(f[k], k + 1) ELSE f[k]  BY <2>1, <3>1
    <3>3. g[k + 1] = IF k + 1 \in K THEN Append(g[k], k + 1) ELSE g[k]  BY <2>2, <3>1
    <3> QED  BY <2>4, <3>1, <3>2, <3>3
  <2> HIDE DEF T
  <2>5. \A k \in 0..m : k \in T  BY <2>3, <2>4, InductionTo
  <2> QED  BY <2>5 DEF T
<1>4. Ordered(0, K) = <<>>
  <2>1. PICK f : IsUpto(f, 0, K) /\ Ordered(0, K) = f[0]  BY <1>2
  <2> QED  BY <2>1 DEF IsUpto
<1>5. ASSUME NEW n \in Nat
      PROVE  Ordered(n + 1, K) = IF n + 1 \in K THEN Append(Ordered(n, K), n + 1) ELSE Ordered(n, K)
  <2>1. PICK f : IsUpto(f, n, K) /\ Ordered(n, K) = f[n]  BY <1>2
  <2>2. n + 1 \in Nat /\ n <= n + 1 /\ n \in 0..n /\ n + 1 \in 0..n + 1 /\ n + 1 # 0 /\ (n + 1) - 1 = n  OBVIOUS
  <2>3. PICK g : IsUpto(g, n + 1, K) /\ Ordered(n + 1, K) = g[n + 1]  BY <1>2, <2>2
  <2>4. f[n] = g[n]  BY <1>3, <2>1, <2>2, <2>3
  <2>5. \A k \in 0..n + 1 : g[k] = IF k = 0 THEN <<>> ELSE IF k \in K THEN Append(g[k - 1], k) ELSE g[k - 1]
    BY <2>3 DEF IsUpto
  <2>6. g[n + 1] = IF n + 1 \in K THEN Append(g[n], n + 1) ELSE g[n]  BY <2>2, <2>5
  <2> QED  BY <2>1, <2>3, <2>4, <2>6
<1> QED  BY <1>4, <1>5

\* How many members of K are among 1..n.
Rank(n, K) == Len(Ordered(n, K))

\* Ordered(n, K) lists the members of K up to n, each at its rank.
OrderedOK(n, K) ==
  LET o == Ordered(n, K) IN
  /\ o \in Seq(1..n)
  /\ \A m \in 1..Len(o) : o[m] \in K /\ o[m] \in 1..n /\ Rank(o[m], K) = m
  /\ \A k \in 1..n : k \in K => Rank(k, K) \in 1..Len(o) /\ o[Rank(k, K)] = k
  /\ \A k \in 0..n : Rank(k, K) \in 0..Len(o)

\* The rank goes up by one at each member.
LEMMA RankStep ==
  ASSUME NEW K
  PROVE  /\ Rank(0, K) = 0
         /\ \A n \in Nat : Ordered(n, K) \in Seq(Nat) /\ Rank(n, K) \in Nat
         /\ \A n \in Nat : Rank(n + 1, K) = IF n + 1 \in K THEN Rank(n, K) + 1 ELSE Rank(n, K)
<1> DEFINE T == {n \in Nat : Ordered(n, K) \in Seq(Nat)}
<1>1. 0 \in T
  <2>1. <<>> \in Seq(Nat) /\ 0 \in Nat  OBVIOUS
  <2>2. Ordered(0, K) = <<>>  BY OrderedStep
  <2>3. Ordered(0, K) \in Seq(Nat)  BY <2>1, <2>2, Zenon
  <2> QED  BY <2>3
<1>2. ASSUME NEW n \in Nat, n \in T  PROVE n + 1 \in T
  <2>1. Ordered(n, K) \in Seq(Nat) /\ n + 1 \in Nat  BY <1>2
  <2>2. Append(Ordered(n, K), n + 1) \in Seq(Nat)  BY <2>1
  <2>3. Ordered(n + 1, K) \in {Ordered(n, K), Append(Ordered(n, K), n + 1)}  BY OrderedStep
  <2> QED  BY <2>1, <2>2, <2>3
<1> HIDE DEF T
<1>3. \A n \in Nat : n \in T  BY <1>1, <1>2, Induction
<1>4. \A n \in Nat : Ordered(n, K) \in Seq(Nat)  BY <1>3 DEF T
<1>5. ASSUME NEW n \in Nat
      PROVE  Rank(n + 1, K) = IF n + 1 \in K THEN Rank(n, K) + 1 ELSE Rank(n, K)
  <2>1. Ordered(n, K) \in Seq(Nat)  BY <1>4
  <2>2. Len(Append(Ordered(n, K), n + 1)) = Len(Ordered(n, K)) + 1  BY <2>1
  <2> QED  BY <2>2, OrderedStep DEF Rank
<1>6. Rank(0, K) = 0  BY OrderedStep DEF Rank
<1>7. \A n \in Nat : Rank(n, K) \in Nat
  <2> SUFFICES ASSUME NEW n \in Nat  PROVE Len(Ordered(n, K)) \in Nat
    BY DEF Rank
  <2> QED  BY <1>4
<1> QED  BY <1>4, <1>5, <1>6, <1>7

\* It does, for every set.
LEMMA OrderedFacts ==
  ASSUME NEW K, NEW n \in Nat
  PROVE  OrderedOK(n, K)
<1> DEFINE T == {k \in Nat : OrderedOK(k, K)}
<1>1. 0 \in T
  <2>1. Ordered(0, K) = <<>> /\ Rank(0, K) = 0  BY OrderedStep, RankStep
  <2>2. <<>> \in Seq(1..0) /\ Len(<<>>) = 0 /\ \A k \in 0..0 : k = 0  OBVIOUS
  <2>3. /\ \A m \in 1..0 : FALSE
        /\ \A k \in 0..0 : Rank(k, K) \in 0..0
    BY <2>1
  <2> DEFINE o == Ordered(0, K)
  <2>4. o = <<>>  BY <2>1
  <2> HIDE DEF o
  <2>5. o \in Seq(1..0) /\ Len(o) = 0  BY <2>2, <2>4, Zenon
  <2>6. OrderedOK(0, K)
    <3> SUFFICES /\ o \in Seq(1..0)
                 /\ \A m \in 1..Len(o) : o[m] \in K /\ o[m] \in 1..0 /\ Rank(o[m], K) = m
                 /\ \A k \in 1..0 : k \in K => Rank(k, K) \in 1..Len(o) /\ o[Rank(k, K)] = k
                 /\ \A k \in 0..0 : Rank(k, K) \in 0..Len(o)
      BY DEF OrderedOK, o
    <3> QED  BY <2>3, <2>5
  <2> QED  BY <2>6
<1>2. ASSUME NEW i \in Nat, i \in T  PROVE i + 1 \in T
  <2> DEFINE o == Ordered(i, K)
             p == Ordered(i + 1, K)
             R(k) == Rank(k, K)
  <2>1. /\ o \in Seq(1..i)
        /\ \A m \in 1..Len(o) : o[m] \in K /\ o[m] \in 1..i /\ R(o[m]) = m
        /\ \A k \in 1..i : k \in K => R(k) \in 1..Len(o) /\ o[R(k)] = k
        /\ \A k \in 0..i : R(k) \in 0..Len(o)
    BY <1>2 DEF OrderedOK
  <2>2. p = IF i + 1 \in K THEN Append(o, i + 1) ELSE o  BY OrderedStep
  <2>3. R(i + 1) = Len(p) /\ R(i) = Len(o)  BY DEF Rank
  <2>4. OrderedOK(i + 1, K)
    <3> SUFFICES /\ p \in Seq(1..(i + 1))
                 /\ \A m \in 1..Len(p) : p[m] \in K /\ p[m] \in 1..(i + 1) /\ R(p[m]) = m
                 /\ \A k \in 1..(i + 1) : k \in K => R(k) \in 1..Len(p) /\ p[R(k)] = k
                 /\ \A k \in 0..(i + 1) : R(k) \in 0..Len(p)
      BY DEF OrderedOK
    <3> HIDE DEF o, p, R
    <3>1. \A k \in 1..(i + 1) : k = i + 1 \/ k \in 1..i  OBVIOUS
    <3>2. \A k \in 0..(i + 1) : k = i + 1 \/ k \in 0..i  OBVIOUS
    <3>3. Len(o) \in Nat /\ o \in Seq(1..(i + 1))  BY <2>1
    <3>4. CASE i + 1 \in K
      <4>1. p = Append(o, i + 1) /\ Len(p) = Len(o) + 1 /\ p \in Seq(1..(i + 1))  BY <2>2, <3>3, <3>4
      <4>2. \A m \in 1..Len(o) : p[m] = o[m]  BY <2>1, <4>1
      <4>3. p[Len(p)] = i + 1  BY <2>1, <4>1
      <4>4. \A m \in 1..Len(p) : m = Len(p) \/ m \in 1..Len(o)  BY <3>3, <4>1
      <4>5. \A m \in 1..Len(p) : p[m] \in K /\ p[m] \in 1..(i + 1) /\ R(p[m]) = m
        BY <2>1, <2>3, <3>4, <4>2, <4>3, <4>4
      <4>6. \A k \in 1..(i + 1) : k \in K => R(k) \in 1..Len(p) /\ p[R(k)] = k
        BY <2>1, <2>3, <3>1, <3>3, <4>1, <4>2, <4>3
      <4>7. \A k \in 0..(i + 1) : R(k) \in 0..Len(p)
        BY <2>1, <2>3, <3>2, <3>3, <4>1
      <4> QED  BY <4>1, <4>5, <4>6, <4>7
    <3>5. CASE i + 1 \notin K
      <4>1. p = o  BY <2>2, <3>5
      <4>2. \A m \in 1..Len(p) : p[m] \in K /\ p[m] \in 1..(i + 1) /\ R(p[m]) = m
        BY <2>1, <4>1
      <4>3. \A k \in 1..(i + 1) : k \in K => R(k) \in 1..Len(p) /\ p[R(k)] = k
        BY <2>1, <3>1, <3>5, <4>1
      <4>4. \A k \in 0..(i + 1) : R(k) \in 0..Len(p)
        BY <2>1, <2>3, <3>2, <3>3, <4>1
      <4> QED  BY <3>3, <4>1, <4>2, <4>3, <4>4
    <3> QED  BY <3>4, <3>5
  <2> QED  BY <2>4
<1> HIDE DEF T
<1>3. \A k \in Nat : k \in T  BY <1>1, <1>2, Induction
<1> QED  BY <1>3 DEF T

\* Sums and products over the members alone.
LEMMA SumSelected ==
  ASSUME NEW K, NEW v \in Seq(Int), NEW s \in Seq(Int), Len(s) = Rank(Len(v), K),
         \A k \in 1..Len(v) : k \notin K => v[k] = 0,
         \A m \in 1..Len(s) : s[m] = v[Ordered(Len(v), K)[m]]
  PROVE  Total(s) = Total(v)
<1> DEFINE N == Len(v)
           g == [k \in 0..N |-> Sums(s)[Rank(k, K)]]
<1>1. N \in Nat /\ \A k \in 1..N : v[k] \in Int  OBVIOUS
<1>2. Sums(s) \in [0..Len(s) -> Int] /\ Sums(s)[0] = 0 /\ \A m \in 1..Len(s) : Sums(s)[m] = Sums(s)[m - 1] + s[m]
  BY SumsDef
<1>3. /\ \A k \in 1..N : k \in K => Rank(k, K) \in 1..Len(s) /\ Ordered(N, K)[Rank(k, K)] = k
      /\ \A k \in 0..N : Rank(k, K) \in 0..Len(s)
  <2>1. OrderedOK(N, K)  BY <1>1, OrderedFacts
  <2>2. Len(Ordered(N, K)) = Len(s)  BY DEF Rank
  <2> QED  BY <2>1, <2>2 DEF OrderedOK
<1>4. \A k \in 0..N : g[k] = Sums(s)[Rank(k, K)]  OBVIOUS
<1> HIDE DEF g
<1>5. g[0] = 0 /\ g[N] = Total(s)
  <2>1. 0 \in 0..N /\ N \in 0..N  BY <1>1
  <2> QED  BY <1>2, <1>4, <2>1, RankStep DEF Total
<1>6. \A k \in 1..N : g[k] = g[k - 1] + v[k]
  <2> SUFFICES ASSUME NEW k \in 1..N  PROVE g[k] = g[k - 1] + v[k]
    OBVIOUS
  <2>1. k \in 0..N /\ k - 1 \in 0..N /\ k - 1 \in Nat /\ (k - 1) + 1 = k  BY <1>1
  <2>2. Rank(k, K) = IF k \in K THEN Rank(k - 1, K) + 1 ELSE Rank(k - 1, K)
    <3>1. Rank((k - 1) + 1, K) = IF (k - 1) + 1 \in K THEN Rank(k - 1, K) + 1 ELSE Rank(k - 1, K)
      BY <2>1, RankStep
    <3> QED  BY <2>1, <3>1
  <2>3. g[k] = Sums(s)[Rank(k, K)] /\ g[k - 1] = Sums(s)[Rank(k - 1, K)]  BY <1>4, <2>1
  <2>4. Rank(k - 1, K) \in 0..Len(s) /\ Sums(s)[Rank(k - 1, K)] \in Int  BY <1>2, <1>3, <2>1
  <2>5. CASE k \in K
    <3>1. Rank(k, K) \in 1..Len(s) /\ Rank(k, K) - 1 = Rank(k - 1, K)  BY <1>3, <2>2, <2>4, <2>5
    <3>2. Sums(s)[Rank(k, K)] = Sums(s)[Rank(k, K) - 1] + s[Rank(k, K)]  BY <1>2, <3>1
    <3>3. s[Rank(k, K)] = v[k]  BY <1>3, <2>5, <3>1
    <3> QED  BY <2>3, <3>1, <3>2, <3>3
  <2>6. CASE k \notin K
    <3>1. v[k] = 0  BY <2>6
    <3>2. g[k] = g[k - 1] /\ g[k - 1] \in Int  BY <2>2, <2>3, <2>4, <2>6
    <3> QED  BY <3>1, <3>2
  <2> QED  BY <2>5, <2>6
<1> QED  BY <1>5, <1>6, SumsAre

\* Products leave out axes of length one.
LEMMA WeightSelected ==
  ASSUME NEW K, NEW c \in Seq(Nat), NEW s \in Seq(Nat), Len(s) = Rank(Len(c), K),
         \A k \in 1..Len(c) : k \notin K => c[k] = 1,
         \A m \in 1..Len(s) : s[m] = c[Ordered(Len(c), K)[m]]
  PROVE  /\ \A k \in 0..Len(c) : Weight(c, k) = Weight(s, Rank(k, K))
         /\ Product(c) = Product(s)
<1> DEFINE N == Len(c)
           g == [k \in 0..N |-> Weight(s, Rank(k, K))]
<1>1. N \in Nat /\ \A k \in 1..N : c[k] \in Nat  OBVIOUS
<1>2. /\ Weight(s, Len(s)) = 1 /\ \A m \in 1..Len(s) : Weight(s, m - 1) = s[m] * Weight(s, m)
      /\ \A m \in 0..Len(s) : Weight(s, m) \in Nat
  BY Weights
<1>3. /\ \A k \in 1..N : k \in K => Rank(k, K) \in 1..Len(s) /\ Ordered(N, K)[Rank(k, K)] = k
      /\ \A k \in 0..N : Rank(k, K) \in 0..Len(s)
  <2>1. OrderedOK(N, K)  BY <1>1, OrderedFacts
  <2>2. Len(Ordered(N, K)) = Len(s)  BY DEF Rank
  <2> QED  BY <2>1, <2>2 DEF OrderedOK
<1>4. \A k \in 0..N : g[k] = Weight(s, Rank(k, K))  OBVIOUS
<1> HIDE DEF g
<1>5. g[N] = 1
  <2>1. N \in 0..N  BY <1>1
  <2> QED  BY <1>2, <1>4, <2>1
<1>6. \A k \in 1..N : g[k - 1] = c[k] * g[k]
  <2> SUFFICES ASSUME NEW k \in 1..N  PROVE g[k - 1] = c[k] * g[k]
    OBVIOUS
  <2>1. k \in 0..N /\ k - 1 \in 0..N /\ k - 1 \in Nat /\ (k - 1) + 1 = k  BY <1>1
  <2>2. Rank(k, K) = IF k \in K THEN Rank(k - 1, K) + 1 ELSE Rank(k - 1, K)
    <3>1. Rank((k - 1) + 1, K) = IF (k - 1) + 1 \in K THEN Rank(k - 1, K) + 1 ELSE Rank(k - 1, K)
      BY <2>1, RankStep
    <3> QED  BY <2>1, <3>1
  <2>3. g[k] = Weight(s, Rank(k, K)) /\ g[k - 1] = Weight(s, Rank(k - 1, K))  BY <1>4, <2>1
  <2>4. Rank(k - 1, K) \in 0..Len(s)  BY <1>3, <2>1
  <2>5. CASE k \in K
    <3>1. Rank(k, K) \in 1..Len(s) /\ Rank(k, K) - 1 = Rank(k - 1, K)  BY <1>3, <2>2, <2>4, <2>5
    <3>2. Weight(s, Rank(k, K) - 1) = s[Rank(k, K)] * Weight(s, Rank(k, K))  BY <1>2, <3>1
    <3>3. s[Rank(k, K)] = c[k]  BY <1>3, <2>5, <3>1
    <3> QED  BY <2>3, <3>1, <3>2, <3>3
  <2>6. CASE k \notin K
    <3>1. c[k] = 1  BY <2>6
    <3>2. g[k] = g[k - 1] /\ g[k] \in Nat  BY <1>2, <2>2, <2>3, <2>4, <2>6
    <3>3. 1 * g[k] = g[k]  BY <3>2
    <3> QED  BY <3>1, <3>2, <3>3
  <2> QED  BY <2>5, <2>6
<1>7. \A k \in 0..N : Weight(c, k) = g[k]  BY <1>5, <1>6, WeightsAre
<1>8. 0 \in 0..N /\ Rank(0, K) = 0  BY <1>1, RankStep
<1>9. Product(c) = Weight(c, 0) /\ Product(s) = Weight(s, 0)  BY Weights
<1> QED  BY <1>4, <1>7, <1>8, <1>9

-----------------------------------------------------------------------------
(* Layout::select.                                                         *)

\* The rank of k from that of k - 1.
LEMMA RankAt ==
  ASSUME NEW K, NEW k \in Nat \ {0}
  PROVE  Rank(k, K) = IF k \in K THEN Rank(k - 1, K) + 1 ELSE Rank(k - 1, K)
<1>1. k - 1 \in Nat /\ (k - 1) + 1 = k  OBVIOUS
<1>2. Rank((k - 1) + 1, K) = IF (k - 1) + 1 \in K THEN Rank(k - 1, K) + 1 ELSE Rank(k - 1, K)
  BY <1>1, RankStep
<1> QED  BY <1>1, <1>2

\* Ranks grow.
LEMMA RankGrows ==
  ASSUME NEW K
  PROVE  \A k \in Nat : \A j \in 0..k : Rank(j, K) <= Rank(k, K)
<1> DEFINE T == {k \in Nat : \A j \in 0..k : Rank(j, K) <= Rank(k, K)}
<1>1. 0 \in T  BY RankStep
<1>2. ASSUME NEW k \in Nat, k \in T  PROVE k + 1 \in T
  <2>1. \A j \in 0..k : Rank(j, K) <= Rank(k, K)  BY <1>2
  <2>2. Rank(k, K) <= Rank(k + 1, K)
    <3>1. Rank(k, K) \in Nat /\ Rank(k + 1, K) = IF k + 1 \in K THEN Rank(k, K) + 1 ELSE Rank(k, K)
      BY RankStep
    <3> QED  BY <3>1
  <2>3. \A j \in 0..(k + 1) : j \in 0..k \/ j = k + 1  OBVIOUS
  <2>4. \A j \in Nat : Rank(j, K) \in Nat  BY RankStep
  <2> SUFFICES ASSUME NEW j \in 0..(k + 1)  PROVE Rank(j, K) <= Rank(k + 1, K)
    OBVIOUS
  <2> QED  BY <2>1, <2>2, <2>3, <2>4
<1> HIDE DEF T
<1>3. \A k \in Nat : k \in T  BY <1>1, <1>2, Induction
<1> QED  BY <1>3 DEF T

\* The rank is a number of members.
LEMMA RankIs ==
  ASSUME NEW K
  PROVE  \A n \in Nat : Rank(n, K) = Cardinality({p \in 1..n : p \in K})
<1> DEFINE S(n) == {p \in 1..n : p \in K}
           T == {n \in Nat : IsFiniteSet(S(n)) /\ Rank(n, K) = Cardinality(S(n))}
<1>1. 0 \in T
  <2>1. S(0) = {}  OBVIOUS
  <2> QED  BY <2>1, RankStep, FS_EmptySet
<1>2. ASSUME NEW n \in Nat, n \in T  PROVE n + 1 \in T
  <2>1. IsFiniteSet(S(n)) /\ Rank(n, K) = Cardinality(S(n))  BY <1>2
  <2>2. Rank(n + 1, K) = IF n + 1 \in K THEN Rank(n, K) + 1 ELSE Rank(n, K)  BY RankStep
  <2>3. CASE n + 1 \in K
    <3>1. S(n + 1) = S(n) \cup {n + 1} /\ n + 1 \notin S(n)  BY <2>3
    <3> HIDE DEF S
    <3>2. IsFiniteSet(S(n + 1)) /\ Cardinality(S(n + 1)) = Cardinality(S(n)) + 1
      BY <2>1, <3>1, FS_AddElement
    <3> QED  BY <2>1, <2>2, <2>3, <3>2
  <2>4. CASE n + 1 \notin K
    <3>1. S(n + 1) = S(n)  BY <2>4
    <3> HIDE DEF S
    <3> QED  BY <2>1, <2>2, <2>4, <3>1
  <2> QED  BY <2>3, <2>4
<1> HIDE DEF T
<1>3. \A n \in Nat : n \in T  BY <1>1, <1>2, Induction
<1> QED  BY <1>3 DEF T

\* At most n of the first n positions are members.
LEMMA RankBound ==
  ASSUME NEW K
  PROVE  \A n \in Nat : Rank(n, K) \in 0..n
<1> DEFINE T == {n \in Nat : Rank(n, K) \in 0..n}
<1>1. 0 \in T  BY RankStep
<1>2. ASSUME NEW n \in Nat, n \in T  PROVE n + 1 \in T
  <2>1. Rank(n + 1, K) = IF n + 1 \in K THEN Rank(n, K) + 1 ELSE Rank(n, K)  BY RankStep
  <2> QED  BY <1>2, <2>1
<1> HIDE DEF T
<1>3. \A n \in Nat : n \in T  BY <1>1, <1>2, Induction
<1> QED  BY <1>3 DEF T

\* One more member, one more from there on.
LEMMA RankAdd ==
  ASSUME NEW K, NEW p \in Nat \ {0}, p \notin K
  PROVE  \A k \in Nat : Rank(k, K \cup {p}) = Rank(k, K) + (IF k >= p THEN 1 ELSE 0)
<1> DEFINE L == K \cup {p}
           T == {k \in Nat : Rank(k, L) = Rank(k, K) + (IF k >= p THEN 1 ELSE 0)}
<1>1. 0 \in T  BY RankStep
<1>2. ASSUME NEW k \in Nat, k \in T  PROVE k + 1 \in T
  <2>1. Rank(k, L) = Rank(k, K) + (IF k >= p THEN 1 ELSE 0)  BY <1>2
  <2>2. Rank(k + 1, K) = IF k + 1 \in K THEN Rank(k, K) + 1 ELSE Rank(k, K)  BY RankStep
  <2>3. Rank(k + 1, L) = IF k + 1 \in L THEN Rank(k, L) + 1 ELSE Rank(k, L)  BY RankStep
  <2>4. Rank(k, K) \in Nat  BY RankStep
  <2>5. k + 1 \in L <=> k + 1 \in K \/ k + 1 = p  OBVIOUS
  <2> HIDE DEF L
  <2>6. Rank(k + 1, L) = Rank(k + 1, K) + (IF k + 1 >= p THEN 1 ELSE 0)
    <3>1. CASE k + 1 = p  BY <2>1, <2>2, <2>3, <2>4, <2>5, <3>1
    <3>2. CASE k + 1 # p
      <4>1. k >= p <=> k + 1 >= p  BY <3>2
      <4> QED  BY <2>1, <2>2, <2>3, <2>4, <2>5, <3>2, <4>1
    <3> QED  BY <3>1, <3>2
  <2> QED  BY <2>6
<1> HIDE DEF T
<1>3. \A k \in Nat : k \in T  BY <1>1, <1>2, Induction
<1> QED  BY <1>3 DEF T

\* Ranks of disjoint sets add up.
LEMMA RankUnion ==
  ASSUME NEW K, NEW J, K \cap J = {}
  PROVE  \A n \in Nat : Rank(n, K \cup J) = Rank(n, K) + Rank(n, J)
<1> DEFINE T == {n \in Nat : Rank(n, K \cup J) = Rank(n, K) + Rank(n, J)}
<1>1. /\ Rank(0, K) = 0 /\ Rank(0, J) = 0 /\ Rank(0, K \cup J) = 0
      /\ \A n \in Nat : Rank(n, K) \in Nat /\ Rank(n, J) \in Nat /\ Rank(n, K \cup J) \in Nat
      /\ \A n \in Nat : Rank(n + 1, K) = IF n + 1 \in K THEN Rank(n, K) + 1 ELSE Rank(n, K)
      /\ \A n \in Nat : Rank(n + 1, J) = IF n + 1 \in J THEN Rank(n, J) + 1 ELSE Rank(n, J)
      /\ \A n \in Nat : Rank(n + 1, K \cup J) = IF n + 1 \in K \cup J THEN Rank(n, K \cup J) + 1 ELSE Rank(n, K \cup J)
  BY RankStep
<1>2. 0 \in T  BY <1>1
<1>3. ASSUME NEW n \in Nat, n \in T  PROVE n + 1 \in T
  <2>1. ~(n + 1 \in K /\ n + 1 \in J)  OBVIOUS
  <2>2. /\ Rank(n, K) \in Nat /\ Rank(n, J) \in Nat /\ Rank(n, K \cup J) = Rank(n, K) + Rank(n, J)
    BY <1>1, <1>3
  <2>3. Rank(n + 1, K \cup J) = Rank(n + 1, K) + Rank(n + 1, J)
    <3>1. CASE n + 1 \in K
      <4>1. n + 1 \notin J /\ n + 1 \in K \cup J  BY <2>1, <3>1
      <4>2. /\ Rank(n + 1, K) = Rank(n, K) + 1 /\ Rank(n + 1, J) = Rank(n, J)
            /\ Rank(n + 1, K \cup J) = Rank(n, K \cup J) + 1
        BY <1>1, <3>1, <4>1
      <4> QED  BY <2>2, <4>2
    <3>2. CASE n + 1 \in J
      <4>1. n + 1 \notin K /\ n + 1 \in K \cup J  BY <2>1, <3>2
      <4>2. /\ Rank(n + 1, J) = Rank(n, J) + 1 /\ Rank(n + 1, K) = Rank(n, K)
            /\ Rank(n + 1, K \cup J) = Rank(n, K \cup J) + 1
        BY <1>1, <3>2, <4>1
      <4> QED  BY <2>2, <4>2
    <3>3. CASE n + 1 \notin K /\ n + 1 \notin J
      <4>1. n + 1 \notin K \cup J  BY <3>3
      <4> QED  BY <1>1, <2>2, <3>3, <4>1
    <3> QED  BY <3>1, <3>2, <3>3
  <2> QED  BY <2>3
<1> HIDE DEF T
<1>4. \A n \in Nat : n \in T  BY <1>2, <1>3, Induction
<1> QED  BY <1>4 DEF T

\* Ranks depend on the members up to there only.
LEMMA RankSame ==
  ASSUME NEW K, NEW L, NEW n \in Nat, \A q \in 1..n : q \in K <=> q \in L
  PROVE  Rank(n, K) = Rank(n, L)
<1>1. {p \in 1..n : p \in K} = {p \in 1..n : p \in L}  OBVIOUS
<1> QED  BY <1>1, RankIs

\* One more member moves those after it.
LEMMA OrderedAdd ==
  ASSUME NEW K, NEW n \in Nat, NEW p \in 1..n, p \notin K
  PROVE  LET r == Rank(p - 1, K) + 1
             o == Ordered(n, K)
             q == Ordered(n, K \cup {p})
         IN  /\ r \in 1..Len(o) + 1 /\ Len(q) = Len(o) + 1 /\ q[r] = p
             /\ \A m \in 1..Len(o) : m < r => q[m] = o[m]
             /\ \A m \in 1..Len(o) : m >= r => q[m + 1] = o[m]
<1> DEFINE L == K \cup {p}
           r == Rank(p - 1, K) + 1
           o == Ordered(n, K)
           q == Ordered(n, L)
<1>1. \A k \in Nat : Rank(k, L) = Rank(k, K) + (IF k >= p THEN 1 ELSE 0)
  <2>1. p \in Nat \ {0}  OBVIOUS
  <2> QED  BY <2>1, RankAdd
<1>2. /\ \A m \in 1..Len(o) : o[m] \in K /\ o[m] \in 1..n /\ Rank(o[m], K) = m
      /\ Len(o) = Rank(n, K) /\ Len(q) = Rank(n, L)
  BY OrderedFacts DEF OrderedOK, Rank
<1>3. \A k \in 1..n : k \in L => q[Rank(k, L)] = k  BY OrderedFacts DEF OrderedOK
<1>4. \A k \in Nat : Rank(k, K) \in Nat  BY RankStep
<1>5. \A k \in K : k \in L  OBVIOUS
<1>6. p \in L  OBVIOUS
<1> HIDE DEF L, o, q
<1>7. Len(q) = Len(o) + 1 /\ Len(o) \in Nat  BY <1>1, <1>2, <1>4
<1>8. p - 1 \in Nat /\ p \in Nat /\ p - 1 <= n /\ p - 1 \in 0..n  OBVIOUS
<1>9. Rank(p, K) = Rank(p - 1, K)  BY <1>8, RankAt
<1>10. r \in 1..Len(o) + 1
  <2>1. Rank(p - 1, K) <= Rank(n, K)  BY <1>8, RankGrows
  <2>2. Rank(n, K) = Len(o) /\ Rank(p - 1, K) \in Nat  BY <1>2, <1>4, <1>8
  <2> QED  BY <1>7, <2>1, <2>2
<1>13. Rank(p - 1, K) \in Nat /\ r \in Nat  BY <1>4, <1>8
<1>11. q[r] = p
  <2>1. Rank(p, L) = r  BY <1>1, <1>4, <1>8, <1>9
  <2> QED  BY <1>3, <1>6, <2>1
<1>12. ASSUME NEW m \in 1..Len(o)
       PROVE  (m < r => q[m] = o[m]) /\ (m >= r => q[m + 1] = o[m])
  <2> DEFINE k == o[m]
  <2>1. k \in K /\ k \in 1..n /\ Rank(k, K) = m  BY <1>2
  <2> HIDE DEF k
  <2>2. k # p /\ k \in L /\ k \in Nat /\ q[Rank(k, L)] = k  BY <1>3, <1>5, <2>1
  <2>3. CASE k < p
    <3>1. k \in 0..p - 1  BY <2>1, <2>3
    <3>2. m <= Rank(p - 1, K)  BY <1>8, <2>1, <3>1, RankGrows
    <3>3. Rank(k, L) = m  BY <1>1, <1>4, <2>1, <2>2, <2>3
    <3>4. m < r  BY <1>4, <1>8, <3>2
    <3> HIDE DEF r
    <3>5. ~(m >= r)  BY <1>13, <3>4
    <3>6. q[m] = o[m]  BY <2>2, <3>3 DEF k
    <3> QED  BY <3>5, <3>6
  <2>4. CASE k > p
    <3>1. Rank(k, L) = m + 1  BY <1>1, <1>4, <2>1, <2>2, <2>4
    <3>2. Rank(k, K) = Rank(k - 1, K) + 1 /\ p \in 0..k - 1 /\ k - 1 \in Nat  BY <2>1, <2>4, RankAt
    <3>3. Rank(p, K) <= Rank(k - 1, K)  BY <3>2, RankGrows
    <3>4. m >= r  BY <1>4, <1>8, <1>9, <2>1, <3>2, <3>3
    <3> HIDE DEF r
    <3>5. ~(m < r)  BY <1>13, <3>4
    <3>6. q[m + 1] = o[m]  BY <2>2, <3>1 DEF k
    <3> QED  BY <3>5, <3>6
  <2> QED  BY <2>1, <2>2, <2>3, <2>4
<1> QED  BY <1>7, <1>10, <1>11, <1>12 DEF L, o, q

\* Nothing comes after the last member.
LEMMA OrderedBeyond ==
  ASSUME NEW J, NEW M \in Nat, NEW F \in Nat, M <= F, \A k \in J : k <= M
  PROVE  Ordered(F, J) = Ordered(M, J)
<1> DEFINE T == {d \in Nat : Ordered(M + d, J) = Ordered(M, J)}
<1>1. 0 \in T
  <2>1. M + 0 = M  OBVIOUS
  <2> QED  BY <2>1
<1>2. ASSUME NEW d \in Nat, d \in T  PROVE d + 1 \in T
  <2>1. Ordered(M + d, J) = Ordered(M, J)  BY <1>2
  <2>2. M + d \in Nat /\ M + (d + 1) = (M + d) + 1 /\ ~((M + d) + 1 <= M)  OBVIOUS
  <2>3. (M + d) + 1 \notin J  BY <2>2
  <2>4. Ordered((M + d) + 1, J) = Ordered(M + d, J)  BY <2>2, <2>3, OrderedStep
  <2>5. Ordered(M + (d + 1), J) = Ordered(M, J)  BY <2>1, <2>2, <2>4
  <2> QED  BY <2>5
<1> HIDE DEF T
<1>3. \A d \in Nat : d \in T  BY <1>1, <1>2, Induction
<1>4. F - M \in Nat /\ M + (F - M) = F  OBVIOUS
<1>5. F - M \in T  BY <1>3, <1>4
<1> QED  BY <1>4, <1>5 DEF T

-----------------------------------------------------------------------------
(* insert_axis.                                                            *)

\* Ranks in an initial and in a final stretch.
LEMMA RankOfInterval ==
  ASSUME NEW M \in Nat, NEW N \in Nat, M <= N
  PROVE  /\ \A k \in 0..N : Rank(k, 1..M) = IF k <= M THEN k ELSE M
         /\ \A k \in 0..N : Rank(k, M + 1..N) = IF k <= M THEN 0 ELSE k - M
<1> DEFINE A == 1..M
           B == M + 1..N
           T == {k \in 0..N : Rank(k, A) = (IF k <= M THEN k ELSE M) /\ Rank(k, B) = (IF k <= M THEN 0 ELSE k - M)}
<1>1. /\ Rank(0, A) = 0 /\ Rank(0, B) = 0
      /\ \A k \in Nat \ {0} : /\ Rank(k, A) = IF k \in A THEN Rank(k - 1, A) + 1 ELSE Rank(k - 1, A)
                              /\ Rank(k, B) = IF k \in B THEN Rank(k - 1, B) + 1 ELSE Rank(k - 1, B)
  BY RankStep, RankAt
<1>2. 0 \in T
  <2>1. 0 \in 0..N /\ 0 <= M  OBVIOUS
  <2> QED  BY <1>1, <2>1
<1>3. ASSUME NEW k \in 0..N - 1, k \in T  PROVE k + 1 \in T
  <2>1. k + 1 \in Nat \ {0} /\ (k + 1) - 1 = k /\ k + 1 \in 0..N /\ k \in Nat  OBVIOUS
  <2>2. /\ Rank(k + 1, A) = IF k + 1 \in A THEN Rank(k, A) + 1 ELSE Rank(k, A)
        /\ Rank(k + 1, B) = IF k + 1 \in B THEN Rank(k, B) + 1 ELSE Rank(k, B)
    BY <1>1, <2>1
  <2>3. Rank(k, A) = (IF k <= M THEN k ELSE M) /\ Rank(k, B) = (IF k <= M THEN 0 ELSE k - M)  BY <1>3
  <2>4. (k + 1 \in A <=> k + 1 <= M) /\ (k + 1 \in B <=> k + 1 > M)  BY <2>1
  <2>5. CASE k + 1 <= M
    <3>1. k <= M  BY <2>1, <2>5
    <3>2. Rank(k + 1, A) = k + 1 /\ Rank(k + 1, B) = 0  BY <2>1, <2>2, <2>3, <2>4, <2>5, <3>1
    <3> QED  BY <2>1, <2>5, <3>2
  <2>6. CASE ~(k + 1 <= M)
    <3>1. k >= M  BY <2>1, <2>6
    <3>2. Rank(k + 1, A) = M /\ Rank(k + 1, B) = (k + 1) - M
      <4>1. CASE k = M
        <5>1. Rank(k, A) = M /\ Rank(k, B) = 0 /\ (k + 1) - M = 0 + 1  BY <2>1, <2>3, <4>1
        <5> QED  BY <2>1, <2>2, <2>4, <2>6, <5>1
      <4>2. CASE k > M
        <5>1. Rank(k, A) = M /\ Rank(k, B) = k - M /\ (k + 1) - M = (k - M) + 1  BY <2>1, <2>3, <4>2
        <5> QED  BY <2>1, <2>2, <2>4, <2>6, <4>2, <5>1
      <4> QED  BY <2>1, <3>1, <4>1, <4>2
    <3> QED  BY <2>1, <2>6, <3>2
  <2> QED  BY <2>5, <2>6
<1> HIDE DEF T
<1>4. \A k \in 0..N : k \in T  BY <1>2, <1>3, InductionTo
<1> QED  BY <1>4 DEF T

\* The members are the first M positions,
LEMMA OrderedInitial ==
  ASSUME NEW K, NEW M \in Nat, NEW N \in Nat, M <= N, \A k \in 1..N : k \in K <=> k <= M
  PROVE  Rank(N, K) = M /\ \A m \in 1..M : Ordered(N, K)[m] = m
<1>1. \A k \in 0..N : Rank(k, K) = Rank(k, 1..M)
  <2> SUFFICES ASSUME NEW k \in 0..N  PROVE Rank(k, K) = Rank(k, 1..M)
    OBVIOUS
  <2>1. k \in Nat /\ \A q \in 1..k : q \in K <=> q \in 1..M  OBVIOUS
  <2> QED  BY <2>1, RankSame
<1>2. \A k \in 0..N : Rank(k, K) = IF k <= M THEN k ELSE M
  <2>1. \A k \in 0..N : Rank(k, 1..M) = IF k <= M THEN k ELSE M  BY RankOfInterval
  <2> QED  BY <1>1, <2>1
<1>3. \A k \in 1..N : k \in K => Ordered(N, K)[Rank(k, K)] = k  BY OrderedFacts DEF OrderedOK
<1>4. Rank(N, K) = M
  <2>1. N \in 0..N  OBVIOUS
  <2> QED  BY <1>2, <2>1
<1>5. ASSUME NEW m \in 1..M  PROVE Ordered(N, K)[m] = m
  <2>1. m \in 0..N /\ m \in 1..N /\ m <= M  OBVIOUS
  <2>2. Rank(m, K) = m /\ m \in K  BY <1>2, <2>1
  <2> QED  BY <1>3, <2>1, <2>2
<1> QED  BY <1>4, <1>5

\* or those after M.
LEMMA OrderedFinal ==
  ASSUME NEW K, NEW M \in Nat, NEW N \in Nat, M <= N, \A k \in 1..N : k \in K <=> k > M
  PROVE  Rank(N, K) = N - M /\ \A m \in 1..N - M : Ordered(N, K)[m] = M + m
<1>1. \A k \in 0..N : Rank(k, K) = Rank(k, M + 1..N)
  <2> SUFFICES ASSUME NEW k \in 0..N  PROVE Rank(k, K) = Rank(k, M + 1..N)
    OBVIOUS
  <2>1. k \in Nat /\ \A q \in 1..k : q \in K <=> q \in M + 1..N  OBVIOUS
  <2> QED  BY <2>1, RankSame
<1>2. \A k \in 0..N : Rank(k, K) = IF k <= M THEN 0 ELSE k - M
  <2>1. \A k \in 0..N : Rank(k, M + 1..N) = IF k <= M THEN 0 ELSE k - M  BY RankOfInterval
  <2> QED  BY <1>1, <2>1
<1>3. \A k \in 1..N : k \in K => Ordered(N, K)[Rank(k, K)] = k  BY OrderedFacts DEF OrderedOK
<1>4. Rank(N, K) = N - M
  <2>1. N \in 0..N  OBVIOUS
  <2> QED  BY <1>2, <2>1
<1>5. ASSUME NEW m \in 1..N - M  PROVE Ordered(N, K)[m] = M + m
  <2>1. M + m \in 0..N /\ M + m \in 1..N /\ M + m > M /\ (M + m) - M = m  OBVIOUS
  <2>2. Rank(M + m, K) = m /\ M + m \in K  BY <1>2, <2>1
  <2> QED  BY <1>3, <2>1, <2>2
<1> QED  BY <1>4, <1>5

-----------------------------------------------------------------------------
(* Multi-indices and C order.                                              *)

\* The set Indices is taken from is large enough.
LEMMA LargestExists ==
  ASSUME NEW s \in Seq(Nat)
  PROVE  LET m == Max({0} \cup Range(s)) IN m \in Nat /\ \A k \in 1..Len(s) : s[k] <= m
<1> DEFINE N == Len(s)
           T == {n \in 0..N : \E x \in Nat : /\ x = 0 \/ \E k \in 1..n : x = s[k]
                                          /\ \A k \in 1..n : s[k] <= x}
           S == {0} \cup Range(s)
<1>1. N \in Nat /\ \A k \in 1..N : s[k] \in Nat  OBVIOUS
<1>2. S = {0} \cup {s[k] : k \in 1..N}  BY DEF Range
<1> HIDE DEF N, S
<1>3. 0 \in T  BY <1>1
<1>4. ASSUME NEW n \in 0..N - 1, n \in T  PROVE n + 1 \in T
  <2>1. PICK x \in Nat : /\ x = 0 \/ \E k \in 1..n : x = s[k]
                        /\ \A k \in 1..n : s[k] <= x
    BY <1>4
  <2>2. n + 1 \in 1..N /\ n + 1 \in 0..N /\ s[n + 1] \in Nat  BY <1>1
  <2>3. \A k \in 1..n + 1 : k \in 1..n \/ k = n + 1  BY <1>1
  <2>4. \A k \in 1..n : k \in 1..n + 1 /\ s[k] \in Nat  BY <1>1
  <2>5. n + 1 \in 1..n + 1  BY <1>1
  <2>6. CASE s[n + 1] <= x  BY <2>1, <2>2, <2>3, <2>4, <2>6
  <2>7. CASE x < s[n + 1]
    <3>1. \A k \in 1..n + 1 : s[k] <= s[n + 1]  BY <2>1, <2>2, <2>3, <2>4, <2>7
    <3> QED  BY <2>2, <2>5, <3>1
  <2> QED  BY <2>2, <2>6, <2>7
<1> HIDE DEF T
<1>5. \A n \in 0..N : n \in T  BY <1>1, <1>3, <1>4, InductionTo
<1>6. PICK x \in Nat : /\ x = 0 \/ \E k \in 1..N : x = s[k]
                      /\ \A k \in 1..N : s[k] <= x
  <2>1. N \in T  BY <1>1, <1>5
  <2> QED  BY <2>1 DEF T
<1>7. x \in S /\ \A y \in S : x >= y  BY <1>1, <1>2, <1>6
<1>8. Max(S) \in S /\ \A y \in S : Max(S) >= y  BY <1>7 DEF Max
<1>9. Max(S) \in Nat /\ \A k \in 1..N : s[k] <= Max(S)  BY <1>1, <1>2, <1>8
<1> QED  BY <1>9 DEF S, N

\* Indices are all the multi-indices.
LEMMA IndicesAre ==
  ASSUME NEW shape \in Seq(Nat), NEW i
  PROVE  i \in Indices(shape) <=> /\ i \in [1..Len(shape) -> Nat]
                                  /\ \A k \in 1..Len(shape) : i[k] < shape[k]
<1> DEFINE m == Max({0} \cup Range(shape))
<1>1. /\ m \in Nat /\ \A k \in 1..Len(shape) : shape[k] <= m
      /\ \A k \in 1..Len(shape) : shape[k] \in Nat
      /\ DOMAIN shape = 1..Len(shape)
  <2>1. m \in Nat /\ \A k \in 1..Len(shape) : shape[k] <= m  BY LargestExists
  <2>2. DOMAIN shape = 1..Len(shape) /\ \A k \in 1..Len(shape) : shape[k] \in Nat  OBVIOUS
  <2> HIDE DEF m
  <2> QED  BY <2>1, <2>2
<1>2. Indices(shape) = {j \in [1..Len(shape) -> 0..m] : \A k \in 1..Len(shape) : j[k] < shape[k]}
  BY <1>1 DEF Indices
<1> HIDE DEF m
<1>3. ASSUME i \in [1..Len(shape) -> Nat], \A k \in 1..Len(shape) : i[k] < shape[k]
      PROVE  i \in [1..Len(shape) -> 0..m]
  <2>1. \A k \in 1..Len(shape) : i[k] \in 0..m  BY <1>1, <1>3
  <2> QED  BY <1>3, <2>1
<1>4. 0..m \subseteq Nat  BY <1>1
<1> QED  BY <1>2, <1>3, <1>4

\* Indices count from zero, and are sequences.
LEMMA IndexTypes ==
  ASSUME NEW shape \in Seq(Nat), NEW i \in Indices(shape)
  PROVE  /\ i \in Seq(Nat) /\ Len(i) = Len(shape) /\ DOMAIN i = 1..Len(shape)
         /\ \A k \in 1..Len(shape) : i[k] \in Nat /\ i[k] < shape[k] /\ shape[k] \in Nat
<1>1. i \in [1..Len(shape) -> Nat] /\ \A k \in 1..Len(shape) : i[k] < shape[k]  BY IndicesAre
<1>2. Len(shape) \in Nat /\ \A k \in 1..Len(shape) : shape[k] \in Nat  OBVIOUS
<1>3. i \in Seq(Nat) /\ Len(i) = Len(shape)  BY <1>1, <1>2, IsASeq, LenProperties
<1> QED  BY <1>1, <1>2, <1>3

\* A shape with an empty axis has no multi-indices.
LEMMA NoIndices ==
  ASSUME NEW shape \in Seq(Nat), Product(shape) = 0
  PROVE  Indices(shape) = {}
<1>1. PICK k \in 1..Len(shape) : shape[k] = 0  BY ProductPositive
<1>2. ASSUME NEW i \in Indices(shape)  PROVE FALSE
  <2>1. i[k] \in Nat /\ i[k] < shape[k]  BY IndexTypes
  <2> QED  BY <1>1, <2>1
<1> QED  BY <1>2

\* An inner product is a sum of numbers.
LEMMA DotTypes ==
  ASSUME NEW i \in Seq(Nat), NEW strides \in Seq(Int), Len(i) = Len(strides)
  PROVE  LET t == [k \in DOMAIN strides |-> i[k] * strides[k]] IN
         /\ t \in Seq(Int) /\ Len(t) = Len(strides) /\ Dot(i, strides) = Total(t)
         /\ \A k \in 1..Len(strides) : t[k] = i[k] * strides[k]
         /\ Dot(i, strides) \in Int
<1> DEFINE t == [k \in DOMAIN strides |-> i[k] * strides[k]]
<1>1. \A k \in 1..Len(strides) : i[k] * strides[k] \in Int
  <2>1. \A x, y \in Int : x * y \in Int  OBVIOUS
  <2> QED  BY <2>1
<1>2. t \in Seq(Int) /\ Len(t) = Len(strides)  BY <1>1
<1>3. \A k \in 1..Len(strides) : t[k] = i[k] * strides[k]  OBVIOUS
<1>4. Dot(i, strides) = Total(t)  BY DEF Dot
<1>5. Total(t) \in Int  BY <1>2, SumsDef
<1> QED  BY <1>2, <1>3, <1>4, <1>5

-----------------------------------------------------------------------------
(* The memory a layout reaches.                                            *)

\* The first axes of an index lead to where the block of the other axes begins.
LEMMA PrefixBound ==
  ASSUME NEW shape \in Seq(Nat), NEW t \in Seq(Int), Len(t) <= Len(shape),
         NEW x, \A k \in 1..Len(t) : x[k] \in 0..shape[k] - 1 /\ t[k] = x[k] * Weight(shape, k)
  PROVE  /\ \A k \in 0..Len(t) : 0 <= Sums(t)[k] /\ Sums(t)[k] + Weight(shape, k) <= Product(shape)
         /\ (\A k \in 1..Len(t) : x[k] = shape[k] - 1) =>
              \A k \in 0..Len(t) : Sums(t)[k] + Weight(shape, k) = Product(shape)
<1> DEFINE N == Len(shape)
           M == Len(t)
           a == Sums(t)
           P == Product(shape)
           last == \A k \in 1..M : x[k] = shape[k] - 1
           W == [k \in 0..N |-> Weight(shape, k)]
           T == {k \in 0..M : /\ 0 <= a[k] /\ a[k] + W[k] <= P
                              /\ last => a[k] + W[k] = P}
<1>1. N \in Nat /\ M \in 0..N /\ \A k \in 1..N : shape[k] \in Nat  OBVIOUS
<1>2. /\ W \in [0..N -> Nat] /\ W[0] = P /\ P \in Nat
      /\ \A k \in 1..N : W[k - 1] = shape[k] * W[k]
  <2>1. \A k \in 0..N : Weight(shape, k) \in Nat  BY Weights
  <2>2. \A k \in 1..N : k \in 0..N /\ k - 1 \in 0..N  BY <1>1
  <2>3. \A k \in 1..N : Weight(shape, k - 1) = shape[k] * Weight(shape, k)  BY Weights
  <2>4. Weight(shape, 0) = P /\ 0 \in 0..N  BY <1>1, Weights
  <2>5. P \in Nat  BY <2>1, <2>4
  <2> QED  BY <2>1, <2>2, <2>3, <2>4, <2>5
<1>3. a \in [0..M -> Int] /\ a[0] = 0 /\ \A k \in 1..M : a[k] = a[k - 1] + t[k]  BY SumsDef
<1>4. \A k \in 1..M : x[k] \in 0..shape[k] - 1 /\ t[k] = x[k] * W[k]
  BY <1>1
<1>5. \A k \in 0..M : W[k] = Weight(shape, k)  BY <1>1
<1> HIDE DEF N, M, a, P, W
<1>6. 0 \in T  BY <1>1, <1>2, <1>3
<1>7. ASSUME NEW k \in 0..M - 1, k \in T  PROVE k + 1 \in T
  <2>1. k + 1 \in 1..M /\ k + 1 \in 1..N /\ k \in 0..M /\ k + 1 \in 0..M /\ (k + 1) - 1 = k /\ k \in 0..N /\ k + 1 \in 0..N
    BY <1>1
  <2> DEFINE w == W[k + 1]
             y == x[k + 1]
             n == shape[k + 1]
  <2>2. a[k + 1] = a[k] + y * w /\ W[k] = n * w  BY <1>2, <1>3, <1>4, <2>1
  <2>3. w \in Nat /\ n \in Nat /\ y \in 0..n - 1 /\ a[k] \in Int /\ (last => y = n - 1)
    BY <1>1, <1>2, <1>3, <1>4, <2>1
  <2>4. 0 <= a[k] /\ a[k] + n * w <= P /\ (last => a[k] + n * w = P)  BY <1>7, <2>2
  <2> HIDE DEF w, y, n
  <2>5. 0 <= y * w /\ y * w + w <= n * w /\ (last => y * w + w = n * w) /\ y * w \in Int /\ n * w \in Int
    <3>1. y * w \in Nat /\ n * w \in Nat /\ (n - 1 - y) * w \in Nat
      <4>1. y \in Nat /\ n - 1 - y \in Nat  BY <2>3
      <4>2. \A u, v \in Nat : u * v \in Nat  OBVIOUS
      <4> QED  BY <2>3, <4>1, <4>2
    <3>2. n * w = y * w + w + (n - 1 - y) * w  BY <2>3
    <3>3. last => (n - 1 - y) * w = 0  BY <2>3
    <3> QED  BY <2>3, <3>1, <3>2, <3>3
  <2>6. 0 <= a[k + 1] /\ a[k + 1] + w <= P /\ (last => a[k + 1] + w = P)
    <3> DEFINE u == y * w
               v == n * w
    <3>1. a[k + 1] = a[k] + u /\ a[k] + v <= P /\ (last => a[k] + v = P)  BY <2>2, <2>4
    <3>2. 0 <= u /\ u + w <= v /\ (last => u + w = v) /\ u \in Int /\ v \in Int  BY <2>5
    <3> HIDE DEF u, v, last
    <3>3. 0 <= a[k + 1] /\ a[k + 1] + w <= P  BY <1>2, <2>3, <2>4, <3>1, <3>2
    <3>4. ASSUME last  PROVE a[k + 1] + w = P
      <4>1. a[k] + v = P /\ u + w = v  BY <3>1, <3>2, <3>4
      <4>2. a[k + 1] = a[k] + u /\ a[k] \in Int /\ u \in Int /\ w \in Int  BY <2>3, <3>1, <3>2
      <4> QED  BY <4>1, <4>2
    <3> QED  BY <3>3, <3>4
  <2> QED  BY <2>1, <2>6 DEF w
<1> HIDE DEF T
<1>8. \A k \in 0..M : k \in T
  <2>1. M \in Nat  BY <1>1
  <2> QED  BY <1>6, <1>7, <2>1, InductionTo
<1> QED  BY <1>5, <1>8 DEF T, M, a, P

\* The terms of an element's address in it.
LEMMA DotInOrder ==
  ASSUME NEW shape \in Seq(Nat), NEW i \in Indices(shape)
  PROVE  LET t == [k \in DOMAIN CStrides(shape) |-> i[k] * CStrides(shape)[k]] IN
         /\ t \in Seq(Int) /\ Len(t) = Len(shape)
         /\ \A k \in 1..Len(shape) : t[k] = i[k] * Weight(shape, k) /\ i[k] \in 0..shape[k] - 1
         /\ Dot(i, CStrides(shape)) = Sums(t)[Len(shape)]
<1> DEFINE c == CStrides(shape)
           t == [k \in DOMAIN c |-> i[k] * c[k]]
<1>1. c \in Seq(Int) /\ Len(c) = Len(shape) /\ \A k \in 1..Len(shape) : c[k] = Weight(shape, k)  BY Weights
<1>2. i \in Seq(Nat) /\ Len(i) = Len(shape) /\ \A k \in 1..Len(shape) : i[k] \in 0..shape[k] - 1
  BY IndexTypes
<1> HIDE DEF c
<1>3. t \in Seq(Int) /\ Len(t) = Len(c) /\ Dot(i, c) = Total(t) /\ \A k \in 1..Len(c) : t[k] = i[k] * c[k]
  BY <1>1, <1>2, DotTypes
<1> HIDE DEF t
<1> QED  BY <1>1, <1>2, <1>3 DEF t, c, Total

\* A multi-index has a place in C order, and the last one has the last.
LEMMA DotInBlock ==
  ASSUME NEW shape \in Seq(Nat), NEW i \in Indices(shape)
  PROVE  /\ Dot(i, CStrides(shape)) \in 0..Product(shape) - 1
         /\ (\A k \in 1..Len(shape) : i[k] = shape[k] - 1) => Dot(i, CStrides(shape)) = Product(shape) - 1
<1> DEFINE t == [k \in DOMAIN CStrides(shape) |-> i[k] * CStrides(shape)[k]]
           N == Len(shape)
<1>1. /\ t \in Seq(Int) /\ Len(t) = N
      /\ \A k \in 1..N : t[k] = i[k] * Weight(shape, k) /\ i[k] \in 0..shape[k] - 1
      /\ Dot(i, CStrides(shape)) = Sums(t)[N]
  BY DotInOrder
<1> HIDE DEF t
<1>2. N \in Nat /\ N \in 0..N /\ Weight(shape, N) = 1 /\ Product(shape) \in Nat  BY Weights, ProductsDef
<1>3. Sums(t)[N] \in Int  BY <1>1, <1>2, SumsDef
<1>9. t \in Seq(Int) /\ Len(t) <= Len(shape)
      /\ \A k \in 1..Len(t) : i[k] \in 0..shape[k] - 1 /\ t[k] = i[k] * Weight(shape, k)
  BY <1>1, <1>2
<1>4. 0 <= Sums(t)[N] /\ Sums(t)[N] + 1 <= Product(shape)
  <2>1. \A k \in 0..Len(t) : 0 <= Sums(t)[k] /\ Sums(t)[k] + Weight(shape, k) <= Product(shape)
    BY <1>9, PrefixBound
  <2> QED  BY <1>1, <1>2, <2>1
<1>5. ASSUME \A k \in 1..N : i[k] = shape[k] - 1  PROVE Sums(t)[N] + 1 = Product(shape)
  <2>1. \A k \in 0..Len(t) : Sums(t)[k] + Weight(shape, k) = Product(shape)
    <3>1. \A k \in 1..Len(t) : i[k] = shape[k] - 1  BY <1>1, <1>5
    <3> QED  BY <1>9, <3>1, PrefixBound
  <2> QED  BY <1>1, <1>2, <2>1
<1> QED  BY <1>1, <1>2, <1>3, <1>4, <1>5

\* The strides of a shape without empty axes.
LEMMA PositiveWeights ==
  ASSUME NEW shape \in Seq(Nat), Product(shape) # 0
  PROVE  /\ \A k \in 0..Len(shape) : Weight(shape, k) \in Nat \ {0}
         /\ \A k \in 1..Len(shape) : shape[k] \in Nat \ {0}
<1> DEFINE N == Len(shape)
           T == {k \in 0..N : Weight(shape, k) # 0}
<1>1. \A k \in 1..N : shape[k] \in Nat \ {0}
  <2>1. \A k \in 1..N : shape[k] # 0  BY ProductPositive
  <2> QED  BY <2>1
<1>2. /\ Weight(shape, 0) = Product(shape)
      /\ \A k \in 0..N : Weight(shape, k) \in Nat
      /\ \A k \in 1..N : Weight(shape, k - 1) = shape[k] * Weight(shape, k)
  BY Weights
<1>3. 0 \in T
  <2>1. 0 \in 0..N  OBVIOUS
  <2> QED  BY <1>2, <2>1
<1>4. ASSUME NEW k \in 0..N - 1, k \in T  PROVE k + 1 \in T
  <2>1. k + 1 \in 1..N /\ (k + 1) - 1 = k /\ k + 1 \in 0..N  OBVIOUS
  <2>2. Weight(shape, k) = shape[k + 1] * Weight(shape, k + 1)  BY <1>2, <2>1
  <2>3. \A x \in Nat : x * 0 = 0  OBVIOUS
  <2>4. shape[k + 1] \in Nat  BY <2>1
  <2>5. Weight(shape, k) # 0  BY <1>4
  <2> HIDE DEF N, T
  <2>6. Weight(shape, k + 1) # 0  BY <2>2, <2>3, <2>4, <2>5
  <2> QED  BY <2>1, <2>6 DEF T
<1>5. N \in Nat  OBVIOUS
<1> HIDE DEF T, N
<1>6. \A k \in 0..N : k \in T  BY <1>3, <1>4, <1>5, InductionTo
<1>7. \A k \in 0..N : Weight(shape, k) \in Nat \ {0}  BY <1>2, <1>6 DEF T
<1> QED  BY <1>1, <1>7 DEF N

\* The k-th multi-index is one, and it is k places from the first in C order.
LEMMA UnravelPlace ==
  ASSUME NEW shape \in Seq(Nat), NEW k \in 0..Product(shape) - 1
  PROVE  /\ Unravel(shape, k) \in Indices(shape)
         /\ Dot(Unravel(shape, k), CStrides(shape)) = k
<1> DEFINE N == Len(shape)
           W(j) == Weight(shape, j)
           i == Unravel(shape, k)
           g == [j \in 0..N |-> (k \div W(j)) * W(j)]
           t == [j \in DOMAIN CStrides(shape) |-> i[j] * CStrides(shape)[j]]
<1>1. Product(shape) \in Nat /\ k \in Nat /\ Product(shape) # 0 /\ k < Product(shape) /\ N \in Nat
  <2>1. Product(shape) \in Nat  BY ProductsDef
  <2> QED  BY <2>1
<1>2. /\ W(0) = Product(shape) /\ W(N) = 1
      /\ \A j \in 1..N : W(j - 1) = shape[j] * W(j) /\ CStrides(shape)[j] = W(j)
  BY Weights
<1>3. (\A j \in 0..N : W(j) \in Nat \ {0}) /\ \A j \in 1..N : shape[j] \in Nat \ {0}
  BY <1>1, PositiveWeights
<1>4. \A j \in 1..N : i[j] = (k \div W(j)) % shape[j]  BY <1>2 DEF Unravel
<1>5. i = [j \in 1..N |-> i[j]]  BY DEF Unravel
<1> HIDE DEF W, N, i
<1>6. ASSUME NEW j \in 1..N
      PROVE  /\ k \div W(j) \in Int /\ k \div W(j - 1) \in Int /\ i[j] \in 0..shape[j] - 1
             /\ k \div W(j) = (k \div W(j - 1)) * shape[j] + i[j]
  <2>1. j \in 0..N /\ j - 1 \in 0..N  BY <1>1
  <2>2. W(j) \in Nat \ {0} /\ W(j - 1) \in Nat \ {0} /\ shape[j] \in Nat \ {0} /\ W(j - 1) = shape[j] * W(j)
    BY <1>2, <1>3, <2>1
  <2> DEFINE w == W(j)
             v == W(j - 1)
             m == shape[j]
  <2>3. i[j] = (k \div w) % m  BY <1>4
  <2>4. w \in Nat \ {0} /\ v \in Nat \ {0} /\ m \in Nat \ {0} /\ v = m * w  BY <2>2
  <2> HIDE DEF w, v, m
  <2>5. /\ k \div w \in Int /\ k \div v \in Int /\ (k \div w) % m \in 0..m - 1
        /\ k \div w = (k \div v) * m + ((k \div w) % m)
    <3>1. k \in Nat  BY <1>1
    <3>2. v = m * w  BY <2>4
    <3>3. w \in Nat \ {0} /\ v \in Nat \ {0} /\ m \in Nat \ {0}  BY <2>4
    <3> QED  BY <3>1, <3>2, <3>3, NestedDivision, Zenon
  <2> DEFINE q == k \div w
             p == k \div v
             r == q % m
  <2>6. q \in Int /\ p \in Int /\ r \in 0..m - 1 /\ q = p * m + r /\ i[j] = r  BY <2>3, <2>5
  <2> HIDE DEF q, p, r
  <2>7. q \in Int /\ p \in Int /\ i[j] \in 0..m - 1 /\ q = p * m + i[j]  BY <2>6
  <2> QED  BY <2>7 DEF w, v, m, q, p
<1>7. i \in Indices(shape)
  <2>1. ASSUME NEW j \in 1..N  PROVE i[j] \in Nat /\ i[j] < shape[j]
    <3>1. i[j] \in 0..shape[j] - 1  BY <1>6
    <3>2. shape[j] \in Nat  BY <1>3
    <3> QED  BY <3>1, <3>2
  <2>2. i \in [1..N -> Nat]  BY <1>5, <2>1
  <2> QED  BY <2>1, <2>2, IndicesAre DEF N
<1>8. g[0] = 0
  <2> DEFINE p == W(0)
  <2>1. p \in Nat \ {0} /\ k = 0 * p + k /\ k \in 0..p - 1 /\ k \in Int /\ 0 \in Int  BY <1>1, <1>2
  <2> HIDE DEF p
  <2>4. \A x \in Int, r \in 0..p - 1 : k = x * p + r => (x = k \div p /\ r = k % p)  BY <2>1, DivMod
  <2>2. 0 = k \div p  BY <2>1, <2>4
  <2>3. 0 * p = 0 /\ 0 \in 0..N  BY <1>1, <2>1
  <2> QED  BY <2>2, <2>3 DEF p
<1>9. g[N] = k
  <2>1. k = k * 1 + 0 /\ k \in Int /\ 0 \in 0..1 - 1 /\ 1 \in Nat \ {0}  BY <1>1
  <2>2. k = k \div 1  BY <2>1, DivMod
  <2>3. k * 1 = k /\ N \in 0..N  BY <1>1
  <2> QED  BY <1>2, <2>2, <2>3
<1>10. ASSUME NEW j \in 1..N  PROVE g[j] = g[j - 1] + i[j] * W(j)
  <2> DEFINE a == k \div W(j)
             b == k \div W(j - 1)
             w == W(j)
             m == shape[j]
             x == i[j]
  <2>1. j \in 0..N /\ j - 1 \in 0..N  BY <1>1
  <2>2. g[j] = a * w /\ g[j - 1] = b * W(j - 1)  BY <2>1
  <2>3. W(j - 1) = m * w  BY <1>2
  <2>4. a \in Int /\ b \in Int /\ x \in Int /\ a = b * m + x  BY <1>3, <1>6
  <2>5. w \in Int /\ m \in Int  BY <1>3, <2>1
  <2> HIDE DEF a, b, w, m, x, g
  <2>6. (b * m + x) * w = b * (m * w) + x * w  BY <2>4, <2>5
  <2>7. g[j] = g[j - 1] + x * w  BY <2>2, <2>3, <2>4, <2>6
  <2> QED  BY <2>7 DEF x, w
<1>11. /\ t \in Seq(Int) /\ Len(t) = N /\ Dot(i, CStrides(shape)) = Total(t)
       /\ \A j \in 1..N : t[j] = i[j] * CStrides(shape)[j]
  <2>1. i \in Seq(Nat) /\ Len(i) = N  BY <1>7, IndexTypes DEF N
  <2>2. CStrides(shape) \in Seq(Int) /\ Len(CStrides(shape)) = N  BY Weights DEF N
  <2> QED  BY <2>1, <2>2, DotTypes
<1> HIDE DEF t, g
<1>12. \A j \in 1..Len(t) : g[j] = g[j - 1] + t[j]  BY <1>2, <1>10, <1>11
<1>13. Total(t) = g[Len(t)]  BY <1>8, <1>11, <1>12, SumsAre
<1> QED  BY <1>7, <1>9, <1>11, <1>13 DEF i

\* The rest of a sum over a multi-index is less than the stride before it.
LEMMA TailBound ==
  ASSUME NEW shape \in Seq(Nat), NEW i \in Indices(shape), Product(shape) # 0
  PROVE  LET t == [k \in DOMAIN CStrides(shape) |-> i[k] * CStrides(shape)[k]] IN
         \A j \in 0..Len(shape) : Total(t) - Sums(t)[j] \in 0..Weight(shape, j) - 1
<1> DEFINE t == [k \in DOMAIN CStrides(shape) |-> i[k] * CStrides(shape)[k]]
           N == Len(shape)
           W(j) == Weight(shape, j)
           S(j) == Sums(t)[j]
           T == {d \in 0..N : Total(t) - S(N - d) \in 0..W(N - d) - 1}
<1>1. /\ t \in Seq(Int) /\ Len(t) = N /\ N \in Nat
      /\ \A k \in 1..N : t[k] = i[k] * W(k) /\ i[k] \in 0..shape[k] - 1
  <2>1. N \in Nat  OBVIOUS
  <2>2. /\ t \in Seq(Int) /\ Len(t) = N
        /\ \A k \in 1..N : t[k] = i[k] * W(k) /\ i[k] \in 0..shape[k] - 1
    BY DotInOrder
  <2> HIDE DEF t, N, W
  <2> QED  BY <2>1, <2>2
<1>2. /\ W(N) = 1 /\ \A k \in 1..N : W(k - 1) = shape[k] * W(k)
  BY Weights
<1>3. (\A k \in 0..N : W(k) \in Nat \ {0}) /\ \A k \in 1..N : shape[k] \in Nat \ {0}  BY PositiveWeights
<1> HIDE DEF t
<1>4. /\ \A k \in 0..N : S(k) \in Int
      /\ \A k \in 1..N : S(k) = S(k - 1) + t[k]
      /\ Total(t) = S(N)
  <2>1. /\ Sums(t) \in [0..Len(t) -> Int] /\ \A k \in 1..Len(t) : Sums(t)[k] = Sums(t)[k - 1] + t[k]
    BY <1>1, SumsDef
  <2> QED  BY <1>1, <2>1 DEF Total
<1> HIDE DEF N, W, S
<1>5. 0 \in T
  <2>1. N - 0 = N /\ 0 \in 0..N /\ N \in 0..N  BY <1>1
  <2>2. S(N) - S(N) = 0 /\ 0 \in 0..1 - 1  BY <1>4, <2>1
  <2> QED  BY <1>2, <1>4, <2>1, <2>2
<1>6. ASSUME NEW d \in 0..N - 1, d \in T  PROVE d + 1 \in T
  <2> DEFINE j == N - d
             w == W(j)
             m == shape[j]
             x == i[j]
  <2>1. j \in 1..N /\ j \in 0..N /\ j - 1 \in 0..N /\ N - (d + 1) = j - 1 /\ d + 1 \in 0..N  BY <1>1
  <2>2. Total(t) - S(j) \in 0..w - 1  BY <1>6
  <2> HIDE DEF j
  <2>3. S(j) = S(j - 1) + x * w /\ x \in 0..m - 1 /\ W(j - 1) = m * w  BY <1>1, <1>2, <1>4, <2>1
  <2>8. N \in 0..N  BY <1>1
  <2>4. S(j) \in Int /\ S(j - 1) \in Int /\ w \in Nat \ {0} /\ m \in Nat \ {0} /\ Total(t) \in Int
    BY <1>3, <1>4, <2>1, <2>8
  <2> HIDE DEF w, m, x, T
  <2> DEFINE y == x * w
             z == m * w
             r == Total(t) - S(j)
             s == Total(t) - S(j - 1)
  <2>5. 0 <= y /\ y + w <= z /\ y \in Int /\ z \in Int
    <3>1. x \in Nat /\ (m - 1) - x \in Nat  BY <2>3, <2>4
    <3>2. \A a, b \in Nat : a * b \in Nat  OBVIOUS
    <3>3. x * w \in Nat /\ ((m - 1) - x) * w \in Nat  BY <2>4, <3>1, <3>2
    <3>4. ((m - 1) - x) * w = m * w - w - x * w  BY <2>4, <3>1
    <3>5. m * w \in Int  BY <2>4
    <3> QED  BY <2>4, <3>3, <3>4, <3>5
  <2>6. s = r + y /\ r \in 0..w - 1  BY <2>2, <2>3, <2>4, <2>5
  <2> HIDE DEF y, z, r, s
  <2>7. s \in 0..z - 1  BY <2>4, <2>5, <2>6
  <2> QED  BY <2>1, <2>3, <2>7 DEF s, z, T
<1> HIDE DEF T
<1>7. \A d \in 0..N : d \in T  BY <1>1, <1>5, <1>6, InductionTo
<1>8. ASSUME NEW j \in 0..N  PROVE Total(t) - S(j) \in 0..W(j) - 1
  <2>1. N - j \in 0..N /\ N - (N - j) = j  BY <1>1
  <2>2. N - j \in T  BY <1>7, <2>1
  <2> QED  BY <2>1, <2>2 DEF T
<1> QED  BY <1>8 DEF t, N, W, S

\* The sums over the leading axes count whole blocks.
LEMMA WholeBlocks ==
  ASSUME NEW shape \in Seq(Nat), NEW i \in Indices(shape), Product(shape) # 0
  PROVE  LET t == [k \in DOMAIN CStrides(shape) |-> i[k] * CStrides(shape)[k]] IN
         \A j \in 0..Len(shape) : \E q \in Int : /\ Sums(t)[j] = q * Weight(shape, j)
                                                 /\ j # 0 => i[j] = q % shape[j]
<1> DEFINE t == [k \in DOMAIN CStrides(shape) |-> i[k] * CStrides(shape)[k]]
           N == Len(shape)
           W(j) == Weight(shape, j)
           S(j) == Sums(t)[j]
           T == {j \in 0..N : \E q \in Int : S(j) = q * W(j) /\ (j # 0 => i[j] = q % shape[j])}
<1>1. /\ t \in Seq(Int) /\ Len(t) = N /\ N \in Nat
      /\ \A k \in 1..N : t[k] = i[k] * W(k) /\ i[k] \in 0..shape[k] - 1
  <2>1. N \in Nat  OBVIOUS
  <2>2. /\ t \in Seq(Int) /\ Len(t) = N
        /\ \A k \in 1..N : t[k] = i[k] * W(k) /\ i[k] \in 0..shape[k] - 1
    BY DotInOrder
  <2> HIDE DEF t, N, W
  <2> QED  BY <2>1, <2>2
<1>2. \A k \in 1..N : W(k - 1) = shape[k] * W(k)  BY Weights
<1>3. (\A k \in 0..N : W(k) \in Nat \ {0}) /\ \A k \in 1..N : shape[k] \in Nat \ {0}  BY PositiveWeights
<1> HIDE DEF t
<1>4. S(0) = 0 /\ \A k \in 1..N : S(k) = S(k - 1) + t[k]
  <2>1. Sums(t)[0] = 0 /\ \A k \in 1..Len(t) : Sums(t)[k] = Sums(t)[k - 1] + t[k]  BY <1>1, SumsDef
  <2> QED  BY <1>1, <2>1
<1> HIDE DEF N, W, S
<1>5. 0 \in T
  <2>1. 0 \in 0..N /\ 0 \in Int  BY <1>1
  <2>2. \A x \in Int : 0 * x = 0  OBVIOUS
  <2>3. S(0) = 0 * W(0)  BY <1>3, <1>4, <2>1, <2>2
  <2> QED  BY <2>1, <2>3
<1>6. ASSUME NEW k \in 0..N - 1, k \in T  PROVE k + 1 \in T
  <2> DEFINE j == k + 1
             w == W(j)
             m == shape[j]
             x == i[j]
  <2>1. j \in 1..N /\ j \in 0..N /\ j - 1 = k /\ k \in 0..N /\ j # 0  BY <1>1
  <2>2. PICK p \in Int : S(k) = p * W(k)  BY <1>6
  <2> HIDE DEF j
  <2>3. S(j) = S(k) + x * w /\ x \in 0..m - 1 /\ W(k) = m * w  BY <1>1, <1>2, <1>4, <2>1
  <2>4. w \in Nat \ {0} /\ m \in Nat \ {0}  BY <1>3, <2>1
  <2> HIDE DEF w, m, x, T
  <2> DEFINE q == p * m + x
  <2>5. q \in Int /\ x \in Int  BY <2>2, <2>3, <2>4
  <2>6. q * w = p * (m * w) + x * w  BY <2>2, <2>4, <2>5
  <2>7. S(j) = q * w  BY <2>2, <2>3, <2>6
  <2>8. q = p * m + x  OBVIOUS
  <2> HIDE DEF q
  <2>9. x = q % m  BY <2>2, <2>3, <2>4, <2>5, <2>8, DivMod
  <2> QED  BY <2>1, <2>5, <2>7, <2>9 DEF T, w, m, x, j
<1> HIDE DEF T
<1>7. \A j \in 0..N : j \in T  BY <1>1, <1>5, <1>6, InductionTo
<1>8. \A j \in 0..N : \E q \in Int : S(j) = q * W(j) /\ (j # 0 => i[j] = q % shape[j])
  BY <1>7 DEF T
<1> QED  BY <1>8 DEF t, N, W, S

\* A multi-index is the one at its own place in C order, and at no other.
THEOREM PlaceUnraveled ==
  ASSUME NEW shape \in Seq(Nat), NEW i \in Indices(shape)
  PROVE  /\ Dot(i, CStrides(shape)) \in 0..Product(shape) - 1
         /\ Unravel(shape, Dot(i, CStrides(shape))) = i
         /\ \A k \in 0..Product(shape) - 1 : Unravel(shape, k) = i => k = Dot(i, CStrides(shape))
<1> DEFINE t == [k \in DOMAIN CStrides(shape) |-> i[k] * CStrides(shape)[k]]
           N == Len(shape)
           W(j) == Weight(shape, j)
           D == Dot(i, CStrides(shape))
<1>1. D \in 0..Product(shape) - 1  BY DotInBlock
<1>2. Product(shape) # 0 /\ D \in Int
  <2>1. Product(shape) \in Nat  BY ProductsDef
  <2> QED  BY <1>1, <2>1
<1>3. D = Sums(t)[N] /\ t \in Seq(Int) /\ Len(t) = N  BY DotInOrder
<1>4. \A j \in 0..N : Total(t) - Sums(t)[j] \in 0..W(j) - 1  BY <1>2, TailBound
<1>5. \A j \in 0..N : \E q \in Int : Sums(t)[j] = q * W(j) /\ (j # 0 => i[j] = q % shape[j])
  BY <1>2, WholeBlocks
<1>6. (\A k \in 0..N : W(k) \in Nat \ {0}) /\ \A k \in 1..N : CStrides(shape)[k] = W(k)
  BY <1>2, PositiveWeights, Weights
<1>7. \A j \in 0..N : Sums(t)[j] \in Int  BY <1>3, SumsDef
<1>8. i = [j \in 1..N |-> i[j]] /\ N \in Nat  BY IndexTypes
<1>9. Unravel(shape, D) = [j \in 1..N |-> (D \div CStrides(shape)[j]) % shape[j]]
  <2> HIDE DEF D
  <2> QED  BY DEF Unravel
<1>10. D = Total(t)  BY <1>3 DEF Total
<1> HIDE DEF t, W, D, N
<1>11. ASSUME NEW j \in 1..N  PROVE (D \div CStrides(shape)[j]) % shape[j] = i[j]
  <2>1. j \in 0..N /\ j # 0  BY <1>8
  <2> DEFINE w == W(j)
             r == D - Sums(t)[j]
  <2>2. PICK q \in Int : Sums(t)[j] = q * w /\ i[j] = q % shape[j]  BY <1>5, <2>1
  <2>3. r \in 0..w - 1 /\ w \in Nat \ {0} /\ Sums(t)[j] \in Int  BY <1>4, <1>6, <1>7, <1>10, <2>1
  <2> HIDE DEF w
  <2>4. D = q * w + r  BY <1>2, <2>2, <2>3
  <2> HIDE DEF r
  <2>5. q = D \div w  BY <1>2, <2>3, <2>4, DivMod
  <2>6. CStrides(shape)[j] = w  BY <1>6 DEF w
  <2> QED  BY <2>2, <2>5, <2>6
<1>12. Unravel(shape, D) = i  BY <1>8, <1>9, <1>11
<1>13. \A k \in 0..Product(shape) - 1 : Unravel(shape, k) = i => k = D
  <2>1. \A k \in 0..Product(shape) - 1 : Dot(Unravel(shape, k), CStrides(shape)) = k  BY UnravelPlace
  <2> QED  BY <2>1 DEF D
<1> QED  BY <1>1, <1>12, <1>13 DEF D


-----------------------------------------------------------------------------
(* The odometer of walk_strided.                                           *)

\* A shape with a leading axis of m.
LEMMA LeadingAxis ==
  ASSUME NEW m \in Nat, NEW rest \in Seq(Nat)
  PROVE  LET shape == <<m>> \o rest IN
         /\ shape \in Seq(Nat) /\ Len(shape) = Len(rest) + 1 /\ shape[1] = m
         /\ \A k \in 1..Len(rest) : shape[k + 1] = rest[k]
         /\ Product(shape) = m * Product(rest)
         /\ \A k \in 1..Len(shape) : Weight(shape, k) = Weight(rest, k - 1)
<1> DEFINE shape == <<m>> \o rest
           M == Len(rest)
           P == Product(rest)
           g == [k \in 0..M + 1 |-> IF k = 0 THEN m * P ELSE Weight(rest, k - 1)]
<1>1. M \in Nat /\ P \in Nat  BY ProductsDef
<1>2. shape \in Seq(Nat) /\ Len(shape) = M + 1 /\ shape[1] = m /\ \A k \in 1..M : shape[k + 1] = rest[k]
  <2>1. shape \in Seq(Nat) /\ Len(shape) = M + 1 /\ shape[1] = m  OBVIOUS
  <2>2. ASSUME NEW k \in 1..M  PROVE shape[k + 1] = rest[k]
    <3>1. Len(<<m>>) = 1 /\ k + 1 \in 1..Len(<<m>>) + Len(rest) /\ ~(k + 1 <= 1) /\ (k + 1) - 1 = k  OBVIOUS
    <3> QED  BY <3>1
  <2> QED  BY <2>1, <2>2
<1>3. /\ Weight(rest, 0) = P /\ Weight(rest, M) = 1
      /\ \A k \in 1..M : Weight(rest, k - 1) = rest[k] * Weight(rest, k)
  BY Weights
<1> HIDE DEF shape, M, P
<1>4. g[Len(shape)] = 1
  <2>1. M + 1 \in 0..M + 1 /\ M + 1 # 0 /\ (M + 1) - 1 = M  BY <1>1
  <2> QED  BY <1>2, <1>3, <2>1
<1>5. ASSUME NEW k \in 1..Len(shape)  PROVE g[k - 1] = shape[k] * g[k]
  <2>1. k \in 0..M + 1 /\ k - 1 \in 0..M + 1 /\ k # 0  BY <1>1, <1>2
  <2>2. g[k] = Weight(rest, k - 1)  BY <2>1
  <2>3. CASE k = 1
    <3>1. g[k - 1] = m * P /\ k - 1 = 0  BY <2>1, <2>3
    <3> QED  BY <1>2, <1>3, <2>2, <2>3, <3>1
  <2>4. CASE k # 1
    <3> DEFINE j == k - 1
    <3>1. j \in 1..M /\ k = j + 1 /\ k - 1 # 0  BY <1>1, <1>2, <2>4
    <3>2. g[k - 1] = Weight(rest, (k - 1) - 1)  BY <2>1, <3>1
    <3> HIDE DEF g
    <3>3. Weight(rest, j - 1) = rest[j] * Weight(rest, j) /\ shape[j + 1] = rest[j]  BY <1>2, <1>3, <3>1
    <3> QED  BY <2>2, <3>1, <3>2, <3>3
  <2> QED  BY <2>3, <2>4
<1> HIDE DEF g
<1>6. \A k \in 0..Len(shape) : Weight(shape, k) = g[k]  BY <1>2, <1>4, <1>5, WeightsAre
<1>7. Product(shape) = m * P
  <2>1. 0 \in 0..Len(shape) /\ 0 \in 0..M + 1  BY <1>1, <1>2
  <2>2. Weight(shape, 0) = g[0] /\ g[0] = m * P  BY <1>6, <2>1 DEF g
  <2> QED  BY <1>2, <2>2, Weights
<1>8. ASSUME NEW k \in 1..Len(shape)  PROVE Weight(shape, k) = Weight(rest, k - 1)
  <2>1. k \in 0..Len(shape) /\ k \in 0..M + 1 /\ k # 0  BY <1>1, <1>2
  <2> QED  BY <1>6, <2>1 DEF g
<1> QED  BY <1>2, <1>7, <1>8 DEF shape, M, P

\* An index of the leading axis, and the place of its row.
LEMMA LeadingIndex ==
  ASSUME NEW m \in Nat, NEW rest \in Seq(Nat), NEW i \in Indices(<<m>> \o rest)
  PROVE  /\ i[1] \in 0..m - 1 /\ Tail(i) \in Indices(rest)
         /\ Dot(i, CStrides(<<m>> \o rest)) = i[1] * Product(rest) + Dot(Tail(i), CStrides(rest))
<1> DEFINE shape == <<m>> \o rest
           M == Len(rest)
           N == Len(shape)
           j == Tail(i)
           t == [k \in DOMAIN CStrides(shape) |-> i[k] * CStrides(shape)[k]]
           u == [k \in DOMAIN CStrides(rest) |-> j[k] * CStrides(rest)[k]]
           g == [k \in 0..M + 1 |-> IF k = 0 THEN 0 ELSE i[1] * Product(rest) + Sums(u)[k - 1]]
<1>1. /\ shape \in Seq(Nat) /\ N = M + 1 /\ shape[1] = m
      /\ \A k \in 1..M : shape[k + 1] = rest[k]
      /\ \A k \in 1..N : Weight(shape, k) = Weight(rest, k - 1)
  BY LeadingAxis
<1>2. M \in Nat /\ Product(rest) \in Nat  BY ProductsDef
<1> HIDE DEF shape
<1>3. i \in Indices(shape)  BY DEF shape
<1>4. i \in Seq(Nat) /\ Len(i) = N /\ \A k \in 1..N : i[k] \in Nat /\ i[k] < shape[k]  BY <1>1, <1>3, IndexTypes
<1> HIDE DEF N, M
<1>5. i[1] \in Nat /\ i[1] \in 0..m - 1
  <2>1. 1 \in 1..N  BY <1>1, <1>2
  <2> QED  BY <1>1, <1>4, <2>1
<1>6. j \in Seq(Nat) /\ Len(j) = M /\ \A k \in 1..M : j[k] = i[k + 1]
  <2>1. i # <<>>  BY <1>1, <1>2, <1>4
  <2>2. j \in Seq(Nat) /\ Len(j) = Len(i) - 1  BY <1>4, <2>1
  <2>3. \A k \in 1..Len(i) - 1 : j[k] = i[k + 1]  BY <1>4, <2>1
  <2>4. Len(i) - 1 = M  BY <1>1, <1>2, <1>4
  <2> HIDE DEF j
  <2> QED  BY <2>2, <2>3, <2>4
<1> HIDE DEF j
<1>7. j \in Indices(rest)
  <2>1. \A k \in 1..M : j[k] < rest[k]
    <3> SUFFICES ASSUME NEW k \in 1..M  PROVE j[k] < rest[k]
      OBVIOUS
    <3>1. k + 1 \in 1..N  BY <1>1, <1>2
    <3> QED  BY <1>1, <1>4, <1>6, <3>1
  <2>2. j \in [1..M -> Nat]  BY <1>6
  <2> QED  BY <2>1, <2>2, IndicesAre DEF M
<1>8. /\ t \in Seq(Int) /\ Len(t) = N /\ Dot(i, CStrides(shape)) = Sums(t)[N]
      /\ \A k \in 1..N : t[k] = i[k] * Weight(shape, k)
  BY <1>1, <1>3, DotInOrder DEF N
<1>9. /\ u \in Seq(Int) /\ Len(u) = M /\ Dot(j, CStrides(rest)) = Sums(u)[M]
      /\ \A k \in 1..M : u[k] = j[k] * Weight(rest, k)
  BY <1>7, DotInOrder DEF M
<1> HIDE DEF t, u
<1>10. /\ Sums(u)[0] = 0 /\ \A k \in 1..M : Sums(u)[k] = Sums(u)[k - 1] + u[k]
       /\ \A k \in 0..M : Sums(u)[k] \in Int
  <2>1. /\ Sums(u) \in [0..Len(u) -> Int] /\ Sums(u)[0] = 0
        /\ \A k \in 1..Len(u) : Sums(u)[k] = Sums(u)[k - 1] + u[k]
    BY <1>9, SumsDef
  <2> QED  BY <1>9, <2>1
<1>11. Weight(rest, 0) = Product(rest)  BY Weights
<1> DEFINE x == i[1] * Product(rest)
<1>12. x \in Int  BY <1>2, <1>5
<1>13. g[0] = 0
  <2>1. 0 \in 0..M + 1  BY <1>2
  <2> QED  BY <2>1
<1>14. ASSUME NEW k \in 1..N  PROVE g[k] = g[k - 1] + t[k]
  <2>1. k \in 0..M + 1 /\ k - 1 \in 0..M + 1 /\ k # 0  BY <1>1, <1>2
  <2>2. g[k] = x + Sums(u)[k - 1]  BY <2>1
  <2>3. t[k] = i[k] * Weight(rest, k - 1)  BY <1>1, <1>8
  <2>4. CASE k = 1
    <3>1. g[k - 1] = 0 /\ k - 1 = 0  BY <2>1, <2>4
    <3>2. t[k] = x  BY <1>11, <2>3, <2>4, <3>1
    <3> HIDE DEF g, x
    <3>3. x + 0 = 0 + x  BY <1>12
    <3> QED  BY <1>10, <2>2, <3>1, <3>2, <3>3
  <2>5. CASE k # 1
    <3> DEFINE p == k - 1
    <3>1. p \in 1..M /\ p - 1 \in 0..M /\ k = p + 1 /\ k - 1 # 0  BY <1>1, <1>2, <2>5
    <3>2. g[k - 1] = x + Sums(u)[(k - 1) - 1]  BY <2>1, <3>1
    <3> HIDE DEF g, x
    <3>3. t[k] = u[p]  BY <1>6, <1>9, <2>3, <3>1
    <3>4. Sums(u)[p] = Sums(u)[p - 1] + u[p] /\ Sums(u)[p - 1] \in Int /\ u[p] \in Int  BY <1>9, <1>10, <3>1
    <3>5. g[k] = x + Sums(u)[p] /\ g[k - 1] = x + Sums(u)[p - 1]  BY <2>2, <3>2
    <3> HIDE DEF p
    <3> QED  BY <1>12, <3>3, <3>4, <3>5
  <2> QED  BY <2>4, <2>5
<1> HIDE DEF g
<1>15. Sums(t)[N] = g[N]
  <2>1. N \in 0..N  BY <1>1, <1>2
  <2>2. \A k \in 0..Len(t) : Sums(t)[k] = g[k]  BY <1>8, <1>13, <1>14, SumsAre
  <2> QED  BY <1>8, <2>1, <2>2
<1>16. g[N] = x + Sums(u)[M]
  <2>1. N \in 0..M + 1 /\ N # 0 /\ N - 1 = M  BY <1>1, <1>2
  <2> QED  BY <2>1 DEF g
<1> QED  BY <1>5, <1>7, <1>8, <1>9, <1>15, <1>16 DEF j, shape

\* The index of a row and an index into the row make an index of the array.
LEMMA LeadingRow ==
  ASSUME NEW m \in Nat, NEW rest \in Seq(Nat), NEW r \in 0..m - 1, NEW j \in Indices(rest)
  PROVE  /\ <<r>> \o j \in Indices(<<m>> \o rest)
         /\ Dot(<<r>> \o j, CStrides(<<m>> \o rest)) = r * Product(rest) + Dot(j, CStrides(rest))
<1> DEFINE shape == <<m>> \o rest
           M == Len(rest)
           i == <<r>> \o j
<1>1. /\ shape \in Seq(Nat) /\ Len(shape) = M + 1 /\ shape[1] = m /\ \A k \in 1..M : shape[k + 1] = rest[k]
  BY LeadingAxis
<1>2. j \in Seq(Nat) /\ Len(j) = M /\ \A k \in 1..M : j[k] \in Nat /\ j[k] < rest[k]  BY IndexTypes
<1>3. M \in Nat /\ r \in Nat  OBVIOUS
<1>4. i \in Seq(Nat) /\ Len(i) = M + 1 /\ i[1] = r /\ \A k \in 1..M : i[k + 1] = j[k]
  <2>1. i \in Seq(Nat) /\ Len(i) = M + 1 /\ i[1] = r  BY <1>2, <1>3
  <2>2. ASSUME NEW k \in 1..M  PROVE i[k + 1] = j[k]
    <3>1. Len(<<r>>) = 1 /\ k + 1 \in 1..Len(<<r>>) + Len(j) /\ ~(k + 1 <= 1) /\ (k + 1) - 1 = k  BY <1>2
    <3> QED  BY <1>2, <3>1
  <2> QED  BY <2>1, <2>2
<1>5. Tail(i) = j
  <2>1. Tail(<<r>> \o j) = j
    <3> HIDE DEF i, M
    <3>1. Tail(i) \in Seq(Nat) /\ Len(Tail(i)) = M /\ \A k \in 1..M : Tail(i)[k] = i[k + 1]
      <4>1. i # <<>>  BY <1>3, <1>4
      <4>2. Tail(i) \in Seq(Nat) /\ Len(Tail(i)) = Len(i) - 1 /\ \A k \in 1..Len(i) - 1 : Tail(i)[k] = i[k + 1]
        BY <1>4, <4>1
      <4>3. Len(i) - 1 = M  BY <1>3, <1>4
      <4> QED  BY <4>2, <4>3
    <3> DEFINE y == Tail(i)
    <3>2. y \in Seq(Nat) /\ Len(y) = M /\ \A k \in 1..M : y[k] = j[k]  BY <1>4, <3>1
    <3> HIDE DEF y
    <3>3. y = j  BY <1>2, <3>2
    <3> QED  BY <3>3 DEF y, i
  <2> QED  BY <2>1
<1> HIDE DEF i, shape, M
<1>6. i \in Indices(shape)
  <2>1. ASSUME NEW k \in 1..M + 1  PROVE i[k] < shape[k]
    <3>1. CASE k = 1  BY <1>1, <1>3, <1>4, <3>1
    <3>2. CASE k # 1
      <4>1. k - 1 \in 1..M /\ (k - 1) + 1 = k  BY <1>3, <3>2
      <4> QED  BY <1>1, <1>2, <1>4, <4>1
    <3> QED  BY <3>1, <3>2
  <2>2. i \in [1..M + 1 -> Nat]  BY <1>3, <1>4
  <2> QED  BY <1>1, <2>1, <2>2, IndicesAre
<1>7. Dot(i, CStrides(shape)) = i[1] * Product(rest) + Dot(Tail(i), CStrides(rest))
  BY <1>6, LeadingIndex DEF shape
<1> QED  BY <1>4, <1>5, <1>6, <1>7 DEF i, shape

\* The multi-index that moves one position along axis a only, or, for a = 0,
\* along none.
Along(shape, a) == [k \in 1..Len(shape) |-> IF k = a THEN 1 ELSE 0]

\* It is a multi-index unless the axis has only one position; its address is one
\* stride away.
LEMMA AlongIs ==
  ASSUME NEW shape \in Seq(Nat), \A k \in 1..Len(shape) : shape[k] # 0, NEW a \in 0..Len(shape),
         a # 0 => shape[a] # 1, NEW s \in Seq(Int), Len(s) = Len(shape)
  PROVE  Along(shape, a) \in Indices(shape) /\ Dot(Along(shape, a), s) = IF a = 0 THEN 0 ELSE s[a]
<1> DEFINE u == Along(shape, a)
           N == Len(shape)
           t == [k \in DOMAIN s |-> u[k] * s[k]]
<1>1. N \in Nat /\ (\A k \in 1..N : shape[k] \in Nat /\ s[k] \in Int) /\ DOMAIN s = 1..N  OBVIOUS
<1>2. u \in [1..N -> Nat] /\ \A k \in 1..N : u[k] = IF k = a THEN 1 ELSE 0  BY DEF Along
<1> HIDE DEF u, N
<1>3. ASSUME NEW k \in 1..N  PROVE u[k] < shape[k]
  <2>1. shape[k] \in Nat /\ shape[k] # 0  BY <1>1 DEF N
  <2>2. k = a => shape[k] # 1  BY DEF N
  <2> QED  BY <1>2, <2>1, <2>2
<1>4. u \in Indices(shape)  BY <1>2, <1>3, IndicesAre DEF N
<1>5. u \in Seq(Nat) /\ Len(u) = Len(s)  BY <1>4, IndexTypes
<1>6. /\ t \in Seq(Int) /\ Len(t) = N /\ Dot(u, s) = Total(t) /\ \A k \in 1..N : t[k] = u[k] * s[k]
  BY <1>5, DotTypes DEF N
<1> HIDE DEF t
<1>7. \A k \in 1..N : t[k] = IF k = a THEN s[k] ELSE 0  BY <1>1, <1>2, <1>6
<1>8. CASE a = 0
  <2>1. \A k \in 1..Len(t) : t[k] = 0  BY <1>6, <1>7, <1>8
  <2>2. Total(t) = 0  BY <1>6, <2>1, SumOfZeros
  <2> QED  BY <1>4, <1>6, <1>8, <2>2 DEF u
<1>9. CASE a # 0
  <2>1. a \in 1..N  BY <1>1, <1>9 DEF N
  <2>2. \A k \in 1..Len(t) : k # a => t[k] = 0  BY <1>6, <1>7
  <2>3. a \in 1..Len(t)  BY <1>6, <2>1
  <2>4. Total(t) = t[a]  BY <1>6, <2>2, <2>3, SumOfOne
  <2> QED  BY <1>4, <1>6, <1>7, <1>9, <2>1, <2>4 DEF u
<1> QED  BY <1>8, <1>9

-----------------------------------------------------------------------------
(* The odometer of walk_strided.                                           *)

\* g satisfies the recursion of Walk up to n.
IsWalk(g, n, shape, strides) ==
  g = [k \in 0..n |-> IF k = 0 THEN [idx |-> [j \in DOMAIN shape |-> 0], offset |-> 0]
                               ELSE Turn(shape, strides, g[k - 1])]

\* The recursion of Walk has a solution,
LEMMA WalkExists ==
  ASSUME NEW shape, NEW strides, NEW m \in Nat
  PROVE  \E g : IsWalk(g, m, shape, strides)
<1> DEFINE T == {n \in Nat : \E g : IsWalk(g, n, shape, strides)}
           z == [idx |-> [j \in DOMAIN shape |-> 0], offset |-> 0]
<1>1. 0 \in T
  <2>1. IsWalk([k \in 0..0 |-> z], 0, shape, strides)  BY DEF IsWalk
  <2> QED  BY <2>1
<1>2. ASSUME NEW n \in Nat, n \in T  PROVE n + 1 \in T
  <2>1. PICK g : IsWalk(g, n, shape, strides)  BY <1>2
  <2> DEFINE h == [k \in 0..n + 1 |-> IF k = n + 1 THEN Turn(shape, strides, g[n]) ELSE g[k]]
  <2> HIDE DEF z
  <2>2. IsWalk(h, n + 1, shape, strides)
    <3>1. ASSUME NEW k \in 0..n + 1
          PROVE  h[k] = IF k = 0 THEN z ELSE Turn(shape, strides, h[k - 1])
      <4>1. CASE k = n + 1
        <5>1. k # 0 /\ k - 1 \in 0..n + 1 /\ k - 1 # n + 1 /\ k - 1 = n  BY <4>1
        <5>2. h[k] = Turn(shape, strides, g[n]) /\ h[k - 1] = g[n]  BY <4>1, <5>1
        <5> QED  BY <5>1, <5>2
      <4>2. CASE k # n + 1
        <5>1. k \in 0..n  BY <4>2
        <5>2. h[k] = g[k]  BY <4>2
        <5>3. g[k] = IF k = 0 THEN z ELSE Turn(shape, strides, g[k - 1])  BY <2>1, <5>1 DEF IsWalk, z
        <5>4. k # 0 => k - 1 \in 0..n + 1 /\ k - 1 # n + 1  BY <5>1
        <5>5. k # 0 => h[k - 1] = g[k - 1]  BY <5>4
        <5> HIDE DEF h
        <5> QED  BY <5>2, <5>3, <5>5
      <4> QED  BY <4>1, <4>2
    <3>2. h = [k \in 0..n + 1 |-> h[k]]  OBVIOUS
    <3> HIDE DEF h
    <3>3. h = [k \in 0..n + 1 |-> IF k = 0 THEN z ELSE Turn(shape, strides, h[k - 1])]  BY <3>1, <3>2
    <3> QED  BY <3>3 DEF IsWalk, z
  <2> QED  BY <2>2
<1> HIDE DEF T
<1>3. \A n \in Nat : n \in T  BY <1>1, <1>2, Induction
<1> QED  BY <1>3 DEF T

\* so Walk satisfies it.
LEMMA WalkDef ==
  ASSUME NEW shape, NEW strides, Product(shape) \in Nat
  PROVE  \E g : /\ IsWalk(g, Product(shape), shape, strides)
                /\ Walk(shape, strides) = [k \in 1..Product(shape) |-> g[k - 1].offset]
<1> DEFINE P == Product(shape)
           at == CHOOSE g : g = [k \in 0..P |->
                   IF k = 0 THEN [idx |-> [j \in DOMAIN shape |-> 0], offset |-> 0]
                            ELSE Turn(shape, strides, g[k - 1])]
<1>1. Walk(shape, strides) = [k \in 1..P |-> at[k - 1].offset]  BY DEF Walk
<1>2. \E g : IsWalk(g, P, shape, strides)
  <2> HIDE DEF P
  <2> QED  BY WalkExists DEF P
<1>3. IsWalk(at, P, shape, strides)
  <2> HIDE DEF P
  <2> QED  BY <1>2 DEF IsWalk
<1> QED  BY <1>1, <1>3

\* Rewinding all axes after a goes back to one place before the next on a.
LEMMA RewindInOrder ==
  ASSUME NEW shape \in Seq(Nat), NEW a \in 1..Len(shape), NEW b \in Seq(Int), Len(b) = Len(shape),
         \A k \in 1..Len(shape) : b[k] = IF k > a THEN Weight(shape, k) * (shape[k] - 1) ELSE 0
  PROVE  Total(b) = Weight(shape, a) - 1
<1> DEFINE N == Len(shape)
           W(k) == Weight(shape, k)
           g == [k \in 0..N |-> IF k <= a THEN 0 ELSE W(a) - W(k)]
<1>1. N \in Nat /\ a \in 1..N /\ \A k \in 1..N : shape[k] \in Nat  OBVIOUS
<1>2. W(N) = 1 /\ (\A k \in 0..N : W(k) \in Nat) /\ \A k \in 1..N : W(k - 1) = shape[k] * W(k)
  BY Weights
<1> HIDE DEF N, W
<1>3. g[0] = 0 /\ g[N] = W(a) - 1
  <2>1. 0 \in 0..N /\ N \in 0..N /\ a \in 0..N /\ 0 <= a  BY <1>1
  <2>2. CASE N <= a
    <3>1. N = a  BY <1>1, <2>2
    <3>2. W(a) - 1 = 0  BY <1>2, <3>1
    <3> QED  BY <2>1, <2>2, <3>2
  <2>3. CASE ~(N <= a)  BY <1>2, <2>1, <2>3
  <2> QED  BY <2>2, <2>3
<1>4. ASSUME NEW k \in 1..N  PROVE g[k] = g[k - 1] + b[k]
  <2>1. k \in 0..N /\ k - 1 \in 0..N /\ a \in 0..N  BY <1>1
  <2>2. g[k] = (IF k <= a THEN 0 ELSE W(a) - W(k)) /\ g[k - 1] = (IF k - 1 <= a THEN 0 ELSE W(a) - W(k - 1))
    BY <2>1
  <2>3. b[k] = IF k > a THEN W(k) * (shape[k] - 1) ELSE 0  BY DEF N, W
  <2>8. W(k) \in Nat /\ W(k - 1) \in Nat /\ W(a) \in Nat  BY <1>2, <2>1
  <2>9. shape[k] \in Nat  BY <1>1
  <2>4. W(k) \in Int /\ W(k - 1) \in Int /\ W(a) \in Int /\ shape[k] \in Int  BY <2>8, <2>9
  <2>5. W(k) * (shape[k] - 1) = W(k - 1) - W(k)
    <3>1. W(k) * (shape[k] - 1) = shape[k] * W(k) - W(k)  BY <2>4
    <3> QED  BY <1>2, <3>1
  <2> HIDE DEF g
  <2>6. CASE k <= a
    <3>1. k - 1 <= a /\ ~(k > a) /\ 0 + 0 = 0  BY <1>1, <2>6
    <3> QED  BY <2>2, <2>3, <2>6, <3>1
  <2>7. CASE k > a
    <3>1. ~(k <= a)  BY <1>1, <2>7
    <3>2. g[k] = W(a) - W(k) /\ b[k] = W(k - 1) - W(k)  BY <2>2, <2>3, <2>5, <2>7, <3>1
    <3>3. CASE k - 1 = a
      <4>1. g[k - 1] = 0  BY <1>1, <2>2, <3>3
      <4>2. W(a) - W(k) = 0 + (W(k - 1) - W(k))  BY <2>4, <3>3
      <4> QED  BY <3>2, <4>1, <4>2
    <3>4. CASE k - 1 > a
      <4>1. ~(k - 1 <= a)  BY <1>1, <2>1, <3>4
      <4>2. g[k - 1] = W(a) - W(k - 1)  BY <2>2, <4>1
      <4>3. W(a) - W(k) = (W(a) - W(k - 1)) + (W(k - 1) - W(k))  BY <2>4
      <4> QED  BY <3>2, <4>2, <4>3
    <3>5. k - 1 = a \/ k - 1 > a  BY <1>1, <2>7
    <3> QED  BY <3>3, <3>4, <3>5
  <2> QED  BY <1>1, <2>6, <2>7
<1> HIDE DEF g
<1>5. Len(b) = N  BY DEF N
<1>6. Total(b) = g[N]  BY <1>3, <1>4, <1>5, SumsAre
<1> QED  BY <1>3, <1>6 DEF W

\* The odometer goes from i to j: axis a advances, those after it start again.
Advanced(shape, i, j, a) ==
  /\ i \in Indices(shape) /\ j \in Indices(shape) /\ a \in 1..Len(shape)
  /\ \A k \in 1..Len(shape) : /\ k < a => j[k] = i[k]
                              /\ k = a => j[k] = i[k] + 1
                              /\ k > a => j[k] = 0 /\ i[k] = shape[k] - 1

\* What the odometer subtracts when axis a advances.
Rewound(shape, s, a, b) ==
  /\ b \in Seq(Int) /\ Len(b) = Len(shape)
  /\ \A k \in 1..Len(shape) : b[k] = IF k > a THEN s[k] * (shape[k] - 1) ELSE 0

\* The offset stays that of the multi-index.
LEMMA Advance ==
  ASSUME NEW shape \in Seq(Nat), NEW i, NEW j, NEW a, Advanced(shape, i, j, a),
         NEW s \in Seq(Int), Len(s) = Len(shape), NEW b, Rewound(shape, s, a, b)
  PROVE  Dot(j, s) = Dot(i, s) + s[a] - Total(b)
<1> DEFINE N == Len(shape)
           t == [k \in DOMAIN s |-> i[k] * s[k]]
           u == [k \in DOMAIN s |-> j[k] * s[k]]
           e == [k \in 1..N |-> IF k = a THEN s[a] ELSE 0]
           v == [k \in 1..N |-> t[k] + e[k]]
<1>1. N \in Nat /\ a \in 1..N /\ \A k \in 1..N : s[k] \in Int /\ shape[k] \in Nat  BY DEF Advanced
<1>2. i \in Seq(Nat) /\ Len(i) = N /\ j \in Seq(Nat) /\ Len(j) = N /\ \A k \in 1..N : i[k] \in Nat /\ j[k] \in Nat
  BY IndexTypes DEF Advanced
<1>3. t \in Seq(Int) /\ Len(t) = N /\ Dot(i, s) = Total(t) /\ (\A k \in 1..N : t[k] = i[k] * s[k]) /\ Dot(i, s) \in Int
  BY <1>2, DotTypes
<1>4. u \in Seq(Int) /\ Len(u) = N /\ Dot(j, s) = Total(u) /\ (\A k \in 1..N : u[k] = j[k] * s[k]) /\ Dot(j, s) \in Int
  BY <1>2, DotTypes
<1>5. b \in Seq(Int) /\ Len(b) = N /\ (\A k \in 1..N : b[k] = IF k > a THEN s[k] * (shape[k] - 1) ELSE 0) /\ Total(b) \in Int
  BY SumsDef DEF Rewound
<1>6. \A k \in 1..N : /\ k < a => j[k] = i[k]
                      /\ k = a => j[k] = i[k] + 1
                      /\ k > a => j[k] = 0 /\ i[k] = shape[k] - 1
  BY DEF Advanced
<1> HIDE DEF N, t, u
<1>7. e \in Seq(Int) /\ Len(e) = N /\ Total(e) = s[a] /\ \A k \in 1..N : e[k] = IF k = a THEN s[a] ELSE 0
  <2>1. e \in Seq(Int) /\ Len(e) = N /\ \A k \in 1..N : e[k] = IF k = a THEN s[a] ELSE 0  BY <1>1
  <2> HIDE DEF e
  <2>2. \A k \in 1..Len(e) : k # a => e[k] = 0  BY <2>1
  <2>3. a \in 1..Len(e) /\ e[a] = s[a]  BY <1>1, <2>1
  <2>4. Total(e) = s[a]  BY <2>1, <2>2, <2>3, SumOfOne
  <2> QED  BY <2>1, <2>4
<1> HIDE DEF e
<1>8. v \in Seq(Int) /\ Len(v) = N /\ \A k \in 1..N : v[k] = t[k] + e[k]
  <2>1. \A k \in 1..N : t[k] + e[k] \in Int  BY <1>3, <1>7
  <2> QED  BY <1>1, <2>1
<1> HIDE DEF v
<1>9. \A k \in 1..N : v[k] = u[k] + b[k]
  <2> SUFFICES ASSUME NEW k \in 1..N  PROVE v[k] = u[k] + b[k]
    OBVIOUS
  <2>1. v[k] = i[k] * s[k] + (IF k = a THEN s[a] ELSE 0)  BY <1>3, <1>7, <1>8
  <2>2. u[k] = j[k] * s[k] /\ b[k] = (IF k > a THEN s[k] * (shape[k] - 1) ELSE 0)  BY <1>4, <1>5
  <2>3. s[k] \in Int /\ i[k] \in Int /\ i[k] * s[k] \in Int /\ k \in Int /\ a \in Int  BY <1>1, <1>2
  <2>4. CASE k < a
    <3>1. j[k] = i[k] /\ k # a /\ ~(k > a)  BY <1>6, <2>3, <2>4
    <3> DEFINE y == i[k] * s[k]
    <3>2. v[k] = y + 0 /\ u[k] + b[k] = y + 0  BY <2>1, <2>2, <3>1
    <3> QED  BY <3>2
  <2>5. CASE k = a
    <3>1. j[k] = i[k] + 1 /\ ~(k > a)  BY <1>6, <2>3, <2>5
    <3>4. \A x, z \in Int : (x + 1) * z = x * z + z  OBVIOUS
    <3>2. (i[k] + 1) * s[k] = i[k] * s[k] + s[k]  BY <2>3, <3>4
    <3> DEFINE y == i[k] * s[k]
    <3>3. y \in Int /\ v[k] = y + s[k] /\ u[k] = y + s[k] /\ b[k] = 0  BY <2>1, <2>2, <2>3, <2>5, <3>1, <3>2
    <3> HIDE DEF y
    <3> QED  BY <2>3, <3>3
  <2>6. CASE k > a
    <3>1. j[k] = 0 /\ i[k] = shape[k] - 1 /\ k # a  BY <1>6, <2>3, <2>6
    <3>2. 0 * s[k] = 0 /\ i[k] * s[k] = s[k] * i[k]  BY <2>3
    <3> DEFINE y == i[k] * s[k]
    <3>3. y \in Int /\ v[k] = y + 0 /\ u[k] = 0 /\ b[k] = y  BY <2>1, <2>2, <2>3, <2>6, <3>1, <3>2
    <3> HIDE DEF y
    <3> QED  BY <3>3
  <2> QED  BY <2>3, <2>4, <2>5, <2>6
<1>10. Total(v) = Total(t) + Total(e)
  <2>1. Len(t) = Len(v) /\ Len(e) = Len(v) /\ \A k \in 1..Len(v) : v[k] = t[k] + e[k]  BY <1>3, <1>7, <1>8
  <2>2. t \in Seq(Int) /\ e \in Seq(Int) /\ v \in Seq(Int)  BY <1>3, <1>7, <1>8
  <2> QED  BY <2>1, <2>2, SumsAdd
<1>11. Total(v) = Total(u) + Total(b)
  <2>1. Len(u) = Len(v) /\ Len(b) = Len(v) /\ \A k \in 1..Len(v) : v[k] = u[k] + b[k]  BY <1>4, <1>5, <1>8, <1>9
  <2>2. u \in Seq(Int) /\ b \in Seq(Int) /\ v \in Seq(Int)  BY <1>4, <1>5, <1>8
  <2> QED  BY <2>1, <2>2, SumsAdd
<1>12. s[a] \in Int  BY <1>1
<1> DEFINE x == Dot(i, s)
           y == Dot(j, s)
           z == Total(b)
<1>13. x \in Int /\ y \in Int /\ z \in Int /\ Total(t) = x /\ Total(u) = y  BY <1>3, <1>4, <1>5
<1> HIDE DEF x, y, z
<1>14. x + s[a] = y + z  BY <1>7, <1>10, <1>11, <1>13 DEF z
<1> DEFINE q == s[a]
<1>15. q \in Int /\ x + q = y + z  BY <1>12, <1>14
<1> HIDE DEF q
<1>16. y = x + q - z  BY <1>13, <1>15
<1> QED  BY <1>16 DEF x, y, z, q

\* One turn of the odometer goes to the next place in C order, and keeps the
\* offset that of the multi-index.
LEMMA TurnOnce ==
  ASSUME NEW shape \in Seq(Nat), NEW strides \in Seq(Int), Len(strides) = Len(shape), NEW at,
         at.idx \in Indices(shape), Dot(at.idx, CStrides(shape)) # Product(shape) - 1,
         at.offset = Dot(at.idx, strides)
  PROVE  LET u == Turn(shape, strides, at) IN
         /\ u.idx \in Indices(shape) /\ u.offset = Dot(u.idx, strides)
         /\ Dot(u.idx, CStrides(shape)) = Dot(at.idx, CStrides(shape)) + 1
<1> DEFINE N == Len(shape)
           i == at.idx
           room == {k \in DOMAIN shape : i[k] + 1 < shape[k]}
           a == CHOOSE k \in room : \A j \in room : j =< k
           n == [k \in DOMAIN shape |-> IF k < a THEN i[k] ELSE IF k = a THEN i[k] + 1 ELSE 0]
           b == [k \in DOMAIN shape |-> IF k > a THEN strides[k] * (shape[k] - 1) ELSE 0]
           c == [k \in DOMAIN shape |-> IF k > a THEN CStrides(shape)[k] * (shape[k] - 1) ELSE 0]
           u == Turn(shape, strides, at)
<1>1. N \in Nat /\ DOMAIN shape = 1..N  OBVIOUS
<1>2. \A k \in 1..N : i[k] \in Nat /\ i[k] < shape[k] /\ shape[k] \in Nat  BY IndexTypes
<1>3. room # {}
  <2> SUFFICES ASSUME room = {}  PROVE FALSE
    OBVIOUS
  <2>1. \A k \in 1..N : i[k] = shape[k] - 1
    <3> SUFFICES ASSUME NEW k \in 1..N  PROVE i[k] = shape[k] - 1
      OBVIOUS
    <3>1. ~(i[k] + 1 < shape[k])  BY <1>1
    <3> HIDE DEF i
    <3> QED  BY <1>2, <3>1
  <2>2. Dot(i, CStrides(shape)) = Product(shape) - 1  BY <2>1, DotInBlock
  <2> QED  BY <2>2
<1>4. a \in room /\ \A j \in room : j =< a
  <2>1. room \in SUBSET (1..N)  BY <1>1
  <2> HIDE DEF room, N
  <2>2. \E k \in room : \A j \in room : j =< k  BY <1>1, <1>3, <2>1, Greatest
  <2> QED  BY <2>2
<1>5. u = [idx |-> n, offset |-> at.offset + strides[a] - Total(b)]
  <2>1. u = IF room = {} THEN at
            ELSE [idx |-> n, offset |-> at.offset + strides[a] - Total(b)]
    BY DEF Turn
  <2> HIDE DEF room, a, u, n, b
  <2> QED  BY <1>3, <2>1
<1>6. a \in 1..N /\ i[a] + 1 < shape[a]
  <2> HIDE DEF a
  <2> QED  BY <1>1, <1>4
<1>7. \A k \in 1..N : k > a => i[k] = shape[k] - 1
  <2> SUFFICES ASSUME NEW k \in 1..N, k > a  PROVE i[k] = shape[k] - 1
    OBVIOUS
  <2> HIDE DEF a
  <2>1. k \notin room  BY <1>4, <1>6
  <2>2. ~(i[k] + 1 < shape[k])  BY <1>1, <2>1
  <2> HIDE DEF i
  <2> QED  BY <1>2, <2>2
<1> HIDE DEF a, N, room, u, i
<1>8. \A k \in 1..N : n[k] = IF k < a THEN i[k] ELSE IF k = a THEN i[k] + 1 ELSE 0  BY <1>1
<1>9. n \in Indices(shape)
  <2>1. \A k \in 1..N : n[k] \in Nat /\ n[k] < shape[k]
    <3> SUFFICES ASSUME NEW k \in 1..N  PROVE n[k] \in Nat /\ n[k] < shape[k]
      OBVIOUS
    <3> HIDE DEF n
    <3>1. i[k] \in Nat /\ i[k] < shape[k] /\ shape[k] \in Nat  BY <1>2
    <3>2. k \in Int /\ a \in Int  BY <1>1, <1>6
    <3>3. CASE k < a  BY <1>8, <3>1, <3>3
    <3>4. CASE k = a
      <4>1. n[k] = i[k] + 1  BY <1>8, <3>2, <3>4
      <4> QED  BY <1>6, <3>1, <3>4, <4>1
    <3>5. CASE k > a
      <4>1. n[k] = 0  BY <1>8, <3>2, <3>5
      <4> QED  BY <3>1, <4>1
    <3> QED  BY <3>2, <3>3, <3>4, <3>5
  <2>2. n = [k \in 1..N |-> n[k]]  BY <1>1
  <2> HIDE DEF n
  <2>3. n \in [1..N -> Nat]  BY <2>1, <2>2
  <2> QED  BY <2>1, <2>3, IndicesAre DEF N
<1> HIDE DEF n
<1>10. Advanced(shape, i, n, a)
  <2>1. ASSUME NEW k \in 1..N
        PROVE  /\ k < a => n[k] = i[k]
               /\ k = a => n[k] = i[k] + 1
               /\ k > a => n[k] = 0 /\ i[k] = shape[k] - 1
    <3>1. k \in Int /\ a \in Int  BY <1>1, <1>6
    <3> QED  BY <1>7, <1>8, <3>1
  <2> QED  BY <1>6, <1>9, <2>1 DEF Advanced, N, i
<1>11. Rewound(shape, strides, a, b)
  <2>1. \A k \in 1..N : strides[k] * (shape[k] - 1) \in Int
    <3>1. \A k \in 1..N : strides[k] \in Int /\ shape[k] - 1 \in Int  BY <1>2 DEF N
    <3>2. \A x, y \in Int : x * y \in Int  OBVIOUS
    <3> QED  BY <3>1, <3>2
  <2>2. b \in Seq(Int) /\ Len(b) = N /\ \A k \in 1..N : b[k] = IF k > a THEN strides[k] * (shape[k] - 1) ELSE 0
    BY <1>1, <2>1
  <2> QED  BY <2>2 DEF Rewound, N
<1>12. /\ CStrides(shape) \in Seq(Int) /\ Len(CStrides(shape)) = N
       /\ \A k \in 1..N : CStrides(shape)[k] = Weight(shape, k) /\ Weight(shape, k) \in Nat
  <2>1. /\ CStrides(shape) \in Seq(Int) /\ Len(CStrides(shape)) = N
        /\ \A k \in 1..N : CStrides(shape)[k] = Weight(shape, k)
        /\ \A k \in 0..N : Weight(shape, k) \in Nat
    BY Weights DEF N
  <2>2. \A k \in 1..N : k \in 0..N  OBVIOUS
  <2> QED  BY <2>1, <2>2
<1>13. c \in Seq(Int) /\ Len(c) = N /\ \A k \in 1..N : c[k] = IF k > a THEN Weight(shape, k) * (shape[k] - 1) ELSE 0
  <2>1. \A k \in 1..N : Weight(shape, k) * (shape[k] - 1) \in Int
    <3>1. \A k \in 1..N : Weight(shape, k) \in Int /\ shape[k] - 1 \in Int  BY <1>2, <1>12
    <3>2. \A x, y \in Int : x * y \in Int  OBVIOUS
    <3> QED  BY <3>1, <3>2
  <2>2. c = [k \in 1..N |-> IF k > a THEN Weight(shape, k) * (shape[k] - 1) ELSE 0]  BY <1>1, <1>12
  <2> HIDE DEF c
  <2> QED  BY <1>1, <2>1, <2>2
<1>14. Rewound(shape, CStrides(shape), a, c)
  <2>1. \A k \in 1..N : c[k] = IF k > a THEN CStrides(shape)[k] * (shape[k] - 1) ELSE 0  BY <1>1
  <2> HIDE DEF c
  <2> QED  BY <1>13, <2>1 DEF Rewound, N
<1> HIDE DEF b, c
<1>15. Dot(n, strides) = Dot(i, strides) + strides[a] - Total(b)  BY <1>10, <1>11, Advance
<1>16. Dot(n, CStrides(shape)) = Dot(i, CStrides(shape)) + CStrides(shape)[a] - Total(c)
  BY <1>10, <1>12, <1>14, Advance DEF N
<1>17. Total(c) = Weight(shape, a) - 1
  BY <1>6, <1>13, RewindInOrder DEF N
<1>18. Dot(i, CStrides(shape)) \in Int
  <2>1. Dot(i, CStrides(shape)) \in 0..Product(shape) - 1  BY DotInBlock DEF i
  <2> QED  BY <2>1
<1>19. Dot(n, CStrides(shape)) = Dot(i, CStrides(shape)) + 1
  <2>1. CStrides(shape)[a] = Weight(shape, a) /\ Weight(shape, a) \in Int  BY <1>6, <1>12
  <2> QED  BY <1>16, <1>17, <1>18, <2>1
<1>20. u.idx = n /\ u.offset = Dot(n, strides)
  <2>1. at.offset = Dot(i, strides)  BY DEF i
  <2> QED  BY <1>5, <1>15, <2>1
<1> QED  BY <1>9, <1>19, <1>20 DEF u, i

\* refresh and commit visit the elements of a strided view in C order.
THEOREM WalkIs ==
  ASSUME NEW shape \in Seq(Nat), NEW strides \in Seq(Int), Len(strides) = Len(shape)
  PROVE  Walk(shape, strides) = [k \in 1..Product(shape) |-> Dot(Unravel(shape, k - 1), strides)]
<1> DEFINE P == Product(shape)
           N == Len(shape)
<1>1. P \in Nat /\ N \in Nat /\ DOMAIN shape = 1..N  BY ProductsDef
<1>2. PICK g : IsWalk(g, P, shape, strides) /\ Walk(shape, strides) = [k \in 1..P |-> g[k - 1].offset]
  BY <1>1, WalkDef
<1> HIDE DEF P
<1>3. \A k \in 0..P : g[k] = IF k = 0 THEN [idx |-> [j \in DOMAIN shape |-> 0], offset |-> 0]
                             ELSE Turn(shape, strides, g[k - 1])
  BY <1>2 DEF IsWalk
<1> DEFINE T == {k \in 0..P : k < P => /\ g[k].idx \in Indices(shape) /\ g[k].offset = Dot(g[k].idx, strides)
                                       /\ Dot(g[k].idx, CStrides(shape)) = k}
<1>4. 0 \in T
  <2> DEFINE z == [j \in DOMAIN shape |-> 0]
  <2>8. 0 \in 0..P  BY <1>1
  <2>9. \A k \in 0..P : k = 0 => g[k] = [idx |-> z, offset |-> 0]  BY <1>3
  <2>1. 0 \in 0..P /\ g[0] = [idx |-> z, offset |-> 0]  BY <2>8, <2>9
  <2> SUFFICES ASSUME P # 0
               PROVE  /\ z \in Indices(shape) /\ 0 = Dot(z, strides)
                      /\ Dot(z, CStrides(shape)) = 0
    <3> HIDE DEF z
    <3>1. g[0].idx = z /\ g[0].offset = 0  BY <2>1
    <3>2. 0 < P => P # 0  BY <1>1
    <3> QED  BY <2>1, <3>1, <3>2
  <2>2. \A k \in 1..N : shape[k] \in Nat \ {0}  BY PositiveWeights DEF P
  <2>3. z \in [1..N -> Nat] /\ \A k \in 1..N : z[k] < shape[k] /\ z[k] = 0
    <3>1. z = [j \in 1..N |-> 0]  BY <1>1
    <3> HIDE DEF z, N
    <3> QED  BY <2>2, <3>1
  <2>4. z \in Indices(shape)  BY <2>3, IndicesAre
  <2>5. z \in Seq(Nat) /\ Len(z) = N
    <3> HIDE DEF z
    <3> QED  BY <2>4, IndexTypes
  <2> HIDE DEF z
  <2>6. ASSUME NEW s \in Seq(Int), Len(s) = N  PROVE Dot(z, s) = 0
    <3> DEFINE t == [k \in DOMAIN s |-> z[k] * s[k]]
    <3>1. t \in Seq(Int) /\ Len(t) = N /\ Dot(z, s) = Total(t) /\ \A k \in 1..N : t[k] = z[k] * s[k]
      BY <2>5, <2>6, DotTypes
    <3>2. \A k \in 1..N : s[k] \in Int  BY <2>6
    <3>3. \A x \in Int : 0 * x = 0  OBVIOUS
    <3> HIDE DEF t, N
    <3>4. \A k \in 1..Len(t) : t[k] = 0  BY <2>3, <3>1, <3>2, <3>3
    <3> QED  BY <3>1, <3>4, SumOfZeros
  <2>7. CStrides(shape) \in Seq(Int) /\ Len(CStrides(shape)) = N  BY Weights
  <2> QED  BY <2>4, <2>6, <2>7
<1>5. ASSUME NEW k \in 0..P - 1, k \in T  PROVE k + 1 \in T
  <2>1. k + 1 \in 0..P /\ k + 1 # 0 /\ (k + 1) - 1 = k /\ k < P  BY <1>1
  <2> SUFFICES ASSUME k + 1 < P
               PROVE  /\ g[k + 1].idx \in Indices(shape) /\ g[k + 1].offset = Dot(g[k + 1].idx, strides)
                      /\ Dot(g[k + 1].idx, CStrides(shape)) = k + 1
    BY <2>1
  <2>2. /\ g[k].idx \in Indices(shape) /\ g[k].offset = Dot(g[k].idx, strides)
        /\ Dot(g[k].idx, CStrides(shape)) = k
    BY <1>5, <2>1
  <2>3. g[k + 1] = Turn(shape, strides, g[k])  BY <1>3, <2>1
  <2>4. k # P - 1  BY <1>1
  <2> DEFINE at == g[k]
             u == Turn(shape, strides, at)
  <2>5. /\ at.idx \in Indices(shape) /\ at.offset = Dot(at.idx, strides)
        /\ Dot(at.idx, CStrides(shape)) # Product(shape) - 1
    BY <2>2, <2>4 DEF P
  <2> HIDE DEF at
  <2>6. /\ u.idx \in Indices(shape) /\ u.offset = Dot(u.idx, strides)
        /\ Dot(u.idx, CStrides(shape)) = Dot(at.idx, CStrides(shape)) + 1
    BY <2>5, TurnOnce
  <2> HIDE DEF u
  <2>7. g[k + 1] = u /\ Dot(at.idx, CStrides(shape)) = k  BY <2>2, <2>3 DEF u, at
  <2> QED  BY <2>6, <2>7
<1> HIDE DEF T
<1>6. \A k \in 0..P : k \in T  BY <1>1, <1>4, <1>5, InductionTo
<1>7. ASSUME NEW k \in 1..P  PROVE g[k - 1].offset = Dot(Unravel(shape, k - 1), strides)
  <2> DEFINE m == k - 1
             i == g[m].idx
  <2>1. m \in 0..P /\ m < P  BY <1>1
  <2>2. m \in T  BY <1>6, <2>1
  <2> HIDE DEF m
  <2>3. i \in Indices(shape) /\ g[m].offset = Dot(i, strides) /\ Dot(i, CStrides(shape)) = m
    BY <2>1, <2>2 DEF T
  <2> HIDE DEF i
  <2>4. Unravel(shape, Dot(i, CStrides(shape))) = i  BY <2>3, PlaceUnraveled
  <2>5. g[m].offset = Dot(Unravel(shape, m), strides)  BY <2>3, <2>4
  <2> QED  BY <2>5 DEF m
<1> QED  BY <1>2, <1>7 DEF P


-----------------------------------------------------------------------------
(* What the layout says the array contains.                                *)

=============================================================================
