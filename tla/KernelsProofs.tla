--------------------------- MODULE KernelsProofs ----------------------------
(***************************************************************************)
(* Kernels for any arrays of any shapes, keys, axes and bounds, and for    *)
(* any number of operations.                                               *)
(*                                                                         *)
(* 1. Row-major positions (Halves, PartIs, ...): where the blocks of outer *)
(*    x middle x inner are that copies, folds and joins cut an array into. *)
(* 2. One section per kernel: what the code makes, what NumPy makes, and   *)
(*    that they are the same (Faithful: NumPy answers that one array; or   *)
(*    both refuse, or the refusal is one that NumPy justifies, Justified). *)
(* 3. Good collects it per operation; an operation keeps IInv because its  *)
(*    results are Good (ActedKeeps), whatever they are.                    *)
(*                                                                         *)
(* Comparable is what the theorems about NumPy assume: no list of bools is *)
(* a key and no difference of two bounds of arange wraps.  Both are where  *)
(* lightarray differs from NumPy.  TypeOK needs neither.                   *)
(***************************************************************************)
EXTENDS Kernels, ShapesProofs

-----------------------------------------------------------------------------
(* Sequences.                                                              *)

\* A part of a sequence.
LEMMA PartIs ==
  ASSUME NEW S, NEW s \in Seq(S), NEW a \in Nat, NEW b \in Nat, a <= b, b <= Len(s)
  PROVE  LET p == SubSeq(s, a + 1, b) IN
         /\ p \in Seq(S) /\ Len(p) = b - a
         /\ \A k \in 1..b - a : p[k] = s[a + k]
<1> DEFINE p == SubSeq(s, a + 1, b)
<1>1. p \in Seq(S)  OBVIOUS
<1>2. Len(p) = b - a  OBVIOUS
<1>3. ASSUME NEW k \in 1..b - a  PROVE p[k] = s[a + k]
  <2>1. p[k] = s[(a + 1) + k - 1]  BY <1>2
  <2>2. (a + 1) + k - 1 = a + k  OBVIOUS
  <2> QED  BY <2>1, <2>2
<1> QED  BY <1>1, <1>2, <1>3

\* Two sequences, one after the other.
LEMMA JoinIs ==
  ASSUME NEW S, NEW s \in Seq(S), NEW t \in Seq(S)
  PROVE  /\ s \o t \in Seq(S) /\ Len(s \o t) = Len(s) + Len(t)
         /\ \A k \in 1..Len(s) : (s \o t)[k] = s[k]
         /\ \A k \in 1..Len(t) : (s \o t)[Len(s) + k] = t[k]
<1> DEFINE N == Len(s)
           M == Len(t)
<1>1. s \o t \in Seq(S) /\ Len(s \o t) = N + M /\ N \in Nat /\ M \in Nat  OBVIOUS
<1>2. \A k \in 1..N : (s \o t)[k] = s[k]  OBVIOUS
<1>3. ASSUME NEW k \in 1..M  PROVE (s \o t)[N + k] = t[k]
  <2>1. N + k \in 1..N + M /\ ~(N + k <= N) /\ (N + k) - N = k  BY <1>1
  <2> QED  BY <2>1
<1> QED  BY <1>1, <1>2, <1>3

\* A sequence taken apart at a place.
LEMMA Halves ==
  ASSUME NEW S, NEW s \in Seq(S), NEW a \in 0..Len(s)
  PROVE  LET p == SubSeq(s, 1, a)
             q == SubSeq(s, a + 1, Len(s))
         IN  /\ p \in Seq(S) /\ q \in Seq(S) /\ Len(p) = a /\ Len(q) = Len(s) - a
             /\ \A k \in 1..a : p[k] = s[k]
             /\ \A k \in 1..Len(s) - a : q[k] = s[a + k]
             /\ p \o q = s
<1> DEFINE p == SubSeq(s, 1, a)
           q == SubSeq(s, a + 1, Len(s))
           N == Len(s)
           z == p \o q
<1>1. N \in Nat /\ a \in Nat /\ a <= N  OBVIOUS
<1>2. q \in Seq(S) /\ Len(q) = N - a /\ \A k \in 1..N - a : q[k] = s[a + k]  BY <1>1, PartIs
<1>3. p \in Seq(S) /\ Len(p) = a /\ \A k \in 1..a : p[k] = s[k]
  <2>1. p \in Seq(S) /\ Len(p) = a  BY <1>1
  <2>2. ASSUME NEW k \in 1..a  PROVE p[k] = s[k]
    <3>1. p[k] = s[1 + k - 1] /\ 1 + k - 1 = k  BY <2>1
    <3> QED  BY <3>1
  <2> QED  BY <2>1, <2>2
<1> HIDE DEF p, q
<1>4. /\ z \in Seq(S) /\ Len(z) = Len(p) + Len(q)
      /\ \A k \in 1..Len(p) : z[k] = p[k]
      /\ \A k \in 1..Len(q) : z[Len(p) + k] = q[k]
  BY <1>2, <1>3, JoinIs
<1> HIDE DEF z
<1>5. Len(z) = N /\ \A k \in 1..N : z[k] = s[k]
  <2>1. Len(z) = N  BY <1>1, <1>2, <1>3, <1>4
  <2>2. ASSUME NEW k \in 1..N  PROVE z[k] = s[k]
    <3>1. CASE k <= a
      <4>1. k \in 1..a  BY <1>1, <3>1
      <4> QED  BY <1>3, <1>4, <4>1
    <3>2. CASE k > a
      <4>1. k - a \in 1..N - a /\ a + (k - a) = k  BY <1>1, <3>2
      <4>2. z[a + (k - a)] = q[k - a] /\ q[k - a] = s[a + (k - a)]  BY <1>2, <1>3, <1>4, <4>1
      <4> QED  BY <4>1, <4>2
    <3> QED  BY <1>1, <3>1, <3>2
  <2> QED  BY <2>1, <2>2
<1>6. z = s  BY <1>4, <1>5, SameSequence
<1> QED  BY <1>2, <1>3, <1>6 DEF p, q, z, N

-----------------------------------------------------------------------------
(* Places in shapes with an axis apart.                                    *)

\* The weights of a shape made of two.
LEMMA JoinedWeights ==
  ASSUME NEW p \in Seq(Nat), NEW r \in Seq(Nat)
  PROVE  /\ p \o r \in Seq(Nat) /\ Len(p \o r) = Len(p) + Len(r)
         /\ Product(p \o r) = Product(p) * Product(r)
         /\ \A k \in 0..Len(p) : Weight(p \o r, k) = Weight(p, k) * Product(r)
         /\ \A k \in 0..Len(r) : Weight(p \o r, Len(p) + k) = Weight(r, k)
<1> DEFINE s == p \o r
           A == Len(p)
           B == Len(r)
           P == Product(r)
           g == [k \in 0..A + B |-> IF k <= A THEN Weight(p, k) * P ELSE Weight(r, k - A)]
<1>1. /\ s \in Seq(Nat) /\ Len(s) = A + B /\ \A k \in 1..A : s[k] = p[k]
      /\ \A k \in 1..B : s[A + k] = r[k]
  BY JoinIs
<1>2. A \in Nat /\ B \in Nat  OBVIOUS
<1>3. /\ Weight(p, A) = 1 /\ Weight(p, 0) = Product(p)
      /\ \A k \in 0..A : Weight(p, k) \in Nat
      /\ \A k \in 1..A : Weight(p, k - 1) = p[k] * Weight(p, k)
  BY Weights
<1>4. /\ Weight(r, B) = 1 /\ Weight(r, 0) = P /\ P \in Nat
      /\ \A k \in 1..B : Weight(r, k - 1) = r[k] * Weight(r, k)
  BY Weights, ProductsDef
<1>4a. \A k \in 1..A : p[k] \in Nat  OBVIOUS
<1> HIDE DEF s, A, B, P
<1>5. /\ \A k \in 0..A : g[k] = Weight(p, k) * P
      /\ \A k \in 0..B : g[A + k] = Weight(r, k)
  <2>1. ASSUME NEW k \in 0..A  PROVE g[k] = Weight(p, k) * P
    <3>1. k \in 0..A + B /\ k <= A  BY <1>2
    <3> QED  BY <3>1
  <2>2. ASSUME NEW k \in 0..B  PROVE g[A + k] = Weight(r, k)
    <3>1. A + k \in 0..A + B /\ (A + k) - A = k  BY <1>2
    <3>2. CASE k = 0
      <4>1. A + k = A /\ A \in 0..A  BY <1>2, <3>2
      <4>2. g[A] = Weight(p, A) * P  BY <2>1, <4>1
      <4>3. 1 * P = P  BY <1>4
      <4> QED  BY <1>3, <1>4, <3>2, <4>1, <4>2, <4>3
    <3>3. CASE k # 0
      <4>1. ~(A + k <= A)  BY <1>2, <3>3
      <4> QED  BY <3>1, <4>1
    <3> QED  BY <3>2, <3>3
  <2> QED  BY <2>1, <2>2
<1> HIDE DEF g
<1>6. g[Len(s)] = 1
  <2>1. B \in 0..B  BY <1>2
  <2> QED  BY <1>1, <1>4, <1>5, <2>1
<1>7. ASSUME NEW k \in 1..Len(s)  PROVE g[k - 1] = s[k] * g[k]
  <2>1. CASE k <= A
    <3>1. k \in 1..A /\ k \in 0..A /\ k - 1 \in 0..A  BY <1>2, <2>1
    <3>2. g[k - 1] = (p[k] * Weight(p, k)) * P /\ g[k] = Weight(p, k) * P /\ s[k] = p[k]
      BY <1>1, <1>3, <1>5, <3>1
    <3>3. p[k] \in Nat /\ Weight(p, k) \in Nat  BY <1>3, <1>4a, <3>1
    <3>4. \A a, b, c \in Nat : (a * b) * c = a * (b * c)  OBVIOUS
    <3> QED  BY <1>4, <3>2, <3>3, <3>4
  <2>2. CASE k > A
    <3> DEFINE j == k - A
    <3>1. j \in 1..B /\ j \in 0..B /\ j - 1 \in 0..B /\ k = A + j /\ k - 1 = A + (j - 1)  BY <1>1, <1>2, <2>2
    <3> HIDE DEF j
    <3>2. g[k - 1] = Weight(r, j - 1) /\ g[k] = Weight(r, j) /\ s[k] = r[j]  BY <1>1, <1>5, <3>1
    <3> QED  BY <1>4, <3>1, <3>2
  <2> QED  BY <1>1, <1>2, <2>1, <2>2
<1>8. \A k \in 0..Len(s) : Weight(s, k) = g[k]  BY <1>1, <1>6, <1>7, WeightsAre
<1>9. ASSUME NEW k \in 0..A  PROVE Weight(s, k) = Weight(p, k) * P
  <2>1. k \in 0..Len(s)  BY <1>1, <1>2
  <2> QED  BY <1>5, <1>8, <2>1
<1>10. ASSUME NEW k \in 0..B  PROVE Weight(s, A + k) = Weight(r, k)
  <2>1. A + k \in 0..Len(s)  BY <1>1, <1>2
  <2> QED  BY <1>5, <1>8, <2>1
<1>11. Product(s) = Product(p) * P
  <2>1. 0 \in 0..A  BY <1>2
  <2> QED  BY <1>1, <1>3, <1>9, <2>1, Weights
<1> QED  BY <1>1, <1>9, <1>10, <1>11 DEF s, A, B, P

\* The place of a multi-index made of two.
LEMMA JoinedPlace ==
  ASSUME NEW p \in Seq(Nat), NEW r \in Seq(Nat), NEW x \in Indices(p), NEW y \in Indices(r)
  PROVE  /\ x \o y \in Indices(p \o r)
         /\ Position(p \o r, x \o y) = Position(p, x) * Product(r) + Position(r, y)
<1> DEFINE s == p \o r
           i == x \o y
           A == Len(p)
           B == Len(r)
           N == A + B
           P == Product(r)
           t == [k \in DOMAIN CStrides(s) |-> i[k] * CStrides(s)[k]]
           u == [k \in DOMAIN CStrides(p) |-> x[k] * CStrides(p)[k]]
           v == [k \in DOMAIN CStrides(r) |-> y[k] * CStrides(r)[k]]
           D == Sums(u)[A]
           g == [k \in 0..N |-> IF k <= A THEN Sums(u)[k] * P ELSE D * P + Sums(v)[k - A]]
<1>1. /\ s \in Seq(Nat) /\ Len(s) = N /\ P \in Nat
      /\ \A k \in 0..A : Weight(s, k) = Weight(p, k) * P
      /\ \A k \in 0..B : Weight(s, A + k) = Weight(r, k)
  BY JoinedWeights, ProductsDef
<1>2. A \in Nat /\ B \in Nat /\ N \in Nat  OBVIOUS
<1>3. x \in Seq(Nat) /\ Len(x) = A /\ \A k \in 1..A : x[k] \in Nat /\ x[k] < p[k]  BY IndexTypes
<1>4. y \in Seq(Nat) /\ Len(y) = B /\ \A k \in 1..B : y[k] \in Nat /\ y[k] < r[k]  BY IndexTypes
<1>5. i \in Seq(Nat) /\ Len(i) = N /\ (\A k \in 1..A : i[k] = x[k]) /\ (\A k \in 1..B : i[A + k] = y[k])
  <2>1. /\ i \in Seq(Nat) /\ Len(i) = Len(x) + Len(y) /\ \A k \in 1..Len(x) : i[k] = x[k]
        /\ \A k \in 1..Len(y) : i[Len(x) + k] = y[k]
    <3>1. x \in Seq(Nat) /\ y \in Seq(Nat)  BY <1>3, <1>4
    <3>2. \A a, b \in Seq(Nat) : /\ a \o b \in Seq(Nat) /\ Len(a \o b) = Len(a) + Len(b)
                                 /\ \A k \in 1..Len(a) : (a \o b)[k] = a[k]
                                 /\ \A k \in 1..Len(b) : (a \o b)[Len(a) + k] = b[k]
      BY JoinIs
    <3> QED  BY <3>1, <3>2
  <2>2. Len(x) = A /\ Len(y) = B  BY <1>3, <1>4
  <2> HIDE DEF i, A, B
  <2> QED  BY <2>1, <2>2
<1>6. (\A k \in 1..A : s[k] = p[k]) /\ (\A k \in 1..B : s[A + k] = r[k])  BY JoinIs
<1> HIDE DEF s, i
<1>7. i \in Indices(s)
  <2>1. i \in [1..N -> Nat]  BY <1>5
  <2>2. ASSUME NEW k \in 1..N  PROVE i[k] < s[k]
    <3>1. CASE k <= A
      <4>1. k \in 1..A  BY <1>2, <3>1
      <4> QED  BY <1>3, <1>5, <1>6, <4>1
    <3>2. CASE k > A
      <4> DEFINE j == k - A
      <4>1. j \in 1..B /\ k = A + j  BY <1>2, <3>2
      <4> HIDE DEF j
      <4> QED  BY <1>4, <1>5, <1>6, <4>1
    <3> QED  BY <1>2, <3>1, <3>2
  <2> QED  BY <1>1, <2>1, <2>2, IndicesAre
<1>8. /\ t \in Seq(Int) /\ Len(t) = N /\ \A k \in 1..N : t[k] = i[k] * Weight(s, k)
      /\ Position(s, i) = Sums(t)[N]
  BY <1>1, <1>7, DotInOrder DEF Position
<1>9. /\ u \in Seq(Int) /\ Len(u) = A /\ \A k \in 1..A : u[k] = x[k] * Weight(p, k)
      /\ Position(p, x) = D
  BY DotInOrder DEF Position
<1>10. /\ v \in Seq(Int) /\ Len(v) = B /\ \A k \in 1..B : v[k] = y[k] * Weight(r, k)
       /\ Position(r, y) = Sums(v)[B]
  BY DotInOrder DEF Position
<1> HIDE DEF t, u, v
<1>11. /\ Sums(u)[0] = 0 /\ \A k \in 1..A : Sums(u)[k] = Sums(u)[k - 1] + u[k]
       /\ \A k \in 0..A : Sums(u)[k] \in Int
  <2>1. Sums(u) \in [0..Len(u) -> Int]  BY <1>9, SumsDef
  <2> QED  BY <1>9, <2>1, SumsDef
<1>12. /\ Sums(v)[0] = 0 /\ \A k \in 1..B : Sums(v)[k] = Sums(v)[k - 1] + v[k]
       /\ \A k \in 0..B : Sums(v)[k] \in Int
  <2>1. Sums(v) \in [0..Len(v) -> Int]  BY <1>10, SumsDef
  <2> QED  BY <1>10, <2>1, SumsDef
<1> HIDE DEF A, B, N, P
<1>13. D \in Int /\ D * P \in Int
  <2>1. A \in 0..A  BY <1>2
  <2> DEFINE d == Sums(u)[A]
  <2>2. d \in Int  BY <1>11, <2>1
  <2> HIDE DEF d
  <2>3. d * P \in Int  BY <1>1, <2>2
  <2> QED  BY <2>2, <2>3 DEF d
<1> HIDE DEF D
<1>14. /\ \A k \in 0..A : g[k] = Sums(u)[k] * P
       /\ \A k \in 0..B : g[A + k] = D * P + Sums(v)[k]
  <2>1. ASSUME NEW k \in 0..A  PROVE g[k] = Sums(u)[k] * P
    <3>1. k \in 0..N /\ k <= A  BY <1>2 DEF N
    <3> QED  BY <3>1
  <2>2. ASSUME NEW k \in 0..B  PROVE g[A + k] = D * P + Sums(v)[k]
    <3>1. A + k \in 0..N /\ (A + k) - A = k  BY <1>2 DEF N
    <3>2. CASE k = 0
      <4>1. A + k = A /\ A \in 0..A  BY <1>2, <3>2
      <4>2. g[A] = D * P  BY <2>1, <4>1 DEF D
      <4> DEFINE z == D * P
      <4>3. z = z + 0
        <5>1. z \in Int  BY <1>13
        <5> HIDE DEF z
        <5> QED  BY <5>1
      <4> QED  BY <1>12, <3>2, <4>1, <4>2, <4>3
    <3>3. CASE k # 0
      <4>1. ~(A + k <= A)  BY <1>2, <3>3
      <4> QED  BY <3>1, <4>1
    <3> QED  BY <3>2, <3>3
  <2> QED  BY <2>1, <2>2
<1> HIDE DEF g
<1>15. g[0] = 0
  <2>1. 0 \in 0..A /\ 0 * P = 0  BY <1>1, <1>2
  <2> QED  BY <1>11, <1>14, <2>1
<1>16. ASSUME NEW k \in 1..N  PROVE g[k] = g[k - 1] + t[k]
  <2>1. CASE k <= A
    <3>1. k \in 1..A /\ k \in 0..A /\ k - 1 \in 0..A  BY <1>2, <2>1
    <3> DEFINE a == Sums(u)[k - 1]
               b == x[k]
               w == Weight(p, k)
    <3>2. g[k] = (a + b * w) * P /\ g[k - 1] = a * P  BY <1>9, <1>11, <1>14, <3>1
    <3>3. t[k] = b * (w * P)  BY <1>1, <1>5, <1>8, <3>1
    <3>4. a \in Int /\ b \in Int /\ w \in Int
      <4>1. \A m \in 0..Len(p) : Weight(p, m) \in Nat  BY Weights
      <4> QED  BY <1>3, <1>11, <3>1, <4>1 DEF A
    <3> HIDE DEF a, b, w
    <3>5. \A e, f, h, m \in Int : (e + f * h) * m = e * m + f * (h * m)  OBVIOUS
    <3> QED  BY <1>1, <3>2, <3>3, <3>4, <3>5
  <2>2. CASE k > A
    <3> DEFINE j == k - A
    <3>1. j \in 1..B /\ j \in 0..B /\ j - 1 \in 0..B /\ k = A + j /\ k - 1 = A + (j - 1)  BY <1>2, <2>2 DEF N
    <3> HIDE DEF j
    <3> DEFINE z == D * P
               a == Sums(v)[j - 1]
               b == v[j]
    <3>2. g[k] = z + (a + b) /\ g[k - 1] = z + a  BY <1>12, <1>14, <3>1
    <3>3. t[k] = b  BY <1>1, <1>5, <1>8, <1>10, <3>1
    <3>4. z \in Int /\ a \in Int /\ b \in Int  BY <1>10, <1>12, <1>13, <3>1
    <3> HIDE DEF z, a, b
    <3> QED  BY <3>2, <3>3, <3>4
  <2> QED  BY <1>2, <2>1, <2>2
<1>17. Sums(t)[N] = g[N]
  <2>1. N \in 0..N  BY <1>2 DEF N
  <2>2. \A k \in 0..Len(t) : Sums(t)[k] = g[k]  BY <1>8, <1>15, <1>16, SumsAre
  <2> QED  BY <1>8, <2>1, <2>2
<1>18. g[N] = D * P + Sums(v)[B]
  <2>1. B \in 0..B /\ N = A + B  BY <1>2 DEF N
  <2> QED  BY <1>14, <2>1
<1> QED  BY <1>7, <1>8, <1>9, <1>10, <1>17, <1>18 DEF s, i, P

\* A sequence with one item apart.
Apart(p, m, q) == p \o (<<m>> \o q)

\* What it is, item by item,
LEMMA ApartIs ==
  ASSUME NEW S, NEW p \in Seq(S), NEW q \in Seq(S), NEW m \in S
  PROVE  LET z == Apart(p, m, q) IN
         /\ z \in Seq(S) /\ Len(z) = Len(p) + 1 + Len(q) /\ z[Len(p) + 1] = m
         /\ \A k \in 1..Len(p) : z[k] = p[k]
         /\ \A k \in 1..Len(q) : z[Len(p) + 1 + k] = q[k]
<1> DEFINE r == <<m>> \o q
           z == p \o r
           A == Len(p)
           B == Len(q)
<1>1. A \in Nat /\ B \in Nat  OBVIOUS
<1>2. r \in Seq(S) /\ Len(r) = 1 + B /\ r[1] = m /\ \A k \in 1..B : r[1 + k] = q[k]
  <2>1. <<m>> \in Seq(S) /\ Len(<<m>>) = 1 /\ <<m>>[1] = m /\ 1 \in 1..1  OBVIOUS
  <2>2. \A a, b \in Seq(S) : /\ a \o b \in Seq(S) /\ Len(a \o b) = Len(a) + Len(b)
                             /\ \A k \in 1..Len(a) : (a \o b)[k] = a[k]
                             /\ \A k \in 1..Len(b) : (a \o b)[Len(a) + k] = b[k]
    BY JoinIs
  <2>3. /\ r \in Seq(S) /\ Len(r) = Len(<<m>>) + Len(q)
        /\ \A k \in 1..Len(<<m>>) : r[k] = <<m>>[k]
        /\ \A k \in 1..Len(q) : r[Len(<<m>>) + k] = q[k]
    BY <2>1, <2>2
  <2> QED  BY <2>1, <2>3
<1> HIDE DEF r
<1>3. /\ z \in Seq(S) /\ Len(z) = A + Len(r)
      /\ \A k \in 1..A : z[k] = p[k]
      /\ \A k \in 1..Len(r) : z[A + k] = r[k]
  <2>1. \A a, b \in Seq(S) : /\ a \o b \in Seq(S) /\ Len(a \o b) = Len(a) + Len(b)
                             /\ \A k \in 1..Len(a) : (a \o b)[k] = a[k]
                             /\ \A k \in 1..Len(b) : (a \o b)[Len(a) + k] = b[k]
    BY JoinIs
  <2> QED  BY <1>2, <2>1
<1> HIDE DEF z, A, B
<1>4. Len(z) = A + 1 + B  BY <1>1, <1>2, <1>3
<1>5. z[A + 1] = m
  <2>1. 1 \in 1..Len(r)  BY <1>1, <1>2
  <2> QED  BY <1>2, <1>3, <2>1
<1>6. ASSUME NEW k \in 1..B  PROVE z[A + 1 + k] = q[k]
  <2>1. 1 + k \in 1..Len(r) /\ A + (1 + k) = A + 1 + k  BY <1>1, <1>2
  <2>2. z[A + (1 + k)] = r[1 + k] /\ r[1 + k] = q[k]  BY <1>2, <1>3, <2>1
  <2> QED  BY <2>1, <2>2
<1> QED  BY <1>3, <1>4, <1>5, <1>6 DEF z, r, A, B, Apart

\* The items of z are those of p, m and q.
ItemsOf(S, z, p, m, q) ==
  /\ z \in Seq(S) /\ Len(z) = Len(p) + 1 + Len(q) /\ z[Len(p) + 1] = m
  /\ \A k \in 1..Len(p) : z[k] = p[k]
  /\ \A k \in 1..Len(q) : z[Len(p) + 1 + k] = q[k]

\* and which sequences are.
LEMMA ItemsApart ==
  ASSUME NEW S, NEW p \in Seq(S), NEW q \in Seq(S), NEW m \in S, NEW z, ItemsOf(S, z, p, m, q)
  PROVE  z = Apart(p, m, q)
<1> DEFINE y == Apart(p, m, q)
           A == Len(p)
           B == Len(q)
<1>1. /\ y \in Seq(S) /\ Len(y) = A + 1 + B /\ y[A + 1] = m
      /\ \A k \in 1..A : y[k] = p[k]
      /\ \A k \in 1..B : y[A + 1 + k] = q[k]
  <2>1. y \in Seq(S) /\ Len(y) = A + 1 + B /\ y[A + 1] = m  BY ApartIs
  <2>2. \A k \in 1..A : y[k] = p[k]  BY ApartIs
  <2>3. \A k \in 1..B : y[A + 1 + k] = q[k]  BY ApartIs
  <2> QED  BY <2>1, <2>2, <2>3
<1>2. A \in Nat /\ B \in Nat  OBVIOUS
<1>3. Len(z) = A + 1 + B /\ z[A + 1] = m /\ (\A k \in 1..A : z[k] = p[k]) /\ (\A k \in 1..B : z[A + 1 + k] = q[k])
  BY DEF ItemsOf
<1> HIDE DEF y, A, B
<1>4. ASSUME NEW k \in 1..Len(y)  PROVE z[k] = y[k]
  <2>1. CASE k <= A
    <3>1. k \in 1..A  BY <1>1, <1>2, <2>1
    <3> QED  BY <1>1, <1>3, <3>1
  <2>2. CASE k = A + 1  BY <1>1, <1>3, <2>2
  <2>3. CASE k > A + 1
    <3> DEFINE j == k - (A + 1)
    <3>1. j \in 1..B /\ k = A + 1 + j  BY <1>1, <1>2, <2>3
    <3> HIDE DEF j
    <3> QED  BY <1>1, <1>3, <3>1
  <2> QED  BY <1>1, <1>2, <2>1, <2>2, <2>3
<1>5. z \in Seq(S)  BY DEF ItemsOf
<1>6. z = y  BY <1>1, <1>3, <1>4, <1>5, SameSequence
<1> QED  BY <1>6 DEF y

LEMMA IsApart ==
  ASSUME NEW S, NEW p \in Seq(S), NEW q \in Seq(S), NEW m \in S, NEW z \in Seq(S),
         Len(z) = Len(p) + 1 + Len(q), z[Len(p) + 1] = m,
         \A k \in 1..Len(p) : z[k] = p[k],
         \A k \in 1..Len(q) : z[Len(p) + 1 + k] = q[k]
  PROVE  z = Apart(p, m, q)
BY ItemsApart DEF ItemsOf

\* Its parts, and taking the item out,
LEMMA ApartParts ==
  ASSUME NEW S, NEW p \in Seq(S), NEW q \in Seq(S), NEW m \in S
  PROVE  LET z == Apart(p, m, q)
             a == Len(p) + 1
         IN  /\ a \in 1..Len(z) /\ z[a] = m
             /\ SubSeq(z, 1, a - 1) = p /\ SubSeq(z, a + 1, Len(z)) = q
             /\ RemoveAt(z, a) = p \o q
<1> DEFINE z == Apart(p, m, q)
           A == Len(p)
           B == Len(q)
           a == A + 1
<1>1. /\ z \in Seq(S) /\ Len(z) = A + 1 + B /\ z[A + 1] = m
      /\ \A k \in 1..A : z[k] = p[k]
      /\ \A k \in 1..B : z[A + 1 + k] = q[k]
  <2>1. z \in Seq(S) /\ Len(z) = A + 1 + B /\ z[A + 1] = m  BY ApartIs
  <2>2. \A k \in 1..A : z[k] = p[k]  BY ApartIs
  <2>3. \A k \in 1..B : z[A + 1 + k] = q[k]  BY ApartIs
  <2> QED  BY <2>1, <2>2, <2>3
<1>2. A \in Nat /\ B \in Nat /\ (\A k \in 1..A : p[k] \in S) /\ (\A k \in 1..B : q[k] \in S)  OBVIOUS
<1> HIDE DEF z
<1>3. SubSeq(z, 1, a - 1) = p
  <2> DEFINE u == SubSeq(z, 1, a - 1)
  <2>1. a - 1 = A /\ A \in 0..Len(z)  BY <1>1, <1>2
  <2>2. u \in Seq(S) /\ Len(u) = A /\ \A k \in 1..A : u[k] = z[k]  BY <1>1, <2>1, Halves
  <2> HIDE DEF u
  <2>3. u = p  BY <1>1, <2>2, SameSequence
  <2> QED  BY <2>3 DEF u
<1>4. SubSeq(z, a + 1, Len(z)) = q
  <2> DEFINE u == SubSeq(z, a + 1, Len(z))
  <2>1. a \in 0..Len(z) /\ Len(z) - a = B  BY <1>1, <1>2
  <2>2. u \in Seq(S) /\ Len(u) = B /\ \A k \in 1..B : u[k] = z[a + k]  BY <1>1, <2>1, Halves
  <2> HIDE DEF u
  <2>3. \A k \in 1..B : u[k] = q[k]  BY <1>1, <2>2
  <2>4. u = q  BY <2>2, <2>3, SameSequence
  <2> QED  BY <2>4 DEF u
<1>5. RemoveAt(z, a) = p \o q  BY <1>3, <1>4 DEF RemoveAt
<1>6. a \in 1..Len(z) /\ z[a] = m  BY <1>1, <1>2
<1> QED  BY <1>3, <1>4, <1>5, <1>6 DEF z, A, a

\* replacing it, putting one in.
LEMMA ApartOps ==
  ASSUME NEW S, NEW p \in Seq(S), NEW q \in Seq(S), NEW m \in S, NEW e \in S
  PROVE  LET z == Apart(p, m, q)
             a == Len(p) + 1
         IN  /\ [z EXCEPT ![a] = e] = Apart(p, e, q)
             /\ InsertAt(p \o q, a, e) = Apart(p, e, q)
<1> DEFINE z == Apart(p, m, q)
           A == Len(p)
           B == Len(q)
           a == A + 1
<1>1. /\ z \in Seq(S) /\ Len(z) = A + 1 + B /\ z[A + 1] = m
      /\ \A k \in 1..A : z[k] = p[k]
      /\ \A k \in 1..B : z[A + 1 + k] = q[k]
  <2>1. z \in Seq(S) /\ Len(z) = A + 1 + B /\ z[A + 1] = m  BY ApartIs
  <2>2. \A k \in 1..A : z[k] = p[k]  BY ApartIs
  <2>3. \A k \in 1..B : z[A + 1 + k] = q[k]  BY ApartIs
  <2> QED  BY <2>1, <2>2, <2>3
<1>2. A \in Nat /\ B \in Nat /\ (\A k \in 1..A : p[k] \in S) /\ (\A k \in 1..B : q[k] \in S)  OBVIOUS
<1> HIDE DEF z
<1>3. [z EXCEPT ![a] = e] = Apart(p, e, q)
  <2> DEFINE y == [z EXCEPT ![a] = e]
  <2>1. a \in 1..Len(z)  BY <1>1, <1>2
  <2>2. y \in Seq(S) /\ Len(y) = Len(z) /\ y[a] = e /\ \A k \in 1..Len(z) : k # a => y[k] = z[k]
    <3>1. DOMAIN z = 1..Len(z) /\ Len(z) \in Nat /\ \A k \in 1..Len(z) : z[k] \in S  BY <1>1
    <3>2. y = [k \in 1..Len(z) |-> IF k = a THEN e ELSE z[k]]  BY <2>1, <3>1
    <3>3. y[a] = e /\ \A k \in 1..Len(z) : k # a => y[k] = z[k]  BY <2>1, <3>2
    <3>4. \A k \in 1..Len(z) : y[k] \in S  BY <3>1, <3>3
    <3>5. DOMAIN y = 1..Len(z)  BY <3>2
    <3> HIDE DEF y
    <3>6. y \in [1..Len(z) -> S]
      <4>1. y = [k \in 1..Len(z) |-> y[k]]  BY <3>2
      <4> QED  BY <3>4, <4>1
    <3> QED  BY <3>1, <3>3, <3>6
  <2> HIDE DEF y
  <2>3. \A k \in 1..A : y[k] = p[k]
    <3> SUFFICES ASSUME NEW k \in 1..A  PROVE y[k] = p[k]
      OBVIOUS
    <3>1. k \in 1..Len(z) /\ k # a  BY <1>1, <1>2
    <3> QED  BY <1>1, <2>2, <3>1
  <2>4. \A k \in 1..B : y[A + 1 + k] = q[k]
    <3> SUFFICES ASSUME NEW k \in 1..B  PROVE y[A + 1 + k] = q[k]
      OBVIOUS
    <3>1. A + 1 + k \in 1..Len(z) /\ A + 1 + k # a  BY <1>1, <1>2
    <3> QED  BY <1>1, <2>2, <3>1
  <2>5. Len(y) = A + 1 + B  BY <1>1, <2>2
  <2>6. /\ p \in Seq(S) /\ q \in Seq(S) /\ e \in S /\ y \in Seq(S)
        /\ Len(y) = Len(p) + 1 + Len(q) /\ y[Len(p) + 1] = e
    BY <1>1, <1>2, <2>2, <2>5
  <2>7. y = Apart(p, e, q)  BY ONLY <2>3, <2>4, <2>6, IsApart
  <2> QED  BY <2>7 DEF y
<1>4. InsertAt(p \o q, a, e) = Apart(p, e, q)
  <2> DEFINE w == p \o q
             y == InsertAt(w, a, e)
  <2>1. /\ w \in Seq(S) /\ Len(w) = A + B
        /\ \A k \in 1..A : w[k] = p[k]
        /\ \A k \in 1..B : w[A + k] = q[k]
    BY JoinIs
  <2> HIDE DEF w
  <2>2. a \in 1..Len(w) + 1  BY <1>2, <2>1
  <2>3. /\ y \in Seq(S) /\ Len(y) = Len(w) + 1 /\ y[a] = e
        /\ \A n \in 1..Len(w) : n < a => y[n] = w[n]
        /\ \A n \in 1..Len(w) : n >= a => y[n + 1] = w[n]
    <3>1. w \in Seq(S) /\ e \in S /\ a \in 1..Len(w) + 1  BY <2>1, <2>2
    <3> QED  BY ONLY <3>1, InsertAtIs
  <2> HIDE DEF y
  <2>4. \A k \in 1..A : y[k] = p[k]
    <3> SUFFICES ASSUME NEW k \in 1..A  PROVE y[k] = p[k]
      OBVIOUS
    <3>1. k \in 1..Len(w) /\ k < a  BY <1>2, <2>1
    <3> QED  BY <2>1, <2>3, <3>1
  <2>5. \A k \in 1..B : y[A + 1 + k] = q[k]
    <3> SUFFICES ASSUME NEW k \in 1..B  PROVE y[A + 1 + k] = q[k]
      OBVIOUS
    <3>1. A + k \in 1..Len(w) /\ A + k >= a /\ (A + k) + 1 = A + 1 + k  BY <1>2, <2>1
    <3> QED  BY <2>1, <2>3, <3>1
  <2>6. Len(y) = A + 1 + B  BY <1>2, <2>1, <2>3
  <2>7. y = Apart(p, e, q)  BY <2>3, <2>4, <2>5, <2>6, IsApart
  <2> QED  BY <2>7 DEF y, w
<1> QED  BY <1>3, <1>4 DEF z, A, a

\* The same for shapes and indices.
LEMMA AxisParts ==
  ASSUME NEW p \in Seq(Nat), NEW q \in Seq(Nat), NEW m \in Nat
  PROVE  LET z == Apart(p, m, q)
             a == Len(p) + 1
         IN  /\ z \in Seq(Nat) /\ Len(z) = Len(p) + 1 + Len(q) /\ a \in 1..Len(z) /\ z[a] = m
             /\ SubSeq(z, 1, a - 1) = p /\ SubSeq(z, a + 1, Len(z)) = q
             /\ RemoveAt(z, a) = p \o q
<1>1. \A S : \A u, v \in Seq(S) : \A w \in S :
        /\ Apart(u, w, v) \in Seq(S) /\ Len(Apart(u, w, v)) = Len(u) + 1 + Len(v)
        /\ Len(u) + 1 \in 1..Len(Apart(u, w, v)) /\ Apart(u, w, v)[Len(u) + 1] = w
        /\ SubSeq(Apart(u, w, v), 1, Len(u) + 1 - 1) = u
        /\ SubSeq(Apart(u, w, v), Len(u) + 1 + 1, Len(Apart(u, w, v))) = v
        /\ RemoveAt(Apart(u, w, v), Len(u) + 1) = u \o v
  <2> SUFFICES ASSUME NEW S, NEW u \in Seq(S), NEW v \in Seq(S), NEW w \in S
               PROVE  /\ Apart(u, w, v) \in Seq(S) /\ Len(Apart(u, w, v)) = Len(u) + 1 + Len(v)
                      /\ Len(u) + 1 \in 1..Len(Apart(u, w, v)) /\ Apart(u, w, v)[Len(u) + 1] = w
                      /\ SubSeq(Apart(u, w, v), 1, Len(u) + 1 - 1) = u
                      /\ SubSeq(Apart(u, w, v), Len(u) + 1 + 1, Len(Apart(u, w, v))) = v
                      /\ RemoveAt(Apart(u, w, v), Len(u) + 1) = u \o v
    OBVIOUS
  <2>1. Apart(u, w, v) \in Seq(S) /\ Len(Apart(u, w, v)) = Len(u) + 1 + Len(v)  BY ApartIs
  <2>2. Len(u) + 1 \in 1..Len(Apart(u, w, v)) /\ Apart(u, w, v)[Len(u) + 1] = w  BY ApartParts
  <2>3. SubSeq(Apart(u, w, v), 1, Len(u) + 1 - 1) = u  BY ApartParts
  <2>4. SubSeq(Apart(u, w, v), Len(u) + 1 + 1, Len(Apart(u, w, v))) = v  BY ApartParts
  <2>5. RemoveAt(Apart(u, w, v), Len(u) + 1) = u \o v  BY ApartParts
  <2> QED  BY <2>1, <2>2, <2>3, <2>4, <2>5
<1>2. \A u, v \in Seq(Nat) : \A w \in Nat :
        /\ Apart(u, w, v) \in Seq(Nat) /\ Len(Apart(u, w, v)) = Len(u) + 1 + Len(v)
        /\ Len(u) + 1 \in 1..Len(Apart(u, w, v)) /\ Apart(u, w, v)[Len(u) + 1] = w
        /\ SubSeq(Apart(u, w, v), 1, Len(u) + 1 - 1) = u
        /\ SubSeq(Apart(u, w, v), Len(u) + 1 + 1, Len(Apart(u, w, v))) = v
        /\ RemoveAt(Apart(u, w, v), Len(u) + 1) = u \o v
  BY <1>1
<1> QED  BY <1>2

LEMMA AxisOps ==
  ASSUME NEW p \in Seq(Nat), NEW q \in Seq(Nat), NEW m \in Nat, NEW e \in Nat
  PROVE  LET z == Apart(p, m, q)
             a == Len(p) + 1
         IN  /\ [z EXCEPT ![a] = e] = Apart(p, e, q)
             /\ InsertAt(p \o q, a, e) = Apart(p, e, q)
<1>1. \A S : \A u, v \in Seq(S) : \A w, c \in S :
        /\ [Apart(u, w, v) EXCEPT ![Len(u) + 1] = c] = Apart(u, c, v)
        /\ InsertAt(u \o v, Len(u) + 1, c) = Apart(u, c, v)
  BY ApartOps
<1>2. \A u, v \in Seq(Nat) : \A w, c \in Nat :
        /\ [Apart(u, w, v) EXCEPT ![Len(u) + 1] = c] = Apart(u, c, v)
        /\ InsertAt(u \o v, Len(u) + 1, c) = Apart(u, c, v)
  BY <1>1
<1> QED  BY <1>2

\* Every sequence has each of its items apart.
LEMMA TakenApart ==
  ASSUME NEW S, NEW s \in Seq(S), NEW a \in 1..Len(s)
  PROVE  LET p == SubSeq(s, 1, a - 1)
             q == SubSeq(s, a + 1, Len(s))
         IN  /\ p \in Seq(S) /\ q \in Seq(S) /\ Len(p) = a - 1 /\ Len(q) = Len(s) - a /\ s[a] \in S
             /\ s = Apart(p, s[a], q)
             /\ \A k \in 1..a - 1 : p[k] = s[k]
             /\ \A k \in 1..Len(s) - a : q[k] = s[a + k]
<1> DEFINE p == SubSeq(s, 1, a - 1)
           q == SubSeq(s, a + 1, Len(s))
<1>1. a \in Nat /\ Len(s) \in Nat /\ a - 1 \in 0..Len(s) /\ a \in 0..Len(s) /\ s[a] \in S  OBVIOUS
<1>2. p \in Seq(S) /\ Len(p) = a - 1 /\ \A k \in 1..a - 1 : p[k] = s[k]  BY <1>1, Halves
<1>3. q \in Seq(S) /\ Len(q) = Len(s) - a /\ \A k \in 1..Len(s) - a : q[k] = s[a + k]  BY <1>1, Halves
<1> HIDE DEF p, q
<1>4. Len(s) = Len(p) + 1 + Len(q) /\ Len(p) + 1 = a  BY <1>1, <1>2, <1>3
<1>5. \A k \in 1..Len(q) : s[Len(p) + 1 + k] = q[k]  BY <1>3, <1>4
<1>6. \A k \in 1..Len(p) : s[k] = p[k]  BY <1>2
<1>7. s = Apart(p, s[a], q)  BY <1>1, <1>2, <1>3, <1>4, <1>5, <1>6, IsApart
<1> QED  BY <1>1, <1>2, <1>3, <1>7 DEF p, q

\* The items of a shape taken apart, which determine it.
Comprises(z, p, m, q) == ItemsOf(Nat, z, p, m, q)

LEMMA ShapeItems ==
  ASSUME NEW p \in Seq(Nat), NEW q \in Seq(Nat), NEW m \in Nat
  PROVE  Comprises(Apart(p, m, q), p, m, q)
<1>1. \A S : \A u, v \in Seq(S) : \A w \in S : ItemsOf(S, Apart(u, w, v), u, w, v)
  <2> SUFFICES ASSUME NEW S, NEW u \in Seq(S), NEW v \in Seq(S), NEW w \in S
               PROVE  ItemsOf(S, Apart(u, w, v), u, w, v)
    OBVIOUS
  <2> DEFINE z == Apart(u, w, v)
  <2>1. z \in Seq(S) /\ Len(z) = Len(u) + 1 + Len(v) /\ z[Len(u) + 1] = w  BY ApartIs
  <2>2. \A k \in 1..Len(u) : z[k] = u[k]  BY ApartIs
  <2>3. \A k \in 1..Len(v) : z[Len(u) + 1 + k] = v[k]  BY ApartIs
  <2> QED  BY <2>1, <2>2, <2>3 DEF ItemsOf
<1>2. \A u, v \in Seq(Nat) : \A w \in Nat : ItemsOf(Nat, Apart(u, w, v), u, w, v)  BY <1>1
<1> QED  BY <1>2 DEF Comprises

LEMMA ShapeOfItems ==
  ASSUME NEW p \in Seq(Nat), NEW q \in Seq(Nat), NEW m \in Nat, NEW z, Comprises(z, p, m, q)
  PROVE  z = Apart(p, m, q)
<1>1. \A S : \A u, v \in Seq(S) : \A w \in S : \A y : ItemsOf(S, y, u, w, v) => y = Apart(u, w, v)
  <2> SUFFICES ASSUME NEW S, NEW u \in Seq(S), NEW v \in Seq(S), NEW w \in S, NEW y, ItemsOf(S, y, u, w, v)
               PROVE  y = Apart(u, w, v)
    OBVIOUS
  <2> QED  BY ItemsApart
<1>2. \A u, v \in Seq(Nat) : \A w \in Nat : \A y : ItemsOf(Nat, y, u, w, v) => y = Apart(u, w, v)  BY <1>1
<1> QED  BY <1>2 DEF Comprises

\* The parts of an index that is longer.
LEMMA IndexJoined ==
  ASSUME NEW p \in Seq(Nat), NEW r \in Seq(Nat), NEW i \in Indices(p \o r)
  PROVE  LET x == SubSeq(i, 1, Len(p))
             y == SubSeq(i, Len(p) + 1, Len(i))
         IN  x \in Indices(p) /\ y \in Indices(r) /\ i = x \o y
<1> DEFINE s == p \o r
           A == Len(p)
           B == Len(r)
           x == SubSeq(i, 1, A)
           y == SubSeq(i, A + 1, Len(i))
<1>1. /\ s \in Seq(Nat) /\ Len(s) = A + B /\ (\A k \in 1..A : s[k] = p[k])
      /\ \A k \in 1..B : s[A + k] = r[k]
  BY JoinIs
<1>2. A \in Nat /\ B \in Nat  OBVIOUS
<1>3. i \in Indices(s)  OBVIOUS
<1> HIDE DEF s
<1>4. i \in Seq(Nat) /\ Len(i) = A + B /\ \A k \in 1..A + B : i[k] \in Nat /\ i[k] < s[k]
  <2>1. \A t \in Seq(Nat) : \A j \in Indices(t) :
          j \in Seq(Nat) /\ Len(j) = Len(t) /\ \A k \in 1..Len(t) : j[k] \in Nat /\ j[k] < t[k]
    BY IndexTypes
  <2> QED  BY <1>1, <1>3, <2>1
<1>5. A \in 0..Len(i) /\ Len(i) - A = B  BY <1>2, <1>4
<1>6. /\ x \in Seq(Nat) /\ y \in Seq(Nat) /\ Len(x) = A /\ Len(y) = B
      /\ (\A k \in 1..A : x[k] = i[k]) /\ (\A k \in 1..B : y[k] = i[A + k])
      /\ x \o y = i
  <2>1. /\ x \in Seq(Nat) /\ y \in Seq(Nat) /\ Len(x) = A /\ Len(y) = Len(i) - A
        /\ (\A k \in 1..A : x[k] = i[k]) /\ (\A k \in 1..Len(i) - A : y[k] = i[A + k])
        /\ x \o y = i
    BY <1>4, <1>5, Halves
  <2> HIDE DEF x, y
  <2> QED  BY <1>5, <2>1
<1> HIDE DEF x, y, A, B
<1>7. x \in Indices(p)
  <2>1. \A k \in 1..A : x[k] < p[k]
    <3> SUFFICES ASSUME NEW k \in 1..A  PROVE x[k] < p[k]
      OBVIOUS
    <3>1. k \in 1..A + B  BY <1>2
    <3> QED  BY <1>1, <1>4, <1>6, <3>1
  <2>2. x \in [1..A -> Nat]  BY <1>6
  <2> QED  BY <2>1, <2>2, IndicesAre DEF A
<1>8. y \in Indices(r)
  <2>1. \A k \in 1..B : y[k] < r[k]
    <3> SUFFICES ASSUME NEW k \in 1..B  PROVE y[k] < r[k]
      OBVIOUS
    <3>1. A + k \in 1..A + B  BY <1>2
    <3> QED  BY <1>1, <1>4, <1>6, <3>1
  <2>2. y \in [1..B -> Nat]  BY <1>6
  <2> QED  BY <2>1, <2>2, IndicesAre DEF B
<1> QED  BY <1>6, <1>7, <1>8 DEF x, y, A

\* Shapes and indices of one axis.
LEMMA OneAxis ==
  ASSUME NEW m \in Nat
  PROVE  /\ <<m>> \in Seq(Nat) /\ Len(<<m>>) = 1 /\ <<m>>[1] = m /\ Product(<<m>>) = m
         /\ \A v \in 0..m - 1 : <<v>> \in Indices(<<m>>) /\ Position(<<m>>, <<v>>) = v
         /\ \A i \in Indices(<<m>>) : i[1] \in 0..m - 1 /\ i = <<i[1]>> /\ Position(<<m>>, i) = i[1]
<1> DEFINE s == <<m>>
<1>1. s \in Seq(Nat) /\ Len(s) = 1 /\ s[1] = m  OBVIOUS
<1> HIDE DEF s
<1>2. Weight(s, 1) = 1 /\ Weight(s, 0) = Product(s) /\ Weight(s, 0) = s[1] * Weight(s, 1)
  <2>1. 1 \in 1..Len(s)  BY <1>1
  <2>2. \A k \in 1..Len(s) : Weight(s, k - 1) = s[k] * Weight(s, k)  BY <1>1, Weights
  <2>3. Weight(s, 0) = Product(s) /\ Weight(s, Len(s)) = 1  BY <1>1, Weights
  <2>4. Weight(s, 1 - 1) = s[1] * Weight(s, 1) /\ 1 - 1 = 0  BY <2>1, <2>2
  <2> QED  BY <1>1, <2>3, <2>4
<1>3. Product(s) = m  BY <1>1, <1>2
<1>4. ASSUME NEW i \in Indices(s)  PROVE i[1] \in 0..m - 1 /\ i = <<i[1]>> /\ Position(s, i) = i[1]
  <2>1. i \in Seq(Nat) /\ Len(i) = 1 /\ i[1] \in Nat /\ i[1] < m
    <3>1. 1 \in 1..Len(s)  BY <1>1
    <3> QED  BY <1>1, <3>1, IndexTypes
  <2>2. i = <<i[1]>>
    <3> DEFINE j == <<i[1]>>
    <3>1. j \in Seq(Nat) /\ Len(j) = 1 /\ j[1] = i[1]  BY <2>1
    <3> HIDE DEF j
    <3>2. \A k \in 1..Len(i) : i[k] = j[k]  BY <2>1, <3>1
    <3>3. i = j  BY <2>1, <3>1, <3>2, SameSequence
    <3> QED  BY <3>3 DEF j
  <2> DEFINE t == [k \in DOMAIN CStrides(s) |-> i[k] * CStrides(s)[k]]
  <2>3. t \in Seq(Int) /\ Len(t) = Len(s) /\ t[1] = i[1] * Weight(s, 1) /\ Position(s, i) = Total(t)
    <3>1. 1 \in 1..Len(s)  BY <1>1
    <3>2. /\ t \in Seq(Int) /\ Len(t) = Len(s) /\ \A k \in 1..Len(s) : t[k] = i[k] * Weight(s, k)
          /\ Position(s, i) = Sums(t)[Len(s)]
      BY <1>1, DotInOrder DEF Position
    <3> QED  BY <3>1, <3>2 DEF Total
  <2> HIDE DEF t
  <2>4. Total(t) = t[1]
    <3>1. 1 \in 1..Len(t) /\ \A k \in 1..Len(t) : k # 1 => t[k] = 0  BY <1>1, <2>3
    <3> QED  BY <2>3, <3>1, SumOfOne
  <2>5. t[1] = i[1]  BY <1>2, <2>1, <2>3
  <2> QED  BY <2>1, <2>2, <2>3, <2>4, <2>5
<1>5. ASSUME NEW v \in 0..m - 1  PROVE <<v>> \in Indices(s) /\ Position(s, <<v>>) = v
  <2> DEFINE j == <<v>>
  <2>1. j \in [1..1 -> Nat] /\ j[1] = v
    <3>1. v \in Nat  OBVIOUS
    <3>2. j \in Seq(Nat) /\ Len(j) = 1 /\ j[1] = v  BY <3>1
    <3> HIDE DEF j
    <3> QED  BY <3>2
  <2> HIDE DEF j
  <2>2. \A k \in 1..Len(s) : j[k] < s[k]  BY <1>1, <2>1
  <2>3. j \in Indices(s)  BY <1>1, <2>1, <2>2, IndicesAre
  <2>4. Position(s, j) = v  BY <1>4, <2>1, <2>3
  <2> QED  BY <2>3, <2>4 DEF j
<1> QED  BY <1>1, <1>3, <1>4, <1>5 DEF s

\* A shape with an axis apart,
LEMMA AxisWeights ==
  ASSUME NEW p \in Seq(Nat), NEW q \in Seq(Nat), NEW m \in Nat
  PROVE  LET s == Apart(p, m, q) IN
         /\ s \in Seq(Nat) /\ Len(s) = Len(p) + 1 + Len(q) /\ s[Len(p) + 1] = m
         /\ Product(s) = Product(p) * (m * Product(q))
         /\ Weight(s, Len(p) + 1) = Product(q)
<1> DEFINE r == <<m>> \o q
           s == p \o r
<1>1. /\ r \in Seq(Nat) /\ Len(r) = 1 + Len(q) /\ Product(r) = m * Product(q)
      /\ Weight(r, 1) = Weight(q, 0)
  <2> DEFINE o == <<m>>
  <2>1. o \in Seq(Nat) /\ Len(o) = 1 /\ Product(o) = m  BY OneAxis
  <2> HIDE DEF o
  <2>2. /\ o \o q \in Seq(Nat) /\ Len(o \o q) = Len(o) + Len(q)
        /\ Product(o \o q) = Product(o) * Product(q)
        /\ \A k \in 0..Len(q) : Weight(o \o q, Len(o) + k) = Weight(q, k)
    BY <2>1, JoinedWeights
  <2>3. 0 \in 0..Len(q)  OBVIOUS
  <2>4. Weight(o \o q, 1 + 0) = Weight(q, 0)  BY <2>1, <2>2, <2>3
  <2> QED  BY <2>1, <2>2, <2>4 DEF o
<1>2. s \in Seq(Nat) /\ Len(s) = Len(p) + 1 + Len(q) /\ s[Len(p) + 1] = m
  <2> DEFINE y == Apart(p, m, q)
  <2>1. y \in Seq(Nat) /\ Len(y) = Len(p) + 1 + Len(q) /\ y[Len(p) + 1] = m  BY ApartIs
  <2>2. y = s  BY DEF Apart
  <2> QED  BY <2>1, <2>2
<1> HIDE DEF r
<1>3. /\ Product(s) = Product(p) * Product(r)
      /\ \A k \in 0..Len(r) : Weight(s, Len(p) + k) = Weight(r, k)
  BY <1>1, JoinedWeights
<1> HIDE DEF s
<1>4. 1 \in 0..Len(r)  BY <1>1
<1>5. Weight(q, 0) = Product(q)  BY Weights
<1> QED  BY <1>1, <1>2, <1>3, <1>4, <1>5 DEF s, r, Apart

\* and the place of an index with the coordinate on it apart.
LEMMA AxisPlace ==
  ASSUME NEW p \in Seq(Nat), NEW q \in Seq(Nat), NEW m \in Nat,
         NEW x \in Indices(p), NEW v \in 0..m - 1, NEW y \in Indices(q)
  PROVE  /\ Apart(x, v, y) \in Indices(Apart(p, m, q))
         /\ Position(Apart(p, m, q), Apart(x, v, y))
              = (Position(p, x) * m + v) * Product(q) + Position(q, y)
<1> DEFINE r == <<m>> \o q
           j == <<v>> \o y
<1>1. /\ j \in Indices(r)
      /\ Position(r, j) = v * Product(q) + Position(q, y)
  <2> DEFINE o == <<m>>
             w == <<v>>
  <2>1. o \in Seq(Nat) /\ w \in Indices(o) /\ Position(o, w) = v  BY OneAxis
  <2> HIDE DEF o, w
  <2>2. w \o y \in Indices(o \o q) /\ Position(o \o q, w \o y) = Position(o, w) * Product(q) + Position(q, y)
    BY <2>1, JoinedPlace
  <2> QED  BY <2>1, <2>2 DEF o, w
<1>2. r \in Seq(Nat) /\ Product(r) = m * Product(q)
  <2> DEFINE o == <<m>>
  <2>1. o \in Seq(Nat) /\ Product(o) = m  BY OneAxis
  <2> HIDE DEF o
  <2>2. o \o q \in Seq(Nat) /\ Product(o \o q) = Product(o) * Product(q)  BY <2>1, JoinedWeights
  <2> QED  BY <2>1, <2>2 DEF o
<1> HIDE DEF r, j
<1>3. x \o j \in Indices(p \o r) /\ Position(p \o r, x \o j) = Position(p, x) * Product(r) + Position(r, j)
  BY <1>1, <1>2, JoinedPlace
<1> DEFINE X == Position(p, x)
           Y == Position(q, y)
           Q == Product(q)
<1>4. X \in Int /\ Y \in Int /\ Q \in Int  BY DotInBlock, ProductsDef DEF Position
<1> HIDE DEF X, Y, Q
<1>5. X * (m * Q) + (v * Q + Y) = (X * m + v) * Q + Y
  <2>1. \A a, b, c, d, e \in Int : a * (b * c) + (d * c + e) = (a * b + d) * c + e  OBVIOUS
  <2> QED  BY <1>4, <2>1
<1> QED  BY <1>1, <1>2, <1>3, <1>5 DEF r, j, X, Y, Q, Apart

\* Every index has its coordinate on an axis apart.
LEMMA IndexApart ==
  ASSUME NEW p \in Seq(Nat), NEW q \in Seq(Nat), NEW m \in Nat, NEW i \in Indices(Apart(p, m, q))
  PROVE  \E x \in Indices(p), v \in 0..m - 1, y \in Indices(q) : i = Apart(x, v, y)
<1> DEFINE r == <<m>> \o q
<1>1. r \in Seq(Nat) /\ i \in Indices(p \o r)
  <2>1. <<m>> \in Seq(Nat)  BY OneAxis
  <2> QED  BY <2>1 DEF Apart
<1>2. \A t \in Seq(Nat) : \A n \in Indices(p \o t) : \E x \in Indices(p), z \in Indices(t) : n = x \o z
  BY IndexJoined
<1>3. PICK x \in Indices(p), z \in Indices(r) : i = x \o z
  <2> HIDE DEF r
  <2> QED  BY <1>1, <1>2
<1>4. \E v \in 0..m - 1, y \in Indices(q) : z = <<v>> \o y
  <2> DEFINE o == <<m>>
  <2>1. o \in Seq(Nat) /\ \A w \in Indices(o) : w[1] \in 0..m - 1 /\ w = <<w[1]>>  BY OneAxis
  <2>2. z \in Indices(o \o q)  BY <1>3
  <2> HIDE DEF o
  <2>3. \A t \in Seq(Nat) : \A n \in Indices(t \o q) : \E w \in Indices(t), y \in Indices(q) : n = w \o y
    BY IndexJoined
  <2>4. PICK w \in Indices(o), y \in Indices(q) : z = w \o y  BY <2>1, <2>2, <2>3
  <2> QED  BY <2>1, <2>4
<1> QED  BY <1>3, <1>4 DEF Apart

-----------------------------------------------------------------------------
(* Arrays and what they are to NumPy.                                      *)

\* The results of a kernel are arrays, and what NumPy makes.
Faithful(results, expected) ==
  \A r \in results : IsArray(r) /\ expected = {IdealOf(r)}

\* Whatever is refused here is refused by NumPy, save for arrays without
\* elements, 0-d ones and those of MAX_NDIM dimensions.
Justified(results, expected, a) ==
  results = {} /\ Size(a) > 0 /\ Ndim(a.shape) \in 1..MAX_NDIM - 1 => expected = {}

\* Places are those of the data.
LEMMA PlaceIs ==
  ASSUME NEW shape \in Seq(Nat), NEW i \in Indices(shape)
  PROVE  /\ Position(shape, i) \in 0..Product(shape) - 1
         /\ Position(shape, i) + 1 \in 1..Product(shape)
<1>1. Position(shape, i) \in 0..Product(shape) - 1 /\ Product(shape) \in Nat
  BY DotInBlock, ProductsDef DEF Position
<1> QED  BY <1>1

\* What an array is.
LEMMA ArrayFacts ==
  ASSUME NEW a, IsArray(a)
  PROVE  /\ a.shape \in Seq(Nat) /\ a.data \in Seq(Value) /\ Len(a.shape) =< MAX_NDIM
         /\ a = Array(a.shape, a.data) /\ Size(a) \in Nat
         /\ Len(a.data) = Product(a.shape) /\ DOMAIN a.data = 1..Product(a.shape)
         /\ \A k \in 1..Product(a.shape) : a.data[k] \in Value
         /\ \A i \in Indices(a.shape) : a.data[Position(a.shape, i) + 1] \in Value
<1>1. /\ a.shape \in Seq(Nat) /\ a.data \in Seq(Value) /\ Len(a.shape) =< MAX_NDIM
      /\ a = Array(a.shape, a.data) /\ Len(a.data) = Product(a.shape)
  BY DEF IsArray, Array, Size, Ndim
<1>2. Size(a) \in Nat  BY <1>1, ProductsDef DEF Size
<1>3. DOMAIN a.data = 1..Product(a.shape) /\ \A k \in 1..Product(a.shape) : a.data[k] \in Value  BY <1>1
<1>4. \A i \in Indices(a.shape) : Position(a.shape, i) + 1 \in 1..Product(a.shape)  BY <1>1, PlaceIs
<1> QED  BY <1>1, <1>2, <1>3, <1>4

\* What makes one.
LEMMA ArrayMade ==
  ASSUME NEW shape \in Seq(Nat), NEW data \in Seq(Value), Len(shape) =< MAX_NDIM,
         Len(data) = Product(shape)
  PROVE  /\ IsArray(Array(shape, data))
         /\ Array(shape, data).shape = shape /\ Array(shape, data).data = data
BY DEF IsArray, Array, Size, Ndim

\* An array is NumPy's if its data has each element at its place.
LEMMA IdealIs ==
  ASSUME NEW shape, NEW data, NEW at, at = [i \in Indices(shape) |-> at[i]],
         \A i \in Indices(shape) : data[Position(shape, i) + 1] = at[i]
  PROVE  IdealOf(Array(shape, data)) = Ideal(shape, at)
BY DEF IdealOf, Array

\* NumPy's view of an array: its shape, its indices and its elements.
LEMMA IdealFacts ==
  ASSUME NEW a
  PROVE  /\ IdealOf(a).shape = a.shape /\ DOMAIN IdealOf(a).at = Indices(a.shape)
         /\ \A i \in Indices(a.shape) : IdealOf(a).at[i] = a.data[Position(a.shape, i) + 1]
BY DEF IdealOf, Ideal

\* Flat undoes it.
LEMMA FlatIdeal ==
  ASSUME NEW a, IsArray(a)
  PROVE  Flat(IdealOf(a)) = a.data
<1> DEFINE n == Product(a.shape)
<1>1. a.shape \in Seq(Nat) /\ a.data \in Seq(Value) /\ Len(a.data) = n /\ n \in Nat
  BY ArrayFacts, ProductsDef
<1>2. Flat(IdealOf(a)) = [k \in 1..n |-> IdealOf(a).at[Unravel(a.shape, k - 1)]]  BY IdealFacts DEF Flat
<1>3. ASSUME NEW k \in 1..n  PROVE IdealOf(a).at[Unravel(a.shape, k - 1)] = a.data[k]
  <2>1. k - 1 \in 0..n - 1 /\ (k - 1) + 1 = k  BY <1>1
  <2>2. Unravel(a.shape, k - 1) \in Indices(a.shape) /\ Position(a.shape, Unravel(a.shape, k - 1)) = k - 1
    BY <1>1, <2>1, UnravelPlace DEF Position
  <2>3. IdealOf(a).at[Unravel(a.shape, k - 1)] = a.data[(k - 1) + 1]  BY <2>2, IdealFacts
  <2> QED  BY <2>1, <2>3
<1>4. a.data = [k \in 1..n |-> a.data[k]]
  <2>1. DOMAIN a.data = 1..n  BY ArrayFacts
  <2> QED  BY <1>1, <2>1
<1> HIDE DEF n
<1> QED  BY <1>2, <1>3, <1>4

\* What NumPy makes for lightarray is faithful.
LEMMA FromNumpyIs ==
  ASSUME NEW shape \in Seq(Nat), Len(shape) =< MAX_NDIM, NEW at \in [Indices(shape) -> Value]
  PROVE  LET x == Ideal(shape, at) IN
         /\ Faithful(FromNumpy({x}), {x}) /\ FromNumpy({x}) # {}
<1> DEFINE x == Ideal(shape, at)
           n == Product(shape)
           d == [k \in 1..n |-> at[Unravel(shape, k - 1)]]
<1>1. n \in Nat  BY ProductsDef
<1>2. FromNumpy({x}) = {Array(shape, d)}
  <2>1. x.shape = shape /\ x.at = at  BY DEF Ideal
  <2> HIDE DEF x
  <2>2. Flat(x) = d  BY <2>1 DEF Flat
  <2> HIDE DEF d
  <2>3. FromNumpy({x}) = {Array(x.shape, Flat(x))}  BY DEF FromNumpy
  <2> QED  BY <2>1, <2>2, <2>3
<1>3. d \in Seq(Value) /\ Len(d) = n
  <2>1. \A k \in 1..n : k - 1 \in 0..n - 1  BY <1>1
  <2>2. \A k \in 1..n : Unravel(shape, k - 1) \in Indices(shape)  BY <2>1, UnravelPlace
  <2>3. \A k \in 1..n : at[Unravel(shape, k - 1)] \in Value  BY <2>2
  <2>4. d \in [1..n -> Value]  BY <2>3
  <2> HIDE DEF d
  <2> QED  BY <1>1, <2>4
<1>4. ASSUME NEW i \in Indices(shape)  PROVE d[Position(shape, i) + 1] = at[i]
  <2> DEFINE k == Position(shape, i)
  <2>1. k + 1 \in 1..n /\ k \in Int  BY PlaceIs
  <2>2. Unravel(shape, k) = i  BY PlaceUnraveled DEF Position
  <2> HIDE DEF k
  <2>3. (k + 1) - 1 = k  BY <2>1
  <2>4. d[k + 1] = at[Unravel(shape, (k + 1) - 1)]  BY <2>1
  <2> QED  BY <2>2, <2>3, <2>4 DEF k
<1> HIDE DEF d, n
<1>5. IsArray(Array(shape, d))  BY <1>3, ArrayMade DEF n
<1>6. at = [i \in Indices(shape) |-> at[i]]  OBVIOUS
<1>7. IdealOf(Array(shape, d)) = x  BY <1>4, <1>6, IdealIs
<1> HIDE DEF x
<1>8. Faithful(FromNumpy({x}), {x})  BY <1>2, <1>5, <1>7 DEF Faithful
<1> QED  BY <1>2, <1>8 DEF x

\* Results of one axis.
LEMMA OneAxisIdeal ==
  ASSUME NEW n \in Nat, NEW data \in Seq(Value), Len(data) = n
  PROVE  /\ IsArray(Array(<<n>>, data))
         /\ IdealOf(Array(<<n>>, data)) = Ideal(<<n>>, [i \in Indices(<<n>>) |-> data[i[1] + 1]])
<1> DEFINE s == <<n>>
           at == [i \in Indices(s) |-> data[i[1] + 1]]
<1>1. /\ s \in Seq(Nat) /\ Len(s) = 1 /\ Product(s) = n
      /\ \A i \in Indices(s) : i[1] \in 0..n - 1 /\ Position(s, i) = i[1]
  BY OneAxis
<1> HIDE DEF s
<1>2. Len(s) =< MAX_NDIM  BY <1>1, KernelsAssumption
<1>3. IsArray(Array(s, data))  BY <1>1, <1>2, ArrayMade
<1>4. \A i \in Indices(s) : data[Position(s, i) + 1] = at[i]  BY <1>1
<1>5. at = [i \in Indices(s) |-> at[i]]  OBVIOUS
<1> HIDE DEF at
<1>6. IdealOf(Array(s, data)) = Ideal(s, at)  BY <1>4, <1>5, IdealIs
<1> QED  BY <1>3, <1>6 DEF s, at

-----------------------------------------------------------------------------
(* Folds.                                                                  *)

\* Arithmetic stays among the values.
LEMMA ApplyIs ==
  ASSUME NEW f, NEW x \in Value, NEW y \in Value
  PROVE  Apply(f, x, y) \in Value
<1>1. CASE NaN \in {x, y}  BY <1>1 DEF Apply, Value
<1>2. CASE NaN \notin {x, y}
  <2>1. x \in Int /\ y \in Int  BY <1>2 DEF Value
  <2>2. (2 * x + y) % 3 \in Int
    <3> DEFINE z == 2 * x + y
    <3>1. z \in Int  BY <2>1
    <3> HIDE DEF z
    <3>2. 3 \in Nat \ {0}  OBVIOUS
    <3>3. z % 3 \in 0..3 - 1  BY <3>1, <3>2, DivMod
    <3> QED  BY <3>3 DEF z
  <2>3. Apply(f, x, y) \in {(2 * x + y) % 3, x, y}  BY <1>2 DEF Apply
  <2> QED  BY <2>1, <2>2, <2>3 DEF Value
<1> QED  BY <1>1, <1>2

\* g satisfies the recursion of Fold up to n.
IsFold(g, n, f, init, s) == g = [k \in 0..n |-> IF k = 0 THEN init ELSE Apply(f, g[k - 1], s[k])]

\* The recursion has a solution,
LEMMA FoldExists ==
  ASSUME NEW f, NEW init, NEW s, NEW m \in Nat
  PROVE  \E g : IsFold(g, m, f, init, s)
<1> DEFINE T == {n \in Nat : \E g : IsFold(g, n, f, init, s)}
<1>1. 0 \in T
  <2>1. IsFold([k \in 0..0 |-> init], 0, f, init, s)  BY DEF IsFold
  <2> QED  BY <2>1
<1>2. ASSUME NEW n \in Nat, n \in T  PROVE n + 1 \in T
  <2>1. PICK g : IsFold(g, n, f, init, s)  BY <1>2
  <2> DEFINE h == [k \in 0..n + 1 |-> IF k = n + 1 THEN Apply(f, g[n], s[n + 1]) ELSE g[k]]
  <2>2. IsFold(h, n + 1, f, init, s)
    <3>1. \A k \in 0..n + 1 : h[k] = IF k = 0 THEN init ELSE Apply(f, h[k - 1], s[k])
      <4>1. \A k \in 0..n : g[k] = IF k = 0 THEN init ELSE Apply(f, g[k - 1], s[k])  BY <2>1 DEF IsFold
      <4>2. \A k \in 0..n : h[k] = g[k]  OBVIOUS
      <4>3. h[n + 1] = Apply(f, g[n], s[n + 1])  OBVIOUS
      <4> HIDE DEF h
      <4> SUFFICES ASSUME NEW k \in 0..n + 1
                   PROVE h[k] = IF k = 0 THEN init ELSE Apply(f, h[k - 1], s[k])
        OBVIOUS
      <4>4. CASE k = n + 1
        <5>1. k - 1 = n /\ n \in 0..n /\ k # 0  BY <4>4
        <5>2. h[k - 1] = g[n]  BY <4>2, <5>1
        <5> QED  BY <4>3, <4>4, <5>1, <5>2
      <4>5. CASE k # n + 1 /\ k # 0
        <5>1. k \in 0..n /\ k - 1 \in 0..n  BY <4>5
        <5>2. h[k] = g[k] /\ h[k - 1] = g[k - 1] /\ g[k] = Apply(f, g[k - 1], s[k])  BY <4>1, <4>2, <4>5, <5>1
        <5> QED  BY <4>5, <5>2
      <4>6. CASE k = 0
        <5>1. 0 \in 0..n  OBVIOUS
        <5> QED  BY <4>1, <4>2, <4>6, <5>1
      <4> QED  BY <4>4, <4>5, <4>6
    <3> QED  BY <3>1 DEF IsFold
  <2> QED  BY <2>2
<1> HIDE DEF T
<1>3. \A n \in Nat : n \in T  BY <1>1, <1>2, Induction
<1> QED  BY <1>3 DEF T

\* so Fold satisfies it.
LEMMA FoldDef ==
  ASSUME NEW f, NEW init, NEW S, NEW s \in Seq(S)
  PROVE  \E g : /\ g[0] = init /\ \A k \in 1..Len(s) : g[k] = Apply(f, g[k - 1], s[k])
                /\ Fold(f, init, s) = g[Len(s)]
<1> DEFINE N == Len(s)
           g == CHOOSE h : IsFold(h, N, f, init, s)
<1>1. N \in Nat  OBVIOUS
<1>2. IsFold(g, N, f, init, s)  BY <1>1, FoldExists
<1>3. Fold(f, init, s) = g[N]  BY DEF Fold, IsFold
<1> HIDE DEF g, N
<1>4. \A k \in 0..N : g[k] = IF k = 0 THEN init ELSE Apply(f, g[k - 1], s[k])  BY <1>2 DEF IsFold
<1>5. g[0] = init  BY <1>1, <1>4
<1>6. \A k \in 1..N : g[k] = Apply(f, g[k - 1], s[k])  BY <1>1, <1>4
<1> QED  BY <1>3, <1>5, <1>6 DEF N

\* Whatever satisfies it ends in the fold.
LEMMA FoldIs ==
  ASSUME NEW f, NEW init, NEW S, NEW s \in Seq(S), NEW h, h[0] = init,
         \A k \in 1..Len(s) : h[k] = Apply(f, h[k - 1], s[k])
  PROVE  Fold(f, init, s) = h[Len(s)]
<1> DEFINE N == Len(s)
<1>1. PICK g : /\ g[0] = init /\ \A k \in 1..N : g[k] = Apply(f, g[k - 1], s[k])
               /\ Fold(f, init, s) = g[N]
  BY FoldDef
<1>2. N \in Nat /\ \A k \in 1..N : h[k] = Apply(f, h[k - 1], s[k])  OBVIOUS
<1> HIDE DEF N
<1> DEFINE T == {k \in 0..N : g[k] = h[k]}
<1>3. 0 \in T  BY <1>1, <1>2
<1>4. ASSUME NEW k \in 0..N - 1, k \in T  PROVE k + 1 \in T
  <2>1. k + 1 \in 1..N /\ k + 1 \in 0..N /\ (k + 1) - 1 = k  BY <1>2
  <2>2. g[k + 1] = Apply(f, g[k], s[k + 1]) /\ h[k + 1] = Apply(f, h[k], s[k + 1])  BY <1>1, <1>2, <2>1
  <2> QED  BY <1>4, <2>1, <2>2
<1> HIDE DEF T
<1>5. \A k \in 0..N : k \in T  BY <1>2, <1>3, <1>4, InductionTo
<1>6. N \in 0..N  BY <1>2
<1>7. g[N] = h[N]  BY <1>5, <1>6 DEF T
<1> QED  BY <1>1, <1>7 DEF N

\* Folds of values are values.
LEMMA FoldValue ==
  ASSUME NEW f, NEW init \in Value, NEW s \in Seq(Value)
  PROVE  Fold(f, init, s) \in Value
<1> DEFINE N == Len(s)
<1>1. PICK g : /\ g[0] = init /\ \A k \in 1..N : g[k] = Apply(f, g[k - 1], s[k])
               /\ Fold(f, init, s) = g[N]
  BY FoldDef
<1>2. N \in Nat /\ \A k \in 1..N : s[k] \in Value  OBVIOUS
<1> HIDE DEF N
<1> DEFINE T == {k \in 0..N : g[k] \in Value}
<1>3. 0 \in T  BY <1>1, <1>2
<1>4. ASSUME NEW k \in 0..N - 1, k \in T  PROVE k + 1 \in T
  <2>1. k + 1 \in 1..N /\ k + 1 \in 0..N /\ (k + 1) - 1 = k  BY <1>2
  <2>2. g[k + 1] = Apply(f, g[k], s[k + 1]) /\ s[k + 1] \in Value  BY <1>1, <1>2, <2>1
  <2> QED  BY <1>4, <2>1, <2>2, ApplyIs
<1> HIDE DEF T
<1>5. \A k \in 0..N : k \in T  BY <1>2, <1>3, <1>4, InductionTo
<1>6. N \in 0..N  BY <1>2
<1> QED  BY <1>1, <1>5, <1>6 DEF T

\* g satisfies the recursion of FoldRows up to n.
IsFoldRows(g, n, f, init, rows) ==
  g = [k \in 0..n |-> IF k = 0 THEN init ELSE [j \in DOMAIN init |-> Apply(f, g[k - 1][j], rows[k][j])]]

\* The recursion has a solution.
LEMMA FoldRowsExists ==
  ASSUME NEW f, NEW init, NEW rows, NEW m \in Nat
  PROVE  \E g : IsFoldRows(g, m, f, init, rows)
<1> DEFINE next(b, r) == [j \in DOMAIN init |-> Apply(f, b[j], r[j])]
           T == {n \in Nat : \E g : IsFoldRows(g, n, f, init, rows)}
<1>1. 0 \in T
  <2>1. IsFoldRows([k \in 0..0 |-> init], 0, f, init, rows)  BY DEF IsFoldRows
  <2> QED  BY <2>1
<1>2. ASSUME NEW n \in Nat, n \in T  PROVE n + 1 \in T
  <2>1. PICK g : IsFoldRows(g, n, f, init, rows)  BY <1>2
  <2> DEFINE h == [k \in 0..n + 1 |-> IF k = n + 1 THEN next(g[n], rows[n + 1]) ELSE g[k]]
  <2>2. IsFoldRows(h, n + 1, f, init, rows)
    <3>1. \A k \in 0..n + 1 : h[k] = IF k = 0 THEN init ELSE next(h[k - 1], rows[k])
      <4>1. \A k \in 0..n : g[k] = IF k = 0 THEN init ELSE next(g[k - 1], rows[k])  BY <2>1 DEF IsFoldRows
      <4> HIDE DEF next
      <4>2. \A k \in 0..n : h[k] = g[k]  OBVIOUS
      <4>3. h[n + 1] = next(g[n], rows[n + 1])  OBVIOUS
      <4> HIDE DEF h
      <4> SUFFICES ASSUME NEW k \in 0..n + 1
                   PROVE h[k] = IF k = 0 THEN init ELSE next(h[k - 1], rows[k])
        OBVIOUS
      <4>4. CASE k = n + 1
        <5>1. k - 1 = n /\ n \in 0..n /\ k # 0  BY <4>4
        <5>2. h[k - 1] = g[n]  BY <4>2, <5>1
        <5> QED  BY <4>3, <4>4, <5>1, <5>2
      <4>5. CASE k # n + 1 /\ k # 0
        <5>1. k \in 0..n /\ k - 1 \in 0..n  BY <4>5
        <5>2. h[k] = g[k] /\ h[k - 1] = g[k - 1] /\ g[k] = next(g[k - 1], rows[k])  BY <4>1, <4>2, <4>5, <5>1
        <5> QED  BY <4>5, <5>2
      <4>6. CASE k = 0
        <5>1. 0 \in 0..n  OBVIOUS
        <5> QED  BY <4>1, <4>2, <4>6, <5>1
      <4> QED  BY <4>4, <4>5, <4>6
    <3> QED  BY <3>1 DEF IsFoldRows
  <2> QED  BY <2>2
<1> HIDE DEF T
<1>3. \A n \in Nat : n \in T  BY <1>1, <1>2, Induction
<1> QED  BY <1>3 DEF T

\* The elements at one place of each row.
Line(rows, j) == [k \in 1..Len(rows) |-> rows[k][j]]

LEMMA LineIs ==
  ASSUME NEW rows, Len(rows) \in Nat, NEW j, \A k \in 1..Len(rows) : rows[k][j] \in Value
  PROVE  /\ Line(rows, j) \in Seq(Value) /\ Len(Line(rows, j)) = Len(rows)
         /\ \A k \in 1..Len(rows) : Line(rows, j)[k] = rows[k][j]
<1> DEFINE N == Len(rows)
           s == Line(rows, j)
<1>1. s = [k \in 1..N |-> rows[k][j]]  BY DEF Line
<1>2. N \in Nat /\ \A k \in 1..N : rows[k][j] \in Value  OBVIOUS
<1> HIDE DEF s, N
<1>3. s \in [1..N -> Value]  BY <1>1, <1>2
<1>4. s \in Seq(Value) /\ Len(s) = N  BY <1>2, <1>3
<1>5. \A k \in 1..N : s[k] = rows[k][j]  BY <1>1
<1> QED  BY <1>4, <1>5 DEF s, N

\* Folding rows folds each of their lines.
LEMMA FoldRowsIs ==
  ASSUME NEW f, NEW n \in Nat, NEW init \in [1..n -> Value], NEW rows \in Seq(Seq(Value)),
         \A k \in 1..Len(rows) : \A j \in 1..n : rows[k][j] \in Value
  PROVE  /\ FoldRows(f, init, rows) \in [1..n -> Value]
         /\ \A j \in 1..n : FoldRows(f, init, rows)[j] = Fold(f, init[j], Line(rows, j))
<1> DEFINE N == Len(rows)
           g == CHOOSE h : IsFoldRows(h, N, f, init, rows)
<1>1. N \in Nat  OBVIOUS
<1>2. IsFoldRows(g, N, f, init, rows)  BY <1>1, FoldRowsExists
<1>3. FoldRows(f, init, rows) = g[N]  BY DEF FoldRows, IsFoldRows
<1>3a. DOMAIN init = 1..n /\ \A j \in 1..n : init[j] \in Value  OBVIOUS
<1> HIDE DEF g
<1>4. \A k \in 0..N : g[k] = IF k = 0 THEN init ELSE [j \in 1..n |-> Apply(f, g[k - 1][j], rows[k][j])]
  BY <1>2, <1>3a DEF IsFoldRows
<1>5. g[N] = [j \in 1..n |-> g[N][j]]
  <2>1. N \in 0..N  BY <1>1
  <2>2. CASE N = 0
    <3>1. g[N] = init /\ init = [j \in 1..n |-> init[j]]  BY <1>4, <2>1, <2>2
    <3> QED  BY <3>1
  <2>3. CASE N # 0
    <3>1. g[N] = [j \in 1..n |-> Apply(f, g[N - 1][j], rows[N][j])]  BY <1>4, <2>1, <2>3
    <3> QED  BY <3>1
  <2> QED  BY <2>2, <2>3
<1>6. ASSUME NEW j \in 1..n  PROVE g[N][j] = Fold(f, init[j], Line(rows, j))
  <2> DEFINE s == Line(rows, j)
             h == [k \in 0..N |-> g[k][j]]
  <2>1. s \in Seq(Value) /\ Len(s) = N /\ \A k \in 1..N : s[k] = rows[k][j]
    <3>1. \A k \in 1..N : rows[k][j] \in Value  OBVIOUS
    <3> QED  BY <1>1, <3>1, LineIs
  <2>2. h[0] = init[j]
    <3>1. 0 \in 0..N  BY <1>1
    <3> QED  BY <1>4, <3>1
  <2>3. \A k \in 1..N : h[k] = Apply(f, h[k - 1], s[k])
    <3> SUFFICES ASSUME NEW k \in 1..N  PROVE h[k] = Apply(f, h[k - 1], s[k])
      OBVIOUS
    <3>1. k \in 0..N /\ k # 0 /\ k - 1 \in 0..N  BY <1>1
    <3>2. g[k] = [i \in 1..n |-> Apply(f, g[k - 1][i], rows[k][i])]  BY <1>4, <3>1
    <3>3. g[k][j] = Apply(f, g[k - 1][j], rows[k][j])  BY <3>2
    <3>4. h[k] = g[k][j] /\ h[k - 1] = g[k - 1][j]  BY <3>1
    <3> HIDE DEF h, s
    <3> QED  BY <2>1, <3>3, <3>4
  <2>4. h[N] = g[N][j]
    <3>1. N \in 0..N  BY <1>1
    <3> QED  BY <3>1
  <2> HIDE DEF h, s, N
  <2>5. Fold(f, init[j], s) = h[Len(s)]  BY <2>1, <2>2, <2>3, FoldIs
  <2> QED  BY <2>1, <2>4, <2>5 DEF s
<1>7. g[N] \in [1..n -> Value]
  <2>1. \A j \in 1..n : g[N][j] \in Value
    <3> SUFFICES ASSUME NEW j \in 1..n  PROVE g[N][j] \in Value
      OBVIOUS
    <3>1. Line(rows, j) \in Seq(Value)
      <4>1. \A k \in 1..N : rows[k][j] \in Value  OBVIOUS
      <4> QED  BY <1>1, <4>1, LineIs
    <3> QED  BY <1>3a, <1>6, <3>1, FoldValue
  <2> QED  BY <1>5, <2>1
<1> QED  BY <1>3, <1>6, <1>7 DEF N

-----------------------------------------------------------------------------
(* Blocks of the data.                                                     *)

\* The v-th item of block o.
LEMMA PlaceFits ==
  ASSUME NEW A \in Nat, NEW m \in Nat, NEW o \in 0..A - 1, NEW v \in 0..m - 1
  PROVE  o * m + v \in 0..A * m - 1 /\ o * m \in Nat
<1>1. A \in Int /\ o \in Int /\ A > o /\ m \in Nat \ {0}  OBVIOUS
<1>2. A * m >= o * m + m  BY <1>1, Multiples
<1>3. o * m \in Nat /\ A * m \in Nat
  <2>1. \A a, b \in Nat : a * b \in Nat  OBVIOUS
  <2>2. o \in Nat  OBVIOUS
  <2> QED  BY <2>1, <2>2
<1> DEFINE y == o * m
           z == A * m
<1> HIDE DEF y, z
<1>4. z >= y + m /\ y \in Nat /\ z \in Nat  BY <1>2, <1>3 DEF y, z
<1>5. y + v \in 0..z - 1  BY <1>4
<1> QED  BY <1>3, <1>5 DEF y, z

\* A block, with those before it.
LEMMA BlockFits ==
  ASSUME NEW A \in Nat, NEW c \in Nat, NEW o \in 0..A - 1
  PROVE  o * c \in Nat /\ A * c \in Nat /\ o * c + c <= A * c
<1>1. o * c \in Nat /\ A * c \in Nat
  <2>1. \A a, b \in Nat : a * b \in Nat  OBVIOUS
  <2>2. o \in Nat  OBVIOUS
  <2> QED  BY <2>1, <2>2
<1>2. CASE c = 0
  <2>1. o * 0 = 0 /\ A * 0 = 0  OBVIOUS
  <2> QED  BY <1>1, <1>2, <2>1
<1>3. CASE c # 0
  <2>1. A \in Int /\ o \in Int /\ A > o /\ c \in Nat \ {0}  BY <1>3
  <2>2. A * c >= o * c + c  BY <2>1, Multiples
  <2> DEFINE y == o * c
             z == A * c
  <2>3. z >= y + c /\ y \in Nat /\ z \in Nat  BY <1>1, <2>2
  <2> HIDE DEF y, z
  <2>4. y + c <= z  BY <2>3
  <2> QED  BY <1>1, <2>4 DEF y, z
<1> QED  BY <1>2, <1>3

\* Taking a block out of the data.
LEMMA BlockIs ==
  ASSUME NEW S, NEW d \in Seq(S), NEW a \in Nat, NEW n \in Nat, a + n <= Len(d)
  PROVE  /\ SubSeq(d, a + 1, a + n) \in Seq(S) /\ Len(SubSeq(d, a + 1, a + n)) = n
         /\ \A k \in 1..n : SubSeq(d, a + 1, a + n)[k] = d[a + k]
<1> DEFINE b == a + n
           p == SubSeq(d, a + 1, b)
<1>1. b \in Nat /\ a <= b /\ b <= Len(d) /\ b - a = n  OBVIOUS
<1> HIDE DEF b
<1>2. p \in Seq(S) /\ Len(p) = b - a /\ \A k \in 1..b - a : p[k] = d[a + k]  BY <1>1, PartIs
<1> HIDE DEF p
<1> QED  BY <1>1, <1>2 DEF p, b

\* An axis argument that counts from either end.
LEMMA AxisFits ==
  ASSUME NEW n \in Nat, NEW axis \in Int, InRange(axis, n)
  PROVE  Normalize(axis, n) \in 0..n - 1 /\ Normalize(axis, n) + 1 \in 1..n /\ n # 0
BY DEF InRange, Normalize

-----------------------------------------------------------------------------
(* Reductions along an axis.                                               *)

\* The fold of a line, with an initial value or from its first element.
Folded(f, init, s) == IF init # None THEN Fold(f, init, s) ELSE Fold(f, Head(s), Tail(s))

\* The rest of a sequence that is not empty.
LEMMA TailIs ==
  ASSUME NEW S, NEW s \in Seq(S), Len(s) # 0
  PROVE  /\ Head(s) = s[1] /\ s[1] \in S /\ Tail(s) \in Seq(S) /\ Len(Tail(s)) = Len(s) - 1
         /\ \A k \in 1..Len(s) - 1 : Tail(s)[k] = s[k + 1]
<1>1. s # <<>> /\ Head(s) = s[1] /\ Tail(s) \in Seq(S) /\ Len(Tail(s)) = Len(s) - 1  OBVIOUS
<1>2. 1 \in 1..Len(s)  OBVIOUS
<1>3. s[1] \in S  BY <1>2
<1>4. ASSUME NEW k \in 1..Len(s) - 1  PROVE Tail(s)[k] = s[k + 1]  BY <1>1
<1> QED  BY <1>1, <1>3, <1>4

LEMMA FoldedValue ==
  ASSUME NEW f, NEW init, init = None \/ init \in Value, NEW s \in Seq(Value), init = None => Len(s) # 0
  PROVE  Folded(f, init, s) \in Value
<1>1. CASE init # None  BY <1>1, FoldValue DEF Folded
<1>2. CASE init = None
  <2>1. Head(s) \in Value /\ Tail(s) \in Seq(Value)  BY <1>2, TailIs
  <2>2. Fold(f, Head(s), Tail(s)) \in Value  BY <2>1, FoldValue
  <2> QED  BY <1>2, <2>2 DEF Folded
<1> QED  BY <1>1, <1>2

\* Folding rows folds each line across them.
LEMMA RowsFolded ==
  ASSUME NEW f, NEW init, init = None \/ init \in Value, NEW n \in Nat,
         NEW rows \in Seq(Seq(Value)), \A k \in 1..Len(rows) : Len(rows[k]) = n, init = None => Len(rows) # 0
  PROVE  LET r == IF init # None THEN FoldRows(f, [k \in 1..n |-> init], rows)
                                ELSE FoldRows(f, Head(rows), Tail(rows))
         IN  r \in [1..n -> Value] /\ \A j \in 1..n : r[j] = Folded(f, init, Line(rows, j))
<1> DEFINE N == Len(rows)
           r == IF init # None THEN FoldRows(f, [k \in 1..n |-> init], rows)
                              ELSE FoldRows(f, Head(rows), Tail(rows))
<1>1. N \in Nat /\ \A k \in 1..N : rows[k] \in Seq(Value) /\ Len(rows[k]) = n  OBVIOUS
<1>2. \A k \in 1..N : \A j \in 1..n : rows[k][j] \in Value
  <2> SUFFICES ASSUME NEW k \in 1..N, NEW j \in 1..n  PROVE rows[k][j] \in Value
    OBVIOUS
  <2>1. rows[k] \in Seq(Value) /\ Len(rows[k]) = n  BY <1>1
  <2> QED  BY <2>1
<1>3. CASE init # None
  <2> DEFINE first == [k \in 1..n |-> init]
  <2>1. first \in [1..n -> Value] /\ (\A j \in 1..n : first[j] = init) /\ r = FoldRows(f, first, rows)
    BY <1>3
  <2> HIDE DEF first, r
  <2>2. r \in [1..n -> Value] /\ \A j \in 1..n : r[j] = Fold(f, first[j], Line(rows, j))
    BY <1>2, <2>1, FoldRowsIs
  <2>3. \A j \in 1..n : r[j] = Folded(f, init, Line(rows, j))  BY <1>3, <2>1, <2>2 DEF Folded
  <2> QED  BY <2>2, <2>3 DEF r
<1>4. CASE init = None
  <2> DEFINE h == Head(rows)
             t == Tail(rows)
  <2>1. /\ h = rows[1] /\ t \in Seq(Seq(Value)) /\ Len(t) = N - 1 /\ N # 0
        /\ (\A k \in 1..N - 1 : t[k] = rows[k + 1]) /\ r = FoldRows(f, h, t)
    BY <1>4, TailIs
  <2> HIDE DEF h, t, r
  <2>2. h \in [1..n -> Value]
    <3>1. 1 \in 1..N  BY <1>1, <2>1
    <3>2. h \in Seq(Value) /\ Len(h) = n  BY <1>1, <2>1, <3>1
    <3> QED  BY <3>2
  <2>3. \A k \in 1..Len(t) : \A j \in 1..n : t[k][j] \in Value
    <3> SUFFICES ASSUME NEW k \in 1..Len(t), NEW j \in 1..n  PROVE t[k][j] \in Value
      OBVIOUS
    <3>1. k \in 1..N - 1 /\ k + 1 \in 1..N  BY <1>1, <2>1
    <3> QED  BY <1>2, <2>1, <3>1
  <2>4. r \in [1..n -> Value] /\ \A j \in 1..n : r[j] = Fold(f, h[j], Line(t, j))
    BY <2>1, <2>2, <2>3, FoldRowsIs
  <2>5. ASSUME NEW j \in 1..n  PROVE r[j] = Folded(f, init, Line(rows, j))
    <3> DEFINE s == Line(rows, j)
               u == Line(t, j)
    <3>1. s \in Seq(Value) /\ Len(s) = N /\ \A k \in 1..N : s[k] = rows[k][j]  BY <1>1, <1>2, LineIs
    <3>2. u \in Seq(Value) /\ Len(u) = N - 1 /\ \A k \in 1..N - 1 : u[k] = t[k][j]
      <4>1. Len(t) \in Nat /\ \A k \in 1..Len(t) : t[k][j] \in Value  BY <2>1, <2>3
      <4>2. u \in Seq(Value) /\ Len(u) = Len(t) /\ \A k \in 1..Len(t) : u[k] = t[k][j]  BY <4>1, LineIs
      <4> HIDE DEF u, N
      <4> QED  BY <2>1, <4>2
    <3> HIDE DEF s, u
    <3>3. Head(s) = s[1] /\ Tail(s) \in Seq(Value) /\ Len(Tail(s)) = N - 1 /\ \A k \in 1..N - 1 : Tail(s)[k] = s[k + 1]
      BY <2>1, <3>1, TailIs
    <3>4. Tail(s) = u
      <4>1. \A k \in 1..N - 1 : Tail(s)[k] = u[k]
        <5> SUFFICES ASSUME NEW k \in 1..N - 1  PROVE Tail(s)[k] = u[k]
          OBVIOUS
        <5>1. k + 1 \in 1..N  BY <1>1
        <5> QED  BY <2>1, <3>1, <3>2, <3>3, <5>1
      <4> QED  BY <3>2, <3>3, <4>1, SameSequence
    <3>5. s[1] = h[j]
      <4>1. 1 \in 1..N  BY <1>1, <2>1
      <4> QED  BY <2>1, <3>1, <4>1
    <3>6. Folded(f, init, s) = Fold(f, h[j], u)  BY <1>4, <3>3, <3>4, <3>5 DEF Folded
    <3> QED  BY <2>4, <3>6 DEF s, u
  <2> QED  BY <2>4, <2>5 DEF r
<1> QED  BY <1>3, <1>4

\* The elements of block o along an axis of length m, if c elements come after
\* each: those at place j.
Across(d, m, c, o, j) == [v \in 1..m |-> d[(o * m + v - 1) * c + j]]

LEMMA AcrossIs ==
  ASSUME NEW d \in Seq(Value), NEW A \in Nat, NEW m \in Nat, NEW c \in Nat, Len(d) = (A * m) * c,
         NEW o \in 0..A - 1
  PROVE  /\ \A v \in 1..m : /\ o * m + v - 1 \in 0..A * m - 1 /\ (o * m + v - 1) * c \in Nat
                            /\ (o * m + v - 1) * c + c <= Len(d)
         /\ \A j \in 1..c : /\ Across(d, m, c, o, j) \in Seq(Value) /\ Len(Across(d, m, c, o, j)) = m
                            /\ \A v \in 1..m : Across(d, m, c, o, j)[v] = d[(o * m + v - 1) * c + j]
<1>1. ASSUME NEW v \in 1..m
      PROVE  /\ o * m + v - 1 \in 0..A * m - 1 /\ (o * m + v - 1) * c \in Nat
             /\ (o * m + v - 1) * c + c <= Len(d)
  <2> DEFINE w == v - 1
             B == A * m
             z == o * m + v - 1
  <2>1. w \in 0..m - 1  OBVIOUS
  <2>2. o * m + w \in 0..B - 1 /\ o * m \in Nat
    <3> HIDE DEF w
    <3> QED  BY <2>1, PlaceFits
  <2>3. z = o * m + w
    <3> DEFINE y == o * m
    <3>1. y \in Nat  BY <2>2
    <3> HIDE DEF y
    <3>2. y + v - 1 = y + (v - 1)  BY <3>1
    <3> QED  BY <3>2 DEF y
  <2>4. B \in Nat
    <3>1. \A x, y \in Nat : x * y \in Nat  OBVIOUS
    <3> QED  BY <3>1
  <2>5. z \in 0..B - 1  BY <2>2, <2>3
  <2> HIDE DEF z, B
  <2>6. z * c \in Nat /\ z * c + c <= B * c  BY <2>4, <2>5, BlockFits
  <2> QED  BY <2>5, <2>6 DEF z, B
<1>2. ASSUME NEW j \in 1..c
      PROVE  /\ Across(d, m, c, o, j) \in Seq(Value) /\ Len(Across(d, m, c, o, j)) = m
             /\ \A v \in 1..m : Across(d, m, c, o, j)[v] = d[(o * m + v - 1) * c + j]
  <2> DEFINE at(v) == (o * m + v - 1) * c + j
             s == Across(d, m, c, o, j)
  <2>1. \A v \in 1..m : at(v) \in 1..Len(d)
    <3> SUFFICES ASSUME NEW v \in 1..m  PROVE at(v) \in 1..Len(d)
      OBVIOUS
    <3> DEFINE z == (o * m + v - 1) * c
    <3>1. z \in Nat /\ z + c <= Len(d)  BY <1>1
    <3> HIDE DEF z
    <3>2. z + j \in 1..Len(d)  BY <3>1
    <3> QED  BY <3>2 DEF z
  <2>2. s = [v \in 1..m |-> d[at(v)]]  BY DEF Across
  <2> HIDE DEF at, s
  <2>3. \A v \in 1..m : d[at(v)] \in Value  BY <2>1
  <2>4. s \in [1..m -> Value] /\ \A v \in 1..m : s[v] = d[at(v)]  BY <2>2, <2>3
  <2>5. s \in Seq(Value) /\ Len(s) = m  BY <2>4
  <2> QED  BY <2>4, <2>5 DEF at, s
<1> QED  BY <1>1, <1>2

\* A piece of the result of fold_axis: a run of the data, or rows of it.
Piece(f, init, d, m, c, o) ==
  LET run  == SubSeq(d, o * m + 1, o * m + m)
      rows == [v \in 1..m |-> SubSeq(d, (o * m + v - 1) * c + 1, (o * m + v - 1) * c + c)]
  IN  IF c = 1 THEN <<IF init # None THEN Fold(f, init, run) ELSE Fold(f, Head(run), Tail(run))>>
      ELSE IF init # None THEN FoldRows(f, [k \in 1..c |-> init], rows)
                          ELSE FoldRows(f, Head(rows), Tail(rows))

\* Either way the lines are folded.
PieceDone(f, init, d, m, c, o) ==
  /\ Piece(f, init, d, m, c, o) \in Seq(Value) /\ Len(Piece(f, init, d, m, c, o)) = c
  /\ \A j \in 1..c : Piece(f, init, d, m, c, o)[j] = Folded(f, init, Across(d, m, c, o, j))

LEMMA PieceFolded ==
  ASSUME NEW f, NEW init, init = None \/ init \in Value,
         NEW d \in Seq(Value), NEW A \in Nat, NEW m \in Nat, NEW c \in Nat, Len(d) = (A * m) * c,
         NEW o \in 0..A - 1, init = None => m # 0
  PROVE  PieceDone(f, init, d, m, c, o)
<1> DEFINE run    == SubSeq(d, o * m + 1, o * m + m)
           rows   == [v \in 1..m |-> SubSeq(d, (o * m + v - 1) * c + 1, (o * m + v - 1) * c + c)]
<1>1. /\ \A v \in 1..m : /\ o * m + v - 1 \in 0..A * m - 1 /\ (o * m + v - 1) * c \in Nat
                         /\ (o * m + v - 1) * c + c <= Len(d)
      /\ \A j \in 1..c : /\ Across(d, m, c, o, j) \in Seq(Value) /\ Len(Across(d, m, c, o, j)) = m
                         /\ \A v \in 1..m : Across(d, m, c, o, j)[v] = d[(o * m + v - 1) * c + j]
  <2> HIDE DEF run, rows
  <2> QED  BY AcrossIs
<1>2. CASE c = 1
  <2> DEFINE y == o * m
             r == Folded(f, init, run)
  <2>1. y \in Nat /\ y + m <= Len(d)
    <3>1. y \in Nat /\ A * m \in Nat /\ y + m <= A * m  BY BlockFits
    <3> DEFINE B == A * m
    <3>2. B \in Nat /\ Len(d) = B * 1  BY <1>2, <3>1
    <3> HIDE DEF B
    <3>3. B * 1 = B  BY <3>2
    <3> QED  BY <3>1, <3>2, <3>3 DEF B
  <2>2. run \in Seq(Value) /\ Len(run) = m /\ \A k \in 1..m : run[k] = d[y + k]
    <3> HIDE DEF y
    <3>1. /\ SubSeq(d, y + 1, y + m) \in Seq(Value) /\ Len(SubSeq(d, y + 1, y + m)) = m
          /\ \A k \in 1..m : SubSeq(d, y + 1, y + m)[k] = d[y + k]
      BY <2>1, BlockIs
    <3> QED  BY <3>1 DEF y
  <2>3. run = Across(d, m, c, o, 1)
    <3> DEFINE s == Across(d, m, c, o, 1)
    <3>1. 1 \in 1..c  BY <1>2
    <3>2. s \in Seq(Value) /\ Len(s) = m /\ \A v \in 1..m : s[v] = d[(o * m + v - 1) * c + 1]  BY <1>1, <3>1
    <3>3. ASSUME NEW v \in 1..m  PROVE run[v] = s[v]
      <4>1. (y + v - 1) * 1 + 1 = y + v
        <5> HIDE DEF y
        <5> QED  BY <2>1
      <4> HIDE DEF run, s
      <4> QED  BY <1>2, <2>2, <3>2, <4>1
    <3> HIDE DEF run, s
    <3>4. run = s  BY <2>2, <3>2, <3>3, SameSequence
    <3> QED  BY <3>4 DEF s
  <2> HIDE DEF run
  <2>4. r \in Value  BY <2>2, FoldedValue
  <2>5. r = IF init # None THEN Fold(f, init, run) ELSE Fold(f, Head(run), Tail(run))  BY DEF Folded
  <2>6. r = Folded(f, init, Across(d, m, c, o, 1))  BY <2>3
  <2> HIDE DEF r
  <2>7. <<r>> \in Seq(Value) /\ Len(<<r>>) = c /\ \A j \in 1..c : <<r>>[j] = Folded(f, init, Across(d, m, c, o, j))
    <3>1. <<r>> \in Seq(Value) /\ Len(<<r>>) = 1 /\ <<r>>[1] = r  BY <2>4
    <3>2. \A j \in 1..c : j = 1  BY <1>2
    <3> QED  BY <1>2, <2>6, <3>1, <3>2
  <2>8. Piece(f, init, d, m, c, o) = <<r>>  BY <1>2, <2>5 DEF Piece, run
  <2> QED  BY <2>7, <2>8 DEF PieceDone
<1>3. CASE c # 1
  <2> DEFINE row(v) == SubSeq(d, (o * m + v - 1) * c + 1, (o * m + v - 1) * c + c)
             r == IF init # None THEN FoldRows(f, [k \in 1..c |-> init], rows) ELSE FoldRows(f, Head(rows), Tail(rows))
  <2>1. ASSUME NEW v \in 1..m
        PROVE  row(v) \in Seq(Value) /\ Len(row(v)) = c /\ \A k \in 1..c : row(v)[k] = d[(o * m + v - 1) * c + k]
    <3> DEFINE y == (o * m + v - 1) * c
    <3>1. y \in Nat /\ y + c <= Len(d)  BY <1>1
    <3> HIDE DEF y
    <3>2. /\ SubSeq(d, y + 1, y + c) \in Seq(Value) /\ Len(SubSeq(d, y + 1, y + c)) = c
          /\ \A k \in 1..c : SubSeq(d, y + 1, y + c)[k] = d[y + k]
      BY <3>1, BlockIs
    <3> QED  BY <3>2 DEF y
  <2>2. rows = [v \in 1..m |-> row(v)]  OBVIOUS
  <2> HIDE DEF row, rows
  <2>3. /\ rows \in Seq(Seq(Value)) /\ Len(rows) = m
        /\ \A v \in 1..m : rows[v] = row(v) /\ Len(rows[v]) = c
    <3>1. rows \in [1..m -> Seq(Value)]  BY <2>1, <2>2
    <3>2. rows \in Seq(Seq(Value)) /\ Len(rows) = m  BY <3>1
    <3> QED  BY <2>1, <2>2, <3>2
  <2>4. r \in [1..c -> Value] /\ \A j \in 1..c : r[j] = Folded(f, init, Line(rows, j))
    <3>1. /\ init = None => Len(rows) # 0
          /\ rows \in Seq(Seq(Value)) /\ \A k \in 1..Len(rows) : Len(rows[k]) = c
      BY <2>3
    <3> QED  BY ONLY <3>1, init = None \/ init \in Value, c \in Nat, RowsFolded
  <2> HIDE DEF r
  <2>5. ASSUME NEW j \in 1..c  PROVE Line(rows, j) = Across(d, m, c, o, j)
    <3> DEFINE s == Across(d, m, c, o, j)
               t == Line(rows, j)
    <3>1. s \in Seq(Value) /\ Len(s) = m /\ \A v \in 1..m : s[v] = d[(o * m + v - 1) * c + j]  BY <1>1
    <3>2. \A v \in 1..Len(rows) : rows[v][j] = d[(o * m + v - 1) * c + j]  BY <2>1, <2>3
    <3>3. \A v \in 1..Len(rows) : rows[v][j] \in Value
      <4> SUFFICES ASSUME NEW v \in 1..Len(rows)  PROVE rows[v][j] \in Value
        OBVIOUS
      <4>1. rows[v] \in Seq(Value) /\ Len(rows[v]) = c  BY <2>1, <2>3
      <4> QED  BY <4>1
    <3>4. t \in Seq(Value) /\ Len(t) = m /\ \A v \in 1..m : t[v] = rows[v][j]
      <4>1. t \in Seq(Value) /\ Len(t) = Len(rows) /\ \A v \in 1..Len(rows) : t[v] = rows[v][j]
        BY <2>3, <3>3, LineIs
      <4> QED  BY <2>3, <4>1
    <3> HIDE DEF s, t
    <3>5. \A v \in 1..m : t[v] = s[v]  BY <2>3, <3>1, <3>2, <3>4
    <3>6. t = s  BY <3>1, <3>4, <3>5, SameSequence
    <3> QED  BY <3>6 DEF s, t
  <2>6. r \in Seq(Value) /\ Len(r) = c  BY <2>4
  <2>7. \A j \in 1..c : r[j] = Folded(f, init, Across(d, m, c, o, j))  BY <2>4, <2>5
  <2>8. Piece(f, init, d, m, c, o) = r  BY <1>3 DEF Piece, r, rows
  <2> QED  BY <2>6, <2>7, <2>8 DEF PieceDone
<1> QED  BY <1>2, <1>3

\* Pieces of the same length, found by block.
LEMMA PiecesIs ==
  ASSUME NEW n \in Nat, NEW c \in Nat, NEW s \in Seq(Seq(Value)), Len(s) = n, \A k \in 1..n : Len(s[k]) = c
  PROVE  /\ FlattenSeq(s) \in Seq(Value) /\ Len(FlattenSeq(s)) = n * c
         /\ \A o \in 0..n - 1, j \in 0..c - 1 : FlattenSeq(s)[o * c + j + 1] = s[o + 1][j + 1]
<1>1. IsPieces(s, n, c, Value)  BY DEF IsPieces
<1>2. Joined(FlattenSeq(s), s, n, c, Value)  BY <1>1, FlattenIs
<1> DEFINE d == FlattenSeq(s)
<1>3. d \in Seq(Value) /\ Len(d) = n * c /\ \A k \in 1..n, q \in 1..c : d[(k - 1) * c + q] = s[k][q]
  BY <1>2 DEF Joined
<1> HIDE DEF d
<1>4. ASSUME NEW o \in 0..n - 1, NEW j \in 0..c - 1  PROVE d[o * c + j + 1] = s[o + 1][j + 1]
  <2> DEFINE y == o * c
  <2>1. o + 1 \in 1..n /\ j + 1 \in 1..c /\ (o + 1) - 1 = o  OBVIOUS
  <2>2. d[((o + 1) - 1) * c + (j + 1)] = s[o + 1][j + 1]  BY <1>3, <2>1
  <2>3. y \in Nat  BY BlockFits
  <2> HIDE DEF y
  <2>4. y + j + 1 = y + (j + 1)  BY <2>3
  <2> QED  BY <2>1, <2>2, <2>4 DEF y
<1> QED  BY <1>3, <1>4 DEF d

\* d is the data of A blocks of m rows of c elements.
Blocks(d, A, m, c) ==
  d \in Seq(Value) /\ A \in Nat /\ m \in Nat /\ c \in Nat /\ Len(d) = (A * m) * c

\* The pieces of fold_axis, joined.
Pieces(f, init, d, A, m, c) == FlattenSeq([o \in 1..A |-> Piece(f, init, d, m, c, o - 1)])

\* What follows for all of them.
PiecesDone(f, init, d, A, m, c) ==
  /\ Pieces(f, init, d, A, m, c) \in Seq(Value) /\ Len(Pieces(f, init, d, A, m, c)) = A * c
  /\ \A o \in 0..A - 1, j \in 0..c - 1 :
       Pieces(f, init, d, A, m, c)[o * c + j + 1] = Folded(f, init, Across(d, m, c, o, j + 1))

LEMMA EachPiece ==
  \A f, init, d, A, m, c :
    Blocks(d, A, m, c) /\ (init = None \/ init \in Value) /\ (init = None => m # 0)
      => \A o \in 0..A - 1 : PieceDone(f, init, d, m, c, o)
<1> SUFFICES ASSUME NEW f, NEW init, NEW d, NEW A, NEW m, NEW c, Blocks(d, A, m, c),
                    init = None \/ init \in Value, init = None => m # 0
             PROVE  \A o \in 0..A - 1 : PieceDone(f, init, d, m, c, o)
  OBVIOUS
<1>1. d \in Seq(Value) /\ A \in Nat /\ m \in Nat /\ c \in Nat /\ Len(d) = (A * m) * c  BY DEF Blocks
<1>2. ASSUME NEW o \in 0..A - 1  PROVE PieceDone(f, init, d, m, c, o)
  BY <1>1, PieceFolded
<1> QED  BY <1>2

LEMMA PiecesFolded ==
  \A f, init, d, A, m, c :
    Blocks(d, A, m, c) /\ (init = None \/ init \in Value) /\ (init = None => m # 0)
      => PiecesDone(f, init, d, A, m, c)
<1> SUFFICES ASSUME NEW f, NEW init, NEW d, NEW A, NEW m, NEW c, Blocks(d, A, m, c),
                    init = None \/ init \in Value, init = None => m # 0
             PROVE  PiecesDone(f, init, d, A, m, c)
  OBVIOUS
<1> DEFINE done == [o \in 1..A |-> Piece(f, init, d, m, c, o - 1)]
           data == FlattenSeq(done)
<1>1. A \in Nat /\ c \in Nat  BY DEF Blocks
<1>2. \A o \in 0..A - 1 : PieceDone(f, init, d, m, c, o)  BY EachPiece
<1>3. done \in Seq(Seq(Value)) /\ Len(done) = A /\ \A k \in 1..A : Len(done[k]) = c
  <2>1. \A k \in 1..A : k - 1 \in 0..A - 1  BY <1>1
  <2>2. \A k \in 1..A : done[k] \in Seq(Value) /\ Len(done[k]) = c  BY <1>2, <2>1 DEF PieceDone
  <2>3. done \in [1..A -> Seq(Value)]  BY <1>2, <2>1 DEF PieceDone
  <2> HIDE DEF done
  <2> QED  BY <1>1, <2>2, <2>3
<1>4. \A o \in 0..A - 1 : done[o + 1] = Piece(f, init, d, m, c, o)
  <2> SUFFICES ASSUME NEW o \in 0..A - 1  PROVE done[o + 1] = Piece(f, init, d, m, c, o)
    OBVIOUS
  <2>1. o + 1 \in 1..A /\ (o + 1) - 1 = o  BY <1>1
  <2> QED  BY <2>1
<1> HIDE DEF done
<1>5. /\ data \in Seq(Value) /\ Len(data) = A * c
      /\ \A o \in 0..A - 1, j \in 0..c - 1 : data[o * c + j + 1] = done[o + 1][j + 1]
  BY <1>1, <1>3, PiecesIs
<1> HIDE DEF data
<1>6. \A o \in 0..A - 1, j \in 0..c - 1 : data[o * c + j + 1] = Folded(f, init, Across(d, m, c, o, j + 1))
  <2> SUFFICES ASSUME NEW o \in 0..A - 1, NEW j \in 0..c - 1
               PROVE  data[o * c + j + 1] = Folded(f, init, Across(d, m, c, o, j + 1))
    OBVIOUS
  <2>1. j + 1 \in 1..c  BY <1>1
  <2> QED  BY <1>2, <1>4, <1>5, <2>1 DEF PieceDone
<1>7. data = Pieces(f, init, d, A, m, c)  BY DEF data, done, Pieces
<1> QED  BY <1>5, <1>6, <1>7 DEF PiecesDone

\* The data of the result if the axis of length m has p before and q after it.
FoldData(f, init, a, p, m, q, data) ==
  /\ data \in Seq(Value) /\ Len(data) = Product(p) * Product(q)
  /\ \A o \in 0..Product(p) - 1, j \in 0..Product(q) - 1 :
       data[o * Product(q) + j + 1] = Folded(f, init, Across(a.data, m, Product(q), o, j + 1))

\* fold_axis, with the axis apart: the line through each place of the result.
LEMMA FoldAxisData ==
  ASSUME NEW f, NEW a, IsArray(a), NEW axis \in Int, NEW init, init = None \/ init \in Value,
         InRange(axis, Ndim(a.shape)), NEW p \in Seq(Nat), NEW q \in Seq(Nat), NEW m \in Nat,
         a.shape = Apart(p, m, q), Normalize(axis, Ndim(a.shape)) = Len(p), init = None => m # 0
  PROVE  \E data : FoldAxis(f, a, axis, init) = {Array(p \o q, data)} /\ FoldData(f, init, a, p, m, q, data)
<1> DEFINE n     == Ndim(a.shape)
           ax    == Normalize(axis, n) + 1
           len   == a.shape[ax]
           outer == Product(SubSeq(a.shape, 1, ax - 1))
           inner == Product(SubSeq(a.shape, ax + 1, Ndim(a.shape)))
           part(x, k) == SubSeq(a.data, x + 1, x + k)
           run(o) == LET r == part(o * len, len) IN
                     <<IF init # None THEN Fold(f, init, r) ELSE Fold(f, Head(r), Tail(r))>>
           rows(o) == LET r == [j \in 1..len |-> part((o * len + j - 1) * inner, inner)] IN
                      IF init # None THEN FoldRows(f, [k \in 1..inner |-> init], r)
                      ELSE FoldRows(f, Head(r), Tail(r))
           pieces == [o \in 1..outer |-> IF inner = 1 THEN run(o - 1) ELSE rows(o - 1)]
           A == Product(p)
           c == Product(q)
           d == a.data
<1>1. FoldAxis(f, a, axis, init) =
        IF ~InRange(axis, Ndim(a.shape)) \/ (init = None /\ len = 0) THEN {}
        ELSE {Array(RemoveAt(a.shape, ax), FlattenSeq(pieces))}
  BY DEF FoldAxis, Refuses
<1>2. a.shape \in Seq(Nat) /\ d \in Seq(Value) /\ Len(d) = Product(a.shape)  BY ArrayFacts
<1>3. A \in Nat /\ c \in Nat  BY ProductsDef
<1>4. ax = Len(p) + 1 /\ len = m /\ outer = A /\ inner = c /\ RemoveAt(a.shape, ax) = p \o q
  <2>1. ax = Len(p) + 1  OBVIOUS
  <2> DEFINE z == a.shape
             b == Len(p) + 1
  <2>2. z[b] = m /\ SubSeq(z, 1, b - 1) = p /\ SubSeq(z, b + 1, Len(z)) = q /\ RemoveAt(z, b) = p \o q
    <3> DEFINE y == Apart(p, m, q)
    <3>1. y[b] = m /\ SubSeq(y, 1, b - 1) = p /\ SubSeq(y, b + 1, Len(y)) = q /\ RemoveAt(y, b) = p \o q
      BY AxisParts
    <3>2. z = y  OBVIOUS
    <3> QED  BY <3>1, <3>2
  <2> QED  BY <2>1, <2>2 DEF Ndim
<1>5. Blocks(d, A, m, c)
  <2>1. Product(a.shape) = A * (m * c)
    <3>1. Product(Apart(p, m, q)) = A * (m * c)  BY AxisWeights
    <3> QED  BY <3>1
  <2>2. \A x, y, z \in Nat : x * (y * z) = (x * y) * z  OBVIOUS
  <2>3. A * (m * c) = (A * m) * c  BY <1>3, <2>2
  <2> QED  BY <1>2, <1>3, <2>1, <2>3 DEF Blocks
<1>6. FlattenSeq(pieces) = Pieces(f, init, d, A, m, c)  BY <1>4 DEF Piece, Pieces
<1> HIDE DEF pieces, A, c, d
<1> DEFINE data == Pieces(f, init, d, A, m, c)
<1>7. /\ data \in Seq(Value) /\ Len(data) = A * c
      /\ \A o \in 0..A - 1, j \in 0..c - 1 : data[o * c + j + 1] = Folded(f, init, Across(d, m, c, o, j + 1))
  <2>1. PiecesDone(f, init, d, A, m, c)  BY <1>5, PiecesFolded
  <2> QED  BY <2>1 DEF PiecesDone
<1>8. FoldAxis(f, a, axis, init) = {Array(p \o q, data)}
  <2> HIDE DEF ax, len, n, data
  <2> QED  BY <1>1, <1>4, <1>6 DEF data
<1> HIDE DEF data
<1>9. FoldData(f, init, a, p, m, q, data)  BY <1>7 DEF FoldData, A, c, d
<1> QED  BY <1>8, <1>9

-----------------------------------------------------------------------------
(* fold_axis and what NumPy folds.                                         *)

\* An axis in range takes the shape apart.
LEMMA AxisApart ==
  ASSUME NEW s \in Seq(Nat), NEW axis \in Int, InRange(axis, Ndim(s))
  PROVE  \E p, q \in Seq(Nat), m \in Nat : s = Apart(p, m, q) /\ Normalize(axis, Ndim(s)) = Len(p)
<1> DEFINE ax == Normalize(axis, Ndim(s))
           a == ax + 1
           p == SubSeq(s, 1, a - 1)
           q == SubSeq(s, a + 1, Len(s))
<1>1. ax \in 0..Len(s) - 1 /\ a \in 1..Len(s) /\ a - 1 = ax
  <2>1. Ndim(s) = Len(s) /\ Len(s) \in Nat  BY DEF Ndim
  <2> QED  BY <2>1, AxisFits
<1> HIDE DEF ax, a
<1>2. p \in Seq(Nat) /\ q \in Seq(Nat) /\ Len(p) = a - 1 /\ s[a] \in Nat /\ s = Apart(p, s[a], q)
  BY <1>1, TakenApart
<1> QED  BY <1>1, <1>2 DEF ax, a

\* NumPy's line through an element of the result.
IdealLine(x, i, ax, m) == [j \in 1..m |-> x.at[InsertAt(i, ax, j - 1)]]

\* It is the one across the data.
LEMMA LineAcross ==
  ASSUME NEW a, IsArray(a), NEW p \in Seq(Nat), NEW q \in Seq(Nat), NEW m \in Nat,
         a.shape = Apart(p, m, q), NEW x \in Indices(p), NEW y \in Indices(q)
  PROVE  IdealLine(IdealOf(a), x \o y, Len(p) + 1, m)
           = Across(a.data, m, Product(q), Position(p, x), Position(q, y) + 1)
<1> DEFINE o == Position(p, x)
           c == Product(q)
           k == Position(q, y)
           d == a.data
           at(j) == IdealOf(a).at[InsertAt(x \o y, Len(p) + 1, j - 1)]
           to(j) == d[(o * m + j - 1) * c + (k + 1)]
<1>1. o \in Nat /\ k \in Nat /\ c \in Nat  BY PlaceIs, ProductsDef
<1>2. ASSUME NEW j \in 1..m  PROVE at(j) = to(j)
  <2> DEFINE v == j - 1
             i == Apart(x, v, y)
  <2>1. v \in 0..m - 1 /\ v \in Nat  OBVIOUS
  <2>2. x \in Seq(Nat) /\ y \in Seq(Nat) /\ Len(x) = Len(p)  BY IndexTypes
  <2> HIDE DEF v
  <2>3. InsertAt(x \o y, Len(x) + 1, v) = i  BY <2>1, <2>2, AxisOps
  <2>4. i \in Indices(a.shape) /\ Position(a.shape, i) = (o * m + v) * c + k  BY <2>1, AxisPlace
  <2> HIDE DEF i
  <2>5. IdealOf(a).at[i] = d[(o * m + v) * c + k + 1]  BY <2>4, IdealFacts
  <2>6. (o * m + v) * c + k + 1 = (o * m + j - 1) * c + (k + 1)
    <3> DEFINE z == o * m
               w == z + v
    <3>1. z \in Nat /\ w \in Nat
      <4>1. z \in Nat  BY <1>1
      <4> QED  BY <2>1, <4>1
    <3>2. w = z + j - 1
      <4> HIDE DEF z
      <4> QED  BY <3>1 DEF v
    <3> HIDE DEF z, w, k
    <3>3. w * c \in Nat  BY <1>1, <3>1
    <3> DEFINE u == w * c
    <3> HIDE DEF u
    <3>4. u + k + 1 = u + (k + 1)  BY <1>1, <3>3 DEF u
    <3> QED  BY <3>2, <3>4 DEF u, w, z
  <2> QED  BY <2>2, <2>3, <2>5, <2>6 DEF v
<1>3. IdealLine(IdealOf(a), x \o y, Len(p) + 1, m) = [j \in 1..m |-> at(j)]  BY DEF IdealLine
<1>4. Across(a.data, m, Product(q), Position(p, x), Position(q, y) + 1) = [j \in 1..m |-> to(j)]  BY DEF Across
<1> HIDE DEF at, to
<1> QED  BY <1>2, <1>3, <1>4

\* What NumPy's fold is with the axis apart.
FoldedLine(f, init, a, p, m, i) == Folded(f, init, IdealLine(IdealOf(a), i, Len(p) + 1, m))
IdealFold(f, init, a, p, m, q)  == Ideal(p \o q, [i \in Indices(p \o q) |-> FoldedLine(f, init, a, p, m, i)])

LEMMA NumpyFoldApart ==
  ASSUME NEW f, NEW a, IsArray(a), NEW axis \in Int, NEW init, NEW p \in Seq(Nat), NEW q \in Seq(Nat), NEW m \in Nat,
         InRange(axis, Ndim(a.shape)), a.shape = Apart(p, m, q), Normalize(axis, Ndim(a.shape)) = Len(p)
  PROVE  NumpyFold(f, IdealOf(a), axis, init) =
           IF init = None /\ m = 0 /\ Product(p \o q) # 0 THEN {}
           ELSE {IdealFold(f, init, a, p, m, q)}
<1> DEFINE x   == IdealOf(a)
           n   == Ndim(x.shape)
           ax  == Normalize(axis, n) + 1
           out == RemoveAt(x.shape, ax)
<1>1. x.shape = a.shape  BY IdealFacts
<1>2. n # 0 /\ ax = Len(p) + 1 /\ InRange(axis, n)
  <2>1. Len(a.shape) \in Nat  BY ArrayFacts
  <2>2. n = Len(a.shape)  BY <1>1 DEF Ndim
  <2>3. n # 0  BY <2>1, <2>2 DEF InRange, Ndim
  <2> QED  BY <1>1, <2>3
<1>3. x.shape[ax] = m /\ out = p \o q
  <2> DEFINE z == Apart(p, m, q)
             b == Len(p) + 1
  <2>1. z[b] = m /\ RemoveAt(z, b) = p \o q  BY AxisParts
  <2>2. x.shape = z /\ ax = b  BY <1>1, <1>2
  <2> QED  BY <2>1, <2>2
<1> HIDE DEF n, ax, out
<1>4. NumpyFold(f, x, axis, init) =
        IF init = None /\ m = 0 /\ Product(out) # 0 THEN {}
        ELSE {Ideal(out, [i \in Indices(out) |-> Folded(f, init, IdealLine(x, i, ax, m))])}
  <2> HIDE DEF x
  <2> QED  BY <1>2, <1>3 DEF NumpyFold, Folded, IdealLine, n, ax, out
<1> QED  BY <1>2, <1>3, <1>4 DEF IdealFold, FoldedLine

\* The element of the result at each index.
LEMMA FoldAxisElement ==
  ASSUME NEW f, NEW a, IsArray(a), NEW init, NEW p \in Seq(Nat), NEW q \in Seq(Nat), NEW m \in Nat,
         a.shape = Apart(p, m, q), NEW data, FoldData(f, init, a, p, m, q, data)
  PROVE  \A i \in Indices(p \o q) : data[Position(p \o q, i) + 1] = FoldedLine(f, init, a, p, m, i)
<1> SUFFICES ASSUME NEW i \in Indices(p \o q)
             PROVE  data[Position(p \o q, i) + 1] = FoldedLine(f, init, a, p, m, i)
  OBVIOUS
<1> DEFINE x == SubSeq(i, 1, Len(p))
           y == SubSeq(i, Len(p) + 1, Len(i))
<1>1. x \in Indices(p) /\ y \in Indices(q) /\ i = x \o y  BY IndexJoined
<1> HIDE DEF x, y
<1>2. Position(p \o q, i) = Position(p, x) * Product(q) + Position(q, y)  BY <1>1, JoinedPlace
<1>3. Position(p, x) \in 0..Product(p) - 1 /\ Position(q, y) \in 0..Product(q) - 1  BY <1>1, PlaceIs
<1>4. IdealLine(IdealOf(a), i, Len(p) + 1, m) = Across(a.data, m, Product(q), Position(p, x), Position(q, y) + 1)
  BY <1>1, LineAcross
<1> QED  BY <1>2, <1>3, <1>4 DEF FoldData, FoldedLine

LEMMA FoldAxisRefuses ==
  ASSUME NEW f, NEW a, NEW axis, NEW init
  PROVE  FoldAxis(f, a, axis, init) = {} <=>
           \/ ~InRange(axis, Ndim(a.shape))
           \/ init = None /\ a.shape[Normalize(axis, Ndim(a.shape)) + 1] = 0
BY DEF FoldAxis, Refuses

\* fold_axis folds what NumPy folds.
LEMMA FoldAxisApart ==
  ASSUME NEW f, NEW a, IsArray(a), NEW axis \in Int, NEW init, init = None \/ init \in Value,
         InRange(axis, Ndim(a.shape)), NEW p \in Seq(Nat), NEW q \in Seq(Nat), NEW m \in Nat,
         a.shape = Apart(p, m, q), Normalize(axis, Ndim(a.shape)) = Len(p), init = None => m # 0
  PROVE  Faithful(FoldAxis(f, a, axis, init), NumpyFold(f, IdealOf(a), axis, init))
<1> DEFINE results  == FoldAxis(f, a, axis, init)
           expected == NumpyFold(f, IdealOf(a), axis, init)
           at == [i \in Indices(p \o q) |-> FoldedLine(f, init, a, p, m, i)]
<1>1. \E data : results = {Array(p \o q, data)} /\ FoldData(f, init, a, p, m, q, data)
  BY FoldAxisData
<1>2. PICK data : results = {Array(p \o q, data)} /\ FoldData(f, init, a, p, m, q, data)
  BY <1>1
<1>3. expected = {IdealFold(f, init, a, p, m, q)}
  <2>1. expected = IF init = None /\ m = 0 /\ Product(p \o q) # 0 THEN {} ELSE {IdealFold(f, init, a, p, m, q)}
    <3> HIDE DEF results, at
    <3> QED  BY NumpyFoldApart, SMTT(30)
  <2> QED  BY <2>1
<1>4. \A i \in Indices(p \o q) : data[Position(p \o q, i) + 1] = at[i]
  BY <1>2, FoldAxisElement
<1>5. at = [i \in Indices(p \o q) |-> at[i]]  OBVIOUS
<1>6. IdealFold(f, init, a, p, m, q) = Ideal(p \o q, at)  BY DEF IdealFold
<1> HIDE DEF at
<1>7. IdealOf(Array(p \o q, data)) = Ideal(p \o q, at)  BY <1>4, <1>5, IdealIs
<1>8. IsArray(Array(p \o q, data))
  <2>1. p \o q \in Seq(Nat) /\ Len(p \o q) = Len(p) + Len(q) /\ Product(p \o q) = Product(p) * Product(q)
    BY JoinedWeights
  <2>2. Len(p \o q) =< MAX_NDIM
    <3>1. Len(Apart(p, m, q)) = Len(p) + 1 + Len(q)  BY AxisParts
    <3>2. Len(a.shape) =< MAX_NDIM  BY ArrayFacts
    <3>3. Len(p) \in Nat /\ Len(q) \in Nat /\ MAX_NDIM \in Nat  BY KernelsAssumption
    <3> QED  BY <2>1, <3>1, <3>2, <3>3
  <2>3. data \in Seq(Value) /\ Len(data) = Product(p \o q)  BY <1>2, <2>1 DEF FoldData
  <2> QED  BY <2>1, <2>2, <2>3, ArrayMade
<1>9. results = {Array(p \o q, data)}  BY <1>2
<1> QED  BY <1>3, <1>6, <1>7, <1>8, <1>9 DEF Faithful

LEMMA FoldAxisFaithful ==
  ASSUME NEW f, NEW a, IsArray(a), NEW axis \in Int, NEW init, init = None \/ init \in Value
  PROVE  Faithful(FoldAxis(f, a, axis, init), NumpyFold(f, IdealOf(a), axis, init))
<1>1. CASE FoldAxis(f, a, axis, init) = {}
  BY <1>1 DEF Faithful
<1>2. CASE FoldAxis(f, a, axis, init) # {}
  <2>1. /\ InRange(axis, Ndim(a.shape))
        /\ ~(init = None /\ a.shape[Normalize(axis, Ndim(a.shape)) + 1] = 0)
    BY <1>2, FoldAxisRefuses
  <2>2. a.shape \in Seq(Nat)  BY ArrayFacts
  <2>3. PICK p \in Seq(Nat), q \in Seq(Nat), m \in Nat :
          a.shape = Apart(p, m, q) /\ Normalize(axis, Ndim(a.shape)) = Len(p)
    BY <2>1, <2>2, AxisApart
  <2>4. Apart(p, m, q)[Len(p) + 1] = m  BY AxisParts
  <2>5. init = None => m # 0  BY <2>1, <2>3, <2>4
  <2> QED  BY <2>1, <2>3, <2>5, FoldAxisApart
<1> QED  BY <1>1, <1>2

LEMMA FoldAxisJustified ==
  ASSUME NEW f, NEW a, IsArray(a), NEW axis \in Int, NEW init
  PROVE  Justified(FoldAxis(f, a, axis, init), NumpyFold(f, IdealOf(a), axis, init), a)
<1> SUFFICES ASSUME FoldAxis(f, a, axis, init) = {}, Size(a) > 0, Ndim(a.shape) \in 1..MAX_NDIM - 1
             PROVE  NumpyFold(f, IdealOf(a), axis, init) = {}
  BY DEF Justified
<1> DEFINE n == Ndim(a.shape)
<1>1. a.shape \in Seq(Nat) /\ n = Len(a.shape) /\ n # 0  BY ArrayFacts DEF Ndim
<1>2. InRange(axis, n) => a.shape[Normalize(axis, n) + 1] # 0
  <2> SUFFICES ASSUME InRange(axis, n)  PROVE a.shape[Normalize(axis, n) + 1] # 0
    OBVIOUS
  <2>1. Normalize(axis, n) + 1 \in 1..n
    <3>1. n \in Nat  BY <1>1
    <3> HIDE DEF n
    <3> QED  BY <3>1, AxisFits
  <2>2. Product(a.shape) # 0
    <3>1. Product(a.shape) > 0  BY DEF Size
    <3> QED  BY <1>1, <3>1, ProductsDef
  <2> QED  BY <1>1, <2>1, <2>2, ProductPositive
<1>3. ~InRange(axis, n)  BY <1>2, FoldAxisRefuses
<1>4. IdealOf(a).shape = a.shape  BY IdealFacts
<1> QED  BY <1>1, <1>3, <1>4 DEF NumpyFold

\* What mean() divides.
Divided(r, n) == Array(r.shape, [k \in DOMAIN r.data |-> Apply("mix", r.data[k], n)])
MeanResults(a, axis) ==
  UNION {{Divided(r, n) : r \in FoldAxis("mix", a, axis, 0)} : n \in MeanLength(a, axis)}

LEMMA DividedIs ==
  ASSUME NEW r, IsArray(r), NEW n \in Value
  PROVE  /\ IsArray(Divided(r, n))
         /\ IdealOf(Divided(r, n)) = Ideal(r.shape, [i \in DOMAIN IdealOf(r).at |-> Apply("mix", IdealOf(r).at[i], n)])
<1> DEFINE d  == [k \in DOMAIN r.data |-> Apply("mix", r.data[k], n)]
           at == [i \in Indices(r.shape) |-> Apply("mix", IdealOf(r).at[i], n)]
<1>1. /\ r.shape \in Seq(Nat) /\ r.data \in Seq(Value) /\ Len(r.shape) =< MAX_NDIM
      /\ Len(r.data) = Product(r.shape) /\ DOMAIN r.data = 1..Product(r.shape)
  BY ArrayFacts
<1>2. d \in Seq(Value) /\ Len(d) = Product(r.shape)
  <2>1. \A k \in DOMAIN r.data : Apply("mix", r.data[k], n) \in Value  BY <1>1, ApplyIs
  <2>2. d \in [1..Len(r.data) -> Value]  BY <1>1, <2>1
  <2> HIDE DEF d
  <2> QED  BY <1>1, <2>2
<1>3. \A i \in Indices(r.shape) : d[Position(r.shape, i) + 1] = at[i]
  <2> SUFFICES ASSUME NEW i \in Indices(r.shape)  PROVE d[Position(r.shape, i) + 1] = at[i]
    OBVIOUS
  <2>1. Position(r.shape, i) + 1 \in DOMAIN r.data  BY <1>1, PlaceIs
  <2>2. IdealOf(r).at[i] = r.data[Position(r.shape, i) + 1]  BY IdealFacts
  <2> QED  BY <2>1, <2>2
<1>4. at = [i \in Indices(r.shape) |-> at[i]]  OBVIOUS
<1>5. Divided(r, n) = Array(r.shape, d)  BY DEF Divided
<1>6. at = [i \in DOMAIN IdealOf(r).at |-> Apply("mix", IdealOf(r).at[i], n)]  BY IdealFacts
<1> HIDE DEF d, at
<1>7. IsArray(Array(r.shape, d))  BY <1>1, <1>2, ArrayMade
<1>8. IdealOf(Array(r.shape, d)) = Ideal(r.shape, at)  BY <1>3, <1>4, IdealIs
<1> QED  BY <1>5, <1>6, <1>7, <1>8

\* The length of the axis, if there is one.
LEMMA MeanLengthIs ==
  ASSUME NEW a, IsArray(a), NEW axis \in Int
  PROVE  /\ MeanLength(a, axis) = {} /\ Ndim(a.shape) # 0 => ~InRange(axis, Ndim(a.shape))
         /\ InRange(axis, Ndim(a.shape)) => MeanLength(a, axis) = {a.shape[Normalize(axis, Ndim(a.shape)) + 1]}
<1> DEFINE n == Ndim(a.shape)
           m == axis + n
<1>1. n \in Nat  BY ArrayFacts DEF Ndim
<1>2. MeanLength(a, axis) = IF n = 0 \/ (m < 0 /\ (-m) % n # 0) THEN {} ELSE {a.shape[(m % n) + 1]}
  BY DEF MeanLength
<1>3. InRange(axis, n) => n # 0 /\ ~(m < 0) /\ m % n = Normalize(axis, n)
  <2> SUFFICES ASSUME InRange(axis, n)  PROVE n # 0 /\ ~(m < 0) /\ m % n = Normalize(axis, n)
    OBVIOUS
  <2> HIDE DEF n
  <2>1. n # 0 /\ m \in 0..2 * n - 1 /\ axis \in -n..n - 1  BY <1>1 DEF InRange
  <2>2. \A q \in Int, r \in 0..n - 1 : m = q * n + r => r = m % n
    <3>1. n \in Nat \ {0} /\ m \in Int  BY <1>1, <2>1
    <3> HIDE DEF m
    <3> QED  BY ONLY <3>1, DivMod
  <2>3. CASE axis < 0
    <3>1. m \in 0..n - 1 /\ m = 0 * n + m /\ Normalize(axis, n) = m  BY <1>1, <2>1, <2>3 DEF Normalize
    <3> QED  BY <2>1, <2>2, <3>1
  <2>4. CASE axis >= 0
    <3>1. axis \in 0..n - 1 /\ m = 1 * n + axis /\ Normalize(axis, n) = axis  BY <1>1, <2>1, <2>4 DEF Normalize
    <3> QED  BY <2>1, <2>2, <3>1
  <2> QED  BY <2>3, <2>4
<1> HIDE DEF n, m
<1>4. MeanLength(a, axis) = {} /\ n # 0 => ~InRange(axis, n)  BY <1>2, <1>3
<1>5. InRange(axis, n) => MeanLength(a, axis) = {a.shape[Normalize(axis, n) + 1]}  BY <1>2, <1>3
<1> QED  BY <1>4, <1>5 DEF n

LEMMA MeanFaithful ==
  ASSUME NEW a, IsArray(a), NEW axis \in Int
  PROVE  Faithful(MeanResults(a, axis), NumpyMean(IdealOf(a), axis))
<1> SUFFICES ASSUME NEW z \in MeanResults(a, axis)
             PROVE  IsArray(z) /\ NumpyMean(IdealOf(a), axis) = {IdealOf(z)}
  BY DEF Faithful
<1> DEFINE s == Ndim(a.shape)
           l == a.shape[Normalize(axis, s) + 1]
<1>1. PICK n \in MeanLength(a, axis), r \in FoldAxis("mix", a, axis, 0) : z = Divided(r, n)  BY DEF MeanResults
<1>2. InRange(axis, s)  BY <1>1, FoldAxisRefuses
<1>3. s \in Nat /\ a.shape \in Seq(Nat) /\ s = Len(a.shape)  BY ArrayFacts DEF Ndim
<1>4. s # 0 /\ Normalize(axis, s) + 1 \in 1..s
  <2> HIDE DEF s
  <2> QED  BY <1>2, <1>3, AxisFits
<1>5. n = l /\ n \in Value
  <2>1. n = l  BY <1>1, <1>2, MeanLengthIs
  <2>2. l \in Nat  BY <1>3, <1>4
  <2> QED  BY <2>1, <2>2 DEF Value
<1>6. IsArray(r) /\ NumpyFold("mix", IdealOf(a), axis, 0) = {IdealOf(r)}
  <2>1. 0 \in Value  BY DEF Value
  <2>2. Faithful(FoldAxis("mix", a, axis, 0), NumpyFold("mix", IdealOf(a), axis, 0))  BY <2>1, FoldAxisFaithful
  <2> QED  BY <2>2 DEF Faithful
<1>7. NumpyMean(IdealOf(a), axis)
        = {Ideal(IdealOf(r).shape, [i \in DOMAIN IdealOf(r).at |-> Apply("mix", IdealOf(r).at[i], l)])}
  <2>1. IdealOf(a).shape = a.shape  BY IdealFacts
  <2> QED  BY <1>4, <1>6, <2>1 DEF NumpyMean
<1>8. IdealOf(r).shape = r.shape  BY IdealFacts
<1> QED  BY <1>1, <1>5, <1>6, <1>7, <1>8, DividedIs

LEMMA MeanJustified ==
  ASSUME NEW a, IsArray(a), NEW axis \in Int
  PROVE  Justified(MeanResults(a, axis), NumpyMean(IdealOf(a), axis), a)
<1> SUFFICES ASSUME MeanResults(a, axis) = {}, Size(a) > 0, Ndim(a.shape) \in 1..MAX_NDIM - 1
             PROVE  NumpyMean(IdealOf(a), axis) = {}
  BY DEF Justified
<1> DEFINE results == FoldAxis("mix", a, axis, 0)
<1>1. Ndim(a.shape) # 0  OBVIOUS
<1>2. InRange(axis, Ndim(a.shape)) => results = {}  BY MeanLengthIs DEF MeanResults
<1>3. ~InRange(axis, Ndim(a.shape)) => results = {}  BY FoldAxisRefuses
<1>4. results = {}  BY <1>2, <1>3
<1>5. NumpyFold("mix", IdealOf(a), axis, 0) = {}  BY <1>4, FoldAxisJustified DEF Justified
<1> QED  BY <1>5 DEF NumpyMean

\* Running folds fold every prefix.
LEMMA ScanFaithful ==
  ASSUME NEW f, NEW a, IsArray(a), NEW init \in Value
  PROVE  Faithful({Scan(f, a, init)}, {NumpyScan(f, IdealOf(a), init)})
<1> DEFINE n == Product(a.shape)
           d == [k \in DOMAIN a.data |-> Fold(f, init, SubSeq(a.data, 1, k))]
<1>1. a.data \in Seq(Value) /\ Len(a.data) = n /\ DOMAIN a.data = 1..n /\ n \in Nat /\ a.shape \in Seq(Nat)
  BY ArrayFacts, ProductsDef
<1>2. d \in Seq(Value) /\ Len(d) = n
  <2>1. ASSUME NEW k \in 1..n  PROVE Fold(f, init, SubSeq(a.data, 1, k)) \in Value
    <3>1. SubSeq(a.data, 0 + 1, k) \in Seq(Value)  BY <1>1, PartIs
    <3>2. SubSeq(a.data, 1, k) \in Seq(Value)  BY <3>1
    <3> QED  BY <3>2, FoldValue
  <2>2. d \in [1..n -> Value]  BY <1>1, <2>1
  <2> HIDE DEF d
  <2> QED  BY <1>1, <2>2
<1>3. /\ IsArray(Array(<<n>>, d))
      /\ IdealOf(Array(<<n>>, d)) = Ideal(<<n>>, [i \in Indices(<<n>>) |-> d[i[1] + 1]])
  BY <1>1, <1>2, OneAxisIdeal
<1>4. NumpyScan(f, IdealOf(a), init) = Ideal(<<n>>, [i \in Indices(<<n>>) |-> d[i[1] + 1]])
  <2>1. \A i \in Indices(<<n>>) : i[1] + 1 \in 1..n
    <3> SUFFICES ASSUME NEW i \in Indices(<<n>>)  PROVE i[1] + 1 \in 1..n
      OBVIOUS
    <3>1. i[1] \in 0..n - 1  BY <1>1, OneAxis
    <3> QED  BY <1>1, <3>1
  <2>2. \A i \in Indices(<<n>>) : d[i[1] + 1] = Fold(f, init, SubSeq(a.data, 1, i[1] + 1))  BY <1>1, <2>1
  <2>3. IdealOf(a).shape = a.shape /\ Flat(IdealOf(a)) = a.data  BY IdealFacts, FlatIdeal
  <2> HIDE DEF d
  <2> QED  BY <2>2, <2>3 DEF NumpyScan
<1>5. Scan(f, a, init) = Array(<<n>>, d)  BY DEF Scan, Size
<1> QED  BY <1>3, <1>4, <1>5 DEF Faithful

-----------------------------------------------------------------------------
(* Pieces of any lengths, one after the other.                             *)

\* Sums of lengths.
LEMMA SumsRise ==
  ASSUME NEW s \in Seq(Nat)
  PROVE  /\ Sums(s)[0] = 0 /\ Total(s) = Sums(s)[Len(s)]
         /\ \A k \in 0..Len(s) : Sums(s)[k] \in Nat
         /\ \A k \in 1..Len(s) : Sums(s)[k] = Sums(s)[k - 1] + s[k] /\ s[k] \in Nat
         /\ \A k \in 0..Len(s) : \A j \in 0..k : Sums(s)[j] <= Sums(s)[k]
<1> DEFINE N == Len(s)
           g == Sums(s)
<1>0. s \in Seq(Int)  OBVIOUS
<1>1. N \in Nat /\ g[0] = 0 /\ \A k \in 1..N : g[k] = g[k - 1] + s[k]  BY <1>0, SumsDef
<1>2. \A k \in 1..N : s[k] \in Nat  OBVIOUS
<1>3. Total(s) = g[N]  BY DEF Total
<1> HIDE DEF N, g
<1> DEFINE T == {k \in 0..N : g[k] \in Nat /\ \A j \in 0..k : g[j] <= g[k]}
<1>4. 0 \in T  BY <1>1
<1>5. ASSUME NEW k \in 0..N - 1, k \in T  PROVE k + 1 \in T
  <2>1. k + 1 \in 1..N /\ k + 1 \in 0..N /\ (k + 1) - 1 = k  BY <1>1
  <2>2. g[k + 1] = g[k] + s[k + 1] /\ s[k + 1] \in Nat  BY <1>1, <1>2, <2>1
  <2>3. g[k] \in Nat /\ \A j \in 0..k : g[j] <= g[k]  BY <1>5
  <2>4. g[k + 1] \in Nat /\ g[k] <= g[k + 1]  BY <2>2, <2>3
  <2>5. ASSUME NEW j \in 0..k + 1  PROVE g[j] <= g[k + 1]
    <3>1. CASE j = k + 1
      BY <2>4, <3>1
    <3>2. CASE j # k + 1
      <4>1. j \in 0..k  BY <3>2
      <4>2. g[j] <= g[k]  BY <2>3, <4>1
      <4>3. g[j] \in Int
        <5>1. j \in 0..N  BY <1>1, <4>1
        <5> QED  BY <1>0, <5>1, SumsDef DEF N, g
      <4> QED  BY <2>3, <2>4, <4>2, <4>3
    <3> QED  BY <3>1, <3>2
  <2> QED  BY <2>1, <2>4, <2>5
<1> HIDE DEF T
<1>6. \A k \in 0..N : k \in T  BY <1>1, <1>4, <1>5, InductionTo
<1>7. \A k \in 0..N : g[k] \in Nat /\ \A j \in 0..k : g[j] <= g[k]  BY <1>6 DEF T
<1> QED  BY <1>1, <1>2, <1>3, <1>7 DEF N, g

\* The sum of the first lengths.
LEMMA SumsOfFirst ==
  ASSUME NEW s \in Seq(Nat), NEW n \in 0..Len(s)
  PROVE  Total([k \in 1..n |-> s[k]]) = Sums(s)[n]
<1> DEFINE t == [k \in 1..n |-> s[k]]
           g == Sums(s)
<1>1. t \in Seq(Int) /\ Len(t) = n
  <2>1. t \in [1..n -> Nat]  OBVIOUS
  <2> HIDE DEF t
  <2> QED  BY <2>1
<1>2. g[0] = 0 /\ \A k \in 1..Len(s) : g[k] = g[k - 1] + s[k]  BY SumsRise
<1>3. \A k \in 1..Len(t) : g[k] = g[k - 1] + t[k]  BY <1>1, <1>2
<1> HIDE DEF t, g
<1>4. Total(t) = g[Len(t)]  BY <1>1, <1>2, <1>3, SumsAre
<1> QED  BY <1>1, <1>4 DEF t, g

\* Lengths times a width.
LEMMA SumsScaled ==
  ASSUME NEW s \in Seq(Nat), NEW c \in Nat, NEW t \in Seq(Nat), Len(t) = Len(s),
         \A k \in 1..Len(s) : t[k] = s[k] * c
  PROVE  \A k \in 0..Len(s) : Sums(t)[k] = Sums(s)[k] * c
<1> DEFINE g == [k \in 0..Len(s) |-> Sums(s)[k] * c]
<1>1. /\ Sums(s)[0] = 0 /\ \A k \in 0..Len(s) : Sums(s)[k] \in Nat
      /\ \A k \in 1..Len(s) : Sums(s)[k] = Sums(s)[k - 1] + s[k] /\ s[k] \in Nat
  BY SumsRise
<1>2. g[0] = 0  BY <1>1
<1>3. ASSUME NEW k \in 1..Len(t)  PROVE g[k] = g[k - 1] + t[k]
  <2>1. k \in 1..Len(s) /\ k \in 0..Len(s) /\ k - 1 \in 0..Len(s)  OBVIOUS
  <2>2. \A x, y, z \in Nat : (x + y) * z = x * z + y * z  OBVIOUS
  <2>3. Sums(s)[k] = Sums(s)[k - 1] + s[k] /\ s[k] \in Nat /\ Sums(s)[k - 1] \in Nat  BY <1>1, <2>1
  <2>4. Sums(s)[k] * c = Sums(s)[k - 1] * c + s[k] * c  BY <2>2, <2>3
  <2> QED  BY <2>1, <2>4
<1>4. \A k \in 0..Len(s) : g[k] = Sums(s)[k] * c  OBVIOUS
<1> HIDE DEF g
<1>5. t \in Seq(Int)  OBVIOUS
<1>6. \A k \in 0..Len(t) : Sums(t)[k] = g[k]  BY <1>2, <1>3, <1>5, SumsAre
<1> QED  BY <1>4, <1>6

\* d is the first n pieces of s joined; their lengths are lens.
Joins(d, s, n, lens) ==
  /\ d \in Seq(Value) /\ Len(d) = Sums(lens)[n]
  /\ \A k \in 1..n : \A e \in 1..lens[k] : d[Sums(lens)[k - 1] + e] = s[k][e]
OfLengths(s, lens) ==
  /\ lens \in Seq(Nat) /\ s \in Seq(Seq(Value)) /\ Len(s) = Len(lens)
  /\ \A k \in 1..Len(lens) : Len(s[k]) = lens[k]

LEMMA JoinsOne ==
  ASSUME NEW s, NEW lens, OfLengths(s, lens), NEW n \in 0..Len(lens) - 1, NEW d, Joins(d, s, n, lens)
  PROVE  Joins(d \o s[n + 1], s, n + 1, lens)
<1> DEFINE x == s[n + 1]
           e == d \o x
           g == Sums(lens)
           y == g[n]
<1>1. lens \in Seq(Nat) /\ s \in Seq(Seq(Value)) /\ Len(s) = Len(lens) /\ Len(lens) \in Nat
      /\ \A k \in 1..Len(lens) : Len(s[k]) = lens[k]
  BY DEF OfLengths
<1>2. n + 1 \in 1..Len(lens) /\ (n + 1) - 1 = n /\ n \in 0..Len(lens)  BY <1>1
<1>3. x \in Seq(Value) /\ Len(x) = lens[n + 1] /\ lens[n + 1] \in Nat  BY <1>1, <1>2
<1>4. d \in Seq(Value) /\ Len(d) = y /\ \A k \in 1..n : \A q \in 1..lens[k] : d[g[k - 1] + q] = s[k][q]
  BY DEF Joins
<1>5. y \in Nat /\ g[n + 1] = y + lens[n + 1]  BY <1>1, <1>2, SumsRise
<1> HIDE DEF x, y
<1>6. /\ e \in Seq(Value) /\ Len(e) = y + Len(x)
      /\ \A k \in 1..y : e[k] = d[k]
      /\ \A k \in 1..Len(x) : e[y + k] = x[k]
  <2>1. /\ e \in Seq(Value) /\ Len(e) = Len(d) + Len(x)
        /\ \A k \in 1..Len(d) : e[k] = d[k]
        /\ \A k \in 1..Len(x) : e[Len(d) + k] = x[k]
    <3>1. \A u, v \in Seq(Value) :
            /\ u \o v \in Seq(Value) /\ Len(u \o v) = Len(u) + Len(v)
            /\ \A k \in 1..Len(u) : (u \o v)[k] = u[k]
            /\ \A k \in 1..Len(v) : (u \o v)[Len(u) + k] = v[k]
      BY JoinIs
    <3> QED  BY <1>3, <1>4, <3>1
  <2> QED  BY <1>4, <2>1
<1> HIDE DEF e
<1>7. ASSUME NEW k \in 1..n + 1, NEW q \in 1..lens[k]  PROVE e[g[k - 1] + q] = s[k][q]
  <2>1. CASE k = n + 1
    BY <1>2, <1>3, <1>6, <2>1 DEF x, y
  <2>2. CASE k # n + 1
    <3>1. k \in 1..n /\ k \in 0..n /\ k \in 1..Len(lens) /\ k - 1 \in 0..Len(lens)  BY <1>2, <2>2
    <3>2. g[k] <= y  BY <1>1, <1>2, <3>1, SumsRise DEF y
    <3>3. g[k] = g[k - 1] + lens[k] /\ g[k - 1] \in Nat /\ lens[k] \in Nat  BY <1>1, <3>1, SumsRise
    <3> DEFINE z == g[k - 1]
               w == g[k]
    <3>4. w = z + lens[k] /\ z \in Nat /\ lens[k] \in Nat /\ w <= y  BY <3>2, <3>3
    <3> HIDE DEF z, w
    <3>5. z + q \in 1..y  BY <1>5, <3>4
    <3>6. e[z + q] = d[z + q]  BY <1>6, <3>5
    <3>7. d[z + q] = s[k][q]  BY <1>4, <3>1 DEF z
    <3> QED  BY <3>6, <3>7 DEF z
  <2> QED  BY <2>1, <2>2
<1>8. Len(e) = g[n + 1]  BY <1>3, <1>5, <1>6
<1> QED  BY <1>6, <1>7, <1>8 DEF Joins, e, x

\* FlattenSeq joins all of them.
LEMMA FlattenJoins ==
  ASSUME NEW s, NEW lens, OfLengths(s, lens)
  PROVE  Joins(FlattenSeq(s), s, Len(lens), lens)
<1> DEFINE m == Len(lens)
<1>1. lens \in Seq(Nat) /\ m \in Nat /\ s \in Seq(Seq(Value)) /\ Len(s) = m  BY DEF OfLengths
<1>2. Sums(lens)[0] = 0  BY <1>1, SumsRise
<1>3. Joins(<<>>, s, 0, lens)
  <2>1. <<>> \in Seq(Value) /\ Len(<<>>) = 0  OBVIOUS
  <2>2. \A k \in 1..0 : FALSE  OBVIOUS
  <2> QED  BY <1>2, <2>1, <2>2 DEF Joins
<1>4. CASE m = 0
  <2>1. FlattenSeq(s) = s  BY <1>1, <1>4 DEF FlattenSeq
  <2>2. s = <<>>  BY <1>1, <1>4
  <2> QED  BY <1>3, <1>4, <2>1, <2>2
<1>5. CASE m # 0
  <2> DEFINE f == CHOOSE f : f = [k \in 1..Len(s) |-> IF k = 1 THEN s[k] ELSE f[k - 1] \o s[k]]
  <2>1. FlattenSeq(s) = f[m]  BY <1>1, <1>5 DEF FlattenSeq
  <2>2. \E g : IsFlat(g, m, s)  BY <1>1, FlatExists, Zenon
  <2>3. IsFlat(f, m, s)  BY <1>1, <2>2, Zenon DEF IsFlat
  <2> HIDE DEF f
  <2>4. \A k \in 1..m : f[k] = IF k = 1 THEN s[k] ELSE f[k - 1] \o s[k]  BY <2>3 DEF IsFlat
  <2> DEFINE T == {n \in 0..m : n # 0 => Joins(f[n], s, n, lens)}
  <2>5. 0 \in T  BY <1>1
  <2>6. ASSUME NEW n \in 0..m - 1, n \in T  PROVE n + 1 \in T
    <3>1. n + 1 \in 1..m /\ n + 1 \in 0..m /\ (n + 1) - 1 = n /\ n \in Nat  BY <1>1
    <3>2. s[n + 1] \in Seq(Value)  BY <1>1, <3>1
    <3>3. CASE n = 0
      <4>1. Joins(<<>> \o s[n + 1], s, n + 1, lens)  BY <1>3, <3>3, JoinsOne
      <4>2. <<>> \o s[n + 1] = s[n + 1]  BY <3>2
      <4>3. f[n + 1] = s[n + 1]  BY <2>4, <3>1, <3>3
      <4> QED  BY <3>1, <4>1, <4>2, <4>3
    <3>4. CASE n # 0
      <4>1. Joins(f[n], s, n, lens)  BY <2>6, <3>4
      <4>2. Joins(f[n] \o s[n + 1], s, n + 1, lens)  BY <4>1, JoinsOne
      <4>3. f[n + 1] = f[n] \o s[n + 1]
        <5>1. n + 1 # 1  BY <3>1, <3>4
        <5> QED  BY <2>4, <3>1, <5>1
      <4> QED  BY <3>1, <4>2, <4>3
    <3> QED  BY <3>3, <3>4
  <2> HIDE DEF T
  <2>7. \A n \in 0..m : n \in T
    <3> HIDE DEF m
    <3> QED  BY <1>1, <2>5, <2>6, InductionTo
  <2>8. m \in 0..m  BY <1>1
  <2>9. Joins(f[m], s, m, lens)  BY <1>5, <2>7, <2>8 DEF T
  <2> QED  BY <2>1, <2>9
<1> QED  BY <1>4, <1>5

-----------------------------------------------------------------------------
(* concatenate.                                                            *)

\* A block of a part, m rows of c elements.
Cut(d, m, c, o) == SubSeq(d, o * (m * c) + 1, (o + 1) * (m * c))
CutDone(d, m, c, o) ==
  /\ Cut(d, m, c, o) \in Seq(Value) /\ Len(Cut(d, m, c, o)) = m * c
  /\ \A v \in 0..m - 1, j \in 0..c - 1 : /\ v * c + j + 1 \in 1..m * c
                                         /\ Cut(d, m, c, o)[v * c + j + 1] = d[(o * m + v) * c + j + 1]

LEMMA CutIs ==
  \A d, A, m, c : Blocks(d, A, m, c) => \A o \in 0..A - 1 : CutDone(d, m, c, o)
<1> SUFFICES ASSUME NEW d, NEW A, NEW m, NEW c, Blocks(d, A, m, c), NEW o \in 0..A - 1  PROVE CutDone(d, m, c, o)
  OBVIOUS
<1>1. d \in Seq(Value) /\ A \in Nat /\ m \in Nat /\ c \in Nat /\ Len(d) = (A * m) * c /\ o \in Nat  BY DEF Blocks
<1> DEFINE w == m * c
           y == o * w
           b == SubSeq(d, y + 1, y + w)
<1>2. w \in Nat
  <2>1. \A x, z \in Nat : x * z \in Nat  OBVIOUS
  <2> QED  BY <1>1, <2>1
<1>3. Len(d) = A * w
  <2>1. \A x, u, z \in Nat : (x * u) * z = x * (u * z)  OBVIOUS
  <2> QED  BY <1>1, <2>1
<1>4. y \in Nat /\ y + w <= Len(d) /\ (o + 1) * w = y + w
  <2> HIDE DEF w
  <2>1. o * w \in Nat /\ o * w + w <= A * w  BY <1>1, <1>2, BlockFits
  <2>2. \A x, z \in Nat : (x + 1) * z = x * z + z  OBVIOUS
  <2> QED  BY <1>1, <1>2, <1>3, <2>1, <2>2
<1>5. b \in Seq(Value) /\ Len(b) = w /\ \A k \in 1..w : b[k] = d[y + k]
  <2> HIDE DEF y, w
  <2> QED  BY <1>1, <1>2, <1>4, BlockIs
<1>6. b = Cut(d, m, c, o)  BY <1>4 DEF Cut
<1> HIDE DEF b
<1>7. ASSUME NEW v \in 0..m - 1, NEW j \in 0..c - 1
      PROVE  v * c + j + 1 \in 1..w /\ b[v * c + j + 1] = d[(o * m + v) * c + j + 1]
  <2>1. v * c + j \in 0..w - 1 /\ v * c \in Nat  BY <1>1, PlaceFits
  <2> DEFINE k == v * c
  <2>2. y + k = (o * m + v) * c
    <3>1. \A x, z, t, u \in Nat : x * (z * t) + u * t = (x * z + u) * t  OBVIOUS
    <3>2. v \in Nat  OBVIOUS
    <3> QED  BY <1>1, <3>1, <3>2
  <2> DEFINE z == (o * m + v) * c
  <2>3. k \in Nat /\ k + j \in 0..w - 1 /\ y + k = z  BY <2>1, <2>2
  <2> HIDE DEF k, w, y, z
  <2>4. k + j + 1 \in 1..w /\ y + (k + j + 1) = z + j + 1  BY <1>2, <1>4, <2>3
  <2>5. b[k + j + 1] = d[z + j + 1]  BY <1>5, <2>4
  <2> QED  BY <2>4, <2>5 DEF k, z
<1> QED  BY <1>5, <1>6, <1>7 DEF CutDone

\* Parts that agree but for the axis of the given lengths.
Fitting(parts, p, q, lens) ==
  /\ p \in Seq(Nat) /\ q \in Seq(Nat) /\ lens \in Seq(Nat) /\ Len(lens) # 0
  /\ DOMAIN parts = 1..Len(lens) /\ Len(parts) = Len(lens)
  /\ \A k \in 1..Len(lens) : IsArray(parts[k]) /\ parts[k].shape = Apart(p, lens[k], q)

\* What concatenate writes for each outer index, and all of it.
RowOf(parts, lens, c, o)  == FlattenSeq([k \in 1..Len(lens) |-> Cut(parts[k].data, lens[k], c, o)])
RowsOf(parts, lens, A, c) == FlattenSeq([o \in 1..A |-> RowOf(parts, lens, c, o - 1)])
RowDone(parts, lens, c, o) ==
  /\ RowOf(parts, lens, c, o) \in Seq(Value) /\ Len(RowOf(parts, lens, c, o)) = Total(lens) * c
  /\ \A k \in 1..Len(lens) : \A v \in 0..lens[k] - 1, j \in 0..c - 1 :
       RowOf(parts, lens, c, o)[(Sums(lens)[k - 1] + v) * c + j + 1]
         = parts[k].data[(o * lens[k] + v) * c + j + 1]

LEMMA PartBlocks ==
  \A parts, p, q, lens : Fitting(parts, p, q, lens) =>
    \A k \in 1..Len(lens) : Blocks(parts[k].data, Product(p), lens[k], Product(q))
<1> SUFFICES ASSUME NEW parts, NEW p, NEW q, NEW lens, Fitting(parts, p, q, lens), NEW k \in 1..Len(lens)
             PROVE  Blocks(parts[k].data, Product(p), lens[k], Product(q))
  OBVIOUS
<1> DEFINE a == parts[k]
           m == lens[k]
<1>1. p \in Seq(Nat) /\ q \in Seq(Nat) /\ m \in Nat /\ IsArray(a) /\ a.shape = Apart(p, m, q)  BY DEF Fitting
<1> HIDE DEF a, m
<1>2. a.data \in Seq(Value) /\ Len(a.data) = Product(a.shape)  BY <1>1, ArrayFacts
<1>3. Product(Apart(p, m, q)) = Product(p) * (m * Product(q))  BY <1>1, AxisWeights
<1>4. Product(p) \in Nat /\ Product(q) \in Nat  BY <1>1, ProductsDef
<1>5. \A x, y, z \in Nat : x * (y * z) = (x * y) * z  OBVIOUS
<1>6. Len(a.data) = (Product(p) * m) * Product(q)  BY <1>1, <1>2, <1>3, <1>4, <1>5
<1> QED  BY <1>1, <1>2, <1>4, <1>6 DEF Blocks, a, m

LEMMA RowIs ==
  \A parts, p, q, lens : Fitting(parts, p, q, lens) =>
    \A o \in 0..Product(p) - 1 : RowDone(parts, lens, Product(q), o)
<1> SUFFICES ASSUME NEW parts, NEW p, NEW q, NEW lens, Fitting(parts, p, q, lens), NEW o \in 0..Product(p) - 1
             PROVE  RowDone(parts, lens, Product(q), o)
  OBVIOUS
<1> DEFINE c == Product(q)
           n == Len(lens)
           s == [k \in 1..n |-> Cut(parts[k].data, lens[k], c, o)]
           w == [k \in 1..n |-> lens[k] * c]
           r == FlattenSeq(s)
           g == Sums(lens)
<1>1. lens \in Seq(Nat) /\ n \in Nat /\ q \in Seq(Nat)  BY DEF Fitting
<1>2. c \in Nat  BY <1>1, ProductsDef
<1>3. ASSUME NEW k \in 1..n  PROVE CutDone(parts[k].data, lens[k], c, o)
  <2>1. Blocks(parts[k].data, Product(p), lens[k], c)  BY PartBlocks
  <2> HIDE DEF c
  <2> QED  BY <2>1, CutIs
<1> HIDE DEF c
<1>4. w \in Seq(Nat) /\ Len(w) = n /\ \A k \in 1..n : w[k] = lens[k] * c
  <2>1. \A x, y \in Nat : x * y \in Nat  OBVIOUS
  <2>2. \A k \in 1..n : lens[k] * c \in Nat  BY <1>1, <1>2, <2>1
  <2>3. w \in [1..n -> Nat]  BY <2>2
  <2>4. \A k \in 1..n : w[k] = lens[k] * c  OBVIOUS
  <2> HIDE DEF w, n
  <2>5. w \in Seq(Nat) /\ Len(w) = n  BY <1>1, <2>3
  <2> QED  BY <2>4, <2>5
<1>5. \A k \in 1..n : s[k] = Cut(parts[k].data, lens[k], c, o) /\ s[k] \in Seq(Value) /\ Len(s[k]) = w[k]
  BY <1>3, <1>4 DEF CutDone
<1>6. s \in Seq(Seq(Value)) /\ Len(s) = n
  <2>1. s \in [1..n -> Seq(Value)]  BY <1>5
  <2> HIDE DEF s, n
  <2> QED  BY <1>1, <2>1
<1>7. r = RowOf(parts, lens, c, o)  BY DEF RowOf
<1> HIDE DEF s, w, r
<1>8. OfLengths(s, w)  BY <1>4, <1>5, <1>6 DEF OfLengths
<1>9. Joins(r, s, n, w)  BY <1>4, <1>8, FlattenJoins DEF r
<1>10. \A k \in 0..n : Sums(w)[k] = g[k] * c  BY <1>1, <1>2, <1>4, SumsScaled
<1>11. r \in Seq(Value) /\ Len(r) = Total(lens) * c
  <2>1. n \in 0..n /\ Total(lens) = g[n]  BY <1>1 DEF Total
  <2> QED  BY <1>9, <1>10, <2>1 DEF Joins
<1>12. ASSUME NEW k \in 1..n, NEW v \in 0..lens[k] - 1, NEW j \in 0..c - 1
       PROVE  r[(g[k - 1] + v) * c + j + 1] = parts[k].data[(o * lens[k] + v) * c + j + 1]
  <2>1. k - 1 \in 0..n /\ g[k - 1] \in Nat /\ lens[k] \in Nat /\ v \in Nat  BY <1>1, SumsRise
  <2>2. /\ v * c + j + 1 \in 1..w[k]
        /\ s[k][v * c + j + 1] = parts[k].data[(o * lens[k] + v) * c + j + 1]
    BY <1>3, <1>4, <1>5 DEF CutDone
  <2>3. r[Sums(w)[k - 1] + (v * c + j + 1)] = s[k][v * c + j + 1]  BY <1>9, <2>2 DEF Joins
  <2>4. Sums(w)[k - 1] + (v * c + j + 1) = (g[k - 1] + v) * c + j + 1
    <3>1. Sums(w)[k - 1] = g[k - 1] * c  BY <1>10, <2>1
    <3>2. \A x, y, z \in Nat : (x + y) * z = x * z + y * z /\ x * z \in Nat /\ y * z \in Nat  OBVIOUS
    <3> DEFINE x == g[k - 1] * c
               y == v * c
               z == (g[k - 1] + v) * c
    <3>3. z = x + y /\ x \in Nat /\ y \in Nat  BY <1>2, <2>1, <3>2
    <3> HIDE DEF x, y, z
    <3>4. x + (y + j + 1) = z + j + 1  BY <3>3
    <3> QED  BY <3>1, <3>4 DEF x, y, z
  <2> QED  BY <2>2, <2>3, <2>4
<1> QED  BY <1>7, <1>11, <1>12 DEF RowDone, c

\* All of what concatenate writes.
RowsDone(parts, lens, A, c) ==
  /\ RowsOf(parts, lens, A, c) \in Seq(Value) /\ Len(RowsOf(parts, lens, A, c)) = A * (Total(lens) * c)
  /\ \A o \in 0..A - 1 : \A k \in 1..Len(lens) : \A v \in 0..lens[k] - 1, j \in 0..c - 1 :
       /\ Sums(lens)[k - 1] + v \in 0..Total(lens) - 1
       /\ RowsOf(parts, lens, A, c)[(o * Total(lens) + (Sums(lens)[k - 1] + v)) * c + j + 1]
            = parts[k].data[(o * lens[k] + v) * c + j + 1]

LEMMA RowsAre ==
  \A parts, p, q, lens : Fitting(parts, p, q, lens) => RowsDone(parts, lens, Product(p), Product(q))
<1> SUFFICES ASSUME NEW parts, NEW p, NEW q, NEW lens, Fitting(parts, p, q, lens)
             PROVE  RowsDone(parts, lens, Product(p), Product(q))
  OBVIOUS
<1> DEFINE A == Product(p)
           c == Product(q)
           M == Total(lens)
           w == M * c
           s == [o \in 1..A |-> RowOf(parts, lens, c, o - 1)]
           r == FlattenSeq(s)
           g == Sums(lens)
<1>1. A \in Nat /\ c \in Nat /\ lens \in Seq(Nat) /\ M \in Nat
  <2>1. p \in Seq(Nat) /\ q \in Seq(Nat) /\ lens \in Seq(Nat)  BY DEF Fitting
  <2>2. Len(lens) \in 0..Len(lens)  BY <2>1
  <2> QED  BY <2>1, <2>2, ProductsDef, SumsRise
<1>2. \A o \in 0..A - 1 : RowDone(parts, lens, c, o)  BY RowIs
<1> HIDE DEF A, c
<1>3. w \in Nat
  <2>1. \A x, y \in Nat : x * y \in Nat  OBVIOUS
  <2> QED  BY <1>1, <2>1
<1> HIDE DEF M
<1>4. \A o \in 1..A : s[o] \in Seq(Value) /\ Len(s[o]) = w
  <2>1. \A o \in 1..A : o - 1 \in 0..A - 1  BY <1>1
  <2> QED  BY <1>2, <2>1 DEF RowDone, M
<1>5. s \in Seq(Seq(Value)) /\ Len(s) = A
  <2>1. s \in [1..A -> Seq(Value)]  BY <1>4
  <2> HIDE DEF s
  <2> QED  BY <1>1, <2>1
<1>6. \A o \in 0..A - 1 : s[o + 1] = RowOf(parts, lens, c, o)
  <2>1. \A o \in 0..A - 1 : o + 1 \in 1..A /\ (o + 1) - 1 = o  BY <1>1
  <2> QED  BY <2>1
<1>7. r = RowsOf(parts, lens, A, c)  BY DEF RowsOf
<1> HIDE DEF s, w
<1>8. /\ r \in Seq(Value) /\ Len(r) = A * w
      /\ \A o \in 0..A - 1, t \in 0..w - 1 : r[o * w + t + 1] = s[o + 1][t + 1]
  <2>1. A \in Nat /\ w \in Nat /\ \A k \in 1..A : Len(s[k]) = w  BY <1>1, <1>3, <1>4
  <2> QED  BY ONLY <1>5, <2>1, PiecesIs
<1> HIDE DEF r
<1>9. ASSUME NEW o \in 0..A - 1, NEW k \in 1..Len(lens), NEW v \in 0..lens[k] - 1, NEW j \in 0..c - 1
      PROVE  /\ g[k - 1] + v \in 0..M - 1
             /\ r[(o * M + (g[k - 1] + v)) * c + j + 1] = parts[k].data[(o * lens[k] + v) * c + j + 1]
  <2> DEFINE y == g[k - 1] + v
             t == y * c + j
  <2>1. g[k - 1] + v \in 0..M - 1
    <3>1. k \in 0..Len(lens) /\ k - 1 \in 0..Len(lens) /\ Len(lens) \in 0..Len(lens) /\ k \in 0..Len(lens)  BY <1>1
    <3>2. g[k - 1] \in Nat /\ g[k] = g[k - 1] + lens[k] /\ lens[k] \in Nat /\ g[k] <= g[Len(lens)] /\ M = g[Len(lens)]
      BY <1>1, <3>1, SumsRise DEF M
    <3> HIDE DEF g
    <3> QED  BY <1>1, <3>2
  <2> HIDE DEF y
  <2>2. y \in 0..M - 1  BY <2>1 DEF y
  <2>3. t \in 0..w - 1 /\ y * c \in Nat  BY <1>1, <2>2, PlaceFits DEF w
  <2>4. r[o * w + t + 1] = RowOf(parts, lens, c, o)[t + 1]
    <3> HIDE DEF t
    <3> QED  BY <1>6, <1>8, <2>3
  <2>5. RowOf(parts, lens, c, o)[y * c + j + 1] = parts[k].data[(o * lens[k] + v) * c + j + 1]
    BY <1>2 DEF RowDone, y
  <2>6. o * w + t + 1 = (o * M + y) * c + j + 1
    <3>1. \A x, z, u, h \in Nat : x * (z * h) + u * h = (x * z + u) * h /\ x * (z * h) \in Nat
      OBVIOUS
    <3>2. o \in Nat /\ y \in Nat  BY <2>2
    <3> DEFINE a == o * (M * c)
               b == y * c
               e == (o * M + y) * c
    <3>3. a + b = e /\ a \in Nat /\ b \in Nat  BY <1>1, <2>3, <3>1, <3>2
    <3> HIDE DEF a, b, e
    <3>4. a + (b + j) + 1 = e + j + 1  BY <3>3
    <3> QED  BY <3>4 DEF a, b, e, w
  <2> QED  BY <2>1, <2>4, <2>5, <2>6 DEF y
<1> QED  BY <1>7, <1>8, <1>9 DEF RowsDone, A, c, M, w

\* The parts of concatenate.
AllParts(parts) ==
  /\ Len(parts) \in Nat \ {0} /\ DOMAIN parts = 1..Len(parts)
  /\ \A k \in 1..Len(parts) : IsArray(parts[k])
Unfit(parts, axis) ==
  LET first == parts[1].shape
      ax    == Normalize(axis, Ndim(first)) + 1
  IN  \/ ~InRange(axis, Ndim(first))
      \/ \E k \in DOMAIN parts :
           \/ Ndim(parts[k].shape) # Ndim(first)
           \/ \E j \in DOMAIN first : j # ax /\ parts[k].shape[j] # first[j]

LEMMA PartsFit ==
  ASSUME NEW parts, AllParts(parts), NEW axis \in Int, ~Unfit(parts, axis)
  PROVE  \E p, q, lens : Fitting(parts, p, q, lens) /\ Normalize(axis, Ndim(parts[1].shape)) = Len(p)
<1> DEFINE n == Len(parts)
           first == parts[1].shape
<1>1. n \in Nat \ {0} /\ DOMAIN parts = 1..n /\ \A k \in 1..n : IsArray(parts[k])  BY DEF AllParts
<1>2. 1 \in 1..n  BY <1>1
<1>3. first \in Seq(Nat)  BY <1>1, <1>2, ArrayFacts
<1>4. InRange(axis, Ndim(first))  BY DEF Unfit
<1>5. PICK p \in Seq(Nat), q \in Seq(Nat), m \in Nat :
        first = Apart(p, m, q) /\ Normalize(axis, Ndim(first)) = Len(p)
  BY <1>3, <1>4, AxisApart
<1> DEFINE a == Len(p) + 1
           lens == [k \in 1..n |-> parts[k].shape[a]]
<1>6. \A k \in 1..n : /\ Len(parts[k].shape) = Len(first)
                      /\ \A j \in 1..Len(first) : j # a => parts[k].shape[j] = first[j]
  <2>1. ~\E k \in 1..n :
           \/ Ndim(parts[k].shape) # Ndim(first)
           \/ \E j \in DOMAIN first : j # a /\ parts[k].shape[j] # first[j]
    BY <1>1, <1>5 DEF Unfit
  <2>2. DOMAIN first = 1..Len(first)  BY <1>3
  <2> QED  BY <2>1, <2>2 DEF Ndim
<1>7. Comprises(first, p, m, q)  BY <1>5, ShapeItems
<1> HIDE DEF first
<1>8. ASSUME NEW k \in 1..n
      PROVE  parts[k].shape[a] \in Nat /\ parts[k].shape = Apart(p, parts[k].shape[a], q)
  <2> DEFINE z == parts[k].shape
  <2>0. /\ Len(first) = Len(p) + 1 + Len(q)
        /\ \A j \in 1..Len(p) : first[j] = p[j]
        /\ \A j \in 1..Len(q) : first[Len(p) + 1 + j] = q[j]
    BY <1>7 DEF Comprises, ItemsOf
  <2>1. z \in Seq(Nat) /\ Len(z) = Len(p) + 1 + Len(q)  BY <1>1, <1>6, <2>0, ArrayFacts
  <2>2. \A j \in 1..Len(first) : j # a => z[j] = first[j]  BY <1>6
  <2> HIDE DEF z, n
  <2>3. Len(p) \in Nat /\ Len(q) \in Nat  OBVIOUS
  <2>4. z[a] \in Nat
    <3>1. a \in 1..Len(z)  BY <2>1, <2>3
    <3> HIDE DEF a
    <3> QED  BY <2>1, <3>1
  <2>5. \A j \in 1..Len(p) : z[j] = p[j]
    <3> SUFFICES ASSUME NEW j \in 1..Len(p)  PROVE z[j] = p[j]
      OBVIOUS
    <3>1. j \in 1..Len(first) /\ j # a  BY <2>0, <2>3
    <3> QED  BY <2>0, <2>2, <3>1
  <2>6. \A j \in 1..Len(q) : z[Len(p) + 1 + j] = q[j]
    <3> SUFFICES ASSUME NEW j \in 1..Len(q)  PROVE z[Len(p) + 1 + j] = q[j]
      OBVIOUS
    <3> DEFINE b == Len(p) + 1 + j
    <3>1. b \in 1..Len(first) /\ b # a  BY <2>0, <2>3
    <3>2. z[b] = first[b]
      <4> HIDE DEF b
      <4> QED  BY <2>2, <3>1
    <3>3. first[b] = q[j]  BY <2>0
    <3> QED  BY <3>2, <3>3
  <2>7. Comprises(z, p, z[a], q)  BY <2>1, <2>5, <2>6 DEF Comprises, ItemsOf
  <2>8. z = Apart(p, z[a], q)  BY <2>4, <2>7, ShapeOfItems
  <2> QED  BY <2>4, <2>8 DEF z
<1>9. lens \in Seq(Nat) /\ Len(lens) = n /\ \A k \in 1..n : lens[k] = parts[k].shape[a]
  <2>1. lens \in [1..n -> Nat]  BY <1>8
  <2>2. \A k \in 1..n : lens[k] = parts[k].shape[a]  OBVIOUS
  <2> HIDE DEF lens, n
  <2>3. lens \in Seq(Nat) /\ Len(lens) = n  BY <1>1, <2>1
  <2> QED  BY <2>2, <2>3
<1> HIDE DEF lens
<1>10. Fitting(parts, p, q, lens)
  <2> HIDE DEF a
  <2> QED  BY <1>1, <1>8, <1>9 DEF Fitting
<1> QED  BY <1>5, <1>10 DEF first

\* Every position along the axis is one of a part.
LEMMA PartExists ==
  ASSUME NEW lens \in Seq(Nat), NEW j \in 0..Total(lens) - 1
  PROVE  \E k \in 1..Len(lens) : Sums(lens)[k - 1] <= j /\ j < Sums(lens)[k - 1] + lens[k]
<1> DEFINE n == Len(lens)
           g == Sums(lens)
           T == {k \in 0..n : j < g[k]}
<1>1. /\ n \in Nat /\ g[0] = 0 /\ Total(lens) = g[n] /\ \A k \in 0..n : g[k] \in Nat
      /\ \A k \in 1..n : g[k] = g[k - 1] + lens[k]
  BY SumsRise
<1> HIDE DEF g, n
<1>2. n \in 0..n /\ j < g[n] /\ j \in Nat
  <2>1. g[n] \in Nat  BY <1>1
  <2> QED  BY <1>1, <2>1
<1>3. T \in SUBSET Nat /\ T # {}
  <2>1. n \in T  BY <1>2
  <2>2. T \in SUBSET Nat  OBVIOUS
  <2> HIDE DEF T
  <2> QED  BY <2>1, <2>2
<1>4. PICK k \in T : \A y \in T : ~(y < k)
  <2> HIDE DEF T
  <2> QED  BY <1>3, Least
<1>5. k \in 0..n /\ j < g[k]  OBVIOUS
<1>6. k # 0  BY <1>1, <1>2, <1>5
<1>7. k \in 1..n /\ k - 1 \in 0..n  BY <1>1, <1>5, <1>6
<1>8. ~(j < g[k - 1])
  <2>1. SUFFICES ASSUME j < g[k - 1]  PROVE FALSE
    OBVIOUS
  <2>2. k - 1 \in T  BY <1>7, <2>1
  <2>3. k - 1 < k  BY <1>7
  <2> HIDE DEF T
  <2> QED  BY <1>4, <2>2, <2>3
<1>9. g[k - 1] <= j  BY <1>1, <1>2, <1>7, <1>8
<1>10. j < g[k - 1] + lens[k]  BY <1>1, <1>5, <1>7
<1> QED  BY <1>7, <1>9, <1>10 DEF g, n

\* What concatenate writes is the element of the part the index is in.
LEMMA JoinedElement ==
  ASSUME NEW parts, NEW p, NEW q, NEW lens, Fitting(parts, p, q, lens),
         NEW i \in Indices(Apart(p, Total(lens), q)), NEW k \in 1..Len(lens),
         Sums(lens)[k - 1] <= i[Len(p) + 1], i[Len(p) + 1] < Sums(lens)[k - 1] + lens[k]
  PROVE  RowsOf(parts, lens, Product(p), Product(q))[Position(Apart(p, Total(lens), q), i) + 1]
           = IdealOf(parts[k]).at[[i EXCEPT ![Len(p) + 1] = i[Len(p) + 1] - Sums(lens)[k - 1]]]
<1> DEFINE M == Total(lens)
           c == Product(q)
           g == Sums(lens)[k - 1]
           m == lens[k]
           a == parts[k]
<1>1. p \in Seq(Nat) /\ q \in Seq(Nat) /\ lens \in Seq(Nat) /\ IsArray(a) /\ a.shape = Apart(p, m, q)
  BY DEF Fitting
<1>2. M \in Nat /\ g \in Nat /\ m \in Nat
  <2>1. Len(lens) \in 0..Len(lens) /\ k - 1 \in 0..Len(lens)  BY <1>1
  <2> QED  BY <1>1, <2>1, SumsRise
<1>3. PICK x \in Indices(p), w \in 0..M - 1, y \in Indices(q) : i = Apart(x, w, y)
  BY <1>1, <1>2, IndexApart
<1>4. x \in Seq(Nat) /\ y \in Seq(Nat) /\ Len(x) = Len(p) /\ w \in Nat
  <2>1. x \in Seq(Nat) /\ Len(x) = Len(p)  BY <1>1, <1>3, IndexTypes
  <2>2. y \in Seq(Nat)  BY <1>1, <1>3, IndexTypes
  <2> QED  BY <1>2, <2>1, <2>2
<1>5. i[Len(p) + 1] = w
  <2>1. Apart(x, w, y)[Len(x) + 1] = w  BY <1>4, AxisParts
  <2> QED  BY <1>3, <1>4, <2>1
<1> DEFINE v == w - g
<1>6. v \in 0..m - 1 /\ v \in Nat /\ g + v = w
  <2>1. g <= w /\ w < g + m  BY <1>5
  <2> HIDE DEF g, m
  <2> QED  BY <1>2, <1>4, <2>1
<1> HIDE DEF v
<1>7. [i EXCEPT ![Len(p) + 1] = v] = Apart(x, v, y)
  <2>1. [Apart(x, w, y) EXCEPT ![Len(x) + 1] = v] = Apart(x, v, y)  BY <1>4, <1>6, AxisOps
  <2> QED  BY <1>3, <1>4, <2>1
<1> DEFINE o == Position(p, x)
           j == Position(q, y)
<1>8. o \in 0..Product(p) - 1 /\ j \in 0..c - 1  BY <1>1, <1>3, PlaceIs
<1>9. IdealOf(a).at[Apart(x, v, y)] = a.data[(o * m + v) * c + j + 1]
  <2>1. Apart(x, v, y) \in Indices(a.shape) /\ Position(a.shape, Apart(x, v, y)) = (o * m + v) * c + j
    BY <1>1, <1>2, <1>3, <1>6, AxisPlace
  <2> QED  BY <2>1, IdealFacts
<1>10. Position(Apart(p, M, q), i) = (o * M + w) * c + j
  <2> HIDE DEF M
  <2> QED  BY <1>1, <1>2, <1>3, AxisPlace
<1>11. RowsOf(parts, lens, Product(p), c)[(o * M + (g + v)) * c + j + 1] = a.data[(o * m + v) * c + j + 1]
  <2>1. RowsDone(parts, lens, Product(p), c)  BY RowsAre
  <2> QED  BY <1>6, <1>8, <2>1 DEF RowsDone
<1>12. v = i[Len(p) + 1] - g  BY <1>5 DEF v
<1> QED  BY <1>6, <1>7, <1>9, <1>10, <1>11, <1>12

\* NumPy's parts.
Ideals(parts) == [k \in DOMAIN parts |-> IdealOf(parts[k])]

LEMMA IdealsAre ==
  ASSUME NEW parts, AllParts(parts)
  PROVE  /\ DOMAIN Ideals(parts) = 1..Len(parts) /\ Len(Ideals(parts)) = Len(parts)
         /\ \A k \in 1..Len(parts) : /\ Ideals(parts)[k] = IdealOf(parts[k])
                                     /\ Ideals(parts)[k].shape = parts[k].shape
<1>1. Len(parts) \in Nat /\ DOMAIN parts = 1..Len(parts)  BY DEF AllParts
<1>2. Ideals(parts) = [k \in 1..Len(parts) |-> IdealOf(parts[k])]  BY <1>1 DEF Ideals
<1> DEFINE n == Len(parts)
           s == Ideals(parts)
<1>3. s = [k \in 1..n |-> IdealOf(parts[k])] /\ n \in Nat  BY <1>1, <1>2
<1> HIDE DEF n, s
<1>4. DOMAIN s = 1..n /\ \A k \in 1..n : s[k] = IdealOf(parts[k])  BY <1>3
<1>5. Len(s) = n
  <2> DEFINE S == {IdealOf(parts[k]) : k \in 1..n}
  <2>1. s \in [1..n -> S]  BY <1>3
  <2> HIDE DEF S
  <2>2. s \in Seq(S)  BY <1>3, <2>1
  <2>3. DOMAIN s = 1..Len(s) /\ Len(s) \in Nat  BY <2>2
  <2> QED  BY <1>3, <1>4, <2>3
<1>6. \A k \in 1..n : s[k].shape = parts[k].shape  BY <1>4, IdealFacts
<1> QED  BY <1>4, <1>5, <1>6 DEF n, s

\* concatenate is NumPy's, once the parts are taken apart.
LEMMA ConcatenateApart ==
  ASSUME NEW parts, AllParts(parts), NEW axis \in Int, ~Unfit(parts, axis),
         NEW p, NEW q, NEW lens, Fitting(parts, p, q, lens), Normalize(axis, Ndim(parts[1].shape)) = Len(p)
  PROVE  Concatenate(parts, axis) =
           {Array(Apart(p, Total(lens), q), RowsOf(parts, lens, Product(p), Product(q)))}
<1> DEFINE first == parts[1].shape
           ax    == Normalize(axis, Ndim(first)) + 1
           outer == Product(SubSeq(first, 1, ax - 1))
           inner == Product(SubSeq(first, ax + 1, Ndim(first)))
           block(z, o) == LET n == z.shape[ax] * inner IN SubSeq(z.data, o * n + 1, (o + 1) * n)
           all   == FlattenSeq([o \in 1..outer |->
                      FlattenSeq([k \in DOMAIN parts |-> block(parts[k], o - 1)])])
           out   == [first EXCEPT ![ax] = Total([k \in DOMAIN parts |-> parts[k].shape[ax]])]
<1>1. Concatenate(parts, axis) = {Array(out, all)}  BY DEF Concatenate, Unfit
<1>2. /\ p \in Seq(Nat) /\ q \in Seq(Nat) /\ lens \in Seq(Nat) /\ Len(lens) # 0
      /\ DOMAIN parts = 1..Len(lens)
      /\ \A k \in 1..Len(lens) : parts[k].shape = Apart(p, lens[k], q)
  BY DEF Fitting
<1>3. ax = Len(p) + 1  OBVIOUS
<1>4. \A k \in 1..Len(lens) : lens[k] \in Nat /\ parts[k].shape[ax] = lens[k]
  <2> SUFFICES ASSUME NEW k \in 1..Len(lens)  PROVE lens[k] \in Nat /\ parts[k].shape[ax] = lens[k]
    OBVIOUS
  <2>1. lens[k] \in Nat  BY <1>2
  <2>2. Apart(p, lens[k], q)[Len(p) + 1] = lens[k]  BY <1>2, <2>1, AxisParts
  <2> QED  BY <1>2, <1>3, <2>1, <2>2
<1>5. 1 \in 1..Len(lens)  BY <1>2
<1>6. first = Apart(p, lens[1], q) /\ lens[1] \in Nat  BY <1>2, <1>4, <1>5
<1>7. outer = Product(p) /\ inner = Product(q)
  <2> DEFINE z == Apart(p, lens[1], q)
             b == Len(p) + 1
  <2>1. SubSeq(z, 1, b - 1) = p /\ SubSeq(z, b + 1, Len(z)) = q  BY <1>2, <1>6, AxisParts
  <2>2. first = z /\ ax = b  BY <1>3, <1>6
  <2> QED  BY <2>1, <2>2 DEF Ndim
<1>8. out = Apart(p, Total(lens), q)
  <2>1. [k \in DOMAIN parts |-> parts[k].shape[ax]] = lens
    <3> HIDE DEF ax
    <3>1. [k \in DOMAIN parts |-> parts[k].shape[ax]] = [k \in 1..Len(lens) |-> lens[k]]  BY <1>2, <1>4
    <3>2. lens = [k \in 1..Len(lens) |-> lens[k]]  BY <1>2
    <3> QED  BY <3>1, <3>2
  <2>2. Total(lens) \in Nat
    <3>1. Len(lens) \in 0..Len(lens)  BY <1>2
    <3> QED  BY <1>2, <3>1, SumsRise
  <2>3. [Apart(p, lens[1], q) EXCEPT ![Len(p) + 1] = Total(lens)] = Apart(p, Total(lens), q)
    BY <1>2, <1>6, <2>2, AxisOps
  <2> QED  BY <1>3, <1>6, <2>1, <2>3
<1>9. all = RowsOf(parts, lens, Product(p), Product(q))
  <2>1. \A k \in 1..Len(lens) : \A o : block(parts[k], o) = Cut(parts[k].data, lens[k], Product(q), o)
    <3> HIDE DEF inner, ax
    <3> QED  BY <1>4, <1>7 DEF Cut
  <2> HIDE DEF block, inner, outer
  <2> QED  BY <1>2, <1>7, <2>1 DEF RowsOf, RowOf
<1> HIDE DEF all, out
<1> QED  BY <1>1, <1>8, <1>9

\* What NumPy's definition says.
LEMMA NumpyApart ==
  ASSUME NEW parts, AllParts(parts), NEW axis \in Int, ~Unfit(parts, axis),
         NEW p, NEW q, NEW lens, Fitting(parts, p, q, lens), Normalize(axis, Ndim(parts[1].shape)) = Len(p)
  PROVE  \E at : /\ NumpyConcatenate(Ideals(parts), axis) = {Ideal(Apart(p, Total(lens), q), at)}
                 /\ at = [i \in Indices(Apart(p, Total(lens), q)) |-> at[i]]
                 /\ \A i \in Indices(Apart(p, Total(lens), q)) :
                      RowsOf(parts, lens, Product(p), Product(q))[Position(Apart(p, Total(lens), q), i) + 1] = at[i]
<1> DEFINE xs == Ideals(parts)
           first == xs[1].shape
           ax    == Normalize(axis, Ndim(first)) + 1
           before(k) == Total([e \in 1..k - 1 |-> xs[e].shape[ax]])
           part(j) == CHOOSE k \in DOMAIN xs : before(k) =< j /\ j < before(k) + xs[k].shape[ax]
           out   == [first EXCEPT ![ax] = before(Len(xs) + 1)]
           at    == [i \in Indices(out) |->
                      xs[part(i[ax])].at[[i EXCEPT ![ax] = i[ax] - before(part(i[ax]))]]]
           n == Len(lens)
           g == Sums(lens)
           M == Total(lens)
           shape == Apart(p, M, q)
<1>1. /\ p \in Seq(Nat) /\ q \in Seq(Nat) /\ lens \in Seq(Nat) /\ n # 0 /\ n \in Nat
      /\ DOMAIN parts = 1..n /\ Len(parts) = n
      /\ \A k \in 1..n : parts[k].shape = Apart(p, lens[k], q)
  BY DEF Fitting
<1>2. /\ DOMAIN xs = 1..n /\ Len(xs) = n
      /\ \A k \in 1..n : xs[k] = IdealOf(parts[k]) /\ xs[k].shape = Apart(p, lens[k], q)
  BY <1>1, IdealsAre
<1>3. 1 \in 1..n /\ first = parts[1].shape /\ ax = Len(p) + 1
  BY <1>1, <1>2
<1>4. M \in Nat /\ \A k \in 1..n : lens[k] \in Nat /\ xs[k].shape[ax] = lens[k]
  <2>1. Len(lens) \in 0..Len(lens)  BY <1>1
  <2>2. M \in Nat  BY <1>1, <2>1, SumsRise
  <2>3. ASSUME NEW k \in 1..n  PROVE lens[k] \in Nat /\ xs[k].shape[ax] = lens[k]
    <3>1. lens[k] \in Nat  BY <1>1
    <3>2. Apart(p, lens[k], q)[Len(p) + 1] = lens[k]  BY <1>1, <3>1, AxisParts
    <3> QED  BY <1>2, <1>3, <3>1, <3>2
  <2> QED  BY <2>2, <2>3
<1>5. \A k \in 1..n + 1 : before(k) = g[k - 1]
  <2> SUFFICES ASSUME NEW k \in 1..n + 1  PROVE before(k) = g[k - 1]
    OBVIOUS
  <2>1. k - 1 \in 0..n  BY <1>1
  <2>2. \A e \in 1..k - 1 : e \in 1..n  BY <1>1
  <2>3. [e \in 1..k - 1 |-> xs[e].shape[ax]] = [e \in 1..k - 1 |-> lens[e]]
    <3> HIDE DEF ax, xs
    <3> QED  BY <1>4, <2>2
  <2>4. Total([e \in 1..k - 1 |-> lens[e]]) = g[k - 1]  BY <1>1, <2>1, SumsOfFirst
  <2> QED  BY <2>3, <2>4
<1>6. out = shape
  <2>1. before(Len(xs) + 1) = M
    <3>1. n + 1 \in 1..n + 1 /\ (n + 1) - 1 = n  BY <1>1
    <3>2. before(n + 1) = g[n]
      <4> HIDE DEF before, g
      <4> QED  BY <1>5, <3>1
    <3> QED  BY <1>2, <3>2 DEF Total
  <2>2. first = Apart(p, lens[1], q) /\ lens[1] \in Nat  BY <1>2, <1>3, <1>4
  <2>3. [Apart(p, lens[1], q) EXCEPT ![Len(p) + 1] = M] = Apart(p, M, q)
    <3> HIDE DEF M
    <3>1. p \in Seq(Nat) /\ q \in Seq(Nat) /\ lens[1] \in Nat /\ M \in Nat  BY <1>1, <1>4, <2>2
    <3> QED  BY ONLY <3>1, AxisOps, Zenon
  <2> HIDE DEF before, M
  <2> QED  BY <1>3, <2>1, <2>2, <2>3
<1>7. NumpyConcatenate(xs, axis) = {Ideal(out, at)}
  <2>1. InRange(axis, Ndim(first))  BY <1>3 DEF Unfit
  <2>2. ASSUME NEW k \in DOMAIN xs
        PROVE  Ndim(xs[k].shape) = Ndim(first) /\ [xs[k].shape EXCEPT ![ax] = 0] = [first EXCEPT ![ax] = 0]
    <3>1. xs[k].shape = Apart(p, lens[k], q) /\ lens[k] \in Nat  BY <1>2, <1>4
    <3>2. first = Apart(p, lens[1], q) /\ lens[1] \in Nat  BY <1>2, <1>3, <1>4
    <3>3. \A e \in Nat : /\ Len(Apart(p, e, q)) = Len(p) + 1 + Len(q)
                         /\ [Apart(p, e, q) EXCEPT ![Len(p) + 1] = 0] = Apart(p, 0, q)
      <4> SUFFICES ASSUME NEW e \in Nat
                   PROVE  /\ Len(Apart(p, e, q)) = Len(p) + 1 + Len(q)
                          /\ [Apart(p, e, q) EXCEPT ![Len(p) + 1] = 0] = Apart(p, 0, q)
        OBVIOUS
      <4>1. Len(Apart(p, e, q)) = Len(p) + 1 + Len(q)  BY <1>1, AxisParts
      <4>2. [Apart(p, e, q) EXCEPT ![Len(p) + 1] = 0] = Apart(p, 0, q)  BY <1>1, AxisOps
      <4> QED  BY <4>1, <4>2
    <3> QED  BY <1>3, <3>1, <3>2, <3>3 DEF Ndim
  <2> HIDE DEF xs
  <2> QED  BY <2>1, <2>2, Zenon DEF NumpyConcatenate
<1>8. ASSUME NEW i \in Indices(shape)
      PROVE  RowsOf(parts, lens, Product(p), Product(q))[Position(shape, i) + 1] = at[i]
  <2> DEFINE a == Len(p) + 1
             k == part(i[a])
  <2>1. i[a] \in 0..M - 1
    <3>1. a \in 1..Len(shape) /\ shape[a] = M  BY <1>1, <1>4, AxisParts
    <3>2. shape \in Seq(Nat)  BY <1>1, <1>4, AxisParts
    <3>3. i[a] \in Nat /\ i[a] < shape[a]
      <4> HIDE DEF shape, a
      <4> QED  BY <3>1, <3>2, IndexTypes
    <3> QED  BY <1>4, <3>1, <3>3
  <2>2. \E e \in 1..n : g[e - 1] <= i[a] /\ i[a] < g[e - 1] + lens[e]  BY <1>1, <2>1, PartExists
  <2>3. \A e \in 1..n : before(e) = g[e - 1] /\ xs[e].shape[ax] = lens[e]
    <3>1. \A e \in 1..n : e \in 1..n + 1  BY <1>1
    <3> HIDE DEF before, xs, ax
    <3> QED  BY <1>4, <1>5, <3>1
  <2>4. \E e \in DOMAIN xs : before(e) =< i[a] /\ i[a] < before(e) + xs[e].shape[ax]
    <3> HIDE DEF before, xs, ax, g, a
    <3> QED  BY <1>2, <2>2, <2>3
  <2>5. k \in DOMAIN xs /\ before(k) =< i[a] /\ i[a] < before(k) + xs[k].shape[ax]
    <3> HIDE DEF before, xs, ax, a
    <3> QED  BY <2>4
  <2> HIDE DEF k, g
  <2>6. k \in 1..n /\ before(k) = g[k - 1] /\ g[k - 1] <= i[a] /\ i[a] < g[k - 1] + lens[k]
    <3> HIDE DEF before, xs, ax, a
    <3> QED  BY <1>2, <2>3, <2>5
  <2>7. RowsOf(parts, lens, Product(p), Product(q))[Position(shape, i) + 1]
          = IdealOf(parts[k]).at[[i EXCEPT ![a] = i[a] - g[k - 1]]]
    BY <2>6, JoinedElement DEF g
  <2>8. at[i] = xs[k].at[[i EXCEPT ![a] = i[a] - before(k)]]
    <3>1. ax = a  BY <1>3
    <3>2. i \in Indices(out)  BY <1>6
    <3> HIDE DEF ax, a, before, out, xs
    <3> QED  BY <3>1, <3>2 DEF k
  <2>9. xs[k] = IdealOf(parts[k])
    <3> HIDE DEF xs
    <3> QED  BY <1>2, <2>6
  <2> HIDE DEF at, before, xs
  <2> QED  BY <2>6, <2>7, <2>8, <2>9
<1>9. at = [i \in Indices(out) |-> at[i]]
  <2> HIDE DEF out, ax, before, part, xs
  <2> QED  OBVIOUS
<1> HIDE DEF at, out, M
<1>10. at = [i \in Indices(shape) |-> at[i]]  BY <1>6, <1>9
<1> HIDE DEF shape
<1>11. NumpyConcatenate(xs, axis) = {Ideal(shape, at)}  BY <1>6, <1>7
<1> QED  BY <1>8, <1>10, <1>11 DEF M, shape

\* concatenate joins the parts as NumPy does.
LEMMA ConcatenateRefuses ==
  ASSUME NEW parts, NEW axis
  PROVE  Concatenate(parts, axis) = {} <=> Unfit(parts, axis)
BY DEF Concatenate, Unfit, Refuses

LEMMA ConcatenateFaithful ==
  ASSUME NEW parts, AllParts(parts), NEW axis \in Int
  PROVE  Faithful(Concatenate(parts, axis), NumpyConcatenate(Ideals(parts), axis))
<1>1. CASE Unfit(parts, axis)
  <2>1. Concatenate(parts, axis) = {}  BY <1>1, ConcatenateRefuses
  <2> QED  BY <2>1 DEF Faithful
<1>2. CASE ~Unfit(parts, axis)
  <2>1. PICK p, q, lens : Fitting(parts, p, q, lens) /\ Normalize(axis, Ndim(parts[1].shape)) = Len(p)
    BY <1>2, PartsFit
  <2> DEFINE shape == Apart(p, Total(lens), q)
             data  == RowsOf(parts, lens, Product(p), Product(q))
  <2>2. Concatenate(parts, axis) = {Array(shape, data)}  BY <1>2, <2>1, ConcatenateApart
  <2>3. PICK at : /\ NumpyConcatenate(Ideals(parts), axis) = {Ideal(shape, at)}
                  /\ at = [i \in Indices(shape) |-> at[i]]
                  /\ \A i \in Indices(shape) : data[Position(shape, i) + 1] = at[i]
    BY <1>2, <2>1, NumpyApart
  <2>4. /\ p \in Seq(Nat) /\ q \in Seq(Nat) /\ lens \in Seq(Nat) /\ 1 \in 1..Len(lens)
        /\ IsArray(parts[1]) /\ parts[1].shape = Apart(p, lens[1], q)
    <3>1. /\ p \in Seq(Nat) /\ q \in Seq(Nat) /\ lens \in Seq(Nat) /\ Len(lens) # 0
          /\ \A k \in 1..Len(lens) : IsArray(parts[k]) /\ parts[k].shape = Apart(p, lens[k], q)
      BY <2>1 DEF Fitting
    <3>2. 1 \in 1..Len(lens)  BY <3>1
    <3> QED  BY <3>1, <3>2
  <2>5. Total(lens) \in Nat
    <3>1. Len(lens) \in 0..Len(lens)  BY <2>4
    <3> QED  BY <2>4, <3>1, SumsRise
  <2>6. shape \in Seq(Nat) /\ Len(shape) = Len(p) + 1 + Len(q)  BY <2>4, <2>5, AxisParts
  <2>7. Len(shape) =< MAX_NDIM
    <3>1. lens[1] \in Nat  BY <2>4
    <3>2. Len(Apart(p, lens[1], q)) = Len(p) + 1 + Len(q)  BY <2>4, <3>1, AxisParts
    <3>3. Len(parts[1].shape) =< MAX_NDIM  BY <2>4, ArrayFacts
    <3> QED  BY <2>4, <2>6, <3>2, <3>3
  <2>8. Product(shape) = Product(p) * (Total(lens) * Product(q))  BY <2>4, <2>5, AxisWeights
  <2>9. data \in Seq(Value) /\ Len(data) = Product(p) * (Total(lens) * Product(q))
    <3>1. RowsDone(parts, lens, Product(p), Product(q))  BY <2>1, RowsAre
    <3> QED  BY <3>1 DEF RowsDone
  <2> HIDE DEF shape, data
  <2>10. IsArray(Array(shape, data))  BY <2>6, <2>7, <2>8, <2>9, ArrayMade
  <2>11. IdealOf(Array(shape, data)) = Ideal(shape, at)  BY <2>3, IdealIs
  <2> QED  BY <2>2, <2>3, <2>10, <2>11 DEF Faithful
<1> QED  BY <1>1, <1>2

LEMMA NumpyUnfit ==
  ASSUME NEW parts, AllParts(parts), NEW axis \in Int, Unfit(parts, axis)
  PROVE  NumpyConcatenate(Ideals(parts), axis) = {}
<1> DEFINE xs == Ideals(parts)
           n == Len(parts)
           first == parts[1].shape
           ax    == Normalize(axis, Ndim(first)) + 1
<1>1. n \in Nat \ {0} /\ DOMAIN parts = 1..n /\ 1 \in 1..n /\ \A k \in 1..n : IsArray(parts[k])  BY DEF AllParts
<1>2. DOMAIN xs = 1..n /\ \A k \in 1..n : xs[k].shape = parts[k].shape  BY IdealsAre
<1>3. xs[1].shape = first  BY <1>1, <1>2
<1> HIDE DEF xs
<1>4. CASE ~InRange(axis, Ndim(first))
  BY <1>3, <1>4, Zenon DEF NumpyConcatenate, xs
<1>5. CASE InRange(axis, Ndim(first))
  <2>1. PICK k \in DOMAIN parts :
           \/ Ndim(parts[k].shape) # Ndim(first)
           \/ \E j \in DOMAIN first : j # ax /\ parts[k].shape[j] # first[j]
    BY <1>5 DEF Unfit
  <2> DEFINE z == parts[k].shape
  <2>2. k \in DOMAIN xs /\ xs[k].shape = z  BY <1>1, <1>2
  <2>3. first \in Seq(Nat) /\ z \in Seq(Nat)  BY <1>1, ArrayFacts
  <2>4. Ndim(z) # Ndim(first) \/ [z EXCEPT ![ax] = 0] # [first EXCEPT ![ax] = 0]
    <3> SUFFICES ASSUME Ndim(z) = Ndim(first), [z EXCEPT ![ax] = 0] = [first EXCEPT ![ax] = 0]  PROVE FALSE
      OBVIOUS
    <3>1. PICK j \in DOMAIN first : j # ax /\ z[j] # first[j]  BY <2>1
    <3> HIDE DEF first, z, ax
    <3>2. DOMAIN z = DOMAIN first  BY <2>3 DEF Ndim
    <3>3. [z EXCEPT ![ax] = 0][j] = z[j] /\ [first EXCEPT ![ax] = 0][j] = first[j]  BY <3>1, <3>2
    <3> QED  BY <3>1, <3>3
  <2>5. \E e \in DOMAIN xs : \/ Ndim(xs[e].shape) # Ndim(first)
                             \/ [xs[e].shape EXCEPT ![ax] = 0] # [first EXCEPT ![ax] = 0]
    <3> HIDE DEF z, ax, first
    <3> QED  BY <2>2, <2>4
  <2> QED  BY <1>3, <2>5, Zenon DEF NumpyConcatenate, xs
<1> QED  BY <1>4, <1>5

LEMMA ConcatenateJustified ==
  ASSUME NEW parts, AllParts(parts), NEW axis \in Int, NEW a
  PROVE  Justified(Concatenate(parts, axis), NumpyConcatenate(Ideals(parts), axis), a)
BY ConcatenateRefuses, NumpyUnfit DEF Justified

-----------------------------------------------------------------------------
(* stack.                                                                  *)

\* Ones are summed.
LEMMA SumsOfOnes ==
  ASSUME NEW n \in Nat
  PROVE  LET ones == [k \in 1..n |-> 1] IN
         /\ ones \in Seq(Nat) /\ Len(ones) = n /\ Total(ones) = n
         /\ \A k \in 1..n : ones[k] = 1 /\ Sums(ones)[k - 1] = k - 1
<1> DEFINE ones == [k \in 1..n |-> 1]
           g == [k \in 0..n |-> k]
<1>1. ones \in [1..n -> Nat] /\ \A k \in 1..n : ones[k] = 1  OBVIOUS
<1>2. g[0] = 0 /\ (\A k \in 0..n : g[k] = k) /\ \A k \in 1..n : g[k - 1] = k - 1  OBVIOUS
<1> HIDE DEF ones, g
<1>3. ones \in Seq(Nat) /\ ones \in Seq(Int) /\ Len(ones) = n  BY <1>1
<1>4. \A k \in 1..Len(ones) : g[k] = g[k - 1] + ones[k]  BY <1>1, <1>2, <1>3
<1>5. (\A k \in 0..Len(ones) : Sums(ones)[k] = g[k]) /\ Total(ones) = g[Len(ones)]  BY <1>2, <1>3, <1>4, SumsAre
<1>6. \A k \in 1..n : Sums(ones)[k - 1] = k - 1
  <2>1. \A k \in 1..n : k - 1 \in 0..n  OBVIOUS
  <2> QED  BY <1>2, <1>3, <1>5, <2>1
<1>7. Total(ones) = n  BY <1>2, <1>3, <1>5
<1> QED  BY <1>1, <1>3, <1>6, <1>7 DEF ones

\* What stack gives to concatenate.
Thickened(parts, shape) == [k \in DOMAIN parts |-> Array(shape, parts[k].data)]
Unstackable(parts, axis) ==
  LET shape == parts[1].shape IN
  \/ \E k \in DOMAIN parts : parts[k].shape # shape
  \/ ~InRange(axis, Ndim(shape) + 1)
  \/ Ndim(shape) + 1 > MAX_NDIM

\* Where the new axis goes.
LEMMA NewAxis ==
  ASSUME NEW s \in Seq(Nat), NEW axis \in Int, InRange(axis, Ndim(s) + 1)
  PROVE  \E p, q \in Seq(Nat) : /\ s = p \o q /\ Len(p) = Normalize(axis, Ndim(s) + 1)
                                /\ Len(s) = Len(p) + Len(q)
                                /\ \A e \in Nat : InsertAt(s, Normalize(axis, Ndim(s) + 1) + 1, e) = Apart(p, e, q)
<1> DEFINE a == Normalize(axis, Ndim(s) + 1)
           p == SubSeq(s, 1, a)
           q == SubSeq(s, a + 1, Len(s))
<1>1. a \in 0..Len(s)
  <2>1. Len(s) \in Nat /\ Ndim(s) = Len(s)  BY DEF Ndim
  <2> DEFINE n == Len(s)
  <2>2. n \in Nat /\ Ndim(s) = n  BY <2>1
  <2> HIDE DEF n
  <2>3. a \in 0..n  BY <2>2 DEF InRange, Normalize
  <2> QED  BY <2>3 DEF n
<1> HIDE DEF a
<1>2. p \in Seq(Nat) /\ q \in Seq(Nat) /\ Len(p) = a /\ Len(q) = Len(s) - a /\ p \o q = s
  <2>1. \A S : \A u \in Seq(S) : \A b \in 0..Len(u) :
          /\ SubSeq(u, 1, b) \in Seq(S) /\ SubSeq(u, b + 1, Len(u)) \in Seq(S)
          /\ Len(SubSeq(u, 1, b)) = b /\ Len(SubSeq(u, b + 1, Len(u))) = Len(u) - b
          /\ SubSeq(u, 1, b) \o SubSeq(u, b + 1, Len(u)) = u
    BY Halves
  <2>2. \A u \in Seq(Nat) : \A b \in 0..Len(u) :
          /\ SubSeq(u, 1, b) \in Seq(Nat) /\ SubSeq(u, b + 1, Len(u)) \in Seq(Nat)
          /\ Len(SubSeq(u, 1, b)) = b /\ Len(SubSeq(u, b + 1, Len(u))) = Len(u) - b
          /\ SubSeq(u, 1, b) \o SubSeq(u, b + 1, Len(u)) = u
    BY <2>1
  <2> QED  BY <1>1, <2>2
<1> HIDE DEF p, q
<1>3. \A e \in Nat : InsertAt(p \o q, Len(p) + 1, e) = Apart(p, e, q)
  <2> SUFFICES ASSUME NEW e \in Nat  PROVE InsertAt(p \o q, Len(p) + 1, e) = Apart(p, e, q)
    OBVIOUS
  <2> QED  BY <1>2, AxisOps
<1>4. Len(s) = Len(p) + Len(q)  BY <1>1, <1>2
<1>5. \A e \in Nat : InsertAt(s, a + 1, e) = Apart(p, e, q)  BY <1>2, <1>3
<1> QED  BY <1>2, <1>4, <1>5 DEF a

\* The parts with the new axis.
LEMMA ThickenedFit ==
  ASSUME NEW parts, AllParts(parts), NEW p \in Seq(Nat), NEW q \in Seq(Nat), Len(p) + Len(q) + 1 =< MAX_NDIM,
         \A k \in 1..Len(parts) : parts[k].shape = p \o q
  PROVE  LET thick == Thickened(parts, Apart(p, 1, q)) IN
         /\ AllParts(thick) /\ Fitting(thick, p, q, [k \in 1..Len(parts) |-> 1])
         /\ ~Unfit(thick, Len(p)) /\ Normalize(Len(p), Ndim(thick[1].shape)) = Len(p)
         /\ \A k \in 1..Len(parts) : thick[k].data = parts[k].data
<1> DEFINE n == Len(parts)
           s == Apart(p, 1, q)
           thick == Thickened(parts, s)
           ones == [k \in 1..n |-> 1]
<1>1. n \in Nat \ {0} /\ DOMAIN parts = 1..n /\ \A k \in 1..n : IsArray(parts[k])  BY DEF AllParts
<1>2. s \in Seq(Nat) /\ Len(s) = Len(p) + 1 + Len(q)  BY AxisParts
<1>3. Product(s) = Product(p \o q)
  <2>1. Product(s) = Product(p) * (1 * Product(q))  BY AxisWeights
  <2>2. Product(p \o q) = Product(p) * Product(q)  BY JoinedWeights
  <2>3. Product(p) \in Nat /\ Product(q) \in Nat  BY ProductsDef
  <2> QED  BY <2>1, <2>2, <2>3
<1>4. Len(s) =< MAX_NDIM
  <2>1. Len(p) \in Nat /\ Len(q) \in Nat /\ MAX_NDIM \in Nat  BY KernelsAssumption
  <2> QED  BY <1>2, <2>1
<1>5. thick = [k \in 1..n |-> Array(s, parts[k].data)]  BY <1>1 DEF Thickened
<1> HIDE DEF s, thick
<1>6. \A k \in 1..n : IsArray(thick[k]) /\ thick[k].shape = s /\ thick[k].data = parts[k].data
  <2> SUFFICES ASSUME NEW k \in 1..n
               PROVE  IsArray(thick[k]) /\ thick[k].shape = s /\ thick[k].data = parts[k].data
    OBVIOUS
  <2>1. parts[k].data \in Seq(Value) /\ Len(parts[k].data) = Product(s)  BY <1>1, <1>3, ArrayFacts
  <2>2. thick[k] = Array(s, parts[k].data)  BY <1>5
  <2> DEFINE d == parts[k].data
  <2>3. d \in Seq(Value) /\ Len(d) = Product(s) /\ thick[k] = Array(s, d)  BY <2>1, <2>2
  <2> HIDE DEF d
  <2>4. IsArray(Array(s, d)) /\ Array(s, d).shape = s /\ Array(s, d).data = d  BY <1>2, <1>4, <2>3, ArrayMade
  <2> QED  BY <2>3, <2>4 DEF d
<1>7. DOMAIN thick = 1..n /\ Len(thick) = n
  <2> DEFINE S == {Array(s, parts[k].data) : k \in 1..n}
  <2>1. thick \in [1..n -> S]  BY <1>5
  <2> HIDE DEF S
  <2>2. thick \in Seq(S) /\ DOMAIN thick = 1..n  BY <1>1, <2>1
  <2>3. DOMAIN thick = 1..Len(thick) /\ Len(thick) \in Nat  BY <2>2
  <2> QED  BY <1>1, <2>2, <2>3
<1>8. AllParts(thick)  BY <1>1, <1>6, <1>7 DEF AllParts
<1>9. ones \in Seq(Nat) /\ Len(ones) = n /\ \A k \in 1..n : ones[k] = 1
  <2> HIDE DEF n
  <2> QED  BY <1>1, SumsOfOnes
<1> HIDE DEF ones
<1>10. Fitting(thick, p, q, ones)  BY <1>1, <1>6, <1>7, <1>9 DEF Fitting, s
<1>11. Len(p) \in 0..Len(s) - 1
  <2>1. Len(p) \in Nat /\ Len(q) \in Nat  OBVIOUS
  <2> QED  BY <1>2, <2>1
<1>12. 1 \in 1..n  BY <1>1
<1>13. Normalize(Len(p), Ndim(thick[1].shape)) = Len(p)  BY <1>11 DEF Normalize
<1>14. ~Unfit(thick, Len(p))
  <2>1. InRange(Len(p), Ndim(thick[1].shape))  BY <1>2, <1>6, <1>11, <1>12 DEF InRange, Ndim
  <2>2. \A k \in DOMAIN thick : thick[k].shape = thick[1].shape  BY <1>6, <1>7, <1>12
  <2> QED  BY <2>1, <2>2 DEF Unfit
<1> QED  BY <1>6, <1>8, <1>10, <1>13, <1>14 DEF ones, thick, s

\* p before and q after the new axis.
Stacking(parts, axis, p, q) ==
  /\ AllParts(parts) /\ p \in Seq(Nat) /\ q \in Seq(Nat) /\ Len(p) + Len(q) + 1 =< MAX_NDIM
  /\ \A k \in 1..Len(parts) : parts[k].shape = p \o q
  /\ Normalize(axis, Ndim(parts[1].shape) + 1) = Len(p)
  /\ \A e \in Nat : InsertAt(parts[1].shape, Normalize(axis, Ndim(parts[1].shape) + 1) + 1, e) = Apart(p, e, q)

LEMMA StackingExists ==
  ASSUME NEW parts, AllParts(parts), NEW axis \in Int, ~Unstackable(parts, axis)
  PROVE  \E p, q : Stacking(parts, axis, p, q)
<1> DEFINE s == parts[1].shape
<1>1. Len(parts) \in Nat \ {0} /\ DOMAIN parts = 1..Len(parts) /\ \A k \in 1..Len(parts) : IsArray(parts[k])
  BY DEF AllParts
<1>2. 1 \in 1..Len(parts)  BY <1>1
<1>3. s \in Seq(Nat)  BY <1>1, <1>2, ArrayFacts
<1>4. /\ \A k \in 1..Len(parts) : parts[k].shape = s
      /\ InRange(axis, Ndim(s) + 1) /\ ~(Ndim(s) + 1 > MAX_NDIM)
  BY <1>1 DEF Unstackable
<1>5. PICK p, q \in Seq(Nat) :
        /\ s = p \o q /\ Len(p) = Normalize(axis, Ndim(s) + 1) /\ Len(s) = Len(p) + Len(q)
        /\ \A e \in Nat : InsertAt(s, Normalize(axis, Ndim(s) + 1) + 1, e) = Apart(p, e, q)
  BY <1>3, <1>4, NewAxis
<1>6. Len(p) + Len(q) + 1 =< MAX_NDIM
  <2>1. Len(p) \in Nat /\ Len(q) \in Nat /\ MAX_NDIM \in Nat  BY KernelsAssumption
  <2> QED  BY <1>4, <1>5, <2>1 DEF Ndim
<1> QED  BY <1>4, <1>5, <1>6 DEF Stacking

LEMMA StackApart ==
  ASSUME NEW parts, NEW axis \in Int, ~Unstackable(parts, axis), NEW p, NEW q, Stacking(parts, axis, p, q)
  PROVE  Stack(parts, axis) =
           {Array(Apart(p, Len(parts), q),
                  RowsOf(Thickened(parts, Apart(p, 1, q)), [k \in 1..Len(parts) |-> 1], Product(p), Product(q)))}
<1> DEFINE shape == parts[1].shape
           ax    == Normalize(axis, Ndim(shape) + 1) + 1
           thick == Thickened(parts, Apart(p, 1, q))
           ones  == [k \in 1..Len(parts) |-> 1]
<1>1. Stack(parts, axis) = Concatenate([k \in DOMAIN parts |-> Array(InsertAt(shape, ax, 1), parts[k].data)], ax - 1)
  BY DEF Stack, Unstackable
<1>2. /\ AllParts(parts) /\ p \in Seq(Nat) /\ q \in Seq(Nat) /\ Len(p) + Len(q) + 1 =< MAX_NDIM
      /\ \A k \in 1..Len(parts) : parts[k].shape = p \o q
      /\ ax = Len(p) + 1 /\ InsertAt(shape, ax, 1) = Apart(p, 1, q)
  BY DEF Stacking
<1> HIDE DEF ax, shape
<1>3. [k \in DOMAIN parts |-> Array(InsertAt(shape, ax, 1), parts[k].data)] = thick  BY <1>2 DEF Thickened
<1>4. ax - 1 = Len(p) /\ Len(p) \in Int  BY <1>2
<1>5. Stack(parts, axis) = Concatenate(thick, Len(p))  BY <1>1, <1>3, <1>4
<1>6. /\ AllParts(thick) /\ Fitting(thick, p, q, ones)
      /\ ~Unfit(thick, Len(p)) /\ Normalize(Len(p), Ndim(thick[1].shape)) = Len(p)
  BY <1>2, ThickenedFit
<1>7. Total(ones) = Len(parts)
  <2>1. Len(parts) \in Nat  BY <1>2 DEF AllParts
  <2> QED  BY <2>1, SumsOfOnes
<1> HIDE DEF thick, ones
<1>8. Concatenate(thick, Len(p)) = {Array(Apart(p, Total(ones), q), RowsOf(thick, ones, Product(p), Product(q)))}
  BY <1>4, <1>6, ConcatenateApart
<1> QED  BY <1>5, <1>7, <1>8 DEF thick, ones

\* The element of the result is one of the part the index names.
LEMMA StackedElement ==
  ASSUME NEW parts, NEW axis, NEW p, NEW q, Stacking(parts, axis, p, q), NEW i \in Indices(Apart(p, Len(parts), q))
  PROVE  LET thick == Thickened(parts, Apart(p, 1, q))
             ones  == [k \in 1..Len(parts) |-> 1]
             a     == Len(p) + 1
         IN  /\ i[a] + 1 \in 1..Len(parts)
             /\ RowsOf(thick, ones, Product(p), Product(q))[Position(Apart(p, Len(parts), q), i) + 1]
                  = IdealOf(parts[i[a] + 1]).at[RemoveAt(i, a)]
<1> DEFINE n == Len(parts)
           thick == Thickened(parts, Apart(p, 1, q))
           ones  == [k \in 1..n |-> 1]
           c == Product(q)
<1>1. /\ AllParts(parts) /\ p \in Seq(Nat) /\ q \in Seq(Nat) /\ Len(p) + Len(q) + 1 =< MAX_NDIM
      /\ \A k \in 1..n : parts[k].shape = p \o q
  BY DEF Stacking
<1>2. n \in Nat  BY <1>1 DEF AllParts
<1>3. PICK x \in Indices(p), w \in 0..n - 1, y \in Indices(q) : i = Apart(x, w, y)
  <2> HIDE DEF n
  <2>1. i \in Indices(Apart(p, n, q))  BY DEF n
  <2> QED  BY <1>1, <1>2, <2>1, IndexApart
<1>4. x \in Seq(Nat) /\ y \in Seq(Nat) /\ Len(x) = Len(p) /\ w \in Nat
  <2>1. x \in Seq(Nat) /\ Len(x) = Len(p)  BY <1>1, <1>3, IndexTypes
  <2>2. y \in Seq(Nat)  BY <1>1, <1>3, IndexTypes
  <2> QED  BY <1>2, <2>1, <2>2
<1>5. i[Len(p) + 1] = w /\ RemoveAt(i, Len(p) + 1) = x \o y
  <2>1. Apart(x, w, y)[Len(x) + 1] = w /\ RemoveAt(Apart(x, w, y), Len(x) + 1) = x \o y  BY <1>4, AxisParts
  <2> QED  BY <1>3, <1>4, <2>1
<1> DEFINE o == Position(p, x)
           j == Position(q, y)
           k == w + 1
<1>6. o \in 0..Product(p) - 1 /\ j \in 0..c - 1 /\ o \in Nat /\ j \in Nat /\ c \in Nat
  BY <1>1, <1>3, PlaceIs, ProductsDef
<1>7. k \in 1..n /\ k - 1 = w  BY <1>2, <1>4
<1> HIDE DEF k
<1>8. Position(Apart(p, n, q), i) = (o * n + w) * c + j
  <2> HIDE DEF n
  <2> QED  BY <1>1, <1>2, <1>3, AxisPlace
<1>9. /\ Fitting(thick, p, q, ones) /\ thick[k].data = parts[k].data
  <2>1. Fitting(thick, p, q, ones) /\ \A e \in 1..n : thick[e].data = parts[e].data  BY <1>1, ThickenedFit
  <2> HIDE DEF thick, ones
  <2> QED  BY <1>7, <2>1
<1>10. Len(ones) = n /\ Total(ones) = n /\ ones[k] = 1 /\ Sums(ones)[k - 1] = w
  <2> HIDE DEF n
  <2>1. /\ Len(ones) = n /\ Total(ones) = n
        /\ \A e \in 1..n : ones[e] = 1 /\ Sums(ones)[e - 1] = e - 1
    BY <1>2, SumsOfOnes
  <2> HIDE DEF ones
  <2> QED  BY <1>7, <2>1
<1> HIDE DEF thick, ones
<1>11. RowsOf(thick, ones, Product(p), c)[(o * n + (w + 0)) * c + j + 1] = thick[k].data[(o * 1 + 0) * c + j + 1]
  <2>1. RowsDone(thick, ones, Product(p), c)  BY <1>9, RowsAre
  <2>2. k \in 1..Len(ones) /\ 0 \in 0..ones[k] - 1  BY <1>7, <1>10
  <2>3. RowsOf(thick, ones, Product(p), c)[(o * Total(ones) + (Sums(ones)[k - 1] + 0)) * c + j + 1]
          = thick[k].data[(o * ones[k] + 0) * c + j + 1]
    <3> HIDE DEF o, j, c, n
    <3> QED  BY <1>6, <2>1, <2>2 DEF RowsDone
  <2> QED  BY <1>10, <2>3
<1>12. w + 0 = w /\ o * 1 + 0 = o  BY <1>4, <1>6
<1>13. IdealOf(parts[k]).at[x \o y] = parts[k].data[o * c + j + 1]
  <2>1. x \o y \in Indices(p \o q) /\ Position(p \o q, x \o y) = o * c + j  BY <1>1, <1>3, JoinedPlace
  <2>2. parts[k].shape = p \o q  BY <1>1, <1>7
  <2> DEFINE z == parts[k]
             i1 == x \o y
  <2>3. i1 \in Indices(z.shape) /\ Position(z.shape, i1) = o * c + j  BY <2>1, <2>2
  <2> HIDE DEF z, i1, o, j, c
  <2>4. IdealOf(z).at[i1] = z.data[Position(z.shape, i1) + 1]  BY <2>3, IdealFacts
  <2>5. IdealOf(z).at[i1] = z.data[o * c + j + 1]  BY <2>3, <2>4
  <2> QED  BY <2>5 DEF z, i1
<1>14. RowsOf(thick, ones, Product(p), c)[Position(Apart(p, n, q), i) + 1] = IdealOf(parts[k]).at[x \o y]
  <2> HIDE DEF o, j, c, n
  <2> QED  BY <1>8, <1>9, <1>11, <1>12, <1>13
<1>15. i[Len(p) + 1] + 1 = k  BY <1>5 DEF k
<1> HIDE DEF n
<1>16. i[Len(p) + 1] + 1 \in 1..n  BY <1>7, <1>15
<1> QED  BY <1>5, <1>14, <1>15, <1>16 DEF thick, ones, n

\* stack piles the parts up as NumPy does.
LEMMA StackRefuses ==
  ASSUME NEW parts, AllParts(parts), NEW axis \in Int
  PROVE  Stack(parts, axis) = {} <=> Unstackable(parts, axis)
<1>1. CASE Unstackable(parts, axis)
  BY <1>1 DEF Stack, Unstackable, Refuses
<1>2. CASE ~Unstackable(parts, axis)
  <2>1. PICK p, q : Stacking(parts, axis, p, q)  BY <1>2, StackingExists
  <2> DEFINE r == Array(Apart(p, Len(parts), q),
                        RowsOf(Thickened(parts, Apart(p, 1, q)), [k \in 1..Len(parts) |-> 1], Product(p), Product(q)))
  <2>2. Stack(parts, axis) = {r}  BY <1>2, <2>1, StackApart
  <2> HIDE DEF r
  <2> QED  BY <1>2, <2>2
<1> QED  BY <1>1, <1>2

LEMMA StackFaithful ==
  ASSUME NEW parts, AllParts(parts), NEW axis \in Int
  PROVE  Faithful(Stack(parts, axis), NumpyStack(Ideals(parts), axis))
<1>1. CASE Unstackable(parts, axis)
  <2>1. Stack(parts, axis) = {}  BY <1>1, StackRefuses
  <2> QED  BY <2>1 DEF Faithful
<1>2. CASE ~Unstackable(parts, axis)
  <2>1. PICK p, q : Stacking(parts, axis, p, q)  BY <1>2, StackingExists
  <2> DEFINE n     == Len(parts)
             thick == Thickened(parts, Apart(p, 1, q))
             ones  == [k \in 1..n |-> 1]
             shape == Apart(p, n, q)
             data  == RowsOf(thick, ones, Product(p), Product(q))
             xs    == Ideals(parts)
             a     == Len(p) + 1
             at    == [i \in Indices(shape) |-> xs[i[a] + 1].at[RemoveAt(i, a)]]
  <2>2. Stack(parts, axis) = {Array(shape, data)}  BY <1>2, <2>1, StackApart
  <2>3. /\ p \in Seq(Nat) /\ q \in Seq(Nat) /\ Len(p) + Len(q) + 1 =< MAX_NDIM
        /\ \A k \in 1..n : parts[k].shape = p \o q
        /\ Normalize(axis, Ndim(parts[1].shape) + 1) = Len(p)
        /\ \A e \in Nat : InsertAt(parts[1].shape, Normalize(axis, Ndim(parts[1].shape) + 1) + 1, e) = Apart(p, e, q)
    BY <2>1 DEF Stacking
  <2>4. n \in Nat /\ 1 \in 1..n /\ DOMAIN parts = 1..n  BY DEF AllParts
  <2>5. DOMAIN xs = 1..n /\ Len(xs) = n /\ \A k \in 1..n : xs[k] = IdealOf(parts[k]) /\ xs[k].shape = parts[k].shape
    BY IdealsAre
  <2>6. NumpyStack(xs, axis) = {Ideal(shape, at)}
    <3>1. xs[1].shape = parts[1].shape  BY <2>4, <2>5
    <3>2. InRange(axis, Ndim(xs[1].shape) + 1)  BY <1>2, <3>1 DEF Unstackable
    <3>3. \A k \in DOMAIN xs : xs[k].shape = xs[1].shape  BY <2>3, <2>4, <2>5
    <3>4. /\ Normalize(axis, Ndim(xs[1].shape) + 1) + 1 = a
          /\ InsertAt(xs[1].shape, Normalize(axis, Ndim(xs[1].shape) + 1) + 1, Len(xs)) = shape
      BY <2>3, <2>4, <2>5, <3>1
    <3> HIDE DEF a, shape, xs
    <3> QED  BY <3>2, <3>3, <3>4 DEF NumpyStack
  <2>7. \A i \in Indices(shape) : data[Position(shape, i) + 1] = at[i]
    <3> SUFFICES ASSUME NEW i \in Indices(shape)  PROVE data[Position(shape, i) + 1] = at[i]
      OBVIOUS
    <3>1. i[a] + 1 \in 1..n /\ data[Position(shape, i) + 1] = IdealOf(parts[i[a] + 1]).at[RemoveAt(i, a)]
      BY <2>1, StackedElement
    <3> HIDE DEF data, shape, n, xs, a
    <3> QED  BY <2>5, <3>1
  <2>8. at = [i \in Indices(shape) |-> at[i]]
    <3> HIDE DEF shape, xs, a
    <3> QED  OBVIOUS
  <2>9. shape \in Seq(Nat) /\ Len(shape) =< MAX_NDIM /\ Product(shape) = Product(p) * (n * Product(q))
    <3> HIDE DEF n
    <3>1. shape \in Seq(Nat) /\ Len(shape) = Len(p) + 1 + Len(q)  BY <2>3, <2>4, AxisParts
    <3>2. Product(shape) = Product(p) * (n * Product(q))  BY <2>3, <2>4, AxisWeights
    <3>3. Len(p) \in Nat /\ Len(q) \in Nat /\ MAX_NDIM \in Nat  BY <2>3, KernelsAssumption
    <3> QED  BY <2>3, <3>1, <3>2, <3>3
  <2>10. data \in Seq(Value) /\ Len(data) = Product(p) * (n * Product(q))
    <3>1. Fitting(thick, p, q, ones)  BY <2>3, ThickenedFit
    <3>2. RowsDone(thick, ones, Product(p), Product(q))  BY <3>1, RowsAre
    <3>3. Total(ones) = n
      <4> HIDE DEF n
      <4> QED  BY <2>4, SumsOfOnes
    <3> QED  BY <3>2, <3>3 DEF RowsDone
  <2> HIDE DEF shape, data, at, xs
  <2>11. IsArray(Array(shape, data))  BY <2>9, <2>10, ArrayMade
  <2>12. IdealOf(Array(shape, data)) = Ideal(shape, at)  BY <2>7, <2>8, IdealIs
  <2> QED  BY <2>2, <2>6, <2>11, <2>12 DEF Faithful, xs
<1> QED  BY <1>1, <1>2

LEMMA StackJustified ==
  ASSUME NEW parts, AllParts(parts), NEW axis \in Int, NEW a, NEW k0 \in 1..Len(parts), a = parts[k0]
  PROVE  Justified(Stack(parts, axis), NumpyStack(Ideals(parts), axis), a)
<1> SUFFICES ASSUME Unstackable(parts, axis), Ndim(a.shape) \in 1..MAX_NDIM - 1
             PROVE  NumpyStack(Ideals(parts), axis) = {}
  BY StackRefuses DEF Justified
<1> DEFINE xs == Ideals(parts)
           n  == Len(parts)
<1>1. n \in Nat /\ 1 \in 1..n /\ DOMAIN parts = 1..n  BY DEF AllParts
<1>2. DOMAIN xs = 1..n /\ \A k \in 1..n : xs[k].shape = parts[k].shape  BY IdealsAre
<1>3. ~InRange(axis, Ndim(xs[1].shape) + 1) \/ \E k \in DOMAIN xs : xs[k].shape # xs[1].shape
  <2>1. CASE \E k \in DOMAIN parts : parts[k].shape # parts[1].shape
    BY <1>1, <1>2, <2>1
  <2>2. CASE ~InRange(axis, Ndim(parts[1].shape) + 1)
    BY <1>1, <1>2, <2>2
  <2>3. CASE Ndim(parts[1].shape) + 1 > MAX_NDIM /\ ~(\E k \in DOMAIN parts : parts[k].shape # parts[1].shape)
    <3>1. a.shape = parts[1].shape  BY <1>1, <2>3
    <3>2. MAX_NDIM \in Nat  BY KernelsAssumption
    <3> QED  BY <2>3, <3>1, <3>2
  <2> QED  BY <2>1, <2>2, <2>3 DEF Unstackable
<1> HIDE DEF xs
<1> QED  BY <1>3 DEF NumpyStack, xs

-----------------------------------------------------------------------------
(* Broadcasting.                                                           *)

\* A shape that can be broadcast to another, and the element that meets one.
Stretches(s, out) ==
  /\ s \in Seq(Nat) /\ out \in Seq(Nat) /\ Len(s) <= Len(out)
  /\ \A k \in 1..Len(s) : s[k] = 1 \/ s[k] = out[k + (Len(out) - Len(s))]
Met(s, i) == [k \in DOMAIN s |-> IF s[k] = 1 THEN 0 ELSE i[k + Len(i) - Ndim(s)]]

LEMMA MetIndex ==
  ASSUME NEW s, NEW out, Stretches(s, out), NEW i \in Indices(out)
  PROVE  /\ Met(s, i) \in Indices(s)
         /\ \A k \in 1..Len(s) : Met(s, i)[k] = IF s[k] = 1 THEN 0 ELSE i[k + (Len(out) - Len(s))]
<1> DEFINE n == Len(s)
           off == Len(out) - n
           j == Met(s, i)
<1>1. /\ s \in Seq(Nat) /\ out \in Seq(Nat) /\ n \in Nat /\ off \in Nat /\ Len(out) = n + off
      /\ \A k \in 1..n : s[k] = 1 \/ s[k] = out[k + off]
  BY DEF Stretches
<1>2. i \in Seq(Nat) /\ Len(i) = Len(out) /\ \A k \in 1..Len(out) : i[k] \in Nat /\ i[k] < out[k]
  BY <1>1, IndexTypes
<1>3. j = [k \in 1..n |-> IF s[k] = 1 THEN 0 ELSE i[k + off]]
  <2>1. DOMAIN s = 1..n  BY <1>1
  <2>2. \A k \in 1..n : k + Len(i) - Ndim(s) = k + off  BY <1>1, <1>2 DEF Ndim
  <2> HIDE DEF n, off
  <2> QED  BY <2>1, <2>2 DEF Met
<1> HIDE DEF j, n, off
<1>4. \A k \in 1..n : j[k] = IF s[k] = 1 THEN 0 ELSE i[k + off]  BY <1>3
<1>5. \A k \in 1..n : j[k] \in Nat /\ j[k] < s[k]
  <2> SUFFICES ASSUME NEW k \in 1..n  PROVE j[k] \in Nat /\ j[k] < s[k]
    OBVIOUS
  <2>1. k + off \in 1..Len(out)  BY <1>1
  <2>2. i[k + off] \in Nat /\ i[k + off] < out[k + off]  BY <1>2, <2>1
  <2>3. CASE s[k] = 1
    <3>1. j[k] = 0  BY <1>4, <2>3
    <3> QED  BY <2>3, <3>1
  <2>4. CASE s[k] # 1
    <3>1. j[k] = i[k + off] /\ s[k] = out[k + off]  BY <1>1, <1>4, <2>4
    <3> QED  BY <2>2, <3>1
  <2> QED  BY <2>3, <2>4
<1>6. j \in [1..n -> Nat]  BY <1>3, <1>5
<1>7. j \in Indices(s)  BY <1>1, <1>5, <1>6, IndicesAre DEF n
<1> QED  BY <1>4, <1>7 DEF j, n, off

\* The odometer of broadcast_strides is at the element that meets i.
LEMMA MetOffset ==
  ASSUME NEW s, NEW out, Stretches(s, out), NEW i \in Indices(out)
  PROVE  /\ BroadcastStrides(s, out) \in Seq(Int) /\ Len(BroadcastStrides(s, out)) = Len(out)
         /\ Dot(i, BroadcastStrides(s, out)) = Position(s, Met(s, i))
<1> DEFINE n == Len(s)
           N == Len(out)
           off == N - n
           j == Met(s, i)
           bs == BroadcastStrides(s, out)
           cs == CStrides(s)
           v == [k \in DOMAIN bs |-> i[k] * bs[k]]
           w == [k \in DOMAIN cs |-> j[k] * cs[k]]
           K == {k \in 1..N : k > off}
<1>1. s \in Seq(Nat) /\ out \in Seq(Nat) /\ n \in Nat /\ N \in Nat /\ off \in 0..N /\ N = n + off
  BY DEF Stretches
<1>2. /\ j \in Indices(s)
      /\ \A k \in 1..n : j[k] = IF s[k] = 1 THEN 0 ELSE i[k + off]
  BY MetIndex
<1>3. /\ i \in Seq(Nat) /\ Len(i) = N /\ j \in Seq(Nat) /\ Len(j) = n
      /\ (\A k \in 1..N : i[k] \in Nat) /\ \A k \in 1..n : j[k] \in Nat
  BY <1>1, <1>2, IndexTypes
<1>4. cs \in Seq(Int) /\ Len(cs) = n /\ \A k \in 1..n : cs[k] \in Int
  <2>1. cs \in Seq(Int) /\ Len(cs) = n  BY <1>1, Weights
  <2> QED  BY <2>1
<1>5. bs = [k \in 1..N |-> IF k <= off \/ s[k - off] = 1 THEN 0 ELSE cs[k - off]]
  <2>1. DOMAIN out = 1..N  BY <1>1
  <2> QED  BY <2>1 DEF BroadcastStrides
<1> HIDE DEF bs, cs, j, n, N
<1>6. \A k \in 1..N : bs[k] = IF k <= off \/ s[k - off] = 1 THEN 0 ELSE cs[k - off]  BY <1>5
<1>7. bs \in Seq(Int) /\ Len(bs) = N
  <2>1. \A k \in 1..N : ~(k <= off) => k - off \in 1..n  BY <1>1
  <2>2. \A k \in 1..N : bs[k] \in Int  BY <1>4, <1>6, <2>1
  <2>3. bs \in [1..N -> Int]  BY <1>5, <2>2
  <2> QED  BY <1>1, <2>3
<1>8. v \in Seq(Int) /\ Len(v) = N /\ Dot(i, bs) = Total(v) /\ \A k \in 1..N : v[k] = i[k] * bs[k]
  BY <1>3, <1>7, DotTypes
<1>9. w \in Seq(Int) /\ Len(w) = n /\ Dot(j, cs) = Total(w) /\ \A k \in 1..n : w[k] = j[k] * cs[k]
  BY <1>3, <1>4, DotTypes
<1> HIDE DEF v, w
<1>10. Rank(N, K) = n /\ \A m \in 1..n : Ordered(N, K)[m] = off + m
  <2>1. off \in Nat /\ off <= N /\ N - off = n  BY <1>1
  <2>2. \A k \in 1..N : k \in K <=> k > off  OBVIOUS
  <2> HIDE DEF K, off
  <2>3. Rank(N, K) = N - off  BY <1>1, <2>1, <2>2, OrderedFinal
  <2>4. \A m \in 1..N - off : Ordered(N, K)[m] = off + m  BY <1>1, <2>1, <2>2, OrderedFinal
  <2> QED  BY <2>1, <2>3, <2>4
<1>11. \A k \in 1..Len(v) : k \notin K => v[k] = 0
  <2> SUFFICES ASSUME NEW k \in 1..N, k \notin K  PROVE v[k] = 0
    BY <1>8
  <2>1. k <= off  BY <1>1
  <2>2. bs[k] = 0  BY <1>6, <2>1
  <2> QED  BY <1>3, <1>8, <2>2
<1>12. \A m \in 1..Len(w) : w[m] = v[Ordered(Len(v), K)[m]]
  <2> SUFFICES ASSUME NEW m \in 1..n  PROVE w[m] = v[off + m]
    BY <1>8, <1>9, <1>10
  <2>1. off + m \in 1..N /\ ~(off + m <= off) /\ (off + m) - off = m /\ m + off = off + m  BY <1>1
  <2>2. bs[off + m] = IF s[m] = 1 THEN 0 ELSE cs[m]  BY <1>6, <2>1
  <2>3. j[m] = IF s[m] = 1 THEN 0 ELSE i[off + m]  BY <1>2, <2>1
  <2>4. w[m] = j[m] * cs[m] /\ v[off + m] = i[off + m] * bs[off + m]  BY <1>8, <1>9, <2>1
  <2>5. i[off + m] \in Nat /\ cs[m] \in Int  BY <1>3, <1>4, <2>1
  <2>6. i[off + m] * 0 = 0 /\ 0 * cs[m] = 0  BY <2>5
  <2> QED  BY <2>2, <2>3, <2>4, <2>6
<1>13. Len(w) = Rank(Len(v), K)  BY <1>8, <1>9, <1>10
<1> HIDE DEF K, off
<1>14. Total(w) = Total(v)  BY <1>8, <1>9, <1>11, <1>12, <1>13, SumSelected
<1>15. Position(s, j) = Dot(j, cs)  BY DEF Position, cs
<1> QED  BY <1>7, <1>8, <1>9, <1>14, <1>15 DEF bs, N, j

\* The element that meets i.
LEMMA MeetsIs ==
  ASSUME NEW a, IsArray(a), NEW out, Stretches(a.shape, out), NEW i \in Indices(out)
  PROVE  /\ Meets(IdealOf(a), i) = a.data[Position(a.shape, Met(a.shape, i)) + 1]
         /\ Meets(IdealOf(a), i) \in Value
<1>1. Met(a.shape, i) \in Indices(a.shape)  BY MetIndex
<1>2. Meets(IdealOf(a), i) = IdealOf(a).at[Met(a.shape, i)]
  <2>1. IdealOf(a).shape = a.shape  BY IdealFacts
  <2> QED  BY <2>1 DEF Meets, Met
<1>3. IdealOf(a).at[Met(a.shape, i)] = a.data[Position(a.shape, Met(a.shape, i)) + 1]  BY <1>1, IdealFacts
<1>4. a.data[Position(a.shape, Met(a.shape, i)) + 1] \in Value  BY <1>1, ArrayFacts
<1> QED  BY <1>2, <1>3, <1>4

\* Arrays of the shape of the result are met index by index.
LEMMA MeetsSame ==
  ASSUME NEW a, IsArray(a), NEW i \in Indices(a.shape)
  PROVE  /\ Stretches(a.shape, a.shape)
         /\ Meets(IdealOf(a), i) = a.data[Position(a.shape, i) + 1]
         /\ Meets(IdealOf(a), i) \in Value
<1> DEFINE s == a.shape
<1>1. s \in Seq(Nat)  BY ArrayFacts
<1>2. Stretches(s, s)
  <2> HIDE DEF s
  <2>1. \A k \in 1..Len(s) : k + (Len(s) - Len(s)) = k  BY <1>1
  <2> QED  BY <1>1, <2>1 DEF Stretches
<1>3. Met(s, i) = i
  <2> HIDE DEF s
  <2>1. i \in Indices(s)  BY DEF s
  <2>2. /\ Met(s, i) \in Indices(s)
        /\ \A k \in 1..Len(s) : Met(s, i)[k] = IF s[k] = 1 THEN 0 ELSE i[k + (Len(s) - Len(s))]
    BY <1>2, <2>1, MetIndex
  <2>3. i \in Seq(Nat) /\ Len(i) = Len(s) /\ \A k \in 1..Len(s) : i[k] \in Nat /\ i[k] < s[k]
    BY <1>1, <2>1, IndexTypes
  <2>4. Met(s, i) \in Seq(Nat) /\ Len(Met(s, i)) = Len(s)  BY <1>1, <2>2, IndexTypes
  <2>5. \A k \in 1..Len(s) : Met(s, i)[k] = i[k]
    <3>1. \A k \in 1..Len(s) : k + (Len(s) - Len(s)) = k  BY <1>1
    <3>2. \A k \in 1..Len(s) : s[k] = 1 => i[k] = 0  BY <2>3
    <3> QED  BY <2>2, <3>1, <3>2
  <2> DEFINE j == Met(s, i)
  <2>6. j \in Seq(Nat) /\ Len(j) = Len(s) /\ \A k \in 1..Len(s) : j[k] = i[k]  BY <2>4, <2>5
  <2> HIDE DEF j
  <2>7. j = i  BY <2>3, <2>6, SameSequence
  <2> QED  BY <2>7 DEF j
<1> QED  BY <1>2, <1>3, MeetsIs

-----------------------------------------------------------------------------
(* The shape of the result of broadcasting.                                *)

\* A shape with ones in front of it.
LEMMA AlignedIs ==
  ASSUME NEW s \in Seq(Nat), NEW n \in Nat, Len(s) <= n
  PROVE  /\ Aligned(s, n) \in Seq(Nat) /\ Len(Aligned(s, n)) = n
         /\ \A k \in 1..n : Aligned(s, n)[k] \in Nat
         /\ \A k \in 1..Len(s) : Aligned(s, n)[k + (n - Len(s))] = s[k]
<1> DEFINE x == Aligned(s, n)
           off == n - Len(s)
<1>1. off \in Nat /\ n = off + Len(s)  OBVIOUS
<1>2. x = [k \in 1..n |-> IF k > off THEN s[k - off] ELSE 1]  BY DEF Aligned
<1> HIDE DEF x, off
<1>3. \A k \in 1..n : x[k] \in Nat
  <2>1. \A k \in 1..n : k > off => k - off \in 1..Len(s)  BY <1>1
  <2>2. \A k \in 1..n : k > off => s[k - off] \in Nat  BY <2>1
  <2> QED  BY <1>2, <2>2
<1>4. x \in [1..n -> Nat]  BY <1>2, <1>3
<1>5. \A k \in 1..Len(s) : x[k + off] = s[k]
  <2> SUFFICES ASSUME NEW k \in 1..Len(s)  PROVE x[k + off] = s[k]
    OBVIOUS
  <2>1. k + off \in 1..n /\ k + off > off /\ (k + off) - off = k  BY <1>1
  <2> QED  BY <1>2, <2>1
<1>6. x \in Seq(Nat) /\ Len(x) = n  BY <1>4
<1> QED  BY <1>3, <1>5, <1>6 DEF x, off

LEMMA LongerIs ==
  ASSUME NEW a \in Seq(Nat), NEW b \in Seq(Nat)
  PROVE  /\ Longer(a, b) \in Nat /\ Len(a) <= Longer(a, b) /\ Len(b) <= Longer(a, b)
         /\ Longer(a, b) \in {Len(a), Len(b)}
BY DEF Longer

\* Two lengths that differ, and neither is one.
LEMMA TwoLengths ==
  ASSUME NEW x \in Nat, NEW y \in Nat
  PROVE  Cardinality({x, y} \ {1}) > 1 <=> ~(x = y \/ x = 1 \/ y = 1)
<1> DEFINE U == {x, y} \ {1}
<1>1. CASE x = 1 /\ y = 1
  <2>1. U = {}  BY <1>1
  <2>2. Cardinality({}) = 0  BY FS_EmptySet
  <2> QED  BY <1>1, <2>1, <2>2
<1>2. CASE x # 1 /\ (y = 1 \/ x = y)
  <2>1. U = {x}  BY <1>2
  <2>2. Cardinality({x}) = 1  BY FS_Singleton
  <2> QED  BY <1>2, <2>1, <2>2
<1>3. CASE x = 1 /\ y # 1
  <2>1. U = {y}  BY <1>3
  <2>2. Cardinality({y}) = 1  BY FS_Singleton
  <2> QED  BY <1>3, <2>1, <2>2
<1>4. CASE x # 1 /\ y # 1 /\ x # y
  <2>1. U = {x} \cup {y}  BY <1>4
  <2>2. IsFiniteSet({x}) /\ IsFiniteSet({y})  BY FS_Singleton
  <2>3. IsFiniteSet({x} \cup {y})  BY <2>2, FS_Union
  <2>4. IsFiniteSet(U) /\ x \in U /\ y \in U  BY <2>1, <2>3
  <2> HIDE DEF U
  <2>5. ~(Cardinality(U) > 1) => x = y  BY <2>4, AtMostOne
  <2>6. Cardinality(U) > 1  BY <1>4, <2>5
  <2> QED  BY <1>4, <2>6 DEF U
<1> QED  BY <1>1, <1>2, <1>3, <1>4

\* The code's shape is NumPy's.
LEMMA TogetherIs ==
  ASSUME NEW a \in Seq(Nat), NEW b \in Seq(Nat)
  PROVE  Together(a, b) = BroadcastShape(a, b)
<1> DEFINE n == Longer(a, b)
           x == Aligned(a, n)
           y == Aligned(b, n)
           made == [k \in 1..n |-> IF x[k] = 1 THEN y[k] ELSE x[k]]
           ideal0 == [k \in 1..n |-> IF Lengths(a, b, k) = {} THEN 1
                                     ELSE CHOOSE m \in Lengths(a, b, k) : TRUE]
<1>1. n \in Nat /\ Len(a) <= n /\ Len(b) <= n  BY LongerIs
<1>2. (\A k \in 1..n : x[k] \in Nat) /\ \A k \in 1..n : y[k] \in Nat
  <2> HIDE DEF n
  <2> QED  BY <1>1, AlignedIs
<1>3. \A k \in 1..n : Lengths(a, b, k) = {x[k], y[k]} \ {1}  BY DEF Lengths
<1>4. BroadcastShape(a, b) = IF \A k \in 1..n : x[k] = y[k] \/ x[k] = 1 \/ y[k] = 1 THEN {made} ELSE {}
  BY DEF BroadcastShape, Refuses
<1>5. Together(a, b) = IF \E k \in 1..n : Cardinality(Lengths(a, b, k)) > 1 THEN {} ELSE {ideal0}
  BY DEF Together
<1> HIDE DEF n, x, y
<1>6. \A k \in 1..n : Cardinality(Lengths(a, b, k)) > 1 <=> ~(x[k] = y[k] \/ x[k] = 1 \/ y[k] = 1)
  <2> SUFFICES ASSUME NEW k \in 1..n
               PROVE  Cardinality(Lengths(a, b, k)) > 1 <=> ~(x[k] = y[k] \/ x[k] = 1 \/ y[k] = 1)
    OBVIOUS
  <2>1. x[k] \in Nat /\ y[k] \in Nat  BY <1>2
  <2> QED  BY <1>3, <2>1, TwoLengths
<1>7. ASSUME \A k \in 1..n : x[k] = y[k] \/ x[k] = 1 \/ y[k] = 1  PROVE ideal0 = made
  <2>1. ASSUME NEW k \in 1..n
        PROVE  (IF Lengths(a, b, k) = {} THEN 1 ELSE CHOOSE m \in Lengths(a, b, k) : TRUE)
                 = (IF x[k] = 1 THEN y[k] ELSE x[k])
    <3>1. CASE x[k] = 1 /\ y[k] = 1  BY <1>3, <3>1
    <3>2. CASE ~(x[k] = 1 /\ y[k] = 1)
      <4> DEFINE m == IF x[k] = 1 THEN y[k] ELSE x[k]
      <4>1. Lengths(a, b, k) = {m}  BY <1>3, <1>7, <3>2
      <4> HIDE DEF m
      <4>2. (CHOOSE z \in {m} : TRUE) = m  OBVIOUS
      <4>3. (IF Lengths(a, b, k) = {} THEN 1 ELSE CHOOSE z \in Lengths(a, b, k) : TRUE) = m
        BY <4>1, <4>2
      <4> QED  BY <4>3 DEF m
    <3> QED  BY <3>1, <3>2
  <2> QED  BY <2>1
<1> HIDE DEF made, ideal0
<1> QED  BY <1>4, <1>5, <1>6, <1>7

\* The shape of a result: both operands stretch to it.
LEMMA ShapesMeet ==
  ASSUME NEW a \in Seq(Nat), NEW b \in Seq(Nat), NEW out \in BroadcastShape(a, b)
  PROVE  /\ BroadcastShape(a, b) = {out} /\ Stretches(a, out) /\ Stretches(b, out)
         /\ out \in Seq(Nat) /\ Len(out) \in {Len(a), Len(b)}
<1> DEFINE n == Longer(a, b)
           x == Aligned(a, n)
           y == Aligned(b, n)
           made == [k \in 1..n |-> IF x[k] = 1 THEN y[k] ELSE x[k]]
<1>1. n \in Nat /\ Len(a) <= n /\ Len(b) <= n /\ n \in {Len(a), Len(b)}  BY LongerIs
<1>2. BroadcastShape(a, b) = IF \A k \in 1..n : x[k] = y[k] \/ x[k] = 1 \/ y[k] = 1 THEN {made} ELSE {}
  BY DEF BroadcastShape, Refuses
<1>3. /\ (\A k \in 1..n : x[k] \in Nat) /\ \A k \in 1..n : y[k] \in Nat
      /\ (\A k \in 1..Len(a) : x[k + (n - Len(a))] = a[k])
      /\ \A k \in 1..Len(b) : y[k + (n - Len(b))] = b[k]
  <2> HIDE DEF n
  <2> QED  BY <1>1, AlignedIs
<1>4. out = made /\ BroadcastShape(a, b) = {out} /\ \A k \in 1..n : x[k] = y[k] \/ x[k] = 1 \/ y[k] = 1
  <2> HIDE DEF made, n, x, y
  <2> QED  BY <1>2
<1> HIDE DEF n, x, y
<1>5. \A k \in 1..n : out[k] = (IF x[k] = 1 THEN y[k] ELSE x[k]) /\ out[k] \in Nat  BY <1>3, <1>4
<1>6. out \in [1..n -> Nat]  BY <1>3, <1>4
<1>7. out \in Seq(Nat) /\ Len(out) = n  BY <1>1, <1>6
<1>8. Stretches(a, out)
  <2>1. ASSUME NEW k \in 1..Len(a)  PROVE a[k] = 1 \/ a[k] = out[k + (n - Len(a))]
    <3>1. k + (n - Len(a)) \in 1..n  BY <1>1
    <3> QED  BY <1>3, <1>5, <3>1
  <2> QED  BY <1>1, <1>7, <2>1 DEF Stretches
<1>9. Stretches(b, out)
  <2>1. ASSUME NEW k \in 1..Len(b)  PROVE b[k] = 1 \/ b[k] = out[k + (n - Len(b))]
    <3>1. k + (n - Len(b)) \in 1..n  BY <1>1
    <3>2. x[k + (n - Len(b))] = y[k + (n - Len(b))] \/ x[k + (n - Len(b))] = 1 \/ y[k + (n - Len(b))] = 1
      BY <1>4, <3>1
    <3>3. out[k + (n - Len(b))] = IF x[k + (n - Len(b))] = 1 THEN y[k + (n - Len(b))] ELSE x[k + (n - Len(b))]
      BY <1>5, <3>1
    <3> QED  BY <1>3, <3>2, <3>3
  <2> QED  BY <1>1, <1>7, <2>1 DEF Stretches
<1> QED  BY <1>1, <1>4, <1>7, <1>8, <1>9

\* Equal shapes.
LEMMA ShapesSame ==
  ASSUME NEW a \in Seq(Nat)
  PROVE  BroadcastShape(a, a) = {a}
<1> DEFINE n == Len(a)
           x == Aligned(a, n)
           made == [k \in 1..n |-> IF x[k] = 1 THEN x[k] ELSE x[k]]
<1>1. Longer(a, a) = n /\ n \in Nat  BY DEF Longer
<1>2. BroadcastShape(a, a) = {made}  BY <1>1 DEF BroadcastShape
<1>3. \A k \in 1..n : x[k] = a[k]
  <2>1. \A k \in 1..n : x[k + (n - n)] = a[k]  BY <1>1, AlignedIs
  <2>2. \A k \in 1..n : k + (n - n) = k  BY <1>1
  <2> QED  BY <2>1, <2>2
<1>4. made = a
  <2>1. DOMAIN a = 1..n  OBVIOUS
  <2>2. a = [k \in 1..n |-> a[k]]  BY <2>1
  <2> HIDE DEF x, n
  <2> QED  BY <1>3, <2>2
<1> QED  BY <1>2, <1>4

-----------------------------------------------------------------------------
(* Binary kernels.                                                         *)

\* The odometer of an operand meets its elements in the order of the result.
LEMMA Walked ==
  ASSUME NEW s, NEW out, Stretches(s, out)
  PROVE  /\ DOMAIN Walk(out, BroadcastStrides(s, out)) = 1..Product(out)
         /\ \A i \in Indices(out) :
              Walk(out, BroadcastStrides(s, out))[Position(out, i) + 1] = Position(s, Met(s, i))
         /\ \A k \in 1..Product(out) :
              Walk(out, BroadcastStrides(s, out))[k] + 1 \in 1..Product(s)
<1> DEFINE bs == BroadcastStrides(s, out)
           w == Walk(out, bs)
           n == Product(out)
<1>1. s \in Seq(Nat) /\ out \in Seq(Nat)  BY DEF Stretches
<1>2. n \in Nat  BY <1>1, ProductsDef
<1>3. ASSUME NEW k \in 1..n
      PROVE  /\ Unravel(out, k - 1) \in Indices(out) /\ Position(out, Unravel(out, k - 1)) = k - 1
             /\ w[k] = Position(s, Met(s, Unravel(out, k - 1)))
             /\ w[k] + 1 \in 1..Product(s) /\ w = [j \in 1..n |-> Dot(Unravel(out, j - 1), bs)]
  <2> DEFINE i == Unravel(out, k - 1)
  <2>1. k - 1 \in 0..n - 1  BY <1>2
  <2>2. i \in Indices(out) /\ Position(out, i) = k - 1  BY <1>1, <2>1, UnravelPlace DEF Position
  <2>3. bs \in Seq(Int) /\ Len(bs) = Len(out) /\ Dot(i, bs) = Position(s, Met(s, i))
    <3> HIDE DEF i
    <3> QED  BY <2>2, MetOffset
  <2>4. w = [j \in 1..n |-> Dot(Unravel(out, j - 1), bs)]
    <3> HIDE DEF bs, i
    <3> QED  BY <1>1, <2>3, WalkIs
  <2>5. Met(s, i) \in Indices(s)
    <3> HIDE DEF i
    <3> QED  BY <2>2, MetIndex
  <2>6. Position(s, Met(s, i)) + 1 \in 1..Product(s)
    <3> HIDE DEF i
    <3> QED  BY <1>1, <2>5, PlaceIs
  <2>7. w[k] = Dot(i, bs)
    <3> HIDE DEF w, bs, n
    <3> QED  BY <2>4 DEF i
  <2> QED  BY <2>2, <2>3, <2>4, <2>6, <2>7
<1>4. DOMAIN w = 1..n  BY DEF Walk
<1> HIDE DEF w, bs
<1>5. ASSUME NEW i \in Indices(out)
      PROVE  w[Position(out, i) + 1] = Position(s, Met(s, i))
  <2> DEFINE k == Position(out, i) + 1
  <2>1. Position(out, i) \in 0..n - 1 /\ k \in 1..n  BY <1>1, PlaceIs
  <2>2. k - 1 = Position(out, i)  BY <2>1
  <2>3. Unravel(out, Position(out, i)) = i  BY <1>1, PlaceUnraveled DEF Position
  <2> HIDE DEF k
  <2>4. w[k] = Position(s, Met(s, Unravel(out, k - 1)))  BY <1>3, <2>1
  <2> QED  BY <2>2, <2>3, <2>4 DEF k
<1> QED  BY <1>3, <1>4, <1>5 DEF w, bs

\* What the kernels make of the elements that meet, and what they are to NumPy.
Zipped(f, a, b, out) ==
  Ideal(out, [i \in Indices(out) |-> Apply(f, Meets(IdealOf(a), i), Meets(IdealOf(b), i))])

LEMMA NumpyZipIs ==
  ASSUME NEW f, NEW a, IsArray(a), NEW b, IsArray(b)
  PROVE  /\ NumpyZip(f, IdealOf(a), IdealOf(b)) = {Zipped(f, a, b, out) : out \in BroadcastShape(a.shape, b.shape)}
         /\ BroadcastShape(a.shape, b.shape) = {} => NumpyZip(f, IdealOf(a), IdealOf(b)) = {}
         /\ \A out \in BroadcastShape(a.shape, b.shape) :
              NumpyZip(f, IdealOf(a), IdealOf(b)) = {Zipped(f, a, b, out)}
<1>1. a.shape \in Seq(Nat) /\ b.shape \in Seq(Nat)  BY ArrayFacts
<1>2. IdealOf(a).shape = a.shape /\ IdealOf(b).shape = b.shape  BY IdealFacts
<1>3. Together(a.shape, b.shape) = BroadcastShape(a.shape, b.shape)  BY <1>1, TogetherIs
<1>4. NumpyZip(f, IdealOf(a), IdealOf(b)) = {Zipped(f, a, b, out) : out \in BroadcastShape(a.shape, b.shape)}
  BY <1>2, <1>3 DEF NumpyZip, Zipped
<1>5. ASSUME NEW out \in BroadcastShape(a.shape, b.shape)
      PROVE  NumpyZip(f, IdealOf(a), IdealOf(b)) = {Zipped(f, a, b, out)}
  <2>1. BroadcastShape(a.shape, b.shape) = {out}  BY <1>1, ShapesMeet
  <2> QED  BY <1>4, <2>1
<1> QED  BY <1>4, <1>5

\* Data that has the elements that meet at their places.
LEMMA ZippedMade ==
  ASSUME NEW f, NEW a, IsArray(a), NEW b, IsArray(b),
         NEW out, Stretches(a.shape, out), Stretches(b.shape, out), Len(out) =< MAX_NDIM,
         NEW data \in Seq(Value), Len(data) = Product(out),
         \A i \in Indices(out) : data[Position(out, i) + 1] =
           Apply(f, a.data[Position(a.shape, Met(a.shape, i)) + 1],
                    b.data[Position(b.shape, Met(b.shape, i)) + 1])
  PROVE  IsArray(Array(out, data)) /\ IdealOf(Array(out, data)) = Zipped(f, a, b, out)
<1> DEFINE at == [i \in Indices(out) |-> Apply(f, Meets(IdealOf(a), i), Meets(IdealOf(b), i))]
<1>1. out \in Seq(Nat)  BY DEF Stretches
<1>2. IsArray(Array(out, data))  BY <1>1, ArrayMade
<1>3. \A i \in Indices(out) : data[Position(out, i) + 1] = at[i]
  <2> SUFFICES ASSUME NEW i \in Indices(out)  PROVE data[Position(out, i) + 1] = at[i]
    OBVIOUS
  <2>1. Meets(IdealOf(a), i) = a.data[Position(a.shape, Met(a.shape, i)) + 1]  BY MeetsIs
  <2>2. Meets(IdealOf(b), i) = b.data[Position(b.shape, Met(b.shape, i)) + 1]  BY MeetsIs
  <2> QED  BY <2>1, <2>2
<1>4. at = [i \in Indices(out) |-> at[i]]  OBVIOUS
<1>5. Zipped(f, a, b, out) = Ideal(out, at)  BY DEF Zipped
<1> HIDE DEF at
<1>6. IdealOf(Array(out, data)) = Ideal(out, at)  BY <1>3, <1>4, IdealIs
<1> QED  BY <1>2, <1>5, <1>6

\* One loop for equal shapes.
LEMMA ZipMapSame ==
  ASSUME NEW f, NEW a, IsArray(a), NEW b, IsArray(b), a.shape = b.shape
  PROVE  \E data : /\ ZipMap(f, a, b) = {Array(a.shape, data)}
                   /\ IsArray(Array(a.shape, data))
                   /\ IdealOf(Array(a.shape, data)) = Zipped(f, a, b, a.shape)
<1> DEFINE data == [k \in DOMAIN a.data |-> Apply(f, a.data[k], b.data[k])]
           s == a.shape
           n == Product(s)
<1>1. /\ s \in Seq(Nat) /\ Len(s) =< MAX_NDIM /\ DOMAIN a.data = 1..n /\ n \in Nat
      /\ \A k \in 1..n : a.data[k] \in Value
  BY ArrayFacts, ProductsDef
<1>2. \A k \in 1..n : b.data[k] \in Value  BY ArrayFacts
<1>3. ZipMap(f, a, b) = {Array(s, data)}  BY DEF ZipMap
<1>4. \A k \in 1..n : Apply(f, a.data[k], b.data[k]) \in Value  BY <1>1, <1>2, ApplyIs
<1>5. data \in [1..n -> Value]  BY <1>1, <1>4
<1>6. data \in Seq(Value) /\ Len(data) = n
  <2> HIDE DEF data, n
  <2> QED  BY <1>1, <1>5
<1>7. ASSUME NEW i \in Indices(s)
      PROVE  data[Position(s, i) + 1] = Apply(f, Meets(IdealOf(a), i), Meets(IdealOf(b), i))
  <2>1. Position(s, i) + 1 \in 1..n  BY <1>1, PlaceIs
  <2>2. Meets(IdealOf(a), i) = a.data[Position(s, i) + 1]  BY MeetsSame
  <2>3. Meets(IdealOf(b), i) = b.data[Position(s, i) + 1]  BY MeetsSame
  <2> HIDE DEF s, n
  <2> QED  BY <1>1, <2>1, <2>2, <2>3
<1> DEFINE at == [i \in Indices(s) |-> Apply(f, Meets(IdealOf(a), i), Meets(IdealOf(b), i))]
<1>8. \A i \in Indices(s) : data[Position(s, i) + 1] = at[i]  BY <1>7
<1>9. at = [i \in Indices(s) |-> at[i]]  OBVIOUS
<1>10. Zipped(f, a, b, s) = Ideal(s, at)  BY DEF Zipped
<1> HIDE DEF at, data, n, s
<1>11. IdealOf(Array(s, data)) = Ideal(s, at)  BY <1>8, <1>9, IdealIs
<1>12. IsArray(Array(s, data))  BY <1>1, <1>6, ArrayMade DEF n
<1> QED  BY <1>3, <1>10, <1>11, <1>12 DEF s

\* The odometers otherwise.
LEMMA ZipMapApart ==
  ASSUME NEW f, NEW a, IsArray(a), NEW b, IsArray(b), a.shape # b.shape,
         NEW out \in BroadcastShape(a.shape, b.shape)
  PROVE  \E data : /\ ZipMap(f, a, b) = {Array(out, data)}
                   /\ IsArray(Array(out, data))
                   /\ IdealOf(Array(out, data)) = Zipped(f, a, b, out)
<1> DEFINE wa == Walk(out, BroadcastStrides(a.shape, out))
           wb == Walk(out, BroadcastStrides(b.shape, out))
           data == [k \in DOMAIN wa |-> Apply(f, a.data[wa[k] + 1], b.data[wb[k] + 1])]
           n == Product(out)
<1>1. a.shape \in Seq(Nat) /\ b.shape \in Seq(Nat) /\ Len(a.shape) =< MAX_NDIM /\ Len(b.shape) =< MAX_NDIM
  BY ArrayFacts
<1>2. /\ BroadcastShape(a.shape, b.shape) = {out} /\ Stretches(a.shape, out) /\ Stretches(b.shape, out)
      /\ out \in Seq(Nat) /\ Len(out) \in {Len(a.shape), Len(b.shape)}
  BY <1>1, ShapesMeet
<1>3. ZipMap(f, a, b) = {Array(out, data)}  BY <1>2 DEF ZipMap
<1>4. n \in Nat /\ Len(out) =< MAX_NDIM  BY <1>1, <1>2, ProductsDef
<1>5. /\ DOMAIN wa = 1..n
      /\ \A i \in Indices(out) : wa[Position(out, i) + 1] = Position(a.shape, Met(a.shape, i))
      /\ \A k \in 1..n : wa[k] + 1 \in 1..Product(a.shape)
  BY <1>2, Walked
<1>6. /\ \A i \in Indices(out) : wb[Position(out, i) + 1] = Position(b.shape, Met(b.shape, i))
      /\ \A k \in 1..n : wb[k] + 1 \in 1..Product(b.shape)
  BY <1>2, Walked
<1> HIDE DEF wa, wb, n
<1>7. \A k \in 1..n : a.data[wa[k] + 1] \in Value  BY <1>5, ArrayFacts
<1>8. \A k \in 1..n : b.data[wb[k] + 1] \in Value  BY <1>6, ArrayFacts
<1>9. \A k \in 1..n : Apply(f, a.data[wa[k] + 1], b.data[wb[k] + 1]) \in Value  BY <1>7, <1>8, ApplyIs
<1>10. data \in [1..n -> Value]  BY <1>5, <1>9
<1>11. data \in Seq(Value) /\ Len(data) = n
  <2> HIDE DEF data
  <2> QED  BY <1>4, <1>10
<1>12. \A i \in Indices(out) : data[Position(out, i) + 1] =
         Apply(f, a.data[Position(a.shape, Met(a.shape, i)) + 1],
                  b.data[Position(b.shape, Met(b.shape, i)) + 1])
  <2> SUFFICES ASSUME NEW i \in Indices(out)
               PROVE  data[Position(out, i) + 1] =
                        Apply(f, a.data[Position(a.shape, Met(a.shape, i)) + 1],
                                 b.data[Position(b.shape, Met(b.shape, i)) + 1])
    OBVIOUS
  <2> DEFINE k == Position(out, i) + 1
  <2>1. k \in 1..n  BY <1>2, PlaceIs DEF n
  <2>2. wa[k] = Position(a.shape, Met(a.shape, i)) /\ wb[k] = Position(b.shape, Met(b.shape, i))
    BY <1>5, <1>6
  <2> HIDE DEF k
  <2>3. data[k] = Apply(f, a.data[wa[k] + 1], b.data[wb[k] + 1])  BY <1>5, <2>1
  <2>4. data[k] = Apply(f, a.data[Position(a.shape, Met(a.shape, i)) + 1],
                           b.data[Position(b.shape, Met(b.shape, i)) + 1])
    BY <2>2, <2>3
  <2> QED  BY <2>4 DEF k
<1> HIDE DEF data
<1>13. IsArray(Array(out, data)) /\ IdealOf(Array(out, data)) = Zipped(f, a, b, out)
  BY <1>2, <1>4, <1>11, <1>12, ZippedMade DEF n
<1> QED  BY <1>3, <1>13

\* zip_map is NumPy's ufunc.
LEMMA ZipMapCases ==
  ASSUME NEW f, NEW a, IsArray(a), NEW b, IsArray(b)
  PROVE  \/ BroadcastShape(a.shape, b.shape) = {} /\ ZipMap(f, a, b) = {}
         \/ \E out \in BroadcastShape(a.shape, b.shape) : \E data :
              /\ ZipMap(f, a, b) = {Array(out, data)}
              /\ IsArray(Array(out, data))
              /\ IdealOf(Array(out, data)) = Zipped(f, a, b, out)
<1>1. CASE a.shape = b.shape
  <2>1. a.shape \in Seq(Nat)  BY ArrayFacts
  <2>2. BroadcastShape(a.shape, b.shape) = {a.shape}  BY <1>1, <2>1, ShapesSame
  <2>3. a.shape \in BroadcastShape(a.shape, b.shape)  BY <2>2
  <2> QED  BY <1>1, <2>3, ZipMapSame
<1>2. CASE a.shape # b.shape
  <2>1. CASE BroadcastShape(a.shape, b.shape) = {}
    <3>1. ZipMap(f, a, b) = {}  BY <1>2, <2>1 DEF ZipMap
    <3> QED  BY <2>1, <3>1
  <2>2. CASE BroadcastShape(a.shape, b.shape) # {}
    <3>1. PICK out : out \in BroadcastShape(a.shape, b.shape)  BY <2>2
    <3> QED  BY <1>2, <3>1, ZipMapApart
  <2> QED  BY <2>1, <2>2
<1> QED  BY <1>1, <1>2

LEMMA ZipMapFaithful ==
  ASSUME NEW f, NEW a, IsArray(a), NEW b, IsArray(b)
  PROVE  /\ Faithful(ZipMap(f, a, b), NumpyZip(f, IdealOf(a), IdealOf(b)))
         /\ ZipMap(f, a, b) = {} => NumpyZip(f, IdealOf(a), IdealOf(b)) = {}
<1> DEFINE made == ZipMap(f, a, b)
           x == NumpyZip(f, IdealOf(a), IdealOf(b))
           shapes == BroadcastShape(a.shape, b.shape)
<1>1. (shapes = {} => x = {}) /\ \A out \in shapes : x = {Zipped(f, a, b, out)}
  BY NumpyZipIs
<1>2. CASE shapes = {} /\ made = {}
  <2> HIDE DEF made, x, shapes
  <2>1. Faithful(made, x) /\ x = {}  BY <1>1, <1>2 DEF Faithful
  <2> QED  BY <2>1 DEF made, x
<1>3. CASE \E out \in shapes : \E data :
              /\ made = {Array(out, data)} /\ IsArray(Array(out, data))
              /\ IdealOf(Array(out, data)) = Zipped(f, a, b, out)
  <2> HIDE DEF made, x, shapes
  <2>1. Faithful(made, x) /\ made # {}  BY <1>1, <1>3 DEF Faithful
  <2> QED  BY <2>1 DEF made, x
<1> QED  BY <1>2, <1>3, ZipMapCases

\* zip_map_inplace takes only what keeps the shape.
LEMMA InplaceFaithful ==
  ASSUME NEW f, NEW a, IsArray(a), NEW b, IsArray(b)
  PROVE  /\ Faithful(ZipMapInplace(f, a, b), NumpyZipInplace(f, IdealOf(a), IdealOf(b)))
         /\ ZipMapInplace(f, a, b) = {} => NumpyZipInplace(f, IdealOf(a), IdealOf(b)) = {}
<1> DEFINE made == ZipMap(f, a, b)
           x == NumpyZip(f, IdealOf(a), IdealOf(b))
           shapes == BroadcastShape(a.shape, b.shape)
<1>1. (shapes = {} => x = {}) /\ \A out \in shapes : x = {Zipped(f, a, b, out)}
  BY NumpyZipIs
<1>2. ZipMapInplace(f, a, b) = {r \in made : r.shape = a.shape}  BY DEF ZipMapInplace
<1>3. NumpyZipInplace(f, IdealOf(a), IdealOf(b)) = {r \in x : r.shape = a.shape}
  BY IdealFacts DEF NumpyZipInplace
<1>4. CASE shapes = {} /\ made = {}
  <2> HIDE DEF made, x, shapes
  <2>1. ZipMapInplace(f, a, b) = {} /\ NumpyZipInplace(f, IdealOf(a), IdealOf(b)) = {}
    BY <1>1, <1>2, <1>3, <1>4
  <2> QED  BY <2>1 DEF Faithful
<1>5. CASE \E out \in shapes : \E data :
              /\ made = {Array(out, data)} /\ IsArray(Array(out, data))
              /\ IdealOf(Array(out, data)) = Zipped(f, a, b, out)
  <2>1. PICK out, data :
              /\ out \in shapes /\ made = {Array(out, data)} /\ IsArray(Array(out, data))
              /\ IdealOf(Array(out, data)) = Zipped(f, a, b, out)
    BY <1>5
  <2>2. x = {Zipped(f, a, b, out)}  BY <1>1, <2>1
  <2>3. Array(out, data).shape = out /\ Zipped(f, a, b, out).shape = out  BY DEF Array, Zipped, Ideal
  <2> DEFINE r == Array(out, data)
             z == Zipped(f, a, b, out)
  <2> HIDE DEF made, x, shapes, r, z
  <2>4. r.shape = z.shape /\ made = {r} /\ x = {z} /\ IsArray(r) /\ IdealOf(r) = z
    BY <2>1, <2>2, <2>3 DEF r, z
  <2>5. CASE r.shape = a.shape
    <3>1. {q \in made : q.shape = a.shape} = {r} /\ {q \in x : q.shape = a.shape} = {z}
      BY <2>4, <2>5
    <3> QED  BY <1>2, <1>3, <2>4, <3>1 DEF Faithful
  <2>6. CASE r.shape # a.shape
    <3>1. {q \in made : q.shape = a.shape} = {} /\ {q \in x : q.shape = a.shape} = {}
      BY <2>4, <2>6
    <3> QED  BY <1>2, <1>3, <3>1 DEF Faithful
  <2> QED  BY <2>5, <2>6
<1> QED  BY <1>4, <1>5, ZipMapCases

-----------------------------------------------------------------------------
(* where().                                                                *)

LEMMA FromNumpySome ==
  ASSUME NEW xs, FromNumpy(xs) = {}
  PROVE  xs = {}
BY DEF FromNumpy

LEMMA LessIs ==
  ASSUME NEW x, NEW y
  PROVE  Less(x, y) \in BOOLEAN
BY DEF Less

\* What where(a < b, a, b) is to NumPy.
Chosen(a, b, out) ==
  Ideal(out, [i \in Indices(out) |->
    IF Less(Meets(IdealOf(a), i), Meets(IdealOf(b), i)) THEN Meets(IdealOf(a), i) ELSE Meets(IdealOf(b), i)])

LEMMA NumpyWhereIs ==
  ASSUME NEW a, IsArray(a), NEW b, IsArray(b)
  PROVE  /\ NumpyWhere(IdealOf(a), IdealOf(b)) = {Chosen(a, b, out) : out \in BroadcastShape(a.shape, b.shape)}
         /\ \A out \in BroadcastShape(a.shape, b.shape) :
              NumpyWhere(IdealOf(a), IdealOf(b)) = {Chosen(a, b, out)}
<1>1. a.shape \in Seq(Nat) /\ b.shape \in Seq(Nat)  BY ArrayFacts
<1>2. IdealOf(a).shape = a.shape /\ IdealOf(b).shape = b.shape  BY IdealFacts
<1>3. Together(a.shape, b.shape) = BroadcastShape(a.shape, b.shape)  BY <1>1, TogetherIs
<1>4. NumpyWhere(IdealOf(a), IdealOf(b)) = {Chosen(a, b, out) : out \in BroadcastShape(a.shape, b.shape)}
  BY <1>2, <1>3 DEF NumpyWhere, Chosen
<1>5. ASSUME NEW out \in BroadcastShape(a.shape, b.shape)
      PROVE  NumpyWhere(IdealOf(a), IdealOf(b)) = {Chosen(a, b, out)}
  <2>1. BroadcastShape(a.shape, b.shape) = {out}  BY <1>1, ShapesMeet
  <2> QED  BY <1>4, <2>1
<1> QED  BY <1>4, <1>5

\* select_where, for equal shapes.
LEMMA SelectedIs ==
  ASSUME NEW a, IsArray(a), NEW b, IsArray(b), a.shape = b.shape
  PROVE  Faithful({SelectWhere(Compare(a, b), a, b)}, NumpyWhere(IdealOf(a), IdealOf(b)))
<1> DEFINE s == a.shape
           n == Product(s)
           pick(k) == IF Less(a.data[k], b.data[k]) THEN a.data[k] ELSE b.data[k]
           data == [k \in DOMAIN a.data |-> pick(k)]
           less == [k \in DOMAIN a.data |-> Less(a.data[k], b.data[k])]
           at == [i \in Indices(s) |->
                    IF Less(Meets(IdealOf(a), i), Meets(IdealOf(b), i)) THEN Meets(IdealOf(a), i) ELSE Meets(IdealOf(b), i)]
<1>1. /\ s \in Seq(Nat) /\ Len(s) =< MAX_NDIM /\ DOMAIN a.data = 1..n /\ n \in Nat
      /\ \A k \in 1..n : a.data[k] \in Value
  BY ArrayFacts, ProductsDef
<1>2. \A k \in 1..n : b.data[k] \in Value  BY ArrayFacts
<1>3. SelectWhere(Compare(a, b), a, b) = Array(s, data)
  <2>1. Compare(a, b).data = less  BY DEF Compare, Array
  <2>2. \A k \in DOMAIN a.data : less[k] = Less(a.data[k], b.data[k])  OBVIOUS
  <2> HIDE DEF less
  <2>3. [k \in DOMAIN a.data |-> IF less[k] THEN a.data[k] ELSE b.data[k]] = data  BY <2>2
  <2> HIDE DEF data
  <2> QED  BY <2>1, <2>3 DEF SelectWhere
<1>4. \A k \in 1..n : pick(k) \in Value  BY <1>1, <1>2
<1>5. data \in [1..n -> Value]
  <2> HIDE DEF pick, n
  <2> QED  BY <1>1, <1>4
<1>6. data \in Seq(Value) /\ Len(data) = n
  <2> HIDE DEF data, n
  <2> QED  BY <1>1, <1>5
<1>7. ASSUME NEW i \in Indices(s)  PROVE data[Position(s, i) + 1] = at[i]
  <2> DEFINE k == Position(s, i) + 1
  <2>1. k \in 1..n  BY <1>1, PlaceIs
  <2>2. Meets(IdealOf(a), i) = a.data[k]  BY MeetsSame
  <2>3. Meets(IdealOf(b), i) = b.data[k]  BY MeetsSame
  <2>4. at[i] = IF Less(Meets(IdealOf(a), i), Meets(IdealOf(b), i)) THEN Meets(IdealOf(a), i) ELSE Meets(IdealOf(b), i)
    OBVIOUS
  <2> HIDE DEF s, n, at, k
  <2>5. at[i] = pick(k)  BY <2>2, <2>3, <2>4
  <2>6. data[k] = pick(k)
    <3> HIDE DEF pick
    <3> QED  BY <1>1, <2>1
  <2> HIDE DEF data, pick
  <2> QED  BY <2>5, <2>6 DEF k
<1>8. at = [i \in Indices(s) |-> at[i]]  OBVIOUS
<1>9. NumpyWhere(IdealOf(a), IdealOf(b)) = {Ideal(s, at)}
  <2>1. BroadcastShape(s, b.shape) = {s}  BY <1>1, ShapesSame
  <2>2. Chosen(a, b, s) = Ideal(s, at)  BY DEF Chosen
  <2>3. s \in BroadcastShape(a.shape, b.shape)  BY <2>1
  <2> HIDE DEF at, s
  <2>4. NumpyWhere(IdealOf(a), IdealOf(b)) = {Chosen(a, b, s)}  BY <2>3, NumpyWhereIs
  <2> QED  BY <2>2, <2>4
<1> HIDE DEF at, data, n, s
<1>10. IdealOf(Array(s, data)) = Ideal(s, at)  BY <1>7, <1>8, IdealIs
<1>11. IsArray(Array(s, data))  BY <1>1, <1>6, ArrayMade DEF n
<1> QED  BY <1>3, <1>9, <1>10, <1>11 DEF Faithful

\* Other shapes go to NumPy.
LEMMA ChosenIs ==
  ASSUME NEW a, IsArray(a), NEW b, IsArray(b)
  PROVE  Faithful(FromNumpy(NumpyWhere(IdealOf(a), IdealOf(b))), NumpyWhere(IdealOf(a), IdealOf(b)))
<1> DEFINE x == NumpyWhere(IdealOf(a), IdealOf(b))
           shapes == BroadcastShape(a.shape, b.shape)
<1>1. x = {Chosen(a, b, out) : out \in shapes} /\ \A out \in shapes : x = {Chosen(a, b, out)}
  BY NumpyWhereIs
<1>2. CASE shapes = {}
  <2> HIDE DEF shapes
  <2>1. x = {}  BY <1>1, <1>2
  <2> HIDE DEF x
  <2> QED  BY <2>1 DEF Faithful, FromNumpy, x
<1>3. ASSUME NEW out \in shapes  PROVE Faithful(FromNumpy(x), x)
  <2> DEFINE at == [i \in Indices(out) |->
                    IF Less(Meets(IdealOf(a), i), Meets(IdealOf(b), i)) THEN Meets(IdealOf(a), i) ELSE Meets(IdealOf(b), i)]
  <2>1. a.shape \in Seq(Nat) /\ b.shape \in Seq(Nat) /\ Len(a.shape) =< MAX_NDIM /\ Len(b.shape) =< MAX_NDIM
    BY ArrayFacts
  <2>2. /\ Stretches(a.shape, out) /\ Stretches(b.shape, out)
        /\ out \in Seq(Nat) /\ Len(out) \in {Len(a.shape), Len(b.shape)}
    BY <2>1, ShapesMeet
  <2>3. \A i \in Indices(out) : Meets(IdealOf(a), i) \in Value  BY <2>2, MeetsIs
  <2>4. \A i \in Indices(out) : Meets(IdealOf(b), i) \in Value  BY <2>2, MeetsIs
  <2>5. at \in [Indices(out) -> Value]  BY <2>3, <2>4
  <2>6. Len(out) =< MAX_NDIM  BY <2>1, <2>2
  <2>7. x = {Ideal(out, at)}  BY <1>1 DEF Chosen
  <2> HIDE DEF at, x
  <2>8. Faithful(FromNumpy({Ideal(out, at)}), {Ideal(out, at)})  BY <2>2, <2>5, <2>6, FromNumpyIs
  <2> QED  BY <2>7, <2>8
<1> QED  BY <1>2, <1>3

-----------------------------------------------------------------------------
(* Elements picked out in C order.                                         *)

\* The places of C order that K holds, and the indices there, are those of S.
Picks(shape, S, K) ==
  /\ K \subseteq 1..Product(shape)
  /\ \A k \in 1..Product(shape) : k \in K <=> Unravel(shape, k - 1) \in S
Places(shape, K) == Ordered(Product(shape), K)

LEMMA PlacesAre ==
  ASSUME NEW shape \in Seq(Nat), NEW K
  PROVE  /\ Len(Places(shape, K)) \in Nat /\ DOMAIN Places(shape, K) = 1..Len(Places(shape, K))
         /\ \A n \in 1..Len(Places(shape, K)) : Places(shape, K)[n] \in 1..Product(shape)
         /\ \A n \in 1..Len(Places(shape, K)) : Places(shape, K)[n] \in K
         /\ \A k \in K : k \in 1..Product(shape) => \E n \in 1..Len(Places(shape, K)) : Places(shape, K)[n] = k
<1> DEFINE P == Product(shape)
           o == Ordered(P, K)
<1>1. P \in Nat  BY ProductsDef
<1>2. OrderedOK(P, K)  BY <1>1, OrderedFacts
<1>3. o \in Seq(1..P)  BY <1>2 DEF OrderedOK
<1>4. \A n \in 1..Len(o) : o[n] \in K /\ o[n] \in 1..P  BY <1>2 DEF OrderedOK
<1>5. \A k \in 1..P : k \in K => Rank(k, K) \in 1..Len(o) /\ o[Rank(k, K)] = k
  BY <1>2 DEF OrderedOK
<1> HIDE DEF o, P
<1>6. Len(o) \in Nat /\ DOMAIN o = 1..Len(o)  BY <1>3
<1>7. \A k \in K : k \in 1..P => \E n \in 1..Len(o) : o[n] = k  BY <1>5
<1> QED  BY <1>4, <1>6, <1>7 DEF o, P, Places

LEMMA InCOrderIs ==
  ASSUME NEW shape \in Seq(Nat), NEW S, NEW K, Picks(shape, S, K)
  PROVE  /\ DOMAIN InCOrder(shape, S) = 1..Len(Places(shape, K))
         /\ Len(InCOrder(shape, S)) = Len(Places(shape, K))
         /\ \A n \in 1..Len(Places(shape, K)) :
              /\ InCOrder(shape, S)[n] = Unravel(shape, Places(shape, K)[n] - 1)
              /\ InCOrder(shape, S)[n] \in Indices(shape) /\ InCOrder(shape, S)[n] \in S
              /\ Position(shape, InCOrder(shape, S)[n]) = Places(shape, K)[n] - 1
<1> DEFINE P == Product(shape)
           o == Places(shape, K)
           f == InCOrder(shape, S)
<1>1. P \in Nat  BY ProductsDef
<1>2. {k \in 1..P : Unravel(shape, k - 1) \in S} = K  BY DEF Picks
<1>3. f = [n \in DOMAIN o |-> Unravel(shape, o[n] - 1)]  BY <1>2 DEF InCOrder, Places
<1>4. /\ Len(o) \in Nat /\ DOMAIN o = 1..Len(o)
      /\ (\A n \in 1..Len(o) : o[n] \in 1..P) /\ \A n \in 1..Len(o) : o[n] \in K
  BY PlacesAre
<1> HIDE DEF o, f
<1>5. DOMAIN f = 1..Len(o) /\ Len(f) = Len(o)
  <2>1. f \in [1..Len(o) -> {Unravel(shape, o[n] - 1) : n \in 1..Len(o)}]  BY <1>3, <1>4
  <2> QED  BY <1>4, <2>1
<1>6. ASSUME NEW n \in 1..Len(o)
      PROVE  /\ f[n] = Unravel(shape, o[n] - 1) /\ f[n] \in Indices(shape) /\ f[n] \in S
             /\ Position(shape, f[n]) = o[n] - 1
  <2>1. f[n] = Unravel(shape, o[n] - 1)  BY <1>3, <1>4
  <2>2. o[n] \in 1..P /\ o[n] \in K  BY <1>4
  <2>3. o[n] - 1 \in 0..P - 1  BY <1>1, <2>2
  <2>4. Unravel(shape, o[n] - 1) \in Indices(shape) /\ Position(shape, Unravel(shape, o[n] - 1)) = o[n] - 1
    BY <2>3, UnravelPlace DEF Position
  <2>5. Unravel(shape, o[n] - 1) \in S  BY <2>2 DEF Picks
  <2> QED  BY <2>1, <2>4, <2>5
<1> QED  BY <1>5, <1>6 DEF o, f

\* Indices are picked as the places they have.
LEMMA SamePicks ==
  ASSUME NEW shape \in Seq(Nat), NEW S, NEW K, K \subseteq 1..Product(shape),
         \A i \in Indices(shape) : i \in S <=> Position(shape, i) + 1 \in K
  PROVE  Picks(shape, S, K)
<1> DEFINE P == Product(shape)
<1>1. P \in Nat  BY ProductsDef
<1>2. ASSUME NEW k \in 1..P  PROVE k \in K <=> Unravel(shape, k - 1) \in S
  <2>1. k - 1 \in 0..P - 1 /\ (k - 1) + 1 = k  BY <1>1
  <2>2. Unravel(shape, k - 1) \in Indices(shape) /\ Position(shape, Unravel(shape, k - 1)) = k - 1
    BY <2>1, UnravelPlace DEF Position
  <2> QED  BY <2>1, <2>2
<1> QED  BY <1>2 DEF Picks

\* The coordinates of the non-zero elements.
LEMMA NonZeroFaithful ==
  ASSUME NEW a, IsArray(a), NEW ax \in DOMAIN a.shape \cup {1}
  PROVE  /\ Faithful(NonZero(a, ax), NumpyNonZero(IdealOf(a), ax))
         /\ NonZero(a, ax) = {} => NumpyNonZero(IdealOf(a), ax) = {}
<1> DEFINE s == a.shape
           P == Product(s)
           S == {i \in Indices(s) : IdealOf(a).at[i] # 0}
           K == {k \in DOMAIN a.data : a.data[k] # 0}
           o == Places(s, K)
           f == InCOrder(s, S)
           w == Product(SubSeq(s, ax + 1, Ndim(s)))
           d == [n \in DOMAIN o |-> ((o[n] - 1) \div w) % s[ax]]
<1>1. s \in Seq(Nat) /\ DOMAIN a.data = 1..P /\ P \in Nat /\ DOMAIN s = 1..Len(s)
  BY ArrayFacts, ProductsDef
<1>2. CASE Ndim(s) = 0
  <2>1. NonZero(a, ax) = {} /\ NumpyNonZero(IdealOf(a), ax) = {}
    BY <1>2, IdealFacts DEF NonZero, NumpyNonZero, Refuses
  <2> QED  BY <2>1 DEF Faithful
<1>3. CASE Ndim(s) # 0
  <2>1. ax \in 1..Len(s)
    <3>1. 1 \in 1..Len(s)  BY <1>1, <1>3 DEF Ndim
    <3> QED  BY <1>1, <3>1
  <2>2. NonZero(a, ax) = {Array(<<Len(o)>>, d)}
    <3> HIDE DEF w
    <3> QED  BY <1>3 DEF NonZero, Places, Size, w
  <2>3. NumpyNonZero(IdealOf(a), ax) = {Ideal(<<Len(f)>>, [i \in Indices(<<Len(f)>>) |-> f[i[1] + 1][ax]])}
    BY <1>3, IdealFacts DEF NumpyNonZero
  <2>4. Picks(s, S, K)
    <3>1. \A i \in Indices(s) : IdealOf(a).at[i] = a.data[Position(s, i) + 1]  BY IdealFacts
    <3>2. \A i \in Indices(s) : Position(s, i) + 1 \in 1..P  BY <1>1, PlaceIs
    <3>3. \A i \in Indices(s) : i \in S <=> Position(s, i) + 1 \in K
      <4> HIDE DEF s, P
      <4> QED  BY <1>1, <3>1, <3>2
    <3>4. K \subseteq 1..P  BY <1>1
    <3> HIDE DEF S, K, s
    <3> QED  BY <1>1, <3>3, <3>4, SamePicks
  <2> HIDE DEF S, K
  <2>5. /\ Len(o) \in Nat /\ DOMAIN o = 1..Len(o)
        /\ \A n \in 1..Len(o) : o[n] \in 1..P
    BY <1>1, PlacesAre
  <2>6. /\ Len(f) = Len(o)
        /\ \A n \in 1..Len(o) : f[n] = Unravel(s, o[n] - 1) /\ f[n] \in Indices(s)
    BY <1>1, <2>4, InCOrderIs
  <2>7. CStrides(s)[ax] = w
    <3> DEFINE p == SubSeq(s, 1, ax - 1)
               q == SubSeq(s, ax + 1, Len(s))
    <3> HIDE DEF s
    <3>1. p \in Seq(Nat) /\ q \in Seq(Nat) /\ Len(p) = ax - 1 /\ s[ax] \in Nat /\ s = Apart(p, s[ax], q)
      BY <1>1, <2>1, TakenApart
    <3> HIDE DEF p, q
    <3>2. Weight(Apart(p, s[ax], q), Len(p) + 1) = Product(q)  BY <3>1, AxisWeights
    <3>3. Len(p) + 1 = ax  BY <2>1, <3>1
    <3>4. CStrides(s)[ax] = Weight(s, ax)  BY <1>1, <2>1, Weights
    <3> QED  BY <3>1, <3>2, <3>3, <3>4 DEF q, Ndim
  <2>8. \A n \in 1..Len(o) : d[n] = f[n][ax] /\ d[n] \in Nat
    <3> SUFFICES ASSUME NEW n \in 1..Len(o)  PROVE d[n] = f[n][ax] /\ d[n] \in Nat
      OBVIOUS
    <3>1. d[n] = ((o[n] - 1) \div w) % s[ax]
      <4> HIDE DEF w, o
      <4> QED  BY <2>5
    <3>2. Unravel(s, o[n] - 1)[ax] = ((o[n] - 1) \div CStrides(s)[ax]) % s[ax]
      BY <1>1, <2>1 DEF Unravel
    <3>3. f[n] = Unravel(s, o[n] - 1) /\ f[n] \in Indices(s)  BY <2>6
    <3> HIDE DEF d, w, o, s, f
    <3>4. d[n] = f[n][ax]  BY <2>7, <3>1, <3>2, <3>3
    <3>5. f[n][ax] \in Nat  BY <1>1, <2>1, <3>3, IndexTypes
    <3> QED  BY <3>4, <3>5
  <2>9. d \in Seq(Value) /\ Len(d) = Len(o)
    <3>1. DOMAIN d = 1..Len(o)  BY <2>5
    <3>2. d = [n \in 1..Len(o) |-> d[n]]  BY <2>5
    <3> HIDE DEF d, o
    <3>3. d \in [1..Len(o) -> Value]  BY <2>8, <3>2 DEF Value
    <3> DEFINE m == Len(o)
    <3>4. m \in Nat /\ d \in [1..m -> Value]  BY <2>5, <3>3
    <3> HIDE DEF m
    <3>5. d \in Seq(Value) /\ Len(d) = m  BY <3>4
    <3> QED  BY <3>5 DEF m
  <2> DEFINE n == Len(o)
  <2>10. n \in Nat  BY <2>5
  <2>11. \A i \in Indices(<<n>>) : i[1] + 1 \in 1..n
    <3> HIDE DEF n
    <3>1. \A i \in Indices(<<n>>) : i[1] \in 0..n - 1  BY <2>10, OneAxis
    <3> QED  BY <2>10, <3>1
  <2> HIDE DEF d, o, f
  <2>12. [i \in Indices(<<n>>) |-> d[i[1] + 1]] = [i \in Indices(<<n>>) |-> f[i[1] + 1][ax]]
    <3> HIDE DEF n
    <3>1. \A m \in 1..n : d[m] = f[m][ax]  BY <2>8 DEF n
    <3> QED  BY <2>11, <3>1
  <2>13. IsArray(Array(<<n>>, d)) /\ IdealOf(Array(<<n>>, d)) = Ideal(<<n>>, [i \in Indices(<<n>>) |-> d[i[1] + 1]])
    <3>1. n \in Nat /\ d \in Seq(Value) /\ Len(d) = n  BY <2>9, <2>10
    <3> HIDE DEF n
    <3> QED  BY <3>1, OneAxisIdeal
  <2>14. NumpyNonZero(IdealOf(a), ax) = {IdealOf(Array(<<n>>, d))}
    <3>1. Len(f) = n  BY <2>6
    <3> HIDE DEF n
    <3> QED  BY <2>3, <2>12, <2>13, <3>1
  <2> QED  BY <2>2, <2>13, <2>14 DEF Faithful
<1> QED  BY <1>2, <1>3

-----------------------------------------------------------------------------
(* Masks.                                                                  *)

\* The indices under a mask, in C order, and their places.
Under(m)   == InCOrder(m.shape, {i \in Indices(m.shape) : m.data[Position(m.shape, i) + 1]})
UnderAt(m) == Places(m.shape, {k \in 1..Product(m.shape) : m.data[k]})

LEMMA UnderIs ==
  ASSUME NEW m, m.shape \in Seq(Nat)
  PROVE  /\ Len(UnderAt(m)) \in Nat /\ DOMAIN UnderAt(m) = 1..Len(UnderAt(m))
         /\ Len(Under(m)) = Len(UnderAt(m)) /\ DOMAIN Under(m) = 1..Len(UnderAt(m))
         /\ \A n \in 1..Len(UnderAt(m)) : UnderAt(m)[n] \in 1..Product(m.shape)
         /\ \A n \in 1..Len(UnderAt(m)) :
              Under(m)[n] \in Indices(m.shape) /\ Position(m.shape, Under(m)[n]) = UnderAt(m)[n] - 1
<1> DEFINE s == m.shape
           S == {i \in Indices(s) : m.data[Position(s, i) + 1]}
           K == {k \in 1..Product(s) : m.data[k]}
<1>1. \A i \in Indices(s) : Position(s, i) + 1 \in 1..Product(s)  BY PlaceIs
<1>2. \A i \in Indices(s) : i \in S <=> Position(s, i) + 1 \in K  BY <1>1
<1>3. K \subseteq 1..Product(s)  OBVIOUS
<1>4. Under(m) = InCOrder(s, S) /\ UnderAt(m) = Places(s, K)  BY DEF Under, UnderAt
<1>5. s \in Seq(Nat)  OBVIOUS
<1> HIDE DEF S, K, s
<1>6. Picks(s, S, K)  BY <1>2, <1>3, <1>5, SamePicks
<1>7. /\ Len(Places(s, K)) \in Nat /\ DOMAIN Places(s, K) = 1..Len(Places(s, K))
      /\ \A n \in 1..Len(Places(s, K)) : Places(s, K)[n] \in 1..Product(s)
  BY <1>5, PlacesAre
<1>8. /\ DOMAIN InCOrder(s, S) = 1..Len(Places(s, K)) /\ Len(InCOrder(s, S)) = Len(Places(s, K))
      /\ \A n \in 1..Len(Places(s, K)) :
           InCOrder(s, S)[n] \in Indices(s) /\ Position(s, InCOrder(s, S)[n]) = Places(s, K)[n] - 1
  BY <1>5, <1>6, InCOrderIs
<1> QED  BY <1>4, <1>7, <1>8 DEF s

\* What a mask takes of an array.
LEMMA NumpyMaskIs ==
  ASSUME NEW x, NEW key, key.kind = "mask"
  PROVE  LET m    == key.mask
             rest == SubSeq(x.shape, Ndim(m.shape) + 1, Ndim(x.shape))
             out  == <<Len(Under(m))>> \o rest
         IN  NumpyGet(x, key) =
               IF IsPrefix(m.shape, x.shape)
               THEN {Ideal(out, [i \in Indices(out) |-> x.at[Under(m)[i[1] + 1] \o Tail(i)]])} ELSE {}
BY DEF NumpyGet, Named, NamedAxes, KeyFits, Under

\* compress_flat.
LEMMA CompressFaithful ==
  ASSUME NEW a, IsArray(a), NEW key, key.kind = "mask", key.mask.shape = a.shape
  PROVE  /\ Faithful(CompressFlat(a, key.mask), NumpyGet(IdealOf(a), key))
         /\ CompressFlat(a, key.mask) # {}
<1> DEFINE s == a.shape
           m == key.mask
           o == UnderAt(m)
           f == Under(m)
           n == Len(o)
           d == [k \in DOMAIN o |-> a.data[o[k]]]
           at == [i \in Indices(<<n>>) |-> d[i[1] + 1]]
<1>1. s \in Seq(Nat) /\ DOMAIN a.data = 1..Product(s) /\ \A k \in 1..Product(s) : a.data[k] \in Value
  BY ArrayFacts
<1>2. /\ n \in Nat /\ DOMAIN o = 1..n /\ Len(f) = n
      /\ (\A k \in 1..n : o[k] \in 1..Product(s))
      /\ \A k \in 1..n : f[k] \in Indices(s) /\ Position(s, f[k]) = o[k] - 1
  BY <1>1, UnderIs
<1>3. CompressFlat(a, m) = {Array(<<n>>, d)}
  <2>1. Ordered(Size(a), {k \in DOMAIN a.data : m.data[k]}) = o  BY <1>1 DEF UnderAt, Places, Size
  <2> HIDE DEF o
  <2> QED  BY <2>1 DEF CompressFlat
<1>4. NumpyGet(IdealOf(a), key) = {Ideal(<<n>>, [i \in Indices(<<n>>) |-> IdealOf(a).at[f[i[1] + 1] \o Tail(i)]])}
  <2>1. IdealOf(a).shape = s  BY IdealFacts
  <2>2. IsPrefix(s, s)  BY <1>1 DEF IsPrefix
  <2>3. SubSeq(s, Ndim(s) + 1, Ndim(s)) = <<>>  BY <1>1 DEF Ndim
  <2>4. <<n>> \o <<>> = <<n>>
    <3> HIDE DEF n
    <3> QED  BY <1>2
  <2> DEFINE x == IdealOf(a)
  <2> HIDE DEF x, f, n, s
  <2>5. m.shape = s /\ x.shape = s  BY <2>1 DEF s, x
  <2> QED  BY <1>2, <2>2, <2>3, <2>4, <2>5, NumpyMaskIs DEF f, x
<1> HIDE DEF o, f
<1>5. \A k \in 1..n : d[k] = a.data[o[k]] /\ d[k] \in Value  BY <1>1, <1>2
<1>6. d = [k \in 1..n |-> d[k]]  BY <1>2
<1> HIDE DEF d, n
<1>7. d \in Seq(Value) /\ Len(d) = n
  <2>1. d \in [1..n -> Value]  BY <1>5, <1>6
  <2> QED  BY <1>2, <2>1
<1>8. IsArray(Array(<<n>>, d)) /\ IdealOf(Array(<<n>>, d)) = Ideal(<<n>>, at)
  BY <1>2, <1>7, OneAxisIdeal
<1>9. ASSUME NEW i \in Indices(<<n>>)  PROVE IdealOf(a).at[f[i[1] + 1] \o Tail(i)] = d[i[1] + 1]
  <2>1. i[1] \in 0..n - 1 /\ i = <<i[1]>>  BY <1>2, OneAxis
  <2> DEFINE k == i[1] + 1
  <2>2. k \in 1..n  BY <1>2, <2>1
  <2>3. Tail(i) = <<>>
    <3> DEFINE v == i[1]
    <3> HIDE DEF v
    <3>1. i = <<v>>  BY <2>1 DEF v
    <3>2. Tail(<<v>>) = <<>>  OBVIOUS
    <3> QED  BY <3>1, <3>2
  <2> HIDE DEF k
  <2>4. f[k] \in Indices(s) /\ Position(s, f[k]) = o[k] - 1 /\ o[k] \in 1..Product(s)  BY <1>2, <2>2
  <2>5. f[k] \in Seq(Nat)  BY <1>1, <2>4, IndexTypes
  <2>6. f[k] \o <<>> = f[k]  BY <2>5
  <2>7. IdealOf(a).at[f[k]] = a.data[Position(s, f[k]) + 1]  BY <2>4, IdealFacts
  <2>8. (o[k] - 1) + 1 = o[k]
    <3>1. o[k] \in Int  BY <2>4
    <3> QED  BY <3>1
  <2>9. IdealOf(a).at[f[k] \o Tail(i)] = d[k]  BY <1>5, <2>2, <2>3, <2>4, <2>6, <2>7, <2>8
  <2> QED  BY <2>9 DEF k
<1>10. [i \in Indices(<<n>>) |-> IdealOf(a).at[f[i[1] + 1] \o Tail(i)]] = at  BY <1>9
<1>11. NumpyGet(IdealOf(a), key) = {IdealOf(Array(<<n>>, d))}
  <2> HIDE DEF at
  <2> QED  BY <1>4, <1>8, <1>10
<1> QED  BY <1>3, <1>8, <1>11 DEF Faithful

\* Masks of leading axes go to NumPy.
LEMMA MaskGetFaithful ==
  ASSUME NEW a, IsArray(a), NEW key, key.kind = "mask", key.mask.shape \in Seq(Nat), key.mask.shape # <<>>
  PROVE  Faithful(FromNumpy(NumpyGet(IdealOf(a), key)), NumpyGet(IdealOf(a), key))
<1> DEFINE s == a.shape
           m == key.mask
           p == m.shape
           x == IdealOf(a)
           f == Under(m)
           n == Len(f)
           rest == SubSeq(s, Len(p) + 1, Len(s))
           out == <<n>> \o rest
           at == [i \in Indices(out) |-> x.at[f[i[1] + 1] \o Tail(i)]]
<1>1. s \in Seq(Nat) /\ Len(s) =< MAX_NDIM /\ p \in Seq(Nat) /\ p # <<>>  BY ArrayFacts
<1>2. x.shape = s  BY IdealFacts
<1>3. CASE ~IsPrefix(p, s)
  <2>1. NumpyGet(x, key) = {}
    <3> HIDE DEF x, s
    <3> QED  BY <1>2, <1>3, NumpyMaskIs
  <2> QED  BY <2>1 DEF Faithful, FromNumpy
<1>4. CASE IsPrefix(p, s)
  <2>1. NumpyGet(x, key) = {Ideal(out, at)}
    <3> HIDE DEF x, s
    <3> QED  BY <1>2, <1>4, NumpyMaskIs DEF Ndim
  <2>2. n \in Nat /\ \A k \in 1..n : f[k] \in Indices(p)
    <3>1. Len(UnderAt(m)) \in Nat /\ Len(f) = Len(UnderAt(m)) /\ \A k \in 1..Len(UnderAt(m)) : f[k] \in Indices(p)
      BY <1>1, UnderIs
    <3> QED  BY <3>1
  <2>3. rest \in Seq(Nat) /\ Len(rest) = Len(s) - Len(p) /\ p \o rest = s /\ Len(p) \in Nat \ {0}
    <3> HIDE DEF s, p
    <3>1. Len(p) \in 0..Len(s) /\ SubSeq(p, 1, Len(p)) = SubSeq(s, 1, Len(p))  BY <1>1, <1>4 DEF IsPrefix
    <3>2. SubSeq(p, 1, Len(p)) = p
      <4>1. SubSeq(p, 1, Len(p)) \in Seq(Nat) /\ Len(SubSeq(p, 1, Len(p))) = Len(p)  BY <1>1
      <4>2. \A k \in 1..Len(p) : SubSeq(p, 1, Len(p))[k] = p[k]  BY <1>1
      <4> QED  BY <1>1, <4>1, <4>2, SameSequence
    <3>3. /\ rest \in Seq(Nat) /\ Len(rest) = Len(s) - Len(p)
          /\ SubSeq(s, 1, Len(p)) \o rest = s
      BY <1>1, <3>1, Halves
    <3>4. Len(p) # 0
      <4>1. Len(p) = 0 => p = <<>>  BY <1>1
      <4> QED  BY <1>1, <4>1
    <3> HIDE DEF rest
    <3>5. SubSeq(s, 1, Len(p)) = p  BY <3>1, <3>2
    <3>6. p \o rest = s  BY <3>3, <3>5
    <3>7. Len(p) \in Nat \ {0}  BY <1>1, <3>4
    <3> QED  BY <3>3, <3>6, <3>7
  <2> HIDE DEF rest, f, n, p, s
  <2>4. out \in Seq(Nat) /\ Len(out) =< MAX_NDIM
    <3>1. out \in Seq(Nat) /\ Len(out) = Len(rest) + 1  BY <2>2, <2>3, LeadingAxis
    <3>2. MAX_NDIM \in Nat  BY KernelsAssumption
    <3> HIDE DEF out
    <3> QED  BY <1>1, <2>3, <3>1, <3>2
  <2>5. ASSUME NEW i \in Indices(out)  PROVE x.at[f[i[1] + 1] \o Tail(i)] \in Value
    <3>1. i[1] \in 0..n - 1 /\ Tail(i) \in Indices(rest)  BY <2>2, <2>3, LeadingIndex
    <3>2. i[1] + 1 \in 1..n  BY <2>2, <3>1
    <3>3. f[i[1] + 1] \in Indices(p)  BY <2>2, <3>2
    <3>4. f[i[1] + 1] \o Tail(i) \in Indices(s)  BY <1>1, <2>3, <3>1, <3>3, JoinedPlace
    <3> DEFINE j == f[i[1] + 1] \o Tail(i)
    <3>5. j \in Indices(a.shape)  BY <3>4 DEF s
    <3> HIDE DEF j
    <3>6. x.at[j] = a.data[Position(a.shape, j) + 1] /\ a.data[Position(a.shape, j) + 1] \in Value
      BY <3>5, IdealFacts, ArrayFacts
    <3>7. x.at[j] \in Value  BY <3>6
    <3> QED  BY <3>7 DEF j
  <2>6. at \in [Indices(out) -> Value]  BY <2>5
  <2> HIDE DEF at, out, x
  <2>7. Faithful(FromNumpy({Ideal(out, at)}), {Ideal(out, at)})  BY <2>4, <2>6, FromNumpyIs
  <2> QED  BY <2>1, <2>7 DEF x
<1> QED  BY <1>3, <1>4

-----------------------------------------------------------------------------
(* Rows by index.                                                          *)

\* An array with a first axis is a row after another.
LEMMA LeadingOf ==
  ASSUME NEW s \in Seq(Nat), s # <<>>
  PROVE  /\ s[1] \in Nat /\ Tail(s) \in Seq(Nat) /\ Len(Tail(s)) = Len(s) - 1 /\ Len(s) \in Nat \ {0}
         /\ <<s[1]>> \o Tail(s) = s /\ SubSeq(s, 2, Len(s)) = Tail(s)
<1>1. Len(s) \in Nat \ {0}  BY EmptySeq
<1>2. Tail(s) \in Seq(Nat) /\ Len(Tail(s)) = Len(s) - 1 /\ \A k \in 1..Len(s) - 1 : Tail(s)[k] = s[k + 1]
  BY <1>1
<1>3. s[1] \in Nat  BY <1>1
<1>4. SubSeq(s, 2, Len(s)) = Tail(s)
  <2> DEFINE q == SubSeq(s, 2, Len(s))
             t == Tail(s)
  <2>1. q \in Seq(Nat) /\ Len(q) = Len(s) - 1 /\ \A k \in 1..Len(s) - 1 : q[k] = s[1 + k]
    <3> DEFINE one == 1
    <3>1. one \in 0..Len(s) /\ one + 1 = 2 /\ one = 1  BY <1>1
    <3> HIDE DEF one
    <3>2. LET z == SubSeq(s, one + 1, Len(s)) IN
          z \in Seq(Nat) /\ Len(z) = Len(s) - one /\ \A k \in 1..Len(s) - one : z[k] = s[one + k]
      BY <3>1, Halves
    <3> QED  BY <3>1, <3>2
  <2>2. t \in Seq(Nat) /\ Len(t) = Len(s) - 1 /\ \A k \in 1..Len(s) - 1 : t[k] = s[1 + k]  BY <1>2
  <2> HIDE DEF q, t
  <2>3. q = t  BY <2>1, <2>2, SameSequence
  <2> QED  BY <2>3 DEF q, t
<1>5. <<s[1]>> \o Tail(s) = s
  <2> DEFINE h == <<s[1]>>
             t == Tail(s)
             z == h \o t
  <2>1. h \in Seq(Nat) /\ Len(h) = 1 /\ h[1] = s[1]  BY <1>3
  <2>2. t \in Seq(Nat) /\ Len(t) = Len(s) - 1 /\ \A k \in 1..Len(s) - 1 : t[k] = s[k + 1]  BY <1>2
  <2> HIDE DEF h, t
  <2>3. z \in Seq(Nat) /\ Len(z) = 1 + (Len(s) - 1) /\ z[1] = h[1] /\ \A k \in 1..Len(s) - 1 : z[1 + k] = t[k]
    <3>1. z \in Seq(Nat) /\ Len(z) = Len(h) + Len(t)  BY <2>1, <2>2, JoinIs
    <3>0. h \in Seq(Nat) /\ t \in Seq(Nat)  BY <2>1, <2>2
    <3>2. \A k \in 1..Len(h) : z[k] = h[k]  BY ONLY <3>0, JoinIs
    <3>3. \A k \in 1..Len(t) : z[Len(h) + k] = t[k]
      <4>1. h \in Seq(Nat) /\ t \in Seq(Nat)  BY <2>1, <2>2
      <4> QED  BY ONLY <4>1, JoinIs
    <3> HIDE DEF z
    <3> QED  BY <2>1, <2>2, <3>1, <3>2, <3>3
  <2> HIDE DEF z
  <2>4. Len(z) = Len(s)  BY <1>1, <2>3
  <2>5. \A k \in 1..Len(s) : z[k] = s[k]
    <3> SUFFICES ASSUME NEW k \in 1..Len(s)  PROVE z[k] = s[k]
      OBVIOUS
    <3>1. CASE k = 1  BY <2>1, <2>3, <3>1
    <3>2. CASE k # 1
      <4> DEFINE j == k - 1
      <4>1. j \in 1..Len(s) - 1 /\ 1 + j = k /\ j + 1 = k  BY <1>1, <3>2
      <4> HIDE DEF j
      <4> QED  BY <2>2, <2>3, <4>1
    <3> QED  BY <3>1, <3>2
  <2>6. z = s  BY <2>3, <2>4, <2>5, SameSequence
  <2> QED  BY <2>6 DEF z, h, t
<1> QED  BY <1>1, <1>2, <1>3, <1>4, <1>5

\* The rows idx names, one after the other.
RowSize(a) == Product(Tail(a.shape))
Leads(a, idx) ==
  a.shape # <<>> /\ idx \in Seq(Int) /\ \A k \in DOMAIN idx : InRange(idx[k], a.shape[1])
Taken(a, idx, d) ==
  /\ d \in Seq(Value) /\ Len(d) = Len(idx) * RowSize(a)
  /\ \A k \in 1..Len(idx) : \A e \in 1..RowSize(a) :
       d[(k - 1) * RowSize(a) + e] = a.data[Normalize(idx[k], a.shape[1]) * RowSize(a) + e]

\* The shape and the data of an array with rows.
LEMMA RowsFit ==
  ASSUME NEW a, IsArray(a), a.shape # <<>>
  PROVE  /\ RowSize(a) \in Nat /\ a.shape[1] \in Nat /\ Len(a.data) = a.shape[1] * RowSize(a)
         /\ <<a.shape[1]>> \o Tail(a.shape) = a.shape /\ Tail(a.shape) \in Seq(Nat)
         /\ Len(Tail(a.shape)) = Len(a.shape) - 1
<1>1. a.shape \in Seq(Nat) /\ Len(a.data) = Product(a.shape)  BY ArrayFacts
<1> DEFINE s == a.shape
           m == s[1]
           rest == Tail(s)
<1>2. m \in Nat /\ rest \in Seq(Nat) /\ Len(rest) = Len(s) - 1 /\ <<m>> \o rest = s
  BY <1>1, LeadingOf
<1> HIDE DEF m, rest
<1>3. Product(<<m>> \o rest) = m * Product(rest)  BY <1>2, LeadingAxis
<1>4. Product(rest) \in Nat  BY <1>2, ProductsDef
<1> QED  BY <1>1, <1>2, <1>3, <1>4 DEF m, rest, RowSize

LEMMA TakenIs ==
  ASSUME NEW a, IsArray(a), NEW idx, Leads(a, idx)
  PROVE  \E d : Taken(a, idx, d) /\ TakeLeading(a, idx) = {Array(<<Len(idx)>> \o Tail(a.shape), d)}
<1> DEFINE row == RowSize(a)
           M == a.shape[1]
           n == Len(idx)
           at(k) == Normalize(idx[k], M)
           s == [k \in DOMAIN idx |-> SubSeq(a.data, at(k) * row + 1, (at(k) + 1) * row)]
           d == FlattenSeq(s)
<1>1. row \in Nat /\ M \in Nat /\ Len(a.data) = M * row /\ a.data \in Seq(Value)
  BY RowsFit, ArrayFacts DEF Leads
<1>2. idx \in Seq(Int) /\ n \in Nat /\ DOMAIN idx = 1..n /\ \A k \in 1..n : InRange(idx[k], M)
  BY DEF Leads
<1>3. TakeLeading(a, idx) = {Array(<<n>> \o Tail(a.shape), d)}
  <2>1. a.shape # <<>> /\ ~(\E k \in DOMAIN idx : ~InRange(idx[k], a.shape[1]))  BY DEF Leads
  <2>2. TakeLeading(a, idx) =
          {Array(<<Len(idx)>> \o Tail(a.shape),
              FlattenSeq([k \in DOMAIN idx |->
                LET i == Normalize(idx[k], a.shape[1]) IN SubSeq(a.data, i * row + 1, (i + 1) * row)]))}
    BY <2>1 DEF TakeLeading, RowSize
  <2> QED  BY <2>2
<1> HIDE DEF row, M, n
<1>4. ASSUME NEW k \in 1..n
      PROVE  /\ s[k] \in Seq(Value) /\ Len(s[k]) = row
             /\ \A e \in 1..row : s[k][e] = a.data[at(k) * row + e]
  <2> DEFINE i == at(k)
  <2>1. idx[k] \in Int /\ InRange(idx[k], M)  BY <1>2
  <2>2. i \in 0..M - 1  BY <1>1, <2>1, AxisFits
  <2>3. s[k] = SubSeq(a.data, i * row + 1, (i + 1) * row)  BY <1>2
  <2> HIDE DEF i, s
  <2>4. i * row \in Nat /\ M * row \in Nat /\ i * row + row <= M * row  BY <1>1, <2>2, BlockFits
  <2>5. (i + 1) * row = i * row + row  BY <1>1, <2>2
  <2> DEFINE b == i * row
  <2>6. b \in Nat /\ b + row <= Len(a.data) /\ s[k] = SubSeq(a.data, b + 1, b + row)
    BY <1>1, <2>3, <2>4, <2>5
  <2> HIDE DEF b
  <2>7. s[k] \in Seq(Value) /\ Len(s[k]) = row /\ \A e \in 1..row : s[k][e] = a.data[b + e]
    BY <1>1, <2>6, BlockIs
  <2> QED  BY <2>7 DEF b, i
<1>5. s \in Seq(Seq(Value)) /\ Len(s) = n
  <2>1. s = [k \in 1..n |-> s[k]]  BY <1>2
  <2> HIDE DEF s
  <2>2. s \in [1..n -> Seq(Value)]  BY <1>4, <2>1
  <2> DEFINE V == Seq(Value)
  <2> HIDE DEF V
  <2>3. s \in [1..n -> V]  BY <2>2 DEF V
  <2>4. s \in Seq(V) /\ Len(s) = n  BY <1>2, <2>3
  <2> QED  BY <2>4 DEF V
<1> HIDE DEF s
<1>6. IsPieces(s, n, row, Value)  BY <1>1, <1>2, <1>4, <1>5 DEF IsPieces
<1>7. Joined(d, s, n, row, Value)  BY <1>6, FlattenIs
<1> HIDE DEF d
<1>8. d \in Seq(Value) /\ Len(d) = n * row /\ \A k \in 1..n, q \in 1..row : d[(k - 1) * row + q] = s[k][q]
  BY <1>7 DEF Joined
<1>9. \A k \in 1..n : \A e \in 1..row : d[(k - 1) * row + e] = a.data[at(k) * row + e]
  BY <1>4, <1>8
<1>10. Taken(a, idx, d)  BY <1>8, <1>9 DEF Taken, n, row, M
<1>11. TakeLeading(a, idx) = {Array(<<Len(idx)>> \o Tail(a.shape), d)}  BY <1>3 DEF n
<1> QED  BY <1>10, <1>11

\* Row r of an array.
LEMMA RowElement ==
  ASSUME NEW a, IsArray(a), a.shape # <<>>, NEW r \in 0..a.shape[1] - 1, NEW y \in Indices(Tail(a.shape))
  PROVE  IdealOf(a).at[<<r>> \o y] = a.data[r * RowSize(a) + (Position(Tail(a.shape), y) + 1)]
<1> DEFINE m == a.shape[1]
           rest == Tail(a.shape)
<1>1. <<m>> \o rest = a.shape /\ rest \in Seq(Nat) /\ m \in Nat /\ RowSize(a) = Product(rest) /\ RowSize(a) \in Nat
  BY RowsFit DEF RowSize
<1>2. r \in 0..m - 1 /\ y \in Indices(rest)  OBVIOUS
<1> HIDE DEF m, rest
<1> DEFINE j == <<r>> \o y
<1>3. /\ j \in Indices(<<m>> \o rest)
      /\ Position(<<m>> \o rest, j) = r * Product(rest) + Position(rest, y)
  BY <1>1, <1>2, LeadingRow DEF Position
<1> HIDE DEF j
<1>4. j \in Indices(a.shape) /\ Position(a.shape, j) = r * RowSize(a) + Position(rest, y)  BY <1>1, <1>3
<1>5. IdealOf(a).at[j] = a.data[Position(a.shape, j) + 1]  BY <1>4, IdealFacts
<1>6. Position(a.shape, j) + 1 = r * RowSize(a) + (Position(rest, y) + 1)
  <2> DEFINE b == r * RowSize(a)
  <2>1. b \in Int  BY <1>1, <1>2
  <2>2. Position(rest, y) \in Int  BY <1>1, <1>2, PlaceIs
  <2> HIDE DEF b
  <2>3. Position(a.shape, j) = b + Position(rest, y)  BY <1>4 DEF b
  <2>4. Position(a.shape, j) + 1 = b + (Position(rest, y) + 1)  BY <2>1, <2>2, <2>3
  <2> QED  BY <2>4 DEF b
<1> QED  BY <1>5, <1>6 DEF j, rest

-----------------------------------------------------------------------------
(* Integer keys.                                                           *)

\* What integers take of an array.
ListIdeal(a, idx) ==
  LET out == <<Len(idx)>> \o Tail(a.shape) IN
  Ideal(out, [i \in Indices(out) |->
    IdealOf(a).at[[k \in DOMAIN idx |-> <<Normalize(idx[k], a.shape[1])>>][i[1] + 1] \o Tail(i)]])
RowIdeal(a, idx) ==
  Ideal(Tail(a.shape), [i \in Indices(Tail(a.shape)) |->
    IdealOf(a).at[[k \in DOMAIN idx |-> <<Normalize(idx[k], a.shape[1])>>][1] \o i]])

LEMMA NumpyListIs ==
  ASSUME NEW a, IsArray(a), NEW key, key.kind \in {"int", "ints"}, key.items \in Seq(Int)
  PROVE  /\ ~Leads(a, key.items) => NumpyGet(IdealOf(a), key) = {}
         /\ Leads(a, key.items) /\ key.kind = "ints" => NumpyGet(IdealOf(a), key) = {ListIdeal(a, key.items)}
         /\ Leads(a, key.items) /\ key.kind = "int" => NumpyGet(IdealOf(a), key) = {RowIdeal(a, key.items)}
<1> DEFINE s == a.shape
           x == IdealOf(a)
           idx == key.items
           named == [k \in DOMAIN idx |-> <<Normalize(idx[k], s[1])>>]
           rest == SubSeq(s, 2, Len(s))
<1>1. s \in Seq(Nat) /\ x.shape = s  BY ArrayFacts, IdealFacts
<1>2. key.kind # "mask" /\ key.kind # "bools"  OBVIOUS
<1>3. KeyFits(s, key) <=> Leads(a, idx)  BY <1>2 DEF KeyFits, Leads
<1>4. Named(s, key) = named /\ NamedAxes(key) = 1
  <2>1. Named(s, key) = named  BY <1>2 DEF Named
  <2>2. NamedAxes(key) = 1  BY <1>2 DEF NamedAxes
  <2> QED  BY <2>1, <2>2
<1>5. Len(named) = Len(idx)
  <2>1. idx \in Seq(Int)  OBVIOUS
  <2> DEFINE n == Len(idx)
             T == {named[k] : k \in 1..n}
  <2>2. DOMAIN idx = 1..n /\ n \in Nat  BY <2>1
  <2>3. named \in [1..n -> T]  BY <2>2
  <2> HIDE DEF named, n, T
  <2>4. Len(named) = n  BY <2>2, <2>3
  <2> QED  BY <2>4 DEF n
<1> HIDE DEF named
<1>6. Leads(a, idx) => rest = Tail(s)  BY <1>1, LeadingOf DEF Leads
<1>7. NumpyGet(x, key) =
        IF ~KeyFits(s, key) THEN {}
        ELSE LET out == IF key.kind = "int" THEN rest ELSE <<Len(idx)>> \o rest IN
             {Ideal(out, [i \in Indices(out) |->
              IF key.kind = "int" THEN x.at[named[1] \o i] ELSE x.at[named[i[1] + 1] \o Tail(i)]])}
  <2> HIDE DEF x, s, idx
  <2>1. 1 + 1 = 2  OBVIOUS
  <2> QED  BY <1>1, <1>4, <1>5, <2>1 DEF NumpyGet, Ndim
<1>8. ~Leads(a, idx) => NumpyGet(x, key) = {}  BY <1>3, <1>7
<1>9. ASSUME Leads(a, idx), key.kind = "ints"
      PROVE  LET out == <<Len(idx)>> \o Tail(s) IN
             NumpyGet(x, key) = {Ideal(out, [i \in Indices(out) |-> x.at[named[i[1] + 1] \o Tail(i)]])}
  <2> HIDE DEF x, s, idx, rest
  <2> QED  BY <1>3, <1>6, <1>7, <1>9
<1>10. ASSUME Leads(a, idx), key.kind = "int"
       PROVE  NumpyGet(x, key) = {Ideal(Tail(s), [i \in Indices(Tail(s)) |-> x.at[named[1] \o i]])}
  <2> HIDE DEF x, s, idx, rest
  <2> QED  BY <1>3, <1>6, <1>7, <1>10
<1> QED  BY <1>8, <1>9, <1>10 DEF named, ListIdeal, RowIdeal

\* take_leading refuses what NumPy refuses.
LEMMA TakeRefuses ==
  ASSUME NEW a, NEW idx \in Seq(Int), ~Leads(a, idx)
  PROVE  TakeLeading(a, idx) = {}
BY DEF TakeLeading, Leads, Refuses

\* The result has rows too.
LEMMA TakenArray ==
  ASSUME NEW a, IsArray(a), NEW idx, Leads(a, idx), NEW d, Taken(a, idx, d)
  PROVE  IsArray(Array(<<Len(idx)>> \o Tail(a.shape), d))
<1> DEFINE n == Len(idx)
           rest == Tail(a.shape)
           out == <<n>> \o rest
<1>1. idx \in Seq(Int) /\ n \in Nat /\ a.shape # <<>>  BY DEF Leads
<1>2. rest \in Seq(Nat) /\ Len(rest) = Len(a.shape) - 1 /\ RowSize(a) = Product(rest)  BY <1>1, RowsFit DEF RowSize
<1>3. d \in Seq(Value) /\ Len(d) = n * RowSize(a)  BY DEF Taken
<1>4. a.shape \in Seq(Nat) /\ Len(a.shape) =< MAX_NDIM /\ MAX_NDIM \in Nat  BY ArrayFacts, KernelsAssumption
<1> HIDE DEF n, rest
<1>5. out \in Seq(Nat) /\ Len(out) = Len(rest) + 1 /\ Product(out) = n * Product(rest)
  BY <1>1, <1>2, LeadingAxis
<1> HIDE DEF out
<1>6. Len(out) =< MAX_NDIM  BY <1>2, <1>4, <1>5
<1>7. Len(d) = Product(out)  BY <1>2, <1>3, <1>5
<1>8. IsArray(Array(out, d))  BY <1>3, <1>5, <1>6, <1>7, ArrayMade
<1> QED  BY <1>8 DEF out, n, rest

\* Row k of what is taken is the row the k-th index names.
LEMMA TakenElement ==
  ASSUME NEW a, IsArray(a), NEW idx, Leads(a, idx), NEW d, Taken(a, idx, d),
         NEW v \in 0..Len(idx) - 1, NEW y \in Indices(Tail(a.shape))
  PROVE  d[v * RowSize(a) + Position(Tail(a.shape), y) + 1]
           = IdealOf(a).at[<<Normalize(idx[v + 1], a.shape[1])>> \o y]
<1> DEFINE n == Len(idx)
           rest == Tail(a.shape)
           m == a.shape[1]
           r == Normalize(idx[v + 1], m)
           e == Position(rest, y) + 1
           row == RowSize(a)
<1>1. idx \in Seq(Int) /\ n \in Nat /\ a.shape # <<>> /\ \A k \in DOMAIN idx : InRange(idx[k], m)  BY DEF Leads
<1>2. rest \in Seq(Nat) /\ row = Product(rest) /\ row \in Nat /\ m \in Nat  BY <1>1, RowsFit DEF RowSize
<1>3. v + 1 \in 1..n /\ (v + 1) - 1 = v /\ v \in Int  BY <1>1
<1>4. idx[v + 1] \in Int /\ InRange(idx[v + 1], m)  BY <1>1, <1>3
<1>5. r \in 0..m - 1
  <2> DEFINE j == idx[v + 1]
  <2> HIDE DEF j, m
  <2>1. j \in Int /\ InRange(j, m) /\ m \in Nat  BY <1>2, <1>4 DEF j
  <2>2. Normalize(j, m) \in 0..m - 1  BY <2>1, AxisFits
  <2> QED  BY <2>2 DEF j
<1>6. e \in 1..row /\ Position(rest, y) \in Int
  <2>1. y \in Indices(rest)  OBVIOUS
  <2> HIDE DEF rest, row
  <2> QED  BY <1>2, <2>1, PlaceIs
<1>7. IdealOf(a).at[<<r>> \o y] = a.data[r * row + e]
  <2> HIDE DEF r
  <2> QED  BY <1>1, <1>5, RowElement
<1>8. d[((v + 1) - 1) * row + e] = a.data[r * row + e]
  <2>1. \A k \in 1..n : \A q \in 1..row : d[(k - 1) * row + q] = a.data[Normalize(idx[k], m) * row + q]
    BY DEF Taken
  <2> HIDE DEF e, row, m, n
  <2> QED  BY <1>3, <1>6, <2>1
<1>9. ((v + 1) - 1) * row + e = v * row + Position(rest, y) + 1
  <2> DEFINE b == v * row
             P == Position(rest, y)
  <2>1. b \in Int /\ P \in Int  BY <1>2, <1>3, <1>6
  <2>2. ((v + 1) - 1) * row + e = b + (P + 1)  BY <1>3
  <2> HIDE DEF b, P
  <2>3. b + (P + 1) = b + P + 1  BY <2>1
  <2>4. ((v + 1) - 1) * row + e = b + P + 1  BY <2>2, <2>3
  <2> QED  BY <2>4 DEF b, P
<1> HIDE DEF e, row, rest, n
<1>10. d[v * row + Position(rest, y) + 1] = IdealOf(a).at[<<r>> \o y]  BY <1>7, <1>8, <1>9
<1> QED  BY <1>10 DEF row, rest, r, m

\* a[indices] is NumPy's.
LEMMA ListFaithful ==
  ASSUME NEW a, IsArray(a), NEW key, key.kind = "ints", key.items \in Seq(Int)
  PROVE  /\ Faithful(TakeLeading(a, key.items), NumpyGet(IdealOf(a), key))
         /\ TakeLeading(a, key.items) = {} => NumpyGet(IdealOf(a), key) = {}
<1> DEFINE idx == key.items
           x == IdealOf(a)
           n == Len(idx)
           m == a.shape[1]
           rest == Tail(a.shape)
           row == RowSize(a)
           out == <<n>> \o rest
           named == [k \in DOMAIN idx |-> <<Normalize(idx[k], m)>>]
           at == [i \in Indices(out) |-> x.at[named[i[1] + 1] \o Tail(i)]]
<1>1. CASE ~Leads(a, idx)
  <2>1. TakeLeading(a, idx) = {}  BY <1>1, TakeRefuses
  <2>2. NumpyGet(x, key) = {}  BY <1>1, NumpyListIs
  <2> QED  BY <2>1, <2>2 DEF Faithful
<1>2. CASE Leads(a, idx)
  <2>1. NumpyGet(x, key) = {Ideal(out, at)}
    <3>1. NumpyGet(x, key) = {ListIdeal(a, key.items)}  BY <1>2, NumpyListIs
    <3> QED  BY <3>1 DEF ListIdeal
  <2>2. PICK d : Taken(a, idx, d) /\ TakeLeading(a, idx) = {Array(out, d)}  BY <1>2, TakenIs
  <2>3. IsArray(Array(out, d))  BY <1>2, <2>2, TakenArray
  <2>4. a.shape # <<>> /\ n \in Nat /\ DOMAIN idx = 1..n  BY <1>2 DEF Leads
  <2>5. rest \in Seq(Nat) /\ row = Product(rest)  BY <2>4, RowsFit DEF RowSize
  <2>6. ASSUME NEW i \in Indices(out)  PROVE d[Position(out, i) + 1] = at[i]
    <3> DEFINE v == i[1]
               y == Tail(i)
    <3>1. v \in 0..n - 1 /\ y \in Indices(rest) /\ Position(out, i) = v * row + Position(rest, y)
      <4> HIDE DEF n, rest, row
      <4> QED  BY <2>4, <2>5, LeadingIndex DEF Position
    <3>2. at[i] = x.at[named[v + 1] \o y]  OBVIOUS
    <3> HIDE DEF v, y, at, out
    <3>3. named[v + 1] = <<Normalize(idx[v + 1], m)>>
      <4>1. v + 1 \in DOMAIN idx  BY <2>4, <3>1
      <4> QED  BY <4>1
    <3>4. d[v * row + Position(rest, y) + 1] = x.at[<<Normalize(idx[v + 1], m)>> \o y]
      BY <1>2, <2>2, <3>1, TakenElement
    <3> HIDE DEF named, row, rest, m, x
    <3> QED  BY <3>1, <3>2, <3>3, <3>4
  <2>7. at = [i \in Indices(out) |-> at[i]]  OBVIOUS
  <2> HIDE DEF at, out, x
  <2>8. IdealOf(Array(out, d)) = Ideal(out, at)  BY <2>6, <2>7, IdealIs
  <2>9. NumpyGet(x, key) = {IdealOf(Array(out, d))}  BY <2>1, <2>8
  <2>10. TakeLeading(a, key.items) = {Array(out, d)}  BY <2>2
  <2>11. Faithful(TakeLeading(a, key.items), NumpyGet(x, key))  BY <2>3, <2>9, <2>10 DEF Faithful
  <2> QED  BY <2>10, <2>11 DEF x
<1> QED  BY <1>1, <1>2

\* a[i] is NumPy's: a row without the axis of its own.
OneRow(a, idx) == {[r EXCEPT !.shape = Tail(r.shape)] : r \in TakeLeading(a, idx)}

LEMMA Reshaped ==
  ASSUME NEW p, NEW q, NEW d
  PROVE  [Array(p, d) EXCEPT !.shape = q] = Array(q, d)
BY DEF Array

LEMMA RowFaithful ==
  ASSUME NEW a, IsArray(a), NEW key, key.kind = "int", key.items \in Seq(Int), Len(key.items) = 1
  PROVE  /\ Faithful(OneRow(a, key.items), NumpyGet(IdealOf(a), key))
         /\ OneRow(a, key.items) = {} => NumpyGet(IdealOf(a), key) = {}
<1> DEFINE idx == key.items
           x == IdealOf(a)
           m == a.shape[1]
           rest == Tail(a.shape)
           row == RowSize(a)
           named == [k \in DOMAIN idx |-> <<Normalize(idx[k], m)>>]
           at == [i \in Indices(rest) |-> x.at[named[1] \o i]]
<1>1. CASE ~Leads(a, idx)
  <2>1. OneRow(a, idx) = {}  BY <1>1, TakeRefuses DEF OneRow
  <2>2. NumpyGet(x, key) = {}  BY <1>1, NumpyListIs
  <2> QED  BY <2>1, <2>2 DEF Faithful
<1>2. CASE Leads(a, idx)
  <2>1. NumpyGet(x, key) = {Ideal(rest, at)}
    <3>1. NumpyGet(x, key) = {RowIdeal(a, key.items)}  BY <1>2, NumpyListIs
    <3> QED  BY <3>1 DEF RowIdeal
  <2>2. PICK d : Taken(a, idx, d) /\ TakeLeading(a, idx) = {Array(<<1>> \o rest, d)}  BY <1>2, TakenIs
  <2>3. a.shape # <<>> /\ DOMAIN idx = 1..1  BY <1>2 DEF Leads
  <2>4. /\ rest \in Seq(Nat) /\ row = Product(rest) /\ row \in Nat
        /\ Len(rest) = Len(a.shape) - 1 /\ a.shape \in Seq(Nat) /\ Len(a.shape) =< MAX_NDIM
    BY <2>3, RowsFit, ArrayFacts DEF RowSize
  <2>5. d \in Seq(Value) /\ Len(d) = 1 * row  BY <2>2 DEF Taken
  <2>6. OneRow(a, idx) = {Array(rest, d)}
    <3>1. Tail(<<1>> \o rest) = rest
      <4> HIDE DEF rest
      <4>1. <<1>> \o rest \in Seq(Nat) /\ Len(<<1>> \o rest) = Len(rest) + 1
        BY <2>4
      <4>2. \A k \in 1..Len(rest) : (<<1>> \o rest)[k + 1] = rest[k]  BY <2>4, LeadingAxis
      <4> DEFINE z == <<1>> \o rest
                 t == Tail(z)
      <4> HIDE DEF z
      <4>3. z \in Seq(Nat) /\ Len(z) = Len(rest) + 1 /\ Len(rest) \in Nat /\ \A k \in 1..Len(rest) : z[k + 1] = rest[k]
        BY <2>4, <4>1, <4>2 DEF z
      <4>4. t \in Seq(Nat) /\ Len(t) = Len(rest) /\ \A k \in 1..Len(rest) : t[k] = rest[k]
        <5>1. z # <<>>  BY <4>3
        <5>2. Len(t) = Len(z) - 1 /\ t \in Seq(Nat)  BY <4>3, <5>1
        <5>3. \A k \in 1..Len(z) - 1 : t[k] = z[k + 1]  BY <4>3, <5>1
        <5> HIDE DEF t
        <5> QED  BY <4>3, <5>2, <5>3
      <4> HIDE DEF t
      <4>5. t = rest  BY <2>4, <4>4, SameSequence
      <4> QED  BY <4>5 DEF t, z
    <3> DEFINE r == Array(<<1>> \o rest, d)
               g == [r EXCEPT !.shape = Tail(r.shape)]
    <3>2. g = Array(rest, d)
      <4>1. r.shape = <<1>> \o rest  BY DEF Array
      <4> DEFINE q == Tail(r.shape)
                 p == <<1>> \o rest
      <4>2. g = Array(q, d)
        <5>1. g = [Array(p, d) EXCEPT !.shape = q]  OBVIOUS
        <5> HIDE DEF q, p, g
        <5> QED  BY <5>1, Reshaped
      <4> HIDE DEF r, g, rest
      <4> QED  BY <3>1, <4>1, <4>2
    <3>3. OneRow(a, idx) = {g}  BY <2>2 DEF OneRow
    <3> QED  BY <3>2, <3>3
  <2>7. IsArray(Array(rest, d))
    <3> HIDE DEF rest
    <3>1. MAX_NDIM \in Nat  BY KernelsAssumption
    <3>2. Len(rest) =< MAX_NDIM  BY <2>4, <3>1
    <3>3. Len(d) = Product(rest)
      <4>1. 1 * row = row  BY <2>4
      <4> QED  BY <2>4, <2>5, <4>1
    <3> QED  BY <2>4, <2>5, <3>2, <3>3, ArrayMade
  <2>8. ASSUME NEW y \in Indices(rest)  PROVE d[Position(rest, y) + 1] = at[y]
    <3>1. at[y] = x.at[named[1] \o y]  OBVIOUS
    <3>2. named[1] = <<Normalize(idx[1], m)>>
      <4>1. 1 \in DOMAIN idx  BY <2>3
      <4> QED  BY <4>1
    <3> DEFINE v == 0
    <3>3. v \in 0..Len(idx) - 1 /\ v + 1 = 1 /\ v * row + Position(rest, y) = Position(rest, y)
      <4>1. 0 * row = 0  BY <2>4
      <4>2. Position(rest, y) \in Int
        <5> HIDE DEF rest
        <5> QED  BY <2>4, PlaceIs
      <4> QED  BY <4>1, <4>2
    <3> HIDE DEF v, named, at
    <3>4. d[v * row + Position(rest, y) + 1] = x.at[<<Normalize(idx[v + 1], m)>> \o y]
      BY <1>2, <2>2, <3>3, TakenElement
    <3> HIDE DEF row, rest, m, x
    <3> QED  BY <3>1, <3>2, <3>3, <3>4
  <2>9. at = [i \in Indices(rest) |-> at[i]]  OBVIOUS
  <2> HIDE DEF at, rest, x
  <2>10. IdealOf(Array(rest, d)) = Ideal(rest, at)  BY <2>8, <2>9, IdealIs
  <2>11. NumpyGet(x, key) = {IdealOf(Array(rest, d))}  BY <2>1, <2>10
  <2>12. OneRow(a, key.items) = {Array(rest, d)}  BY <2>6
  <2>13. Faithful(OneRow(a, key.items), NumpyGet(x, key))  BY <2>7, <2>11, <2>12 DEF Faithful
  <2> QED  BY <2>12, <2>13 DEF x
<1> QED  BY <1>1, <1>2

-----------------------------------------------------------------------------
(* Assigning to elements, and filters.                                     *)

\* What NumPy makes of x[key] = v.
SetAt(a, key, v) ==
  [i \in Indices(a.shape) |->
     IF SubSeq(i, 1, NamedAxes(key)) \in ToSet(Named(a.shape, key)) THEN v ELSE IdealOf(a).at[i]]

LEMMA NumpySetIs ==
  ASSUME NEW a, NEW key, NEW v
  PROVE  NumpySet(IdealOf(a), key, v) = IF KeyFits(a.shape, key) THEN {Ideal(a.shape, SetAt(a, key, v))} ELSE {}
<1> DEFINE x == IdealOf(a)
           g == SetAt(a, key, v)
<1>1. x.shape = a.shape /\ DOMAIN x.at = Indices(a.shape)  BY IdealFacts
<1>2. [x EXCEPT !.at = g] = Ideal(a.shape, g)
  <2> DEFINE at == [i \in Indices(a.shape) |-> a.data[Position(a.shape, i) + 1]]
             s == a.shape
  <2>1. x = Ideal(s, at)  BY DEF IdealOf
  <2> HIDE DEF at, g, s, x
  <2>2. [Ideal(s, at) EXCEPT !.at = g] = Ideal(s, g)  BY DEF Ideal
  <2> QED  BY <2>1, <2>2 DEF s
<1>3. NumpySet(x, key, v) = IF ~KeyFits(a.shape, key) THEN {} ELSE {[x EXCEPT !.at = g]}
  <2> HIDE DEF x
  <2> QED  BY <1>1 DEF NumpySet, SetAt, x
<1> QED  BY <1>2, <1>3

\* On NumPy's view.
LEMMA SetFaithful ==
  ASSUME NEW a, IsArray(a), NEW key, NEW v \in Value
  PROVE  Faithful(FromNumpy(NumpySet(IdealOf(a), key, v)), NumpySet(IdealOf(a), key, v))
<1> DEFINE s == a.shape
           g == SetAt(a, key, v)
<1>1. CASE ~KeyFits(s, key)
  <2>1. NumpySet(IdealOf(a), key, v) = {}  BY <1>1, NumpySetIs
  <2> QED  BY <2>1 DEF Faithful, FromNumpy
<1>2. CASE KeyFits(s, key)
  <2>1. NumpySet(IdealOf(a), key, v) = {Ideal(s, g)}  BY <1>2, NumpySetIs
  <2>2. \A i \in Indices(s) : IdealOf(a).at[i] \in Value
    <3>1. \A i \in Indices(s) : IdealOf(a).at[i] = a.data[Position(s, i) + 1]  BY IdealFacts
    <3>2. \A i \in Indices(s) : a.data[Position(s, i) + 1] \in Value  BY ArrayFacts
    <3> QED  BY <3>1, <3>2
  <2>3. g \in [Indices(s) -> Value]  BY <2>2 DEF SetAt
  <2>4. s \in Seq(Nat) /\ Len(s) =< MAX_NDIM  BY ArrayFacts
  <2> HIDE DEF s, g
  <2>5. Faithful(FromNumpy({Ideal(s, g)}), {Ideal(s, g)})  BY <2>3, <2>4, FromNumpyIs
  <2> QED  BY <2>1, <2>5
<1> QED  BY <1>1, <1>2

LEMMA WholePart ==
  ASSUME NEW i \in Seq(Nat), Len(i) = 1
  PROVE  SubSeq(i, 1, 1) = i
<1> DEFINE zero == 0
           p == SubSeq(i, zero + 1, Len(i))
<1>1. zero \in 0..Len(i) /\ zero = 0  OBVIOUS
<1> HIDE DEF zero
<1>2. p \in Seq(Nat) /\ Len(p) = Len(i) - zero /\ \A k \in 1..Len(i) - zero : p[k] = i[zero + k]
  BY <1>1, Halves
<1>3. p \in Seq(Nat) /\ Len(p) = 1 /\ p[1] = i[1]
  <2> HIDE DEF p
  <2>1. 1 \in 1..Len(i) - zero /\ zero + 1 = 1 /\ Len(i) - zero = 1  BY <1>1
  <2>2. p[1] = i[zero + 1]  BY <1>2, <2>1
  <2> QED  BY <1>2, <2>1, <2>2
<1>4. p = SubSeq(i, 1, 1)  BY <1>1
<1> HIDE DEF p
<1>5. p = i  BY <1>3, SameSequence
<1> QED  BY <1>4, <1>5

\* Natively, for one element of a 1-d array.
PutAt(a, key, v) ==
  {[a EXCEPT !.data[Normalize(i, a.shape[1]) + 1] = v] :
     i \in {j \in ToSet(key.items) : InRange(j, a.shape[1])}}

LEMMA PutFaithful ==
  ASSUME NEW a, IsArray(a), Ndim(a.shape) = 1, NEW key, key.kind = "int", key.items \in Seq(Int),
         Len(key.items) = 1, NEW v \in Value
  PROVE  /\ Faithful(PutAt(a, key, v), NumpySet(IdealOf(a), key, v))
         /\ PutAt(a, key, v) = {} => NumpySet(IdealOf(a), key, v) = {}
<1> DEFINE s == a.shape
           M == s[1]
           idx == key.items
           j == idx[1]
           g == SetAt(a, key, v)
<1>1. s \in Seq(Nat) /\ Len(s) = 1 /\ a.data \in Seq(Value) /\ Len(a.data) = Product(s) /\ a = Array(s, a.data)
  BY ArrayFacts DEF Ndim
<1>2. s = <<M>> /\ M \in Nat /\ s # <<>>  BY <1>1
<1>3. Product(s) = M /\ \A i \in Indices(s) : i[1] \in 0..M - 1 /\ i = <<i[1]>> /\ Position(s, i) = i[1]
  <2> DEFINE m == M
  <2> HIDE DEF m
  <2>1. Product(<<m>>) = m  BY <1>2, OneAxis DEF m
  <2>2. \A i \in Indices(<<m>>) : i[1] \in 0..m - 1 /\ i = <<i[1]>> /\ Position(<<m>>, i) = i[1]
    BY <1>2, OneAxis DEF m
  <2>3. s = <<m>>  BY <1>2 DEF m
  <2> HIDE DEF s
  <2> QED  BY <2>1, <2>2, <2>3 DEF m
<1>4. j \in Int /\ ToSet(idx) = {j} /\ DOMAIN idx = 1..1
  <2>1. idx \in Seq(Int) /\ Len(idx) = 1  OBVIOUS
  <2> HIDE DEF idx
  <2>2. DOMAIN idx = {1}  BY <2>1
  <2> QED  BY <2>1, <2>2 DEF ToSet
<1>5. KeyFits(s, key) <=> InRange(j, M)
  <2>1. KeyFits(s, key) <=> s # <<>> /\ \A k \in DOMAIN idx : InRange(idx[k], s[1])  BY DEF KeyFits
  <2> HIDE DEF s, idx
  <2> QED  BY <1>2, <1>4, <2>1
<1>6. CASE ~InRange(j, M)
  <2>1. PutAt(a, key, v) = {}  BY <1>4, <1>6 DEF PutAt
  <2>2. NumpySet(IdealOf(a), key, v) = {}  BY <1>5, <1>6, NumpySetIs
  <2> QED  BY <2>1, <2>2 DEF Faithful
<1>7. CASE InRange(j, M)
  <2> DEFINE r == Normalize(j, M)
             d == [a.data EXCEPT ![r + 1] = v]
  <2>1. r \in 0..M - 1 /\ r + 1 \in 1..M
    <3> HIDE DEF j, M
    <3> QED  BY <1>2, <1>4, <1>7, AxisFits
  <2>2. PutAt(a, key, v) = {Array(s, d)}
    <3>1. PutAt(a, key, v) = {[a EXCEPT !.data[r + 1] = v]}  BY <1>4, <1>7 DEF PutAt
    <3>2. [a EXCEPT !.data[r + 1] = v] = Array(s, d)
      <4> DEFINE q == r + 1
                 data == a.data
      <4> HIDE DEF q
      <4>1. a = [shape |-> s, data |-> data]  BY <1>1 DEF Array
      <4> HIDE DEF s, data
      <4>2. [[shape |-> s, data |-> data] EXCEPT !.data[q] = v] = [shape |-> s, data |-> [data EXCEPT ![q] = v]]
        OBVIOUS
      <4>3. [a EXCEPT !.data[q] = v] = [shape |-> s, data |-> [data EXCEPT ![q] = v]]  BY <4>1, <4>2
      <4> QED  BY <4>3 DEF Array, q, s, data
    <3> QED  BY <3>1, <3>2
  <2>3. d \in Seq(Value) /\ Len(d) = Product(s) /\ \A k \in 1..M : d[k] = IF k = r + 1 THEN v ELSE a.data[k]
    <3> DEFINE q == r + 1
               data == a.data
    <3>1. data \in Seq(Value) /\ Len(data) = M /\ q \in 1..M /\ M \in Nat  BY <1>1, <1>2, <1>3, <2>1
    <3> HIDE DEF q, data, M
    <3>2. [data EXCEPT ![q] = v] \in Seq(Value) /\ Len([data EXCEPT ![q] = v]) = M
      BY <3>1
    <3>3. \A k \in 1..M : [data EXCEPT ![q] = v][k] = IF k = q THEN v ELSE data[k]  BY <3>1
    <3>4. d = [data EXCEPT ![q] = v]  BY DEF q, data
    <3> QED  BY <1>3, <3>2, <3>3, <3>4 DEF q, data
  <2>4. Named(s, key) = <<<<r>>>> /\ NamedAxes(key) = 1
    <3>1. Named(s, key) = [k \in DOMAIN idx |-> <<Normalize(idx[k], s[1])>>]  BY DEF Named
    <3>2. NamedAxes(key) = 1  BY DEF NamedAxes
    <3>3. [k \in 1..1 |-> <<Normalize(idx[k], s[1])>>] = <<<<r>>>>
      <4>1. \A k \in 1..1 : k = 1  OBVIOUS
      <4> HIDE DEF idx, s
      <4>2. [k \in 1..1 |-> <<Normalize(idx[k], s[1])>>] = [k \in 1..1 |-> <<r>>]  BY <4>1
      <4> HIDE DEF r
      <4>3. [k \in 1..1 |-> <<r>>] = <<<<r>>>>  OBVIOUS
      <4> QED  BY <4>2, <4>3
    <3> HIDE DEF idx
    <3> QED  BY <1>4, <3>1, <3>2, <3>3
  <2>5. ToSet(<<<<r>>>>) = {<<r>>}
    <3> DEFINE z == <<r>>
    <3> HIDE DEF z
    <3>1. ToSet(<<z>>) = {z}  BY DEF ToSet
    <3> QED  BY <3>1 DEF z
  <2>6. ASSUME NEW i \in Indices(s)  PROVE d[Position(s, i) + 1] = g[i]
    <3>1. i[1] \in 0..M - 1 /\ i = <<i[1]>> /\ Position(s, i) = i[1]  BY <1>3
    <3> DEFINE u == i[1]
    <3>2. SubSeq(i, 1, 1) = i
      <4>1. i \in Seq(Nat) /\ Len(i) = 1  BY <1>1, IndexTypes
      <4> QED  BY <4>1, WholePart
    <3>3. g[i] = IF i = <<r>> THEN v ELSE IdealOf(a).at[i]
      <4>1. g[i] = IF SubSeq(i, 1, NamedAxes(key)) \in ToSet(Named(s, key)) THEN v ELSE IdealOf(a).at[i]
        BY DEF SetAt
      <4> HIDE DEF g, r, s
      <4> QED  BY <2>4, <2>5, <3>2, <4>1
    <3>4. IdealOf(a).at[i] = a.data[u + 1]  BY <3>1, IdealFacts
    <3> HIDE DEF u, g, r, d, s
    <3>5. i = <<u>> /\ u \in 0..M - 1 /\ Position(s, i) = u  BY <3>1 DEF u
    <3>6. i = <<r>> <=> u = r
      <4>1. <<u>>[1] = u /\ <<r>>[1] = r  OBVIOUS
      <4> QED  BY <3>5, <4>1
    <3>7. u + 1 \in 1..M /\ (u + 1 = r + 1 <=> u = r)
      <4> HIDE DEF M
      <4> QED  BY <1>2, <2>1, <3>5
    <3>8. d[u + 1] = IF u = r THEN v ELSE a.data[u + 1]  BY <2>3, <3>7
    <3> QED  BY <3>3, <3>4, <3>5, <3>6, <3>8
  <2>7. g = [i \in Indices(s) |-> g[i]]  BY DEF SetAt
  <2>8. NumpySet(IdealOf(a), key, v) = {Ideal(s, g)}  BY <1>5, <1>7, NumpySetIs
  <2> HIDE DEF g, d, s
  <2>9. IdealOf(Array(s, d)) = Ideal(s, g)  BY <2>6, <2>7, IdealIs
  <2>10. IsArray(Array(s, d))
    <3>1. Len(s) =< MAX_NDIM  BY <1>1, KernelsAssumption
    <3> QED  BY <1>1, <2>3, <3>1, ArrayMade
  <2>11. Faithful(PutAt(a, key, v), NumpySet(IdealOf(a), key, v))  BY <2>2, <2>8, <2>9, <2>10 DEF Faithful
  <2> QED  BY <2>2, <2>11
<1> QED  BY <1>6, <1>7

\* a[a < b], for equal shapes.
LEMMA FilterFaithful ==
  ASSUME NEW a, IsArray(a), NEW b, IsArray(b), a.shape = b.shape
  PROVE  /\ Faithful(CompressFlat(a, Compare(a, b)), NumpyFilter(IdealOf(a), IdealOf(b)))
         /\ CompressFlat(a, Compare(a, b)) # {}
<1> DEFINE key == MaskKey(Compare(a, b))
<1>1. key.kind = "mask" /\ key.mask = Compare(a, b)  BY DEF MaskKey
<1>2. Compare(a, b).shape = a.shape  BY DEF Compare, Array
<1>3. NumpyFilter(IdealOf(a), IdealOf(b)) = NumpyGet(IdealOf(a), key)
  <2>1. IdealOf(a).shape = a.shape /\ IdealOf(b).shape = b.shape  BY IdealFacts
  <2>2. Flat(IdealOf(a)) = a.data /\ Flat(IdealOf(b)) = b.data  BY FlatIdeal
  <2>3. DOMAIN a.data = 1..Product(a.shape)  BY ArrayFacts
  <2>4. Array(a.shape, [k \in 1..Product(a.shape) |-> Less(a.data[k], b.data[k])]) = Compare(a, b)
    BY <2>3 DEF Compare
  <2> HIDE DEF key
  <2> QED  BY <2>1, <2>2, <2>4 DEF NumpyFilter, key
<1> HIDE DEF key
<1>4. /\ Faithful(CompressFlat(a, key.mask), NumpyGet(IdealOf(a), key))
      /\ CompressFlat(a, key.mask) # {}
  BY <1>1, <1>2, CompressFaithful
<1> QED  BY <1>1, <1>3, <1>4

LEMMA FilterRefuses ==
  ASSUME NEW a, NEW b, a.shape # b.shape
  PROVE  NumpyFilter(IdealOf(a), IdealOf(b)) = {} /\ FromNumpy({}) = {}
BY IdealFacts DEF NumpyFilter, FromNumpy

-----------------------------------------------------------------------------
(* arange.                                                                 *)

\* No difference of two bounds is wrapped.
BoundsApart ==
  \A p \in Bounds : p \in -Half..Half - 1 /\ \A q \in Bounds : p - q \in -Half..Half - 1

LEMMA WrapIs ==
  ASSUME NEW i \in Int
  PROVE  Wrap(i) \in Int /\ (i \in -Half..Half - 1 => Wrap(i) = i)
<1> DEFINE w == 2 * Half
           z == i + Half
<1>1. w \in Nat \ {0} /\ Half \in Nat /\ z \in Int /\ Wrap(i) = (z % w) - Half  BY KernelsAssumption DEF Wrap
<1>2. /\ z % w \in 0..w - 1
      /\ \A q \in Int, r \in 0..w - 1 : z = q * w + r => (q = z \div w /\ r = z % w)
  BY <1>1, DivMod
<1>3. ASSUME i \in -Half..Half - 1  PROVE Wrap(i) = i
  <2>1. z \in 0..w - 1  BY <1>1, <1>3
  <2>2. z = 0 * w + z  BY <1>1
  <2> HIDE DEF w
  <2>3. z = z % w  BY <1>2, <2>1, <2>2
  <2> QED  BY <1>1, <2>3
<1>4. Wrap(i) \in Int
  <2> HIDE DEF w, z
  <2> QED  BY <1>1, <1>2
<1> QED  BY <1>3, <1>4

\* A distance rounded up to whole steps.
LEMMA WholeSteps ==
  ASSUME NEW D \in Nat \ {0}, NEW w \in Nat \ {0}
  PROVE  /\ CeilDiv(D, w) \in Nat \ {0} /\ CeilDiv(D, w) <= D
         /\ \A k \in Nat : k <= CeilDiv(D, w) <=> (k - 1) * w < D
<1> DEFINE x == D + w - 1
           n == CeilDiv(D, w)
           r == x % w
           y == n * w
<1>1. x \in Int /\ n = x \div w  BY DEF CeilDiv
<1>2. n \in Int /\ r \in 0..w - 1 /\ x = y + r
  <2> HIDE DEF x, n
  <2>1. x \div w \in Int /\ x % w \in 0..w - 1 /\ x = (x \div w) * w + (x % w)  BY <1>1, DivMod
  <2> QED  BY <1>1, <2>1
<1>3. y \in Int  BY <1>2
<1>4. y = D + w - 1 - r
  <2> HIDE DEF y, r, n
  <2> QED  BY <1>2, <1>3
<1> HIDE DEF x, n, r
<1>5. ASSUME NEW k \in Int  PROVE k <= n <=> (k - 1) * w < D
  <2> DEFINE b == (k - 1) * w
  <2>1. k - 1 \in Int /\ b \in Int  OBVIOUS
  <2>2. CASE k <= n
    <3>1. n > k - 1  BY <1>2, <2>2
    <3>2. y >= b + w  BY <1>2, <2>1, <3>1, Multiples
    <3> HIDE DEF b, y
    <3> QED  BY <1>2, <1>3, <1>4, <2>1, <2>2, <3>2 DEF b
  <2>3. CASE k - 1 = n
    <3>1. b = y  BY <2>3
    <3> HIDE DEF b, y
    <3>2. ~(b < D)  BY <1>2, <1>3, <1>4, <3>1
    <3> QED  BY <1>2, <2>3, <3>2 DEF b
  <2>4. CASE k - 1 > n
    <3>1. b >= y + w  BY <1>2, <2>1, <2>4, Multiples
    <3> HIDE DEF b, y
    <3>2. ~(b < D)  BY <1>2, <1>3, <1>4, <2>1, <3>1
    <3> QED  BY <1>2, <2>4, <3>2 DEF b
  <2>5. k <= n \/ k - 1 = n \/ k - 1 > n  BY <1>2
  <2> QED  BY <2>2, <2>3, <2>4, <2>5
<1>6. n >= 1
  <2>1. 1 <= n <=> (1 - 1) * w < D  BY <1>5
  <2>2. (1 - 1) * w = 0  OBVIOUS
  <2> QED  BY <1>2, <2>1, <2>2
<1>7. n <= D
  <2>1. D + 1 <= n <=> ((D + 1) - 1) * w < D  BY <1>5
  <2>2. ((D + 1) - 1) * w = w * D  OBVIOUS
  <2>3. w * D >= 0 * D + D  BY Multiples
  <2>4. 0 * D = 0  OBVIOUS
  <2> DEFINE c == w * D
  <2>5. c \in Int /\ c >= D  BY <2>3, <2>4
  <2> HIDE DEF c
  <2>6. ~(D + 1 <= n)  BY <2>1, <2>2, <2>5 DEF c
  <2> QED  BY <1>2, <2>6
<1>8. \A k \in Nat : k <= n <=> (k - 1) * w < D  BY <1>5
<1>9. n \in Nat \ {0}  BY <1>2, <1>6
<1> QED  BY <1>7, <1>8, <1>9 DEF n

\* The number of steps is that of the numbers NumPy counts.
Inside(start, stop, step, k) ==
  IF step > 0 THEN start + (k - 1) * step < stop ELSE start + (k - 1) * step > stop
Steps(start, stop, step) ==
  IF (step > 0 /\ stop > start) \/ (step < 0 /\ stop < start)
  THEN CeilDiv(Abs(Wrap(stop - start)), Abs(step)) ELSE 0

LEMMA StepsAre ==
  ASSUME NEW start \in Int, NEW stop \in Int, NEW step \in Int \ {0},
         start \in -Half..Half - 1, stop \in -Half..Half - 1,
         stop - start \in -Half..Half - 1, start - stop \in -Half..Half - 1
  PROVE  /\ Steps(start, stop, step) \in 0..2 * Half
         /\ \A k \in Nat \ {0} : k <= Steps(start, stop, step) <=> Inside(start, stop, step, k)
         /\ \A k \in Nat \ {0} : k <= Steps(start, stop, step) =>
              Wrap(start + Wrap((k - 1) * step)) = start + (k - 1) * step
<1> DEFINE w == IF step > 0 THEN step ELSE -step
           D == IF step > 0 THEN stop - start ELSE start - stop
           n == Steps(start, stop, step)
<1>1. w \in Nat \ {0} /\ D \in Int /\ Half \in Nat \ {0}  BY KernelsAssumption
<1>2. D <= Half - 1  BY <1>1
<1>3. ASSUME NEW k \in Nat \ {0}
      PROVE  /\ (k - 1) * w \in Nat
             /\ (k - 1) * step = IF step > 0 THEN (k - 1) * w ELSE -((k - 1) * w)
             /\ Inside(start, stop, step, k) <=> (k - 1) * w < D
  <2> DEFINE b == (k - 1) * w
  <2>1. b \in Nat
    <3>1. \A p, q \in Nat : p * q \in Nat  OBVIOUS
    <3>2. k - 1 \in Nat /\ w \in Nat  BY <1>1
    <3> HIDE DEF w
    <3> QED  BY <3>1, <3>2
  <2>2. (k - 1) * step = IF step > 0 THEN b ELSE -b
    <3>1. CASE step > 0  BY <3>1
    <3>2. CASE ~(step > 0)
      <4>1. w = -step  BY <3>2
      <4>2. (k - 1) * (-step) = -((k - 1) * step)  OBVIOUS
      <4>3. (k - 1) * step \in Int  OBVIOUS
      <4> DEFINE c == (k - 1) * step
      <4> HIDE DEF c, w
      <4>4. b = -c /\ c \in Int  BY <4>1, <4>2, <4>3 DEF c
      <4> HIDE DEF b
      <4>5. c = -b  BY <4>4
      <4> QED  BY <3>2, <4>5 DEF c
    <3> QED  BY <3>1, <3>2
  <2>3. Inside(start, stop, step, k) <=> b < D
    <3> DEFINE c == (k - 1) * step
    <3>1. c = IF step > 0 THEN b ELSE -b  BY <2>2
    <3>2. Inside(start, stop, step, k) <=> IF step > 0 THEN start + c < stop ELSE start + c > stop
      BY DEF Inside
    <3> HIDE DEF b, c
    <3> QED  BY <2>1, <3>1, <3>2
  <2> QED  BY <2>1, <2>2, <2>3
<1>4. CASE D <= 0
  <2>1. ~((step > 0 /\ stop > start) \/ (step < 0 /\ stop < start))  BY <1>4
  <2>2. n = 0  BY <2>1 DEF Steps
  <2>3. \A k \in Nat \ {0} : ~Inside(start, stop, step, k)
    <3> SUFFICES ASSUME NEW k \in Nat \ {0}  PROVE ~Inside(start, stop, step, k)
      OBVIOUS
    <3> DEFINE b == (k - 1) * w
    <3>1. b \in Nat /\ (Inside(start, stop, step, k) <=> b < D)  BY <1>3
    <3> HIDE DEF b, D
    <3> QED  BY <1>1, <1>4, <3>1
  <2> HIDE DEF n
  <2>4. \A k \in Nat \ {0} : ~(k <= n)  BY <2>2
  <2>5. n \in 0..2 * Half  BY <1>1, <2>2
  <2> QED  BY <2>3, <2>4, <2>5 DEF n
<1>5. CASE D > 0
  <2>1. (step > 0 /\ stop > start) \/ (step < 0 /\ stop < start)  BY <1>5
  <2>2. Wrap(stop - start) = stop - start  BY WrapIs
  <2>3. Abs(Wrap(stop - start)) = D /\ Abs(step) = w  BY <2>1, <2>2 DEF Abs
  <2>4. n = CeilDiv(D, w)
    <3> HIDE DEF D, w
    <3> QED  BY <2>1, <2>3 DEF Steps
  <2>5. D \in Nat \ {0}  BY <1>1, <1>5
  <2> HIDE DEF n, w, D
  <2>6. n \in Nat \ {0} /\ n <= D /\ \A k \in Nat : k <= n <=> (k - 1) * w < D
    BY <1>1, <2>4, <2>5, WholeSteps
  <2>7. n \in 0..2 * Half  BY <1>1, <1>2, <2>5, <2>6
  <2>8. ASSUME NEW k \in Nat \ {0}, k <= n
        PROVE  Wrap(start + Wrap((k - 1) * step)) = start + (k - 1) * step
    <3> DEFINE b == (k - 1) * w
               c == (k - 1) * step
    <3>1. b \in Nat /\ c = IF step > 0 THEN b ELSE -b  BY <1>3
    <3>2. b < D
      <4>1. k \in Nat  OBVIOUS
      <4> QED  BY <2>6, <2>8, <4>1
    <3> HIDE DEF b, c
    <3>3. c \in -Half..Half - 1  BY <1>1, <1>2, <2>5, <3>1, <3>2
    <3>4. start + c \in -Half..Half - 1  BY <1>1, <2>5, <3>1, <3>2 DEF D
    <3>5. Wrap(c) = c  BY <3>3, WrapIs
    <3>6. Wrap(start + c) = start + c  BY <3>4, WrapIs
    <3>7. Wrap(start + Wrap(c)) = start + c  BY <3>5, <3>6
    <3> QED  BY <3>7 DEF c
  <2>9. \A k \in Nat \ {0} : k <= n <=> Inside(start, stop, step, k)
    <3> SUFFICES ASSUME NEW k \in Nat \ {0}  PROVE k <= n <=> Inside(start, stop, step, k)
      OBVIOUS
    <3>1. k \in Nat /\ (Inside(start, stop, step, k) <=> (k - 1) * w < D)  BY <1>3
    <3> QED  BY <2>6, <3>1
  <2> QED  BY <2>7, <2>8, <2>9 DEF n
<1> QED  BY <1>1, <1>4, <1>5

\* arange is NumPy's while nothing wraps.
LEMMA ArangeFaithful ==
  ASSUME NEW start \in Int, NEW stop \in Int, NEW step \in Int,
         start \in -Half..Half - 1, stop \in -Half..Half - 1,
         stop - start \in -Half..Half - 1, start - stop \in -Half..Half - 1
  PROVE  /\ Faithful(Arange(start, stop, step), NumpyArange(start, stop, step))
         /\ Arange(start, stop, step) = {} => NumpyArange(start, stop, step) = {}
<1> DEFINE n == Steps(start, stop, step)
           from(k) == start + (k - 1) * step
           d == [k \in 1..n |-> Wrap(start + Wrap((k - 1) * step))]
           at == [i \in Indices(<<n>>) |-> from(i[1] + 1)]
<1>1. CASE step = 0
  <2>1. Arange(start, stop, step) = {} /\ NumpyArange(start, stop, step) = {}
    BY <1>1 DEF Arange, NumpyArange, Refuses
  <2> QED  BY <2>1 DEF Faithful
<1>2. CASE step # 0
  <2>1. /\ n \in 0..2 * Half
        /\ (\A k \in Nat \ {0} : k <= n <=> Inside(start, stop, step, k))
        /\ \A k \in Nat \ {0} : k <= n => Wrap(start + Wrap((k - 1) * step)) = from(k)
    <3>1. step \in Int \ {0}  BY <1>2
    <3> QED  BY <3>1, StepsAre
  <2>2. Arange(start, stop, step) = {Array(<<n>>, d)}
    BY <1>2 DEF Arange, Steps
  <2>3. {k \in 1..2 * Half : Inside(start, stop, step, k)} = 1..n
    <3> HIDE DEF n
    <3>1. Half \in Nat  BY KernelsAssumption
    <3> QED  BY <2>1, <3>1
  <2>4. Cardinality(1..n) = n
    <3> HIDE DEF n
    <3>1. n \in Int /\ n \in Nat  BY <2>1, KernelsAssumption
    <3>2. Cardinality(1..n) = IF 1 > n THEN 0 ELSE n - 1 + 1  BY <3>1, FS_Interval
    <3> QED  BY <3>1, <3>2
  <2>5. NumpyArange(start, stop, step) = {Ideal(<<n>>, at)}
    <3>1. {k \in 1..2 * Half : IF step > 0 THEN from(k) < stop ELSE from(k) > stop} = 1..n
      BY <2>3 DEF Inside
    <3> HIDE DEF n
    <3> QED  BY <1>2, <2>4, <3>1 DEF NumpyArange
  <2> HIDE DEF n
  <2>6. n \in Nat  BY <2>1, KernelsAssumption
  <2>7. \A k \in 1..n : d[k] = from(k) /\ d[k] \in Value
    <3> SUFFICES ASSUME NEW k \in 1..n  PROVE d[k] = from(k) /\ d[k] \in Value
      OBVIOUS
    <3>1. k \in Nat \ {0} /\ k <= n /\ k \in Int  BY <2>6
    <3>2. d[k] = Wrap(start + Wrap((k - 1) * step))  OBVIOUS
    <3>3. from(k) \in Int  BY <3>1
    <3>4. Wrap(start + Wrap((k - 1) * step)) = from(k)  BY <2>1, <3>1
    <3> HIDE DEF d, from
    <3>5. d[k] = from(k)  BY <3>2, <3>4
    <3> QED  BY <3>3, <3>5 DEF Value
  <2>8. d \in Seq(Value) /\ Len(d) = n
    <3>1. d = [k \in 1..n |-> d[k]]  OBVIOUS
    <3> HIDE DEF d
    <3>2. d \in [1..n -> Value]  BY <2>7, <3>1
    <3> QED  BY <2>6, <3>2
  <2> HIDE DEF d, from
  <2>9. IsArray(Array(<<n>>, d)) /\ IdealOf(Array(<<n>>, d)) = Ideal(<<n>>, [i \in Indices(<<n>>) |-> d[i[1] + 1]])
    BY <2>6, <2>8, OneAxisIdeal
  <2>10. [i \in Indices(<<n>>) |-> d[i[1] + 1]] = at
    <3>1. \A i \in Indices(<<n>>) : i[1] \in 0..n - 1  BY <2>6, OneAxis
    <3>2. \A i \in Indices(<<n>>) : i[1] + 1 \in 1..n  BY <2>6, <3>1
    <3>3. \A i \in Indices(<<n>>) : d[i[1] + 1] = from(i[1] + 1)  BY <2>7, <3>2
    <3> QED  BY <3>3
  <2> HIDE DEF at
  <2>11. NumpyArange(start, stop, step) = {IdealOf(Array(<<n>>, d))}  BY <2>5, <2>9, <2>10
  <2>12. Faithful(Arange(start, stop, step), NumpyArange(start, stop, step))
    BY <2>2, <2>9, <2>11 DEF Faithful
  <2> QED  BY <2>2, <2>12
<1> QED  BY <1>1, <1>2

\* It makes arrays in any case.
LEMMA ArangeArrays ==
  ASSUME NEW start \in Int, NEW stop \in Int, NEW step \in Int
  PROVE  /\ \A r \in Arange(start, stop, step) : IsArray(r)
         /\ Arange(start, stop, step) = {} => NumpyArange(start, stop, step) = {}
         /\ NumpyArange(start, stop, step) = {} => Arange(start, stop, step) = {}
<1> DEFINE n == Steps(start, stop, step)
           d == [k \in 1..n |-> Wrap(start + Wrap((k - 1) * step))]
<1>1. CASE step = 0
  <2>1. Arange(start, stop, step) = {} /\ NumpyArange(start, stop, step) = {}
    BY <1>1 DEF Arange, NumpyArange, Refuses
  <2> QED  BY <2>1
<1>2. CASE step # 0
  <2>1. Arange(start, stop, step) = {Array(<<n>>, d)}  BY <1>2 DEF Arange, Steps
  <2>2. n \in Nat
    <3> DEFINE ahead == (step > 0 /\ stop > start) \/ (step < 0 /\ stop < start)
               D == Abs(Wrap(stop - start))
               w == Abs(step)
    <3>1. w \in Nat \ {0}  BY <1>2 DEF Abs
    <3>2. D \in Nat
      <4>1. Wrap(stop - start) \in Int  BY WrapIs
      <4> QED  BY <4>1 DEF Abs
    <3>3. n = IF ahead THEN CeilDiv(D, w) ELSE 0  BY DEF Steps
    <3> HIDE DEF ahead, D, w, n
    <3>4. CASE D = 0
      <4>1. D + w - 1 = 0 * w + (w - 1) /\ w - 1 \in 0..w - 1 /\ D + w - 1 \in Int  BY <3>1, <3>4
      <4>2. CeilDiv(D, w) = 0
        <5> DEFINE x == D + w - 1
        <5>1. \A q \in Int, r \in 0..w - 1 : x = q * w + r => (q = x \div w /\ r = x % w)
          <6>1. x \in Int  BY <4>1
          <6> HIDE DEF x
          <6> QED  BY <3>1, <6>1, DivMod
        <5>2. x = 0 * w + (w - 1) /\ CeilDiv(D, w) = x \div w  BY <4>1 DEF CeilDiv
        <5> HIDE DEF x
        <5> QED  BY <4>1, <5>1, <5>2
      <4> QED  BY <3>3, <4>2
    <3>5. CASE D # 0
      <4>1. D \in Nat \ {0}  BY <3>2, <3>5
      <4>2. CeilDiv(D, w) \in Nat  BY <3>1, <4>1, WholeSteps
      <4> QED  BY <3>3, <4>2
    <3> QED  BY <3>4, <3>5
  <2> HIDE DEF n
  <2>3. \A k \in 1..n : d[k] \in Value
    <3> SUFFICES ASSUME NEW k \in 1..n  PROVE d[k] \in Value
      OBVIOUS
    <3>1. k \in Int  BY <2>2
    <3>2. (k - 1) * step \in Int  BY <3>1
    <3>3. Wrap((k - 1) * step) \in Int  BY <3>2, WrapIs
    <3>4. start + Wrap((k - 1) * step) \in Int  BY <3>3
    <3>5. Wrap(start + Wrap((k - 1) * step)) \in Int  BY <3>4, WrapIs
    <3>6. d[k] = Wrap(start + Wrap((k - 1) * step))  OBVIOUS
    <3> QED  BY <3>5, <3>6 DEF Value
  <2>4. d \in Seq(Value) /\ Len(d) = n
    <3>1. d = [k \in 1..n |-> d[k]]  OBVIOUS
    <3> HIDE DEF d
    <3>2. d \in [1..n -> Value]  BY <2>3, <3>1
    <3> QED  BY <2>2, <3>2
  <2> HIDE DEF d
  <2>5. IsArray(Array(<<n>>, d))  BY <2>2, <2>4, OneAxisIdeal
  <2>6. NumpyArange(start, stop, step) # {}  BY <1>2 DEF NumpyArange
  <2> QED  BY <2>1, <2>5, <2>6
<1> QED  BY <1>1, <1>2

-----------------------------------------------------------------------------
(* Every operation.                                                        *)

\* What the run's keys and bounds are: no list of bools, which lightarray reads
\* as integers and NumPy as a mask, and no bounds whose distance wraps.
Comparable == BoundsApart /\ \A key \in Keys : key.kind # "bools"

\* The results of an operation on a, which NumPy sees as x.
Good(results, expected, a, x) ==
  /\ \A r \in results : IsArray(r)
  /\ Comparable /\ x = IdealOf(a) => Faithful(results, expected) /\ Justified(results, expected, a)

LEMMA GoodIs ==
  ASSUME NEW results, NEW expected, NEW a, NEW x, NEW made,
         Faithful(results, made), Justified(results, made, a), x = IdealOf(a) => expected = made
  PROVE  Good(results, expected, a, x)
BY DEF Good, Faithful

LEMMA JustifiedBy ==
  ASSUME NEW results, NEW made, NEW a, results = {} => made = {}
  PROVE  Justified(results, made, a)
BY DEF Justified

LEMMA BinaryGood ==
  ASSUME NEW f, NEW a, IsArray(a), NEW b, IsArray(b), NEW x
  PROVE  Good(ZipMap(f, a, b), NumpyZip(f, x, IdealOf(b)), a, x)
<1> DEFINE results == ZipMap(f, a, b)
           expected == NumpyZip(f, x, IdealOf(b))
           made == NumpyZip(f, IdealOf(a), IdealOf(b))
<1>1. Faithful(results, made) /\ (results = {} => made = {})  BY ZipMapFaithful
<1>2. x = IdealOf(a) => expected = made  OBVIOUS
<1> HIDE DEF results, expected, made
<1> QED  BY <1>1, <1>2, GoodIs, JustifiedBy DEF results, expected

LEMMA InplaceGood ==
  ASSUME NEW f, NEW a, IsArray(a), NEW b, IsArray(b), NEW x
  PROVE  Good(ZipMapInplace(f, a, b), NumpyZipInplace(f, x, IdealOf(b)), a, x)
<1> DEFINE results == ZipMapInplace(f, a, b)
           expected == NumpyZipInplace(f, x, IdealOf(b))
           made == NumpyZipInplace(f, IdealOf(a), IdealOf(b))
<1>1. Faithful(results, made) /\ (results = {} => made = {})  BY InplaceFaithful
<1>2. x = IdealOf(a) => expected = made  OBVIOUS
<1> HIDE DEF results, expected, made
<1> QED  BY <1>1, <1>2, GoodIs, JustifiedBy DEF results, expected

LEMMA ReduceGood ==
  ASSUME NEW f, NEW a, IsArray(a), NEW axis \in Int, NEW init, init = None \/ init \in Value, NEW x
  PROVE  Good(FoldAxis(f, a, axis, init), NumpyFold(f, x, axis, init), a, x)
<1> DEFINE results == FoldAxis(f, a, axis, init)
           expected == NumpyFold(f, x, axis, init)
           made == NumpyFold(f, IdealOf(a), axis, init)
<1>1. Faithful(results, made)  BY FoldAxisFaithful
<1>2. Justified(results, made, a)  BY FoldAxisJustified
<1>3. x = IdealOf(a) => expected = made  OBVIOUS
<1> HIDE DEF results, expected, made
<1> QED  BY <1>1, <1>2, <1>3, GoodIs DEF results, expected

LEMMA MeanGood ==
  ASSUME NEW a, IsArray(a), NEW axis \in Int, NEW x
  PROVE  Good(MeanResults(a, axis), NumpyMean(x, axis), a, x)
<1> DEFINE results == MeanResults(a, axis)
           expected == NumpyMean(x, axis)
           made == NumpyMean(IdealOf(a), axis)
<1>1. Faithful(results, made)  BY MeanFaithful
<1>2. Justified(results, made, a)  BY MeanJustified
<1>3. x = IdealOf(a) => expected = made  OBVIOUS
<1> HIDE DEF results, expected, made
<1> QED  BY <1>1, <1>2, <1>3, GoodIs DEF results, expected

LEMMA RunningGood ==
  ASSUME NEW f, NEW a, IsArray(a), NEW init \in Value, NEW x
  PROVE  Good({Scan(f, a, init)}, {NumpyScan(f, x, init)}, a, x)
<1> DEFINE results == {Scan(f, a, init)}
           expected == {NumpyScan(f, x, init)}
           made == {NumpyScan(f, IdealOf(a), init)}
<1>1. Faithful(results, made)  BY ScanFaithful
<1>2. results # {}  OBVIOUS
<1>3. x = IdealOf(a) => expected = made  OBVIOUS
<1> HIDE DEF results, expected, made
<1> QED  BY <1>1, <1>2, <1>3, GoodIs, JustifiedBy DEF results, expected

LEMMA JoinGood ==
  ASSUME NEW a, IsArray(a), NEW b, IsArray(b), NEW axis \in Int, NEW x
  PROVE  Good(Concatenate(<<b, a, b>>, axis), NumpyConcatenate(<<IdealOf(b), x, IdealOf(b)>>, axis), a, x)
<1> DEFINE parts == <<b, a, b>>
           results == Concatenate(parts, axis)
           expected == NumpyConcatenate(<<IdealOf(b), x, IdealOf(b)>>, axis)
           made == NumpyConcatenate(Ideals(parts), axis)
<1>1. AllParts(parts) /\ Ideals(parts) = <<IdealOf(b), IdealOf(a), IdealOf(b)>>
  <2>1. Len(parts) = 3 /\ parts[1] = b /\ parts[2] = a /\ parts[3] = b /\ DOMAIN parts = 1..3
    OBVIOUS
  <2>2. \A k \in 1..3 : k = 1 \/ k = 2 \/ k = 3  OBVIOUS
  <2>3. [k \in 1..3 |-> IdealOf(parts[k])] = <<IdealOf(b), IdealOf(a), IdealOf(b)>>
    <3> DEFINE p == IdealOf(b)
               q == IdealOf(a)
    <3>1. [k \in 1..3 |-> IdealOf(parts[k])] = [k \in 1..3 |-> IF k = 2 THEN q ELSE p]
      BY <2>1, <2>2
    <3> HIDE DEF p, q
    <3>2. [k \in 1..3 |-> IF k = 2 THEN q ELSE p] = <<p, q, p>>  BY <2>2
    <3> QED  BY <3>1, <3>2 DEF p, q
  <2> HIDE DEF parts
  <2>4. AllParts(parts)  BY <2>1, <2>2 DEF AllParts
  <2>5. Ideals(parts) = <<IdealOf(b), IdealOf(a), IdealOf(b)>>  BY <2>1, <2>3 DEF Ideals
  <2> QED  BY <2>4, <2>5
<1>2. x = IdealOf(a) => expected = made  BY <1>1
<1> HIDE DEF parts
<1>3. Faithful(results, made)  BY <1>1, ConcatenateFaithful
<1>4. Justified(results, made, a)  BY <1>1, ConcatenateJustified
<1> HIDE DEF results, expected, made
<1>5. Good(results, expected, a, x)  BY <1>2, <1>3, <1>4, GoodIs
<1> QED  BY <1>5 DEF results, expected, parts

LEMMA PileGood ==
  ASSUME NEW a, IsArray(a), NEW b, IsArray(b), NEW axis \in Int, NEW x
  PROVE  Good(Stack(<<b, a>>, axis), NumpyStack(<<IdealOf(b), x>>, axis), a, x)
<1> DEFINE parts == <<b, a>>
           results == Stack(parts, axis)
           expected == NumpyStack(<<IdealOf(b), x>>, axis)
           made == NumpyStack(Ideals(parts), axis)
<1>1. Len(parts) = 2 /\ parts[1] = b /\ parts[2] = a /\ DOMAIN parts = 1..2
  OBVIOUS
<1>2. AllParts(parts) /\ Ideals(parts) = <<IdealOf(b), IdealOf(a)>>
  <2>2. \A k \in 1..2 : k = 1 \/ k = 2  OBVIOUS
  <2>3. [k \in 1..2 |-> IdealOf(parts[k])] = <<IdealOf(b), IdealOf(a)>>
    <3> DEFINE p == IdealOf(b)
               q == IdealOf(a)
    <3>1. [k \in 1..2 |-> IdealOf(parts[k])] = [k \in 1..2 |-> IF k = 2 THEN q ELSE p]
      BY <1>1, <2>2
    <3> HIDE DEF p, q
    <3>2. [k \in 1..2 |-> IF k = 2 THEN q ELSE p] = <<p, q>>  BY <2>2
    <3> QED  BY <3>1, <3>2 DEF p, q
  <2> HIDE DEF parts
  <2>4. AllParts(parts)  BY <1>1, <2>2 DEF AllParts
  <2>5. Ideals(parts) = <<IdealOf(b), IdealOf(a)>>  BY <1>1, <2>3 DEF Ideals
  <2> QED  BY <2>4, <2>5
<1>3. x = IdealOf(a) => expected = made  BY <1>2
<1> HIDE DEF parts
<1>4. Faithful(results, made)  BY <1>2, StackFaithful
<1>5. Justified(results, made, a)
  <2>1. 2 \in 1..Len(parts) /\ a = parts[2]  BY <1>1
  <2> QED  BY <1>2, <2>1, StackJustified
<1> HIDE DEF results, expected, made
<1>6. Good(results, expected, a, x)  BY <1>3, <1>4, <1>5, GoodIs
<1> QED  BY <1>6 DEF results, expected, parts

LEMMA WhereGood ==
  ASSUME NEW a, IsArray(a), NEW ax \in DOMAIN a.shape \cup {1}, NEW x
  PROVE  Good(NonZero(a, ax), NumpyNonZero(x, ax), a, x)
<1> DEFINE results == NonZero(a, ax)
           expected == NumpyNonZero(x, ax)
           made == NumpyNonZero(IdealOf(a), ax)
<1>1. Faithful(results, made) /\ (results = {} => made = {})  BY NonZeroFaithful
<1>2. x = IdealOf(a) => expected = made  OBVIOUS
<1> HIDE DEF results, expected, made
<1> QED  BY <1>1, <1>2, GoodIs, JustifiedBy DEF results, expected

LEMMA FilterGood ==
  ASSUME NEW a, IsArray(a), NEW b, IsArray(b), NEW x
  PROVE  Good(IF a.shape = b.shape THEN CompressFlat(a, Compare(a, b))
              ELSE FromNumpy(NumpyFilter(IdealOf(a), IdealOf(b))),
              NumpyFilter(x, IdealOf(b)), a, x)
<1> DEFINE results == IF a.shape = b.shape THEN CompressFlat(a, Compare(a, b))
                      ELSE FromNumpy(NumpyFilter(IdealOf(a), IdealOf(b)))
           expected == NumpyFilter(x, IdealOf(b))
           made == NumpyFilter(IdealOf(a), IdealOf(b))
<1>1. Faithful(results, made) /\ (results = {} => made = {})
  <2>1. CASE a.shape = b.shape
    <3>1. results = CompressFlat(a, Compare(a, b))  BY <2>1
    <3> HIDE DEF results
    <3> QED  BY <2>1, <3>1, FilterFaithful
  <2>2. CASE a.shape # b.shape
    <3>1. results = FromNumpy(made) /\ made = {} /\ FromNumpy({}) = {}  BY <2>2, FilterRefuses
    <3> HIDE DEF results, made
    <3> QED  BY <3>1 DEF Faithful
  <2> QED  BY <2>1, <2>2
<1>2. x = IdealOf(a) => expected = made  OBVIOUS
<1> HIDE DEF results, expected, made
<1> QED  BY <1>1, <1>2, GoodIs, JustifiedBy DEF results, expected

LEMMA ChooseGood ==
  ASSUME NEW a, IsArray(a), NEW b, IsArray(b), NEW x
  PROVE  Good(IF a.shape = b.shape THEN {SelectWhere(Compare(a, b), a, b)}
              ELSE FromNumpy(NumpyWhere(IdealOf(a), IdealOf(b))),
              NumpyWhere(x, IdealOf(b)), a, x)
<1> DEFINE results == IF a.shape = b.shape THEN {SelectWhere(Compare(a, b), a, b)}
                      ELSE FromNumpy(NumpyWhere(IdealOf(a), IdealOf(b)))
           expected == NumpyWhere(x, IdealOf(b))
           made == NumpyWhere(IdealOf(a), IdealOf(b))
<1>1. Faithful(results, made) /\ (results = {} => made = {})
  <2>1. CASE a.shape = b.shape
    <3>1. results = {SelectWhere(Compare(a, b), a, b)}  BY <2>1
    <3>2. results # {}  BY <3>1
    <3> HIDE DEF results
    <3> QED  BY <2>1, <3>1, <3>2, SelectedIs
  <2>2. CASE a.shape # b.shape
    <3>1. results = FromNumpy(made)  BY <2>2
    <3> HIDE DEF results
    <3>2. Faithful(FromNumpy(made), made)  BY ChosenIs
    <3> HIDE DEF made
    <3> QED  BY <3>1, <3>2, FromNumpySome
  <2> QED  BY <2>1, <2>2
<1>2. x = IdealOf(a) => expected = made  OBVIOUS
<1> HIDE DEF results, expected, made
<1> QED  BY <1>1, <1>2, GoodIs, JustifiedBy DEF results, expected

\* What kinds of keys there are.
LEMMA KeyKinds ==
  ASSUME NEW key, IsKey(key)
  PROVE  \/ key.kind = "int" /\ key.items \in Seq(Int) /\ Len(key.items) = 1
         \/ key.kind = "ints" /\ key.items \in Seq(Int)
         \/ key.kind = "bools" /\ key.items \in Seq(BOOLEAN)
         \/ key.kind = "mask" /\ key.mask.shape \in Seq(Nat) /\ key.mask.shape # <<>>
<1>1. CASE /\ key.kind = "mask" /\ key.mask \in [shape : Seq(Nat), data : Seq(BOOLEAN)]
           /\ key.mask.shape # <<>> /\ Len(key.mask.data) = Size(key.mask)
  <2>1. key.mask.shape \in Seq(Nat)  BY <1>1
  <2> QED  BY <1>1, <2>1
<1> QED  BY <1>1 DEF IsKey

\* The integers taken from a list of bools.
LEMMA BoolsTaken ==
  ASSUME NEW a, IsArray(a), NEW key, key.kind = "bools", key.items \in Seq(BOOLEAN)
  PROVE  \A r \in TakeLeading(a, IntegersOf(key)) : IsArray(r)
<1> DEFINE idx == IntegersOf(key)
<1>1. idx \in Seq(Int)
  <2> DEFINE n == Len(key.items)
  <2>1. n \in Nat /\ DOMAIN key.items = 1..n  OBVIOUS
  <2>2. idx = [k \in DOMAIN key.items |-> IF key.items[k] THEN 1 ELSE 0]  BY DEF IntegersOf
  <2> HIDE DEF idx, n
  <2>3. idx \in [1..n -> Int]  BY <2>1, <2>2
  <2> QED  BY <2>1, <2>3
<1> HIDE DEF idx
<1>2. CASE ~Leads(a, idx)
  <2>1. TakeLeading(a, idx) = {}  BY <1>1, <1>2, TakeRefuses
  <2> QED  BY <2>1 DEF idx
<1>3. CASE Leads(a, idx)
  <2>1. PICK d : Taken(a, idx, d) /\ TakeLeading(a, idx) = {Array(<<Len(idx)>> \o Tail(a.shape), d)}
    BY <1>3, TakenIs
  <2>2. IsArray(Array(<<Len(idx)>> \o Tail(a.shape), d))  BY <1>3, <2>1, TakenArray
  <2> QED  BY <2>1, <2>2 DEF idx
<1> QED  BY <1>2, <1>3

GetResults(a, key) ==
  CASE key.kind = "int" -> {[r EXCEPT !.shape = Tail(r.shape)] : r \in TakeLeading(a, key.items)}
    [] key.kind \in {"ints", "bools"} -> TakeLeading(a, IntegersOf(key))
    [] key.kind = "mask" ->
         IF key.mask.shape = a.shape THEN CompressFlat(a, key.mask)
         ELSE FromNumpy(NumpyGet(IdealOf(a), key))

LEMMA GetGood ==
  ASSUME NEW a, IsArray(a), NEW key \in Keys, NEW x
  PROVE  Good(GetResults(a, key), NumpyGet(x, key), a, x)
<1> DEFINE results == GetResults(a, key)
           expected == NumpyGet(x, key)
           made == NumpyGet(IdealOf(a), key)
<1>1. IsKey(key)  BY KernelsAssumption
<1>2. x = IdealOf(a) => expected = made  OBVIOUS
<1>3. CASE key.kind = "bools" /\ key.items \in Seq(BOOLEAN)
  <2>1. results = TakeLeading(a, IntegersOf(key))  BY <1>3 DEF GetResults
  <2>2. \A r \in results : IsArray(r)
    <3> HIDE DEF results
    <3> QED  BY <1>3, <2>1, BoolsTaken
  <2>3. ~Comparable  BY <1>3 DEF Comparable
  <2> HIDE DEF results, expected, made
  <2> QED  BY <2>2, <2>3 DEF Good, results, expected
<1>4. CASE key.kind = "int" /\ key.items \in Seq(Int) /\ Len(key.items) = 1
  <2>1. results = OneRow(a, key.items)  BY <1>4 DEF GetResults, OneRow
  <2> HIDE DEF results
  <2>2. Faithful(results, made) /\ (results = {} => made = {})  BY <1>4, <2>1, RowFaithful
  <2> HIDE DEF expected, made
  <2> QED  BY <1>2, <2>2, GoodIs, JustifiedBy DEF results, expected
<1>5. CASE key.kind = "ints" /\ key.items \in Seq(Int)
  <2>1. results = TakeLeading(a, key.items)  BY <1>5 DEF GetResults, IntegersOf
  <2> HIDE DEF results
  <2>2. Faithful(results, made) /\ (results = {} => made = {})  BY <1>5, <2>1, ListFaithful
  <2> HIDE DEF expected, made
  <2> QED  BY <1>2, <2>2, GoodIs, JustifiedBy DEF results, expected
<1>6. CASE key.kind = "mask" /\ key.mask.shape \in Seq(Nat) /\ key.mask.shape # <<>>
  <2>1. results = IF key.mask.shape = a.shape THEN CompressFlat(a, key.mask) ELSE FromNumpy(made)
    BY <1>6 DEF GetResults
  <2> HIDE DEF results
  <2>2. Faithful(results, made) /\ (results = {} => made = {})
    <3>1. CASE key.mask.shape = a.shape
      <4>1. results = CompressFlat(a, key.mask)  BY <2>1, <3>1
      <4> QED  BY <1>6, <3>1, <4>1, CompressFaithful
    <3>2. CASE key.mask.shape # a.shape
      <4>1. results = FromNumpy(made)  BY <2>1, <3>2
      <4>2. Faithful(FromNumpy(made), made)  BY <1>6, MaskGetFaithful
      <4> HIDE DEF made
      <4> QED  BY <4>1, <4>2, FromNumpySome
    <3> QED  BY <3>1, <3>2
  <2> HIDE DEF expected, made
  <2> QED  BY <1>2, <2>2, GoodIs, JustifiedBy DEF results, expected
<1> QED  BY <1>1, <1>3, <1>4, <1>5, <1>6, KeyKinds

SetResults(a, key, v) ==
  IF key.kind = "int" /\ Ndim(a.shape) = 1 THEN PutAt(a, key, v)
  ELSE FromNumpy(NumpySet(IdealOf(a), key, v))

LEMMA SetGood ==
  ASSUME NEW a, IsArray(a), NEW key \in Keys, NEW v \in Value, NEW x
  PROVE  Good(SetResults(a, key, v), NumpySet(x, key, v), a, x)
<1> DEFINE results == SetResults(a, key, v)
           expected == NumpySet(x, key, v)
           made == NumpySet(IdealOf(a), key, v)
<1>1. IsKey(key)  BY KernelsAssumption
<1>2. x = IdealOf(a) => expected = made  OBVIOUS
<1>3. results = IF key.kind = "int" /\ Ndim(a.shape) = 1 THEN PutAt(a, key, v) ELSE FromNumpy(made)
  BY DEF SetResults
<1> HIDE DEF results
<1>4. Faithful(results, made) /\ (results = {} => made = {})
  <2>1. CASE key.kind = "int" /\ Ndim(a.shape) = 1
    <3>1. results = PutAt(a, key, v)  BY <1>3, <2>1
    <3>2. key.items \in Seq(Int) /\ Len(key.items) = 1  BY <1>1, <2>1, KeyKinds
    <3> QED  BY <2>1, <3>1, <3>2, PutFaithful
  <2>2. CASE ~(key.kind = "int" /\ Ndim(a.shape) = 1)
    <3>1. results = FromNumpy(made)  BY <1>3, <2>2
    <3>2. Faithful(FromNumpy(made), made)  BY SetFaithful
    <3> HIDE DEF made
    <3> QED  BY <3>1, <3>2, FromNumpySome
  <2> QED  BY <2>1, <2>2
<1> HIDE DEF expected, made
<1> QED  BY <1>2, <1>4, GoodIs, JustifiedBy DEF results, expected

LEMMA CreateGood ==
  ASSUME NEW start \in Bounds, NEW stop \in Bounds, NEW step \in Bounds, NEW a, NEW x
  PROVE  Good(Arange(start, stop, step), NumpyArange(start, stop, step), a, x)
<1> DEFINE results == Arange(start, stop, step)
           made == NumpyArange(start, stop, step)
<1>1. start \in Int /\ stop \in Int /\ step \in Int  BY KernelsAssumption
<1>2. (\A r \in results : IsArray(r)) /\ (results = {} => made = {})  BY <1>1, ArangeArrays
<1>3. ASSUME BoundsApart  PROVE Faithful(results, made)
  <2>1. /\ start \in -Half..Half - 1 /\ stop \in -Half..Half - 1
        /\ stop - start \in -Half..Half - 1 /\ start - stop \in -Half..Half - 1
    BY <1>3 DEF BoundsApart
  <2> QED  BY <1>1, <2>1, ArangeFaithful
<1>4. BoundsApart => Faithful(results, made)  BY <1>3
<1> HIDE DEF results, made
<1>5. Good(results, made, a, x)  BY <1>2, <1>4, JustifiedBy DEF Good, Comparable
<1> QED  BY <1>5 DEF results, made

-----------------------------------------------------------------------------
(* sum, argmax and argmin of the whole array.                              *)

\* A piece of the items adds what it sums to.
LEMMA SumsOfPiece ==
  ASSUME NEW s \in Seq(Int), NEW p \in Nat, NEW t \in Seq(Int), p + Len(t) <= Len(s),
         \A k \in 1..Len(t) : t[k] = s[p + k]
  PROVE  Sums(s)[p + Len(t)] = Sums(s)[p] + Total(t)
<1> DEFINE N == Len(s)
           n == Len(t)
           h == Sums(s)
           g == [k \in 0..n |-> h[p + k] - h[p]]
<1>1. /\ N \in Nat /\ n \in Nat /\ p + n <= N
      /\ h \in [0..N -> Int] /\ \A k \in 1..N : h[k] = h[k - 1] + s[k]
  BY SumsDef
<1>2. \A k \in 1..n : t[k] = s[p + k] /\ t[k] \in Int  OBVIOUS
<1> HIDE DEF N, n, h
<1>3. \A k \in 0..n : g[k] = h[p + k] - h[p] /\ p + k \in 0..N /\ h[p + k] \in Int  BY <1>1
<1> HIDE DEF g
<1>4. p \in 0..N /\ h[p] \in Int /\ h[p + 0] = h[p]  BY <1>1
<1>5. g[0] = 0  BY <1>1, <1>3, <1>4
<1>6. ASSUME NEW k \in 1..n  PROVE g[k] = g[k - 1] + t[k]
  <2>1. k \in 0..n /\ k - 1 \in 0..n /\ p + k \in 1..N /\ (p + k) - 1 = p + (k - 1)  BY <1>1
  <2>2. h[p + k] = h[p + (k - 1)] + t[k]  BY <1>1, <1>2, <2>1
  <2>3. h[p + (k - 1)] \in Int /\ t[k] \in Int  BY <1>2, <1>3, <2>1
  <2>4. g[k] = h[p + k] - h[p] /\ g[k - 1] = h[p + (k - 1)] - h[p]  BY <1>3, <2>1
  <2> QED  BY <1>4, <2>2, <2>3, <2>4
<1>7. Total(t) = g[n]  BY <1>5, <1>6, SumsAre DEF n
<1>8. n \in 0..n  BY <1>1
<1>9. g[n] = h[p + n] - h[p] /\ h[p + n] \in Int  BY <1>3, <1>8
<1>10. h[p + n] = h[p] + g[n]  BY <1>4, <1>9
<1> QED  BY <1>7, <1>10 DEF h, n

\* One item more.
LEMMA SumOfMore ==
  ASSUME NEW t \in Seq(Int), NEW u \in Seq(Int), Len(u) = Len(t) + 1, \A k \in 1..Len(t) : u[k] = t[k]
  PROVE  Total(u) = Total(t) + u[Len(u)]
<1> DEFINE n == Len(t)
           g == Sums(u)
<1>1. n \in Nat /\ Len(u) = n + 1 /\ g[0] = 0 /\ \A k \in 1..n + 1 : g[k] = g[k - 1] + u[k]
  <2>1. n \in Nat /\ Len(u) = n + 1  OBVIOUS
  <2>2. g[0] = 0 /\ \A k \in 1..Len(u) : g[k] = g[k - 1] + u[k]  BY SumsDef
  <2> HIDE DEF n, g
  <2> QED  BY <2>1, <2>2
<1>2. \A k \in 1..n : g[k] = g[k - 1] + t[k]  BY <1>1
<1>3. Total(u) = g[n + 1]  BY <1>1 DEF Total
<1> HIDE DEF g
<1>4. Total(t) = g[n]  BY <1>1, <1>2, SumsAre
<1>5. n + 1 \in 1..n + 1 /\ (n + 1) - 1 = n  BY <1>1
<1> QED  BY <1>1, <1>3, <1>4, <1>5

\* The whole chunks are within the data.
LEMMA ChunksFit ==
  ASSUME NEW n \in Nat
  PROVE  /\ n \div Lanes \in Nat /\ (n \div Lanes) * Lanes \in 0..n
         /\ \A c \in 0..(n \div Lanes) : c * Lanes \in 0..n
         /\ \A c \in 1..(n \div Lanes) : /\ (c - 1) * Lanes \in Nat
                                         /\ c * Lanes = (c - 1) * Lanes + Lanes
                                         /\ (c - 1) * Lanes + Lanes <= n
<1> DEFINE C == n \div Lanes
<1>1. Lanes \in Nat \ {0}  BY KernelsAssumption
<1>2. C \in Nat /\ C * Lanes \in 0..n
  <2>1. C \in Nat /\ n = Lanes * C + (n % Lanes) /\ n % Lanes \in Nat  BY <1>1
  <2>2. \A x, y \in Nat : x * y \in Nat /\ x * y = y * x  OBVIOUS
  <2> HIDE DEF C
  <2>3. C * Lanes \in Nat /\ C * Lanes = Lanes * C  BY <1>1, <2>1, <2>2
  <2> QED  BY <2>1, <2>3
<1> HIDE DEF C
<1>3. \A c \in 0..C : c * Lanes \in 0..n
  <2> SUFFICES ASSUME NEW c \in 0..C  PROVE c * Lanes \in 0..n
    OBVIOUS
  <2>1. c \in Nat /\ C - c \in Nat /\ C = c + (C - c)  BY <1>2
  <2>2. \A x, y, z \in Nat : (x + y) * z = x * z + y * z /\ x * z \in Nat  OBVIOUS
  <2> DEFINE d == C - c
             x == c * Lanes
             y == d * Lanes
             z == C * Lanes
  <2>3. (c + d) * Lanes = x + y /\ x \in Nat /\ y \in Nat  BY <1>1, <2>1, <2>2
  <2>4. z = x + y  BY <2>1, <2>3
  <2>5. z <= n  BY <1>2
  <2> HIDE DEF x, y, z
  <2>6. x \in 0..n  BY <2>3, <2>4, <2>5
  <2> QED  BY <2>6 DEF x
<1>4. ASSUME NEW c \in 1..C
      PROVE  (c - 1) * Lanes \in Nat /\ c * Lanes = (c - 1) * Lanes + Lanes /\ (c - 1) * Lanes + Lanes <= n
  <2>1. c - 1 \in 0..C /\ c \in 0..C /\ c - 1 \in Nat /\ c = (c - 1) + 1  BY <1>2
  <2>2. (c - 1) * Lanes \in 0..n /\ c * Lanes \in 0..n  BY <1>3, <2>1
  <2>3. \A x, y \in Nat : (x + 1) * y = x * y + y  OBVIOUS
  <2>4. ((c - 1) + 1) * Lanes = (c - 1) * Lanes + Lanes  BY <1>1, <2>1, <2>3
  <2>5. c * Lanes = (c - 1) * Lanes + Lanes  BY <2>1, <2>4
  <2> DEFINE x == (c - 1) * Lanes
             y == c * Lanes
  <2>6. x \in 0..n /\ y \in 0..n /\ y = x + Lanes  BY <2>2, <2>5
  <2> HIDE DEF x, y
  <2>7. x \in Nat /\ x + Lanes <= n  BY <2>6
  <2> QED  BY <2>5, <2>7 DEF x
<1> QED  BY <1>2, <1>3, <1>4 DEF C

\* What the lane i adds up in m chunks, and all lanes.
Column(s, i, m) == [c \in 1..m |-> s[(c - 1) * Lanes + i]]
Columns(s, m)   == [i \in 1..Lanes |-> Total(Column(s, i, m))]

LEMMA ColumnIs ==
  ASSUME NEW s \in Seq(Int), NEW i \in 1..Lanes, NEW m \in 0..Chunks(s)
  PROVE  /\ Column(s, i, m) \in Seq(Int) /\ Len(Column(s, i, m)) = m
         /\ \A c \in 1..m : Column(s, i, m)[c] = s[(c - 1) * Lanes + i]
         /\ Total(Column(s, i, m)) \in Int
<1> DEFINE u == Column(s, i, m)
           N == Len(s)
           C == N \div Lanes
<1>1. N \in Nat /\ (\A k \in 1..N : s[k] \in Int) /\ m \in 0..C /\ Lanes \in Nat
  BY KernelsAssumption DEF Chunks
<1>2. C \in Nat /\ \A c \in 1..C : (c - 1) * Lanes \in Nat /\ (c - 1) * Lanes + Lanes <= N  BY <1>1, ChunksFit
<1> HIDE DEF N, C
<1>3. \A c \in 1..m : s[(c - 1) * Lanes + i] \in Int
  <2> SUFFICES ASSUME NEW c \in 1..m  PROVE s[(c - 1) * Lanes + i] \in Int
    OBVIOUS
  <2> DEFINE x == (c - 1) * Lanes
  <2>1. c \in 1..C  BY <1>1, <1>2
  <2>2. x \in Nat /\ x + Lanes <= N  BY <1>2, <2>1
  <2> HIDE DEF x
  <2>3. x + i \in 1..N  BY <1>1, <2>2
  <2> QED  BY <1>1, <2>3 DEF x
<1>4. u \in [1..m -> Int] /\ \A c \in 1..m : u[c] = s[(c - 1) * Lanes + i]  BY <1>3 DEF Column
<1>5. m \in Nat  BY <1>1, <1>2
<1> HIDE DEF u
<1>6. u \in Seq(Int) /\ Len(u) = m  BY <1>4, <1>5
<1>7. Total(u) \in Int  BY <1>6, SumsDef
<1> QED  BY <1>4, <1>6, <1>7 DEF u

\* After m chunks the lanes have summed up the first m * Lanes items.
LEMMA LanesAdd ==
  ASSUME NEW s \in Seq(Int)
  PROVE  \A m \in 0..Chunks(s) : Total(Columns(s, m)) = Sums(s)[m * Lanes]
<1> DEFINE N == Len(s)
           C == N \div Lanes
           T == {m \in 0..C : Total(Columns(s, m)) = Sums(s)[m * Lanes]}
<1>1. N \in Nat /\ (\A k \in 1..N : s[k] \in Int) /\ Chunks(s) = C /\ Lanes \in Nat \ {0}
  BY KernelsAssumption DEF Chunks
<1>2. C \in Nat /\ \A c \in 1..C : /\ (c - 1) * Lanes \in Nat
                                   /\ c * Lanes = (c - 1) * Lanes + Lanes
                                   /\ (c - 1) * Lanes + Lanes <= N
  BY <1>1, ChunksFit
<1> HIDE DEF N, C
<1>3. \A m \in 0..C : /\ Columns(s, m) \in Seq(Int) /\ Len(Columns(s, m)) = Lanes
                      /\ \A i \in 1..Lanes : Columns(s, m)[i] = Total(Column(s, i, m))
  <2> SUFFICES ASSUME NEW m \in 0..C
               PROVE  /\ Columns(s, m) \in Seq(Int) /\ Len(Columns(s, m)) = Lanes
                      /\ \A i \in 1..Lanes : Columns(s, m)[i] = Total(Column(s, i, m))
    OBVIOUS
  <2> DEFINE u == Columns(s, m)
  <2>1. \A i \in 1..Lanes : Total(Column(s, i, m)) \in Int  BY <1>1, ColumnIs
  <2>2. u \in [1..Lanes -> Int] /\ \A i \in 1..Lanes : u[i] = Total(Column(s, i, m))  BY <2>1 DEF Columns
  <2> HIDE DEF u
  <2>3. u \in Seq(Int) /\ Len(u) = Lanes  BY <1>1, <2>2
  <2> QED  BY <2>2, <2>3 DEF u
<1>4. 0 \in T
  <2> DEFINE u == Columns(s, 0)
  <2>1. 0 \in 0..C  BY <1>2
  <2>2. u \in Seq(Int) /\ Len(u) = Lanes /\ \A i \in 1..Lanes : u[i] = Total(Column(s, i, 0))  BY <1>3, <2>1
  <2>3. ASSUME NEW i \in 1..Lanes  PROVE Total(Column(s, i, 0)) = 0
    <3>1. Column(s, i, 0) \in Seq(Int) /\ Len(Column(s, i, 0)) = 0  BY <1>1, <2>1, ColumnIs
    <3> QED  BY <3>1, SumsDef DEF Total
  <2> HIDE DEF u
  <2>4. Total(u) = 0  BY <2>2, <2>3, SumOfZeros
  <2>5. Sums(s)[0] = 0  BY SumsDef
  <2>6. 0 * Lanes = 0  BY <1>1
  <2> QED  BY <2>1, <2>4, <2>5, <2>6 DEF u
<1>5. ASSUME NEW m \in 0..C - 1, m \in T  PROVE m + 1 \in T
  <2> DEFINE n == m + 1
             p == m * Lanes
             t == [i \in 1..Lanes |-> s[p + i]]
             u == Columns(s, m)
             v == Columns(s, n)
  <2>1. n \in 1..C /\ n \in 0..C /\ n - 1 = m /\ m \in 0..C /\ m \in Nat  BY <1>2
  <2>2. p \in Nat /\ n * Lanes = p + Lanes /\ p + Lanes <= N
    <3> HIDE DEF n
    <3> QED  BY <1>2, <2>1
  <2> HIDE DEF p
  <2>3. t \in Seq(Int) /\ Len(t) = Lanes /\ \A i \in 1..Lanes : t[i] = s[p + i]
    <3>1. \A i \in 1..Lanes : p + i \in 1..N  BY <1>1, <2>2
    <3>2. t \in [1..Lanes -> Int] /\ \A i \in 1..Lanes : t[i] = s[p + i]  BY <1>1, <3>1
    <3> HIDE DEF t
    <3> QED  BY <1>1, <3>2
  <2> HIDE DEF t
  <2>4. Sums(s)[p + Lanes] = Sums(s)[p] + Total(t)  BY <2>2, <2>3, SumsOfPiece DEF N
  <2>5. \A i \in 1..Lanes : Total(Column(s, i, n)) = Total(Column(s, i, m)) + t[i]
    <3> SUFFICES ASSUME NEW i \in 1..Lanes  PROVE Total(Column(s, i, n)) = Total(Column(s, i, m)) + t[i]
      OBVIOUS
    <3> DEFINE x == Column(s, i, m)
               y == Column(s, i, n)
    <3>1. x \in Seq(Int) /\ Len(x) = m /\ \A c \in 1..m : x[c] = s[(c - 1) * Lanes + i]  BY <1>1, <2>1, ColumnIs
    <3>2. y \in Seq(Int) /\ Len(y) = n /\ \A c \in 1..n : y[c] = s[(c - 1) * Lanes + i]
      <4> HIDE DEF n
      <4> QED  BY <1>1, <2>1, ColumnIs
    <3> HIDE DEF x, y
    <3>3. \A c \in 1..m : y[c] = x[c]
      <4>1. \A c \in 1..m : c \in 1..n  BY <2>1
      <4> HIDE DEF n
      <4> QED  BY <3>1, <3>2, <4>1
    <3>4. Total(y) = Total(x) + y[n]  BY <3>1, <3>2, <3>3, SumOfMore
    <3>5. y[n] = s[(n - 1) * Lanes + i]
      <4> HIDE DEF n
      <4>1. n \in 1..n  BY <1>2, <2>1
      <4> QED  BY <3>2, <4>1
    <3>6. y[n] = t[i]
      <4> HIDE DEF n
      <4>1. (n - 1) * Lanes = p  BY <2>1 DEF p
      <4> QED  BY <2>3, <3>5, <4>1
    <3> QED  BY <3>4, <3>6 DEF x, y
  <2>6. u \in Seq(Int) /\ Len(u) = Lanes /\ \A i \in 1..Lanes : u[i] = Total(Column(s, i, m))  BY <1>3, <2>1
  <2>7. v \in Seq(Int) /\ Len(v) = Lanes /\ \A i \in 1..Lanes : v[i] = Total(Column(s, i, n))
    <3> HIDE DEF n
    <3> QED  BY <1>3, <2>1
  <2>8. Total(u) = Sums(s)[p]  BY <1>5 DEF p
  <2> HIDE DEF u, v, n
  <2>9. \A i \in 1..Len(v) : v[i] = u[i] + t[i]  BY <2>5, <2>6, <2>7
  <2>10. Total(v) = Total(u) + Total(t)
    <3>1. u \in Seq(Int) /\ t \in Seq(Int) /\ v \in Seq(Int)  BY <2>3, <2>6, <2>7
    <3>2. Len(u) = Len(v) /\ Len(t) = Len(v)  BY <2>3, <2>6, <2>7
    <3> QED  BY ONLY <2>9, <3>1, <3>2, SumsAdd
  <2>11. Total(v) = Sums(s)[n * Lanes]  BY <2>2, <2>4, <2>8, <2>10
  <2> QED  BY <2>1, <2>11 DEF v, n
<1> HIDE DEF T
<1>6. \A m \in 0..C : m \in T  BY <1>2, <1>4, <1>5, InductionTo
<1> QED  BY <1>1, <1>6 DEF T

\* sum() adds every element once.
LEMMA LaneSumIs ==
  ASSUME NEW s \in Seq(Int)
  PROVE  LaneSum(s) = Total(s)
<1> DEFINE N == Len(s)
           C == Chunks(s)
           p == C * Lanes
           t == SubSeq(s, p + 1, N)
<1>1. N \in Nat /\ (\A k \in 1..N : s[k] \in Int) /\ C = N \div Lanes /\ Lanes \in Nat \ {0}
  BY KernelsAssumption DEF Chunks
<1>2. C \in Nat /\ p \in 0..N
  <2> HIDE DEF N
  <2> QED  BY <1>1, ChunksFit
<1> HIDE DEF p, C
<1>3. t \in Seq(Int) /\ Len(t) = N - p /\ \A k \in 1..Len(t) : t[k] = s[p + k]
  BY <1>1, <1>2
<1> HIDE DEF t, N
<1>4. p + Len(t) = N  BY <1>1, <1>2, <1>3
<1>5. Sums(s)[N] = Sums(s)[p] + Total(t)
  <2>0. p \in Nat /\ p + Len(t) <= Len(s)
    <3>1. p \in Nat /\ N <= N  BY <1>1, <1>2
    <3> QED  BY <1>4, <3>1 DEF N
  <2>1. Sums(s)[p + Len(t)] = Sums(s)[p] + Total(t)  BY <1>3, <2>0, SumsOfPiece
  <2> QED  BY <1>4, <2>1
<1>6. Total(Columns(s, C)) = Sums(s)[p]
  <2>1. C \in 0..C  BY <1>2
  <2> QED  BY <2>1, LanesAdd DEF C, p
<1>7. Columns(s, C) = [i \in 1..Lanes |-> Lane(s, i)]  BY DEF Columns, Column, Lane, C
<1>8. LaneSum(s) = Total(Columns(s, C)) + Total(t)  BY <1>7 DEF LaneSum, t, p, N, C
<1>9. Total(s) = Sums(s)[N]  BY DEF Total, N
<1> QED  BY <1>5, <1>6, <1>8, <1>9

\* g satisfies the recursion of ArgExtreme up to n.
Best(g, k, s, most) ==
  IF k = 1 THEN 0
  ELSE LET b == g[k - 1] IN
       IF s[b + 1] # NaN /\ (s[k] = NaN \/ Beats(most, s[k], s[b + 1])) THEN k - 1 ELSE b
IsBest(g, n, s, most) == g = [k \in 1..n |-> Best(g, k, s, most)]

LEMMA BestExists ==
  ASSUME NEW s, NEW most, NEW m \in Nat
  PROVE  \E g : IsBest(g, m, s, most)
<1> DEFINE T == {n \in Nat : \E g : IsBest(g, n, s, most)}
<1>1. 0 \in T
  <2>1. IsBest([k \in 1..0 |-> 0], 0, s, most)  BY DEF IsBest
  <2> QED  BY <2>1
<1>2. ASSUME NEW n \in Nat, n \in T  PROVE n + 1 \in T
  <2>1. PICK g : IsBest(g, n, s, most)  BY <1>2
  <2> DEFINE h == [k \in 1..n + 1 |-> IF k = n + 1 THEN Best(g, k, s, most) ELSE g[k]]
  <2>2. \A k \in 1..n : g[k] = Best(g, k, s, most)  BY <2>1 DEF IsBest
  <2>3. \A k \in 1..n + 1 : h[k] = IF k = n + 1 THEN Best(g, k, s, most) ELSE g[k]  OBVIOUS
  <2>4. \A k \in 1..n + 1 : h[k] = Best(g, k, s, most)
    <3> HIDE DEF h
    <3>1. \A k \in 1..n + 1 : k = n + 1 \/ k \in 1..n  OBVIOUS
    <3> QED  BY <2>2, <2>3, <3>1
  <2>5. \A k \in 1..n : h[k] = g[k]
    <3> HIDE DEF h
    <3>1. \A k \in 1..n : k \in 1..n + 1 /\ k # n + 1  OBVIOUS
    <3> QED  BY <2>3, <3>1
  <2>6. \A k \in 1..n + 1 : Best(h, k, s, most) = Best(g, k, s, most)
    <3> SUFFICES ASSUME NEW k \in 1..n + 1  PROVE Best(h, k, s, most) = Best(g, k, s, most)
      OBVIOUS
    <3> HIDE DEF h
    <3>1. CASE k = 1
      BY <3>1 DEF Best
    <3>2. CASE k # 1
      <4>1. k - 1 \in 1..n  BY <3>2
      <4>2. h[k - 1] = g[k - 1]  BY <2>5, <4>1
      <4> QED  BY <4>2 DEF Best
    <3> QED  BY <3>1, <3>2
  <2>7. h = [k \in 1..n + 1 |-> h[k]]  OBVIOUS
  <2>8. \A k \in 1..n + 1 : h[k] = Best(h, k, s, most)
    <3> HIDE DEF h
    <3> QED  BY <2>4, <2>6
  <2>9. IsBest(h, n + 1, s, most)
    <3> HIDE DEF h
    <3> QED  BY <2>7, <2>8 DEF IsBest
  <2> QED  BY <2>9
<1> HIDE DEF T
<1>3. \A n \in Nat : n \in T  BY <1>1, <1>2, Induction
<1> QED  BY <1>3 DEF T

\* Of the first k items, b is the first NaN, else the first extreme.
Extremal(s, most, k, b) ==
  /\ b \in 1..k
  /\ (\E j \in 1..k : s[j] = NaN) => s[b] = NaN /\ \A j \in 1..b - 1 : s[j] # NaN
  /\ (\A j \in 1..k : s[j] # NaN) => /\ \A j \in 1..k : ~Beats(most, s[j], s[b])
                                     /\ \A j \in 1..b - 1 : Beats(most, s[b], s[j])

\* Beats on numbers.
LEMMA BeatsIs ==
  ASSUME NEW most \in BOOLEAN, NEW x \in Int, NEW y \in Int, NEW z \in Int
  PROVE  /\ ~Beats(most, x, x)
         /\ Beats(most, x, y) /\ ~Beats(most, z, y) => ~Beats(most, z, x) /\ Beats(most, x, z)
         /\ Beats(most, x, y) /\ Beats(most, y, z) => Beats(most, x, z)
         /\ (~Beats(most, x, y) <=> IF most THEN x <= y ELSE x >= y)
BY DEF Beats

LEMMA ExtremalStep ==
  ASSUME NEW s \in Seq(Value), NEW most \in BOOLEAN, NEW k \in 1..Len(s) - 1, NEW b, Extremal(s, most, k, b)
  PROVE  Extremal(s, most, k + 1,
                  IF s[b] # NaN /\ (s[k + 1] = NaN \/ Beats(most, s[k + 1], s[b])) THEN k + 1 ELSE b)
<1> DEFINE n == k + 1
<1>1. Len(s) \in Nat /\ \A j \in 1..Len(s) : s[j] \in Int \/ s[j] = NaN  BY DEF Value
<1>2. k \in Nat /\ n \in 1..Len(s) /\ n \in 1..n /\ b \in 1..k /\ b \in 1..n /\ n - 1 = k  BY <1>1 DEF Extremal
<1>3. \A j \in 1..n : j \in 1..k \/ j = n  BY <1>2
<1>4. \A j \in 1..k : j \in 1..n /\ j \in 1..Len(s)  BY <1>1, <1>2
<1>5. \A j \in 1..b - 1 : j \in 1..k  BY <1>2
<1> HIDE DEF n
<1>6. CASE s[b] = NaN
  <2>1. \A j \in 1..b - 1 : s[j] # NaN  BY <1>2, <1>6 DEF Extremal
  <2>2. Extremal(s, most, n, b)  BY <1>2, <1>6, <2>1 DEF Extremal
  <2> QED  BY <1>6, <2>2 DEF n
<1>7. CASE s[b] # NaN
  <2>1. \A j \in 1..k : s[j] # NaN  BY <1>7 DEF Extremal
  <2>2. \A j \in 1..k : s[j] \in Int  BY <1>1, <1>4, <2>1
  <2>3. /\ \A j \in 1..k : ~Beats(most, s[j], s[b])
        /\ \A j \in 1..b - 1 : Beats(most, s[b], s[j])
    BY <2>1 DEF Extremal
  <2>4. CASE s[n] = NaN
    <3>1. \A j \in 1..n - 1 : s[j] # NaN  BY <1>2, <2>1
    <3>2. Extremal(s, most, n, n)  BY <1>2, <2>4, <3>1 DEF Extremal
    <3> QED  BY <1>7, <2>4, <3>2 DEF n
  <2>5. CASE s[n] # NaN /\ Beats(most, s[n], s[b])
    <3>1. s[n] \in Int /\ s[b] \in Int  BY <1>1, <1>2, <2>2, <2>5
    <3>2. \A j \in 1..k : ~Beats(most, s[j], s[n]) /\ Beats(most, s[n], s[j])
      <4> SUFFICES ASSUME NEW j \in 1..k  PROVE ~Beats(most, s[j], s[n]) /\ Beats(most, s[n], s[j])
        OBVIOUS
      <4>1. s[j] \in Int /\ ~Beats(most, s[j], s[b])  BY <2>2, <2>3
      <4> QED  BY <2>5, <3>1, <4>1, BeatsIs
    <3>3. ~Beats(most, s[n], s[n])  BY <3>1, BeatsIs
    <3>4. \A j \in 1..n : ~Beats(most, s[j], s[n]) /\ s[j] # NaN  BY <1>3, <2>1, <2>5, <3>2, <3>3
    <3>5. \A j \in 1..n - 1 : Beats(most, s[n], s[j])  BY <1>2, <3>2
    <3>6. Extremal(s, most, n, n)  BY <1>2, <3>4, <3>5 DEF Extremal
    <3> QED  BY <1>7, <2>5, <3>6 DEF n
  <2>6. CASE s[n] # NaN /\ ~Beats(most, s[n], s[b])
    <3>1. \A j \in 1..n : ~Beats(most, s[j], s[b]) /\ s[j] # NaN  BY <1>3, <2>1, <2>3, <2>6
    <3>2. Extremal(s, most, n, b)  BY <1>2, <2>3, <3>1 DEF Extremal
    <3> QED  BY <2>6, <3>2 DEF n
  <2> QED  BY <2>4, <2>5, <2>6
<1> QED  BY <1>6, <1>7

\* arg_extreme over all the data.
LEMMA ArgExtremeIs ==
  ASSUME NEW s \in Seq(Value), s # <<>>, NEW most \in BOOLEAN
  PROVE  Extremal(s, most, Len(s), ArgExtreme(s, most) + 1)
<1> DEFINE N == Len(s)
<1>1. N \in Nat /\ N >= 1 /\ \A j \in 1..N : s[j] \in Value  OBVIOUS
<1>2. PICK g : IsBest(g, N, s, most) /\ ArgExtreme(s, most) = g[N]
  <2> DEFINE f == CHOOSE g : IsBest(g, N, s, most)
  <2>1. \E g : IsBest(g, N, s, most)  BY <1>1, BestExists
  <2>2. IsBest(f, N, s, most)  BY <2>1
  <2>3. ArgExtreme(s, most) = f[N]  BY DEF ArgExtreme, IsBest, Best
  <2> QED  BY <2>2, <2>3
<1>3. \A k \in 1..N : g[k] = Best(g, k, s, most)  BY <1>2 DEF IsBest
<1> DEFINE U == {k \in 0..N - 1 : Extremal(s, most, k + 1, g[k + 1] + 1)}
<1> HIDE DEF N
<1>4. 0 \in U
  <2>1. g[1] = 0  BY <1>1, <1>3 DEF Best
  <2>2. 1 \in 1..N  BY <1>1
  <2>3. \A j \in 1..1 : j = 1  OBVIOUS
  <2>4. ~ \E j \in 1..1 - 1 : TRUE  OBVIOUS
  <2>5. s[1] # NaN => ~Beats(most, s[1], s[1])
    <3>1. s[1] # NaN => s[1] \in Int  BY <1>1, <2>2 DEF Value
    <3> QED  BY <3>1, BeatsIs
  <2>6. Extremal(s, most, 1, 1)  BY <2>3, <2>4, <2>5 DEF Extremal
  <2>7. 0 \in 0..N - 1 /\ 0 + 1 = 1  BY <1>1
  <2> QED  BY <2>1, <2>6, <2>7
<1>5. ASSUME NEW k \in 0..N - 1, k + 1 <= N - 1, k \in U  PROVE k + 1 \in U
  <2> DEFINE n == k + 1
             b == g[n] + 1
  <2>1. n \in 1..N - 1 /\ n + 1 \in 1..N /\ n + 1 # 1 /\ (n + 1) - 1 = n /\ n \in 0..N - 1  BY <1>1, <1>5
  <2>2. Extremal(s, most, n, b)  BY <1>5
  <2>3. b \in 1..n  BY <2>2 DEF Extremal
  <2> HIDE DEF n
  <2>4. g[n + 1] = IF s[g[n] + 1] # NaN /\ (s[n + 1] = NaN \/ Beats(most, s[n + 1], s[g[n] + 1])) THEN (n + 1) - 1 ELSE g[n]
    <3>1. g[n + 1] = Best(g, n + 1, s, most)  BY <1>3, <2>1
    <3> QED  BY <2>1, <3>1 DEF Best
  <2> DEFINE c == s[b] # NaN /\ (s[n + 1] = NaN \/ Beats(most, s[n + 1], s[b]))
  <2>5. Extremal(s, most, n + 1, IF c THEN n + 1 ELSE b)  BY <2>1, <2>2, ExtremalStep DEF N
  <2>6. g[n + 1] + 1 = IF c THEN n + 1 ELSE b
    <3>1. c => g[n + 1] = n  BY <2>1, <2>4
    <3>2. ~c => g[n + 1] = g[n]  BY <2>4
    <3> HIDE DEF c
    <3> QED  BY <3>1, <3>2
  <2>7. Extremal(s, most, n + 1, g[n + 1] + 1)  BY <2>5, <2>6
  <2> QED  BY <2>1, <2>7 DEF n
<1> HIDE DEF U
<1>6. \A k \in 0..N - 1 : k \in U
  <2>1. \A k \in 0..(N - 1) - 1 : k \in U => k + 1 \in U  BY <1>1, <1>5
  <2>2. N - 1 \in Nat  BY <1>1
  <2> DEFINE M == N - 1
  <2> HIDE DEF M
  <2> QED  BY <1>4, <2>1, <2>2, InductionTo DEF M
<1>7. N - 1 \in 0..N - 1 /\ (N - 1) + 1 = N  BY <1>1
<1>8. Extremal(s, most, N, g[N] + 1)
  <2>1. N - 1 \in U  BY <1>6, <1>7
  <2>2. Extremal(s, most, (N - 1) + 1, g[(N - 1) + 1] + 1)  BY <2>1 DEF U
  <2> QED  BY <1>7, <2>2
<1> QED  BY <1>2, <1>8 DEF N

\* CHOOSE finds the least, if there is one.
LEMMA FirstIs ==
  ASSUME NEW S \in SUBSET Nat, NEW b \in S, \A j \in S : b <= j
  PROVE  (CHOOSE k \in S : \A j \in S : k <= j) = b
<1> DEFINE c == CHOOSE k \in S : \A j \in S : k <= j
<1>1. c \in S /\ \A j \in S : c <= j  OBVIOUS
<1> HIDE DEF c
<1>2. c <= b /\ b <= c /\ c \in Nat /\ b \in Nat  BY <1>1
<1>3. c = b  BY <1>2
<1> QED  BY <1>3 DEF c

LEMMA ReductionsFine ==
  ASSUME IsArray(arr)
  PROVE  WholeArrayReductions
<1> DEFINE s == arr.data
           N == Len(s)
           nans == {k \in DOMAIN s : s[k] = NaN}
           First(S) == CHOOSE k \in S : \A j \in S : k =< j
           ext(most) == {k \in DOMAIN s : \A j \in DOMAIN s : IF most THEN s[j] =< s[k] ELSE s[j] >= s[k]}
<1>1. s \in Seq(Value) /\ Size(arr) = N  BY DEF IsArray
<1>2. N \in Nat /\ DOMAIN s = 1..N /\ (\A j \in 1..N : s[j] \in Value) /\ s = [k \in 1..N |-> s[k]]
  BY <1>1
<1>3. nans = {} => LaneSum(s) = Total(s)
  <2> SUFFICES ASSUME nans = {}  PROVE LaneSum(s) = Total(s)
    OBVIOUS
  <2>1. \A j \in 1..N : s[j] \in Int  BY <1>2 DEF Value
  <2> HIDE DEF s, N
  <2>2. s \in [1..N -> Int]  BY <1>2, <2>1
  <2>3. s \in Seq(Int)  BY <1>2, <2>2
  <2> QED  BY <2>3, LaneSumIs
<1>4. ASSUME Size(arr) > 0, NEW most \in BOOLEAN
      PROVE  ArgExtreme(s, most) + 1 = IF nans # {} THEN First(nans) ELSE First(ext(most))
  <2> DEFINE b == ArgExtreme(s, most) + 1
  <2>1. s # <<>>  BY <1>1, <1>4
  <2>2. Extremal(s, most, N, b)  BY <1>1, <2>1, ArgExtremeIs
  <2> HIDE DEF s, N, b
  <2>3. b \in 1..N  BY <2>2 DEF Extremal
  <2>4. CASE nans # {}
    <3>1. \E j \in 1..N : s[j] = NaN  BY <1>2, <2>4
    <3>2. s[b] = NaN /\ \A j \in 1..b - 1 : s[j] # NaN  BY <2>2, <3>1 DEF Extremal
    <3>3. b \in nans /\ nans \in SUBSET Nat  BY <1>2, <2>3, <3>2
    <3>4. \A j \in nans : b <= j
      <4> SUFFICES ASSUME NEW j \in nans, ~(b <= j)  PROVE FALSE
        OBVIOUS
      <4>1. j \in 1..N /\ s[j] = NaN  BY <1>2
      <4>2. j \in 1..b - 1  BY <1>2, <2>3, <4>1
      <4> QED  BY <3>2, <4>1, <4>2
    <3> HIDE DEF nans
    <3>5. First(nans) = b  BY <3>3, <3>4, FirstIs
    <3> QED  BY <2>4, <3>5 DEF b
  <2>5. CASE nans = {}
    <3> DEFINE S == ext(most)
    <3>1. \A j \in 1..N : s[j] \in Int /\ s[j] # NaN
      <4>1. \A j \in 1..N : s[j] # NaN  BY <1>2, <2>5
      <4> QED  BY <1>2, <4>1 DEF Value
    <3>2. /\ \A j \in 1..N : ~Beats(most, s[j], s[b])
          /\ \A j \in 1..b - 1 : Beats(most, s[b], s[j])
      BY <2>2, <3>1 DEF Extremal
    <3>3. \A j, k \in 1..N : ~Beats(most, s[j], s[k]) <=> IF most THEN s[j] <= s[k] ELSE s[j] >= s[k]
      BY <3>1, BeatsIs
    <3>4. b \in S
      <4>1. \A j \in 1..N : IF most THEN s[j] <= s[b] ELSE s[j] >= s[b]  BY <2>3, <3>2, <3>3
      <4> QED  BY <1>2, <2>3, <4>1
    <3>5. S \in SUBSET Nat  BY <1>2
    <3>6. \A j \in S : b <= j
      <4> SUFFICES ASSUME NEW j \in S, ~(b <= j)  PROVE FALSE
        OBVIOUS
      <4>1. j \in 1..N /\ IF most THEN s[b] <= s[j] ELSE s[b] >= s[j]  BY <1>2, <2>3
      <4>2. j \in 1..b - 1  BY <1>2, <2>3, <4>1
      <4>3. Beats(most, s[b], s[j])  BY <3>2, <4>2
      <4> QED  BY <2>3, <3>3, <4>1, <4>3
    <3> HIDE DEF S
    <3>7. First(S) = b  BY <3>4, <3>5, <3>6, FirstIs
    <3> QED  BY <2>5, <3>7 DEF b, S
  <2> QED  BY <2>4, <2>5
<1> QED  BY <1>3, <1>4 DEF WholeArrayReductions

-----------------------------------------------------------------------------
(* argsort.                                                                *)

\* The order of the values: NaN last, and only equal values are not in order.
LEMMA PrecedesIs ==
  ASSUME NEW x \in Value, NEW y \in Value, NEW z \in Value
  PROVE  /\ ~Precedes(x, x)
         /\ Precedes(x, y) => ~Precedes(y, x)
         /\ ~Precedes(x, y) /\ ~Precedes(y, x) => x = y
         /\ Precedes(x, y) /\ Precedes(y, z) => Precedes(x, z)
         /\ ~Precedes(y, x) /\ Precedes(y, z) => Precedes(x, z)
<1>1. NaN \notin Int  BY KernelsAssumption
<1>2. \A u, v \in Value : Precedes(u, v) <=> (u \in Int /\ v \in Int /\ u < v) \/ (u \in Int /\ v = NaN)
  BY <1>1 DEF Precedes, Less, Value
<1>3. (x \in Int \/ x = NaN) /\ (y \in Int \/ y = NaN) /\ (z \in Int \/ z = NaN)  BY DEF Value
<1>4. /\ Precedes(x, y) <=> (x \in Int /\ y \in Int /\ x < y) \/ (x \in Int /\ y = NaN)
      /\ Precedes(y, x) <=> (y \in Int /\ x \in Int /\ y < x) \/ (y \in Int /\ x = NaN)
      /\ Precedes(y, z) <=> (y \in Int /\ z \in Int /\ y < z) \/ (y \in Int /\ z = NaN)
      /\ Precedes(x, z) <=> (x \in Int /\ z \in Int /\ x < z) \/ (x \in Int /\ z = NaN)
      /\ Precedes(x, x) <=> (x \in Int /\ x \in Int /\ x < x) \/ (x \in Int /\ x = NaN)
  BY <1>2
<1>5. ~Precedes(x, x)  BY <1>1, <1>3, <1>4
<1>6. Precedes(x, y) => ~Precedes(y, x)  BY <1>1, <1>3, <1>4
<1>7. ~Precedes(x, y) /\ ~Precedes(y, x) => x = y  BY <1>1, <1>3, <1>4
<1>8. Precedes(x, y) /\ Precedes(y, z) => Precedes(x, z)  BY <1>1, <1>3, <1>4
<1>9. ~Precedes(y, x) /\ Precedes(y, z) => Precedes(x, z)  BY <1>1, <1>3, <1>4
<1> QED  BY <1>5, <1>6, <1>7, <1>8, <1>9

\* The order of the items: that of the values, ties by index.
LEMMA BeforeIs ==
  ASSUME NEW s \in Seq(Value), NEW i \in 1..Len(s), NEW j \in 1..Len(s)
  PROVE  ComesBefore(s, i, j) <=> Precedes(s[i], s[j]) \/ (s[i] = s[j] /\ i < j)
<1> DEFINE x == s[i]
           y == s[j]
<1>1. x \in Value /\ y \in Value  OBVIOUS
<1> HIDE DEF x, y
<1>2. /\ ~Precedes(x, x) /\ (Precedes(x, y) => ~Precedes(y, x))
      /\ (~Precedes(x, y) /\ ~Precedes(y, x) => x = y)
  BY <1>1, PrecedesIs
<1>3. (Precedes(x, y) \/ (~Precedes(y, x) /\ i < j)) <=> Precedes(x, y) \/ (x = y /\ i < j)  BY <1>2
<1> QED  BY <1>3 DEF ComesBefore, x, y

LEMMA BeforeOrders ==
  ASSUME NEW s \in Seq(Value), NEW i \in 1..Len(s), NEW j \in 1..Len(s), NEW k \in 1..Len(s)
  PROVE  /\ ~ComesBefore(s, i, i)
         /\ ComesBefore(s, i, j) => ~ComesBefore(s, j, i)
         /\ i # j => ComesBefore(s, i, j) \/ ComesBefore(s, j, i)
         /\ ComesBefore(s, i, j) /\ ComesBefore(s, j, k) => ComesBefore(s, i, k)
<1> DEFINE x == s[i]
           y == s[j]
           z == s[k]
<1>1. x \in Value /\ y \in Value /\ z \in Value  OBVIOUS
<1>2. /\ ComesBefore(s, i, i) <=> Precedes(x, x) \/ (x = x /\ i < i)
      /\ ComesBefore(s, i, j) <=> Precedes(x, y) \/ (x = y /\ i < j)
      /\ ComesBefore(s, j, i) <=> Precedes(y, x) \/ (y = x /\ j < i)
      /\ ComesBefore(s, j, k) <=> Precedes(y, z) \/ (y = z /\ j < k)
      /\ ComesBefore(s, i, k) <=> Precedes(x, z) \/ (x = z /\ i < k)
  <2>1. \A u, v \in 1..Len(s) : ComesBefore(s, u, v) <=> Precedes(s[u], s[v]) \/ (s[u] = s[v] /\ u < v)
    BY BeforeIs
  <2> QED  BY <2>1
<1>3. i \in Nat /\ j \in Nat /\ k \in Nat  OBVIOUS
<1> HIDE DEF x, y, z
<1>4. /\ ~Precedes(x, x) /\ (Precedes(x, y) => ~Precedes(y, x))
      /\ (~Precedes(x, y) /\ ~Precedes(y, x) => x = y)
      /\ (Precedes(x, y) /\ Precedes(y, z) => Precedes(x, z))
  BY <1>1, PrecedesIs
<1>5. ~ComesBefore(s, i, i)  BY <1>2, <1>3, <1>4
<1>6. ComesBefore(s, i, j) => ~ComesBefore(s, j, i)  BY <1>2, <1>3, <1>4
<1>7. i # j => ComesBefore(s, i, j) \/ ComesBefore(s, j, i)  BY <1>2, <1>3, <1>4
<1>8. ComesBefore(s, i, j) /\ ComesBefore(s, j, k) => ComesBefore(s, i, k)  BY <1>2, <1>3, <1>4
<1> QED  BY <1>5, <1>6, <1>7, <1>8

\* The items before the item j.
Earlier(s, j) == {i \in DOMAIN s : ComesBefore(s, i, j)}
PlaceOf(s, j)    == Cardinality(Earlier(s, j))

LEMMA PlaceOfIs ==
  ASSUME NEW s \in Seq(Value), NEW j \in 1..Len(s)
  PROVE  /\ IsFiniteSet(Earlier(s, j)) /\ PlaceOf(s, j) \in 0..Len(s) - 1
         /\ \A i \in 1..Len(s) : ComesBefore(s, i, j) => PlaceOf(s, i) < PlaceOf(s, j)
<1> DEFINE N == Len(s)
           E == Earlier(s, j)
<1>1. N \in Nat /\ DOMAIN s = 1..N  OBVIOUS
<1> HIDE DEF N
<1>2. IsFiniteSet(1..N) /\ Cardinality(1..N) = N
  <2>1. 1 \in Int /\ N \in Int  BY <1>1
  <2>2. IsFiniteSet(1..N) /\ Cardinality(1..N) = IF 1 > N THEN 0 ELSE N - 1 + 1  BY <2>1, FS_Interval
  <2> QED  BY <1>1, <2>2
<1>3. \A i \in 1..N : /\ Earlier(s, i) \in SUBSET ((1..N) \ {i})
                      /\ IsFiniteSet(Earlier(s, i)) /\ PlaceOf(s, i) \in 0..N - 1
  <2> SUFFICES ASSUME NEW i \in 1..N
               PROVE  /\ Earlier(s, i) \in SUBSET ((1..N) \ {i})
                      /\ IsFiniteSet(Earlier(s, i)) /\ PlaceOf(s, i) \in 0..N - 1
    OBVIOUS
  <2> DEFINE R == (1..N) \ {i}
             F == Earlier(s, i)
  <2>1. IsFiniteSet(R) /\ Cardinality(R) = N - 1
    <3>1. IsFiniteSet((1..N) \ {i}) /\ Cardinality((1..N) \ {i}) = Cardinality(1..N) - 1
      BY <1>2, FS_RemoveElement
    <3> QED  BY <1>2, <3>1
  <2>2. F \in SUBSET R
    <3>1. ~ComesBefore(s, i, i)  BY BeforeOrders DEF N
    <3> QED  BY <1>1, <3>1 DEF Earlier
  <2> HIDE DEF R, F
  <2>3. IsFiniteSet(F) /\ Cardinality(F) <= Cardinality(R)  BY <2>1, <2>2, FS_Subset
  <2>4. Cardinality(F) \in Nat  BY <2>3, FS_CardinalityType
  <2>5. Cardinality(F) \in 0..N - 1  BY <1>1, <2>1, <2>3, <2>4
  <2> QED  BY <2>2, <2>3, <2>5 DEF PlaceOf, R, F
<1>4. ASSUME NEW i \in 1..N, ComesBefore(s, i, j)  PROVE PlaceOf(s, i) < PlaceOf(s, j)
  <2> DEFINE F == Earlier(s, i)
  <2>0. j \in 1..N  BY DEF N
  <2>1. IsFiniteSet(E) /\ IsFiniteSet(F) /\ PlaceOf(s, i) \in Nat /\ PlaceOf(s, j) \in Nat  BY <1>1, <1>3, <2>0
  <2>2. F \in SUBSET E
    <3>1. \A k \in 1..N : ComesBefore(s, k, i) /\ ComesBefore(s, i, j) => ComesBefore(s, k, j)
      BY BeforeOrders DEF N
    <3> QED  BY <1>1, <1>4, <3>1 DEF Earlier
  <2>3. i \in E /\ i \notin F  BY <1>1, <1>3, <1>4 DEF Earlier
  <2> HIDE DEF E, F
  <2>4. Cardinality(F) <= Cardinality(E) /\ (Cardinality(E) = Cardinality(F) => E = F)  BY <2>1, <2>2, FS_Subset
  <2>5. Cardinality(F) # Cardinality(E)  BY <2>3, <2>4
  <2>6. PlaceOf(s, i) = Cardinality(F) /\ PlaceOf(s, j) = Cardinality(E)  BY DEF PlaceOf, E, F
  <2> QED  BY <2>1, <2>4, <2>5, <2>6
<1>5. j \in 1..N  BY DEF N
<1> QED  BY <1>3, <1>4, <1>5 DEF N

\* The item that comes k-th, from 1.
Nth(s, k) == Argsort(s)[k] + 1

\* Every item has a place of its own, and Argsort finds it.
LEMMA NthIs ==
  ASSUME NEW s \in Seq(Value)
  PROVE  /\ \A k \in 1..Len(s) : /\ Nth(s, k) \in 1..Len(s) /\ PlaceOf(s, Nth(s, k)) = k - 1
                                 /\ Argsort(s)[k] = Nth(s, k) - 1
         /\ \A j \in 1..Len(s) : PlaceOf(s, j) + 1 \in 1..Len(s) /\ Nth(s, PlaceOf(s, j) + 1) = j
<1> DEFINE N == Len(s)
           f == [j \in 1..N |-> PlaceOf(s, j)]
<1>1. N \in Nat /\ DOMAIN s = 1..N  OBVIOUS
<1>2. \A j \in 1..N : PlaceOf(s, j) \in 0..N - 1  BY PlaceOfIs
<1>3. \A i, j \in 1..N : PlaceOf(s, i) = PlaceOf(s, j) => i = j
  <2> SUFFICES ASSUME NEW i \in 1..N, NEW j \in 1..N, PlaceOf(s, i) = PlaceOf(s, j), i # j  PROVE FALSE
    OBVIOUS
  <2>1. ComesBefore(s, i, j) \/ ComesBefore(s, j, i)  BY BeforeOrders
  <2>2. PlaceOf(s, i) < PlaceOf(s, j) \/ PlaceOf(s, j) < PlaceOf(s, i)  BY <2>1, PlaceOfIs
  <2>3. PlaceOf(s, i) \in Int /\ PlaceOf(s, j) \in Int  BY <1>2
  <2> QED  BY <2>2, <2>3
<1> HIDE DEF N
<1>4. \A k \in 1..N : \E j \in 1..N : PlaceOf(s, j) = k - 1
  <2> DEFINE S == 1..N
             T == 0..N - 1
  <2>1. IsFiniteSet(T) /\ Cardinality(T) = N
    <3>1. 0 \in Int /\ N - 1 \in Int  BY <1>1
    <3>2. IsFiniteSet(0..N - 1) /\ Cardinality(0..N - 1) = IF 0 > N - 1 THEN 0 ELSE (N - 1) - 0 + 1
      BY <3>1, FS_Interval
    <3> QED  BY <1>1, <3>2
  <2>2. Cardinality(S) = N
    <3>1. 1 \in Int /\ N \in Int  BY <1>1
    <3>2. Cardinality(1..N) = IF 1 > N THEN 0 ELSE N - 1 + 1  BY <3>1, FS_Interval
    <3> QED  BY <1>1, <3>2
  <2>3. f \in [S -> T] /\ \A j \in S : f[j] = PlaceOf(s, j)  BY <1>2
  <2> HIDE DEF f
  <2>4. \A i, j \in S : f[i] = f[j] => i = j  BY <1>3, <2>3
  <2>5. f \in Injection(S, T)  BY <2>3, <2>4 DEF Injection, IsInjective
  <2>6. \A k \in S : k - 1 \in T  BY <1>1
  <2> HIDE DEF S, T
  <2>7. Cardinality(S) = Cardinality(T) <=> f \in Surjection(S, T)  BY <2>1, <2>5, FS_Injection
  <2>8. \A t \in T : \E j \in S : f[j] = t  BY <2>1, <2>2, <2>7 DEF Surjection
  <2>9. \A t \in T : \E j \in S : PlaceOf(s, j) = t  BY <2>3, <2>8
  <2> QED  BY <2>6, <2>9 DEF S
<1>5. \A k \in 1..N : /\ Nth(s, k) \in 1..N /\ PlaceOf(s, Nth(s, k)) = k - 1
                      /\ Argsort(s)[k] = Nth(s, k) - 1
  <2> SUFFICES ASSUME NEW k \in 1..N
               PROVE  /\ Nth(s, k) \in 1..N /\ PlaceOf(s, Nth(s, k)) = k - 1
                      /\ Argsort(s)[k] = Nth(s, k) - 1
    OBVIOUS
  <2> DEFINE places == {<<j, PlaceOf(s, j)>> : j \in DOMAIN s}
             c == CHOOSE j \in DOMAIN s : <<j, k - 1>> \in places
  <2>1. \A j \in 1..N : <<j, k - 1>> \in places <=> PlaceOf(s, j) = k - 1  BY <1>1
  <2>2. \E j \in DOMAIN s : <<j, k - 1>> \in places  BY <1>1, <1>4, <2>1
  <2>3. c \in DOMAIN s /\ <<c, k - 1>> \in places
    <3> HIDE DEF places
    <3> QED  BY <2>2
  <2>4. Argsort(s)[k] = c - 1  BY <1>1 DEF Argsort, PlaceOf, Earlier
  <2> HIDE DEF places, c
  <2>5. c \in 1..N /\ PlaceOf(s, c) = k - 1  BY <1>1, <2>1, <2>3
  <2>6. Nth(s, k) = c  BY <2>4, <2>5 DEF Nth
  <2> QED  BY <2>4, <2>5, <2>6
<1>6. \A j \in 1..N : PlaceOf(s, j) + 1 \in 1..N /\ Nth(s, PlaceOf(s, j) + 1) = j
  <2> SUFFICES ASSUME NEW j \in 1..N  PROVE PlaceOf(s, j) + 1 \in 1..N /\ Nth(s, PlaceOf(s, j) + 1) = j
    OBVIOUS
  <2> DEFINE r == PlaceOf(s, j)
             k == r + 1
  <2>1. r \in 0..N - 1  BY <1>2
  <2> HIDE DEF r
  <2>2. k \in 1..N /\ k - 1 = r  BY <1>1, <2>1
  <2> HIDE DEF k
  <2>3. Nth(s, k) \in 1..N /\ PlaceOf(s, Nth(s, k)) = r  BY <1>5, <2>2
  <2>4. Nth(s, k) = j  BY <1>3, <2>3 DEF r
  <2> QED  BY <2>2, <2>4 DEF k, r
<1> QED  BY <1>5, <1>6 DEF N

LEMMA NthOrders ==
  ASSUME NEW s \in Seq(Value), NEW j \in 1..Len(s), NEW k \in 1..Len(s), j < k
  PROVE  ComesBefore(s, Nth(s, j), Nth(s, k))
<1> DEFINE a == Nth(s, j)
           b == Nth(s, k)
<1>1. a \in 1..Len(s) /\ b \in 1..Len(s) /\ PlaceOf(s, a) = j - 1 /\ PlaceOf(s, b) = k - 1  BY NthIs
<1> HIDE DEF a, b
<1>2. a # b  BY <1>1
<1>3. ~ComesBefore(s, b, a)
  <2>1. ComesBefore(s, b, a) => PlaceOf(s, b) < PlaceOf(s, a)  BY <1>1, PlaceOfIs
  <2>2. j \in Int /\ k \in Int  OBVIOUS
  <2> QED  BY <1>1, <2>1, <2>2
<1>4. ComesBefore(s, a, b) \/ ComesBefore(s, b, a)  BY <1>1, <1>2, BeforeOrders
<1> QED  BY <1>3, <1>4 DEF a, b

\* The items with smaller values, and those with values that are not larger.
Lower(s, v)   == {i \in DOMAIN s : Precedes(s[i], v)}
NotOver(s, v) == {i \in DOMAIN s : ~Precedes(v, s[i])}

\* The k-th value has less than k below it, and at least k up to it.
LEMMA NthValue ==
  ASSUME NEW s \in Seq(Value), NEW k \in 1..Len(s), NEW v, v = s[Nth(s, k)]
  PROVE  /\ v \in Value
         /\ IsFiniteSet(Lower(s, v)) /\ Cardinality(Lower(s, v)) <= k - 1 /\ Cardinality(Lower(s, v)) \in Nat
         /\ IsFiniteSet(NotOver(s, v)) /\ k <= Cardinality(NotOver(s, v)) /\ Cardinality(NotOver(s, v)) \in Nat
<1> DEFINE N == Len(s)
           j == Nth(s, k)
           E == Earlier(s, j)
           L == Lower(s, v)
           U == NotOver(s, v)
<1>1. N \in Nat /\ DOMAIN s = 1..N /\ \A i \in 1..N : s[i] \in Value  OBVIOUS
<1>2. j \in 1..N /\ Cardinality(E) = k - 1 /\ v = s[j]  BY NthIs DEF PlaceOf
<1>3. IsFiniteSet(E)  BY <1>2, PlaceOfIs
<1>4. v \in Value  BY <1>1, <1>2
<1> HIDE DEF j
<1>5. \A i \in 1..N : ComesBefore(s, i, j) <=> Precedes(s[i], v) \/ (s[i] = v /\ i < j)
  BY <1>2, BeforeIs
<1> HIDE DEF N
<1>6. L \in SUBSET E  BY <1>1, <1>5 DEF Lower, Earlier
<1>7. E \cup {j} \in SUBSET U
  <2> SUFFICES ASSUME NEW i \in E \cup {j}  PROVE i \in U
    OBVIOUS
  <2>1. i \in 1..N  BY <1>1, <1>2 DEF Earlier
  <2>2. Precedes(s[i], v) \/ s[i] = v  BY <1>1, <1>2, <1>5 DEF Earlier
  <2>3. s[i] \in Value  BY <1>1, <2>1
  <2>4. ~Precedes(v, v) /\ (Precedes(s[i], v) => ~Precedes(v, s[i]))  BY <1>4, <2>3, PrecedesIs
  <2> QED  BY <1>1, <2>1, <2>2, <2>4 DEF NotOver
<1>8. j \notin E
  <2>1. ~ComesBefore(s, j, j)  BY <1>2, BeforeOrders DEF N
  <2> QED  BY <2>1 DEF Earlier
<1>9. U \in SUBSET (1..N) /\ IsFiniteSet(1..N)
  <2>1. 1 \in Int /\ N \in Int  BY <1>1
  <2> QED  BY <1>1, <2>1, FS_Interval DEF NotOver
<1> HIDE DEF E, L, U
<1>10. IsFiniteSet(U)  BY <1>9, FS_Subset
<1>11. Cardinality(E \cup {j}) = k
  <2>1. Cardinality(E \cup {j}) = Cardinality(E) + 1  BY <1>3, <1>8, FS_AddElement
  <2>2. k \in Int  OBVIOUS
  <2> QED  BY <1>2, <2>1, <2>2
<1>12. k <= Cardinality(U) /\ Cardinality(U) \in Nat
  <2>1. Cardinality(E \cup {j}) <= Cardinality(U)  BY <1>7, <1>10, FS_Subset
  <2> QED  BY <1>10, <1>11, <2>1, FS_CardinalityType
<1>13. IsFiniteSet(L) /\ Cardinality(L) <= k - 1
  <2>1. IsFiniteSet(L) /\ Cardinality(L) <= Cardinality(E)  BY <1>3, <1>6, FS_Subset
  <2> QED  BY <1>2, <2>1
<1>14. Cardinality(L) \in Nat  BY <1>13, FS_CardinalityType
<1> QED  BY <1>4, <1>10, <1>12, <1>13, <1>14 DEF L, U

\* Reversed data has as many items below a value.
LEMMA LowerReversed ==
  ASSUME NEW s \in Seq(Value), NEW v
  PROVE  Cardinality(Lower(Reverse(s), v)) = Cardinality(Lower(s, v))
<1> DEFINE N == Len(s)
           t == Reverse(s)
           S == Lower(s, v)
           T == Lower(t, v)
           f == [i \in S |-> N + 1 - i]
<1>1. N \in Nat /\ DOMAIN s = 1..N  OBVIOUS
<1> HIDE DEF N
<1>2. DOMAIN t = 1..N /\ \A i \in 1..N : t[i] = s[N - i + 1]  BY DEF Reverse, N
<1> HIDE DEF t
<1>3. \A i \in 1..N : N + 1 - i \in 1..N /\ N + 1 - (N + 1 - i) = i /\ N - i + 1 = N + 1 - i  BY <1>1
<1>4. \A i \in 1..N : (i \in T <=> Precedes(t[i], v)) /\ (i \in S <=> Precedes(s[i], v))
  BY <1>1, <1>2 DEF Lower
<1>5. S \in SUBSET (1..N) /\ T \in SUBSET (1..N)  BY <1>1, <1>2 DEF Lower
<1> HIDE DEF S, T
<1>6. \A i \in 1..N : N + 1 - i \in T <=> i \in S
  <2> SUFFICES ASSUME NEW i \in 1..N  PROVE N + 1 - i \in T <=> i \in S
    OBVIOUS
  <2> DEFINE j == N + 1 - i
  <2>1. j \in 1..N /\ N + 1 - j = i /\ N - j + 1 = i  BY <1>1, <1>3
  <2> HIDE DEF j
  <2>2. t[j] = s[i]  BY <1>2, <2>1
  <2>3. j \in T <=> i \in S  BY <1>4, <2>1, <2>2
  <2> QED  BY <2>3 DEF j
<1>7. \A i \in S : f[i] = N + 1 - i  OBVIOUS
<1>8. f \in [S -> T]  BY <1>5, <1>6
<1> HIDE DEF f
<1>9. \A i, j \in S : f[i] = f[j] => i = j
  <2>1. \A i, j \in 1..N : N + 1 - i = N + 1 - j => i = j  BY <1>1
  <2> QED  BY <1>5, <1>7, <2>1
<1>10. \A j \in T : \E i \in S : f[i] = j
  <2> SUFFICES ASSUME NEW j \in T  PROVE \E i \in S : f[i] = j
    OBVIOUS
  <2> DEFINE i == N + 1 - j
  <2>1. i \in 1..N /\ N + 1 - i = j  BY <1>3, <1>5
  <2> HIDE DEF i
  <2>2. i \in S  BY <1>6, <2>1
  <2> QED  BY <1>7, <2>1, <2>2
<1>11. f \in Bijection(S, T)  BY <1>8, <1>9, <1>10 DEF Bijection, Injection, Surjection, IsInjective
<1>12. IsFiniteSet(S)
  <2>1. 1 \in Int /\ N \in Int  BY <1>1
  <2>2. IsFiniteSet(1..N)  BY <2>1, FS_Interval
  <2> QED  BY <1>5, <2>2, FS_Subset
<1>13. ExistsBijection(S, T)  BY <1>11 DEF ExistsBijection
<1> QED  BY <1>12, <1>13, FS_Bijection DEF S, T, t

\* Sorting does not see the order of the data.
LEMMA SortedReversed ==
  ASSUME NEW s \in Seq(Value), NEW k \in 1..Len(s)
  PROVE  Reverse(s)[Nth(Reverse(s), k)] = s[Nth(s, k)]
<1> DEFINE N == Len(s)
           t == Reverse(s)
           v == s[Nth(s, k)]
           w == t[Nth(t, k)]
<1>1. t \in Seq(Value) /\ Len(t) = N  BY DEF Reverse
<1>2. k \in 1..Len(t) /\ k \in Int  BY <1>1
<1>3. /\ v \in Value /\ Cardinality(Lower(s, v)) <= k - 1 /\ k <= Cardinality(NotOver(s, v))
      /\ IsFiniteSet(Lower(s, v)) /\ Cardinality(Lower(s, v)) \in Nat /\ Cardinality(NotOver(s, v)) \in Nat
  BY NthValue
<1>4. /\ w \in Value /\ Cardinality(Lower(t, w)) <= k - 1 /\ k <= Cardinality(NotOver(t, w))
      /\ IsFiniteSet(Lower(t, w)) /\ Cardinality(Lower(t, w)) \in Nat /\ Cardinality(NotOver(t, w)) \in Nat
  <2> HIDE DEF t
  <2> QED  BY <1>1, <1>2, NthValue
<1>5. Cardinality(Lower(t, w)) = Cardinality(Lower(s, w)) /\ Cardinality(Lower(t, v)) = Cardinality(Lower(s, v))
  BY LowerReversed
<1>6. \A i \in 1..N : s[i] \in Value /\ t[i] \in Value
  <2>1. \A i \in 1..N : s[i] \in Value  OBVIOUS
  <2> HIDE DEF t, N
  <2>2. \A i \in 1..N : t[i] \in Value  BY <1>1
  <2> QED  BY <2>1, <2>2
<1>7. DOMAIN s = 1..N /\ DOMAIN t = 1..N
  <2>1. DOMAIN s = 1..N  OBVIOUS
  <2> HIDE DEF t, N
  <2>2. DOMAIN t = 1..N  BY <1>1
  <2> QED  BY <2>1, <2>2
<1> HIDE DEF N, t, v, w
<1>8. IsFiniteSet(Lower(s, w)) /\ IsFiniteSet(Lower(t, v))
  <2>1. N \in Nat  BY DEF N
  <2>2. 1 \in Int /\ N \in Int  BY <2>1
  <2>3. IsFiniteSet(1..N)  BY <2>2, FS_Interval
  <2>4. Lower(s, w) \in SUBSET (1..N) /\ Lower(t, v) \in SUBSET (1..N)  BY <1>7 DEF Lower
  <2> QED  BY <2>3, <2>4, FS_Subset
<1>9. ~Precedes(v, w)
  <2> SUFFICES ASSUME Precedes(v, w)  PROVE FALSE
    OBVIOUS
  <2>1. NotOver(s, v) \in SUBSET Lower(s, w)
    <3>1. \A i \in 1..N : ~Precedes(v, s[i]) => Precedes(s[i], w)  BY <1>3, <1>4, <1>6, PrecedesIs
    <3> QED  BY <1>7, <3>1 DEF NotOver, Lower
  <2>2. Cardinality(NotOver(s, v)) <= Cardinality(Lower(s, w))  BY <1>8, <2>1, FS_Subset
  <2> QED  BY <1>2, <1>3, <1>4, <1>5, <2>2
<1>10. ~Precedes(w, v)
  <2> SUFFICES ASSUME Precedes(w, v)  PROVE FALSE
    OBVIOUS
  <2>1. NotOver(t, w) \in SUBSET Lower(t, v)
    <3>1. \A i \in 1..N : ~Precedes(w, t[i]) => Precedes(t[i], v)  BY <1>3, <1>4, <1>6, PrecedesIs
    <3> QED  BY <1>7, <3>1 DEF NotOver, Lower
  <2>2. Cardinality(NotOver(t, w)) <= Cardinality(Lower(t, v))  BY <1>8, <2>1, FS_Subset
  <2> QED  BY <1>2, <1>3, <1>4, <1>5, <2>2
<1>11. v = w  BY <1>3, <1>4, <1>9, <1>10, PrecedesIs
<1> QED  BY <1>11 DEF v, w, t

\* argsort(descending=True), in terms of the order of the reversed data.
LEMMA DescendingIs ==
  ASSUME NEW s \in Seq(Value), NEW k \in 1..Len(s)
  PROVE  LET a == Len(s) + 1 - k
             q == Nth(Reverse(s), a)
         IN  /\ a \in 1..Len(s) /\ q \in 1..Len(s)
             /\ ArgsortDescending(s)[k] = Len(s) - q
             /\ s[ArgsortDescending(s)[k] + 1] = Reverse(s)[q]
<1> DEFINE N == Len(s)
           t == Reverse(s)
           a == N + 1 - k
           q == Nth(t, a)
           o == Argsort(t)
<1>1. N \in Nat /\ DOMAIN s = 1..N /\ a \in 1..N /\ N - k + 1 = a  OBVIOUS
<1>2. t \in Seq(Value) /\ Len(t) = N /\ \A i \in 1..N : t[i] = s[N - i + 1]  BY DEF Reverse
<1> HIDE DEF t, N, a
<1>3. DOMAIN t = 1..N  BY <1>2
<1>4. q \in 1..N /\ Argsort(t)[a] = q - 1  BY <1>1, <1>2, NthIs
<1>5. Len(o) = N
  <2>1. DOMAIN o = 1..N  BY <1>3 DEF Argsort
  <2>2. o = [i \in 1..N |-> o[i]]  BY <1>3 DEF Argsort
  <2> HIDE DEF o
  <2> QED  BY <1>1, <2>2
<1> HIDE DEF o
<1>6. Reverse(o) = [i \in 1..N |-> o[N - i + 1]]  BY <1>5 DEF Reverse
<1>7. Reverse(o)[k] = o[a]  BY <1>1, <1>6 DEF N
<1>8. ArgsortDescending(s)[k] = N - 1 - Reverse(o)[k]  BY <1>1 DEF ArgsortDescending, o, t, N
<1>9. o[a] = q - 1  BY <1>4 DEF o
<1> HIDE DEF q
<1>11. ArgsortDescending(s)[k] = N - q  BY <1>1, <1>4, <1>7, <1>8, <1>9
<1>12. N - q + 1 = (N - q) + 1 /\ t[q] = s[N - q + 1]  BY <1>1, <1>2, <1>4
<1>13. s[ArgsortDescending(s)[k] + 1] = t[q]  BY <1>11, <1>12
<1> QED  BY <1>1, <1>4, <1>11, <1>13 DEF q, a, t, N

LEMMA DescendingFine ==
  ASSUME IsArray(arr)
  PROVE  DescendingIsStable
<1> DEFINE s == arr.data
           N == Len(s)
           t == Reverse(s)
           order == ArgsortDescending(s)
           Q(k) == Nth(t, N + 1 - k)
<1>1. s \in Seq(Value)  BY DEF IsArray
<1>2. N \in Nat /\ DOMAIN s = 1..N  BY <1>1
<1>3. t \in Seq(Value) /\ Len(t) = N  BY <1>1 DEF Reverse
<1>4. DOMAIN order = 1..N  BY <1>2 DEF ArgsortDescending
<1> HIDE DEF s, t, order
<1>5. \A k \in 1..N : /\ N + 1 - k \in 1..N /\ Q(k) \in 1..N
                      /\ order[k] = N - Q(k) /\ s[order[k] + 1] = t[Q(k)]
  BY <1>1, DescendingIs DEF order, t
<1> HIDE DEF N, Q
<1>6. ToSet(order) = {k - 1 : k \in DOMAIN s}
  <2>1. \A k \in 1..N : order[k] \in {j - 1 : j \in 1..N}
    <3> SUFFICES ASSUME NEW k \in 1..N  PROVE \E j \in 1..N : order[k] = j - 1
      OBVIOUS
    <3> DEFINE j == N - Q(k) + 1
    <3>1. Q(k) \in 1..N /\ order[k] = N - Q(k)  BY <1>5
    <3>2. j \in 1..N /\ j - 1 = N - Q(k)  BY <1>2, <3>1
    <3> HIDE DEF j
    <3> QED  BY <3>1, <3>2
  <2>2. \A j \in 1..N : \E k \in 1..N : order[k] = j - 1
    <3> SUFFICES ASSUME NEW j \in 1..N  PROVE \E k \in 1..N : order[k] = j - 1
      OBVIOUS
    <3> DEFINE i == N + 1 - j
               a == PlaceOf(t, i) + 1
               k == N + 1 - a
    <3>1. i \in 1..N /\ N - i = j - 1  BY <1>2
    <3> HIDE DEF i
    <3>2. a \in 1..N /\ Nth(t, a) = i  BY <1>3, <3>1, NthIs
    <3> HIDE DEF a
    <3>3. k \in 1..N /\ N + 1 - k = a  BY <1>2, <3>2
    <3> HIDE DEF k
    <3>4. Q(k) = i  BY <3>2, <3>3 DEF Q
    <3>5. order[k] = N - i  BY <1>5, <3>3, <3>4
    <3> QED  BY <3>1, <3>3, <3>5
  <2>3. ToSet(order) = {order[k] : k \in 1..N}  BY <1>4 DEF ToSet
  <2> QED  BY <1>2, <2>1, <2>2, <2>3
<1>7. [k \in DOMAIN s |-> s[order[k] + 1]] = SortedDescending(s)
  <2> DEFINE sorted == Sorted(s)
  <2>1. DOMAIN sorted = 1..N /\ \A k \in 1..N : sorted[k] = s[Nth(s, k)]  BY <1>2 DEF Sorted, Nth
  <2>2. sorted = [k \in 1..N |-> sorted[k]]  BY <1>2 DEF Sorted
  <2> HIDE DEF sorted
  <2>3. Len(sorted) = N  BY <1>2, <2>2
  <2>4. SortedDescending(s) = [k \in 1..N |-> sorted[N - k + 1]]  BY <2>3 DEF SortedDescending, Reverse, sorted
  <2>5. ASSUME NEW k \in 1..N  PROVE s[order[k] + 1] = sorted[N - k + 1]
    <3> DEFINE a == N + 1 - k
    <3>1. a \in 1..N /\ N - k + 1 = a  BY <1>2
    <3> HIDE DEF a
    <3>2. s[order[k] + 1] = t[Nth(t, a)]  BY <1>5 DEF Q, a
    <3>3. t[Nth(t, a)] = s[Nth(s, a)]  BY <1>1, <3>1, SortedReversed DEF t, N
    <3> QED  BY <2>1, <3>1, <3>2, <3>3
  <2> QED  BY <1>2, <2>4, <2>5
<1>8. ASSUME NEW j \in 1..N, NEW k \in 1..N, j < k, s[order[j] + 1] = s[order[k] + 1]
      PROVE  order[j] < order[k]
  <2> DEFINE a == N + 1 - j
             b == N + 1 - k
             x == Q(j)
             y == Q(k)
  <2>1. a \in 1..N /\ b \in 1..N /\ b < a  BY <1>2, <1>8
  <2> HIDE DEF a, b
  <2>2. /\ x \in 1..N /\ order[j] = N - x /\ s[order[j] + 1] = t[x]
        /\ y \in 1..N /\ order[k] = N - y /\ s[order[k] + 1] = t[y]
    BY <1>5
  <2>3. ComesBefore(t, Nth(t, b), Nth(t, a))  BY <1>3, <2>1, NthOrders
  <2>4. ComesBefore(t, y, x)  BY <2>3 DEF Q, a, b
  <2> HIDE DEF x, y
  <2>5. t[x] = t[y]  BY <1>8, <2>2
  <2>6. Precedes(t[y], t[x]) \/ (t[y] = t[x] /\ y < x)
    BY <1>3, <2>2, <2>4, BeforeIs
  <2>7. ~Precedes(t[x], t[x])
    <3>1. t[x] \in Value  BY <1>3, <2>2
    <3> QED  BY <3>1, PrecedesIs
  <2>8. y < x  BY <2>5, <2>6, <2>7
  <2> QED  BY <1>2, <2>2, <2>8
<1> QED  BY <1>2, <1>6, <1>7, <1>8 DEF DescendingIsStable, s, order

-----------------------------------------------------------------------------
(* Every chain of operations.                                              *)

\* An operation that made `results`; a panic is a refusal.
Acted(results, expected) ==
  /\ ops < MaxOps /\ ops' = ops + 1
  /\ refused' = (expected = {})
  /\ \/ results = {} /\ outcome' \in {"error", "panic"} /\ UNCHANGED <<arr, ideal>>
     \/ /\ outcome' = "ok" /\ arr' \in results
        /\ IF expected = {} THEN UNCHANGED ideal ELSE ideal' \in expected

LEMMA MadeActs ==
  ASSUME NEW results, NEW expected, Made(results, expected)
  PROVE  Acted(results, expected)
BY DEF Made, Acted

LEMMA MeanActs ==
  ASSUME NEW axis, Mean(axis)
  PROVE  Acted(MeanResults(arr, axis), NumpyMean(ideal, axis))
<1> DEFINE results == MeanResults(arr, axis)
           expected == NumpyMean(ideal, axis)
<1>1. CASE MeanLength(arr, axis) = {}
  <2>1. /\ ops < MaxOps /\ ops' = ops + 1 /\ outcome' = "panic"
        /\ refused' = (expected = {}) /\ UNCHANGED <<arr, ideal>>
    BY <1>1 DEF Mean
  <2>2. results = {}  BY <1>1 DEF MeanResults
  <2> HIDE DEF results, expected
  <2> QED  BY <2>1, <2>2 DEF Acted, results, expected
<1>2. CASE MeanLength(arr, axis) # {}
  <2>1. Made(results, expected)  BY <1>2 DEF Mean, MeanResults, Divided
  <2> HIDE DEF results, expected
  <2> QED  BY <2>1, MadeActs DEF results, expected
<1> QED  BY <1>1, <1>2

\* The invariant: an array, and NumPy's wherever the two can be compared.
IInv == TypeOK /\ (Comparable => ResultsMatchNumPy /\ RefusesWithNumPy)

LEMMA ActedKeeps ==
  ASSUME IInv, NEW results, NEW expected, Acted(results, expected), Good(results, expected, arr, ideal)
  PROVE  IInv'
<1>1. IsArray(arr) /\ ops \in 0..MaxOps /\ MaxOps \in Nat  BY KernelsAssumption DEF IInv, TypeOK
<1>2. ops' \in 0..MaxOps /\ refused' \in BOOLEAN /\ outcome' \in {"ok", "error", "panic"}
  BY <1>1 DEF Acted
<1>3. \A r \in results : IsArray(r)  BY DEF Good
<1>4. IsArray(arr')  BY <1>1, <1>3 DEF Acted
<1>5. TypeOK'  BY <1>2, <1>4 DEF TypeOK
<1>6. ASSUME Comparable  PROVE ResultsMatchNumPy' /\ RefusesWithNumPy'
  <2>1. ideal = IdealOf(arr)  BY <1>6 DEF IInv, ResultsMatchNumPy
  <2>2. Faithful(results, expected) /\ Justified(results, expected, arr)  BY <1>6, <2>1 DEF Good
  <2>3. CASE results = {} /\ outcome' \in {"error", "panic"} /\ UNCHANGED <<arr, ideal>>
    <3>1. ideal' = IdealOf(arr')  BY <2>1, <2>3
    <3>2. outcome' # "ok"  BY <2>3
    <3>3. Size(arr') > 0 /\ Ndim(arr'.shape) \in 1..MAX_NDIM - 1 => expected = {}
      BY <2>2, <2>3 DEF Justified
    <3>4. refused' = (expected = {})  BY DEF Acted
    <3>5. ResultsMatchNumPy'  BY <3>1 DEF ResultsMatchNumPy
    <3>6. RefusesWithNumPy'  BY <3>2, <3>3, <3>4 DEF RefusesWithNumPy
    <3> QED  BY <3>5, <3>6
  <2>4. CASE /\ outcome' = "ok" /\ arr' \in results
             /\ IF expected = {} THEN UNCHANGED ideal ELSE ideal' \in expected
    <3>1. expected = {IdealOf(arr')}  BY <2>2, <2>4 DEF Faithful
    <3>2. ideal' = IdealOf(arr') /\ ~refused'  BY <2>4, <3>1 DEF Acted
    <3>3. ResultsMatchNumPy'  BY <3>2 DEF ResultsMatchNumPy
    <3>4. RefusesWithNumPy'  BY <2>4, <3>2 DEF RefusesWithNumPy
    <3> QED  BY <3>3, <3>4
  <2> QED  BY <2>3, <2>4 DEF Acted
<1> QED  BY <1>5, <1>6 DEF IInv

LEMMA MadeKeeps ==
  ASSUME IInv, NEW results, NEW expected, Made(results, expected), Good(results, expected, arr, ideal)
  PROVE  IInv'
BY MadeActs, ActedKeeps

LEMMA StartsFine == Init => IInv
<1> SUFFICES ASSUME Init  PROVE IInv
  OBVIOUS
<1>1. IsArray(arr) /\ MaxOps \in Nat  BY KernelsAssumption DEF Init
<1>2. TypeOK
  <2>1. ops \in 0..MaxOps
    <3>1. ops = 0  BY DEF Init
    <3> QED  BY <1>1, <3>1
  <2>2. refused \in BOOLEAN /\ outcome \in {"ok", "error", "panic"}  BY DEF Init
  <2>3. IsArray(arr)  BY <1>1
  <2> QED  BY <2>1, <2>2, <2>3 DEF TypeOK
<1>3. ResultsMatchNumPy  BY DEF Init, ResultsMatchNumPy
<1>4. RefusesWithNumPy  BY DEF Init, RefusesWithNumPy
<1> QED  BY <1>2, <1>3, <1>4 DEF IInv

LEMMA NextKeeps == IInv /\ [Next]_vars => IInv'
<1> SUFFICES ASSUME IInv, [Next]_vars  PROVE IInv'
  OBVIOUS
<1>1. IsArray(arr) /\ 1 \in Value /\ 0 \in Value  BY DEF IInv, TypeOK, Value
<1>2. (\A b \in Arrays : IsArray(b)) /\ Axes \subseteq Int  BY KernelsAssumption
<1>3. ASSUME NEW key \in Keys, GetItem(key)  PROVE IInv'
  <2>1. Made(GetResults(arr, key), NumpyGet(ideal, key))  BY <1>3 DEF GetItem, GetResults
  <2>2. Good(GetResults(arr, key), NumpyGet(ideal, key), arr, ideal)  BY <1>1, GetGood
  <2> QED  BY <2>1, <2>2, MadeKeeps
<1>4. ASSUME NEW key \in Keys, SetItem(key, 1)  PROVE IInv'
  <2>1. Made(SetResults(arr, key, 1), NumpySet(ideal, key, 1))  BY <1>4 DEF SetItem, SetResults, PutAt
  <2>2. Good(SetResults(arr, key, 1), NumpySet(ideal, key, 1), arr, ideal)  BY <1>1, SetGood
  <2> QED  BY <2>1, <2>2, MadeKeeps
<1>5. ASSUME NEW b \in Arrays, Filter(b)  PROVE IInv'
  <2>1. IsArray(b)  BY <1>2
  <2> QED  BY <1>1, <1>5, <2>1, FilterGood, MadeKeeps DEF Filter
<1>6. ASSUME NEW b \in Arrays, Choose(b)  PROVE IInv'
  <2>1. IsArray(b)  BY <1>2
  <2> QED  BY <1>1, <1>6, <2>1, ChooseGood, MadeKeeps DEF Choose
<1>7. ASSUME NEW start \in Bounds, NEW stop \in Bounds, NEW step \in Bounds, Create(start, stop, step)  PROVE IInv'
  BY <1>7, CreateGood, MadeKeeps DEF Create
<1>8. ASSUME NEW f \in Operations, NEW b \in Arrays, Binary(f, b)  PROVE IInv'
  <2>1. IsArray(b)  BY <1>2
  <2> QED  BY <1>1, <1>8, <2>1, BinaryGood, MadeKeeps DEF Binary
<1>9. ASSUME NEW f \in Operations, NEW b \in Arrays, Inplace(f, b)  PROVE IInv'
  <2>1. IsArray(b)  BY <1>2
  <2> QED  BY <1>1, <1>9, <2>1, InplaceGood, MadeKeeps DEF Inplace
<1>10. ASSUME NEW axis \in Axes, Reduce("mix", axis, 0)  PROVE IInv'
  <2>1. axis \in Int  BY <1>2
  <2> QED  BY <1>1, <1>10, <2>1, ReduceGood, MadeKeeps DEF Reduce
<1>11. ASSUME NEW axis \in Axes, Reduce("max", axis, None)  PROVE IInv'
  <2>1. axis \in Int  BY <1>2
  <2> QED  BY <1>1, <1>11, <2>1, ReduceGood, MadeKeeps DEF Reduce
<1>12. ASSUME NEW axis \in Axes, Mean(axis)  PROVE IInv'
  <2>1. axis \in Int  BY <1>2
  <2> QED  BY <1>1, <1>12, <2>1, MeanActs, MeanGood, ActedKeeps
<1>13. ASSUME Running("mix", 1)  PROVE IInv'
  BY <1>1, <1>13, RunningGood, MadeKeeps DEF Running
<1>14. ASSUME NEW b \in Arrays, NEW axis \in Axes, Join(b, axis)  PROVE IInv'
  <2>1. IsArray(b) /\ axis \in Int  BY <1>2
  <2> QED  BY <1>1, <1>14, <2>1, JoinGood, MadeKeeps DEF Join
<1>15. ASSUME NEW b \in Arrays, NEW axis \in Axes, Pile(b, axis)  PROVE IInv'
  <2>1. IsArray(b) /\ axis \in Int  BY <1>2
  <2> QED  BY <1>1, <1>15, <2>1, PileGood, MadeKeeps DEF Pile
<1>16. ASSUME NEW ax \in 1..MAX_NDIM, Where(ax)  PROVE IInv'
  <2>1. ax \in DOMAIN arr.shape \cup {1} /\ Made(NonZero(arr, ax), NumpyNonZero(ideal, ax))  BY <1>16 DEF Where
  <2> QED  BY <1>1, <2>1, WhereGood, MadeKeeps
<1>17. CASE UNCHANGED vars
  <2>1. /\ arr' = arr /\ ideal' = ideal /\ outcome' = outcome /\ refused' = refused /\ ops' = ops
    BY <1>17 DEF vars
  <2>2. TypeOK'  BY <2>1 DEF IInv, TypeOK
  <2>3. Comparable => ResultsMatchNumPy'  BY <2>1 DEF IInv, ResultsMatchNumPy
  <2>4. Comparable => RefusesWithNumPy'  BY <2>1 DEF IInv, RefusesWithNumPy
  <2> QED  BY <2>2, <2>3, <2>4 DEF IInv
<1> QED
  BY <1>3, <1>4, <1>5, <1>6, <1>7, <1>8, <1>9, <1>10, <1>11, <1>12, <1>13, <1>14, <1>15, <1>16, <1>17
  DEF Next

LEMMA AlwaysFine == Spec => []IInv
<1>1. Init => IInv  BY StartsFine
<1>2. IInv /\ [Next]_vars => IInv'  BY NextKeeps
<1> QED  BY <1>1, <1>2, PTL DEF Spec

\* Array::new's promise holds for the result of every chain of kernels,
\* whatever the keys and the bounds.
THEOREM KernelsTypeOK == Spec => []TypeOK
<1>1. IInv => TypeOK  BY DEF IInv
<1> QED  BY <1>1, AlwaysFine, PTL

\* Every chain of kernels gives NumPy's shape and NumPy's elements.
THEOREM KernelsMatchNumPy ==
  ASSUME Comparable
  PROVE  Spec => []ResultsMatchNumPy
<1>1. IInv => ResultsMatchNumPy  BY DEF IInv
<1> QED  BY <1>1, AlwaysFine, PTL

\* What NumPy refuses is refused, and nothing else but for the arrays the
\* README lists.
THEOREM KernelsRefuseWithNumPy ==
  ASSUME Comparable
  PROVE  Spec => []RefusesWithNumPy
<1>1. IInv => RefusesWithNumPy  BY DEF IInv
<1> QED  BY <1>1, AlwaysFine, PTL

\* sum(), argmax() and argmin() of a whole array are NumPy's, whatever chain
\* of kernels made it, for any number of lanes.
THEOREM KernelsReduceWhole == Spec => []WholeArrayReductions
<1>1. IInv => WholeArrayReductions  BY ReductionsFine DEF IInv, TypeOK
<1> QED  BY <1>1, AlwaysFine, PTL

\* argsort(descending=True) leaves ties in their order, whatever the array.
THEOREM KernelsSortStable == Spec => []DescendingIsStable
<1>1. IInv => DescendingIsStable  BY DescendingFine DEF IInv, TypeOK
<1> QED  BY <1>1, AlwaysFine, PTL

=============================================================================
