--------------------------- MODULE LayoutsProofs ----------------------------
(***************************************************************************)
(* Layouts for every set of shapes, keys, rows and foreign layouts, and for*)
(* chains of every length.                                                 *)
(*                                                                         *)
(* 1. IsPlan says what selection_plan plans: on every axis, positions the  *)
(*    axis has.  select then composes the strides so that each address of  *)
(*    the result is that of the element the plan takes (SelectMaps), and   *)
(*    insert_axis does not change an address (WithAxesMaps).               *)
(* 2. NumPy's definition of indexing goes by the items of the key, the code*)
(*    by axes.  Rank counts from one to the other (AxesOfKey, KeptOfKey,   *)
(*    NewAxesOfKey), and both find the same elements (NumpyIndexedIs).     *)
(* 3. Each way to a result, a copy, a window or a strided view, keeps the  *)
(*    invariant when it places the elements right (OwnArrayKeeps, WindowKeeps,*)
(*    ViewKeeps), and each operation takes one of them.                    *)
(* 4. ElementsMatchNumPy alone is not inductive: plan_view, locate and     *)
(*    reshape read a window as if it were contiguous (Windows), and a window*)
(*    may be reshaped, or stretched over one block, only if all of it is in*)
(*    the owner's buffer (StaysInside).                                    *)
(***************************************************************************)
EXTENDS Layouts, ShapesProofs

-----------------------------------------------------------------------------
(* The memory a layout reaches.                                            *)

\* A pointer, a shape and as many strides.
IsLayout(l) == l.ptr \in Int /\ l.shape \in Seq(Nat) /\ l.strides \in Seq(Int) /\ Len(l.shape) = Len(l.strides)

\* All elements are among the first n cells.
Inside(l, n) == \A i \in Indices(l.shape) : Address(l, i) \in 0..n - 1

\* Between the sum of the negative reaches and that of the others lie all
\* elements, and there are elements at both.
LEMMA AcceptsIffInside ==
  ASSUME NEW l, IsLayout(l), data \in Seq(Int)
  PROVE  Accepts(l) <=> Product(l.shape) # 0 /\ Ndim(l.shape) =< MAX_NDIM /\ Inside(l, Len(data))
<1> DEFINE N == Len(l.shape)
           D == Len(data)
           reach == [k \in DOMAIN l.shape |-> (l.shape[k] - 1) * l.strides[k]]
           low   == [k \in DOMAIN reach |-> IF reach[k] < 0 THEN reach[k] ELSE 0]
           high  == [k \in DOMAIN reach |-> IF reach[k] < 0 THEN 0 ELSE reach[k]]
           at(i) == [k \in DOMAIN l.strides |-> i[k] * l.strides[k]]
<1>1. /\ N \in Nat /\ D \in Nat /\ l.ptr \in Int /\ DOMAIN l.shape = 1..N
      /\ \A k \in 1..N : l.shape[k] \in Nat /\ l.strides[k] \in Int
  BY DEF IsLayout
<1>2. \A k \in 1..N : reach[k] \in Int /\ reach[k] = (l.shape[k] - 1) * l.strides[k]
  <2>1. \A x, y \in Int : x * y \in Int  OBVIOUS
  <2> QED  BY <1>1, <2>1
<1>3. reach \in Seq(Int) /\ low \in Seq(Int) /\ high \in Seq(Int) /\ Len(low) = N /\ Len(high) = N
  BY <1>1, <1>2
<1>4. \A k \in 1..N : /\ low[k] = IF reach[k] < 0 THEN reach[k] ELSE 0
                      /\ high[k] = IF reach[k] < 0 THEN 0 ELSE reach[k]
  BY <1>1
<1>5. Total(low) \in Int /\ Total(high) \in Int  BY <1>3, SumsDef
<1>6. Accepts(l) <=> /\ Product(l.shape) # 0 /\ Ndim(l.shape) =< MAX_NDIM
                     /\ l.ptr + Total(low) >= 0 /\ l.ptr + Total(high) < D
  BY DEF Accepts
<1>7. \A i \in Indices(l.shape) : /\ at(i) \in Seq(Int) /\ Len(at(i)) = N /\ Dot(i, l.strides) = Total(at(i))
                                  /\ \A k \in 1..N : at(i)[k] = i[k] * l.strides[k]
                                  /\ Total(at(i)) \in Int
  <2> SUFFICES ASSUME NEW i \in Indices(l.shape)
               PROVE  /\ at(i) \in Seq(Int) /\ Len(at(i)) = N /\ Dot(i, l.strides) = Total(at(i))
                      /\ \A k \in 1..N : at(i)[k] = i[k] * l.strides[k]
                      /\ Total(at(i)) \in Int
    OBVIOUS
  <2>1. i \in Seq(Nat) /\ Len(i) = N  BY IndexTypes DEF IsLayout
  <2> QED  BY <2>1, DotTypes DEF IsLayout
<1>8. \A i \in Indices(l.shape) : \A k \in 1..N : i[k] \in Nat /\ i[k] < l.shape[k]
  BY IndexTypes DEF IsLayout
<1> HIDE DEF N, D, reach, low, high, at
<1>9. ASSUME NEW i \in Indices(l.shape), l.ptr + Total(low) >= 0, l.ptr + Total(high) < D
      PROVE  Address(l, i) \in 0..D - 1
  <2>1. \A k \in 1..N : low[k] <= at(i)[k] /\ at(i)[k] <= high[k]
    <3> SUFFICES ASSUME NEW k \in 1..N  PROVE low[k] <= at(i)[k] /\ at(i)[k] <= high[k]
      OBVIOUS
    <3>1. i[k] \in Nat /\ i[k] < l.shape[k] /\ l.shape[k] \in Nat /\ l.strides[k] \in Int  BY <1>1, <1>8
    <3>2. /\ reach[k] < 0 => reach[k] <= at(i)[k] /\ at(i)[k] <= 0
          /\ reach[k] >= 0 => 0 <= at(i)[k] /\ at(i)[k] <= reach[k]
      <4> DEFINE y == (l.shape[k] - 1) * l.strides[k]
                 z == i[k] * l.strides[k]
      <4>1. (y < 0 => y <= z /\ z <= 0) /\ (y >= 0 => 0 <= z /\ z <= y)  BY <3>1, Between
      <4>2. reach[k] = y /\ at(i)[k] = z  BY <1>2, <1>7
      <4> QED  BY <4>1, <4>2
    <3> QED  BY <1>2, <1>4, <3>2
  <2>2. Total(low) <= Total(at(i)) /\ Total(at(i)) <= Total(high)
    BY <1>3, <1>7, <2>1, SumsGrow
  <2>3. Address(l, i) = l.ptr + Total(at(i)) /\ Total(at(i)) \in Int  BY <1>7 DEF Address
  <2> QED  BY <1>1, <1>5, <1>9, <2>2, <2>3
<1>10. ASSUME Product(l.shape) # 0, Inside(l, D)
       PROVE  l.ptr + Total(low) >= 0 /\ l.ptr + Total(high) < D
  <2> DEFINE i == [k \in 1..N |-> IF l.strides[k] < 0 THEN l.shape[k] - 1 ELSE 0]
             j == [k \in 1..N |-> IF l.strides[k] < 0 THEN 0 ELSE l.shape[k] - 1]
  <2>1. \A k \in 1..N : l.shape[k] # 0  BY <1>10, ProductPositive DEF IsLayout, N
  <2>2. i \in Indices(l.shape) /\ j \in Indices(l.shape)
    <3>1. \A k \in 1..N : i[k] \in Nat /\ i[k] < l.shape[k] /\ j[k] \in Nat /\ j[k] < l.shape[k]
      BY <1>1, <2>1
    <3>2. i \in [1..N -> Nat] /\ j \in [1..N -> Nat]  BY <1>1, <2>1
    <3> HIDE DEF i, j
    <3> QED  BY <3>1, <3>2, IndicesAre DEF IsLayout, N
  <2>3. \A k \in 1..N : at(i)[k] = low[k] /\ at(j)[k] = high[k]
    <3> SUFFICES ASSUME NEW k \in 1..N  PROVE at(i)[k] = low[k] /\ at(j)[k] = high[k]
      OBVIOUS
    <3>1. at(i)[k] = i[k] * l.strides[k] /\ at(j)[k] = j[k] * l.strides[k]  BY <1>7, <2>2
    <3>2. l.shape[k] - 1 \in Nat /\ l.strides[k] \in Int  BY <1>1, <2>1
    <3>3. \A m \in Nat, s \in Int : /\ s < 0 => m * s <= 0
                                    /\ s >= 0 => m * s >= 0
                                    /\ 0 * s = 0
      OBVIOUS
    <3>4. reach[k] = (l.shape[k] - 1) * l.strides[k] /\ reach[k] \in Int  BY <1>2
    <3>5. CASE l.strides[k] < 0
      <4>1. i[k] = l.shape[k] - 1 /\ j[k] = 0  BY <3>5
      <4>2. reach[k] <= 0  BY <3>2, <3>3, <3>4, <3>5
      <4>3. 0 * l.strides[k] = 0  BY <3>2
      <4> QED  BY <1>4, <3>1, <3>4, <4>1, <4>2, <4>3
    <3>6. CASE l.strides[k] >= 0
      <4>1. i[k] = 0 /\ j[k] = l.shape[k] - 1  BY <3>2, <3>6
      <4>2. reach[k] >= 0  BY <3>2, <3>3, <3>4, <3>6
      <4>3. 0 * l.strides[k] = 0  BY <3>2
      <4> QED  BY <1>4, <3>1, <3>4, <4>1, <4>2, <4>3
    <3> QED  BY <3>2, <3>5, <3>6
  <2> HIDE DEF i, j
  <2>4. at(i) = low /\ at(j) = high  BY <1>3, <1>7, <2>2, <2>3, SeqEqual
  <2>5. Address(l, i) = l.ptr + Total(low) /\ Address(l, j) = l.ptr + Total(high)
    BY <1>7, <2>2, <2>4 DEF Address
  <2> QED  BY <1>1, <1>5, <1>10, <2>2, <2>5 DEF Inside
<1>11. Inside(l, D) <=> \A i \in Indices(l.shape) : Address(l, i) \in 0..D - 1  BY DEF Inside
<1> QED  BY <1>6, <1>9, <1>10, <1>11 DEF D

-----------------------------------------------------------------------------
(* C order.                                                                *)

-----------------------------------------------------------------------------
(* Contiguous layouts.                                                     *)

\* A block of memory in C order.
LEMMA ContiguousIsLayout ==
  ASSUME NEW shape \in Seq(Nat), NEW ptr \in Int
  PROVE  /\ IsLayout(Contiguous(ptr, shape))
         /\ Contiguous(ptr, shape).ptr = ptr /\ Contiguous(ptr, shape).shape = shape
         /\ Contiguous(ptr, shape).strides = CStrides(shape)
BY Weights DEF IsLayout, Contiguous, Layout

\* It lies in the buffer if its ends do.
LEMMA BlockInside ==
  ASSUME NEW shape \in Seq(Nat), NEW ptr \in Nat, NEW n \in Nat, ptr + Product(shape) <= n
  PROVE  Inside(Contiguous(ptr, shape), n)
<1>1. Product(shape) \in Nat  BY ProductsDef
<1>2. \A i \in Indices(shape) : Dot(i, CStrides(shape)) \in 0..Product(shape) - 1  BY DotInBlock
<1> QED  BY <1>1, <1>2, ContiguousIsLayout DEF Inside, Address

\* is_c_contiguous sees what it is for.
LEMMA ContiguousAddresses ==
  ASSUME NEW l, IsLayout(l), IsCContiguous(l), NEW i \in Indices(l.shape)
  PROVE  Address(l, i) = Address(Contiguous(l.ptr, l.shape), i)
<1> DEFINE N == Len(l.shape)
           c == CStrides(l.shape)
           t == [k \in DOMAIN l.strides |-> i[k] * l.strides[k]]
           u == [k \in DOMAIN c |-> i[k] * c[k]]
<1>1. i \in Seq(Nat) /\ Len(i) = N /\ \A k \in 1..N : i[k] \in 0..l.shape[k] - 1
  BY IndexTypes DEF IsLayout
<1>2. t \in Seq(Int) /\ Len(t) = N /\ Dot(i, l.strides) = Total(t) /\ \A k \in 1..N : t[k] = i[k] * l.strides[k]
  BY <1>1, DotTypes DEF IsLayout
<1>3. c \in Seq(Int) /\ Len(c) = N  BY Weights DEF IsLayout
<1>4. u \in Seq(Int) /\ Len(u) = N /\ Dot(i, c) = Total(u) /\ \A k \in 1..N : u[k] = i[k] * c[k]
  BY <1>1, <1>3, DotTypes
<1>5. \A k \in 1..N : t[k] = u[k]
  <2> SUFFICES ASSUME NEW k \in 1..N  PROVE t[k] = u[k]
    OBVIOUS
  <2>1. DOMAIN l.shape = 1..N /\ l.strides[k] \in Int /\ l.shape[k] \in Nat  BY DEF IsLayout
  <2>5. c[k] \in Int
    <3> HIDE DEF c
    <3> QED  BY <1>3
  <2>2. l.shape[k] # 1 => l.strides[k] = c[k]  BY <2>1 DEF IsCContiguous
  <2>3. l.shape[k] = 1 => i[k] = 0  BY <1>1
  <2>4. 0 * l.strides[k] = 0 /\ 0 * c[k] = 0
    <3> HIDE DEF c
    <3> QED  BY <2>1, <2>5
  <2> QED  BY <1>2, <1>4, <2>2, <2>3, <2>4
<1> HIDE DEF t, u
<1>6. t = u  BY <1>2, <1>4, <1>5, SeqEqual
<1>7. Address(l, i) = l.ptr + Total(t)  BY <1>2 DEF Address
<1>8. Address(Contiguous(l.ptr, l.shape), i) = l.ptr + Total(u)
  BY <1>4, ContiguousIsLayout DEF Address, IsLayout
<1> QED  BY <1>6, <1>7, <1>8

\* A contiguous layout inside the buffer is a block of it.
LEMMA InsideIsBlock ==
  ASSUME NEW l, IsLayout(l), IsCContiguous(l), Product(l.shape) # 0, NEW n \in Nat, Inside(l, n)
  PROVE  l.ptr \in Nat /\ l.ptr + Product(l.shape) <= n
<1> DEFINE N == Len(l.shape)
           P == Product(l.shape)
           i == [k \in 1..N |-> 0]
           j == [k \in 1..N |-> l.shape[k] - 1]
<1>1. l.shape \in Seq(Nat) /\ N \in Nat /\ l.ptr \in Int /\ \A k \in 1..N : l.shape[k] \in Nat /\ l.shape[k] # 0
  BY ProductPositive DEF IsLayout
<1>2. i \in Indices(l.shape) /\ j \in Indices(l.shape)
  <2>1. \A k \in 1..N : i[k] \in Nat /\ i[k] < l.shape[k] /\ j[k] \in Nat /\ j[k] < l.shape[k]
    BY <1>1
  <2>2. i \in [1..N -> Nat] /\ j \in [1..N -> Nat]  BY <1>1
  <2> HIDE DEF i, j
  <2> QED  BY <1>1, <2>1, <2>2, IndicesAre
<1>3. Dot(j, CStrides(l.shape)) = P - 1 /\ P \in Nat
  <2>1. \A k \in 1..N : j[k] = l.shape[k] - 1  OBVIOUS
  <2> HIDE DEF j
  <2> QED  BY <1>1, <1>2, <2>1, DotInBlock, ProductsDef
<1>4. Dot(i, CStrides(l.shape)) \in Nat
  <2> HIDE DEF i
  <2>1. Dot(i, CStrides(l.shape)) \in 0..P - 1  BY <1>1, <1>2, DotInBlock
  <2> QED  BY <2>1
<1> HIDE DEF i, j, P
<1>5. \A x \in Indices(l.shape) : Address(l, x) = l.ptr + Dot(x, CStrides(l.shape))
  BY <1>1, ContiguousAddresses, ContiguousIsLayout DEF Address
<1>6. Address(l, j) \in 0..n - 1 /\ Address(l, i) \in 0..n - 1  BY <1>2 DEF Inside
<1>7. l.ptr + P <= n  BY <1>1, <1>2, <1>3, <1>5, <1>6
<1>8. Dot(i, CStrides(l.shape)) = 0
  <2> DEFINE t == [k \in DOMAIN CStrides(l.shape) |-> i[k] * CStrides(l.shape)[k]]
  <2>1. /\ t \in Seq(Int) /\ Len(t) = N /\ \A k \in 1..N : t[k] = i[k] * Weight(l.shape, k)
        /\ Dot(i, CStrides(l.shape)) = Sums(t)[N]
    BY <1>1, <1>2, DotInOrder
  <2> HIDE DEF t
  <2>2. \A k \in 1..N : t[k] = 0
    <3>1. \A k \in 1..N : Weight(l.shape, k) \in Nat /\ i[k] = 0
      <4>1. \A k \in 1..N : k \in 0..N  BY <1>1
      <4> QED  BY <1>1, <4>1, Weights DEF i
    <3> QED  BY <2>1, <3>1
  <2> DEFINE T == {k \in 0..N : Sums(t)[k] = 0}
  <2>3. 0 \in T /\ \A k \in 0..N - 1 : k \in T => k + 1 \in T
    <3>1. Sums(t)[0] = 0 /\ \A k \in 1..N : Sums(t)[k] = Sums(t)[k - 1] + t[k]  BY <2>1, SumsDef
    <3>2. \A k \in 0..N - 1 : k + 1 \in 1..N /\ k + 1 \in 0..N /\ (k + 1) - 1 = k  BY <1>1
    <3>3. 0 \in T  BY <1>1, <3>1
    <3>4. ASSUME NEW k \in 0..N - 1, k \in T  PROVE k + 1 \in T
      <4>1. Sums(t)[k + 1] = Sums(t)[k] + t[k + 1] /\ Sums(t)[k] = 0 /\ t[k + 1] = 0
        BY <2>2, <3>1, <3>2, <3>4
      <4> QED  BY <3>2, <4>1
    <3> QED  BY <3>3, <3>4
  <2> HIDE DEF T
  <2>4. \A k \in 0..N : k \in T  BY <1>1, <2>3, InductionTo
  <2>5. N \in T  BY <1>1, <2>4
  <2> QED  BY <2>1, <2>5 DEF T
<1> QED  BY <1>1, <1>2, <1>5, <1>6, <1>7, <1>8 DEF P

-----------------------------------------------------------------------------
(* Sums and products are what satisfies their recursion.                   *)

-----------------------------------------------------------------------------
(* Layout::select.                                                         *)

\* An entry of a plan.
Steps == [start : Int, step : Int, count : Nat, drop : BOOLEAN]

\* What the code plans to select: on every axis, positions the axis has.
IsPlan(plan, shape) ==
  /\ plan \in Seq(Steps) /\ Len(plan) = Len(shape)
  /\ \A k \in 1..Len(plan) :
       /\ plan[k].drop => plan[k].count = 1
       /\ \A j \in 0..plan[k].count - 1 : plan[k].start + j * plan[k].step \in 0..shape[k] - 1

\* The axes the plan keeps.
KeptAxes(plan) == {k \in DOMAIN plan : ~plan[k].drop}

\* Where the i-th element of the result comes from.
Source(plan, i) ==
  [k \in DOMAIN plan |->
     plan[k].start + (IF plan[k].drop THEN 0 ELSE i[Rank(k, KeptAxes(plan))]) * plan[k].step]

\* A plan's axes, the axes it keeps, and the shape they make.
LEMMA PlanFacts ==
  ASSUME NEW shape \in Seq(Nat), NEW plan, IsPlan(plan, shape)
  PROVE  LET N == Len(shape)
             K == KeptAxes(plan)
             o == Kept(plan)
             out == OutShape(plan)
         IN  /\ N \in Nat /\ DOMAIN plan = 1..N /\ Len(plan) = N
             /\ \A k \in 1..N : /\ plan[k].start \in Int /\ plan[k].step \in Int
                                /\ plan[k].count \in Nat /\ plan[k].drop \in BOOLEAN
                                /\ k \in K <=> ~plan[k].drop
             /\ o = Ordered(N, K) /\ o \in Seq(1..N) /\ Len(o) = Rank(N, K)
             /\ \A m \in 1..Len(o) : o[m] \in K /\ o[m] \in 1..N /\ Rank(o[m], K) = m
             /\ \A k \in K : k \in 1..N /\ Rank(k, K) \in 1..Len(o) /\ o[Rank(k, K)] = k
             /\ out \in Seq(Nat) /\ Len(out) = Len(o)
             /\ \A m \in 1..Len(o) : out[m] = plan[o[m]].count
<1> DEFINE N == Len(shape)
           K == KeptAxes(plan)
           o == Kept(plan)
           out == OutShape(plan)
<1>1. N \in Nat /\ plan \in Seq(Steps) /\ Len(plan) = N  BY DEF IsPlan
<1>2. DOMAIN plan = 1..N /\ \A k \in 1..N : plan[k] \in Steps  BY <1>1
<1>3. \A k \in 1..N : /\ plan[k].start \in Int /\ plan[k].step \in Int
                      /\ plan[k].count \in Nat /\ plan[k].drop \in BOOLEAN
                      /\ k \in K <=> ~plan[k].drop
  BY <1>2 DEF Steps, KeptAxes
<1>4. o = Ordered(N, K)  BY <1>1 DEF Kept, KeptAxes
<1>5. OrderedOK(N, K)  BY <1>1, OrderedFacts
<1>6. out = [n \in DOMAIN o |-> plan[o[n]].count]  BY DEF OutShape
<1>7. \A k \in K : k \in 1..N  BY <1>2 DEF KeptAxes
<1> HIDE DEF N, K, o, out
<1>8. /\ o \in Seq(1..N) /\ Len(o) = Rank(N, K)
      /\ \A m \in 1..Len(o) : o[m] \in K /\ o[m] \in 1..N /\ Rank(o[m], K) = m
      /\ \A k \in 1..N : k \in K => Rank(k, K) \in 1..Len(o) /\ o[Rank(k, K)] = k
  BY <1>4, <1>5 DEF OrderedOK, Rank
<1>9. DOMAIN o = 1..Len(o) /\ Len(o) \in Nat  BY <1>8
<1>10. \A m \in 1..Len(o) : plan[o[m]].count \in Nat  BY <1>3, <1>8
<1>11. out \in Seq(Nat) /\ Len(out) = Len(o) /\ \A m \in 1..Len(o) : out[m] = plan[o[m]].count
  <2> DEFINE e(n) == plan[o[n]].count
  <2>1. out = [n \in 1..Len(o) |-> e(n)] /\ \A m \in 1..Len(o) : e(m) \in Nat  BY <1>6, <1>9, <1>10
  <2> HIDE DEF e
  <2>2. out \in Seq(Nat) /\ Len(out) = Len(o) /\ \A m \in 1..Len(o) : out[m] = e(m)  BY <1>9, <2>1
  <2> QED  BY <2>2 DEF e
<1> QED  BY <1>1, <1>2, <1>3, <1>4, <1>7, <1>8, <1>11 DEF N, K, o, out

\* What select makes of a plan.
LEMMA SelectIsLayout ==
  ASSUME NEW l, IsLayout(l), NEW plan, IsPlan(plan, l.shape)
  PROVE  LET L == Select(l, plan)
             o == Kept(plan)
             a == [k \in 1..Len(l.shape) |->
                     IF plan[k].count > 0 THEN plan[k].start * l.strides[k] ELSE 0]
         IN  /\ IsLayout(L) /\ L.shape = OutShape(plan)
             /\ \A m \in 1..Len(o) : L.strides[m] = plan[o[m]].step * l.strides[o[m]]
             /\ a \in Seq(Int) /\ Len(a) = Len(l.shape) /\ L.ptr = l.ptr + Total(a)
<1> DEFINE L == Select(l, plan)
           N == Len(l.shape)
           o == Kept(plan)
           a == [k \in 1..N |-> IF plan[k].count > 0 THEN plan[k].start * l.strides[k] ELSE 0]
           s == [n \in DOMAIN o |-> plan[o[n]].step * l.strides[o[n]]]
<1>1. l.shape \in Seq(Nat) /\ l.ptr \in Int /\ l.strides \in Seq(Int) /\ Len(l.strides) = N  BY DEF IsLayout
<1>2. /\ N \in Nat /\ DOMAIN plan = 1..N
      /\ \A k \in 1..N : plan[k].start \in Int /\ plan[k].step \in Int /\ plan[k].count \in Nat
      /\ o \in Seq(1..N) /\ \A m \in 1..Len(o) : o[m] \in 1..N
      /\ OutShape(plan) \in Seq(Nat) /\ Len(OutShape(plan)) = Len(o)
  BY <1>1, PlanFacts
<1>3. L.ptr = l.ptr + Total(a) /\ L.shape = OutShape(plan) /\ L.strides = s
  BY <1>2 DEF Select, Layout
<1>4. \A k \in 1..N : l.strides[k] \in Int  BY <1>1
<1>5. \A x, y \in Int : x * y \in Int  OBVIOUS
<1> HIDE DEF L, N, o
<1>6. a \in Seq(Int) /\ Len(a) = N
  <2>1. \A k \in 1..N : (IF plan[k].count > 0 THEN plan[k].start * l.strides[k] ELSE 0) \in Int
    BY <1>2, <1>4, <1>5
  <2> QED  BY <1>2, <2>1
<1>7. DOMAIN o = 1..Len(o) /\ Len(o) \in Nat  BY <1>2
<1>8. \A m \in 1..Len(o) : plan[o[m]].step * l.strides[o[m]] \in Int  BY <1>2, <1>4, <1>5
<1>9. s \in Seq(Int) /\ Len(s) = Len(o) /\ \A m \in 1..Len(o) : s[m] = plan[o[m]].step * l.strides[o[m]]
  BY <1>7, <1>8
<1> HIDE DEF a, s
<1>10. L.ptr \in Int
  <2>1. Total(a) \in Int  BY <1>6, SumsDef
  <2> QED  BY <1>1, <1>3, <2>1
<1>11. IsLayout(L)  BY <1>2, <1>3, <1>9, <1>10 DEF IsLayout
<1> QED  BY <1>3, <1>6, <1>9, <1>11 DEF L, N, o, a

\* Composing pointers and strides composes the index mappings.
LEMMA SelectMaps ==
  ASSUME NEW l, IsLayout(l), NEW plan, IsPlan(plan, l.shape), NEW i \in Indices(OutShape(plan))
  PROVE  /\ Source(plan, i) \in Indices(l.shape)
         /\ Address(Select(l, plan), i) = Address(l, Source(plan, i))
<1> DEFINE L == Select(l, plan)
           N == Len(l.shape)
           K == KeptAxes(plan)
           o == Kept(plan)
           out == OutShape(plan)
           f == Source(plan, i)
           at(k) == IF plan[k].drop THEN 0 ELSE i[Rank(k, K)]
           a == [k \in 1..N |-> IF plan[k].count > 0 THEN plan[k].start * l.strides[k] ELSE 0]
           s == [n \in DOMAIN L.strides |-> i[n] * L.strides[n]]
           d == [k \in DOMAIN l.strides |-> f[k] * l.strides[k]]
           v == [k \in 1..N |-> IF k \in K THEN at(k) * (plan[k].step * l.strides[k]) ELSE 0]
<1>1. l.shape \in Seq(Nat) /\ l.ptr \in Int /\ l.strides \in Seq(Int) /\ Len(l.strides) = N  BY DEF IsLayout
<1>2. /\ N \in Nat /\ DOMAIN plan = 1..N /\ Len(plan) = N
      /\ \A k \in 1..N : /\ plan[k].start \in Int /\ plan[k].step \in Int
                         /\ plan[k].count \in Nat /\ plan[k].drop \in BOOLEAN
                         /\ k \in K <=> ~plan[k].drop
      /\ o = Ordered(N, K) /\ o \in Seq(1..N) /\ Len(o) = Rank(N, K)
      /\ \A m \in 1..Len(o) : o[m] \in K /\ o[m] \in 1..N /\ Rank(o[m], K) = m
      /\ \A k \in K : k \in 1..N /\ Rank(k, K) \in 1..Len(o) /\ o[Rank(k, K)] = k
      /\ out \in Seq(Nat) /\ Len(out) = Len(o)
      /\ \A m \in 1..Len(o) : out[m] = plan[o[m]].count
  BY <1>1, PlanFacts
<1>3. /\ IsLayout(L) /\ L.shape = out
      /\ \A m \in 1..Len(o) : L.strides[m] = plan[o[m]].step * l.strides[o[m]]
      /\ a \in Seq(Int) /\ Len(a) = N /\ L.ptr = l.ptr + Total(a)
  BY SelectIsLayout
<1>4. i \in Seq(Nat) /\ Len(i) = Len(out) /\ \A m \in 1..Len(out) : i[m] \in Nat /\ i[m] < out[m]
  BY <1>2, IndexTypes
<1>5. f = [k \in 1..N |-> plan[k].start + at(k) * plan[k].step]  BY <1>2 DEF Source
<1>6. \A k \in 1..N : /\ (plan[k].drop => plan[k].count = 1)
                      /\ \A j \in 0..plan[k].count - 1 : plan[k].start + j * plan[k].step \in 0..l.shape[k] - 1
  BY <1>2 DEF IsPlan
<1>7. \A k \in 1..N : at(k) \in Nat /\ at(k) \in 0..plan[k].count - 1 /\ plan[k].count > 0
  <2> SUFFICES ASSUME NEW k \in 1..N
               PROVE  at(k) \in Nat /\ at(k) \in 0..plan[k].count - 1 /\ plan[k].count > 0
    OBVIOUS
  <2>1. plan[k].count \in Nat  BY <1>2
  <2>2. CASE plan[k].drop  BY <1>6, <2>1, <2>2
  <2>3. CASE ~plan[k].drop
    <3>1. k \in K  BY <1>2, <2>3
    <3> HIDE DEF K, o, out
    <3>2. Rank(k, K) \in 1..Len(o) /\ o[Rank(k, K)] = k  BY <1>2, <3>1
    <3>3. out[Rank(k, K)] = plan[k].count  BY <1>2, <3>2
    <3>4. i[Rank(k, K)] \in Nat /\ i[Rank(k, K)] < plan[k].count  BY <1>2, <1>4, <3>2, <3>3
    <3> QED  BY <2>1, <2>3, <3>4
  <2> QED  BY <2>2, <2>3
<1> HIDE DEF L, N, K, o, out, f, at
<1>8. \A k \in 1..N : f[k] = plan[k].start + at(k) * plan[k].step  BY <1>5
<1>9. \A k \in 1..N : f[k] \in 0..l.shape[k] - 1  BY <1>6, <1>7, <1>8
<1>10. \A k \in 1..N : l.shape[k] \in Nat /\ l.strides[k] \in Int  BY <1>1 DEF N
<1>11. f \in Indices(l.shape)
  <2>1. \A k \in 1..N : f[k] \in Nat /\ f[k] < l.shape[k]  BY <1>9, <1>10
  <2>2. DOMAIN f = 1..N /\ f = [k \in 1..N |-> f[k]]  BY <1>5
  <2>3. f \in [1..N -> Nat]  BY <2>1, <2>2
  <2> QED  BY <1>1, <2>1, <2>3, IndicesAre DEF N
<1>12. /\ d \in Seq(Int) /\ Len(d) = N /\ Dot(f, l.strides) = Total(d)
       /\ \A k \in 1..N : d[k] = f[k] * l.strides[k]
  <2>1. f \in Seq(Nat) /\ Len(f) = N  BY <1>1, <1>11, IndexTypes DEF N
  <2> QED  BY <1>1, <2>1, DotTypes
<1>13. /\ s \in Seq(Int) /\ Len(s) = Len(o) /\ Dot(i, L.strides) = Total(s)
       /\ \A m \in 1..Len(o) : s[m] = i[m] * L.strides[m]
  <2> DEFINE x == L.strides
  <2>1. x \in Seq(Int) /\ Len(x) = Len(o) /\ Len(i) = Len(x) /\ i \in Seq(Nat)  BY <1>2, <1>3, <1>4 DEF IsLayout
  <2>2. s = [n \in DOMAIN x |-> i[n] * x[n]]  OBVIOUS
  <2> HIDE DEF x, s
  <2>3. /\ s \in Seq(Int) /\ Len(s) = Len(x) /\ Dot(i, x) = Total(s)
        /\ \A m \in 1..Len(x) : s[m] = i[m] * x[m]
    BY <2>1, <2>2, DotTypes
  <2> QED  BY <2>1, <2>3 DEF x
<1>14. \A k \in 1..N : at(k) * (plan[k].step * l.strides[k]) \in Int
  <2>1. \A x, y \in Int : x * y \in Int  OBVIOUS
  <2> QED  BY <1>2, <1>7, <1>10, <2>1
<1>15. v \in Seq(Int) /\ Len(v) = N
       /\ \A k \in 1..N : v[k] = IF k \in K THEN at(k) * (plan[k].step * l.strides[k]) ELSE 0
  BY <1>2, <1>14
<1> HIDE DEF a, s, d, v
<1>16. Total(s) = Total(v)
  <2>1. \A m \in 1..Len(s) : s[m] = v[Ordered(Len(v), K)[m]]
    <3> SUFFICES ASSUME NEW m \in 1..Len(o)  PROVE s[m] = v[o[m]]
      BY <1>2, <1>13, <1>15
    <3>1. o[m] \in K /\ o[m] \in 1..N /\ Rank(o[m], K) = m /\ ~plan[o[m]].drop  BY <1>2
    <3>2. at(o[m]) = i[m]  BY <3>1 DEF at
    <3> QED  BY <1>3, <1>13, <1>15, <3>1, <3>2
  <2>2. \A k \in 1..Len(v) : k \notin K => v[k] = 0  BY <1>15
  <2>3. Len(s) = Rank(Len(v), K)  BY <1>2, <1>13, <1>15
  <2> QED  BY <1>13, <1>15, <2>1, <2>2, <2>3, SumSelected
<1>17. \A k \in 1..N : d[k] = a[k] + v[k]
  <2> SUFFICES ASSUME NEW k \in 1..N  PROVE d[k] = a[k] + v[k]
    OBVIOUS
  <2>1. a[k] = plan[k].start * l.strides[k]  BY <1>7 DEF a
  <2>2. v[k] = at(k) * (plan[k].step * l.strides[k])
    <3>1. CASE k \in K  BY <1>15, <3>1
    <3>2. CASE k \notin K
      <4>1. at(k) = 0  BY <1>2, <3>2 DEF at
      <4>2. \A x \in Int : 0 * x = 0  OBVIOUS
      <4>3. plan[k].step * l.strides[k] \in Int
        <5>1. \A x, y \in Int : x * y \in Int  OBVIOUS
        <5> QED  BY <1>2, <1>10, <5>1
      <4> QED  BY <1>15, <3>2, <4>1, <4>2, <4>3
    <3> QED  BY <3>1, <3>2
  <2>3. \A x, y, z, w \in Int : (x + y * z) * w = x * w + y * (z * w)  OBVIOUS
  <2>4. d[k] = (plan[k].start + at(k) * plan[k].step) * l.strides[k]  BY <1>8, <1>12
  <2>5. plan[k].start \in Int /\ at(k) \in Int /\ plan[k].step \in Int /\ l.strides[k] \in Int
    BY <1>2, <1>7, <1>10
  <2>6. (plan[k].start + at(k) * plan[k].step) * l.strides[k]
          = plan[k].start * l.strides[k] + at(k) * (plan[k].step * l.strides[k])
    BY <2>3, <2>5
  <2> QED  BY <2>1, <2>2, <2>4, <2>6
<1>18. Total(d) = Total(a) + Total(v)  BY <1>3, <1>12, <1>15, <1>17, SumsAdd
<1>19. Total(a) \in Int /\ Total(v) \in Int  BY <1>3, <1>15, SumsDef
<1>20. Address(L, i) = Address(l, f)  BY <1>1, <1>3, <1>12, <1>13, <1>16, <1>18, <1>19 DEF Address
<1> QED  BY <1>11, <1>20 DEF L, f

-----------------------------------------------------------------------------
(* Slices.                                                                 *)

-----------------------------------------------------------------------------
(* Slices and keys.                                                        *)

\* A slice with a step.
IsSlice(s) ==
  /\ s # None /\ ~IsInt(s) /\ s.step \in Int \ {0}
  /\ s.start = None \/ s.start \in Int
  /\ s.stop = None \/ s.stop \in Int

\* A slice selects positions of the axis, however far its ends lie.
LEMMA SliceInRange ==
  ASSUME NEW s, IsSlice(s), NEW len \in Nat
  PROVE  LET ix == SliceIndices(s, len) IN
         /\ ix.start \in Int /\ ix.step = s.step /\ Count(ix) \in Nat
         /\ \A j \in 0..Count(ix) - 1 : ix.start + j * ix.step \in 0..len - 1
<1> DEFINE ix == SliceIndices(s, len)
           low     == IF s.step > 0 THEN 0 ELSE -1
           high    == IF s.step > 0 THEN len ELSE len - 1
           end(x)  == IF x < 0 THEN x + len ELSE x
           clip(x) == IF end(x) < low THEN low ELSE IF end(x) > high THEN high ELSE end(x)
           a == ix.start
           b == ix.stop
           w == s.step
           c == Count(ix)
<1>1. /\ a = IF s.start # None THEN clip(s.start) ELSE IF s.step > 0 THEN low ELSE high
      /\ b = IF s.stop # None THEN clip(s.stop) ELSE IF s.step > 0 THEN high ELSE low
      /\ ix.step = w
  BY DEF SliceIndices
<1>2. w \in Int /\ w # 0  BY DEF IsSlice
<1>3. low \in Int /\ high \in Int /\ low <= high  BY <1>2
<1>4. \A x \in Int : clip(x) \in low..high
  <2> HIDE DEF low, high
  <2> SUFFICES ASSUME NEW x \in Int  PROVE clip(x) \in low..high
    OBVIOUS
  <2>1. end(x) \in Int  OBVIOUS
  <2> HIDE DEF end
  <2> QED  BY <1>3, <2>1
<1>5. a \in low..high /\ b \in low..high
  <2> HIDE DEF low, high, clip, a, b
  <2>1. low \in low..high /\ high \in low..high  BY <1>3
  <2>2. s.start # None => clip(s.start) \in low..high  BY <1>4 DEF IsSlice
  <2>3. s.stop # None => clip(s.stop) \in low..high  BY <1>4 DEF IsSlice
  <2> QED  BY <1>1, <2>1, <2>2, <2>3
<1>6. c = IF w > 0 THEN IF b > a THEN (b - a - 1) \div w + 1 ELSE 0
                   ELSE IF a > b THEN (a - b - 1) \div (-w) + 1 ELSE 0
  BY <1>1 DEF Count
<1> HIDE DEF a, b, c, clip, end, w, ix
<1>7. CASE w > 0
  <2>1. a \in 0..len /\ b \in 0..len  BY <1>5, <1>7 DEF w
  <2>2. CASE ~(b > a)
    <3>1. c = 0  BY <1>6, <1>7, <2>2
    <3> QED  BY <1>1, <2>1, <3>1 DEF a, c, w, ix
  <2>3. CASE b > a
    <3>1. b - a \in Nat \ {0} /\ w \in Nat \ {0}  BY <1>2, <1>7, <2>1, <2>3
    <3>2. c = (b - a - 1) \div w + 1  BY <1>6, <1>7, <2>3
    <3>3. c \in Nat /\ \A j \in 0..c - 1 : j * w \in 0..b - a - 1  BY <3>1, <3>2, StepsFit
    <3>4. ASSUME NEW j \in 0..c - 1  PROVE a + j * w \in 0..len - 1
      <4>1. j * w \in 0..b - a - 1  BY <3>3
      <4> QED  BY <2>1, <4>1
    <3>5. a \in Int  BY <2>1
    <3> QED  BY <1>1, <3>3, <3>4, <3>5 DEF a, c, w, ix
  <2> QED  BY <2>2, <2>3
<1>8. CASE w < 0
  <2>1. a \in -1..len - 1 /\ b \in -1..len - 1
    <3>1. low = -1 /\ high = len - 1  BY <1>2, <1>8 DEF w
    <3> QED  BY <1>5, <3>1
  <2>2. CASE ~(a > b)
    <3>1. c = 0  BY <1>2, <1>6, <1>8, <2>2
    <3> QED  BY <1>1, <2>1, <3>1 DEF a, c, w, ix
  <2>3. CASE a > b
    <3>1. a - b \in Nat \ {0} /\ -w \in Nat \ {0}  BY <1>2, <1>8, <2>1, <2>3
    <3>2. c = (a - b - 1) \div (-w) + 1  BY <1>2, <1>6, <1>8, <2>3
    <3>3. c \in Nat /\ \A j \in 0..c - 1 : j * (-w) \in 0..a - b - 1  BY <3>1, <3>2, StepsFit
    <3>4. ASSUME NEW j \in 0..c - 1  PROVE a + j * w \in 0..len - 1
      <4>1. j * (-w) \in 0..a - b - 1 /\ j \in Int  BY <3>3
      <4>2. j * w = -(j * (-w))  BY <1>2, <4>1
      <4> DEFINE y == j * (-w)
      <4>3. y \in 0..a - b - 1 /\ j * w = -y  BY <4>1, <4>2
      <4> HIDE DEF y
      <4>4. a - y \in 0..len - 1  BY <2>1, <4>3
      <4>5. a + j * w = a - y  BY <2>1, <4>3
      <4> QED  BY <4>4, <4>5
    <3>5. a \in Int  BY <2>1
    <3> QED  BY <1>1, <3>3, <3>4, <3>5 DEF a, c, w, ix
  <2> QED  BY <2>2, <2>3
<1> QED  BY <1>2, <1>7, <1>8

-----------------------------------------------------------------------------
(* Keys.                                                                   *)

\* A slice or an integer.
IsSelector(x) == IsSlice(x) \/ (IsInt(x) /\ x.i \in Int)

\* selection_plan plans positions the axes have.
LEMMA PlanIsPlan ==
  ASSUME NEW shape \in Seq(Nat), NEW sels, DOMAIN sels = 1..Len(sels), Len(sels) \in Nat,
         \A k \in 1..Len(sels) : IsSelector(sels[k]), Plannable(shape, sels)
  PROVE  IsPlan(Plan(shape, sels), shape)
<1> DEFINE N == Len(shape)
           plan == Plan(shape, sels)
           e(k) == IF k > Len(sels) THEN [start |-> 0, step |-> 1, count |-> shape[k], drop |-> FALSE]
                   ELSE IF IsInt(sels[k])
                   THEN [start |-> Normalize(sels[k].i, shape[k]), step |-> 1, count |-> 1, drop |-> TRUE]
                   ELSE LET ix == SliceIndices(sels[k], shape[k]) IN
                        [start |-> ix.start, step |-> ix.step, count |-> Count(ix), drop |-> FALSE]
<1>1. N \in Nat /\ DOMAIN shape = 1..N /\ \A k \in 1..N : shape[k] \in Nat  OBVIOUS
<1>2. plan = [k \in 1..N |-> e(k)]  BY <1>1 DEF Plan
<1>3. ASSUME NEW k \in 1..N
      PROVE  /\ e(k) \in Steps
             /\ e(k).drop => e(k).count = 1
             /\ \A j \in 0..e(k).count - 1 : e(k).start + j * e(k).step \in 0..shape[k] - 1
  <2>1. shape[k] \in Nat  BY <1>1
  <2>2. CASE k > Len(sels)
    <3>1. e(k) = [start |-> 0, step |-> 1, count |-> shape[k], drop |-> FALSE]  BY <2>2
    <3>2. \A j \in 0..shape[k] - 1 : 0 + j * 1 \in 0..shape[k] - 1  BY <2>1
    <3> QED  BY <2>1, <3>1, <3>2 DEF Steps
  <2>3. CASE ~(k > Len(sels)) /\ IsInt(sels[k])
    <3> DEFINE s == Normalize(sels[k].i, shape[k])
    <3>1. e(k) = [start |-> s, step |-> 1, count |-> 1, drop |-> TRUE]  BY <2>3
    <3>2. k \in 1..Len(sels) /\ k \in DOMAIN sels  BY <2>3
    <3>3. InRange(sels[k].i, shape[k]) /\ sels[k].i \in Int
      BY <2>3, <3>2 DEF IsSelector, IsSlice, Plannable
    <3>4. s \in 0..shape[k] - 1  BY <2>1, <3>3 DEF InRange, Normalize
    <3> HIDE DEF s, e
    <3>5. \A j \in 0..1 - 1 : s + j * 1 \in 0..shape[k] - 1  BY <3>4
    <3> QED  BY <3>1, <3>4, <3>5 DEF Steps
  <2>4. CASE ~(k > Len(sels)) /\ ~IsInt(sels[k])
    <3> DEFINE ix == SliceIndices(sels[k], shape[k])
               c == Count(ix)
    <3>1. e(k) = [start |-> ix.start, step |-> ix.step, count |-> c, drop |-> FALSE]  BY <2>4
    <3>2. k \in 1..Len(sels)  BY <2>4
    <3>3. IsSlice(sels[k])  BY <2>4, <3>2 DEF IsSelector
    <3>4. /\ ix.start \in Int /\ ix.step = sels[k].step /\ c \in Nat
          /\ \A j \in 0..c - 1 : ix.start + j * ix.step \in 0..shape[k] - 1
      BY <2>1, <3>3, SliceInRange
    <3>5. ix.step \in Int  BY <3>3, <3>4 DEF IsSlice
    <3> HIDE DEF ix, c, e
    <3> QED  BY <3>1, <3>4, <3>5 DEF Steps
  <2> QED  BY <2>2, <2>3, <2>4
<1> HIDE DEF e
<1>4. plan \in Seq(Steps) /\ Len(plan) = N /\ \A k \in 1..N : plan[k] = e(k)  BY <1>1, <1>2, <1>3
<1> HIDE DEF plan
<1> QED  BY <1>3, <1>4 DEF IsPlan, plan

\* The selectors of a key are its integers and slices.
LEMMA KeyFacts ==
  ASSUME NEW key \in Keys
  PROVE  /\ Len(key) \in Nat /\ DOMAIN key = 1..Len(key)
         /\ \A p \in 1..Len(key) : key[p] # None => IsSelector(key[p])
         /\ DOMAIN Selectors(key) = 1..Len(Selectors(key)) /\ Len(Selectors(key)) \in Nat
         /\ LET K == {p \in DOMAIN key : key[p] # None} IN
            /\ Len(Selectors(key)) = Rank(Len(key), K)
            /\ \A n \in 1..Len(Selectors(key)) : Selectors(key)[n] = key[Ordered(Len(key), K)[n]]
         /\ \A n \in 1..Len(Selectors(key)) : IsSelector(Selectors(key)[n])
         /\ DOMAIN NewAxes(key) = 1..Len(NewAxes(key)) /\ Len(NewAxes(key)) \in Nat
<1> DEFINE M == Len(key)
           K == {p \in DOMAIN key : key[p] # None}
           J == {p \in DOMAIN key : key[p] = None}
           o == Ordered(M, K)
           u == Ordered(M, J)
           sels == Selectors(key)
           axes == NewAxes(key)
<1>1. key \in Seq(Range(key)) /\ M \in Nat /\ DOMAIN key = 1..M  BY LayoutsAssumption
<1>2. \A p \in 1..M : key[p] # None => IsSelector(key[p])
  <2> SUFFICES ASSUME NEW p \in 1..M, key[p] # None  PROVE IsSelector(key[p])
    OBVIOUS
  <2>1. \/ key[p] \in [kind : {"int"}, i : Int]
        \/ /\ key[p].kind = "slice" /\ key[p].step \in Int \ {0}
           /\ \A x \in {key[p].start, key[p].stop} : x = None \/ x \in Int
    BY <1>1, LayoutsAssumption
  <2>2. CASE key[p] \in [kind : {"int"}, i : Int]  BY <2>2 DEF IsSelector, IsInt
  <2>3. CASE /\ key[p].kind = "slice" /\ key[p].step \in Int \ {0}
             /\ \A x \in {key[p].start, key[p].stop} : x = None \/ x \in Int
    <3>1. (key[p].start = None \/ key[p].start \in Int) /\ (key[p].stop = None \/ key[p].stop \in Int)  BY <2>3
    <3>2. ~IsInt(key[p])  BY <2>3 DEF IsInt
    <3>3. key[p] # None /\ key[p].step \in Int \ {0}  BY <2>3
    <3>4. IsSlice(key[p])  BY <3>1, <3>2, <3>3 DEF IsSlice
    <3> QED  BY <3>4 DEF IsSelector
  <2> QED  BY <2>1, <2>2, <2>3
<1>3. /\ o \in Seq(1..M) /\ Len(o) = Rank(M, K) /\ \A m \in 1..Len(o) : o[m] \in K
      /\ u \in Seq(1..M)
  <2>1. OrderedOK(M, K) /\ OrderedOK(M, J)  BY <1>1, OrderedFacts
  <2> QED  BY <2>1 DEF OrderedOK, Rank
<1>4. sels = [n \in DOMAIN o |-> key[o[n]]]  BY DEF Selectors
<1>5. axes = [n \in DOMAIN u |-> Cardinality({p \in 1..u[n] - 1 : ~IsInt(key[p])})]  BY DEF NewAxes
<1> HIDE DEF o, u, sels, axes
<1>6. DOMAIN o = 1..Len(o) /\ Len(o) \in Nat /\ DOMAIN u = 1..Len(u) /\ Len(u) \in Nat  BY <1>3
<1>7. DOMAIN sels = 1..Len(o) /\ Len(sels) = Len(o) /\ \A n \in 1..Len(o) : sels[n] = key[o[n]]  BY <1>4, <1>6
<1>8. DOMAIN axes = 1..Len(axes) /\ Len(axes) \in Nat  BY <1>5, <1>6
<1>9. \A n \in 1..Len(o) : IsSelector(sels[n])  BY <1>1, <1>2, <1>3, <1>7
<1> QED  BY <1>1, <1>2, <1>3, <1>6, <1>7, <1>8, <1>9 DEF M, K, o, sels, axes

-----------------------------------------------------------------------------
(* Ranks.                                                                  *)

-----------------------------------------------------------------------------
(* insert_axis.                                                            *)

\* f satisfies the recursion of InsertOnes up to n.
IsMade(f, n, s, x, axes) ==
  f = [k \in 0..n |->
         IF k = 0 THEN s
         ELSE InsertAt(f[k - 1], (IF axes[k] < Len(f[k - 1]) THEN axes[k] ELSE Len(f[k - 1])) + 1, x)]

\* The recursion of InsertOnes has a solution.
LEMMA MadeExists ==
  ASSUME NEW s, NEW x, NEW axes, NEW m \in Nat
  PROVE  \E f : IsMade(f, m, s, x, axes)
<1> DEFINE T == {n \in Nat : \E f : IsMade(f, n, s, x, axes)}
<1>1. 0 \in T
  <2>1. IsMade([k \in 0..0 |-> s], 0, s, x, axes)  BY DEF IsMade
  <2> QED  BY <2>1
<1>2. ASSUME NEW n \in Nat, n \in T  PROVE n + 1 \in T
  <2>1. PICK f : IsMade(f, n, s, x, axes)  BY <1>2
  <2> DEFINE next(g, k) == InsertAt(g, (IF axes[k] < Len(g) THEN axes[k] ELSE Len(g)) + 1, x)
             h == [k \in 0..n + 1 |-> IF k = n + 1 THEN next(f[n], n + 1) ELSE f[k]]
             r == [k \in 0..n + 1 |-> IF k = 0 THEN s ELSE next(h[k - 1], k)]
  <2>2. \A k \in 0..n : f[k] = IF k = 0 THEN s ELSE next(f[k - 1], k)  BY <2>1 DEF IsMade
  <2> HIDE DEF next
  <2>3. (\A k \in 0..n : h[k] = f[k]) /\ h[n + 1] = next(f[n], n + 1)  OBVIOUS
  <2>4. \A k \in 0..n + 1 : r[k] = IF k = 0 THEN s ELSE next(h[k - 1], k)  OBVIOUS
  <2>5. h = [k \in 0..n + 1 |-> h[k]] /\ r = [k \in 0..n + 1 |-> r[k]]  OBVIOUS
  <2> HIDE DEF h, r
  <2>6. ASSUME NEW k \in 0..n + 1  PROVE h[k] = r[k]
    <3>1. CASE k = n + 1
      <4>1. k # 0 /\ k - 1 = n /\ n \in 0..n  BY <3>1
      <4> QED  BY <2>3, <2>4, <3>1, <4>1
    <3>2. CASE k # n + 1
      <4>1. k \in 0..n /\ (k # 0 => k - 1 \in 0..n)  BY <3>2
      <4> QED  BY <2>2, <2>3, <2>4, <4>1
    <3> QED  BY <3>1, <3>2
  <2>7. h = r  BY <2>5, <2>6
  <2>8. IsMade(h, n + 1, s, x, axes)  BY <2>7 DEF IsMade, r, next
  <2> QED  BY <2>8
<1> HIDE DEF T
<1>3. \A n \in Nat : n \in T  BY <1>1, <1>2, Induction
<1> QED  BY <1>3 DEF T

\* Where a dimension of one is inserted for each of the positions J between the
\* positions K.
Inserting(axes, F, K, J, S, s, x) ==
  /\ s \in Seq(S) /\ Len(s) = Rank(F, K) /\ x \in S
  /\ F \in Nat /\ K \in SUBSET (1..F) /\ J \in SUBSET (1..F) /\ K \cap J = {}
  /\ Len(axes) = Rank(F, J)
  /\ \A n \in 1..Len(axes) : axes[n] = Rank(Ordered(F, J)[n] - 1, K \cup J)

\* The result: x at the positions J, and s at the positions K.
Inserted(y, F, K, J, S, s, x) ==
  LET o == Ordered(F, K \cup J) IN
  /\ y \in Seq(S) /\ Len(y) = Len(o)
  /\ \A n \in 1..Len(o) : y[n] = IF o[n] \in J THEN x ELSE s[Rank(o[n], K)]

\* Inserting one axis after the other puts each where the key has its None.
LEMMA InsertOnesIs ==
  ASSUME NEW axes, NEW F, NEW K, NEW J, NEW S, NEW s, NEW x, Inserting(axes, F, K, J, S, s, x)
  PROVE  Inserted(InsertOnes(s, x, axes), F, K, J, S, s, x)
<1> DEFINE M == Len(axes)
           u == Ordered(F, J)
           L(m) == K \cup {j \in J : Rank(j, J) <= m}
           OK(y, m) == /\ y \in Seq(S) /\ Len(y) = Rank(F, L(m))
                       /\ \A n \in 1..Rank(F, L(m)) :
                            LET p == Ordered(F, L(m))[n] IN y[n] = IF p \in J THEN x ELSE s[Rank(p, K)]
<1>0. /\ s \in Seq(S) /\ Len(s) = Rank(F, K) /\ x \in S
      /\ F \in Nat /\ K \in SUBSET (1..F) /\ J \in SUBSET (1..F) /\ K \cap J = {}
      /\ Len(axes) = Rank(F, J)
      /\ \A n \in 1..Len(axes) : axes[n] = Rank(Ordered(F, J)[n] - 1, K \cup J)
  BY DEF Inserting
<1>1. /\ M \in Nat /\ Len(u) = M
      /\ \A m \in 1..M : u[m] \in J /\ u[m] \in 1..F /\ Rank(u[m], J) = m
      /\ \A j \in J : j \in 1..F /\ Rank(j, J) \in 1..M /\ u[Rank(j, J)] = j
  <2>1. OrderedOK(F, J)  BY <1>0, OrderedFacts
  <2>2. Rank(F, J) \in Nat  BY <1>0, RankStep
  <2> QED  BY <1>0, <2>1, <2>2 DEF OrderedOK, Rank
<1>2. PICK made : IsMade(made, M, s, x, axes) /\ InsertOnes(s, x, axes) = made[M]
  <2>1. \E f : IsMade(f, M, s, x, axes)  BY <1>1, MadeExists
  <2> DEFINE made == CHOOSE f : IsMade(f, M, s, x, axes)
  <2>2. IsMade(made, M, s, x, axes)  BY <2>1
  <2>3. InsertOnes(s, x, axes) = made[M]  BY DEF InsertOnes, IsMade
  <2> QED  BY <2>2, <2>3
<1>3. /\ made[0] = s
      /\ \A k \in 1..M : made[k] = InsertAt(made[k - 1], (IF axes[k] < Len(made[k - 1]) THEN axes[k]
                                                         ELSE Len(made[k - 1])) + 1, x)
  <2>1. \A k \in 0..M : made[k] = IF k = 0 THEN s
          ELSE InsertAt(made[k - 1], (IF axes[k] < Len(made[k - 1]) THEN axes[k] ELSE Len(made[k - 1])) + 1, x)
    BY <1>2 DEF IsMade
  <2>2. 0 \in 0..M /\ \A k \in 1..M : k \in 0..M /\ k # 0  BY <1>1
  <2> HIDE DEF M
  <2>3. made[0] = s  BY <2>1, <2>2
  <2> QED  BY <2>1, <2>2, <2>3
<1>4. L(0) = K /\ L(M) = K \cup J
  <2>1. \A j \in J : ~(Rank(j, J) <= 0) /\ Rank(j, J) <= M  BY <1>1
  <2> QED  BY <2>1
<1>5. \A m \in 0..M - 1 : /\ u[m + 1] \in 1..F /\ u[m + 1] \notin L(m) /\ u[m + 1] \in J
                          /\ L(m + 1) = L(m) \cup {u[m + 1]}
  <2> SUFFICES ASSUME NEW m \in 0..M - 1
               PROVE  /\ u[m + 1] \in 1..F /\ u[m + 1] \notin L(m) /\ u[m + 1] \in J
                      /\ L(m + 1) = L(m) \cup {u[m + 1]}
    OBVIOUS
  <2> HIDE DEF u, M
  <2>1. m + 1 \in 1..M  BY <1>1
  <2>2. u[m + 1] \in J /\ u[m + 1] \in 1..F /\ Rank(u[m + 1], J) = m + 1  BY <1>1, <2>1
  <2>3. ~(m + 1 <= m)  OBVIOUS
  <2>4. \A j \in J : Rank(j, J) <= m + 1 <=> Rank(j, J) <= m \/ j = u[m + 1]
    <3> SUFFICES ASSUME NEW j \in J  PROVE Rank(j, J) <= m + 1 <=> Rank(j, J) <= m \/ j = u[m + 1]
      OBVIOUS
    <3>1. Rank(j, J) \in 1..M /\ u[Rank(j, J)] = j  BY <1>1
    <3>2. Rank(j, J) = m + 1 <=> j = u[m + 1]  BY <2>2, <3>1
    <3> QED  BY <3>1, <3>2
  <2>5. u[m + 1] \notin K  BY <1>0, <2>2
  <2> QED  BY <2>2, <2>3, <2>4, <2>5
<1>6. \A m \in 0..M - 1 : axes[m + 1] = Rank(u[m + 1] - 1, L(m))
  <2> SUFFICES ASSUME NEW m \in 0..M - 1  PROVE axes[m + 1] = Rank(u[m + 1] - 1, L(m))
    OBVIOUS
  <2> DEFINE p == u[m + 1]
  <2>1. m + 1 \in 1..M  BY <1>1
  <2>2. axes[m + 1] = Rank(p - 1, K \cup J)  BY <1>0, <2>1
  <2>3. p \in J /\ p \in 1..F /\ Rank(p, J) = m + 1  BY <1>1, <2>1
  <2> HIDE DEF u, M, p
  <2>4. p - 1 \in Nat /\ p \in Nat \ {0}  BY <2>3
  <2>5. Rank(p - 1, J) = m
    <3>1. Rank(p, J) = Rank(p - 1, J) + 1 /\ Rank(p - 1, J) \in Nat  BY <2>3, <2>4, RankAt, RankStep
    <3> QED  BY <2>3, <3>1
  <2>6. \A q \in 1..p - 1 : q \in J => Rank(q, J) <= m
    <3> SUFFICES ASSUME NEW q \in 1..p - 1  PROVE Rank(q, J) <= m
      OBVIOUS
    <3>1. q \in 0..p - 1  BY <2>4
    <3> QED  BY <2>4, <2>5, <3>1, RankGrows
  <2>7. \A q \in 1..p - 1 : q \in K \cup J <=> q \in L(m)  BY <2>6
  <2> HIDE DEF L
  <2>8. Rank(p - 1, K \cup J) = Rank(p - 1, L(m))  BY <2>4, <2>7, RankSame
  <2> QED  BY <2>2, <2>8 DEF p
<1> DEFINE T == {m \in 0..M : OK(made[m], m)}
<1>7. 0 \in T
  <2> DEFINE o == Ordered(F, K)
  <2>1. Len(o) = Rank(F, K) /\ \A n \in 1..Rank(F, K) : o[n] \in K /\ Rank(o[n], K) = n
    BY <1>0, OrderedFacts DEF OrderedOK, Rank
  <2> HIDE DEF o
  <2>2. \A n \in 1..Rank(F, K) : o[n] \notin J /\ s[n] = s[Rank(o[n], K)]  BY <1>0, <2>1
  <2>3. \A n \in 1..Rank(F, K) : s[n] = IF o[n] \in J THEN x ELSE s[Rank(o[n], K)]  BY <2>2
  <2> HIDE DEF L
  <2>4. OK(s, 0)  BY <1>0, <1>4, <2>3 DEF o
  <2> HIDE DEF OK, M
  <2>5. 0 \in 0..M  BY <1>1
  <2> QED  BY <1>3, <2>4, <2>5
<1>8. ASSUME NEW m \in 0..M - 1, m \in T  PROVE m + 1 \in T
  <2> DEFINE p == u[m + 1]
             H == L(m)
             G == L(m + 1)
             o == Ordered(F, H)
             q == Ordered(F, G)
             y == made[m]
             z == made[m + 1]
             r == Rank(p - 1, H) + 1
  <2>1. OK(y, m)  BY <1>8
  <2>2. /\ y \in Seq(S) /\ Len(y) = Len(o)
        /\ \A n \in 1..Len(o) : y[n] = IF o[n] \in J THEN x ELSE s[Rank(o[n], K)]
    BY <2>1 DEF Rank
  <2>3. p \in 1..F /\ p \notin H /\ p \in J /\ G = H \cup {p} /\ axes[m + 1] = r - 1
    <3>1. Rank(p - 1, H) \in Nat
      <4>1. p \in 1..F  BY <1>5
      <4>2. p - 1 \in Nat  BY <4>1
      <4> QED  BY <4>2, RankStep
    <3> HIDE DEF L, u
    <3> QED  BY <1>5, <1>6, <3>1
  <2> HIDE DEF p, H, G, L, u
  <2>4. /\ r \in 1..Len(o) + 1 /\ Len(q) = Len(o) + 1 /\ q[r] = p
        /\ \A n \in 1..Len(o) : n < r => q[n] = o[n]
        /\ \A n \in 1..Len(o) : n >= r => q[n + 1] = o[n]
    <3> DEFINE q2 == Ordered(F, H \cup {p})
    <3>1. /\ r \in 1..Len(o) + 1 /\ Len(q2) = Len(o) + 1 /\ q2[r] = p
          /\ \A n \in 1..Len(o) : n < r => q2[n] = o[n]
          /\ \A n \in 1..Len(o) : n >= r => q2[n + 1] = o[n]
      BY <1>0, <2>3, OrderedAdd
    <3>2. q = q2  BY <2>3
    <3> HIDE DEF q, q2, r, o
    <3> QED  BY <3>1, <3>2
  <2>5. Len(o) \in Nat
    <3>1. Len(o) = Len(y)  BY <2>2
    <3> QED  BY <2>2, <3>1
  <2> HIDE DEF r, o, q, y
  <2>6. z = InsertAt(y, r, x)
    <3>1. m + 1 \in 1..M /\ (m + 1) - 1 = m  BY <1>1
    <3>2. z = InsertAt(y, (IF axes[m + 1] < Len(y) THEN axes[m + 1] ELSE Len(y)) + 1, x)  BY <1>3, <3>1 DEF y
    <3>3. (IF axes[m + 1] < Len(y) THEN axes[m + 1] ELSE Len(y)) + 1 = r  BY <2>2, <2>3, <2>4, <2>5
    <3> QED  BY <3>2, <3>3
  <2> HIDE DEF z
  <2>7. /\ z \in Seq(S) /\ Len(z) = Len(y) + 1 /\ z[r] = x
        /\ \A n \in 1..Len(y) : n < r => z[n] = y[n]
        /\ \A n \in 1..Len(y) : n >= r => z[n + 1] = y[n]
    <3>1. r \in 1..Len(y) + 1 /\ y \in Seq(S) /\ x \in S  BY <1>0, <2>2, <2>4
    <3> HIDE DEF OK, T, M
    <3> DEFINE z2 == InsertAt(y, r, x)
    <3>2. /\ z2 \in Seq(S) /\ Len(z2) = Len(y) + 1 /\ z2[r] = x
          /\ \A n \in 1..Len(y) : n < r => z2[n] = y[n]
          /\ \A n \in 1..Len(y) : n >= r => z2[n + 1] = y[n]
      BY <3>1, <1>0, InsertAtIs
    <3> HIDE DEF z2
    <3>3. z = z2  BY <2>6 DEF z2
    <3> QED  BY <3>2, <3>3
  <2>8. Len(z) = Len(q)  BY <2>2, <2>4, <2>7
  <2>9. ASSUME NEW n \in 1..Len(q)  PROVE z[n] = IF q[n] \in J THEN x ELSE s[Rank(q[n], K)]
    <3>1. CASE n < r
      <4>1. n \in 1..Len(o)  BY <2>4, <2>5, <3>1
      <4>2. z[n] = y[n] /\ q[n] = o[n]  BY <2>2, <2>4, <2>7, <3>1, <4>1
      <4> QED  BY <2>2, <4>1, <4>2
    <3>2. CASE n = r  BY <2>3, <2>4, <2>7, <3>2
    <3>3. CASE n > r
      <4>1. n - 1 \in 1..Len(o) /\ n - 1 >= r /\ (n - 1) + 1 = n  BY <2>4, <2>5, <3>3
      <4>2. z[n] = y[n - 1] /\ q[n] = o[n - 1]  BY <2>2, <2>4, <2>7, <4>1
      <4> QED  BY <2>2, <4>1, <4>2
    <3>4. r \in Int /\ n \in Int  BY <2>4, <2>5
    <3> QED  BY <3>1, <3>2, <3>3, <3>4
  <2>10. OK(z, m + 1)  BY <2>7, <2>8, <2>9 DEF q, G, Rank
  <2>11. m + 1 \in 0..M  BY <1>1
  <2> HIDE DEF OK
  <2> QED  BY <2>10, <2>11 DEF z
<1> HIDE DEF T
<1>9. \A m \in 0..M : m \in T  BY <1>1, <1>7, <1>8, InductionTo
<1>10. OK(made[M], M)
  <2>1. M \in 0..M  BY <1>1
  <2>2. M \in T  BY <1>9, <2>1
  <2> QED  BY <2>2 DEF T
<1> HIDE DEF L, M
<1> QED  BY <1>2, <1>4, <1>10 DEF Rank, Inserted

-----------------------------------------------------------------------------
(* The items of a key and the axes they stand for.                         *)

-----------------------------------------------------------------------------
(* The items of a key and the axes they stand for.                         *)

\* The key, with the slices it leaves out,
Full(shape, key) == key \o [n \in 1..Len(shape) - Len(Selectors(key)) |-> Whole]

\* the items that name an axis of the array, those that keep it, and the axes
\* that are new.
Named(shape, key)   == {p \in DOMAIN Full(shape, key) : Full(shape, key)[p] # None}

Keeping(shape, key) == {p \in DOMAIN Full(shape, key) : Full(shape, key)[p] # None /\ ~IsInt(Full(shape, key)[p])}

Added(shape, key)   == {p \in DOMAIN Full(shape, key) : Full(shape, key)[p] = None}

\* A key the code can plan for.
IsKeyFor(key, shape) == key \in Keys /\ shape \in Seq(Nat) /\ Plannable(shape, Selectors(key))

\* The completed key begins with the key, and has selectors and None only.
LEMMA FullFacts ==
  ASSUME NEW key, NEW shape, IsKeyFor(key, shape)
  PROVE  LET full == Full(shape, key)
             M == Len(key)
             F == Len(full)
         IN  /\ M \in Nat /\ F \in Nat /\ M <= F /\ DOMAIN full = 1..F
             /\ F = M + (Len(shape) - Len(Selectors(key))) /\ Len(Selectors(key)) \in 0..Len(shape)
             /\ \A p \in 1..M : full[p] = key[p]
             /\ \A p \in 1..F : p > M => full[p] = Whole
             /\ \A p \in 1..F : full[p] # None => IsSelector(full[p])
             /\ Named(shape, key) \in SUBSET (1..F) /\ Keeping(shape, key) \in SUBSET (1..F)
             /\ Added(shape, key) \in SUBSET (1..F)
<1> DEFINE full == Full(shape, key)
           M == Len(key)
           F == Len(full)
           N == Len(shape)
           S == Len(Selectors(key))
           w == [n \in 1..N - S |-> Whole]
           X == Range(key) \cup {Whole}
<1>1. key \in Keys /\ shape \in Seq(Nat) /\ Plannable(shape, Selectors(key))  BY DEF IsKeyFor
<1>2. /\ M \in Nat /\ DOMAIN key = 1..M /\ S \in Nat /\ key \in Seq(Range(key))
      /\ \A p \in 1..M : key[p] # None => IsSelector(key[p])
  BY <1>1, KeyFacts, LayoutsAssumption
<1>3. N \in Nat /\ S <= N  BY <1>1 DEF Plannable, Ndim
<1> HIDE DEF S, N
<1>4. w \in Seq(X) /\ Len(w) = N - S /\ \A n \in 1..N - S : w[n] = Whole  BY <1>2, <1>3
<1>5. key \in Seq(X)
  <2>1. \A p \in 1..M : key[p] \in X  BY <1>2
  <2>2. key = [p \in 1..M |-> key[p]]  BY <1>2
  <2> HIDE DEF X, M
  <2> QED  BY <1>2, <2>1, <2>2
<1> HIDE DEF w, X
<1>6. /\ full = key \o w /\ Len(full) = M + (N - S) /\ full \in Seq(X)
      /\ \A p \in 1..M + (N - S) : full[p] = IF p <= M THEN key[p] ELSE w[p - M]
  <2>1. full = key \o w  BY DEF Full, w, S, N
  <2> HIDE DEF full
  <2> QED  BY <1>4, <1>5, <2>1, ConcatProperties
<1> HIDE DEF full, M
<1>7. M <= F /\ F \in Nat /\ F = M + (N - S) /\ DOMAIN full = 1..F  BY <1>2, <1>3, <1>6
<1>8. \A p \in 1..M : full[p] = key[p]  BY <1>2, <1>3, <1>6
<1>9. ASSUME NEW p \in 1..F, p > M  PROVE full[p] = Whole
  <2>1. p - M \in 1..N - S /\ ~(p <= M) /\ p \in 1..M + (N - S)  BY <1>2, <1>3, <1>7, <1>9
  <2> QED  BY <1>4, <1>6, <2>1
<1>10. IsSelector(Whole)
  <2>1. IsSlice(Whole)
    <3>1. Whole # None  BY NoneIsNoSlice
    <3>2. Whole.kind = "slice" /\ Whole.step = 1 /\ Whole.start = None /\ Whole.stop = None  BY DEF Whole
    <3>3. ~IsInt(Whole)  BY <3>2 DEF IsInt
    <3> QED  BY <3>1, <3>2, <3>3 DEF IsSlice
  <2> QED  BY <2>1 DEF IsSelector
<1>11. ASSUME NEW p \in 1..F, full[p] # None  PROVE IsSelector(full[p])
  <2>1. CASE p > M  BY <1>9, <1>10, <2>1
  <2>2. CASE ~(p > M)
    <3>1. p \in 1..M  BY <1>2, <1>7, <2>2
    <3> QED  BY <1>2, <1>8, <1>11, <3>1
  <2> QED  BY <2>1, <2>2
<1>12. /\ Named(shape, key) \in SUBSET (1..F) /\ Keeping(shape, key) \in SUBSET (1..F)
       /\ Added(shape, key) \in SUBSET (1..F)
  BY <1>7 DEF Named, Keeping, Added, full
<1>13. S \in 0..N  BY <1>2, <1>3
<1> HIDE DEF F
<1> QED  BY <1>2, <1>7, <1>8, <1>9, <1>11, <1>12, <1>13 DEF full, M, F, N, S

\* Which of its positions are which.
LEMMA PartsOfKey ==
  ASSUME NEW key, NEW shape, IsKeyFor(key, shape)
  PROVE  LET full == Full(shape, key)
             F == Len(full)
             A == Named(shape, key)
             K == Keeping(shape, key)
             J == Added(shape, key)
         IN  \A p \in 1..F : /\ p \in A <=> full[p] # None
                             /\ p \in K <=> full[p] # None /\ ~IsInt(full[p])
                             /\ p \in J <=> full[p] = None
                             /\ p \in K \cup J <=> ~IsInt(full[p])
<1>1. DOMAIN Full(shape, key) = 1..Len(Full(shape, key))  BY FullFacts
<1> QED  BY <1>1 DEF Named, Keeping, Added, IsInt

\* Counting the items that name axes, one comes to the axes.
LEMMA AxesOfKey ==
  ASSUME NEW key, NEW shape, IsKeyFor(key, shape)
  PROVE  LET full == Full(shape, key)
             F == Len(full)
             N == Len(shape)
             A == Named(shape, key)
             item == Ordered(F, A)
             sels == Selectors(key)
         IN  /\ Rank(F, A) = N /\ Len(item) = N
             /\ \A k \in 1..N : /\ item[k] \in A /\ item[k] \in 1..F /\ Rank(item[k], A) = k
                                /\ full[item[k]] = IF k > Len(sels) THEN Whole ELSE sels[k]
             /\ \A p \in A : p \in 1..F /\ Rank(p, A) \in 1..N /\ item[Rank(p, A)] = p
<1> DEFINE full == Full(shape, key)
           M == Len(key)
           F == Len(full)
           N == Len(shape)
           A == Named(shape, key)
           B == {p \in DOMAIN key : key[p] # None}
           item == Ordered(F, A)
           sels == Selectors(key)
           S == Len(sels)
<1>1. /\ M \in Nat /\ F \in Nat /\ M <= F /\ DOMAIN full = 1..F /\ F = M + (N - S) /\ S \in 0..N
      /\ \A p \in 1..M : full[p] = key[p]
      /\ \A p \in 1..F : p > M => full[p] = Whole
      /\ A \in SUBSET (1..F)
  BY FullFacts
<1>2. \A p \in 1..F : p \in A <=> full[p] # None  BY PartsOfKey
<1>3. /\ DOMAIN key = 1..M /\ S = Rank(M, B) /\ \A k \in 1..S : sels[k] = key[Ordered(M, B)[k]]
  BY KeyFacts DEF IsKeyFor
<1>4. N \in Nat  BY DEF IsKeyFor
<1>5. \A p \in 1..M : p \in 1..F  BY <1>1
<1>6. \A p \in 1..M : p \in A <=> p \in B  BY <1>1, <1>2, <1>3, <1>5
<1> HIDE DEF full, F, N, A, B, item, sels, S, M
<1>7. \A m \in 0..M : Rank(m, A) = Rank(m, B)
  <2> SUFFICES ASSUME NEW m \in 0..M  PROVE Rank(m, A) = Rank(m, B)
    OBVIOUS
  <2>1. m \in Nat /\ \A q \in 1..m : q \in 1..M  BY <1>1
  <2> QED  BY <1>6, <2>1, RankSame
<1>8. \A d \in 0..F - M : Rank(M + d, A) = S + d
  <2> DEFINE T == {d \in 0..F - M : Rank(M + d, A) = S + d}
  <2>1. 0 \in T
    <3>1. M + 0 = M /\ M \in 0..M /\ 0 \in 0..F - M /\ S + 0 = S  BY <1>1
    <3> QED  BY <1>3, <1>7, <3>1
  <2>2. ASSUME NEW d \in 0..F - M - 1, d \in T  PROVE d + 1 \in T
    <3>1. Rank(M + d, A) = S + d  BY <2>2
    <3>2. M + d \in Nat /\ (M + d) + 1 \in 1..F /\ (M + d) + 1 > M /\ d + 1 \in 0..F - M
          /\ M + (d + 1) = (M + d) + 1 /\ (S + d) + 1 = S + (d + 1)
      BY <1>1, <1>4
    <3>3. (M + d) + 1 \in A  BY <1>1, <1>2, <3>2, NoneIsNoSlice
    <3>4. Rank((M + d) + 1, A) = Rank(M + d, A) + 1  BY <3>2, <3>3, RankStep
    <3>5. Rank(M + (d + 1), A) = S + (d + 1)  BY <3>1, <3>2, <3>4
    <3> QED  BY <3>2, <3>5
  <2> HIDE DEF T
  <2>3. F - M \in Nat  BY <1>1
  <2>4. \A d \in 0..F - M : d \in T  BY <2>1, <2>2, <2>3, InductionTo
  <2> QED  BY <2>4 DEF T
<1>9. Rank(F, A) = N
  <2>1. F - M \in 0..F - M /\ M + (F - M) = F /\ S + (F - M) = N  BY <1>1, <1>4
  <2> QED  BY <1>8, <2>1
<1>10. /\ Len(item) = N
       /\ \A k \in 1..N : item[k] \in A /\ item[k] \in 1..F /\ Rank(item[k], A) = k
       /\ \A p \in 1..F : p \in A => Rank(p, A) \in 1..N /\ item[Rank(p, A)] = p
  BY <1>1, <1>9, OrderedFacts DEF OrderedOK, Rank, item
<1>11. \A p \in A : p \in 1..F /\ Rank(p, A) \in 1..N /\ item[Rank(p, A)] = p  BY <1>1, <1>10
<1>12. ASSUME NEW k \in 1..N  PROVE full[item[k]] = IF k > S THEN Whole ELSE sels[k]
  <2>1. CASE k > S
    <3> DEFINE p == item[k]
    <3>1. p \in 1..F /\ Rank(p, A) = k  BY <1>10
    <3> HIDE DEF p
    <3>2. p > M
      <4>1. p <= M => Rank(p, A) <= Rank(M, A)
        <5>1. p <= M => p \in 0..M  BY <1>1, <3>1
        <5> QED  BY <1>1, <5>1, RankGrows
      <4>2. Rank(M, A) = S /\ S \in Nat /\ k \in Nat
        <5>1. M \in 0..M  BY <1>1
        <5> QED  BY <1>1, <1>3, <1>4, <1>7, <5>1
      <4> QED  BY <1>1, <2>1, <3>1, <4>1, <4>2
    <3>3. full[p] = Whole  BY <1>1, <3>1, <3>2
    <3> QED  BY <2>1, <3>3 DEF p
  <2>2. CASE ~(k > S)
    <3> DEFINE p == Ordered(M, B)[k]
    <3>1. k \in 1..S  BY <1>1, <1>4, <2>2
    <3>2. p \in B /\ p \in 1..M /\ Rank(p, B) = k  BY <1>1, <1>3, <3>1, OrderedFacts DEF OrderedOK, Rank
    <3> HIDE DEF p
    <3>3. p \in A /\ Rank(p, A) = k
      <4>1. p \in 0..M  BY <3>2
      <4> QED  BY <1>6, <1>7, <3>2, <4>1
    <3>4. item[k] = p  BY <1>11, <3>3
    <3>5. full[p] = sels[k]  BY <1>1, <1>3, <3>1, <3>2 DEF p
    <3> QED  BY <2>2, <3>4, <3>5
  <2> QED  BY <2>1, <2>2
<1> QED  BY <1>9, <1>10, <1>11, <1>12 DEF full, F, N, A, item, sels, S

\* An axis that the key does not name is taken whole.
LEMMA WholeAxis ==
  ASSUME NEW len \in Nat
  PROVE  LET ix == SliceIndices(Whole, len) IN ix.start = 0 /\ ix.step = 1 /\ Count(ix) = len
<1> DEFINE ix == SliceIndices(Whole, len)
<1>1. Whole.step = 1 /\ Whole.start = None /\ Whole.stop = None  BY DEF Whole
<1>2. ix.start = 0 /\ ix.stop = len /\ ix.step = 1  BY <1>1 DEF SliceIndices
<1> HIDE DEF ix
<1>3. Count(ix) = IF len > 0 THEN (len - 0 - 1) \div 1 + 1 ELSE 0  BY <1>2 DEF Count
<1>4. (len - 0 - 1) \div 1 = len - 1
  <2> DEFINE k == len - 0 - 1
  <2>1. k \in Int /\ k = k * 1 + 0 /\ 0 \in 0..1 - 1 /\ 1 \in Nat \ {0} /\ k = len - 1  OBVIOUS
  <2> HIDE DEF k
  <2>2. k = k \div 1  BY <2>1, DivMod
  <2> QED  BY <2>1, <2>2 DEF k
<1> QED  BY <1>2, <1>3, <1>4 DEF ix

\* The plan of an axis is that of the item that names it.
LEMMA PlanOfKey ==
  ASSUME NEW key, NEW shape, IsKeyFor(key, shape)
  PROVE  LET full == Full(shape, key)
             item == Ordered(Len(full), Named(shape, key))
             plan == Plan(shape, Selectors(key))
         IN  /\ IsPlan(plan, shape)
             /\ \A k \in 1..Len(shape) :
                  LET x == full[item[k]]
                      ix == SliceIndices(x, shape[k])
                  IN  /\ IsInt(x) => plan[k] = [start |-> Normalize(x.i, shape[k]), step |-> 1, count |-> 1, drop |-> TRUE]
                      /\ ~IsInt(x) => /\ IsSlice(x)
                                      /\ plan[k] = [start |-> ix.start, step |-> ix.step, count |-> Count(ix), drop |-> FALSE]
<1> DEFINE full == Full(shape, key)
           sels == Selectors(key)
           item == Ordered(Len(full), Named(shape, key))
           plan == Plan(shape, sels)
           N == Len(shape)
<1>1. key \in Keys /\ shape \in Seq(Nat) /\ Plannable(shape, sels)  BY DEF IsKeyFor
<1>2. IsPlan(plan, shape)
  <2>1. DOMAIN sels = 1..Len(sels) /\ Len(sels) \in Nat /\ \A n \in 1..Len(sels) : IsSelector(sels[n])
    BY <1>1, KeyFacts
  <2> HIDE DEF sels
  <2> QED  BY <1>1, <2>1, PlanIsPlan
<1>3. /\ \A k \in 1..N : /\ item[k] \in Named(shape, key) /\ item[k] \in 1..Len(full)
                         /\ full[item[k]] = IF k > Len(sels) THEN Whole ELSE sels[k]
  BY AxesOfKey
<1>4. \A p \in Named(shape, key) : full[p] # None  BY DEF Named
<1>5. \A p \in 1..Len(full) : full[p] # None => IsSelector(full[p])  BY FullFacts
<1>6. N \in Nat /\ DOMAIN shape = 1..N /\ \A k \in 1..N : shape[k] \in Nat  BY <1>1
<1>7. \A k \in 1..N : plan[k] =
        IF k > Len(sels) THEN [start |-> 0, step |-> 1, count |-> shape[k], drop |-> FALSE]
        ELSE IF IsInt(sels[k])
        THEN [start |-> Normalize(sels[k].i, shape[k]), step |-> 1, count |-> 1, drop |-> TRUE]
        ELSE LET ix == SliceIndices(sels[k], shape[k]) IN
             [start |-> ix.start, step |-> ix.step, count |-> Count(ix), drop |-> FALSE]
  BY <1>6 DEF Plan
<1> HIDE DEF full, sels, item, plan, N
<1>8. ASSUME NEW k \in 1..N
      PROVE  LET x == full[item[k]]
                 ix == SliceIndices(x, shape[k])
             IN  /\ IsInt(x) => plan[k] = [start |-> Normalize(x.i, shape[k]), step |-> 1, count |-> 1, drop |-> TRUE]
                 /\ ~IsInt(x) => /\ IsSlice(x)
                                 /\ plan[k] = [start |-> ix.start, step |-> ix.step, count |-> Count(ix), drop |-> FALSE]
  <2> DEFINE x == full[item[k]]
             ix == SliceIndices(x, shape[k])
  <2>1. ~IsInt(x) => IsSlice(x)
    <3>1. IsSelector(x)  BY <1>3, <1>4, <1>5
    <3> QED  BY <3>1 DEF IsSelector
  <2>2. x = IF k > Len(sels) THEN Whole ELSE sels[k]  BY <1>3
  <2> HIDE DEF x
  <2>3. CASE k > Len(sels)
    <3>1. x = Whole /\ ~IsInt(x)  BY <2>2, <2>3 DEF Whole, IsInt
    <3>2. ix.start = 0 /\ ix.step = 1 /\ Count(ix) = shape[k]  BY <1>6, <3>1, WholeAxis
    <3>3. plan[k] = [start |-> 0, step |-> 1, count |-> shape[k], drop |-> FALSE]  BY <1>7, <2>3
    <3> HIDE DEF ix
    <3>4. plan[k] = [start |-> ix.start, step |-> ix.step, count |-> Count(ix), drop |-> FALSE]  BY <3>2, <3>3
    <3> QED  BY <2>1, <3>1, <3>4 DEF x, ix
  <2>4. CASE ~(k > Len(sels))
    <3>1. x = sels[k]  BY <2>2, <2>4
    <3>2. IsInt(x) => plan[k] = [start |-> Normalize(x.i, shape[k]), step |-> 1, count |-> 1, drop |-> TRUE]
      BY <1>7, <2>4, <3>1
    <3>3. ~IsInt(x) => plan[k] = [start |-> ix.start, step |-> ix.step, count |-> Count(ix), drop |-> FALSE]
      BY <1>7, <2>4, <3>1
    <3> QED  BY <2>1, <3>2, <3>3 DEF x
  <2> QED  BY <2>3, <2>4
<1> QED  BY <1>2, <1>8 DEF full, sels, item, plan, N

\* The items that keep their axis, in order, are the axes the plan keeps.
LEMMA KeptOfKey ==
  ASSUME NEW key, NEW shape, IsKeyFor(key, shape)
  PROVE  LET F == Len(Full(shape, key))
             A == Named(shape, key)
             K == Keeping(shape, key)
             kept == KeptAxes(Plan(shape, Selectors(key)))
         IN  /\ \A p \in 0..F : Rank(Rank(p, A), kept) = Rank(p, K)
             /\ Rank(Len(shape), kept) = Rank(F, K)
             /\ \A p \in K : p \in A /\ Rank(p, A) \in kept
<1> DEFINE full == Full(shape, key)
           F == Len(full)
           N == Len(shape)
           A == Named(shape, key)
           K == Keeping(shape, key)
           item == Ordered(F, A)
           plan == Plan(shape, Selectors(key))
           kept == KeptAxes(plan)
<1>1. F \in Nat /\ A \in SUBSET (1..F) /\ K \in SUBSET (1..F)  BY FullFacts
<1>2. \A p \in 1..F : (p \in A <=> full[p] # None) /\ (p \in K <=> full[p] # None /\ ~IsInt(full[p]))
  BY PartsOfKey
<1>3. Rank(F, A) = N /\ \A p \in A : p \in 1..F /\ Rank(p, A) \in 1..N /\ item[Rank(p, A)] = p  BY AxesOfKey
<1>4. /\ IsPlan(plan, shape)
      /\ \A k \in 1..N : plan[k].drop <=> IsInt(full[item[k]])
  <2>1. IsPlan(plan, shape)  BY PlanOfKey
  <2>2. ASSUME NEW k \in 1..N  PROVE plan[k].drop <=> IsInt(full[item[k]])
    <3> DEFINE x == full[item[k]]
               ix == SliceIndices(x, shape[k])
    <3>1. /\ IsInt(x) => plan[k] = [start |-> Normalize(x.i, shape[k]), step |-> 1, count |-> 1, drop |-> TRUE]
          /\ ~IsInt(x) => plan[k] = [start |-> ix.start, step |-> ix.step, count |-> Count(ix), drop |-> FALSE]
      BY PlanOfKey
    <3> HIDE DEF x, ix, plan
    <3>2. plan[k].drop <=> IsInt(x)  BY <3>1
    <3> QED  BY <3>2 DEF x
  <2> QED  BY <2>1, <2>2
<1>5. \A k \in 1..N : k \in kept <=> ~plan[k].drop
  <2>1. shape \in Seq(Nat)  BY DEF IsKeyFor
  <2> HIDE DEF plan
  <2> QED  BY <1>4, <2>1, PlanFacts
<1> HIDE DEF full, F, N, A, K, item, plan, kept
<1>6. \A p \in A : Rank(p, A) \in kept <=> p \in K
  <2> SUFFICES ASSUME NEW p \in A  PROVE Rank(p, A) \in kept <=> p \in K
    OBVIOUS
  <2>1. p \in 1..F /\ Rank(p, A) \in 1..N /\ item[Rank(p, A)] = p  BY <1>3
  <2>2. Rank(p, A) \in kept <=> ~IsInt(full[p])  BY <1>4, <1>5, <2>1
  <2> QED  BY <1>2, <2>1, <2>2
<1>7. \A p \in K : p \in A  BY <1>1, <1>2
<1>8. \A p \in 0..F : Rank(Rank(p, A), kept) = Rank(p, K)
  <2> DEFINE T == {p \in 0..F : Rank(Rank(p, A), kept) = Rank(p, K)}
  <2>1. 0 \in T
    <3>1. Rank(0, A) = 0 /\ Rank(0, kept) = 0 /\ Rank(0, K) = 0 /\ 0 \in 0..F  BY <1>1, RankStep
    <3> QED  BY <3>1
  <2>2. ASSUME NEW p \in 0..F - 1, p \in T  PROVE p + 1 \in T
    <3> DEFINE r == Rank(p, A)
    <3>1. p \in Nat /\ p + 1 \in 1..F /\ p + 1 \in 0..F  BY <1>1
    <3>2. Rank(p + 1, A) = IF p + 1 \in A THEN r + 1 ELSE r  BY <3>1, RankStep
    <3>3. Rank(p + 1, K) = IF p + 1 \in K THEN Rank(p, K) + 1 ELSE Rank(p, K)  BY <3>1, RankStep
    <3>4. r \in Nat  BY <3>1, RankStep
    <3>5. Rank(r, kept) = Rank(p, K)  BY <2>2
    <3> HIDE DEF r
    <3>6. Rank(r + 1, kept) = IF r + 1 \in kept THEN Rank(r, kept) + 1 ELSE Rank(r, kept)  BY <3>4, RankStep
    <3>7. CASE p + 1 \in A
      <4>1. r + 1 \in kept <=> p + 1 \in K  BY <1>6, <3>2, <3>7
      <4>2. Rank(Rank(p + 1, A), kept) = Rank(p + 1, K)  BY <3>2, <3>3, <3>5, <3>6, <3>7, <4>1
      <4> QED  BY <3>1, <4>2
    <3>8. CASE p + 1 \notin A
      <4>1. p + 1 \notin K  BY <1>7, <3>8
      <4>2. Rank(Rank(p + 1, A), kept) = Rank(p + 1, K)  BY <3>2, <3>3, <3>5, <3>8, <4>1
      <4> QED  BY <3>1, <4>2
    <3> QED  BY <3>7, <3>8
  <2> HIDE DEF T
  <2>3. \A p \in 0..F : p \in T  BY <1>1, <2>1, <2>2, InductionTo
  <2> QED  BY <2>3 DEF T
<1>9. Rank(N, kept) = Rank(F, K)
  <2>1. F \in 0..F  BY <1>1
  <2> QED  BY <1>3, <1>8, <2>1
<1> QED  BY <1>6, <1>7, <1>8, <1>9 DEF full, F, N, A, K, plan, kept

\* NewAxes are the ranks of the None among the axes of the result.
LEMMA NewAxesOfKey ==
  ASSUME NEW key, NEW shape, IsKeyFor(key, shape)
  PROVE  LET F == Len(Full(shape, key))
             K == Keeping(shape, key)
             J == Added(shape, key)
             axes == NewAxes(key)
         IN  /\ K \cap J = {} /\ Len(axes) = Rank(F, J)
             /\ \A n \in 1..Len(axes) : axes[n] = Rank(Ordered(F, J)[n] - 1, K \cup J)
<1> DEFINE full == Full(shape, key)
           F == Len(full)
           M == Len(key)
           K == Keeping(shape, key)
           J == Added(shape, key)
           H == {p \in DOMAIN key : key[p] = None}
           u == Ordered(M, H)
           axes == NewAxes(key)
<1>1. /\ M \in Nat /\ F \in Nat /\ M <= F /\ DOMAIN full = 1..F
      /\ \A p \in 1..M : full[p] = key[p]
      /\ \A p \in 1..F : p > M => full[p] = Whole
      /\ J \in SUBSET (1..F)
  BY FullFacts
<1>2. \A p \in 1..F : /\ p \in K <=> full[p] # None /\ ~IsInt(full[p])
                      /\ p \in J <=> full[p] = None
                      /\ p \in K \cup J <=> ~IsInt(full[p])
  BY PartsOfKey
<1>3. DOMAIN key = 1..M  BY KeyFacts DEF IsKeyFor
<1>4. H = J
  <2>1. \A p \in 1..M : p \in 1..F /\ (p \in H <=> p \in J)  BY <1>1, <1>2, <1>3
  <2>2. \A p \in J : p \in 1..F /\ ~(p > M)  BY <1>1, <1>2, NoneIsNoSlice
  <2>3. \A p \in J : p \in 1..M  BY <1>1, <2>2
  <2>4. \A p \in H : p \in 1..M  BY <1>3
  <2> HIDE DEF H, J
  <2> QED  BY <2>1, <2>3, <2>4
<1>5. u = Ordered(F, J)
  <2>1. \A p \in H : p <= M  BY <1>1, <1>3
  <2> HIDE DEF H, J, F, M
  <2>2. Ordered(F, H) = Ordered(M, H)  BY <1>1, <2>1, OrderedBeyond
  <2> QED  BY <1>4, <2>2
<1>6. axes = [n \in DOMAIN u |-> Cardinality({p \in 1..u[n] - 1 : ~IsInt(key[p])})]  BY DEF NewAxes
<1>7. u \in Seq(1..M) /\ \A n \in 1..Len(u) : u[n] \in 1..M  BY <1>1, OrderedFacts DEF OrderedOK
<1> HIDE DEF u, H, J, K, F, M, axes, full
<1>8. DOMAIN u = 1..Len(u) /\ Len(u) \in Nat  BY <1>7
<1>9. Len(axes) = Len(u) /\ \A n \in 1..Len(u) : axes[n] = Cardinality({p \in 1..u[n] - 1 : ~IsInt(key[p])})
  BY <1>6, <1>8
<1>10. ASSUME NEW n \in 1..Len(u)  PROVE axes[n] = Rank(u[n] - 1, K \cup J)
  <2> DEFINE q == u[n]
  <2>1. q \in 1..M /\ q - 1 \in Nat /\ \A p \in 1..q - 1 : p \in 1..M /\ p \in 1..F  BY <1>1, <1>7
  <2> HIDE DEF q
  <2>2. {p \in 1..q - 1 : ~IsInt(key[p])} = {p \in 1..q - 1 : p \in K \cup J}
    <3>1. \A p \in 1..q - 1 : ~IsInt(key[p]) <=> p \in K \cup J  BY <1>1, <1>2, <2>1
    <3> QED  BY <3>1
  <2>3. Rank(q - 1, K \cup J) = Cardinality({p \in 1..q - 1 : p \in K \cup J})  BY <2>1, RankIs
  <2> QED  BY <1>9, <2>2, <2>3 DEF q
<1>11. K \cap J = {}  BY <1>1, <1>2
<1> QED  BY <1>5, <1>9, <1>10, <1>11 DEF Rank, K, J, F, axes, full

\* L is the layout s with new axes at the positions J of the key.
HasAxes(L, s, F, K, J) ==
  LET o == Ordered(F, K \cup J) IN
  /\ IsLayout(L) /\ L.ptr = s.ptr /\ Len(L.shape) = Len(o)
  /\ \A n \in 1..Len(o) : /\ L.shape[n] = IF o[n] \in J THEN 1 ELSE s.shape[Rank(o[n], K)]
                          /\ L.strides[n] = IF o[n] \in J THEN 0 ELSE s.strides[Rank(o[n], K)]

\* What WithNewAxes makes of a selection.
LEMMA WithAxesIs ==
  ASSUME NEW key, NEW shape, IsKeyFor(key, shape),
         NEW s, IsLayout(s), Len(s.shape) = Rank(Len(Full(shape, key)), Keeping(shape, key))
  PROVE  LET F == Len(Full(shape, key))
             K == Keeping(shape, key)
             J == Added(shape, key)
             L == WithNewAxes(s, NewAxes(key))
         IN  HasAxes(L, s, F, K, J) /\ L.shape = InsertOnes(s.shape, 1, NewAxes(key))
<1> DEFINE F == Len(Full(shape, key))
           K == Keeping(shape, key)
           J == Added(shape, key)
           o == Ordered(F, K \cup J)
           axes == NewAxes(key)
           L == WithNewAxes(s, axes)
           a == InsertOnes(s.shape, 1, axes)
           b == InsertOnes(s.strides, 0, axes)
<1>1. F \in Nat /\ K \in SUBSET (1..F) /\ J \in SUBSET (1..F)  BY FullFacts
<1>2. /\ K \cap J = {} /\ Len(axes) = Rank(F, J)
      /\ \A n \in 1..Len(axes) : axes[n] = Rank(Ordered(F, J)[n] - 1, K \cup J)
  BY NewAxesOfKey
<1>3. /\ s.ptr \in Int /\ s.shape \in Seq(Nat) /\ s.strides \in Seq(Int)
      /\ Len(s.shape) = Rank(F, K) /\ Len(s.strides) = Rank(F, K)
  BY DEF IsLayout
<1>4. L.ptr = s.ptr /\ L.shape = a /\ L.strides = b  BY DEF WithNewAxes, Layout
<1> HIDE DEF F, K, J, axes, L
<1>5. Inserted(a, F, K, J, Nat, s.shape, 1)
  <2>1. Inserting(axes, F, K, J, Nat, s.shape, 1)  BY <1>1, <1>2, <1>3 DEF Inserting
  <2> QED  BY <2>1, InsertOnesIs
<1>6. Inserted(b, F, K, J, Int, s.strides, 0)
  <2>1. 0 \in Int  OBVIOUS
  <2>2. Inserting(axes, F, K, J, Int, s.strides, 0)  BY <1>1, <1>2, <1>3, <2>1 DEF Inserting
  <2> QED  BY <2>2, InsertOnesIs
<1> HIDE DEF a, b
<1>7. a \in Seq(Nat) /\ Len(a) = Len(o) /\ \A n \in 1..Len(o) : a[n] = IF o[n] \in J THEN 1 ELSE s.shape[Rank(o[n], K)]
  BY <1>5 DEF Inserted
<1>8. b \in Seq(Int) /\ Len(b) = Len(o) /\ \A n \in 1..Len(o) : b[n] = IF o[n] \in J THEN 0 ELSE s.strides[Rank(o[n], K)]
  BY <1>6 DEF Inserted
<1> HIDE DEF o
<1>9. IsLayout(L)  BY <1>3, <1>4, <1>7, <1>8 DEF IsLayout
<1>10. HasAxes(L, s, F, K, J)  BY <1>4, <1>7, <1>8, <1>9 DEF HasAxes, o
<1> QED  BY <1>4, <1>10 DEF F, K, J, L, axes, a

\* The index into the selection, without the positions on new axes.
Without(shape, key, i) ==
  LET F == Len(Full(shape, key))
      K == Keeping(shape, key)
      J == Added(shape, key)
  IN  [m \in 1..Rank(F, K) |-> i[Rank(Ordered(F, K)[m], K \cup J)]]

\* A new axis does not change an address.
LEMMA WithAxesMaps ==
  ASSUME NEW key, NEW shape, IsKeyFor(key, shape),
         NEW s, IsLayout(s), Len(s.shape) = Rank(Len(Full(shape, key)), Keeping(shape, key)),
         NEW i \in Indices(WithNewAxes(s, NewAxes(key)).shape)
  PROVE  /\ Without(shape, key, i) \in Indices(s.shape)
         /\ Address(WithNewAxes(s, NewAxes(key)), i) = Address(s, Without(shape, key, i))
<1> DEFINE F == Len(Full(shape, key))
           K == Keeping(shape, key)
           J == Added(shape, key)
           o == Ordered(F, K \cup J)
           c == Ordered(F, K)
           L == WithNewAxes(s, NewAxes(key))
           x == Without(shape, key, i)
           R(p) == Rank(p, K \cup J)
           v == [p \in 1..F |-> IF p \in K THEN i[R(p)] * s.strides[Rank(p, K)] ELSE 0]
           t == [n \in DOMAIN L.strides |-> i[n] * L.strides[n]]
           d == [m \in DOMAIN s.strides |-> x[m] * s.strides[m]]
<1>1. F \in Nat /\ K \in SUBSET (1..F) /\ J \in SUBSET (1..F) /\ K \cap J = {}  BY FullFacts, NewAxesOfKey
<1>2. /\ IsLayout(L) /\ L.ptr = s.ptr /\ Len(L.shape) = Len(o)
      /\ \A n \in 1..Len(o) : /\ L.shape[n] = IF o[n] \in J THEN 1 ELSE s.shape[Rank(o[n], K)]
                              /\ L.strides[n] = IF o[n] \in J THEN 0 ELSE s.strides[Rank(o[n], K)]
  <2>1. HasAxes(L, s, F, K, J)  BY WithAxesIs
  <2> HIDE DEF F, K, J, L
  <2> QED  BY <2>1 DEF HasAxes
<1>3. x = [m \in 1..Rank(F, K) |-> i[R(c[m])]]  BY DEF Without
<1>4. /\ s.ptr \in Int /\ s.shape \in Seq(Nat) /\ s.strides \in Seq(Int)
      /\ Len(s.shape) = Rank(F, K) /\ Len(s.strides) = Rank(F, K)
  BY DEF IsLayout
<1>5. i \in Indices(L.shape)  OBVIOUS
<1> HIDE DEF F, K, J, L, x
<1>6. /\ Len(o) = Rank(F, K \cup J)
      /\ \A n \in 1..Len(o) : o[n] \in K \cup J /\ o[n] \in 1..F /\ R(o[n]) = n
      /\ \A p \in 1..F : p \in K \cup J => R(p) \in 1..Len(o) /\ o[R(p)] = p
  BY <1>1, OrderedFacts DEF OrderedOK, Rank
<1>7. /\ Len(c) = Rank(F, K) /\ Rank(F, K) \in Nat
      /\ \A m \in 1..Len(c) : c[m] \in K /\ c[m] \in 1..F /\ Rank(c[m], K) = m
      /\ \A p \in 1..F : p \in K => Rank(p, K) \in 1..Len(c) /\ c[Rank(p, K)] = p
  BY <1>1, OrderedFacts, RankStep DEF OrderedOK, Rank
<1> HIDE DEF o, c, R
<1>8. i \in Seq(Nat) /\ Len(i) = Len(o) /\ \A n \in 1..Len(o) : i[n] \in Nat /\ i[n] < L.shape[n]
  BY <1>2, <1>5, IndexTypes DEF IsLayout
<1>9. \A m \in 1..Len(c) : R(c[m]) \in 1..Len(o) /\ x[m] = i[R(c[m])] /\ x[m] \in Nat /\ x[m] < s.shape[m]
  <2> SUFFICES ASSUME NEW m \in 1..Len(c)
               PROVE  R(c[m]) \in 1..Len(o) /\ x[m] = i[R(c[m])] /\ x[m] \in Nat /\ x[m] < s.shape[m]
    OBVIOUS
  <2>1. c[m] \in K /\ c[m] \in 1..F /\ Rank(c[m], K) = m  BY <1>7
  <2>2. R(c[m]) \in 1..Len(o) /\ o[R(c[m])] = c[m] /\ c[m] \notin J  BY <1>1, <1>6, <2>1
  <2>3. L.shape[R(c[m])] = s.shape[m]  BY <1>2, <2>1, <2>2
  <2>4. x[m] = i[R(c[m])]  BY <1>3, <1>7
  <2> QED  BY <1>8, <2>2, <2>3, <2>4
<1>10. x \in Indices(s.shape)
  <2>1. x \in [1..Len(c) -> Nat]
    <3>1. x = [m \in 1..Len(c) |-> x[m]]  BY <1>3, <1>7
    <3> QED  BY <1>9, <3>1
  <2> QED  BY <1>4, <1>7, <1>9, <2>1, IndicesAre
<1>11. t \in Seq(Int) /\ Len(t) = Len(o) /\ Dot(i, L.strides) = Total(t) /\ \A n \in 1..Len(o) : t[n] = i[n] * L.strides[n]
  <2>1. L.strides \in Seq(Int) /\ Len(L.strides) = Len(o)  BY <1>2 DEF IsLayout
  <2>2. i \in Seq(Nat) /\ Len(i) = Len(L.strides)  BY <1>8, <2>1
  <2> HIDE DEF t
  <2>3. /\ t \in Seq(Int) /\ Len(t) = Len(L.strides) /\ Dot(i, L.strides) = Total(t)
        /\ \A n \in 1..Len(L.strides) : t[n] = i[n] * L.strides[n]
    BY <2>1, <2>2, DotTypes DEF t
  <2> QED  BY <2>1, <2>3
<1>12. d \in Seq(Int) /\ Len(d) = Len(c) /\ Dot(x, s.strides) = Total(d) /\ \A m \in 1..Len(c) : d[m] = x[m] * s.strides[m]
  <2>1. x \in Seq(Nat) /\ Len(x) = Len(s.strides)  BY <1>4, <1>10, IndexTypes
  <2> HIDE DEF d
  <2>2. /\ d \in Seq(Int) /\ Len(d) = Len(s.strides) /\ Dot(x, s.strides) = Total(d)
        /\ \A m \in 1..Len(s.strides) : d[m] = x[m] * s.strides[m]
    BY <1>4, <2>1, DotTypes DEF d
  <2> QED  BY <1>4, <1>7, <2>2
<1>13. v \in Seq(Int) /\ Len(v) = F /\ \A p \in 1..F : v[p] = IF p \in K THEN i[R(p)] * s.strides[Rank(p, K)] ELSE 0
  <2>1. \A p \in 1..F : (IF p \in K THEN i[R(p)] * s.strides[Rank(p, K)] ELSE 0) \in Int
    <3> SUFFICES ASSUME NEW p \in 1..F, p \in K  PROVE i[R(p)] * s.strides[Rank(p, K)] \in Int
      OBVIOUS
    <3>1. R(p) \in 1..Len(o) /\ Rank(p, K) \in 1..Len(c)  BY <1>6, <1>7
    <3>2. i[R(p)] \in Int /\ s.strides[Rank(p, K)] \in Int  BY <1>4, <1>7, <1>8, <3>1
    <3> QED  BY <3>2
  <2> QED  BY <1>1, <2>1
<1> HIDE DEF t, d, v
<1>14. Total(t) = Total(v)
  <2>1. \A n \in 1..Len(o) : t[n] = v[o[n]]
    <3> SUFFICES ASSUME NEW n \in 1..Len(o)  PROVE t[n] = v[o[n]]
      OBVIOUS
    <3>1. o[n] \in K \cup J /\ o[n] \in 1..F /\ R(o[n]) = n /\ i[n] \in Nat  BY <1>6, <1>8
    <3>2. CASE o[n] \in K
      <4>1. L.strides[n] = s.strides[Rank(o[n], K)]  BY <1>1, <1>2, <3>2
      <4> QED  BY <1>11, <1>13, <3>1, <3>2, <4>1
    <3>3. CASE o[n] \notin K
      <4>1. L.strides[n] = 0  BY <1>2, <3>1, <3>3
      <4>2. i[n] * 0 = 0  BY <3>1
      <4> QED  BY <1>11, <1>13, <3>1, <3>3, <4>1, <4>2
    <3> QED  BY <3>2, <3>3
  <2>2. \A p \in 1..Len(v) : p \notin K \cup J => v[p] = 0  BY <1>13
  <2>3. Len(t) = Rank(Len(v), K \cup J) /\ \A n \in 1..Len(t) : t[n] = v[Ordered(Len(v), K \cup J)[n]]
    BY <1>6, <1>11, <1>13, <2>1 DEF o
  <2> QED  BY <1>11, <1>13, <2>2, <2>3, SumSelected
<1>15. Total(d) = Total(v)
  <2>1. \A m \in 1..Len(c) : d[m] = v[c[m]]  BY <1>7, <1>9, <1>12, <1>13
  <2>2. \A p \in 1..Len(v) : p \notin K => v[p] = 0  BY <1>13
  <2>3. Len(d) = Rank(Len(v), K) /\ \A m \in 1..Len(d) : d[m] = v[Ordered(Len(v), K)[m]]
    BY <1>7, <1>12, <1>13, <2>1 DEF c
  <2> QED  BY <1>12, <1>13, <2>2, <2>3, SumSelected
<1>16. Address(L, i) = Address(s, x)  BY <1>2, <1>11, <1>12, <1>14, <1>15 DEF Address
<1> QED  BY <1>10, <1>16 DEF L, x

-----------------------------------------------------------------------------
(* Selections that are one block.                                          *)

-----------------------------------------------------------------------------
(* Selections that are one block.                                          *)

\* How many positions the plan takes on each axis.
Counts(plan) == [k \in DOMAIN plan |-> plan[k].count]

\* A selection has as many elements as its plan takes positions.
LEMMA SelectProduct ==
  ASSUME NEW shape \in Seq(Nat), NEW plan, IsPlan(plan, shape)
  PROVE  /\ Counts(plan) \in Seq(Nat) /\ Len(Counts(plan)) = Len(shape)
         /\ \A k \in 1..Len(shape) : Counts(plan)[k] = plan[k].count
         /\ \A k \in 0..Len(shape) : Weight(Counts(plan), k) = Weight(OutShape(plan), Rank(k, KeptAxes(plan)))
         /\ Product(OutShape(plan)) = 0 <=> Empty(plan)
<1> DEFINE N == Len(shape)
           K == KeptAxes(plan)
           o == Kept(plan)
           out == OutShape(plan)
           c == Counts(plan)
<1>1. /\ N \in Nat /\ DOMAIN plan = 1..N
      /\ \A k \in 1..N : plan[k].count \in Nat /\ (k \in K <=> ~plan[k].drop)
      /\ o = Ordered(N, K) /\ Len(o) = Rank(N, K) /\ o \in Seq(1..N)
      /\ \A m \in 1..Len(o) : o[m] \in 1..N
      /\ out \in Seq(Nat) /\ Len(out) = Len(o)
      /\ \A m \in 1..Len(o) : out[m] = plan[o[m]].count
  BY PlanFacts
<1>2. c = [k \in 1..N |-> plan[k].count]  BY <1>1 DEF Counts
<1>3. \A k \in 1..N : plan[k].drop => plan[k].count = 1  BY DEF IsPlan
<1> HIDE DEF N, K, o, out, c
<1>4. c \in Seq(Nat) /\ Len(c) = N /\ \A k \in 1..N : c[k] = plan[k].count
  <2>1. \A k \in 1..N : c[k] = plan[k].count  BY <1>2
  <2>2. \A k \in 1..N : plan[k].count \in Nat  BY <1>1
  <2>3. c \in [1..N -> Nat]
    <3>1. c = [k \in 1..N |-> c[k]]  BY <1>2, <2>1
    <3> QED  BY <2>1, <2>2, <3>1
  <2>4. N \in Nat  BY <1>1
  <2>5. c \in Seq(Nat) /\ Len(c) = N  BY <2>3, <2>4
  <2> QED  BY <2>1, <2>5
<1>5. \A k \in 1..Len(c) : k \notin K => c[k] = 1  BY <1>1, <1>3, <1>4
<1>6. \A m \in 1..Len(out) : out[m] = c[Ordered(Len(c), K)[m]]
  <2>1. \A m \in 1..Len(o) : out[m] = c[o[m]]  BY <1>1, <1>4
  <2> QED  BY <1>1, <1>4, <2>1
<1>7. Len(out) = Rank(Len(c), K)  BY <1>1, <1>4
<1>8. (\A k \in 0..Len(c) : Weight(c, k) = Weight(out, Rank(k, K))) /\ Product(c) = Product(out)
  BY <1>1, <1>4, <1>5, <1>6, <1>7, WeightSelected
<1>9. Product(c) # 0 <=> \A k \in 1..N : c[k] # 0  BY <1>4, ProductPositive
<1>10. Empty(plan) <=> \E k \in 1..N : c[k] = 0
  <2>1. DOMAIN plan = 1..N /\ \A k \in 1..N : c[k] = plan[k].count  BY <1>1, <1>4
  <2>2. Empty(plan) <=> \E k \in 1..N : plan[k].count = 0  BY <2>1 DEF Empty
  <2> QED  BY <2>1, <2>2
<1> QED  BY <1>4, <1>8, <1>9, <1>10 DEF N, K, out, c

\* plan_view: what it takes for a block is one, and begins where it says.
LEMMA BlockSelected ==
  ASSUME NEW shape \in Seq(Nat), NEW ptr \in Int, NEW plan, IsPlan(plan, shape),
         OneBlock(shape, plan), ~Empty(plan)
  PROVE  /\ IsCContiguous(Select(Contiguous(ptr, shape), plan))
         /\ Select(Contiguous(ptr, shape), plan).ptr = ptr + PlanOffset(shape, plan)
<1> DEFINE N == Len(shape)
           K == KeptAxes(plan)
           o == Kept(plan)
           out == OutShape(plan)
           c == Counts(plan)
           l == Contiguous(ptr, shape)
           s == Select(l, plan)
           started(k) == \E j \in 1..k - 1 : plan[j].count > 1
           a == [k \in 1..N |-> IF plan[k].count > 0 THEN plan[k].start * l.strides[k] ELSE 0]
           b == [k \in DOMAIN plan |-> IF started(k) THEN 0 ELSE plan[k].start * CStrides(shape)[k]]
<1>1. /\ N \in Nat /\ DOMAIN plan = 1..N
      /\ \A k \in 1..N : plan[k].start \in Int /\ plan[k].step \in Int /\ plan[k].count \in Nat
      /\ o \in Seq(1..N) /\ Len(o) = Rank(N, K)
      /\ \A m \in 1..Len(o) : o[m] \in K /\ o[m] \in 1..N /\ Rank(o[m], K) = m
      /\ out \in Seq(Nat) /\ Len(out) = Len(o)
      /\ \A m \in 1..Len(o) : out[m] = plan[o[m]].count
  BY PlanFacts
<1>2. IsLayout(l) /\ l.ptr = ptr /\ l.shape = shape /\ l.strides = CStrides(shape)  BY ContiguousIsLayout
<1>3. /\ s.shape = out /\ \A m \in 1..Len(o) : s.strides[m] = plan[o[m]].step * l.strides[o[m]]
      /\ a \in Seq(Int) /\ Len(a) = N /\ s.ptr = ptr + Total(a)
  <2> HIDE DEF l
  <2> QED  BY <1>2, SelectIsLayout
<1>4. /\ c \in Seq(Nat) /\ Len(c) = N /\ \A k \in 1..N : c[k] = plan[k].count
      /\ \A k \in 0..N : Weight(c, k) = Weight(out, Rank(k, K))
  BY SelectProduct
<1>5. CStrides(shape) \in Seq(Int) /\ \A k \in 1..N : CStrides(shape)[k] = Weight(shape, k) /\ CStrides(shape)[k] \in Int
  <2>1. CStrides(shape) \in Seq(Int) /\ Len(CStrides(shape)) = N /\ \A k \in 1..N : CStrides(shape)[k] = Weight(shape, k)
    BY Weights
  <2> QED  BY <2>1
<1>6. \A k \in 1..N : IF started(k)
                      THEN plan[k].start = 0 /\ plan[k].step = 1 /\ plan[k].count = shape[k]
                      ELSE plan[k].count > 1 => plan[k].step = 1
  BY <1>1 DEF OneBlock
<1>7. \A k \in 1..N : plan[k].count > 0
  <2>1. \A k \in 1..N : plan[k].count # 0  BY <1>1 DEF Empty
  <2> QED  BY <1>1, <2>1
<1>8. PlanOffset(shape, plan) = Total(b)  BY DEF PlanOffset
<1>9. a = [k \in 1..N |-> plan[k].start * CStrides(shape)[k]]  BY <1>2, <1>7
<1>10. b = [k \in 1..N |-> IF started(k) THEN 0 ELSE plan[k].start * CStrides(shape)[k]]  BY <1>1
<1>11. a = b
  <2>1. \A k \in 1..N : started(k) => plan[k].start * CStrides(shape)[k] = 0
    <3> SUFFICES ASSUME NEW k \in 1..N, started(k)  PROVE plan[k].start * CStrides(shape)[k] = 0
      OBVIOUS
    <3>1. plan[k].start = 0 /\ CStrides(shape)[k] \in Int  BY <1>5, <1>6
    <3>2. \A x \in Int : 0 * x = 0  OBVIOUS
    <3> QED  BY <3>1, <3>2
  <2> HIDE DEF started, a, b, N
  <2> QED  BY <1>9, <1>10, <2>1
<1>12. s.ptr = ptr + PlanOffset(shape, plan)
  <2> HIDE DEF a, b, s
  <2> QED  BY <1>3, <1>8, <1>11
<1> HIDE DEF s, l, a, b, o, out, c, K
<1>13. ASSUME NEW m \in 1..Len(o), out[m] # 1  PROVE s.strides[m] = CStrides(out)[m]
  <2> DEFINE k == o[m]
  <2>1. k \in 1..N /\ k \in K /\ Rank(k, K) = m /\ out[m] = plan[k].count  BY <1>1
  <2> HIDE DEF k
  <2>2. plan[k].count > 1  BY <1>1, <1>7, <1>13, <2>1
  <2>3. plan[k].step = 1  BY <1>6, <2>1, <2>2
  <2>4. s.strides[m] = Weight(shape, k)
    <3>1. s.strides[m] = plan[k].step * CStrides(shape)[k]  BY <1>2, <1>3 DEF k
    <3>2. CStrides(shape)[k] = Weight(shape, k) /\ CStrides(shape)[k] \in Int  BY <1>5, <2>1
    <3>3. \A x \in Int : 1 * x = x  OBVIOUS
    <3> QED  BY <2>3, <3>1, <3>2, <3>3
  <2>5. Weight(c, k) = Weight(shape, k)
    <3>1. \A j \in k + 1..N : c[j] = shape[j]
      <4> SUFFICES ASSUME NEW j \in k + 1..N  PROVE c[j] = shape[j]
        OBVIOUS
      <4>1. j \in 1..N /\ k \in 1..j - 1  BY <1>1, <2>1
      <4>2. started(j)  BY <2>2, <4>1
      <4> HIDE DEF started
      <4> QED  BY <1>4, <1>6, <4>1, <4>2
    <3>2. k \in 0..N  BY <2>1
    <3> QED  BY <1>4, <3>1, <3>2, SameTail
  <2>6. Weight(c, k) = Weight(out, m)
    <3>1. k \in 0..N  BY <2>1
    <3> QED  BY <1>4, <2>1, <3>1
  <2>7. CStrides(out)[m] = Weight(out, m)  BY <1>1, Weights
  <2> QED  BY <2>4, <2>5, <2>6, <2>7
<1>14. DOMAIN out = 1..Len(o)  BY <1>1
<1>15. IsCContiguous(s)  BY <1>3, <1>13, <1>14 DEF IsCContiguous
<1> QED  BY <1>12, <1>15 DEF s, l

\* A new axis goes over no elements.
LEMMA WithAxesContiguous ==
  ASSUME NEW L, NEW s, NEW F \in Nat, NEW K \in SUBSET (1..F), NEW J \in SUBSET (1..F), K \cap J = {},
         IsLayout(s), Len(s.shape) = Rank(F, K), HasAxes(L, s, F, K, J)
  PROVE  /\ Product(L.shape) = Product(s.shape)
         /\ IsCContiguous(s) => IsCContiguous(L)
<1> DEFINE o == Ordered(F, K \cup J)
           c == [p \in 1..F |-> IF p \in K THEN s.shape[Rank(p, K)] ELSE 1]
           M == Rank(F, K)
           a == s.shape
           b == L.shape
<1>1. /\ L.strides \in Seq(Int) /\ b \in Seq(Nat) /\ Len(b) = Len(o)
      /\ \A n \in 1..Len(o) : /\ b[n] = IF o[n] \in J THEN 1 ELSE a[Rank(o[n], K)]
                              /\ L.strides[n] = IF o[n] \in J THEN 0 ELSE s.strides[Rank(o[n], K)]
  BY DEF HasAxes, IsLayout
<1>2. a \in Seq(Nat) /\ Len(a) = M /\ \A m \in 1..M : a[m] \in Nat  BY DEF IsLayout
<1>3. /\ Len(o) = Rank(F, K \cup J)
      /\ \A n \in 1..Len(o) : o[n] \in K \cup J /\ o[n] \in 1..F /\ Rank(o[n], K \cup J) = n
  BY OrderedFacts DEF OrderedOK, Rank
<1>4. /\ \A p \in 1..F : p \in K => Rank(p, K) \in 1..M
      /\ \A m \in 1..M : Ordered(F, K)[m] \in K /\ Ordered(F, K)[m] \in 1..F /\ Rank(Ordered(F, K)[m], K) = m
  BY OrderedFacts DEF OrderedOK, Rank
<1> HIDE DEF o, M, a, b
<1>5. c \in Seq(Nat) /\ Len(c) = F /\ \A p \in 1..F : c[p] = IF p \in K THEN a[Rank(p, K)] ELSE 1
  <2>1. \A p \in 1..F : (IF p \in K THEN a[Rank(p, K)] ELSE 1) \in Nat  BY <1>2, <1>4
  <2>2. c = [p \in 1..F |-> IF p \in K THEN a[Rank(p, K)] ELSE 1]  BY DEF a
  <2> HIDE DEF c
  <2> QED  BY <2>1, <2>2
<1> HIDE DEF c
<1>6. (\A p \in 0..F : Weight(c, p) = Weight(a, Rank(p, K))) /\ Product(c) = Product(a)
  <2>1. \A p \in 1..Len(c) : p \notin K => c[p] = 1  BY <1>5
  <2>2. \A m \in 1..Len(a) : a[m] = c[Ordered(Len(c), K)[m]]  BY <1>2, <1>4, <1>5
  <2>3. Len(a) = Rank(Len(c), K)  BY <1>2, <1>5 DEF M
  <2>4. (\A p \in 0..Len(c) : Weight(c, p) = Weight(a, Rank(p, K))) /\ Product(c) = Product(a)
    BY <1>2, <1>5, <2>1, <2>2, <2>3, WeightSelected
  <2> QED  BY <1>5, <2>4
<1>7. (\A p \in 0..F : Weight(c, p) = Weight(b, Rank(p, K \cup J))) /\ Product(c) = Product(b)
  <2>1. \A p \in 1..Len(c) : p \notin K \cup J => c[p] = 1  BY <1>5
  <2>2. \A n \in 1..Len(o) : b[n] = c[o[n]]
    <3> SUFFICES ASSUME NEW n \in 1..Len(o)  PROVE b[n] = c[o[n]]
      OBVIOUS
    <3>1. o[n] \in 1..F /\ (o[n] \in J \/ o[n] \in K) /\ ~(o[n] \in J /\ o[n] \in K)  BY <1>3
    <3> QED  BY <1>1, <1>5, <3>1
  <2>3. \A n \in 1..Len(b) : b[n] = c[Ordered(Len(c), K \cup J)[n]]  BY <1>1, <1>5, <2>2 DEF o
  <2>4. Len(b) = Rank(Len(c), K \cup J)  BY <1>1, <1>3, <1>5
  <2>5. (\A p \in 0..Len(c) : Weight(c, p) = Weight(b, Rank(p, K \cup J))) /\ Product(c) = Product(b)
    BY <1>1, <1>5, <2>1, <2>3, <2>4, WeightSelected
  <2> QED  BY <1>5, <2>5
<1>8. ASSUME IsCContiguous(s), NEW n \in 1..Len(o), b[n] # 1  PROVE L.strides[n] = CStrides(b)[n]
  <2> DEFINE p == o[n]
             m == Rank(p, K)
  <2>1. p \in 1..F /\ p \notin J /\ p \in K /\ Rank(p, K \cup J) = n /\ b[n] = a[m]
    <3>1. o[n] \notin J  BY <1>1, <1>8
    <3> QED  BY <1>1, <1>3, <3>1
  <2>2. m \in 1..M /\ L.strides[n] = s.strides[m]  BY <1>1, <1>4, <2>1
  <2> HIDE DEF p, m
  <2>3. DOMAIN a = 1..M /\ a[m] # 1  BY <1>2, <1>8, <2>1
  <2>4. s.strides[m] = CStrides(a)[m]  BY <1>8, <2>2, <2>3 DEF IsCContiguous, a
  <2>5. CStrides(a)[m] = Weight(a, m)  BY <1>2, <2>2, Weights
  <2>6. CStrides(b)[n] = Weight(b, n)  BY <1>1, Weights
  <2>7. p \in 0..F  BY <2>1
  <2>8. Weight(a, m) = Weight(b, n)  BY <1>6, <1>7, <2>1, <2>7 DEF m
  <2> QED  BY <2>2, <2>4, <2>5, <2>6, <2>8
<1>9. DOMAIN b = 1..Len(o)  BY <1>1
<1>10. IsCContiguous(s) => IsCContiguous(L)  BY <1>8, <1>9 DEF IsCContiguous, b
<1> QED  BY <1>6, <1>7, <1>10 DEF a, b

-----------------------------------------------------------------------------
(* What NumPy's definition of indexing says, through the plan.             *)

-----------------------------------------------------------------------------
(* What NumPy's definition of indexing says, through the plan.             *)

\* The array's element that NumPy finds at index i of a[key].
From(shape, key, i) == Source(Plan(shape, Selectors(key)), Without(shape, key, i))

\* The layout of a[key], and the element each of its addresses is of.
LEMMA SelectionOfKey ==
  ASSUME NEW key, NEW l, IsLayout(l), IsKeyFor(key, l.shape)
  PROVE  LET plan == Plan(l.shape, Selectors(key))
             s == Select(l, plan)
             L == WithNewAxes(s, NewAxes(key))
             F == Len(Full(l.shape, key))
             K == Keeping(l.shape, key)
             J == Added(l.shape, key)
         IN  /\ IsPlan(plan, l.shape) /\ IsLayout(s) /\ s.shape = OutShape(plan)
             /\ Len(s.shape) = Rank(F, K) /\ HasAxes(L, s, F, K, J)
             /\ L.shape = InsertOnes(OutShape(plan), 1, NewAxes(key))
             /\ Product(L.shape) = 0 <=> Empty(plan)
             /\ IsCContiguous(s) => IsCContiguous(L)
             /\ \A i \in Indices(L.shape) : /\ From(l.shape, key, i) \in Indices(l.shape)
                                            /\ Address(L, i) = Address(l, From(l.shape, key, i))
<1> DEFINE shape == l.shape
           plan == Plan(shape, Selectors(key))
           s == Select(l, plan)
           L == WithNewAxes(s, NewAxes(key))
           F == Len(Full(shape, key))
           K == Keeping(shape, key)
           J == Added(shape, key)
<1>1. shape \in Seq(Nat)  BY DEF IsLayout
<1>2. IsPlan(plan, shape)  BY PlanOfKey
<1>3. Rank(Len(shape), KeptAxes(plan)) = Rank(F, K)  BY KeptOfKey
<1> HIDE DEF plan
<1>4. IsLayout(s) /\ s.shape = OutShape(plan)  BY <1>2, SelectIsLayout
<1>5. Len(s.shape) = Rank(F, K)
  <2>1. Len(OutShape(plan)) = Rank(Len(shape), KeptAxes(plan))  BY <1>1, <1>2, PlanFacts
  <2> HIDE DEF s
  <2> QED  BY <1>3, <1>4, <2>1
<1>6. F \in Nat /\ K \in SUBSET (1..F) /\ J \in SUBSET (1..F) /\ K \cap J = {}  BY FullFacts, NewAxesOfKey
<1> HIDE DEF s
<1>7. HasAxes(L, s, F, K, J) /\ L.shape = InsertOnes(s.shape, 1, NewAxes(key))
  BY <1>4, <1>5, WithAxesIs
<1>8. Product(L.shape) = Product(s.shape) /\ (IsCContiguous(s) => IsCContiguous(L))
  <2> HIDE DEF L, F, K, J
  <2> QED  BY <1>4, <1>5, <1>6, <1>7, WithAxesContiguous
<1>9. Product(L.shape) = 0 <=> Empty(plan)
  <2>1. Product(OutShape(plan)) = 0 <=> Empty(plan)  BY <1>1, <1>2, SelectProduct
  <2> HIDE DEF L
  <2> QED  BY <1>4, <1>8, <2>1
<1>10. ASSUME NEW i \in Indices(L.shape)
       PROVE  /\ From(shape, key, i) \in Indices(shape)
              /\ Address(L, i) = Address(l, From(shape, key, i))
  <2> DEFINE x == Without(shape, key, i)
  <2>1. x \in Indices(s.shape) /\ Address(L, i) = Address(s, x)  BY <1>4, <1>5, WithAxesMaps
  <2> HIDE DEF x, L
  <2>2. x \in Indices(OutShape(plan))  BY <1>4, <2>1
  <2>3. Source(plan, x) \in Indices(shape) /\ Address(Select(l, plan), x) = Address(l, Source(plan, x))
    BY <1>2, <2>2, SelectMaps
  <2>4. From(shape, key, i) = Source(plan, x)  BY DEF From, plan, x
  <2> QED  BY <2>1, <2>3, <2>4 DEF s
<1> HIDE DEF L
<1>11. IsPlan(plan, shape) /\ IsLayout(s) /\ s.shape = OutShape(plan) /\ Len(s.shape) = Rank(F, K)
  BY <1>2, <1>4, <1>5
<1>12. HasAxes(L, s, F, K, J) /\ L.shape = InsertOnes(OutShape(plan), 1, NewAxes(key))
  BY <1>4, <1>7
<1> QED  BY <1>8, <1>9, <1>10, <1>11, <1>12 DEF L, s, plan, F, K, J

-----------------------------------------------------------------------------
(* How many positions a slice selects.                                     *)

\* A slice selects as many positions as its plan counts.
LEMMA SelectedCount ==
  ASSUME NEW s, IsSlice(s), NEW len \in Nat
  PROVE  Cardinality(Selected(s, len)) = Count(SliceIndices(s, len))
<1> DEFINE ix == SliceIndices(s, len)
           a == ix.start
           b == ix.stop
           w == ix.step
           c == Count(ix)
           S == Selected(s, len)
<1>1. a \in Int /\ w = s.step /\ c \in Nat /\ \A j \in 0..c - 1 : a + j * w \in 0..len - 1
  BY SliceInRange
<1>2. b \in Int
  <2> DEFINE low     == IF s.step > 0 THEN 0 ELSE -1
             high    == IF s.step > 0 THEN len ELSE len - 1
             end(x)  == IF x < 0 THEN x + len ELSE x
             clip(x) == IF end(x) < low THEN low ELSE IF end(x) > high THEN high ELSE end(x)
  <2>1. b = IF s.stop # None THEN clip(s.stop) ELSE IF s.step > 0 THEN high ELSE low
    BY DEF SliceIndices
  <2>2. s.step \in Int  BY DEF IsSlice
  <2>3. low \in Int /\ high \in Int  BY <2>2
  <2>4. \A x \in Int : end(x) \in Int  OBVIOUS
  <2> HIDE DEF low, high, end
  <2>5. \A x \in Int : clip(x) \in Int  BY <2>3, <2>4
  <2> HIDE DEF clip
  <2>6. s.stop # None => s.stop \in Int  BY DEF IsSlice
  <2> QED  BY <2>1, <2>3, <2>5, <2>6
<1>3. S = {p \in 0..len - 1 : IF w > 0 THEN a =< p /\ p < b /\ (p - a) % w = 0
                                       ELSE b < p /\ p =< a /\ (a - p) % (-w) = 0}
  BY DEF Selected
<1>4. c = IF w > 0 THEN IF b > a THEN (b - a - 1) \div w + 1 ELSE 0
                   ELSE IF a > b THEN (a - b - 1) \div (-w) + 1 ELSE 0
  BY DEF Count
<1>5. w \in Int /\ w # 0  BY <1>1 DEF IsSlice
<1> HIDE DEF ix, a, b, w, c, S
<1> DEFINE f == [j \in 0..c - 1 |-> a + j * w]
<1>6. c = 0 => \A p \in 0..len - 1 : p \notin S
  <2>1. CASE w > 0 /\ b > a
    <3>1. b - a \in Nat \ {0} /\ w \in Nat \ {0}  BY <1>1, <1>2, <1>5, <2>1
    <3>2. (b - a - 1) \div w \in Nat  BY <3>1, StepsFit
    <3> QED  BY <1>4, <2>1, <3>2
  <2>2. CASE ~(w > 0) /\ a > b
    <3>1. a - b \in Nat \ {0} /\ -w \in Nat \ {0}  BY <1>1, <1>2, <1>5, <2>2
    <3>2. (a - b - 1) \div (-w) \in Nat  BY <3>1, StepsFit
    <3> QED  BY <1>4, <2>2, <3>2
  <2>3. CASE w > 0 /\ ~(b > a)  BY <1>1, <1>2, <1>3, <2>3
  <2>4. CASE ~(w > 0) /\ ~(a > b)  BY <1>1, <1>2, <1>3, <2>4
  <2> QED  BY <2>1, <2>2, <2>3, <2>4
<1>7. CASE c = 0
  <2>1. S = {}  BY <1>3, <1>6, <1>7
  <2> QED  BY <1>7, <2>1, FS_EmptySet DEF c, S, ix
<1>8. CASE c # 0 /\ w > 0
  <2>1. b > a /\ c = (b - a - 1) \div w + 1  BY <1>4, <1>8
  <2> DEFINE d == b - a
             e == (d - 1) \div w
  <2>2. d \in Nat \ {0} /\ w \in Nat \ {0}  BY <1>1, <1>2, <1>5, <1>8, <2>1
  <2> HIDE DEF d
  <2>3. e \in Nat /\ \A j \in 0..e : j * w \in 0..d - 1  BY <2>2, StepsFit
  <2>4. /\ \A j \in 0..e : (j * w) % w = 0
        /\ \A x \in 0..d - 1 : x % w = 0 => \E j \in 0..e : x = j * w
        /\ \A j, k \in 0..e : j * w = k * w => j = k
    BY <2>2, MultiplesBelow
  <2>5. e = c - 1  BY <1>1, <2>1, <2>3 DEF d
  <2> HIDE DEF e
  <2>6. \A j \in 0..e : a + j * w \in S
    <3> SUFFICES ASSUME NEW j \in 0..e  PROVE a + j * w \in S
      OBVIOUS
    <3> DEFINE y == j * w
    <3>1. y \in 0..d - 1 /\ y % w = 0 /\ a + y \in 0..len - 1  BY <1>1, <2>3, <2>4, <2>5
    <3> HIDE DEF y
    <3>2. (a + y) - a = y /\ a =< a + y /\ a + y < b  BY <1>1, <1>2, <2>2, <3>1 DEF d
    <3>3. a + y \in S  BY <1>3, <1>8, <3>1, <3>2
    <3> QED  BY <3>3 DEF y
  <2>7. \A p \in S : \E j \in 0..e : p = a + j * w
    <3> SUFFICES ASSUME NEW p \in S  PROVE \E j \in 0..e : p = a + j * w
      OBVIOUS
    <3>1. p \in 0..len - 1 /\ a =< p /\ p < b /\ (p - a) % w = 0  BY <1>3, <1>8
    <3>2. p - a \in 0..d - 1 /\ p = a + (p - a)  BY <1>1, <1>2, <3>1 DEF d
    <3>3. PICK j \in 0..e : p - a = j * w  BY <2>4, <3>1, <3>2
    <3> QED  BY <3>2, <3>3
  <2>8. \A j, k \in 0..e : a + j * w = a + k * w => j = k
    <3> SUFFICES ASSUME NEW j \in 0..e, NEW k \in 0..e, a + j * w = a + k * w  PROVE j = k
      OBVIOUS
    <3> DEFINE y == j * w
               z == k * w
    <3>1. y \in Int /\ z \in Int /\ a + y = a + z  BY <2>3
    <3> HIDE DEF y, z
    <3>2. y = z  BY <1>1, <3>1
    <3> QED  BY <2>4, <3>2 DEF y, z
  <2>9. f \in [0..c - 1 -> S]  BY <2>5, <2>6
  <2>10. \A j, k \in 0..c - 1 : f[j] = f[k] => j = k  BY <2>5, <2>8
  <2>11. \A x \in S : \E j \in 0..c - 1 : x = f[j]  BY <2>5, <2>7
  <2> HIDE DEF f
  <2>12. Cardinality(S) = c  BY <1>1, <2>9, <2>10, <2>11, Enumerated
  <2> QED  BY <2>12 DEF c, S, ix
<1>9. CASE c # 0 /\ ~(w > 0)
  <2>1. a > b /\ c = (a - b - 1) \div (-w) + 1  BY <1>4, <1>9
  <2> DEFINE d == a - b
             v == -w
             e == (d - 1) \div v
  <2>2. d \in Nat \ {0} /\ v \in Nat \ {0}  BY <1>1, <1>2, <1>5, <1>9, <2>1
  <2> HIDE DEF d, v
  <2>3. e \in Nat /\ \A j \in 0..e : j * v \in 0..d - 1  BY <2>2, StepsFit
  <2>4. /\ \A j \in 0..e : (j * v) % v = 0
        /\ \A x \in 0..d - 1 : x % v = 0 => \E j \in 0..e : x = j * v
        /\ \A j, k \in 0..e : j * v = k * v => j = k
    BY <2>2, MultiplesBelow
  <2>5. e = c - 1  BY <1>1, <2>1, <2>3 DEF d, v
  <2>13. \A j \in 0..e : a + j * w = a - j * v
    <3> SUFFICES ASSUME NEW j \in 0..e  PROVE a + j * w = a - j * v
      OBVIOUS
    <3>1. j \in Int /\ w = -v /\ v \in Int  BY <1>5, <2>2 DEF v
    <3>2. j * w = -(j * v)  BY <3>1
    <3> QED  BY <1>1, <3>1, <3>2
  <2> HIDE DEF e
  <2>6. \A j \in 0..e : a + j * w \in S
    <3> SUFFICES ASSUME NEW j \in 0..e  PROVE a + j * w \in S
      OBVIOUS
    <3> DEFINE y == j * v
    <3>1. y \in 0..d - 1 /\ y % v = 0 /\ a - y \in 0..len - 1 /\ a + j * w = a - y  BY <1>1, <2>3, <2>4, <2>5, <2>13
    <3> HIDE DEF y
    <3>2. a - (a - y) = y /\ a - y =< a /\ b < a - y  BY <1>1, <1>2, <2>2, <3>1 DEF d
    <3>3. a - y \in S  BY <1>3, <1>9, <3>1, <3>2 DEF v
    <3> QED  BY <3>1, <3>3
  <2>7. \A p \in S : \E j \in 0..e : p = a + j * w
    <3> SUFFICES ASSUME NEW p \in S  PROVE \E j \in 0..e : p = a + j * w
      OBVIOUS
    <3>1. p \in 0..len - 1 /\ b < p /\ p =< a /\ (a - p) % v = 0  BY <1>3, <1>9 DEF v
    <3>2. a - p \in 0..d - 1 /\ p = a - (a - p)  BY <1>1, <1>2, <3>1 DEF d
    <3>3. PICK j \in 0..e : a - p = j * v  BY <2>4, <3>1, <3>2
    <3> QED  BY <2>13, <3>2, <3>3
  <2>8. \A j, k \in 0..e : a + j * w = a + k * w => j = k
    <3> SUFFICES ASSUME NEW j \in 0..e, NEW k \in 0..e, a + j * w = a + k * w  PROVE j = k
      OBVIOUS
    <3> DEFINE y == j * v
               z == k * v
    <3>1. y \in Int /\ z \in Int /\ a - y = a - z  BY <2>3, <2>13
    <3> HIDE DEF y, z
    <3>2. y = z  BY <1>1, <3>1
    <3> QED  BY <2>4, <3>2 DEF y, z
  <2>9. f \in [0..c - 1 -> S]  BY <2>5, <2>6
  <2>10. \A j, k \in 0..c - 1 : f[j] = f[k] => j = k  BY <2>5, <2>8
  <2>11. \A x \in S : \E j \in 0..c - 1 : x = f[j]  BY <2>5, <2>7
  <2> HIDE DEF f
  <2>12. Cardinality(S) = c  BY <1>1, <2>9, <2>10, <2>11, Enumerated
  <2> QED  BY <2>12 DEF c, S, ix
<1> QED  BY <1>7, <1>8, <1>9

\* The definition's items, axes and result shape are those of the plan.
LEMMA NumpyIndexedIs ==
  ASSUME NEW e, NEW key, NEW l, IsLayout(l), IsKeyFor(key, l.shape)
  PROVE  NumpyIndexed(e, l.shape, key) =
           [i \in Indices(InsertOnes(OutShape(Plan(l.shape, Selectors(key))), 1, NewAxes(key))) |->
              e[From(l.shape, key, i)]]
<1> DEFINE shape == l.shape
           full  == key \o [n \in 1..Len(shape) - Len(Selectors(key)) |-> Whole]
           axis  == [p \in DOMAIN full |-> Cardinality({q \in 1..p : full[q] # None})]
           item  == [k \in DOMAIN shape |-> CHOOSE p \in DOMAIN full : full[p] # None /\ axis[p] = k]
           made  == Ordered(Len(full), {p \in DOMAIN full : ~IsInt(full[p])})
           out   == [n \in DOMAIN made |->
                       IF full[made[n]] = None THEN 1
                       ELSE Cardinality(Selected(full[made[n]], shape[axis[made[n]]]))]
           at(i, p) == i[CHOOSE n \in DOMAIN made : made[n] = p]
           from(i, k) == IF IsInt(full[item[k]]) THEN Normalize(full[item[k]].i, shape[k])
                         ELSE LET ix == SliceIndices(full[item[k]], shape[k]) IN
                              ix.start + at(i, item[k]) * ix.step
           F == Len(full)
           N == Len(shape)
           A == Named(shape, key)
           K == Keeping(shape, key)
           J == Added(shape, key)
           plan == Plan(shape, Selectors(key))
           kept == KeptAxes(plan)
           L == WithNewAxes(Select(l, plan), NewAxes(key))
<1>1. NumpyIndexed(e, shape, key) = [i \in Indices(out) |-> e[[k \in DOMAIN shape |-> from(i, k)]]]
  BY DEF NumpyIndexed
<1>2. full = Full(shape, key)  BY DEF Full
<1> HIDE DEF full
<1>3. /\ F \in Nat /\ DOMAIN full = 1..F /\ A \in SUBSET (1..F) /\ K \in SUBSET (1..F) /\ J \in SUBSET (1..F)
      /\ \A p \in 1..F : full[p] # None => IsSelector(full[p])
  BY <1>2, FullFacts
<1>4. \A p \in 1..F : /\ p \in A <=> full[p] # None
                      /\ p \in K <=> full[p] # None /\ ~IsInt(full[p])
                      /\ p \in J <=> full[p] = None
                      /\ p \in K \cup J <=> ~IsInt(full[p])
  BY <1>2, PartsOfKey
<1>5. LET o == Ordered(F, A) IN
      /\ \A k \in 1..N : o[k] \in A /\ o[k] \in 1..F /\ Rank(o[k], A) = k
      /\ \A p \in A : p \in 1..F /\ Rank(p, A) \in 1..N /\ o[Rank(p, A)] = p
  BY <1>2, AxesOfKey
<1>6. LET o == Ordered(F, A) IN
      /\ IsPlan(plan, shape)
      /\ \A k \in 1..N :
           LET x == full[o[k]]
               ix == SliceIndices(x, shape[k])
           IN  /\ IsInt(x) => plan[k] = [start |-> Normalize(x.i, shape[k]), step |-> 1, count |-> 1, drop |-> TRUE]
               /\ ~IsInt(x) => /\ IsSlice(x)
                               /\ plan[k] = [start |-> ix.start, step |-> ix.step, count |-> Count(ix), drop |-> FALSE]
  BY <1>2, PlanOfKey
<1>7. /\ \A p \in 0..F : Rank(Rank(p, A), kept) = Rank(p, K)
      /\ \A p \in K : p \in A /\ Rank(p, A) \in kept
  BY <1>2, KeptOfKey
<1>8. /\ K \cap J = {} /\ IsLayout(L) /\ Len(L.shape) = Len(Ordered(F, K \cup J))
      /\ \A n \in 1..Len(Ordered(F, K \cup J)) :
           L.shape[n] = IF Ordered(F, K \cup J)[n] \in J THEN 1
                        ELSE OutShape(plan)[Rank(Ordered(F, K \cup J)[n], K)]
      /\ L.shape = InsertOnes(OutShape(plan), 1, NewAxes(key))
  <2>1. /\ HasAxes(L, Select(l, plan), F, K, J) /\ Select(l, plan).shape = OutShape(plan)
        /\ L.shape = InsertOnes(OutShape(plan), 1, NewAxes(key))
    BY <1>2, SelectionOfKey
  <2>2. K \cap J = {}  BY <1>2, NewAxesOfKey
  <2> HIDE DEF L, F, K, J, plan
  <2> QED  BY <2>1, <2>2 DEF HasAxes
<1>9. shape \in Seq(Nat) /\ DOMAIN shape = 1..N /\ N \in Nat /\ \A k \in 1..N : shape[k] \in Nat  BY DEF IsLayout
<1> HIDE DEF F, N, A, K, J, plan, kept, L, full, shape
<1>10. \A p \in 1..F : axis[p] = Rank(p, A)
  <2> SUFFICES ASSUME NEW p \in 1..F  PROVE axis[p] = Rank(p, A)
    OBVIOUS
  <2>1. axis[p] = Cardinality({q \in 1..p : full[q] # None})  BY <1>3
  <2>2. {q \in 1..p : full[q] # None} = {q \in 1..p : q \in A}  BY <1>3, <1>4
  <2>3. p \in Nat  BY <1>3
  <2>4. Rank(p, A) = Cardinality({q \in 1..p : q \in A})  BY <2>3, RankIs
  <2> HIDE DEF axis
  <2> QED  BY <2>1, <2>2, <2>4
<1> HIDE DEF axis
<1>11. \A k \in 1..N : item[k] = Ordered(F, A)[k]
  <2> SUFFICES ASSUME NEW k \in 1..N  PROVE item[k] = Ordered(F, A)[k]
    OBVIOUS
  <2> DEFINE p == Ordered(F, A)[k]
  <2>1. item[k] = CHOOSE q \in DOMAIN full : full[q] # None /\ axis[q] = k  BY <1>9
  <2>2. p \in 1..F /\ p \in A /\ Rank(p, A) = k  BY <1>5
  <2>3. \A q \in DOMAIN full : full[q] # None /\ axis[q] = k => q = p
    <3> SUFFICES ASSUME NEW q \in DOMAIN full, full[q] # None, axis[q] = k  PROVE q = p
      OBVIOUS
    <3>1. q \in A /\ Rank(q, A) = k  BY <1>3, <1>4, <1>10
    <3> QED  BY <1>5, <3>1
  <2> HIDE DEF p
  <2>4. full[p] # None /\ axis[p] = k /\ p \in DOMAIN full  BY <1>3, <1>4, <1>10, <2>2
  <2> HIDE DEF item
  <2>5. item[k] = p  BY <2>1, <2>3, <2>4
  <2> QED  BY <2>5 DEF p
<1> HIDE DEF item
<1>12. made = Ordered(F, K \cup J)
  <2>1. {p \in DOMAIN full : ~IsInt(full[p])} = K \cup J  BY <1>3, <1>4
  <2> QED  BY <2>1 DEF F
<1>13. /\ made \in Seq(1..F) /\ DOMAIN made = 1..Len(made) /\ Len(made) \in Nat
       /\ \A n \in 1..Len(made) : made[n] \in K \cup J /\ made[n] \in 1..F /\ Rank(made[n], K \cup J) = n
       /\ \A p \in 1..F : p \in K \cup J => Rank(p, K \cup J) \in 1..Len(made) /\ made[Rank(p, K \cup J)] = p
  <2>1. OrderedOK(F, K \cup J)  BY <1>3, OrderedFacts
  <2> HIDE DEF made
  <2>2. /\ made \in Seq(1..F)
        /\ \A n \in 1..Len(made) : made[n] \in K \cup J /\ made[n] \in 1..F /\ Rank(made[n], K \cup J) = n
        /\ \A p \in 1..F : p \in K \cup J => Rank(p, K \cup J) \in 1..Len(made) /\ made[Rank(p, K \cup J)] = p
    BY <1>12, <2>1 DEF OrderedOK
  <2>3. DOMAIN made = 1..Len(made) /\ Len(made) \in Nat  BY <2>2
  <2> QED  BY <2>2, <2>3
<1> HIDE DEF made
<1>14. /\ OutShape(plan) \in Seq(Nat)
       /\ \A k \in kept : Rank(k, kept) \in 1..Len(OutShape(plan)) /\ OutShape(plan)[Rank(k, kept)] = plan[k].count
  <2>1. LET o == Kept(plan) IN
        /\ Len(OutShape(plan)) = Len(o) /\ OutShape(plan) \in Seq(Nat)
        /\ \A m \in 1..Len(o) : OutShape(plan)[m] = plan[o[m]].count
        /\ \A k \in kept : Rank(k, kept) \in 1..Len(o) /\ o[Rank(k, kept)] = k
    BY <1>6, <1>9, PlanFacts DEF kept
  <2> QED  BY <2>1
<1>15. out = L.shape
  <2>1. \A n \in 1..Len(made) : out[n] = L.shape[n]
    <3> SUFFICES ASSUME NEW n \in 1..Len(made)  PROVE out[n] = L.shape[n]
      OBVIOUS
    <3> DEFINE p == made[n]
               k == Rank(p, A)
    <3>1. out[n] = IF full[p] = None THEN 1 ELSE Cardinality(Selected(full[p], shape[axis[p]]))
      BY <1>13
    <3>2. p \in K \cup J /\ p \in 1..F  BY <1>13
    <3>3. L.shape[n] = IF p \in J THEN 1 ELSE OutShape(plan)[Rank(p, K)]  BY <1>8, <1>12
    <3> HIDE DEF p, out
    <3>4. CASE p \in J  BY <1>4, <3>1, <3>2, <3>3, <3>4
    <3>5. CASE p \notin J
      <4>1. p \in K /\ p \in A /\ full[p] # None /\ ~IsInt(full[p])  BY <1>3, <1>4, <3>2, <3>5
      <4>2. k \in 1..N /\ Ordered(F, A)[k] = p /\ k \in kept /\ axis[p] = k  BY <1>5, <1>7, <1>10, <3>2, <4>1
      <4> HIDE DEF k
      <4>3. IsSlice(full[p]) /\ plan[k].count = Count(SliceIndices(full[p], shape[k]))
        <5> DEFINE ix == SliceIndices(full[p], shape[k])
        <5>1. /\ IsSlice(full[p])
              /\ plan[k] = [start |-> ix.start, step |-> ix.step, count |-> Count(ix), drop |-> FALSE]
          BY <1>6, <4>1, <4>2
        <5> HIDE DEF ix
        <5>2. plan[k].count = Count(ix)  BY <5>1
        <5> QED  BY <5>1, <5>2 DEF ix
      <4>4. Cardinality(Selected(full[p], shape[k])) = plan[k].count  BY <1>9, <4>2, <4>3, SelectedCount
      <4>5. Rank(p, K) = Rank(k, kept)
        <5>1. p \in 0..F  BY <3>2
        <5> QED  BY <1>7, <5>1 DEF k
      <4>6. OutShape(plan)[Rank(p, K)] = plan[k].count  BY <1>14, <4>2, <4>5
      <4> QED  BY <3>1, <3>3, <3>5, <4>1, <4>2, <4>4, <4>6
    <3> QED  BY <3>4, <3>5
  <2>2. out = [n \in 1..Len(made) |-> out[n]]
    <3>1. DOMAIN out = 1..Len(made)  BY <1>13
    <3> QED  BY <3>1
  <2>3. L.shape \in Seq(Nat) /\ Len(L.shape) = Len(made)  BY <1>8, <1>12 DEF IsLayout
  <2>4. L.shape = [n \in 1..Len(made) |-> L.shape[n]]  BY <2>3
  <2> HIDE DEF out
  <2> QED  BY <2>1, <2>2, <2>4
<1> HIDE DEF out
<1>16. ASSUME NEW i  PROVE [k \in DOMAIN shape |-> from(i, k)] = From(shape, key, i)
  <2> DEFINE x == Without(shape, key, i)
  <2>1. From(shape, key, i) = [k \in DOMAIN plan |-> plan[k].start + (IF plan[k].drop THEN 0 ELSE x[Rank(k, kept)]) * plan[k].step]
    BY DEF From, Source, plan, kept
  <2>2. DOMAIN plan = 1..N /\ \A k \in 1..N : plan[k].start \in Int
    BY <1>6, <1>9, PlanFacts DEF N
  <2>3. x = [m \in 1..Rank(F, K) |-> i[Rank(Ordered(F, K)[m], K \cup J)]]  BY <1>2 DEF Without, F, K, J
  <2> HIDE DEF x
  <2>4. ASSUME NEW k \in 1..N
        PROVE  from(i, k) = plan[k].start + (IF plan[k].drop THEN 0 ELSE x[Rank(k, kept)]) * plan[k].step
    <3> DEFINE p == Ordered(F, A)[k]
               z == full[p]
               ix == SliceIndices(z, shape[k])
    <3>1. p \in A /\ p \in 1..F /\ Rank(p, A) = k /\ item[k] = p  BY <1>5, <1>11
    <3>2. /\ IsInt(z) => plan[k] = [start |-> Normalize(z.i, shape[k]), step |-> 1, count |-> 1, drop |-> TRUE]
          /\ ~IsInt(z) => plan[k] = [start |-> ix.start, step |-> ix.step, count |-> Count(ix), drop |-> FALSE]
      BY <1>6
    <3>3. from(i, k) = IF IsInt(z) THEN Normalize(z.i, shape[k]) ELSE ix.start + at(i, p) * ix.step
      BY <3>1
    <3> HIDE DEF p, z, ix, from, at
    <3>4. CASE IsInt(z)
      <4>1. plan[k].start = Normalize(z.i, shape[k]) /\ plan[k].drop = TRUE /\ plan[k].step = 1  BY <3>2, <3>4
      <4>2. 0 * 1 = 0  OBVIOUS
      <4> QED  BY <2>2, <3>3, <3>4, <4>1, <4>2
    <3>5. CASE ~IsInt(z)
      <4>1. plan[k].start = ix.start /\ plan[k].drop = FALSE /\ plan[k].step = ix.step  BY <3>2, <3>5
      <4>2. p \in K /\ p \in K \cup J  BY <1>3, <1>4, <3>1, <3>5 DEF z
      <4>3. at(i, p) = i[Rank(p, K \cup J)]
        <5>1. Rank(p, K \cup J) \in 1..Len(made) /\ made[Rank(p, K \cup J)] = p  BY <1>13, <3>1, <4>2
        <5>2. \A n \in 1..Len(made) : made[n] = p => n = Rank(p, K \cup J)  BY <1>13
        <5>3. (CHOOSE n \in DOMAIN made : made[n] = p) = Rank(p, K \cup J)  BY <1>13, <5>1, <5>2
        <5> QED  BY <5>3 DEF at
      <4>4. Rank(k, kept) = Rank(p, K)
        <5>1. p \in 0..F  BY <3>1
        <5> QED  BY <1>7, <3>1, <5>1
      <4>5. Rank(p, K) \in 1..Rank(F, K) /\ Ordered(F, K)[Rank(p, K)] = p
        BY <1>3, <3>1, <4>2, OrderedFacts DEF OrderedOK, Rank
      <4>6. x[Rank(k, kept)] = i[Rank(p, K \cup J)]  BY <2>3, <4>4, <4>5
      <4> QED  BY <3>3, <3>5, <4>1, <4>3, <4>6
    <3> QED  BY <3>4, <3>5
  <2> HIDE DEF from
  <2> QED  BY <1>9, <2>1, <2>2, <2>4
<1> HIDE DEF from
<1>17. NumpyIndexed(e, shape, key) = [i \in Indices(L.shape) |-> e[From(shape, key, i)]]
  BY <1>1, <1>15, <1>16
<1> QED  BY <1>8, <1>17 DEF shape, plan


-----------------------------------------------------------------------------
(* Integers on the leading axes of a contiguous array.                     *)

-----------------------------------------------------------------------------
(* Integers on the leading axes of a contiguous array.                     *)

\* A key of integers only.
IsInts(key) == \A p \in DOMAIN key : key[p] # None /\ IsInt(key[p])

\* Such a key adds no axes,
LEMMA IntsOnly ==
  ASSUME NEW key, NEW shape, IsKeyFor(key, shape), IsInts(key)
  PROVE  /\ Selectors(key) = key
         /\ \A s : IsLayout(s) /\ Len(s.shape) = Rank(Len(Full(shape, key)), Keeping(shape, key)) =>
              WithNewAxes(s, NewAxes(key)) = Layout(s.ptr, s.shape, s.strides)
<1> DEFINE M == Len(key)
           A == {p \in DOMAIN key : key[p] # None}
           F == Len(Full(shape, key))
           K == Keeping(shape, key)
           J == Added(shape, key)
           sels == Selectors(key)
<1>1. key \in Keys /\ key \in Seq(Range(key))  BY LayoutsAssumption DEF IsKeyFor
<1>2. M \in Nat /\ DOMAIN key = 1..M /\ key = [p \in 1..M |-> key[p]]  BY <1>1
<1>3. \A p \in 1..M : key[p] # None /\ IsInt(key[p])  BY <1>2 DEF IsInts
<1>4. sels = key
  <2>1. Rank(M, A) = M /\ \A m \in 1..M : Ordered(M, A)[m] = m
    <3>1. \A k \in 1..M : k \in A <=> k <= M  BY <1>2, <1>3
    <3> HIDE DEF M, A
    <3>2. M <= M  BY <1>2
    <3> QED  BY <1>2, <3>1, <3>2, OrderedInitial
  <2>2. DOMAIN sels = 1..Len(sels) /\ Len(sels) = Rank(M, A) /\ \A n \in 1..Len(sels) : sels[n] = key[Ordered(M, A)[n]]
    BY <1>1, KeyFacts
  <2>3. sels = [n \in DOMAIN sels |-> sels[n]]  BY DEF Selectors
  <2> HIDE DEF M, A, sels
  <2>4. DOMAIN sels = 1..M /\ \A n \in 1..M : sels[n] = key[n]  BY <2>1, <2>2
  <2> QED  BY <1>2, <2>3, <2>4
<1>5. J = {}
  <2>1. /\ DOMAIN Full(shape, key) = 1..F
        /\ \A p \in 1..M : Full(shape, key)[p] = key[p]
        /\ \A p \in 1..F : p > M => Full(shape, key)[p] = Whole
        /\ F \in Nat
    BY FullFacts
  <2>2. \A p \in 1..F : Full(shape, key)[p] # None
    <3> SUFFICES ASSUME NEW p \in 1..F  PROVE Full(shape, key)[p] # None
      OBVIOUS
    <3>1. CASE p <= M
      <4>1. p \in 1..M  BY <1>2, <2>1, <3>1
      <4> QED  BY <1>3, <2>1, <4>1
    <3>2. CASE p > M  BY <2>1, <3>2, NoneIsNoSlice
    <3> QED  BY <1>2, <2>1, <3>1, <3>2
  <2> QED  BY <2>1, <2>2 DEF Added
<1>6. ASSUME NEW s, IsLayout(s), Len(s.shape) = Rank(F, K)
      PROVE  WithNewAxes(s, NewAxes(key)) = Layout(s.ptr, s.shape, s.strides)
  <2> DEFINE L == WithNewAxes(s, NewAxes(key))
             o == Ordered(F, K)
  <2>1. HasAxes(L, s, F, K, J)  BY <1>6, WithAxesIs
  <2>2. K \cup J = K  BY <1>5
  <2>3. F \in Nat  BY FullFacts
  <2> HIDE DEF F, K, J
  <2>4. OrderedOK(F, K)  BY <2>3, OrderedFacts
  <2>5. Len(o) = Rank(F, K) /\ Len(o) \in Nat /\ \A n \in 1..Len(o) : Rank(o[n], K) = n
    BY <2>4 DEF OrderedOK, Rank
  <2> HIDE DEF L
  <2>6. /\ IsLayout(L) /\ L.ptr = s.ptr /\ Len(L.shape) = Len(o)
        /\ \A n \in 1..Len(o) : /\ L.shape[n] = IF o[n] \in J THEN 1 ELSE s.shape[Rank(o[n], K)]
                                /\ L.strides[n] = IF o[n] \in J THEN 0 ELSE s.strides[Rank(o[n], K)]
    BY <2>1, <2>2 DEF HasAxes
  <2> HIDE DEF o
  <2>7. \A n \in 1..Len(o) : L.shape[n] = s.shape[n] /\ L.strides[n] = s.strides[n]  BY <1>5, <2>5, <2>6
  <2>8. /\ L.shape \in Seq(Nat) /\ s.shape \in Seq(Nat) /\ Len(L.shape) = Len(o) /\ Len(s.shape) = Len(o)
        /\ L.strides \in Seq(Int) /\ s.strides \in Seq(Int) /\ Len(L.strides) = Len(o) /\ Len(s.strides) = Len(o)
    BY <1>6, <2>5, <2>6 DEF IsLayout
  <2>9. L.shape = s.shape /\ L.strides = s.strides
    <3>1. L.shape = [n \in 1..Len(o) |-> L.shape[n]] /\ s.shape = [n \in 1..Len(o) |-> s.shape[n]]  BY <2>8
    <3>2. L.strides = [n \in 1..Len(o) |-> L.strides[n]] /\ s.strides = [n \in 1..Len(o) |-> s.strides[n]]  BY <2>8
    <3> QED  BY <2>7, <3>1, <3>2
  <2>10. L = Layout(L.ptr, L.shape, L.strides)  BY DEF L, WithNewAxes, Layout
  <2>11. L = Layout(s.ptr, s.shape, s.strides)  BY <2>6, <2>9, <2>10
  <2> QED  BY <2>11 DEF L
<1> QED  BY <1>4, <1>6

\* and on a contiguous array locate finds what select would.
LEMMA LocateIsSelect ==
  ASSUME NEW shape \in Seq(Nat), NEW ptr \in Int, NEW key, IsKeyFor(key, shape), IsInts(key)
  PROVE  LET plan == Plan(shape, key)
             l == Contiguous(ptr, shape)
         IN  /\ Locate(l, key).ptr = Select(l, plan).ptr
             /\ Locate(l, key).shape = OutShape(plan)
             /\ ~Empty(plan) => IsCContiguous(Select(l, plan))
<1> DEFINE plan == Plan(shape, key)
           l == Contiguous(ptr, shape)
           s == Select(l, plan)
           N == Len(shape)
           M == Len(key)
           a == [k \in 1..N |-> IF plan[k].count > 0 THEN plan[k].start * l.strides[k] ELSE 0]
           b == [k \in DOMAIN key |-> Normalize(key[k].i, l.shape[k]) * CStrides(l.shape)[k]]
           K == KeptAxes(plan)
           rest == SubSeq(shape, M + 1, N)
<1>1. Selectors(key) = key  BY IntsOnly
<1>2. IsPlan(plan, shape)  BY <1>1, PlanOfKey
<1>3. IsLayout(l) /\ l.ptr = ptr /\ l.shape = shape /\ l.strides = CStrides(shape)  BY ContiguousIsLayout
<1>4. Locate(l, key) = Contiguous(l.ptr + Total(b), SubSeq(l.shape, M + 1, Len(l.shape)))  BY DEF Locate
<1>5. M \in Nat /\ DOMAIN key = 1..M /\ M <= N /\ \A p \in 1..M : IsInt(key[p])
  <2>1. M \in Nat /\ DOMAIN key = 1..M  BY KeyFacts DEF IsKeyFor
  <2>2. M <= N  BY <1>1 DEF IsKeyFor, Plannable, Ndim
  <2> QED  BY <2>1, <2>2 DEF IsInts
<1>6. N \in Nat /\ DOMAIN shape = 1..N /\ \A k \in 1..N : shape[k] \in Nat  OBVIOUS
<1>7. \A k \in 1..N : plan[k] = IF k > M THEN [start |-> 0, step |-> 1, count |-> shape[k], drop |-> FALSE]
                                ELSE [start |-> Normalize(key[k].i, shape[k]), step |-> 1, count |-> 1, drop |-> TRUE]
  <2> SUFFICES ASSUME NEW k \in 1..N
               PROVE  plan[k] = IF k > M THEN [start |-> 0, step |-> 1, count |-> shape[k], drop |-> FALSE]
                                ELSE [start |-> Normalize(key[k].i, shape[k]), step |-> 1, count |-> 1, drop |-> TRUE]
    OBVIOUS
  <2>1. ~(k > M) => IsInt(key[k])  BY <1>5, <1>6
  <2> HIDE DEF M, N
  <2> QED  BY <1>6, <2>1 DEF Plan, M
<1>8. /\ DOMAIN plan = 1..N
      /\ \A k \in 1..N : plan[k].start \in Int /\ plan[k].step \in Int /\ plan[k].count \in Nat /\ (k \in K <=> ~plan[k].drop)
      /\ OutShape(plan) \in Seq(Nat) /\ Len(OutShape(plan)) = Rank(N, K)
      /\ \A m \in 1..Rank(N, K) : OutShape(plan)[m] = plan[Ordered(N, K)[m]].count
  <2> HIDE DEF plan
  <2>1. LET o == Kept(plan) IN
        /\ DOMAIN plan = 1..N
        /\ \A k \in 1..N : plan[k].start \in Int /\ plan[k].step \in Int /\ plan[k].count \in Nat /\ (k \in K <=> ~plan[k].drop)
        /\ OutShape(plan) \in Seq(Nat) /\ Len(OutShape(plan)) = Len(o)
        /\ \A m \in 1..Len(o) : OutShape(plan)[m] = plan[o[m]].count
        /\ o = Ordered(N, K)
    BY <1>2, PlanFacts
  <2> QED  BY <2>1 DEF Rank
<1> HIDE DEF plan, N, M, K
<1>18. \A k \in 1..N :
         /\ k > M => plan[k].start = 0 /\ plan[k].step = 1 /\ plan[k].count = shape[k] /\ plan[k].drop = FALSE
         /\ ~(k > M) => /\ plan[k].start = Normalize(key[k].i, shape[k]) /\ plan[k].step = 1
                        /\ plan[k].count = 1 /\ plan[k].drop = TRUE
  <2> SUFFICES ASSUME NEW k \in 1..N
               PROVE  /\ k > M => plan[k].start = 0 /\ plan[k].step = 1 /\ plan[k].count = shape[k] /\ plan[k].drop = FALSE
                      /\ ~(k > M) => /\ plan[k].start = Normalize(key[k].i, shape[k]) /\ plan[k].step = 1
                                     /\ plan[k].count = 1 /\ plan[k].drop = TRUE
    OBVIOUS
  <2> DEFINE z == Normalize(key[k].i, shape[k])
             p == plan[k]
  <2>1. /\ k > M => p = [start |-> 0, step |-> 1, count |-> shape[k], drop |-> FALSE]
        /\ ~(k > M) => p = [start |-> z, step |-> 1, count |-> 1, drop |-> TRUE]
    BY <1>7
  <2> HIDE DEF z, p
  <2>2. /\ k > M => p.start = 0 /\ p.step = 1 /\ p.count = shape[k] /\ p.drop = FALSE
        /\ ~(k > M) => p.start = z /\ p.step = 1 /\ p.count = 1 /\ p.drop = TRUE
    BY <2>1
  <2> QED  BY <2>2 DEF z, p
<1>9. Rank(N, K) = N - M /\ \A m \in 1..N - M : Ordered(N, K)[m] = M + m
  <2>1. \A k \in 1..N : k \in K <=> k > M  BY <1>18, <1>8
  <2> QED  BY <1>5, <1>6, <2>1, OrderedFinal
<1>10. OutShape(plan) = rest
  <2>1. rest \in Seq(Nat) /\ Len(rest) = N - M /\ \A m \in 1..N - M : rest[m] = shape[M + m]
    <3>1. rest = [m \in 1..N - M |-> shape[m + M]]  BY <1>5, <1>6 DEF N
    <3>2. \A m \in 1..N - M : shape[m + M] \in Nat /\ m + M = M + m  BY <1>5, <1>6
    <3> DEFINE d == N - M
    <3>3. d \in Nat  BY <1>5, <1>6
    <3> HIDE DEF rest, d
    <3>4. rest = [m \in 1..d |-> shape[m + M]] /\ \A m \in 1..d : shape[m + M] \in Nat /\ m + M = M + m
      BY <3>1, <3>2 DEF d
    <3>5. rest \in Seq(Nat) /\ Len(rest) = d /\ \A m \in 1..d : rest[m] = shape[M + m]  BY <3>3, <3>4
    <3> QED  BY <3>5 DEF d
  <2>2. \A m \in 1..N - M : OutShape(plan)[m] = shape[M + m]
    <3> SUFFICES ASSUME NEW m \in 1..N - M  PROVE OutShape(plan)[m] = shape[M + m]
      OBVIOUS
    <3>1. M + m \in 1..N /\ M + m > M  BY <1>5, <1>6
    <3>2. plan[M + m].count = shape[M + m]  BY <1>18, <3>1
    <3> QED  BY <1>8, <1>9, <3>2
  <2> HIDE DEF rest
  <2>3. Len(OutShape(plan)) = N - M  BY <1>8, <1>9
  <2> DEFINE d == N - M
             y == OutShape(plan)
  <2>4. y \in Seq(Nat) /\ rest \in Seq(Nat) /\ Len(y) = d /\ Len(rest) = d /\ \A m \in 1..d : y[m] = rest[m]
    BY <1>8, <2>1, <2>2, <2>3
  <2> HIDE DEF d, y
  <2>5. y = rest  BY <2>4
  <2> QED  BY <2>5 DEF y
<1>11. CStrides(shape) \in Seq(Int) /\ \A k \in 1..N : CStrides(shape)[k] \in Int
  <2>1. CStrides(shape) \in Seq(Int) /\ Len(CStrides(shape)) = N  BY Weights DEF N
  <2> QED  BY <2>1
<1>12. s.ptr = ptr + Total(a) /\ a \in Seq(Int) /\ Len(a) = N
  <2> HIDE DEF l
  <2> QED  BY <1>2, <1>3, SelectIsLayout DEF N
<1>13. \A k \in 1..N : a[k] = IF k > M THEN 0 ELSE plan[k].start * CStrides(shape)[k]
  <2> SUFFICES ASSUME NEW k \in 1..N  PROVE a[k] = IF k > M THEN 0 ELSE plan[k].start * CStrides(shape)[k]
    OBVIOUS
  <2>1. a[k] = IF plan[k].count > 0 THEN plan[k].start * CStrides(shape)[k] ELSE 0  BY <1>3
  <2>2. k > M => plan[k].start = 0  BY <1>18
  <2>3. ~(k > M) => plan[k].count = 1  BY <1>18
  <2>4. \A x \in Int : 0 * x = 0  OBVIOUS
  <2> HIDE DEF a
  <2> QED  BY <1>11, <2>1, <2>2, <2>3, <2>4
<1>14. b = [k \in 1..M |-> a[k]]
  <2>1. \A k \in 1..M : Normalize(key[k].i, l.shape[k]) * CStrides(l.shape)[k] = a[k]
    <3> SUFFICES ASSUME NEW k \in 1..M  PROVE Normalize(key[k].i, shape[k]) * CStrides(shape)[k] = a[k]
      BY <1>3
    <3>1. k \in 1..N /\ ~(k > M)  BY <1>5, <1>6
    <3>2. plan[k].start = Normalize(key[k].i, shape[k])  BY <1>18, <3>1
    <3> HIDE DEF a
    <3> QED  BY <1>13, <3>1, <3>2
  <2> HIDE DEF a, l
  <2> QED  BY <1>5, <2>1
<1> HIDE DEF a, b
<1>15. Total(b) = Total(a)
  <2> DEFINE A == 1..M
  <2>1. \A k \in 1..N : k \in A <=> k <= M  BY <1>5, <1>6
  <2>2. \A k \in 1..N : k \notin A => a[k] = 0  BY <1>5, <1>6, <1>13
  <2> HIDE DEF A
  <2>3. Rank(N, A) = M /\ \A m \in 1..M : Ordered(N, A)[m] = m  BY <1>5, <1>6, <2>1, OrderedInitial
  <2>4. b \in Seq(Int) /\ Len(b) = M /\ \A m \in 1..M : b[m] = a[m]
    <3>1. \A k \in 1..M : a[k] \in Int  BY <1>5, <1>6, <1>12
    <3> QED  BY <1>5, <1>14, <3>1
  <2>5. Len(b) = Rank(Len(a), A) /\ \A m \in 1..Len(b) : b[m] = a[Ordered(Len(a), A)[m]]  BY <1>12, <2>3, <2>4
  <2>6. \A k \in 1..Len(a) : k \notin A => a[k] = 0  BY <1>12, <2>2
  <2> QED  BY <1>12, <2>4, <2>5, <2>6, SumSelected
<1>16. ASSUME ~Empty(plan)  PROVE IsCContiguous(s)
  <2>1. OneBlock(shape, plan)
    <3> SUFFICES ASSUME NEW k \in DOMAIN plan
                 PROVE  IF \E j \in 1..k - 1 : plan[j].count > 1
                        THEN plan[k].start = 0 /\ plan[k].step = 1 /\ plan[k].count = shape[k]
                        ELSE plan[k].count > 1 => plan[k].step = 1
      BY DEF OneBlock
    <3>1. k \in 1..N  BY <1>8
    <3>2. plan[k].step = 1  BY <1>18, <3>1
    <3>3. ASSUME NEW j \in 1..k - 1, plan[j].count > 1  PROVE plan[k].start = 0 /\ plan[k].count = shape[k]
      <4>1. j \in 1..N /\ j < k  BY <1>6, <3>1
      <4>2. j > M
        <5>1. ~(j > M) => plan[j].count = 1  BY <1>18, <4>1
        <5> QED  BY <3>3, <5>1
      <4>3. k > M  BY <1>5, <1>6, <3>1, <4>1, <4>2
      <4> QED  BY <1>18, <3>1, <4>3
    <3> QED  BY <3>2, <3>3
  <2> QED  BY <1>2, <1>16, <2>1, BlockSelected
<1>17. Locate(l, key).ptr = s.ptr /\ Locate(l, key).shape = rest
  <2>1. Locate(l, key) = Contiguous(ptr + Total(b), rest)  BY <1>3, <1>4 DEF N
  <2> HIDE DEF rest, l, s
  <2> QED  BY <1>12, <1>15, <2>1 DEF Contiguous, Layout
<1> HIDE DEF s, l
<1> QED  BY <1>10, <1>16, <1>17 DEF plan, l, s


-----------------------------------------------------------------------------
(* The k-th multi-index in C order.                                        *)

-----------------------------------------------------------------------------
(* What the layout says the array contains.                                *)

\* The elements of a layout, by multi-index.
Elements(d, l) == [i \in Indices(l.shape) |-> Cell(d, Address(l, i))]

\* Addresses are numbers.
LEMMA AddressTypes ==
  ASSUME NEW l, IsLayout(l), NEW i \in Indices(l.shape)
  PROVE  Address(l, i) \in Int /\ Address(l, i) = l.ptr + Dot(i, l.strides) /\ Dot(i, l.strides) \in Int
<1>1. l.ptr \in Int /\ l.shape \in Seq(Nat) /\ l.strides \in Seq(Int) /\ Len(l.shape) = Len(l.strides)
  BY DEF IsLayout
<1>2. i \in Seq(Nat) /\ Len(i) = Len(l.strides)  BY <1>1, IndexTypes
<1>3. Dot(i, l.strides) \in Int  BY <1>1, <1>2, DotTypes
<1> QED  BY <1>1, <1>3 DEF Address

\* Cells hold numbers; what lies in the buffer is what is in it.
LEMMA CellTypes ==
  ASSUME NEW d \in Seq(Int), NEW p
  PROVE  Cell(d, p) \in Int /\ (p \in 0..Len(d) - 1 => Cell(d, p) = d[p + 1])
<1>1. p \in 0..Len(d) - 1 => d[p + 1] \in Int
  <2> SUFFICES ASSUME p \in 0..Len(d) - 1  PROVE d[p + 1] \in Int
    OBVIOUS
  <2>1. p + 1 \in 1..Len(d)  OBVIOUS
  <2> QED  BY <2>1
<1>2. Outside \in Int  BY DEF Outside
<1> QED  BY <1>1, <1>2 DEF Cell

\* In a contiguous array the elements lie in C order.
LEMMA InOrder ==
  ASSUME NEW shape \in Seq(Nat), NEW ptr \in Int
  PROVE  /\ \A i \in Indices(shape) : /\ Address(Contiguous(ptr, shape), i) = ptr + Dot(i, CStrides(shape))
                                      /\ Dot(i, CStrides(shape)) \in 0..Product(shape) - 1
         /\ \A k \in 0..Product(shape) - 1 : Address(Contiguous(ptr, shape), Unravel(shape, k)) = ptr + k
<1> DEFINE l == Contiguous(ptr, shape)
<1>1. IsLayout(l) /\ l.ptr = ptr /\ l.shape = shape /\ l.strides = CStrides(shape)  BY ContiguousIsLayout
<1> HIDE DEF l
<1>2. \A i \in Indices(shape) : Address(l, i) = ptr + Dot(i, CStrides(shape))  BY <1>1 DEF Address
<1>3. \A i \in Indices(shape) : Dot(i, CStrides(shape)) \in 0..Product(shape) - 1  BY DotInBlock
<1>4. \A k \in 0..Product(shape) - 1 : Unravel(shape, k) \in Indices(shape) /\ Dot(Unravel(shape, k), CStrides(shape)) = k
  BY UnravelPlace
<1>5. \A k \in 0..Product(shape) - 1 : Address(l, Unravel(shape, k)) = ptr + k  BY <1>2, <1>4
<1> QED  BY <1>2, <1>3, <1>5 DEF l

\* The refreshed data are the elements in C order.
LEMMA DataIs ==
  ASSUME IsLayout(lay), ~strided => lay = Contiguous(lay.ptr, lay.shape)
  PROVE  Data = [k \in 1..Product(lay.shape) |-> Cell(data, Address(lay, Unravel(lay.shape, k - 1)))]
<1> DEFINE shape == lay.shape
           ptr == lay.ptr
           P == Product(shape)
           w == Walk(shape, lay.strides)
<1>1. ptr \in Int /\ shape \in Seq(Nat) /\ lay.strides \in Seq(Int) /\ Len(shape) = Len(lay.strides)
  BY DEF IsLayout
<1>2. P \in Nat  BY <1>1, ProductsDef
<1>3. CASE strided
  <2>1. Data = [k \in DOMAIN w |-> Cell(data, ptr + w[k])]  BY <1>3 DEF Data
  <2>2. w = [k \in 1..P |-> Dot(Unravel(shape, k - 1), lay.strides)]  BY <1>1, WalkIs
  <2> HIDE DEF w, P
  <2>3. Data = [k \in 1..P |-> Cell(data, ptr + Dot(Unravel(shape, k - 1), lay.strides))]  BY <2>1, <2>2
  <2>4. \A k \in 1..P : Address(lay, Unravel(shape, k - 1)) = ptr + Dot(Unravel(shape, k - 1), lay.strides)
    BY DEF Address
  <2> QED  BY <2>3, <2>4 DEF P
<1>4. CASE ~strided
  <2>1. Data = [k \in 1..P |-> Cell(data, ptr + k - 1)]  BY <1>4 DEF Data
  <2>2. lay = Contiguous(ptr, shape)  BY <1>4
  <2>3. \A k \in 0..P - 1 : Address(Contiguous(ptr, shape), Unravel(shape, k)) = ptr + k  BY <1>1, InOrder
  <2> HIDE DEF P, ptr, shape
  <2>4. \A k \in 1..P : Address(lay, Unravel(shape, k - 1)) = ptr + k - 1
    <3> SUFFICES ASSUME NEW k \in 1..P  PROVE Address(lay, Unravel(shape, k - 1)) = ptr + k - 1
      OBVIOUS
    <3>1. k - 1 \in 0..P - 1 /\ ptr + (k - 1) = ptr + k - 1  BY <1>1, <1>2
    <3> QED  BY <2>2, <2>3, <3>1
  <2> QED  BY <2>1, <2>4 DEF P, shape
<1> QED  BY <1>3, <1>4

-----------------------------------------------------------------------------
(* Reshaping.                                                              *)

-----------------------------------------------------------------------------
(* Reshaping.                                                              *)

\* Reshaping looks elements up by their place in C order.
LEMMA ReshapedIs ==
  ASSUME NEW e, NEW old, NEW new \in Seq(Nat)
  PROVE  NumpyReshaped(e, old, new) = [i \in Indices(new) |-> e[Unravel(old, Dot(i, CStrides(new)))]]
<1> DEFINE place(i) == CHOOSE k \in 0..Product(new) - 1 : Unravel(new, k) = i
<1>1. ASSUME NEW i \in Indices(new)  PROVE place(i) = Dot(i, CStrides(new))
  BY PlaceUnraveled
<1>2. NumpyReshaped(e, old, new) = [i \in Indices(new) |-> e[Unravel(old, place(i))]]  BY DEF NumpyReshaped
<1> HIDE DEF place
<1> QED  BY <1>1, <1>2

\* A window keeps the elements in C order,
LEMMA ReshapedWindow ==
  ASSUME NEW d, NEW ptr \in Int, NEW old \in Seq(Nat), NEW new \in Seq(Nat), Product(new) = Product(old)
  PROVE  NumpyReshaped(Elements(d, Contiguous(ptr, old)), old, new) = Elements(d, Contiguous(ptr, new))
<1> DEFINE e == Elements(d, Contiguous(ptr, old))
           k(i) == Dot(i, CStrides(new))
<1>1. Contiguous(ptr, old).shape = old /\ Contiguous(ptr, new).shape = new  BY ContiguousIsLayout
<1>2. \A i \in Indices(new) : /\ k(i) \in 0..Product(old) - 1
                              /\ Address(Contiguous(ptr, new), i) = ptr + k(i)
  BY InOrder
<1>3. \A j \in 0..Product(old) - 1 : /\ Unravel(old, j) \in Indices(old)
                                     /\ Address(Contiguous(ptr, old), Unravel(old, j)) = ptr + j
  BY InOrder, UnravelPlace
<1>4. \A j \in Indices(old) : e[j] = Cell(d, Address(Contiguous(ptr, old), j))  BY <1>1 DEF Elements
<1> HIDE DEF e, k
<1>5. \A i \in Indices(new) : e[Unravel(old, k(i))] = Cell(d, Address(Contiguous(ptr, new), i))
  BY <1>2, <1>3, <1>4
<1>6. NumpyReshaped(e, old, new) = [i \in Indices(new) |-> e[Unravel(old, k(i))]]  BY ReshapedIs DEF k
<1>7. Elements(d, Contiguous(ptr, new)) = [i \in Indices(new) |-> Cell(d, Address(Contiguous(ptr, new), i))]
  BY <1>1 DEF Elements
<1> QED  BY <1>5, <1>6, <1>7 DEF e

\* The elements of a layout, copied in C order.
Copied(d, l) == [k \in 1..Product(l.shape) |-> Cell(d, Address(l, Unravel(l.shape, k - 1)))]

\* A copy is as long as the shape says.
LEMMA CopiedTypes ==
  ASSUME NEW d \in Seq(Int), NEW l, IsLayout(l)
  PROVE  Copied(d, l) \in Seq(Int) /\ Len(Copied(d, l)) = Product(l.shape) /\ Product(l.shape) \in Nat
<1> DEFINE P == Product(l.shape)
           c == Copied(d, l)
<1>1. P \in Nat  BY ProductsDef DEF IsLayout
<1>2. \A k \in 1..P : Cell(d, Address(l, Unravel(l.shape, k - 1))) \in Int  BY CellTypes
<1>3. c = [k \in 1..P |-> Cell(d, Address(l, Unravel(l.shape, k - 1)))]  BY DEF Copied
<1> HIDE DEF P, c
<1>4. c \in Seq(Int) /\ Len(c) = P  BY <1>1, <1>2, <1>3
<1> QED  BY <1>1, <1>4 DEF P, c

\* and so does a copy.
LEMMA ReshapedCopy ==
  ASSUME NEW d \in Seq(Int), NEW l, IsLayout(l), NEW new \in Seq(Nat), Product(new) = Product(l.shape)
  PROVE  NumpyReshaped(Elements(d, l), l.shape, new) = Elements(Copied(d, l), Contiguous(0, new))
<1> DEFINE e == Elements(d, l)
           c == Copied(d, l)
           old == l.shape
           P == Product(old)
           k(i) == Dot(i, CStrides(new))
           m == Contiguous(0, new)
<1>1. m.shape = new  BY ContiguousIsLayout
<1>2. \A i \in Indices(new) : k(i) \in 0..P - 1 /\ Address(m, i) = 0 + k(i)  BY InOrder
<1>3. old \in Seq(Nat)  BY DEF IsLayout
<1>4. \A j \in 0..P - 1 : Unravel(old, j) \in Indices(old)  BY <1>3, UnravelPlace
<1>5. \A j \in Indices(old) : e[j] = Cell(d, Address(l, j))  BY DEF Elements
<1>6. c \in Seq(Int) /\ Len(c) = P /\ P \in Nat  BY CopiedTypes
<1>7. \A j \in 1..P : c[j] = Cell(d, Address(l, Unravel(old, j - 1)))  BY DEF Copied
<1> HIDE DEF e, c, k, m, P, old
<1>8. ASSUME NEW i \in Indices(new)  PROVE e[Unravel(old, k(i))] = Cell(c, Address(m, i))
  <2> DEFINE q == k(i)
  <2>1. q \in 0..P - 1 /\ Address(m, i) = 0 + q  BY <1>2
  <2> HIDE DEF q
  <2>2. Address(m, i) = q /\ q + 1 \in 1..P /\ (q + 1) - 1 = q  BY <1>6, <2>1
  <2>3. Cell(c, q) = c[q + 1]  BY <1>6, <2>1, CellTypes
  <2>4. c[q + 1] = Cell(d, Address(l, Unravel(old, q)))  BY <1>7, <2>2
  <2>5. e[Unravel(old, q)] = Cell(d, Address(l, Unravel(old, q)))  BY <1>4, <1>5, <2>1
  <2> QED  BY <2>2, <2>3, <2>4, <2>5 DEF q
<1>9. NumpyReshaped(e, old, new) = [i \in Indices(new) |-> e[Unravel(old, k(i))]]  BY ReshapedIs DEF k
<1>10. Elements(c, m) = [i \in Indices(new) |-> Cell(c, Address(m, i))]  BY <1>1 DEF Elements
<1>11. NumpyReshaped(e, old, new) = Elements(c, m)  BY <1>8, <1>9, <1>10
<1> QED  BY <1>11 DEF e, c, m, old

-----------------------------------------------------------------------------
(* Transposing.                                                            *)

-----------------------------------------------------------------------------
(* Transposing.                                                            *)

\* Reversing shape and strides reverses the multi-indices.
LEMMA TransposedMaps ==
  ASSUME NEW l, IsLayout(l)
  PROVE  /\ IsLayout(Reversed(l)) /\ Reversed(l).shape = Reverse(l.shape)
         /\ \A i \in Indices(Reverse(l.shape)) :
              Reverse(i) \in Indices(l.shape) /\ Address(Reversed(l), i) = Address(l, Reverse(i))
<1> DEFINE N == Len(l.shape)
           a == l.shape
           s == l.strides
           b == Reverse(a)
           r == Reverse(s)
           L == Reversed(l)
<1>1. l.ptr \in Int /\ a \in Seq(Nat) /\ s \in Seq(Int) /\ Len(s) = N /\ N \in Nat  BY DEF IsLayout
<1>2. L.ptr = l.ptr /\ L.shape = b /\ L.strides = r  BY DEF Reversed, Layout
<1>3. b \in Seq(Nat) /\ Len(b) = N /\ \A k \in 1..N : N + 1 - k \in 1..N /\ b[k] = a[N + 1 - k]
  BY <1>1, ReverseIs
<1>4. r \in Seq(Int) /\ Len(r) = N /\ \A k \in 1..N : r[k] = s[N + 1 - k]
  <2> HIDE DEF N, s
  <2> QED  BY <1>1, ReverseIs
<1> HIDE DEF L, b, r, a, s, N
<1>5. IsLayout(L)  BY <1>1, <1>2, <1>3, <1>4 DEF IsLayout
<1>6. ASSUME NEW i \in Indices(b)
      PROVE  Reverse(i) \in Indices(a) /\ Address(L, i) = Address(l, Reverse(i))
  <2> DEFINE j == Reverse(i)
             t == [k \in DOMAIN r |-> i[k] * r[k]]
             u == [k \in DOMAIN s |-> j[k] * s[k]]
  <2>1. i \in Seq(Nat) /\ Len(i) = N /\ \A k \in 1..N : i[k] \in Nat /\ i[k] < b[k]  BY <1>3, IndexTypes
  <2>2. j \in Seq(Nat) /\ Len(j) = N /\ \A k \in 1..N : j[k] = i[N + 1 - k]  BY <2>1, ReverseIs
  <2> HIDE DEF j
  <2>3. \A k \in 1..N : N + 1 - k \in 1..N /\ N + 1 - (N + 1 - k) = k  BY <1>1
  <2>4. \A k \in 1..N : j[k] < a[k]
    <3> SUFFICES ASSUME NEW k \in 1..N  PROVE j[k] < a[k]
      OBVIOUS
    <3> DEFINE m == N + 1 - k
    <3>1. m \in 1..N /\ N + 1 - m = k  BY <2>3
    <3> HIDE DEF m
    <3>2. i[m] < b[m] /\ b[m] = a[N + 1 - m]  BY <1>3, <2>1, <3>1
    <3>3. j[k] = i[m]  BY <2>2 DEF m
    <3> QED  BY <3>1, <3>2, <3>3
  <2>5. j \in Indices(a)
    <3>1. j \in [1..N -> Nat]  BY <2>2
    <3>2. N = Len(a)  BY DEF N, a
    <3> QED  BY <1>1, <2>4, <3>1, <3>2, IndicesAre
  <2>6. t \in Seq(Int) /\ Len(t) = N /\ Dot(i, r) = Total(t) /\ \A k \in 1..N : t[k] = i[k] * r[k]
    BY <1>4, <2>1, DotTypes
  <2>7. u \in Seq(Int) /\ Len(u) = N /\ Dot(j, s) = Total(u) /\ \A k \in 1..N : u[k] = j[k] * s[k]
    BY <1>1, <2>2, DotTypes
  <2> HIDE DEF t, u
  <2>8. \A k \in 1..N : t[k] = u[N + 1 - k]
    <3> SUFFICES ASSUME NEW k \in 1..N  PROVE t[k] = u[N + 1 - k]
      OBVIOUS
    <3> DEFINE m == N + 1 - k
    <3>1. m \in 1..N /\ N + 1 - m = k  BY <2>3
    <3> HIDE DEF m
    <3>2. u[m] = j[m] * s[m] /\ j[m] = i[N + 1 - m]  BY <2>2, <2>7, <3>1
    <3>3. t[k] = i[k] * r[k] /\ r[k] = s[m]  BY <1>4, <2>6 DEF m
    <3>4. t[k] = u[m]  BY <3>1, <3>2, <3>3
    <3> QED  BY <3>4 DEF m
  <2>9. Total(t) = Total(u)
    <3>1. Len(t) = Len(u) /\ \A k \in 1..Len(u) : t[k] = u[Len(u) + 1 - k]  BY <2>6, <2>7, <2>8
    <3> QED  BY <2>6, <2>7, <3>1, SumReversed
  <2>10. Address(L, i) = Address(l, j)  BY <1>2, <2>6, <2>7, <2>9 DEF Address, s
  <2> QED  BY <2>5, <2>10 DEF j
<1> QED  BY <1>2, <1>5, <1>6 DEF L, a, b

-----------------------------------------------------------------------------
(* extract_shape_args.                                                     *)

\* The shape that extract_shape_args finds has room for the elements.
LEMMA ShapeForFits ==
  ASSUME NEW raw \in Seq(Int), NEW size \in Nat, NEW shape \in ShapeFor(raw, size)
  PROVE  /\ shape \in Seq(Nat) /\ Len(shape) =< MAX_NDIM
         /\ Product(shape) = size
<1> DEFINE N == Len(raw)
           unknown == {k \in DOMAIN raw : raw[k] < 0}
           rest    == [k \in DOMAIN raw |-> IF k \in unknown THEN 1 ELSE raw[k]]
           known   == Product(rest)
           found   == [k \in DOMAIN raw |-> IF k \in unknown THEN size \div known ELSE raw[k]]
<1>1. /\ shape = found
      /\ ~(Cardinality(unknown) > 1)
      /\ ~(unknown # {} /\ (known = 0 \/ size % known # 0))
      /\ ~(unknown = {} /\ known # size)
      /\ ~(Len(raw) > MAX_NDIM)
  BY DEF ShapeFor
<1>2. N \in Nat /\ DOMAIN raw = 1..N /\ \A k \in 1..N : raw[k] \in Int  OBVIOUS
<1>3. \A k \in 1..N : k \notin unknown => raw[k] \in Nat  BY <1>2
<1>4. IsFiniteSet(unknown)
  <2>1. unknown \in SUBSET (1..N) /\ IsFiniteSet(1..N)  BY <1>2, FS_Interval
  <2> QED  BY <2>1, FS_Subset
<1>5. unknown \in SUBSET (1..N)  BY <1>2
<1> HIDE DEF unknown, N
<1>6. rest \in Seq(Nat) /\ Len(rest) = N /\ \A k \in 1..N : rest[k] = IF k \in unknown THEN 1 ELSE raw[k]
  <2>1. \A k \in 1..N : (IF k \in unknown THEN 1 ELSE raw[k]) \in Nat  BY <1>3
  <2>2. rest = [k \in 1..N |-> IF k \in unknown THEN 1 ELSE raw[k]]  BY <1>2
  <2> HIDE DEF rest
  <2> QED  BY <1>2, <2>1, <2>2
<1>7. found = [k \in 1..N |-> IF k \in unknown THEN size \div known ELSE raw[k]]  BY <1>2
<1> HIDE DEF rest, found
<1>8. known \in Nat  BY <1>6, ProductsDef
<1>9. Len(raw) =< MAX_NDIM /\ N = Len(raw)
  <2>1. MAX_NDIM \in Nat  BY LayoutsAssumption
  <2> QED  BY <1>1, <1>2, <2>1 DEF N
<1>10. CASE unknown = {}
  <2>1. found = rest
    <3>1. \A k \in 1..N : rest[k] = raw[k]  BY <1>6, <1>10
    <3>2. found = [k \in 1..N |-> raw[k]]  BY <1>7, <1>10
    <3>3. rest = [k \in 1..N |-> rest[k]]  BY <1>6
    <3> QED  BY <3>1, <3>2, <3>3
  <2>2. known = size  BY <1>1, <1>10
  <2> QED  BY <1>1, <1>6, <1>9, <2>1, <2>2
<1>11. CASE unknown # {}
  <2> DEFINE q == size \div known
  <2>1. PICK j \in unknown : TRUE  BY <1>11
  <2>2. \A k \in unknown : k = j  BY <1>1, <1>4, <2>1, AtMostOne
  <2>3. j \in 1..N  BY <1>5, <2>1
  <2>4. known \in Nat \ {0} /\ size % known = 0  BY <1>1, <1>8, <1>11
  <2> HIDE DEF known
  <2>5. q \in Nat /\ size = q * known
    <3>1. size \in Int  OBVIOUS
    <3> DEFINE r == size % known
    <3>2. q \in Int /\ size = q * known + r  BY <2>4, <3>1, DivMod
    <3>3. r = 0  BY <2>4
    <3> HIDE DEF q, r
    <3>4. 0 > q => 0 * known >= q * known + known
      <4>1. 0 \in Int  OBVIOUS
      <4> QED  BY <2>4, <3>2, <4>1, Multiples
    <3>5. 0 * known = 0 /\ q * known \in Int  BY <2>4, <3>2
    <3> DEFINE y == q * known
    <3>6. y \in Int /\ size = y + r /\ (0 > q => 0 >= y + known)  BY <3>2, <3>4, <3>5
    <3> HIDE DEF y
    <3>7. size = y /\ ~(0 > q)  BY <2>4, <3>3, <3>6
    <3> QED  BY <3>2, <3>7 DEF y
  <2> HIDE DEF q
  <2>6. found = [k \in 1..N |-> IF k \in unknown THEN q ELSE raw[k]]  BY <1>7 DEF q
  <2>7. found \in Seq(Nat) /\ Len(found) = N /\ found[j] = q /\ \A k \in 1..N : k # j => found[k] = rest[k]
    <3>1. \A k \in 1..N : (IF k \in unknown THEN q ELSE raw[k]) \in Nat  BY <1>3, <2>5
    <3>2. found \in Seq(Nat) /\ Len(found) = N  BY <1>2, <2>6, <3>1
    <3>3. found[j] = q  BY <2>1, <2>3, <2>6
    <3>4. \A k \in 1..N : k # j => found[k] = rest[k]  BY <1>6, <2>2, <2>6
    <3> QED  BY <3>2, <3>3, <3>4
  <2>8. rest[j] = 1  BY <1>6, <2>1, <2>3
  <2>9. Len(found) = Len(rest) /\ j \in 1..Len(found) /\ \A k \in 1..Len(found) : k # j => found[k] = rest[k]
    BY <1>6, <2>3, <2>7
  <2>10. Product(found) = found[j] * Product(rest)  BY <1>6, <2>7, <2>8, <2>9, ProductReplaced
  <2>11. Product(found) = size  BY <2>5, <2>7, <2>10 DEF known
  <2> QED  BY <1>1, <1>9, <2>7, <2>11
<1> QED  BY <1>10, <1>11


-----------------------------------------------------------------------------
(* Rows of the leading axis.                                               *)

-----------------------------------------------------------------------------
(* Rows of the leading axis.                                               *)

\* The rows a take_leading copies: one after the other, they are the elements
\* NumPy takes, in C order.
RowsOf(c, P, rows, m) ==
  FlattenSeq([r \in DOMAIN rows |->
                SubSeq(c, Normalize(rows[r], m) * P + 1, (Normalize(rows[r], m) + 1) * P)])

\* A row of the data.
LEMMA RowInside ==
  ASSUME NEW c \in Seq(Int), NEW m \in Nat, NEW P \in Nat, Len(c) = m * P, NEW a \in 0..m - 1
  PROVE  LET row == SubSeq(c, a * P + 1, (a + 1) * P) IN
         /\ row \in Seq(Int) /\ Len(row) = P
         /\ \A q \in 0..P - 1 : row[q + 1] = c[a * P + q + 1] /\ a * P + q \in 0..m * P - 1
<1> DEFINE lo == a * P
           hi == (a + 1) * P
           n == m * P
<1>1. lo \in Nat /\ hi = lo + P /\ n \in Nat /\ hi <= n
  <2>1. a \in Nat /\ a + 1 <= m  OBVIOUS
  <2>2. m = (a + 1) + (m - (a + 1)) /\ m - (a + 1) \in Nat  BY <2>1
  <2> DEFINE x == m - (a + 1)
  <2>3. m * P = (a + 1) * P + x * P /\ x * P \in Nat  BY <2>1, <2>2
  <2>4. (a + 1) * P = a * P + P /\ a * P \in Nat  BY <2>1
  <2> QED  BY <2>3, <2>4
<1> DEFINE row == SubSeq(c, lo + 1, hi)
<1> HIDE DEF lo, hi, n
<1>2. Len(c) = n  BY DEF n
<1>3. \A k \in lo + 1..hi : k \in 1..n  BY <1>1
<1>4. row \in Seq(Int) /\ Len(row) = P /\ \A q \in 1..P : row[q] = c[lo + q]
  <2>1. \A k \in lo + 1..hi : c[k] \in Int  BY <1>1, <1>2, <1>3
  <2>2. row \in Seq(Int)  BY <1>1, <2>1
  <2>3. Len(row) = IF lo + 1 <= hi THEN hi - (lo + 1) + 1 ELSE 0  BY <1>1
  <2>4. Len(row) = P  BY <1>1, <2>3
  <2>5. \A q \in 1..P : row[q] = c[(lo + 1) + q - 1]  BY <1>1
  <2> QED  BY <1>1, <2>2, <2>4, <2>5
<1>5. ASSUME NEW q \in 0..P - 1  PROVE row[q + 1] = c[lo + q + 1] /\ lo + q \in 0..n - 1
  <2>1. q + 1 \in 1..P /\ lo + (q + 1) = lo + q + 1 /\ lo + q \in 0..n - 1  BY <1>1
  <2> QED  BY <1>4, <2>1
<1> QED  BY <1>4, <1>5 DEF row, lo, hi, n

\* They have the shape NumPy gives them, too.
LEMMA RowsIs ==
  ASSUME NEW d \in Seq(Int), NEW l, IsLayout(l), Len(l.shape) > 0, NEW rows \in Seq(Int),
         \A r \in DOMAIN rows : InRange(rows[r], l.shape[1])
  PROVE  LET rest == Tail(l.shape)
             new  == <<Len(rows)>> \o rest
             f    == RowsOf(Copied(d, l), Product(rest), rows, l.shape[1])
         IN  /\ f \in Seq(Int) /\ Len(f) = Product(new)
             /\ new \in Seq(Nat) /\ Len(new) = Len(l.shape)
             /\ NumpyRows(Elements(d, l), l.shape, rows) = Elements(f, Contiguous(0, new))
<1> DEFINE shape == l.shape
           m == shape[1]
           rest == Tail(shape)
           R == Len(rows)
           new == <<R>> \o rest
           P == Product(rest)
           c == Copied(d, l)
           a(r) == Normalize(rows[r], m)
           s == [r \in DOMAIN rows |-> SubSeq(c, a(r) * P + 1, (a(r) + 1) * P)]
           f == RowsOf(c, P, rows, m)
           e == Elements(d, l)
<1>1. shape \in Seq(Nat) /\ Len(shape) > 0  BY DEF IsLayout
<1>2. m \in Nat /\ rest \in Seq(Nat) /\ shape = <<m>> \o rest /\ Len(shape) = Len(rest) + 1
  <2> HIDE DEF shape
  <2>1. shape # <<>>  BY <1>1
  <2>2. m \in Nat  BY <1>1
  <2>3. rest \in Seq(Nat) /\ Len(rest) = Len(shape) - 1 /\ \A k \in 1..Len(rest) : rest[k] = shape[k + 1]  BY <1>1, <2>1
  <2> HIDE DEF rest
  <2>4. /\ <<m>> \o rest \in Seq(Nat) /\ Len(<<m>> \o rest) = Len(rest) + 1 /\ (<<m>> \o rest)[1] = m
        /\ \A k \in 1..Len(rest) : (<<m>> \o rest)[k + 1] = rest[k]
    BY <2>2, <2>3, LeadingAxis
  <2> DEFINE t == <<m>> \o rest
  <2>5. t \in Seq(Nat) /\ Len(t) = Len(shape) /\ \A k \in 1..Len(shape) : t[k] = shape[k]
    <3>1. Len(t) = Len(shape)  BY <1>1, <2>3, <2>4
    <3>2. ASSUME NEW k \in 1..Len(shape)  PROVE t[k] = shape[k]
      <4>1. CASE k = 1  BY <2>4, <4>1
      <4>2. CASE k # 1
        <5>1. k - 1 \in 1..Len(rest) /\ (k - 1) + 1 = k  BY <1>1, <2>3, <4>2
        <5> QED  BY <2>3, <2>4, <5>1
      <4> QED  BY <4>1, <4>2
    <3> QED  BY <2>4, <3>1, <3>2
  <2> HIDE DEF t
  <2>6. t = shape  BY <1>1, <2>5, SameSequence, Zenon
  <2>7. Len(shape) = Len(rest) + 1  BY <1>1, <2>3
  <2> QED  BY <2>2, <2>3, <2>6, <2>7 DEF t
<1>3. R \in Nat /\ DOMAIN rows = 1..R /\ \A r \in 1..R : rows[r] \in Int  OBVIOUS
<1>4. \A r \in 1..R : InRange(rows[r], m)  BY <1>3
<1>5. c \in Seq(Int) /\ Len(c) = Product(shape)  BY CopiedTypes
<1>6. \A k \in 1..Product(shape) : c[k] = Cell(d, Address(l, Unravel(shape, k - 1)))  BY DEF Copied
<1>7. \A j \in Indices(shape) : e[j] = Cell(d, Address(l, j))  BY DEF Elements
<1> HIDE DEF shape, m, rest, R, c, e
<1>8. P \in Nat /\ Product(shape) = m * P
  <2>1. P \in Nat  BY <1>2, ProductsDef
  <2>2. Product(<<m>> \o rest) = m * P  BY <1>2, LeadingAxis
  <2> QED  BY <1>2, <2>1, <2>2
<1>9. new \in Seq(Nat) /\ Len(new) = Len(rest) + 1 /\ Product(new) = R * P  BY <1>2, <1>3, LeadingAxis
<1> HIDE DEF P, new
<1>10. \A r \in 1..R : a(r) \in 0..m - 1
  <2> TAKE r \in 1..R
  <2>1. rows[r] \in Int /\ rows[r] \in -m..m - 1  BY <1>3, <1>4 DEF InRange
  <2> QED  BY <1>2, <2>1 DEF Normalize
<1> HIDE DEF a
<1>11. \A r \in 1..R : /\ s[r] \in Seq(Int) /\ Len(s[r]) = P
                       /\ \A q \in 0..P - 1 : s[r][q + 1] = c[a(r) * P + q + 1] /\ a(r) * P + q \in 0..m * P - 1
  <2> TAKE r \in 1..R
  <2> DEFINE b == a(r)
  <2>1. b \in 0..m - 1  BY <1>10
  <2>2. s[r] = SubSeq(c, b * P + 1, (b + 1) * P)  BY <1>3
  <2> HIDE DEF b, s
  <2>3. Len(c) = m * P  BY <1>5, <1>8
  <2>4. LET row == SubSeq(c, b * P + 1, (b + 1) * P) IN
         /\ row \in Seq(Int) /\ Len(row) = P
         /\ \A q \in 0..P - 1 : row[q + 1] = c[b * P + q + 1] /\ b * P + q \in 0..m * P - 1
    BY <1>2, <1>5, <1>8, <2>1, <2>3, RowInside
  <2> QED  BY <2>2, <2>4 DEF b
<1>12. f = FlattenSeq(s)  BY DEF RowsOf, a
<1>13. Joined(f, s, R, P, Int)
  <2>1. DOMAIN s = 1..R  BY <1>3
  <2> HIDE DEF s
  <2>2. s \in Seq(Seq(Int)) /\ Len(s) = R
    <3>1. s = [k \in 1..R |-> s[k]]  BY <2>1 DEF s
    <3>2. \A k \in 1..R : s[k] \in Seq(Int)  BY <1>11
    <3>3. s \in [1..R -> Seq(Int)]  BY <3>1, <3>2
    <3> QED  BY <1>3, <3>3
  <2>3. IsPieces(s, R, P, Int)  BY <1>3, <1>8, <1>11, <2>2 DEF IsPieces
  <2> QED  BY <1>12, <2>3, FlattenIs
<1> HIDE DEF f
<1>14. /\ f \in Seq(Int) /\ Len(f) = R * P
       /\ \A k \in 1..R, q \in 1..P : f[(k - 1) * P + q] = s[k][q]
  BY <1>13 DEF Joined
<1> HIDE DEF s
<1> DEFINE n == Contiguous(0, new)
           take(i) == <<a(i[1] + 1)>> \o Tail(i)
<1>15. n.shape = new  BY <1>9, ContiguousIsLayout
<1>16. \A i \in Indices(new) : Address(n, i) = 0 + Dot(i, CStrides(new))  BY <1>9, InOrder
<1> HIDE DEF n
<1>17. ASSUME NEW i \in Indices(new)  PROVE e[take(i)] = Cell(f, Address(n, i))
  <2> DEFINE j == Tail(i)
             D == Dot(j, CStrides(rest))
             k == i[1]
             b == a(k + 1)
  <2>1. k \in 0..R - 1 /\ j \in Indices(rest) /\ Dot(i, CStrides(new)) = k * P + D
    BY <1>2, <1>3, LeadingIndex DEF P, new
  <2>2. D \in 0..P - 1  BY <1>2, <2>1, PlaceUnraveled DEF P
  <2>3. k + 1 \in 1..R /\ (k + 1) - 1 = k /\ k \in Nat  BY <1>3, <2>1
  <2>4. b \in 0..m - 1  BY <1>10, <2>3
  <2>5. /\ <<b>> \o j \in Indices(shape) /\ Dot(<<b>> \o j, CStrides(shape)) = b * P + D
    <3>1. /\ <<b>> \o j \in Indices(<<m>> \o rest)
          /\ Dot(<<b>> \o j, CStrides(<<m>> \o rest)) = b * P + D
      BY <1>2, <2>1, <2>4, LeadingRow DEF P
    <3> QED  BY <1>2, <3>1
  <2> HIDE DEF D, k, b, j
  <2>6. Unravel(shape, b * P + D) = <<b>> \o j  BY <1>1, <2>5, PlaceUnraveled DEF shape
  <2>7. b * P + D \in 0..m * P - 1 /\ s[k + 1][D + 1] = c[b * P + D + 1]  BY <1>11, <2>2, <2>3 DEF b
  <2>8. c[b * P + D + 1] = Cell(d, Address(l, <<b>> \o j))
    <3> DEFINE z == b * P + D
    <3>1. z \in 0..Product(shape) - 1  BY <1>8, <2>7
    <3>2. Unravel(shape, z) = <<b>> \o j  BY <2>6
    <3> HIDE DEF z
    <3>3. z + 1 \in 1..Product(shape) /\ (z + 1) - 1 = z
      <4>1. Product(shape) \in Int  BY <1>2, <1>8
      <4> QED  BY <3>1, <4>1
    <3>4. c[z + 1] = Cell(d, Address(l, Unravel(shape, z)))  BY <1>6, <3>3
    <3> QED  BY <3>2, <3>4 DEF z
  <2>9. f[k * P + (D + 1)] = s[k + 1][D + 1]
    <3>1. D + 1 \in 1..P  BY <1>8, <2>2
    <3> QED  BY <1>14, <2>3, <3>1
  <2>10. Cell(f, k * P + D) = f[k * P + D + 1]
    <3> DEFINE y == k * P
               N == R * P
    <3>1. y \in Nat /\ y + P <= N
      <4>1. P \in Nat \ {0} /\ k \in Int /\ R \in Int /\ R > k  BY <1>3, <1>8, <2>1, <2>2, <2>3
      <4>2. R * P >= k * P + P  BY <4>1, Multiples
      <4>3. k * P \in Nat /\ R * P \in Nat  BY <1>3, <1>8, <2>3
      <4> QED  BY <4>2, <4>3
    <3>2. Len(f) = N  BY <1>14
    <3>3. f \in Seq(Int)  BY <1>14
    <3> HIDE DEF y, N
    <3>4. y + D \in 0..Len(f) - 1  BY <1>8, <2>2, <3>1, <3>2
    <3>5. Cell(f, y + D) = f[y + D + 1]  BY <3>3, <3>4, CellTypes
    <3> QED  BY <3>5 DEF y
  <2>11. k * P + (D + 1) = k * P + D + 1  BY <1>8, <2>2, <2>3
  <2>12. Address(n, i) = k * P + D
    <3>1. Address(n, i) = 0 + (k * P + D)  BY <1>16, <2>1 DEF D, k, j
    <3>2. k * P + D \in Int  BY <1>8, <2>2, <2>3
    <3> QED  BY <3>1, <3>2
  <2>13. e[<<b>> \o j] = Cell(d, Address(l, <<b>> \o j))  BY <1>7, <2>5
  <2>14. take(i) = <<b>> \o j  BY DEF b, j, k
  <2> QED  BY <2>7, <2>8, <2>9, <2>10, <2>11, <2>12, <2>13, <2>14
<1>18. NumpyRows(e, shape, rows) = [i \in Indices(new) |-> e[take(i)]]
  BY DEF NumpyRows, new, R, rest, take, a, m
<1>19. Elements(f, n) = [i \in Indices(new) |-> Cell(f, Address(n, i))]  BY <1>15 DEF Elements
<1> HIDE DEF take
<1>20. NumpyRows(e, shape, rows) = Elements(f, n)  BY <1>17, <1>18, <1>19
<1>21. Len(new) = Len(shape) /\ Len(f) = Product(new)  BY <1>2, <1>9, <1>14
<1> QED  BY <1>9, <1>14, <1>20, <1>21 DEF n, f, e, c, P, m, R, rest, new, shape

-----------------------------------------------------------------------------
(* Indexing.                                                               *)

\* Indexing.  What is at the addresses of the layout that select and
\* insert_axis compute is what NumPy's indexing takes from the elements.
KeyLayout(l, key) == WithNewAxes(Select(l, Plan(l.shape, Selectors(key))), NewAxes(key))

\* It lies in the buffer if the array does, and its elements are NumPy's.
LEMMA SelectedElements ==
  ASSUME NEW d, NEW l, IsLayout(l), NEW key, IsKeyFor(key, l.shape)
  PROVE  LET L == KeyLayout(l, key) IN
         /\ IsLayout(L)
         /\ NumpyIndexed(Elements(d, l), l.shape, key) = Elements(d, L)
         /\ \A n : Inside(l, n) => Inside(L, n)
         /\ Product(L.shape) = 0 <=> Empty(Plan(l.shape, Selectors(key)))
<1> DEFINE L == KeyLayout(l, key)
           e == Elements(d, l)
           from(i) == From(l.shape, key, i)
<1>1. /\ L.shape = InsertOnes(OutShape(Plan(l.shape, Selectors(key))), 1, NewAxes(key))
      /\ Product(L.shape) = 0 <=> Empty(Plan(l.shape, Selectors(key)))
      /\ \A i \in Indices(L.shape) : from(i) \in Indices(l.shape) /\ Address(L, i) = Address(l, from(i))
  BY SelectionOfKey DEF KeyLayout
<1>2. IsLayout(L)  BY SelectionOfKey DEF KeyLayout, HasAxes
<1>3. NumpyIndexed(e, l.shape, key) = [i \in Indices(L.shape) |-> e[from(i)]]  BY <1>1, NumpyIndexedIs
<1>4. \A j \in Indices(l.shape) : e[j] = Cell(d, Address(l, j))  BY DEF Elements
<1> HIDE DEF from, L, e
<1>5. [i \in Indices(L.shape) |-> e[from(i)]] = Elements(d, L)  BY <1>1, <1>4 DEF Elements
<1>6. \A n : Inside(l, n) => Inside(L, n)  BY <1>1 DEF Inside
<1> QED  BY <1>1, <1>2, <1>3, <1>5, <1>6 DEF L, e

\* All items of a key of integers are selectors,
LEMMA IntsSelect ==
  ASSUME NEW key \in Keys, IsInts(key)
  PROVE  Selectors(key) = key
<1> DEFINE K == {p \in DOMAIN key : key[p] # None}
           N == Len(key)
           s == Selectors(key)
<1>1. /\ N \in Nat /\ DOMAIN key = 1..N /\ DOMAIN s = 1..Len(s) /\ Len(s) = Rank(N, K)
      /\ \A n \in 1..Len(s) : s[n] = key[Ordered(N, K)[n]]
  BY KeyFacts
<1>2. \A k \in 1..N : k \in K <=> k <= N  BY <1>1 DEF IsInts
<1>0. N \in Nat /\ N <= N
  <2>1. N \in Nat  BY <1>1
  <2> QED  BY <2>1
<1> HIDE DEF K, N
<1>3. Rank(N, K) = N /\ \A m \in 1..N : Ordered(N, K)[m] = m  BY <1>0, <1>2, OrderedInitial
<1>4. DOMAIN s = 1..N /\ \A n \in 1..N : s[n] = key[n]  BY <1>1, <1>3
<1>5. s = [n \in DOMAIN s |-> s[n]]  BY DEF Selectors, s
<1>6. key = [n \in DOMAIN key |-> key[n]]
  <2>1. key \in Seq(Range(key))  BY LayoutsAssumption
  <2> QED  BY <2>1
<1> HIDE DEF s
<1>7. s = key  BY <1>1, <1>4, <1>5, <1>6
<1> QED  BY <1>7 DEF s

\* so select alone makes its layout.
LEMMA KeyLayoutOfInts ==
  ASSUME NEW l, IsLayout(l), NEW key, IsKeyFor(key, l.shape), IsInts(key)
  PROVE  KeyLayout(l, key) = Select(l, Plan(l.shape, key))
<1> DEFINE s == Select(l, Plan(l.shape, key))
<1>1. Selectors(key) = key  BY IntsOnly DEF IsLayout
<1>2. IsLayout(s) /\ Len(s.shape) = Rank(Len(Full(l.shape, key)), Keeping(l.shape, key))
  BY <1>1, SelectionOfKey
<1>3. KeyLayout(l, key) = WithNewAxes(s, NewAxes(key))  BY <1>1 DEF KeyLayout
<1>4. s = Layout(s.ptr, s.shape, s.strides)  BY DEF Select, Layout
<1> HIDE DEF s
<1>5. WithNewAxes(s, NewAxes(key)) = Layout(s.ptr, s.shape, s.strides)  BY <1>2, IntsOnly DEF IsLayout
<1> QED  BY <1>3, <1>4, <1>5 DEF s

-----------------------------------------------------------------------------
(* The inductive invariant.  Beside what the runs check it says that every *)
(* address lies in the owner's buffer, that windows are contiguous and     *)
(* that strided views are nonempty and not contiguous.                     *)

\* Types.
Typed == data \in Seq(Int) /\ IsLayout(lay) /\ Len(lay.shape) =< MAX_NDIM /\ strided \in BOOLEAN /\ ops \in 0..MaxOps

\* The SAFETY comments of refresh, commit and view_from_layout: every element
\* of the array lies in the owner's buffer.
StaysInside == Inside(lay, Len(data))

\* A window is contiguous.
Windows == ~strided => lay = Contiguous(lay.ptr, lay.shape)

\* A strided view is nonempty and not contiguous.
Views   == strided => Product(lay.shape) # 0 /\ ~IsCContiguous(lay)

\* The inductive invariant.
IInv == Typed /\ StaysInside /\ Windows /\ Views /\ ElementsMatchNumPy

\* Operations are counted.
LEMMA CountedOps ==
  ASSUME ops \in 0..MaxOps, Counted
  PROVE  ops' \in 0..MaxOps
BY LayoutsAssumption DEF Counted

\* An operation that returns a copy keeps the invariant when the copy is as
\* long as its shape says and holds the elements NumPy says.
LEMMA OwnArrayKeeps ==
  ASSUME IInv, NEW d \in Seq(Int), NEW shape \in Seq(Nat), Len(shape) =< MAX_NDIM, Len(d) = Product(shape),
         NEW e, e = Elements(d, Contiguous(0, shape)), OwnArray(d, shape, e)
  PROVE  IInv'
<1> DEFINE c == Contiguous(0, shape)
<1>1. data' = d /\ lay' = c /\ strided' = FALSE /\ elems' = e /\ Counted  BY DEF OwnArray
<1>2. IsLayout(c) /\ c.ptr = 0 /\ c.shape = shape  BY ContiguousIsLayout
<1>3. ops' \in 0..MaxOps  BY <1>1, CountedOps DEF IInv, Typed
<1>4. Typed'  BY <1>1, <1>2, <1>3 DEF Typed
<1>5. Inside(c, Len(d))
  <2>1. Len(d) \in Nat /\ 0 \in Nat /\ 0 + Product(shape) <= Len(d)
    <3>1. Len(d) \in Nat  OBVIOUS
    <3> QED  BY <3>1
  <2> QED  BY <2>1, BlockInside
<1>6. StaysInside'  BY <1>1, <1>5 DEF StaysInside
<1>7. Windows' /\ Views'  BY <1>1, <1>2 DEF Windows, Views
<1>8. ElementsMatchNumPy'  BY <1>1 DEF ElementsMatchNumPy, Elements
<1> QED  BY <1>4, <1>6, <1>7, <1>8 DEF IInv

\* An operation that returns a window keeps the invariant when the window's
\* elements are those of a layout in place, contiguous unless it is empty.
LEMMA WindowKeeps ==
  ASSUME IInv, NEW l, IsLayout(l), Len(l.shape) =< MAX_NDIM, Inside(l, Len(data)),
         Product(l.shape) # 0 => IsCContiguous(l),
         NEW e, e = Elements(data, l), Window(l.ptr, l.shape, e)
  PROVE  IInv'
<1> DEFINE c == Contiguous(l.ptr, l.shape)
<1>1. data' = data /\ lay' = c /\ strided' = FALSE /\ elems' = e /\ Counted  BY DEF Window
<1>2. l.shape \in Seq(Nat) /\ l.ptr \in Int  BY DEF IsLayout
<1>3. IsLayout(c) /\ c.ptr = l.ptr /\ c.shape = l.shape  BY <1>2, ContiguousIsLayout
<1>4. ops' \in 0..MaxOps  BY <1>1, CountedOps DEF IInv, Typed
<1>5. Typed'  BY <1>1, <1>3, <1>4 DEF IInv, Typed
<1>6. \A i \in Indices(l.shape) : Address(c, i) = Address(l, i)
  <2>1. CASE Product(l.shape) = 0  BY <1>2, <2>1, NoIndices
  <2>2. CASE Product(l.shape) # 0  BY <2>2, ContiguousAddresses
  <2> QED  BY <2>1, <2>2
<1> HIDE DEF c
<1>7. StaysInside'
  <2>1. Inside(c, Len(data))  BY <1>3, <1>6 DEF Inside
  <2> QED  BY <1>1, <2>1 DEF StaysInside
<1>8. Windows' /\ Views'  BY <1>1, <1>3 DEF Windows, Views, c
<1>9. ElementsMatchNumPy'
  <2>1. e = Elements(data, c)  BY <1>3, <1>6 DEF Elements
  <2> QED  BY <1>1, <2>1 DEF ElementsMatchNumPy, Elements
<1> QED  BY <1>5, <1>7, <1>8, <1>9 DEF IInv

\* An empty result has a buffer of its own, with nothing in it.
LEMMA EmptyKeeps ==
  ASSUME IInv, NEW shape \in Seq(Nat), Len(shape) =< MAX_NDIM, Product(shape) = 0,
         NEW l, l.shape = shape, NEW e, e = Elements(data, l), OwnArray(<<>>, shape, e)
  PROVE  IInv'
<1>1. Indices(shape) = {}  BY NoIndices
<1>2. Contiguous(0, shape).shape = shape  BY ContiguousIsLayout
<1>3. Elements(<<>>, Contiguous(0, shape)) = Elements(data, l)  BY <1>1, <1>2 DEF Elements
<1>4. <<>> \in Seq(Int) /\ Len(<<>>) = Product(shape)  OBVIOUS
<1> QED  BY <1>3, <1>4, OwnArrayKeeps

\* And so does view_from_layout, whatever it makes of the layout.
LEMMA ViewKeeps ==
  ASSUME IInv, NEW l, IsLayout(l), Len(l.shape) =< MAX_NDIM, Inside(l, Len(data)),
         NEW e, e = Elements(data, l), ViewFromLayout(l, e)
  PROVE  IInv'
<1>1. CASE Product(l.shape) = 0 /\ OwnArray(<<>>, l.shape, e)
  <2>1. l.shape \in Seq(Nat)  BY DEF IsLayout
  <2> QED  BY <1>1, <2>1, EmptyKeeps
<1>2. CASE Product(l.shape) # 0 /\ IsCContiguous(l) /\ Window(l.ptr, l.shape, e)  BY <1>2, WindowKeeps
<1>3. CASE Product(l.shape) # 0 /\ ~IsCContiguous(l) /\ StridedView(l, e)
  <2>1. data' = data /\ lay' = l /\ strided' = TRUE /\ elems' = e /\ Counted  BY <1>3 DEF StridedView
  <2>2. ops' \in 0..MaxOps  BY <2>1, CountedOps DEF IInv, Typed
  <2>3. Typed'  BY <2>1, <2>2 DEF IInv, Typed
  <2>4. StaysInside'  BY <2>1 DEF StaysInside
  <2>5. Windows' /\ Views'  BY <1>3, <2>1 DEF Windows, Views
  <2>6. ElementsMatchNumPy'  BY <2>1 DEF ElementsMatchNumPy, Elements
  <2> QED  BY <2>3, <2>4, <2>5, <2>6 DEF IInv
<1> QED  BY <1>1, <1>2, <1>3 DEF ViewFromLayout

-----------------------------------------------------------------------------
(* Every step keeps it.                                                    *)

\* What the steps need of it.
LEMMA InvFacts ==
  ASSUME IInv
  PROVE  /\ data \in Seq(Int) /\ Len(data) \in Nat /\ IsLayout(lay) /\ Len(lay.shape) =< MAX_NDIM
         /\ lay.ptr \in Int /\ lay.shape \in Seq(Nat) /\ Inside(lay, Len(data))
         /\ elems = Elements(data, lay) /\ MAX_NDIM \in Nat
<1>1. data \in Seq(Int) /\ IsLayout(lay) /\ Len(lay.shape) =< MAX_NDIM  BY DEF IInv, Typed
<1>2. Inside(lay, Len(data))  BY DEF IInv, StaysInside
<1>3. elems = Elements(data, lay)  BY DEF IInv, ElementsMatchNumPy, Elements
<1>4. lay.ptr \in Int /\ lay.shape \in Seq(Nat)  BY <1>1 DEF IsLayout
<1>5. Len(data) \in Nat  BY <1>1
<1> QED  BY <1>1, <1>2, <1>3, <1>4, <1>5, LayoutsAssumption

\* Indexing with integers on the leading axes.
LEMMA IndexResultKeeps ==
  ASSUME IInv, NEW key \in Keys, IndexResult(key)
  PROVE  IInv'
<1> DEFINE plan == Plan(lay.shape, key)
           s    == Select(lay, plan)
           e    == NumpyIndexed(elems, lay.shape, key)
           w    == Locate(lay, key)
<1>1. /\ IsInts(key) /\ Len(key) < Ndim(lay.shape) /\ Plannable(lay.shape, key)
      /\ IF strided THEN ViewFromLayout(s, e) ELSE Window(w.ptr, w.shape, e)
  BY DEF IndexResult, IsInts
<1>2. Selectors(key) = key  BY <1>1, IntsSelect
<1>3. IsKeyFor(key, lay.shape)  BY <1>1, <1>2, InvFacts DEF IsKeyFor
<1>4. KeyLayout(lay, key) = s  BY <1>1, <1>3, InvFacts, KeyLayoutOfInts
<1>5. /\ IsLayout(s) /\ e = Elements(data, s) /\ Inside(s, Len(data))
      /\ Product(s.shape) = 0 <=> Empty(plan)
  BY <1>2, <1>3, <1>4, InvFacts, SelectedElements
<1>6. s.shape = OutShape(plan)  BY <1>2, <1>3, InvFacts, SelectionOfKey
<1>7. Len(s.shape) =< MAX_NDIM
  <2> DEFINE F == Len(Full(lay.shape, key))
  <2>1. Len(s.shape) = Len(Kept(plan)) /\ Len(lay.shape) \in Nat
    <3>1. IsPlan(plan, lay.shape)  BY <1>2, <1>3, InvFacts, SelectionOfKey
    <3>2. Len(OutShape(plan)) = Len(Kept(plan))  BY <3>1, InvFacts, PlanFacts
    <3> QED  BY <1>6, <3>2, InvFacts
  <2>2. Len(Kept(plan)) = Rank(Len(lay.shape), KeptAxes(plan))
    <3>1. IsPlan(plan, lay.shape)  BY <1>2, <1>3, InvFacts, SelectionOfKey
    <3> QED  BY <3>1, InvFacts, PlanFacts
  <2>3. Rank(Len(lay.shape), KeptAxes(plan)) \in 0..Len(lay.shape)  BY <2>1, RankBound
  <2> QED  BY <2>1, <2>2, <2>3, InvFacts
<1> HIDE DEF s, e
<1>8. CASE strided  BY <1>1, <1>5, <1>7, <1>8, ViewKeeps
<1>9. CASE ~strided
  <2>1. lay = Contiguous(lay.ptr, lay.shape)  BY <1>9 DEF IInv, Windows
  <2>2. w.ptr = s.ptr /\ w.shape = s.shape /\ (~Empty(plan) => IsCContiguous(s))
    <3>1. LET l == Contiguous(lay.ptr, lay.shape) IN
          /\ Locate(l, key).ptr = Select(l, plan).ptr
          /\ Locate(l, key).shape = OutShape(plan)
          /\ ~Empty(plan) => IsCContiguous(Select(l, plan))
      BY <1>1, <1>3, InvFacts, LocateIsSelect
    <3> QED  BY <1>6, <2>1, <3>1 DEF s
  <2> HIDE DEF w
  <2>3. Window(s.ptr, s.shape, e)  BY <1>1, <1>9, <2>2
  <2> QED  BY <1>5, <1>7, <2>2, <2>3, InvFacts, WindowKeeps
<1> QED  BY <1>8, <1>9

\* Indexing with slices and None.
LEMMA SelectResultKeeps ==
  ASSUME IInv, NEW key \in Keys, SelectResult(key)
  PROVE  IInv'
<1> DEFINE sels == Selectors(key)
           plan == Plan(lay.shape, sels)
           axes == NewAxes(key)
           e    == NumpyIndexed(elems, lay.shape, key)
           s    == Select(lay, plan)
           L    == KeyLayout(lay, key)
           shape == InsertOnes(OutShape(plan), 1, axes)
<1>1. /\ Plannable(lay.shape, sels) /\ Fits(plan, axes)
      /\ IF ~strided /\ (Empty(plan) \/ OneBlock(lay.shape, plan))
         THEN IF Empty(plan) THEN OwnArray(<<>>, shape, e)
              ELSE Window(lay.ptr + PlanOffset(lay.shape, plan), shape, e)
         ELSE ViewFromLayout(L, e)
  BY DEF SelectResult, KeyLayout
<1>2. IsKeyFor(key, lay.shape)  BY <1>1, InvFacts DEF IsKeyFor
<1>3. /\ IsLayout(L) /\ e = Elements(data, L) /\ Inside(L, Len(data))
      /\ Product(L.shape) = 0 <=> Empty(plan)
  BY <1>2, InvFacts, SelectedElements
<1> DEFINE F == Len(Full(lay.shape, key))
           K == Keeping(lay.shape, key)
           J == Added(lay.shape, key)
<1>4. /\ IsPlan(plan, lay.shape) /\ IsLayout(s) /\ s.shape = OutShape(plan)
      /\ Len(s.shape) = Rank(F, K) /\ HasAxes(L, s, F, K, J) /\ L.shape = shape
      /\ IsCContiguous(s) => IsCContiguous(L)
  BY <1>2, InvFacts, SelectionOfKey DEF KeyLayout
<1>5. F \in Nat  BY <1>2, FullFacts
<1>6. K \cap J = {} /\ Len(axes) = Rank(F, J)  BY <1>2, NewAxesOfKey
<1> HIDE DEF L, e, s, shape, F, K, J
<1>7. Len(L.shape) =< MAX_NDIM
  <2>1. Len(L.shape) = Rank(F, K \cup J)  BY <1>4 DEF HasAxes, Rank
  <2>2. Rank(F, K \cup J) = Rank(F, K) + Rank(F, J)  BY <1>5, <1>6, RankUnion
  <2> QED  BY <1>1, <1>4, <1>6, <2>1, <2>2 DEF Fits
<1>8. CASE ~strided /\ Empty(plan)
  <2>1. OwnArray(<<>>, L.shape, e)  BY <1>1, <1>4, <1>8
  <2>2. L.shape \in Seq(Nat)  BY <1>3 DEF IsLayout
  <2> QED  BY <1>3, <1>7, <1>8, <2>1, <2>2, EmptyKeeps
<1>9. CASE ~strided /\ ~Empty(plan) /\ OneBlock(lay.shape, plan)
  <2>1. lay = Contiguous(lay.ptr, lay.shape)  BY <1>9 DEF IInv, Windows
  <2>2. IsCContiguous(s) /\ s.ptr = lay.ptr + PlanOffset(lay.shape, plan)
    <3>1. /\ IsCContiguous(Select(Contiguous(lay.ptr, lay.shape), plan))
          /\ Select(Contiguous(lay.ptr, lay.shape), plan).ptr = lay.ptr + PlanOffset(lay.shape, plan)
      BY <1>4, <1>9, InvFacts, BlockSelected
    <3> QED  BY <2>1, <3>1 DEF s
  <2>3. L.ptr = s.ptr  BY <1>4 DEF HasAxes
  <2>4. Window(L.ptr, L.shape, e)  BY <1>1, <1>4, <1>9, <2>2, <2>3
  <2> QED  BY <1>3, <1>4, <1>7, <2>2, <2>4, WindowKeeps
<1>10. CASE strided \/ (~Empty(plan) /\ ~OneBlock(lay.shape, plan))
  <2>1. ViewFromLayout(L, e)  BY <1>1, <1>10
  <2> QED  BY <1>3, <1>7, <2>1, ViewKeeps
<1> QED  BY <1>8, <1>9, <1>10

\* Transposing.
LEMMA TransposedKeeps ==
  ASSUME IInv, Transposed
  PROVE  IInv'
<1> DEFINE r == Reversed(lay)
           e == NumpyTransposed(elems, lay.shape)
<1>1. /\ IsLayout(r) /\ r.shape = Reverse(lay.shape)
      /\ \A i \in Indices(r.shape) : Reverse(i) \in Indices(lay.shape) /\ Address(r, i) = Address(lay, Reverse(i))
  BY InvFacts, TransposedMaps
<1>2. Len(r.shape) =< MAX_NDIM  BY <1>1, InvFacts, ReverseIs
<1>3. e = [i \in Indices(r.shape) |-> elems[Reverse(i)]]  BY <1>1 DEF NumpyTransposed
<1>4. \A j \in Indices(lay.shape) : elems[j] = Cell(data, Address(lay, j))  BY InvFacts DEF Elements
<1>5. ViewFromLayout(r, e)  BY DEF Transposed
<1> HIDE DEF r, e
<1>6. e = Elements(data, r)  BY <1>1, <1>3, <1>4 DEF Elements
<1>7. Inside(r, Len(data))  BY <1>1, InvFacts DEF Inside
<1> QED  BY <1>1, <1>2, <1>5, <1>6, <1>7, ViewKeeps

\* A window of the same size lies where the window does.
LEMMA SameProductInside ==
  ASSUME IInv, ~strided, NEW shape \in Seq(Nat), Product(shape) = Product(lay.shape)
  PROVE  Inside(Contiguous(lay.ptr, shape), Len(data))
<1> DEFINE c == Contiguous(lay.ptr, lay.shape)
           w == Contiguous(lay.ptr, shape)
<1>1. lay = c  BY DEF IInv, Windows
<1>2. w.shape = shape  BY InvFacts, ContiguousIsLayout
<1>3. CASE Product(shape) = 0
  <2>1. Indices(w.shape) = {}  BY <1>2, <1>3, NoIndices
  <2> QED  BY <2>1 DEF Inside
<1>4. CASE Product(shape) # 0
  <2>1. c.strides = CStrides(lay.shape) /\ c.shape = lay.shape  BY InvFacts, ContiguousIsLayout
  <2> HIDE DEF c
  <2>2. IsCContiguous(lay)  BY <1>1, <2>1 DEF IsCContiguous
  <2>3. lay.ptr \in Nat /\ lay.ptr + Product(lay.shape) <= Len(data)  BY <1>4, <2>2, InvFacts, InsideIsBlock
  <2> QED  BY <2>3, InvFacts, BlockInside
<1> QED  BY <1>3, <1>4

\* Reshaping a window, by reshape() or by assigning the shape.
LEMMA ReshapeWindowKeeps ==
  ASSUME IInv, ~strided, NEW shape \in Seq(Nat), Len(shape) =< MAX_NDIM, Product(shape) = Product(lay.shape),
         Window(lay.ptr, shape, NumpyReshaped(elems, lay.shape, shape))
  PROVE  IInv'
<1> DEFINE w == Contiguous(lay.ptr, shape)
           e == NumpyReshaped(elems, lay.shape, shape)
<1>1. IsLayout(w) /\ w.ptr = lay.ptr /\ w.shape = shape /\ w.strides = CStrides(shape)
  BY InvFacts, ContiguousIsLayout
<1>2. Inside(w, Len(data))  BY SameProductInside
<1>3. e = Elements(data, w)
  <2>1. lay = Contiguous(lay.ptr, lay.shape)  BY DEF IInv, Windows
  <2>2. NumpyReshaped(Elements(data, Contiguous(lay.ptr, lay.shape)), lay.shape, shape) = Elements(data, w)
    BY InvFacts, ReshapedWindow
  <2> QED  BY <2>1, <2>2, InvFacts
<1> HIDE DEF w, e
<1>4. IsCContiguous(w)  BY <1>1 DEF IsCContiguous
<1>5. Window(w.ptr, w.shape, e)  BY <1>1 DEF e
<1> QED  BY <1>1, <1>2, <1>3, <1>4, <1>5, WindowKeeps

\* The refreshed data are the copied elements.
LEMMA InvData ==
  ASSUME IInv
  PROVE  Data = Copied(data, lay)
<1>1. IsLayout(lay) /\ (~strided => lay = Contiguous(lay.ptr, lay.shape))  BY InvFacts DEF IInv, Windows
<1>2. Data = [k \in 1..Product(lay.shape) |-> Cell(data, Address(lay, Unravel(lay.shape, k - 1)))]
  BY <1>1, DataIs
<1> QED  BY <1>2 DEF Copied

\* reshape().
LEMMA ReshapeKeeps ==
  ASSUME IInv, NEW raw \in NewShapes, Reshape(raw)
  PROVE  IInv'
<1>1. PICK shape \in ShapeFor(raw, Product(lay.shape)) :
        LET e == NumpyReshaped(elems, lay.shape, shape) IN
        IF strided THEN OwnArray(Data, shape, e) ELSE Window(lay.ptr, shape, e)
  BY DEF Reshape
<1>2. shape \in Seq(Nat) /\ Len(shape) =< MAX_NDIM /\ Product(shape) = Product(lay.shape)
  <2>1. raw \in Seq(Int)  BY LayoutsAssumption
  <2>2. Product(lay.shape) \in Nat  BY InvFacts, ProductsDef
  <2> QED  BY <2>1, <2>2, ShapeForFits
<1>3. CASE strided
  <2> DEFINE e == NumpyReshaped(elems, lay.shape, shape)
             d == Copied(data, lay)
  <2>1. OwnArray(d, shape, e)  BY <1>1, <1>3, InvData
  <2>2. e = Elements(d, Contiguous(0, shape))  BY <1>2, InvFacts, ReshapedCopy
  <2>3. d \in Seq(Int) /\ Len(d) = Product(shape)  BY <1>2, InvFacts, CopiedTypes
  <2> HIDE DEF e, d
  <2> QED  BY <1>2, <2>1, <2>2, <2>3, OwnArrayKeeps
<1>4. CASE ~strided
  <2>1. Window(lay.ptr, shape, NumpyReshaped(elems, lay.shape, shape))  BY <1>1, <1>4
  <2> QED  BY <1>2, <1>4, <2>1, ReshapeWindowKeeps
<1> QED  BY <1>3, <1>4

\* Assigning the shape.
LEMMA SetShapeKeeps ==
  ASSUME IInv, NEW raw \in NewShapes, SetShape(raw)
  PROVE  IInv'
<1>1. PICK shape \in ShapeFor(raw, Product(lay.shape)) :
        Window(lay.ptr, shape, NumpyReshaped(elems, lay.shape, shape))
  BY DEF SetShape
<1>2. shape \in Seq(Nat) /\ Len(shape) =< MAX_NDIM /\ Product(shape) = Product(lay.shape)
  <2>1. raw \in Seq(Int)  BY LayoutsAssumption
  <2>2. Product(lay.shape) \in Nat  BY InvFacts, ProductsDef
  <2> QED  BY <2>1, <2>2, ShapeForFits
<1>3. ~strided  BY DEF SetShape
<1> QED  BY <1>1, <1>2, <1>3, ReshapeWindowKeeps

\* Taking rows.
LEMMA TakeLeadingKeeps ==
  ASSUME IInv, NEW rows \in Rows, TakeLeading(rows)
  PROVE  IInv'
<1> DEFINE rest == Tail(lay.shape)
           new  == <<Len(rows)>> \o rest
           c    == Copied(data, lay)
           f    == RowsOf(c, Product(rest), rows, lay.shape[1])
           e    == NumpyRows(elems, lay.shape, rows)
<1>1. rows \in Seq(Int)  BY LayoutsAssumption
<1>2. Len(lay.shape) > 0 /\ \A r \in DOMAIN rows : InRange(rows[r], lay.shape[1])  BY DEF TakeLeading, Ndim
<1>3. /\ f \in Seq(Int) /\ Len(f) = Product(new) /\ new \in Seq(Nat) /\ Len(new) = Len(lay.shape)
      /\ NumpyRows(Elements(data, lay), lay.shape, rows) = Elements(f, Contiguous(0, new))
  BY <1>1, <1>2, InvFacts, RowsIs
<1>4. OwnArray(f, new, e)
  <2>1. OwnArray(RowsOf(Data, Product(rest), rows, lay.shape[1]), new, e)  BY DEF TakeLeading, RowsOf
  <2> QED  BY <2>1, InvData
<1>5. e = Elements(f, Contiguous(0, new))  BY <1>3, InvFacts
<1>6. Len(new) =< MAX_NDIM  BY <1>3, InvFacts
<1> HIDE DEF f, new, e
<1> QED  BY <1>3, <1>4, <1>5, <1>6, OwnArrayKeeps

\* Sharing the memory of an array NumPy made.
LEMMA ViewOfNumpyKeeps ==
  ASSUME IInv, NEW l \in Foreign, ViewOfNumpy(l)
  PROVE  IInv'
<1>1. IsLayout(l)
  <2>1. l \in [ptr : Int, shape : Seq(Nat), strides : Seq(Int)] /\ Len(l.shape) = Len(l.strides)
    BY LayoutsAssumption
  <2> QED  BY <2>1 DEF IsLayout
<1>2. Accepts(l) /\ ViewFromLayout(l, NumpyView(data, l))  BY DEF ViewOfNumpy
<1>3. Ndim(l.shape) =< MAX_NDIM /\ Inside(l, Len(data))  BY <1>1, <1>2, InvFacts, AcceptsIffInside
<1>4. NumpyView(data, l) = Elements(data, l)  BY DEF NumpyView, Elements
<1>5. Len(l.shape) =< MAX_NDIM  BY <1>3 DEF Ndim
<1> QED  BY <1>1, <1>2, <1>3, <1>4, <1>5, ViewKeeps

\* The invariant holds initially,
LEMMA InitHolds == Init => IInv
<1> SUFFICES ASSUME Init PROVE IInv  OBVIOUS
<1>1. PICK shape \in Shapes : /\ data = [k \in 1..Product(shape) |-> k - 1]
                              /\ lay = Contiguous(0, shape)
                              /\ strided = FALSE
                              /\ elems = [i \in Indices(shape) |-> Address(lay, i)]
                              /\ ops = 0
  BY DEF Init
<1>2. shape \in Seq(Nat) /\ Len(shape) =< MAX_NDIM /\ MaxOps \in Nat  BY LayoutsAssumption
<1>3. Product(shape) \in Nat  BY <1>2, ProductsDef
<1> DEFINE P == Product(shape)
<1> HIDE DEF P
<1>4. data \in Seq(Int) /\ Len(data) = P /\ P \in Nat
  <2>1. P \in Nat /\ data = [k \in 1..P |-> k - 1]  BY <1>1, <1>3 DEF P
  <2>2. data \in [1..P -> Int]  BY <2>1
  <2>3. DOMAIN data = 1..P  BY <2>1
  <2> QED  BY <2>1, <2>2, <2>3
<1>5. IsLayout(lay) /\ lay.ptr = 0 /\ lay.shape = shape  BY <1>1, <1>2, ContiguousIsLayout
<1>6. Typed
  <2>1. strided \in BOOLEAN  BY <1>1
  <2>2. ops \in 0..MaxOps  BY <1>1, <1>2
  <2> QED  BY <1>2, <1>4, <1>5, <2>1, <2>2 DEF Typed
<1>7. StaysInside
  <2>1. 0 \in Nat /\ Len(data) \in Nat /\ 0 + Product(shape) <= Len(data)  BY <1>4 DEF P
  <2>2. Inside(Contiguous(0, shape), Len(data))  BY <1>2, <2>1, BlockInside
  <2> QED  BY <1>1, <2>2 DEF StaysInside
<1>8. Windows /\ Views  BY <1>1, <1>5 DEF Windows, Views
<1>9. ElementsMatchNumPy
  <2>1. ASSUME NEW i \in Indices(shape)  PROVE Address(lay, i) = Cell(data, Address(lay, i))
    <3>1. Address(lay, i) \in 0..Len(data) - 1  BY <1>5, <1>7 DEF StaysInside, Inside
    <3> DEFINE p == Address(lay, i)
    <3> HIDE DEF p
    <3>2. p \in 0..P - 1  BY <1>4, <3>1 DEF p
    <3>3. Cell(data, p) = data[p + 1]  BY <1>4, <3>2, CellTypes
    <3>4. p + 1 \in 1..P /\ (p + 1) - 1 = p  BY <1>4, <3>2
    <3>5. data[p + 1] = p  BY <1>1, <3>4 DEF P
    <3> QED  BY <3>3, <3>5 DEF p
  <2> QED  BY <1>1, <1>5, <2>1 DEF ElementsMatchNumPy
<1> QED  BY <1>6, <1>7, <1>8, <1>9 DEF IInv

\* and every step keeps it,
LEMMA NextKeeps == IInv /\ [Next]_vars => IInv'
<1> SUFFICES ASSUME IInv, [Next]_vars PROVE IInv'  OBVIOUS
<1>1. CASE \E key \in Keys : IndexResult(key)  BY <1>1, IndexResultKeeps
<1>2. CASE \E key \in Keys : SelectResult(key)  BY <1>2, SelectResultKeeps
<1>3. CASE Transposed  BY <1>3, TransposedKeeps
<1>4. CASE \E raw \in NewShapes : Reshape(raw)  BY <1>4, ReshapeKeeps
<1>5. CASE \E raw \in NewShapes : SetShape(raw)  BY <1>5, SetShapeKeeps
<1>6. CASE \E rows \in Rows : TakeLeading(rows)  BY <1>6, TakeLeadingKeeps
<1>7. CASE \E l \in Foreign : ViewOfNumpy(l)  BY <1>7, ViewOfNumpyKeeps
<1>8. CASE UNCHANGED vars
  BY <1>8 DEF vars, IInv, Typed, StaysInside, Windows, Views, ElementsMatchNumPy
<1> QED  BY <1>1, <1>2, <1>3, <1>4, <1>5, <1>6, <1>7, <1>8 DEF Next

\* so it always holds.
LEMMA Invariance == Spec => []IInv
<1> QED  BY InitHolds, NextKeeps, PTL DEF Spec

-----------------------------------------------------------------------------
(* Strided views and windows.                                              *)

\* The elements are not one block.
Scattered ==
  \E k \in 1..Product(lay.shape) - 1 :
    Address(lay, Unravel(lay.shape, k)) # Address(lay, Unravel(lay.shape, 0)) + k

\* Those of a window are,
LEMMA WindowsInOneBlock ==
  ASSUME IInv, ~strided
  PROVE  ~Scattered
<1> DEFINE P == Product(lay.shape)
           A(k) == Address(lay, Unravel(lay.shape, k))
<1>1. lay = Contiguous(lay.ptr, lay.shape)  BY DEF IInv, Windows
<1>2. \A k \in 0..P - 1 : A(k) = lay.ptr + k
  <2>1. \A k \in 0..P - 1 : Address(Contiguous(lay.ptr, lay.shape), Unravel(lay.shape, k)) = lay.ptr + k
    BY InvFacts, InOrder
  <2> QED  BY <1>1, <2>1
<1>3. P \in Nat /\ lay.ptr \in Int  BY InvFacts, ProductsDef
<1>4. SUFFICES ASSUME NEW k \in 1..P - 1  PROVE A(k) = A(0) + k  BY DEF Scattered
<1> HIDE DEF A, P
<1>5. k \in 0..P - 1 /\ 0 \in 0..P - 1  BY <1>3
<1> QED  BY <1>2, <1>3, <1>5

\* and those of a strided view are not: one step along an axis whose stride is not
\* that of C order leaves it.
LEMMA ViewsScattered ==
  ASSUME IInv, strided
  PROVE  Scattered
<1> DEFINE shape == lay.shape
           s == lay.strides
           c == CStrides(shape)
           P == Product(shape)
<1>1. shape \in Seq(Nat) /\ s \in Seq(Int) /\ Len(s) = Len(shape) /\ lay.ptr \in Int
  BY InvFacts DEF IsLayout
<1>2. P # 0 /\ ~IsCContiguous(lay)  BY DEF IInv, Views
<1>3. PICK a \in DOMAIN shape : shape[a] # 1 /\ s[a] # c[a]  BY <1>2 DEF IsCContiguous
<1>4. a \in 1..Len(shape) /\ a # 0 /\ a \in 0..Len(shape) /\ 0 \in 0..Len(shape)  BY <1>1
<1>5. \A k \in 1..Len(shape) : shape[k] # 0  BY <1>1, <1>2, ProductPositive
<1>6. c \in Seq(Int) /\ Len(c) = Len(shape) /\ c[a] = Weight(shape, a)  BY <1>1, <1>4, Weights
<1>7. Weight(shape, a) \in Nat \ {0}  BY <1>1, <1>2, <1>4, PositiveWeights
<1> DEFINE u == Along(shape, a)
           z == Along(shape, 0)
<1>8. u \in Indices(shape) /\ Dot(u, s) = s[a] /\ Dot(u, c) = c[a]  BY <1>1, <1>3, <1>4, <1>5, <1>6, AlongIs
<1>9. z \in Indices(shape) /\ Dot(z, s) = 0 /\ Dot(z, c) = 0  BY <1>1, <1>4, <1>5, <1>6, AlongIs
<1> HIDE DEF u, z
<1>10. c[a] \in 0..P - 1 /\ Unravel(shape, c[a]) = u  BY <1>1, <1>8, PlaceUnraveled
<1>11. Unravel(shape, 0) = z  BY <1>1, <1>9, PlaceUnraveled
<1>12. s[a] \in Int  BY <1>1, <1>4
<1>13. Address(lay, u) = lay.ptr + s[a] /\ Address(lay, z) = lay.ptr + 0  BY <1>8, <1>9 DEF Address
<1>14. c[a] \in 1..P - 1
  <2>1. P \in Nat  BY <1>1, ProductsDef
  <2> QED  BY <1>6, <1>7, <1>10, <2>1
<1>15. Address(lay, u) # Address(lay, z) + c[a]  BY <1>1, <1>3, <1>12, <1>13, <1>14
<1> QED  BY <1>10, <1>11, <1>14, <1>15 DEF Scattered

-----------------------------------------------------------------------------
(* What follows for every instance. *)

-----------------------------------------------------------------------------
(* What follows for every instance.                                        *)

\* Chains of operations never leave the owner's buffer: whatever slices, new
\* axes, transposes, reshapes and NumPy views led to an array, each of its
\* addresses is one of the buffer's cells.
THEOREM MemorySafe == Spec => []StaysInside
<1>1. IInv => StaysInside  BY DEF IInv
<1> QED  BY <1>1, Invariance, PTL

\* The variables have their types.
THEOREM TypesHold == Spec => []TypeOK
<1>1. IInv => TypeOK
  <2> SUFFICES ASSUME IInv PROVE TypeOK  OBVIOUS
  <2>1. DOMAIN elems \subseteq Seq(Nat)
    <3>1. DOMAIN elems = Indices(lay.shape)  BY InvFacts DEF Elements
    <3>2. \A i \in Indices(lay.shape) : i \in Seq(Nat)  BY InvFacts, IndexTypes
    <3> QED  BY <3>1, <3>2
  <2> QED  BY <2>1 DEF IInv, Typed, IsLayout, TypeOK
<1> QED  BY <1>1, Invariance, PTL

\* The array has the shape and the elements NumPy's definition of the chain
\* gives it: composing pointers and strides composes the index mappings.
THEOREM ElementsAreNumpys == Spec => []ElementsMatchNumPy
<1>1. IInv => ElementsMatchNumPy  BY DEF IInv
<1> QED  BY <1>1, Invariance, PTL

\* The kernels get those elements in C order, through the odometer of
\* walk_strided when the array is a strided view.
THEOREM DataComesInCOrder == Spec => []DataInCOrder
<1>1. IInv => DataInCOrder
  <2> SUFFICES ASSUME IInv PROVE DataInCOrder  OBVIOUS
  <2> DEFINE P == Product(lay.shape)
             U(k) == Unravel(lay.shape, k - 1)
  <2>1. Data = [k \in 1..P |-> Cell(data, Address(lay, U(k)))]  BY InvData DEF Copied
  <2>2. \A k \in 1..P : k - 1 \in 0..P - 1
    <3>1. P \in Nat  BY InvFacts, ProductsDef
    <3> QED  BY <3>1
  <2>3. \A k \in 1..P : U(k) \in Indices(lay.shape)  BY <2>2, InvFacts, UnravelPlace
  <2>4. \A i \in Indices(lay.shape) : elems[i] = Cell(data, Address(lay, i))  BY InvFacts DEF Elements
  <2> HIDE DEF U, P
  <2>5. Data = [k \in 1..P |-> elems[U(k)]]  BY <2>1, <2>3, <2>4
  <2> QED  BY <2>5 DEF DataInCOrder, U, P
<1> QED  BY <1>1, Invariance, PTL

\* An array is a strided view exactly when its elements are not one block:
\* neither plan_view nor is_c_contiguous misses a block, nor sees one where
\* there is none.
THEOREM ViewsOnlyWhereNeeded == Spec => []StridedOnlyIfScattered
<1>1. IInv => StridedOnlyIfScattered
  BY WindowsInOneBlock, ViewsScattered DEF StridedOnlyIfScattered, Scattered
<1> QED  BY <1>1, Invariance, PTL

\* view_of_numpy shares memory with exactly the nonempty arrays that lie in
\* the owner's buffer.
THEOREM SharesWhatLiesInside == Spec => []AcceptsWhatLiesInside
<1>1. IInv => AcceptsWhatLiesInside
  <2> SUFFICES ASSUME IInv, NEW l \in Foreign
               PROVE  Accepts(l) <=> /\ Product(l.shape) # 0 /\ Ndim(l.shape) =< MAX_NDIM
                                     /\ \A i \in Indices(l.shape) : Address(l, i) \in 0..Len(data) - 1
    BY DEF AcceptsWhatLiesInside
  <2>1. IsLayout(l)
    <3>1. l \in [ptr : Int, shape : Seq(Nat), strides : Seq(Int)] /\ Len(l.shape) = Len(l.strides)
      BY LayoutsAssumption
    <3> QED  BY <3>1 DEF IsLayout
  <2>2. Accepts(l) <=> Product(l.shape) # 0 /\ Ndim(l.shape) =< MAX_NDIM /\ Inside(l, Len(data))
    BY <2>1, InvFacts, AcceptsIffInside
  <2> QED  BY <2>2 DEF Inside
<1> QED  BY <1>1, Invariance, PTL

=============================================================================
