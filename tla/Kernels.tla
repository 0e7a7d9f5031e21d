------------------------------ MODULE Kernels -------------------------------
(***************************************************************************)
(* The array kernels of array.rs: element-wise arithmetic with             *)
(* broadcasting, reductions along an axis, joining, running folds, the     *)
(* indices of the non-zero elements.  They work on the flat data of an     *)
(* array in C order, with blocks, strides and an odometer; NumPy defines   *)
(* the operations by multi-indices.                                        *)
(*                                                                         *)
(* A behaviour is a chain of operations, each applied to the result of the *)
(* last: `arr` as array.rs computes it and `ideal` as NumPy defines it.  A *)
(* refused operation raises, and leaves the caller with the array it had.  *)
(* Values are a few integers and NaN; arithmetic is a function in which    *)
(* the order of the operands counts.                                       *)
(***************************************************************************)
EXTENDS Shapes, FiniteSets

CONSTANTS
  None,      \* a fold without an initial value
  NaN,
  Arrays,    \* arrays the chain starts from, and the other operands
  Axes,      \* axis arguments
  Keys,      \* keys a[key], see Key
  Bounds,    \* start, stop and step of arange
  Half,      \* integers are those from -Half to Half - 1: 2^63
  MAX_NDIM,  \* dimensions handled natively
  Lanes,     \* accumulators of sum()
  MaxOps     \* bound: length of a chain

VARIABLES
  arr,      \* the array: its shape and its data in C order
  ideal,    \* NumPy's array: its shape and its elements by multi-index
  outcome,  \* of the last operation: "ok", "error" or "panic"
  refused,  \* would NumPy have refused it?
  ops       \* operations so far

vars == <<arr, ideal, outcome, refused, ops>>

Array(shape, data) == [shape |-> shape, data |-> data]
Size(a)            == Product(a.shape)

\* Array::new's promise: the data fills the shape, which is a native one.
Value == Int \cup {NaN}
IsArray(a) ==
  /\ a \in [shape : Seq(Nat), data : Seq(Value)]
  /\ Ndim(a.shape) =< MAX_NDIM /\ Len(a.data) = Size(a)

\* A key, see Key and MaskKey.
IsKey(key) ==
  \/ key.kind = "int" /\ key.items \in Seq(Int) /\ Len(key.items) = 1
  \/ key.kind = "ints" /\ key.items \in Seq(Int)
  \/ key.kind = "bools" /\ key.items \in Seq(BOOLEAN)
  \/ /\ key.kind = "mask" /\ key.mask \in [shape : Seq(Nat), data : Seq(BOOLEAN)]
     /\ key.mask.shape # <<>> /\ Len(key.mask.data) = Size(key.mask)

ASSUME KernelsAssumption ==
  /\ NaN \notin Int /\ None \notin Value
  /\ \A a \in Arrays : IsArray(a)
  /\ \A key \in Keys : IsKey(key)
  /\ Axes \subseteq Int /\ Bounds \subseteq Int
  /\ {Half, MAX_NDIM, Lanes} \subseteq Nat \ {0} /\ MaxOps \in Nat

\* What a binary kernel is given for f: "max" is nan_max, "mix" any other.
Operations == {"mix", "max"}
Apply(f, x, y) ==
  IF NaN \in {x, y} THEN NaN
  ELSE IF f = "mix" THEN (2 * x + y) % 3
  ELSE IF x > y THEN x ELSE y

\* A kernel returns a set: its result, or {} if it refuses.
Refuses == {}

-----------------------------------------------------------------------------
(* Broadcasting. *)

Aligned(s, n) == [k \in 1..n |-> IF k > n - Len(s) THEN s[k - (n - Len(s))] ELSE 1]
Longer(a, b)  == IF Len(a) > Len(b) THEN Len(a) ELSE Len(b)

\* broadcast_shape, right-aligned.
BroadcastShape(a, b) ==
  LET n == Longer(a, b)
      x == Aligned(a, n)
      y == Aligned(b, n)
  IN  IF \A k \in 1..n : x[k] = y[k] \/ x[k] = 1 \/ y[k] = 1
      THEN {[k \in 1..n |-> IF x[k] = 1 THEN y[k] ELSE x[k]]}
      ELSE Refuses

\* A slip the runs must notice: strides grow from the first axis on.
BroadcastStridesForward(shape, out) ==
  LET off == Len(out) - Len(shape) IN
  [k \in DOMAIN out |->
     IF k =< off \/ shape[k - off] = 1 THEN 0 ELSE Product(SubSeq(shape, 1, k - off - 1))]

\* broadcast_strides: zero where the axis is broadcast.
BroadcastStrides(shape, out) ==
  LET off == Len(out) - Len(shape) IN
  [k \in DOMAIN out |->
     IF k =< off \/ shape[k - off] = 1 THEN 0 ELSE CStrides(shape)[k - off]]

\* zip_map: one loop for equal shapes, else the odometer.
ZipMap(f, a, b) ==
  IF a.shape = b.shape
  THEN {Array(a.shape, [k \in DOMAIN a.data |-> Apply(f, a.data[k], b.data[k])])}
  ELSE {LET wa == Walk(out, BroadcastStrides(a.shape, out))
            wb == Walk(out, BroadcastStrides(b.shape, out))
        IN  Array(out, [k \in DOMAIN wa |-> Apply(f, a.data[wa[k] + 1], b.data[wb[k] + 1])])
          : out \in BroadcastShape(a.shape, b.shape)}

\* A slip the runs must notice: the target may be broadcast.
ZipMapInplaceAny(f, a, b) == ZipMap(f, a, b)

\* zip_map_inplace: the target keeps its shape.
ZipMapInplace(f, a, b) ==
  {r \in ZipMap(f, a, b) : r.shape = a.shape}

-----------------------------------------------------------------------------
(* Reductions and running folds. *)

Fold(f, init, s) ==
  LET acc[k \in 0..Len(s)] == IF k = 0 THEN init ELSE Apply(f, acc[k - 1], s[k]) IN acc[Len(s)]

\* The same for rows, item by item.
FoldRows(f, init, rows) ==
  LET acc[k \in 0..Len(rows)] ==
        IF k = 0 THEN init ELSE [j \in DOMAIN init |-> Apply(f, acc[k - 1][j], rows[k][j])]
  IN  acc[Len(rows)]

\* fold_axis: a run of the data for each element of the result if nothing
\* comes after the axis, else whole rows at a time.
FoldAxis(f, a, axis, init) ==
  LET ax    == Normalize(axis, Ndim(a.shape)) + 1
      len   == a.shape[ax]
      outer == Product(SubSeq(a.shape, 1, ax - 1))
      inner == Product(SubSeq(a.shape, ax + 1, Ndim(a.shape)))
      part(p, n) == SubSeq(a.data, p + 1, p + n)
      run(o) == LET r == part(o * len, len) IN
                <<IF init # None THEN Fold(f, init, r) ELSE Fold(f, Head(r), Tail(r))>>
      rows(o) == LET r == [j \in 1..len |-> part((o * len + j - 1) * inner, inner)] IN
                 IF init # None THEN FoldRows(f, [k \in 1..inner |-> init], r)
                 ELSE FoldRows(f, Head(r), Tail(r))
  IN  IF ~InRange(axis, Ndim(a.shape)) \/ (init = None /\ len = 0) THEN Refuses
      ELSE {Array(RemoveAt(a.shape, ax),
                  FlattenSeq([o \in 1..outer |-> IF inner = 1 THEN run(o - 1) ELSE rows(o - 1)]))}

\* The length mean() divides by, at (axis + ndim) % ndim with Rust's remainder,
\* which has the sign of the dividend; {} if that index makes it panic.
MeanLength(a, axis) ==
  LET n == Ndim(a.shape)
      m == axis + n
  IN  IF n = 0 \/ (m < 0 /\ (-m) % n # 0) THEN {} ELSE {a.shape[(m % n) + 1]}

\* scan: every prefix of the data folded.
Scan(f, a, init) ==
  Array(<<Size(a)>>, [k \in DOMAIN a.data |-> Fold(f, init, SubSeq(a.data, 1, k))])

Chunks(s)  == Len(s) \div Lanes
Lane(s, i) == Total([c \in 1..Chunks(s) |-> s[(c - 1) * Lanes + i]])

\* sum: Lanes accumulators over whole chunks, then the remainder.
LaneSum(s) ==
  Total([i \in 1..Lanes |-> Lane(s, i)]) + Total(SubSeq(s, Chunks(s) * Lanes + 1, Len(s)))

\* A slip the runs must notice: a tie replaces the best so far.
BeatsOrTies(most, x, y) == IF most THEN x >= y ELSE x =< y

\* The comparisons of argmax and argmin.
Beats(most, x, y) == IF most THEN x > y ELSE x < y

\* arg_extreme over nonempty data: the best so far, and NaN ends the search.
ArgExtreme(s, most) ==
  LET best[k \in 1..Len(s)] ==
        IF k = 1 THEN 0
        ELSE LET b == best[k - 1] IN
             IF s[b + 1] # NaN /\ (s[k] = NaN \/ Beats(most, s[k], s[b + 1])) THEN k - 1 ELSE b
  IN  best[Len(s)]

-----------------------------------------------------------------------------
(* Joining, and the indices of the non-zero elements. *)

\* concatenate: for each outer index, the block of each part.
Concatenate(parts, axis) ==
  LET first == parts[1].shape
      ax    == Normalize(axis, Ndim(first)) + 1
      outer == Product(SubSeq(first, 1, ax - 1))
      inner == Product(SubSeq(first, ax + 1, Ndim(first)))
      block(p, o) == LET n == p.shape[ax] * inner IN SubSeq(p.data, o * n + 1, (o + 1) * n)
  IN  IF \/ ~InRange(axis, Ndim(first))
         \/ \E p \in DOMAIN parts :
              \/ Ndim(parts[p].shape) # Ndim(first)
              \/ \E k \in DOMAIN first : k # ax /\ parts[p].shape[k] # first[k]
      THEN Refuses
      ELSE {Array([first EXCEPT ![ax] = Total([p \in DOMAIN parts |-> parts[p].shape[ax]])],
                  FlattenSeq([o \in 1..outer |->
                    FlattenSeq([p \in DOMAIN parts |-> block(parts[p], o - 1)])]))}

\* A slip the runs must notice: the new axis is not counted.
StackMore(parts, axis) ==
  LET shape == parts[1].shape
      ax    == Normalize(axis, Ndim(shape) + 1) + 1
  IN  IF \/ \E p \in DOMAIN parts : parts[p].shape # shape
         \/ ~InRange(axis, Ndim(shape) + 1)
         \/ Ndim(shape) > MAX_NDIM
      THEN Refuses
      ELSE Concatenate([p \in DOMAIN parts |-> Array(InsertAt(shape, ax, 1), parts[p].data)],
                       ax - 1)

\* stack: a new axis of length one in each part, then concatenate.
Stack(parts, axis) ==
  LET shape == parts[1].shape
      ax    == Normalize(axis, Ndim(shape) + 1) + 1
  IN  IF \/ \E p \in DOMAIN parts : parts[p].shape # shape
         \/ ~InRange(axis, Ndim(shape) + 1)
         \/ Ndim(shape) + 1 > MAX_NDIM
      THEN Refuses
      ELSE Concatenate([p \in DOMAIN parts |-> Array(InsertAt(shape, ax, 1), parts[p].data)],
                       ax - 1)

\* nonzero: positions in the data taken apart again, one result per axis; this
\* is the one for axis ax.
NonZero(a, ax) ==
  LET flat == Ordered(Size(a), {k \in DOMAIN a.data : a.data[k] # 0})
      rem(k) == k \div Product(SubSeq(a.shape, ax + 1, Ndim(a.shape)))
  IN  IF Ndim(a.shape) = 0 THEN Refuses
      ELSE {Array(<<Len(flat)>>, [n \in DOMAIN flat |-> rem(flat[n] - 1) % a.shape[ax]])}

-----------------------------------------------------------------------------
(* Keys, masks and order.                                                  *)

\* A key: one integer, a list of integers (or an int64 array) or of bools, or a
\* bool array `mask`.
Key(kind, items) == [kind |-> kind, items |-> items, mask |-> Array(<<>>, <<FALSE>>)]
MaskKey(m)       == [kind |-> "mask", items |-> <<>>, mask |-> m]

\* The integers in a list; a Python bool is an int.
IntegersOf(key) ==
  IF key.kind = "bools" THEN [k \in DOMAIN key.items |-> IF key.items[k] THEN 1 ELSE 0]
  ELSE key.items

\* take_leading: a row of the data for each index.
TakeLeading(a, idx) ==
  LET row == Product(Tail(a.shape)) IN
  IF a.shape = <<>> \/ (\E k \in DOMAIN idx : ~InRange(idx[k], a.shape[1])) THEN Refuses
  ELSE {Array(<<Len(idx)>> \o Tail(a.shape),
              FlattenSeq([k \in DOMAIN idx |->
                LET i == Normalize(idx[k], a.shape[1]) IN SubSeq(a.data, i * row + 1, (i + 1) * row)]))}

\* compress_flat: the elements under a mask of the array's shape.
CompressFlat(a, mask) ==
  LET kept == Ordered(Size(a), {k \in DOMAIN a.data : mask.data[k]})
  IN  {Array(<<Len(kept)>>, [k \in DOMAIN kept |-> a.data[kept[k]]])}

\* compare with <, for equal shapes; NaN is less than nothing.
Less(x, y) == NaN \notin {x, y} /\ x < y
Compare(a, b) == Array(a.shape, [k \in DOMAIN a.data |-> Less(a.data[k], b.data[k])])

\* select_where.
SelectWhere(mask, a, b) ==
  Array(a.shape, [k \in DOMAIN a.data |-> IF mask.data[k] THEN a.data[k] ELSE b.data[k]])

\* The order of sorted_1d and argsort_1d: NaN last.
Precedes(x, y) == Less(x, y) \/ (x # NaN /\ y = NaN)

\* argsort_1d, stable: before item k of the order come k - 1 items.
ComesBefore(s, i, j) == Precedes(s[i], s[j]) \/ (~Precedes(s[j], s[i]) /\ i < j)
Argsort(s) ==
  LET places == {<<j, Cardinality({i \in DOMAIN s : ComesBefore(s, i, j)})>> : j \in DOMAIN s}
  IN  [k \in DOMAIN s |-> (CHOOSE j \in DOMAIN s : <<j, k - 1>> \in places) - 1]

Sorted(s) == LET order == Argsort(s) IN [k \in DOMAIN s |-> s[order[k] + 1]]

\* sort(descending=True): sorted_1d read backwards.
SortedDescending(s) == Reverse(Sorted(s))

\* A slip the runs must notice: only the result is reversed.
ArgsortDescendingOnce(s) == Reverse(Argsort(s))

\* argsort_descending: the order of the reversed data, reversed and mapped back.
ArgsortDescending(s) ==
  LET order == Reverse(Argsort(Reverse(s))) IN [k \in DOMAIN s |-> Len(s) - 1 - order[k]]

\* Two's complement.
Wrap(i)  == ((i + Half) % (2 * Half)) - Half
Abs(i)   == IF i < 0 THEN -i ELSE i
CeilDiv(n, d) == (n + d - 1) \div d

\* arange of integers: the distance of the bounds, rounded up to whole steps.
Arange(start, stop, step) ==
  LET ahead == (step > 0 /\ stop > start) \/ (step < 0 /\ stop < start)
      n == IF ahead THEN CeilDiv(Abs(Wrap(stop - start)), Abs(step)) ELSE 0
  IN  IF step = 0 THEN Refuses
      ELSE {Array(<<n>>, [k \in 1..n |-> Wrap(start + Wrap((k - 1) * step))])}

-----------------------------------------------------------------------------
(* NumPy's definitions, by multi-indices; {} where NumPy raises.           *)

Ideal(shape, at) == [shape |-> shape, at |-> at]

\* The array whose data in C order is a.data.
Position(shape, i) == Dot(i, CStrides(shape))
IdealOf(a) ==
  Ideal(a.shape, [i \in Indices(a.shape) |-> a.data[Position(a.shape, i) + 1]])

\* Shapes are aligned on the right; along an axis, all lengths but one agree.
Lengths(a, b, k) == {Aligned(a, Longer(a, b))[k], Aligned(b, Longer(a, b))[k]} \ {1}
Together(a, b) ==
  IF \E k \in 1..Longer(a, b) : Cardinality(Lengths(a, b, k)) > 1 THEN {}
  ELSE {[k \in 1..Longer(a, b) |->
           IF Lengths(a, b, k) = {} THEN 1 ELSE CHOOSE n \in Lengths(a, b, k) : TRUE]}

\* The element of x that meets position i of the result.
Meets(x, i) ==
  x.at[[k \in DOMAIN x.shape |->
          IF x.shape[k] = 1 THEN 0 ELSE i[k + Len(i) - Ndim(x.shape)]]]

NumpyZip(f, x, y) ==
  {Ideal(out, [i \in Indices(out) |-> Apply(f, Meets(x, i), Meets(y, i))])
     : out \in Together(x.shape, y.shape)}

NumpyZipInplace(f, x, y) == {r \in NumpyZip(f, x, y) : r.shape = x.shape}

\* The elements along the axis are folded in their order.  NumPy lets axes 0
\* and -1 of a 0-d array pass, and asks for an identity only if the result has
\* an element without one.
NumpyFold(f, x, axis, init) ==
  LET n   == Ndim(x.shape)
      ax  == Normalize(axis, n) + 1
      out == RemoveAt(x.shape, ax)
      line(i) == [j \in 1..x.shape[ax] |-> x.at[InsertAt(i, ax, j - 1)]]
      folded(s) == IF init # None THEN Fold(f, init, s) ELSE Fold(f, Head(s), Tail(s))
  IN  IF n = 0 THEN IF axis \in {0, -1} THEN {x} ELSE {}
      ELSE IF ~InRange(axis, n) \/ (init = None /\ x.shape[ax] = 0 /\ Product(out) # 0) THEN {}
      ELSE {Ideal(out, [i \in Indices(out) |-> folded(line(i))])}

\* The mean, with an Apply for the division.
NumpyMean(x, axis) ==
  {Ideal(r.shape, [i \in DOMAIN r.at |->
     Apply("mix", r.at[i], IF Ndim(x.shape) = 0 THEN 1
                           ELSE x.shape[Normalize(axis, Ndim(x.shape)) + 1])])
     : r \in NumpyFold("mix", x, axis, 0)}

\* The parts lie one after the other along the axis.
NumpyConcatenate(xs, axis) ==
  LET first == xs[1].shape
      ax    == Normalize(axis, Ndim(first)) + 1
      before(p) == Total([q \in 1..p - 1 |-> xs[q].shape[ax]])
      part(j) == CHOOSE p \in DOMAIN xs : before(p) =< j /\ j < before(p) + xs[p].shape[ax]
      out   == [first EXCEPT ![ax] = before(Len(xs) + 1)]
  IN  IF \/ ~InRange(axis, Ndim(first))
         \/ \E p \in DOMAIN xs : \/ Ndim(xs[p].shape) # Ndim(first)
                               \/ [xs[p].shape EXCEPT ![ax] = 0] # [first EXCEPT ![ax] = 0]
      THEN {}
      ELSE {Ideal(out, [i \in Indices(out) |->
              xs[part(i[ax])].at[[i EXCEPT ![ax] = i[ax] - before(part(i[ax]))]]])}

\* result[..., p, ...] is the p-th part.
NumpyStack(xs, axis) ==
  LET n   == Ndim(xs[1].shape) + 1
      ax  == Normalize(axis, n) + 1
      out == InsertAt(xs[1].shape, ax, Len(xs))
  IN  IF ~InRange(axis, n) \/ \E p \in DOMAIN xs : xs[p].shape # xs[1].shape THEN {}
      ELSE {Ideal(out, [i \in Indices(out) |-> xs[i[ax] + 1].at[RemoveAt(i, ax)]])}

\* The elements in C order.
Flat(x) == [k \in 1..Product(x.shape) |-> x.at[Unravel(x.shape, k - 1)]]

NumpyScan(f, x, init) ==
  Ideal(<<Product(x.shape)>>,
        [i \in Indices(<<Product(x.shape)>>) |-> Fold(f, init, SubSeq(Flat(x), 1, i[1] + 1))])

\* Those of a set of multi-indices, in C order.
InCOrder(shape, S) ==
  LET at == Ordered(Product(shape), {k \in 1..Product(shape) : Unravel(shape, k - 1) \in S})
  IN  [n \in DOMAIN at |-> Unravel(shape, at[n] - 1)]

\* Coordinate ax of the non-zero elements, those in C order.
NumpyNonZero(x, ax) ==
  LET found == InCOrder(x.shape, {i \in Indices(x.shape) : x.at[i] # 0})
  IN  IF Ndim(x.shape) = 0 THEN {}
      ELSE {Ideal(<<Len(found)>>, [i \in Indices(<<Len(found)>>) |-> found[i[1] + 1][ax]])}

\* The leading axes a key consumes, and the positions on them it names, in order.
NamedAxes(key) == IF key.kind = "mask" THEN Ndim(key.mask.shape) ELSE 1
Named(shape, key) ==
  LET under(m) == InCOrder(m.shape, {i \in Indices(m.shape) : m.data[Position(m.shape, i) + 1]})
  IN  CASE key.kind = "mask"  -> under(key.mask)
        [] key.kind = "bools" -> under(Array(<<Len(key.items)>>, key.items))
        [] OTHER -> [k \in DOMAIN key.items |-> <<Normalize(key.items[k], shape[1])>>]

\* Does the key fit?  A list of bools is a mask.
KeyFits(shape, key) ==
  CASE key.kind = "mask"  -> IsPrefix(key.mask.shape, shape)
    [] key.kind = "bools" -> shape # <<>> /\ Len(key.items) = shape[1]
    [] OTHER -> shape # <<>> /\ \A k \in DOMAIN key.items : InRange(key.items[k], shape[1])

\* x[key]: the named parts one after the other, one integer has no axis of its own.
NumpyGet(x, key) ==
  LET named == Named(x.shape, key)
      rest  == SubSeq(x.shape, NamedAxes(key) + 1, Ndim(x.shape))
      out   == IF key.kind = "int" THEN rest ELSE <<Len(named)>> \o rest
  IN  IF ~KeyFits(x.shape, key) THEN {}
      ELSE {Ideal(out, [i \in Indices(out) |->
              IF key.kind = "int" THEN x.at[named[1] \o i] ELSE x.at[named[i[1] + 1] \o Tail(i)]])}

\* x[key] = v
NumpySet(x, key, v) ==
  LET named == ToSet(Named(x.shape, key))
  IN  IF ~KeyFits(x.shape, key) THEN {}
      ELSE {[x EXCEPT !.at = [i \in DOMAIN x.at |->
              IF SubSeq(i, 1, NamedAxes(key)) \in named THEN v ELSE x.at[i]]]}

\* where(x < y, x, y), and x[x < y]
NumpyWhere(x, y) ==
  {Ideal(out, [i \in Indices(out) |-> IF Less(Meets(x, i), Meets(y, i)) THEN Meets(x, i) ELSE Meets(y, i)])
     : out \in Together(x.shape, y.shape)}

NumpyFilter(x, y) ==
  LET mask == Array(x.shape, [k \in 1..Product(x.shape) |-> Less(Flat(x)[k], Flat(y)[k])])
  IN  IF x.shape # y.shape THEN {} ELSE NumpyGet(x, MaskKey(mask))

NumpyArange(start, stop, step) ==
  LET from(k) == start + (k - 1) * step
      inside(k) == IF step > 0 THEN from(k) < stop ELSE from(k) > stop
      n == Cardinality({k \in 1..2 * Half : inside(k)})
  IN  IF step = 0 THEN {} ELSE {Ideal(<<n>>, [i \in Indices(<<n>>) |-> from(i[1] + 1)])}

\* What NumPy makes for lightarray.
FromNumpy(xs) == {Array(x.shape, Flat(x)) : x \in xs}

-----------------------------------------------------------------------------

Init ==
  /\ arr \in Arrays
  /\ ideal = IdealOf(arr)
  /\ outcome = "ok"
  /\ refused = FALSE
  /\ ops = 0

\* An operation of which the code makes `results` and NumPy `expected`.  The
\* caller goes on with the result, or with the array it had.
Made(results, expected) ==
  /\ ops < MaxOps /\ ops' = ops + 1
  /\ refused' = (expected = {})
  /\ IF results = {}
     THEN outcome' = "error" /\ UNCHANGED <<arr, ideal>>
     ELSE /\ outcome' = "ok"
          /\ arr' \in results
          /\ IF expected = {} THEN UNCHANGED ideal ELSE ideal' \in expected

\* a + b, np.maximum(a, b), ...
Binary(f, b) == Made(ZipMap(f, arr, b), NumpyZip(f, ideal, IdealOf(b)))

\* a += b, ...
Inplace(f, b) == Made(ZipMapInplace(f, arr, b), NumpyZipInplace(f, ideal, IdealOf(b)))

\* a.sum(axis), a.prod(axis), a.max(axis), a.min(axis)
Reduce(f, axis, init) == Made(FoldAxis(f, arr, axis, init), NumpyFold(f, ideal, axis, init))

\* a.mean(axis): the length of the axis is looked up before fold_axis checks it.
Mean(axis) ==
  LET divided(n) == {Array(r.shape, [k \in DOMAIN r.data |-> Apply("mix", r.data[k], n)])
                       : r \in FoldAxis("mix", arr, axis, 0)}
  IN  IF MeanLength(arr, axis) = {}
      THEN /\ ops < MaxOps /\ ops' = ops + 1
           /\ outcome' = "panic"
           /\ refused' = (NumpyMean(ideal, axis) = {})
           /\ UNCHANGED <<arr, ideal>>
      ELSE Made(UNION {divided(n) : n \in MeanLength(arr, axis)}, NumpyMean(ideal, axis))

\* a.cumsum(), a.cumprod()
Running(f, init) == Made({Scan(f, arr, init)}, {NumpyScan(f, ideal, init)})

\* concatenate([b, a, b], axis) and stack([b, a], axis)
Join(b, axis) ==
  Made(Concatenate(<<b, arr, b>>, axis),
       NumpyConcatenate(<<IdealOf(b), ideal, IdealOf(b)>>, axis))
Pile(b, axis) ==
  Made(Stack(<<b, arr>>, axis), NumpyStack(<<IdealOf(b), ideal>>, axis))

\* a.nonzero()[ax - 1]
Where(ax) ==
  /\ ax \in DOMAIN arr.shape \cup {1}
  /\ Made(NonZero(arr, ax), NumpyNonZero(ideal, ax))

\* a[key].  One integer of 1-d arrays is an element, of others a part.
GetItem(key) ==
  Made(CASE key.kind = "int" ->
              {[r EXCEPT !.shape = Tail(r.shape)] : r \in TakeLeading(arr, key.items)}
         [] key.kind \in {"ints", "bools"} -> TakeLeading(arr, IntegersOf(key))
         [] key.kind = "mask" ->
              IF key.mask.shape = arr.shape THEN CompressFlat(arr, key.mask)
              ELSE FromNumpy(NumpyGet(IdealOf(arr), key)),
       NumpyGet(ideal, key))

\* a[key] = v: elements of 1-d arrays natively, the rest on NumPy's view.
SetItem(key, v) ==
  Made(IF key.kind = "int" /\ Ndim(arr.shape) = 1
       THEN {[arr EXCEPT !.data[Normalize(i, arr.shape[1]) + 1] = v] :
               i \in {j \in ToSet(key.items) : InRange(j, arr.shape[1])}}
       ELSE FromNumpy(NumpySet(IdealOf(arr), key, v)),
       NumpySet(ideal, key, v))

\* a[a < b], and where(a < b, a, b).  Other than equal shapes are NumPy's.
Filter(b) ==
  Made(IF arr.shape = b.shape THEN CompressFlat(arr, Compare(arr, b))
       ELSE FromNumpy(NumpyFilter(IdealOf(arr), IdealOf(b))),
       NumpyFilter(ideal, IdealOf(b)))

Choose(b) ==
  Made(IF arr.shape = b.shape THEN {SelectWhere(Compare(arr, b), arr, b)}
       ELSE FromNumpy(NumpyWhere(IdealOf(arr), IdealOf(b))),
       NumpyWhere(ideal, IdealOf(b)))

\* arange(start, stop, step)
Create(start, stop, step) == Made(Arange(start, stop, step), NumpyArange(start, stop, step))

Next ==
  \/ \E key \in Keys : GetItem(key)
  \/ \E key \in Keys : SetItem(key, 1)
  \/ \E b \in Arrays : Filter(b)
  \/ \E b \in Arrays : Choose(b)
  \/ \E start, stop, step \in Bounds : Create(start, stop, step)
  \/ \E f \in Operations, b \in Arrays : Binary(f, b)
  \/ \E f \in Operations, b \in Arrays : Inplace(f, b)
  \/ \E axis \in Axes : Reduce("mix", axis, 0)
  \/ \E axis \in Axes : Reduce("max", axis, None)
  \/ \E axis \in Axes : Mean(axis)
  \/ Running("mix", 1)
  \/ \E b \in Arrays, axis \in Axes : Join(b, axis)
  \/ \E b \in Arrays, axis \in Axes : Pile(b, axis)
  \/ \E ax \in 1..MAX_NDIM : Where(ax)

Spec == Init /\ [][Next]_vars

-----------------------------------------------------------------------------
(* Properties. *)

\* Array::new's promise holds for the result of every chain of kernels.
TypeOK ==
  /\ IsArray(arr)
  /\ outcome \in {"ok", "error", "panic"}
  /\ refused \in BOOLEAN
  /\ ops \in 0..MaxOps

\* test_numpy_parity.py, l.1: every operation agrees with NumPy.  The result
\* of a chain of kernels has NumPy's shape and, at every multi-index, NumPy's
\* element: the odometer, the two loops of fold_axis and the blocks of
\* concatenate read the data in the order the definitions name.
ResultsMatchNumPy == ideal = IdealOf(arr)

\* What NumPy refuses (shapes that do not broadcast, a target of another
\* shape, an axis out of range, an empty axis without an identity, parts that
\* do not fit) never goes through.  Nothing else is refused, except for what
\* the README lists of 0-d arrays, arrays without elements and results of more
\* than MAX_NDIM dimensions.  A panic is a refusal here.
RefusesWithNumPy ==
  /\ refused => outcome # "ok"
  /\ outcome # "ok" /\ Size(arr) > 0 /\ Ndim(arr.shape) \in 1..MAX_NDIM - 1 => refused

\* sum() adds every element once, whatever lane or remainder it falls in;
\* argmax() and argmin() find the first NaN, else the first extreme.
WholeArrayReductions ==
  LET nans == {k \in DOMAIN arr.data : arr.data[k] = NaN}
      First(S) == CHOOSE k \in S : \A j \in S : k =< j
      Extreme(most) == First({k \in DOMAIN arr.data : \A j \in DOMAIN arr.data :
                                IF most THEN arr.data[j] =< arr.data[k]
                                        ELSE arr.data[j] >= arr.data[k]})
  IN  /\ nans = {} => LaneSum(arr.data) = Total(arr.data)
      /\ Size(arr) > 0 =>
           \A most \in BOOLEAN :
             ArgExtreme(arr.data, most) + 1 = IF nans # {} THEN First(nans) ELSE Extreme(most)

\* argsort(descending=True) is a permutation that leaves ties in their order,
\* with sort(descending=True) the values in it: the two reversals cancel.
DescendingIsStable ==
  LET s     == arr.data
      order == ArgsortDescending(s)
  IN  /\ ToSet(order) = {k - 1 : k \in DOMAIN s}
      /\ [k \in DOMAIN s |-> s[order[k] + 1]] = SortedDescending(s)
      /\ \A j, k \in DOMAIN s :
           j < k /\ s[order[j] + 1] = s[order[k] + 1] => order[j] < order[k]

=============================================================================
