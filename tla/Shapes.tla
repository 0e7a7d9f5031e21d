------------------------------- MODULE Shapes -------------------------------
(***************************************************************************)
(* Shapes, multi-indices and C order, and the odometer with which array.rs *)
(* walks over strided elements.  No state: Layouts, Kernels and            *)
(* NestedSequences share it.                                               *)
(***************************************************************************)
EXTENDS Integers, Sequences, SequencesExt

-----------------------------------------------------------------------------
(* Shapes and multi-indices.  Axes count from 1, positions on them from 0. *)

\* The sums of the first 0, 1, ... numbers, and the products of the last.
Sums(s) ==
  LET sum[k \in 0..Len(s)] == IF k = 0 THEN 0 ELSE sum[k - 1] + s[k] IN sum

Products(s) ==
  LET prod[k \in 0..Len(s)] == IF k = 0 THEN 1 ELSE s[Len(s) + 1 - k] * prod[k - 1] IN prod

Total(s)   == Sums(s)[Len(s)]
Product(s) == Products(s)[Len(s)]
Ndim(s)    == Len(s)

\* with_itemsize: C-contiguous strides, from the last axis on.
CStrides(shape) == [k \in DOMAIN shape |-> Products(shape)[Len(shape) - k]]

\* The k-th multi-index in C order, and all multi-indices.
Unravel(shape, k) ==
  [j \in DOMAIN shape |-> (k \div CStrides(shape)[j]) % shape[j]]

Indices(shape) ==
  {i \in [DOMAIN shape -> 0..Max({0} \cup Range(shape))] : \A k \in DOMAIN shape : i[k] < shape[k]}

Dot(i, strides) == Total([k \in DOMAIN strides |-> i[k] * strides[k]])

\* The members of K in 1..n, in order.
Ordered(n, K) ==
  LET upto[k \in 0..n] == IF k = 0 THEN <<>> ELSE IF k \in K THEN Append(upto[k - 1], k) ELSE upto[k - 1]
  IN  upto[n]

-----------------------------------------------------------------------------
(* walk_strided: the offsets refresh and commit visit, one after another.  *)

\* A slip the runs must notice: the axes that start again are not rewound.
TurnNoRewind(shape, strides, at) ==
  LET room == {k \in DOMAIN shape : at.idx[k] + 1 < shape[k]} IN
  IF room = {} THEN at
  ELSE LET a == CHOOSE k \in room : \A j \in room : j =< k IN
       [idx |-> [k \in DOMAIN shape |->
                   IF k < a THEN at.idx[k] ELSE IF k = a THEN at.idx[k] + 1 ELSE 0],
        offset |-> at.offset + strides[a]]

\* One turn of the odometer: the last axis with room advances, and those after
\* it start again.
Turn(shape, strides, at) ==
  LET room == {k \in DOMAIN shape : at.idx[k] + 1 < shape[k]} IN
  IF room = {} THEN at
  ELSE LET a == CHOOSE k \in room : \A j \in room : j =< k IN
       [idx |-> [k \in DOMAIN shape |->
                   IF k < a THEN at.idx[k] ELSE IF k = a THEN at.idx[k] + 1 ELSE 0],
        offset |-> at.offset + strides[a]
                   - Total([k \in DOMAIN shape |->
                              IF k > a THEN strides[k] * (shape[k] - 1) ELSE 0])]

Walk(shape, strides) ==
  LET at[k \in 0..Product(shape)] ==
        IF k = 0 THEN [idx |-> [j \in DOMAIN shape |-> 0], offset |-> 0]
                 ELSE Turn(shape, strides, at[k - 1])
  IN  [k \in 1..Product(shape) |-> at[k - 1].offset]

-----------------------------------------------------------------------------
(* Indices and axes from either end. *)

\* normalize_index, and the axis of a reduction: -len..len-1 counts from either
\* end.
InRange(i, len)   == i \in -len..len - 1
Normalize(i, len) == IF i < 0 THEN i + len ELSE i

=============================================================================
