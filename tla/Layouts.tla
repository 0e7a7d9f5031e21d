------------------------------ MODULE Layouts -------------------------------
(***************************************************************************)
(* Where the elements of an array live.  StridedArrays abstracts an array  *)
(* to the list of cells it addresses; this module is about how array.rs    *)
(* and python.rs come to that list: a pointer, a shape and strides,        *)
(* composed by indexing with integers, slices and None, by transposing,    *)
(* reshaping and taking rows, and by views NumPy made.                     *)
(*                                                                         *)
(* A behaviour is a chain of such operations, each applied to the result   *)
(* of the last.  Beside the layout, `elems` records what NumPy's           *)
(* definition of the operations says the array contains.  Strides and      *)
(* pointers count elements; errors leave everything as it is.              *)
(***************************************************************************)
EXTENDS Shapes, FiniteSets

CONSTANTS
  None,       \* None in an index, and an omitted end of a slice
  Shapes,     \* shapes of the array the chain starts from
  Keys,       \* index tuples: integers, slices and None
  Rows,       \* index lists along the leading axis
  NewShapes,  \* arguments of reshape(), an unknown dimension negative
  Foreign,    \* layouts of the arrays NumPy's functions return
  MAX_NDIM,   \* dimensions handled natively
  MaxOps      \* bound: length of a chain

VARIABLES
  data,     \* the owner's buffer
  lay,      \* where the elements are in it
  strided,  \* is the array a strided view (else its own array or a window)?
  elems,    \* what NumPy says the array contains, by multi-index
  ops       \* operations so far

vars == <<data, lay, strided, elems, ops>>

\* Slices have a step, and shapes no more dimensions than arrays may have.
ASSUME LayoutsAssumption ==
  /\ MAX_NDIM \in Nat /\ MaxOps \in Nat
  /\ \A shape \in Shapes : shape \in Seq(Nat) /\ Len(shape) =< MAX_NDIM
  /\ \A key \in Keys :
       /\ key \in Seq(Range(key))
       /\ \A k \in DOMAIN key :
            \/ key[k] = None
            \/ key[k] \in [kind : {"int"}, i : Int]
            \/ /\ key[k].kind = "slice" /\ key[k].step \in Int \ {0}
               /\ \A x \in {key[k].start, key[k].stop} : x = None \/ x \in Int
  /\ Rows \subseteq Seq(Int) /\ NewShapes \subseteq Seq(Int)
  /\ Foreign \subseteq [ptr : Int, shape : Seq(Nat), strides : Seq(Int)]
  /\ \A l \in Foreign : Len(l.shape) = Len(l.strides)

-----------------------------------------------------------------------------
(* Layouts: a pointer, a shape and strides. *)

Address(l, i)   == l.ptr + Dot(i, l.strides)

Layout(ptr, shape, strides) == [ptr |-> ptr, shape |-> shape, strides |-> strides]
Contiguous(ptr, shape)      == Layout(ptr, shape, CStrides(shape))

\* What is found at address p while the owner's buffer is d.
Outside == -1
Cell(d, p) == IF p \in 0..Len(d) - 1 THEN d[p + 1] ELSE Outside

\* The refreshed data of the array: the cache of a strided view, else the
\* window of the buffer.
Data ==
  IF strided THEN LET w == Walk(lay.shape, lay.strides) IN
                  [k \in DOMAIN w |-> Cell(data, lay.ptr + w[k])]
             ELSE [k \in 1..Product(lay.shape) |-> Cell(data, lay.ptr + k - 1)]

-----------------------------------------------------------------------------
(* Keys. *)

IsInt(item) == item # None /\ item.kind = "int"

\* External: Python's slice.indices(len).
SliceIndices(s, len) ==
  LET low     == IF s.step > 0 THEN 0 ELSE -1
      high    == IF s.step > 0 THEN len ELSE len - 1
      end(x)  == IF x < 0 THEN x + len ELSE x
      clip(x) == IF end(x) < low THEN low ELSE IF end(x) > high THEN high ELSE end(x)
  IN  [start |-> IF s.start # None THEN clip(s.start) ELSE IF s.step > 0 THEN low ELSE high,
       stop  |-> IF s.stop # None THEN clip(s.stop) ELSE IF s.step > 0 THEN high ELSE low,
       step  |-> s.step]

Selectors(key) ==
  LET at == Ordered(Len(key), {p \in DOMAIN key : key[p] # None}) IN [n \in DOMAIN at |-> key[at[n]]]

\* The result positions of None: how many items before it make an axis.
NewAxes(key) ==
  LET at == Ordered(Len(key), {p \in DOMAIN key : key[p] = None}) IN
  [n \in DOMAIN at |-> Cardinality({p \in 1..at[n] - 1 : ~IsInt(key[p])})]

Count(ix) ==
  IF ix.step > 0
  THEN IF ix.stop > ix.start THEN (ix.stop - ix.start - 1) \div ix.step + 1 ELSE 0
  ELSE IF ix.start > ix.stop THEN (ix.start - ix.stop - 1) \div (-ix.step) + 1 ELSE 0

\* selection_plan: start, step and count per axis.
Plan(shape, sels) ==
  [k \in DOMAIN shape |->
     IF k > Len(sels) THEN [start |-> 0, step |-> 1, count |-> shape[k], drop |-> FALSE]
     ELSE IF IsInt(sels[k])
     THEN [start |-> Normalize(sels[k].i, shape[k]), step |-> 1, count |-> 1, drop |-> TRUE]
     ELSE LET ix == SliceIndices(sels[k], shape[k]) IN
          [start |-> ix.start, step |-> ix.step, count |-> Count(ix), drop |-> FALSE]]

\* The key is one the code can plan for.
Plannable(shape, sels) ==
  /\ Len(sels) =< Ndim(shape)
  /\ \A k \in DOMAIN sels : IsInt(sels[k]) => InRange(sels[k].i, shape[k])

Kept(plan)     == Ordered(Len(plan), {k \in DOMAIN plan : ~plan[k].drop})
OutShape(plan) == [n \in DOMAIN Kept(plan) |-> plan[Kept(plan)[n]].count]

\* A slip the runs must notice: the limit is checked before axes are added.
FitsBefore(plan, axes) == Len(OutShape(plan)) =< MAX_NDIM

\* with_itemsize and insert_axis refuse further dimensions.
Fits(plan, axes) == Len(OutShape(plan)) + Len(axes) =< MAX_NDIM

-----------------------------------------------------------------------------
(* Layouts of results. *)

\* locate: integers on the leading axes of a contiguous array.
Locate(l, ints) ==
  Contiguous(l.ptr + Total([k \in DOMAIN ints |->
                              Normalize(ints[k].i, l.shape[k]) * CStrides(l.shape)[k]]),
             SubSeq(l.shape, Len(ints) + 1, Len(l.shape)))

Empty(plan) == \E k \in DOMAIN plan : plan[k].count = 0

\* plan_view: is the selection one block of a contiguous array?  The first
\* axis that keeps several positions starts the block; the axes after it must
\* be whole.
OneBlock(shape, plan) ==
  \A k \in DOMAIN plan :
    IF \E j \in 1..k - 1 : plan[j].count > 1
    THEN plan[k].start = 0 /\ plan[k].step = 1 /\ plan[k].count = shape[k]
    ELSE plan[k].count > 1 => plan[k].step = 1

PlanOffset(shape, plan) ==
  Total([k \in DOMAIN plan |->
           IF \E j \in 1..k - 1 : plan[j].count > 1 THEN 0
                                                    ELSE plan[k].start * CStrides(shape)[k]])

\* Layout::select.
Select(l, plan) ==
  Layout(l.ptr + Total([k \in DOMAIN plan |->
                          IF plan[k].count > 0 THEN plan[k].start * l.strides[k] ELSE 0]),
         OutShape(plan),
         [n \in DOMAIN Kept(plan) |-> plan[Kept(plan)[n]].step * l.strides[Kept(plan)[n]]])

\* insert_axis, for each new axis in turn.
InsertOnes(s, x, axes) ==
  LET made[n \in 0..Len(axes)] ==
        IF n = 0 THEN s
        ELSE InsertAt(made[n - 1],
                      (IF axes[n] < Len(made[n - 1]) THEN axes[n] ELSE Len(made[n - 1])) + 1, x)
  IN  made[Len(axes)]

WithNewAxes(l, axes) ==
  Layout(l.ptr, InsertOnes(l.shape, 1, axes), InsertOnes(l.strides, 0, axes))

Reversed(l) == Layout(l.ptr, Reverse(l.shape), Reverse(l.strides))

\* A slip the runs must notice: axes of length one are asked for their stride.
IsCContiguousStrict(l) == l.strides = CStrides(l.shape)

\* is_c_contiguous: the stride of an axis of length one does not matter.
IsCContiguous(l) ==
  \A k \in DOMAIN l.shape : l.shape[k] # 1 => l.strides[k] = CStrides(l.shape)[k]

-----------------------------------------------------------------------------
(* What NumPy's documentation of the operations says of the elements.      *)

Whole == [kind |-> "slice", start |-> None, stop |-> None, step |-> 1]

ASSUME NoneIsNoSlice == None # Whole

\* The positions a slice selects on an axis of the given length.
Selected(s, len) ==
  LET ix == SliceIndices(s, len) IN
  {p \in 0..len - 1 :
     IF ix.step > 0 THEN ix.start =< p /\ p < ix.stop /\ (p - ix.start) % ix.step = 0
                    ELSE ix.stop < p /\ p =< ix.start /\ (ix.start - p) % (-ix.step) = 0}

\* result[i] = e[j], where i and j are read off the key item by item; axes the
\* key does not name are taken whole.
NumpyIndexed(e, shape, key) ==
  LET full  == key \o [n \in 1..Len(shape) - Len(Selectors(key)) |-> Whole]
      axis  == [p \in DOMAIN full |-> Cardinality({q \in 1..p : full[q] # None})]
      item  == [k \in DOMAIN shape |-> CHOOSE p \in DOMAIN full : full[p] # None /\ axis[p] = k]
      made  == Ordered(Len(full), {p \in DOMAIN full : ~IsInt(full[p])})
      out   == [n \in DOMAIN made |->
                  IF full[made[n]] = None THEN 1
                  ELSE Cardinality(Selected(full[made[n]], shape[axis[made[n]]]))]
      at(i, p) == i[CHOOSE n \in DOMAIN made : made[n] = p]
      from(i, k) == IF IsInt(full[item[k]]) THEN Normalize(full[item[k]].i, shape[k])
                    ELSE LET ix == SliceIndices(full[item[k]], shape[k]) IN
                         ix.start + at(i, item[k]) * ix.step
  IN  [i \in Indices(out) |-> e[[k \in DOMAIN shape |-> from(i, k)]]]

NumpyTransposed(e, shape) == [i \in Indices(Reverse(shape)) |-> e[Reverse(i)]]

\* Reshaping keeps the elements in C order.
NumpyReshaped(e, old, new) ==
  [i \in Indices(new) |-> e[Unravel(old, CHOOSE k \in 0..Product(new) - 1 : Unravel(new, k) = i)]]

NumpyRows(e, shape, rows) ==
  [i \in Indices(<<Len(rows)>> \o Tail(shape)) |->
     e[<<Normalize(rows[i[1] + 1], shape[1])>> \o Tail(i)]]

NumpyView(d, l) == [i \in Indices(l.shape) |-> Cell(d, Address(l, i))]

-----------------------------------------------------------------------------

Init ==
  \E shape \in Shapes :
    /\ data = [k \in 1..Product(shape) |-> k - 1]
    /\ lay = Contiguous(0, shape)
    /\ strided = FALSE
    /\ elems = [i \in Indices(shape) |-> Address(lay, i)]
    /\ ops = 0

\* One more operation has been made.
Counted == ops < MaxOps /\ ops' = ops + 1

\* The operation returned a new array with data of its own,
OwnArray(d, shape, e) ==
  /\ Counted
  /\ data' = d
  /\ lay' = Contiguous(0, shape)
  /\ strided' = FALSE
  /\ elems' = e

\* a window,
Window(ptr, shape, e) ==
  /\ Counted
  /\ lay' = Contiguous(ptr, shape)
  /\ strided' = FALSE
  /\ elems' = e
  /\ UNCHANGED data

\* a strided view,
StridedView(l, e) ==
  /\ Counted
  /\ lay' = l
  /\ strided' = TRUE
  /\ elems' = e
  /\ UNCHANGED data

\* or what view_from_layout makes of the layout l.
ViewFromLayout(l, e) ==
  \/ Product(l.shape) = 0 /\ OwnArray(<<>>, l.shape, e)
  \/ Product(l.shape) # 0 /\ IsCContiguous(l) /\ Window(l.ptr, l.shape, e)
  \/ Product(l.shape) # 0 /\ ~IsCContiguous(l) /\ StridedView(l, e)

\* a[i] and a[i, j] for fewer integers than axes.
IndexResult(key) ==
  /\ \A p \in DOMAIN key : key[p] # None /\ IsInt(key[p])
  /\ Len(key) < Ndim(lay.shape) /\ Plannable(lay.shape, key)
  /\ LET e == NumpyIndexed(elems, lay.shape, key) IN
     IF strided THEN ViewFromLayout(Select(lay, Plan(lay.shape, key)), e)
                ELSE LET l == Locate(lay, key) IN Window(l.ptr, l.shape, e)

\* Any other index of integers, slices and None.
SelectResult(key) ==
  LET sels == Selectors(key)
      plan == Plan(lay.shape, sels)
      axes == NewAxes(key)
      e    == NumpyIndexed(elems, lay.shape, key)
  IN  /\ \E p \in DOMAIN key : ~IsInt(key[p])
      /\ Plannable(lay.shape, sels)
      /\ Fits(plan, axes)
      /\ IF ~strided /\ (Empty(plan) \/ OneBlock(lay.shape, plan))
         THEN LET shape == InsertOnes(OutShape(plan), 1, axes) IN
              IF Empty(plan) THEN OwnArray(<<>>, shape, e)
              ELSE Window(lay.ptr + PlanOffset(lay.shape, plan), shape, e)
         ELSE ViewFromLayout(WithNewAxes(Select(lay, plan), axes), e)

\* a.T
Transposed == ViewFromLayout(Reversed(lay), NumpyTransposed(elems, lay.shape))

\* extract_shape_args: the unknown dimension is what is left; {} on an error.
ShapeFor(raw, size) ==
  LET unknown == {k \in DOMAIN raw : raw[k] < 0}
      known   == Product([k \in DOMAIN raw |-> IF k \in unknown THEN 1 ELSE raw[k]])
      shape   == [k \in DOMAIN raw |-> IF k \in unknown THEN size \div known ELSE raw[k]]
  IN  IF \/ Cardinality(unknown) > 1
         \/ unknown # {} /\ (known = 0 \/ size % known # 0)
         \/ unknown = {} /\ known # size
         \/ Len(raw) > MAX_NDIM
      THEN {} ELSE {shape}

\* A slip the runs must notice: strided views are reshaped like windows.
ReshapeAsWindow(raw) ==
  \E shape \in ShapeFor(raw, Product(lay.shape)) :
    Window(lay.ptr, shape, NumpyReshaped(elems, lay.shape, shape))

\* reshape() and ravel(): a window, or a copy of a strided view.
Reshape(raw) ==
  \E shape \in ShapeFor(raw, Product(lay.shape)) :
    LET e == NumpyReshaped(elems, lay.shape, shape) IN
    IF strided THEN OwnArray(Data, shape, e) ELSE Window(lay.ptr, shape, e)

\* a.shape = ...: strided views refuse.
SetShape(raw) ==
  /\ ~strided
  /\ \E shape \in ShapeFor(raw, Product(lay.shape)) :
       Window(lay.ptr, shape, NumpyReshaped(elems, lay.shape, shape))

\* take_leading: rows of the data, one after the other.
TakeLeading(rows) ==
  /\ Ndim(lay.shape) > 0
  /\ \A r \in DOMAIN rows : InRange(rows[r], lay.shape[1])
  /\ LET rest == Tail(lay.shape)
         row(i) == SubSeq(Data, i * Product(rest) + 1, (i + 1) * Product(rest))
     IN  OwnArray(FlattenSeq([r \in DOMAIN rows |-> row(Normalize(rows[r], lay.shape[1]))]),
                  <<Len(rows)>> \o rest, NumpyRows(elems, lay.shape, rows))

\* A slip the runs must notice: only the far end is checked.
AcceptsForwardOnly(l) ==
  /\ Product(l.shape) # 0 /\ Ndim(l.shape) =< MAX_NDIM
  /\ LET reach == [k \in DOMAIN l.shape |-> (l.shape[k] - 1) * l.strides[k]] IN
     /\ l.ptr >= 0
     /\ l.ptr + Total([k \in DOMAIN reach |-> IF reach[k] < 0 THEN 0 ELSE reach[k]]) < Len(data)

\* view_of_numpy: does the nonempty layout l lie inside the owner's buffer?
Accepts(l) ==
  /\ Product(l.shape) # 0 /\ Ndim(l.shape) =< MAX_NDIM
  /\ LET reach == [k \in DOMAIN l.shape |-> (l.shape[k] - 1) * l.strides[k]] IN
     /\ l.ptr + Total([k \in DOMAIN reach |-> IF reach[k] < 0 THEN reach[k] ELSE 0]) >= 0
     /\ l.ptr + Total([k \in DOMAIN reach |-> IF reach[k] < 0 THEN 0 ELSE reach[k]]) < Len(data)

ViewOfNumpy(l) ==
  /\ Accepts(l)
  /\ ViewFromLayout(l, NumpyView(data, l))

Next ==
  \/ \E key \in Keys : IndexResult(key)
  \/ \E key \in Keys : SelectResult(key)
  \/ Transposed
  \/ \E raw \in NewShapes : Reshape(raw)
  \/ \E raw \in NewShapes : SetShape(raw)
  \/ \E rows \in Rows : TakeLeading(rows)
  \/ \E l \in Foreign : ViewOfNumpy(l)

Spec == Init /\ [][Next]_vars

-----------------------------------------------------------------------------
(* Properties. *)

TypeOK ==
  /\ data \in Seq(Int)
  /\ lay.ptr \in Int
  /\ lay.shape \in Seq(Nat) /\ lay.strides \in Seq(Int)
  /\ Len(lay.shape) = Len(lay.strides) /\ Len(lay.shape) =< MAX_NDIM
  /\ strided \in BOOLEAN
  /\ DOMAIN elems \subseteq Seq(Nat)
  /\ ops \in 0..MaxOps

\* Whatever chain of slices, new axes, transposes, reshapes and NumPy views
\* led to it, the array has the shape and the elements NumPy would give it:
\* composing pointers and strides composes the index mappings, and never leaves
\* the owner's buffer (the SAFETY comments of refresh, commit, view_from_layout).
ElementsMatchNumPy ==
  elems = [i \in Indices(lay.shape) |-> Cell(data, Address(lay, i))]

\* The kernels get those elements in C order: from a window as it lies there,
\* and from a strided view through the odometer of walk_strided.
DataInCOrder ==
  Data = [k \in 1..Product(lay.shape) |-> elems[Unravel(lay.shape, k - 1)]]

\* An array is a strided view exactly when its elements are not one block of
\* memory: plan_view finds blocks on windows, is_c_contiguous on all layouts,
\* and neither may miss one, since views lose reshape-as-view, the shape
\* setter and every kernel's speed.
StridedOnlyIfScattered ==
  strided <=> \E k \in 1..Product(lay.shape) - 1 :
                Address(lay, Unravel(lay.shape, k)) # Address(lay, Unravel(lay.shape, 0)) + k

\* view_of_numpy shares memory with exactly the nonempty arrays all of whose
\* elements lie in the owner's buffer.
AcceptsWhatLiesInside ==
  \A l \in Foreign :
    Accepts(l) <=> /\ Product(l.shape) # 0 /\ Ndim(l.shape) =< MAX_NDIM
                   /\ \A i \in Indices(l.shape) : Address(l, i) \in 0..Len(data) - 1

=============================================================================
