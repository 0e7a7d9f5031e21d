--------------------------- MODULE StridedArrays ----------------------------
(***************************************************************************)
(* The arrays of lightarray as python.rs and array.rs implement them.      *)
(*                                                                         *)
(* The kernels only know contiguous buffers, so an array is one of         *)
(*   - owned:   its storage is its own allocation;                         *)
(*   - window:  its storage is a contiguous stretch of the buffer of the   *)
(*              array `base`;                                              *)
(*   - strided: its elements are scattered over the buffer of `base`, and  *)
(*              its storage is a private cache.  arr() gathers the cache   *)
(*              from the base before every native access (refresh) and     *)
(*              commit() scatters it back after every native write.        *)
(* All operations hold the GIL, so they interleave only where they run     *)
(* Python code: an operand that is not an array is asked for its value     *)
(* (__float__, __index__, ...), and that code may use any array.  One such *)
(* call is in progress at a time: a deeper nesting adds no new accesses.   *)
(***************************************************************************)
EXTENDS ArrayData

VARIABLES
  buf,    \* buf[a]: the allocation of a (owned data or cache), <<>> for a window
  obj,    \* obj[a]: how a stores its elements
  call,   \* the operation in progress; `seen` is a history variable
  out     \* the data the last operation returned or wrote, <<>> if none

vars == <<buf, obj, call, out>>

Kinds == {"free", "owned", "window", "strided"}

NoObject == [kind |-> "free", base |-> None, cells |-> <<>>]
NoCall   == [who |-> None, early |-> FALSE, seen |-> {}]

-----------------------------------------------------------------------------
(* Representation. *)

Live(a)    == obj[a].kind # "free"
Strided(a) == obj[a].kind = "strided"
Size(a)    == Len(obj[a].cells)

\* The array owning the memory of a: never a view itself.
BaseOf(a) == obj[a].base

\* The elements of a where they really live, in the buffers b.
Elements(b, a) == Gather(b[BaseOf(a)], obj[a].cells)

\* The contiguous data a kernel works on.
Data(b, a) == IF Strided(a) THEN b[a] ELSE Elements(b, a)

SetData(b, a, w) ==
  IF Strided(a) THEN [b EXCEPT ![a] = w]
                ELSE [b EXCEPT ![BaseOf(a)] = Scatter(@, obj[a].cells, w)]

\* arr() and arr_mut(): reload the cache of a strided view.
Refresh(b, a) == IF Strided(a) THEN [b EXCEPT ![a] = Elements(b, a)] ELSE b

\* Write the cache of a strided view back to its base.
Commit(b, a) ==
  IF Strided(a) THEN [b EXCEPT ![BaseOf(a)] = Scatter(@, obj[a].cells, b[a])]
                ELSE b

\* A slip the runs must notice: the kernel's caller forgets to commit.
WrittenNoCommit(b, a, w) == SetData(b, a, w)

\* The buffers after a native kernel has replaced the data of a by w.
Written(b, a, w) == Commit(SetData(b, a, w), a)

\* The call in progress has now seen its array's elements in buffers b too.
Seeing(b) ==
  IF call.who = None THEN call
                     ELSE [call EXCEPT !.seen = @ \cup {Elements(b, call.who)}]

\* The allocation the data of a lies in, and the stretch of it.
Store(a) == IF Strided(a) THEN a ELSE BaseOf(a)
Lo(a)    == IF Strided(a) THEN 1 ELSE obj[a].cells[1]
Hi(a)    == IF Strided(a) THEN Size(a) ELSE obj[a].cells[Size(a)]

\* The test on address ranges that in-place operators make.
Overlaps(a, b) ==
  /\ Size(a) # 0 /\ Size(b) # 0
  /\ Store(a) = Store(b)
  /\ Lo(a) =< Hi(b) /\ Lo(b) =< Hi(a)

\* What it stands for: the data of a and b have a cell in common.
Aliased(a, b) ==
  /\ Store(a) = Store(b)
  /\ \/ Strided(a) /\ Size(a) # 0
     \/ \E i \in 1..Size(a), j \in 1..Size(b) : obj[a].cells[i] = obj[b].cells[j]

Init ==
  /\ buf = [a \in Arr |-> <<>>]
  /\ obj = [a \in Arr |-> NoObject]
  /\ call = NoCall
  /\ out = <<>>

-----------------------------------------------------------------------------
(* Building blocks. *)

\* The new array v, with storage w and the given representation.
NewObject(v, w, kind, base, cells) ==
  /\ ~Live(v)
  /\ buf' = [buf EXCEPT ![v] = w]
  /\ obj' = [obj EXCEPT ![v] = [kind |-> kind, base |-> base, cells |-> cells]]
  /\ out' = <<>>
  /\ UNCHANGED call

Owned(v, w) == NewObject(v, w, "owned", v, Identity(Len(w)))

\* A refreshed array a hands over a copy w of (part of) its data to v.
CopyInto(v, a, w) ==
  /\ ~Live(v) /\ v # a
  /\ buf' = [Refresh(buf, a) EXCEPT ![v] = w]
  /\ obj' = [obj EXCEPT ![v] = [kind |-> "owned", base |-> v, cells |-> Identity(Len(w))]]
  /\ out' = <<>>
  /\ UNCHANGED call

\* Slips the runs must notice: a view that names the view it was taken from as
\* its base, and a cache that is allocated but not filled.
ViewOfView(v, a, cells) ==
  IF cells = <<>> THEN Owned(v, <<>>)
  ELSE NewObject(v, IF Consecutive(cells) THEN <<>> ELSE Constantly(Zero, Len(cells)),
                 IF Consecutive(cells) THEN "window" ELSE "strided", a, cells)

ViewUninitialised(v, a, cells) ==
  IF cells = <<>> THEN Owned(v, <<>>)
  ELSE NewObject(v, IF Consecutive(cells) THEN <<>> ELSE Constantly(None, Len(cells)),
                 IF Consecutive(cells) THEN "window" ELSE "strided", BaseOf(a), cells)

\* The array at `cells` of the memory a lives in: an own empty array, a
\* window when the cells are consecutive, a strided view otherwise.
ViewFromLayout(v, a, cells) ==
  IF cells = <<>> THEN Owned(v, <<>>)
  ELSE IF Consecutive(cells) THEN NewObject(v, <<>>, "window", BaseOf(a), cells)
  ELSE NewObject(v, Constantly(Zero, Len(cells)), "strided", BaseOf(a), cells)

\* The buffers become b and the operation has returned or written w.
Update(b, w) ==
  /\ buf' = b
  /\ out' = w
  /\ call' = Seeing(b)
  /\ UNCHANGED obj

-----------------------------------------------------------------------------
(* Operations creating arrays. *)

\* array(), zeros(), ndarray(): a fresh buffer.
Create(v, w) == Owned(v, w)

\* a[sel] by integers and slices, and a.T.
Index(v, a, sel) ==
  /\ Live(a) /\ Selects(sel, Size(a))
  /\ ViewFromLayout(v, a, Pick(obj[a].cells, sel))

\* A NumPy function returned a nonempty view of the owner's memory (swapaxes,
\* split, ...): its cells are checked against the owner's buffer.
ViewOfNumpy(v, a, sel) ==
  /\ Live(a) /\ sel # <<>> /\ Selects(sel, Len(buf[BaseOf(a)]))
  /\ ViewFromLayout(v, BaseOf(a), sel)

\* A slip the runs must notice: strided views are reshaped like windows.
ReshapeInPlace(v, a) ==
  /\ Live(a)
  /\ NewObject(v, <<>>, "window", BaseOf(a), obj[a].cells)

\* reshape() to plain lengths and ravel(): a copy for a strided view, the whole
\* window otherwise.
Reshape(v, a) ==
  /\ Live(a)
  /\ IF Strided(a) THEN CopyInto(v, a, Data(Refresh(buf, a), a))
                   ELSE NewObject(v, <<>>, "window", BaseOf(a), obj[a].cells)

\* copy(), flatten(), copy.copy(), copy.deepcopy().
CopyArray(v, a) ==
  /\ Live(a)
  /\ CopyInto(v, a, Data(Refresh(buf, a), a))

\* a[[i, j]] and a[mask].
Take(v, a, sel) ==
  /\ Live(a) /\ Selects(sel, Size(a))
  /\ CopyInto(v, a, Pick(Data(Refresh(buf, a), a), sel))

-----------------------------------------------------------------------------
(* Operations reading and writing elements. *)

\* Any native kernel over the whole array (reductions, ufuncs, item()).
ReadArray(a) ==
  /\ Live(a)
  /\ Update(Refresh(buf, a), Data(Refresh(buf, a), a))

\* a[i]: straight from the base for a strided view, without a refresh.
GetItem(a, i) ==
  /\ Live(a) /\ i \in 1..Size(a)
  /\ Update(buf, IF Strided(a) THEN <<buf[BaseOf(a)][obj[a].cells[i]]>>
                               ELSE <<Data(buf, a)[i]>>)

\* NumPy reads the exported buffer: the base's memory, not the cache.
NumpyRead(a) ==
  /\ Live(a)
  /\ Update(buf, Elements(buf, a))

\* a[i] = x: straight into the base for a strided view.
SetItem(a, i, x) ==
  /\ Live(a) /\ i \in 1..Size(a)
  /\ Update(IF Strided(a)
            THEN [buf EXCEPT ![BaseOf(a)][obj[a].cells[i]] = x]
            ELSE SetData(buf, a, [Data(buf, a) EXCEPT ![i] = x]), <<x>>)

\* NumPy writes through the exported buffer: slice and mask assignment, out=,
\* in-place methods, and views the caller holds.
NumpyWrite(a, i, x) ==
  /\ Live(a) /\ i \in 1..Size(a)
  /\ Update([buf EXCEPT ![BaseOf(a)][obj[a].cells[i]] = x], <<x>>)

Fill(a, x) ==
  /\ Live(a)
  /\ LET w == Constantly(x, Size(a)) IN
     Update(Written(Refresh(buf, a), a, w), w)

InplaceScalar(a, x) ==
  /\ Live(a)
  /\ LET b == Refresh(buf, a)
         w == ZipScalar(Data(b, a), x) IN
     Update(Written(b, a, w), w)

\* What the loop over equal sizes reads of operand b while it writes a: b's
\* data, or a copy of it when the address ranges overlap.  Reading through
\* one reference what is written through another would be undefined, hence
\* anything.
OperandReads(s, a, b) ==
  IF Overlaps(a, b) \/ ~Aliased(a, b) \/ Size(a) # Size(b)
  THEN {Data(s, b)}
  ELSE [1..Size(b) -> Val]

\* a OP= b refreshes b, then a, and commits a.
InplaceArray(a, b) ==
  /\ Live(a) /\ Live(b) /\ Broadcasts(Size(b), Size(a))
  /\ LET s == Refresh(Refresh(buf, b), a) IN
     \E r \in OperandReads(s, a, b) :
       LET w == Zip(Data(s, a), Stretch(r, Size(a))) IN
       Update(Written(s, a, w), w)

\* Shapes that do not broadcast: an error before anything is written.
InplaceFails(a, b) ==
  /\ Live(a) /\ Live(b) /\ ~Broadcasts(Size(b), Size(a))
  /\ Update(Refresh(Refresh(buf, b), a), <<>>)

-----------------------------------------------------------------------------
(* Operations that run Python code in the middle. *)

\* A slip the runs must notice: the first operand is not refreshed at all.
BeginUnrefreshed(a) ==
  /\ Live(a) /\ call = NoCall
  /\ call' = [who |-> a, early |-> TRUE, seen |-> {Elements(buf, a)}]
  /\ out' = <<>>
  /\ UNCHANGED <<buf, obj>>

\* Comparisons, bitwise operators, maximum() and the like refresh their first
\* operand, then ask the second one for its value; reshape() refreshes, then
\* asks the lengths it is given for theirs.
BeginEarly(a) ==
  /\ Live(a) /\ call = NoCall
  /\ buf' = Refresh(buf, a)
  /\ call' = [who |-> a, early |-> TRUE, seen |-> {Elements(buf, a)}]
  /\ out' = <<>>
  /\ UNCHANGED obj

\* Arithmetic operators ask the second operand first.
BeginLate(a) ==
  /\ Live(a) /\ call = NoCall
  /\ call' = [who |-> a, early |-> FALSE, seen |-> {Elements(buf, a)}]
  /\ out' = <<>>
  /\ UNCHANGED <<buf, obj>>

\* A slip the runs must notice: the second operand is asked after the refresh.
ReturnStale(x) ==
  /\ call # NoCall
  /\ out' = ZipScalar(Data(buf, call.who), x)
  /\ call' = NoCall
  /\ UNCHANGED <<buf, obj>>

\* The value was x: compute the result.
Return(x) ==
  /\ call # NoCall
  /\ LET b == IF call.early THEN buf ELSE Refresh(buf, call.who) IN
     /\ buf' = b
     /\ out' = ZipScalar(Data(b, call.who), x)
  /\ call' = NoCall
  /\ UNCHANGED obj

\* The lengths are known: reshape() shares the memory of what is no strided
\* view, and copies the cache of a strided view as it is now.
ReturnReshaped(v) ==
  LET a == call.who IN
  /\ call # NoCall /\ call.early /\ ~Live(v)
  /\ IF Strided(a)
     THEN /\ buf' = [buf EXCEPT ![v] = buf[a]]
          /\ obj' = [obj EXCEPT ![v] = [kind |-> "owned", base |-> v,
                                       cells |-> Identity(Len(buf[a]))]]
     ELSE /\ obj' = [obj EXCEPT ![v] = [kind |-> "window", base |-> BaseOf(a),
                                       cells |-> obj[a].cells]]
          /\ UNCHANGED buf
  /\ call' = NoCall
  /\ out' = <<>>

\* The value could not be had: NotImplemented or an exception.
Abandon ==
  /\ call # NoCall
  /\ call' = NoCall
  /\ out' = <<>>
  /\ UNCHANGED <<buf, obj>>

-----------------------------------------------------------------------------

\* The operations that run no Python code, and those that do.
AtomicNext ==
  \/ \E v \in Arr, w \in Contents : Create(v, w)
  \/ \E v, a \in Arr : Reshape(v, a)
  \/ \E v, a \in Arr : CopyArray(v, a)
  \/ \E v, a \in Arr, sel \in Selections : Index(v, a, sel)
  \/ \E v, a \in Arr, sel \in Selections : ViewOfNumpy(v, a, sel)
  \/ \E v, a \in Arr, sel \in Selections : Take(v, a, sel)
  \/ \E a \in Arr : ReadArray(a)
  \/ \E a \in Arr : NumpyRead(a)
  \/ \E a \in Arr : \E i \in 1..Size(a) : GetItem(a, i)
  \/ \E a \in Arr, x \in Val : \E i \in 1..Size(a) : SetItem(a, i, x)
  \/ \E a \in Arr, x \in Val : \E i \in 1..Size(a) : NumpyWrite(a, i, x)
  \/ \E a \in Arr, x \in Val : Fill(a, x)
  \/ \E a \in Arr, x \in Val : InplaceScalar(a, x)
  \/ \E a, b \in Arr : InplaceArray(a, b)
  \/ \E a, b \in Arr : InplaceFails(a, b)

CallNext ==
  \/ \E a \in Arr : BeginEarly(a)
  \/ \E a \in Arr : BeginLate(a)
  \/ \E x \in Val : Return(x)
  \/ \E v \in Arr : ReturnReshaped(v)
  \/ Abandon

Next == AtomicNext \/ CallNext

Spec == Init /\ [][Next]_vars

\* Single-threaded programs without operands that run Python code.
AtomicSpec == Init /\ [][AtomicNext]_vars

-----------------------------------------------------------------------------
(* Properties. *)

TypeOK ==
  /\ buf \in [Arr -> Seq(Val)]
  /\ obj \in [Arr -> [kind : Kinds, base : Arr \cup {None}, cells : Seq(Nat)]]
  /\ call \in [who : Arr \cup {None}, early : BOOLEAN, seen : SUBSET Seq(Val)]
  /\ out \in Seq(Val)

\* The memory of every array belongs to an array that owns its buffer, however
\* long the chain of slices, transposes and reshapes that led to it, and every
\* cell lies inside that buffer (the SAFETY comments of view_from_layout,
\* refresh and commit rely on it).  No array addresses a cell twice, so the
\* order commit() writes in is immaterial.
ViewsAreInOwners ==
  \A a \in Arr : Live(a) =>
    /\ BaseOf(a) \in Arr
    /\ obj[BaseOf(a)].kind = "owned"
    /\ Selects(obj[a].cells, Len(buf[BaseOf(a)]))
    /\ Injective(obj[a].cells)

\* What the storage of each kind of array looks like: an owner addresses its
\* whole buffer in order, a window allocates nothing, and the cache of a
\* strided view has the size of the view and is only used where it must be.
StorageMatchesKind ==
  \A a \in Arr :
    /\ obj[a].kind = "free"    => obj[a] = NoObject /\ buf[a] = <<>>
    /\ obj[a].kind = "owned"   => /\ BaseOf(a) = a
                                  /\ obj[a].cells = Identity(Len(buf[a]))
    /\ obj[a].kind = "window"  => buf[a] = <<>> /\ Consecutive(obj[a].cells)
    /\ obj[a].kind = "strided" => /\ Len(buf[a]) = Size(a)
                                  /\ ~Consecutive(obj[a].cells)

\* The data an operation in progress would compute from, or copy, is data its
\* array really had since the operation began: never a mixture, and never the
\* data of a time before the call.
CallsUseSeenData ==
  call # NoCall =>
    /\ Live(call.who)
    /\ Elements(buf, call.who) \in call.seen
    /\ call.early => Data(buf, call.who) \in call.seen

-----------------------------------------------------------------------------
(* The refinement: forget windows, strided views and their caches. *)

Memory == [a \in Arr |-> IF obj[a].kind = "owned" THEN buf[a] ELSE <<>>]

Arrays == [a \in Arr |-> [base |-> obj[a].base, cells |-> obj[a].cells]]

Pending == [who |-> call.who, seen |-> call.seen]

Shared == INSTANCE SharedMemory WITH mem <- Memory, arr <- Arrays, call <- Pending

\* Programs cannot tell strided views from plain views of one memory: every
\* operation on windows, strided views and caches is an operation, or no
\* operation, of SharedMemory.
ImplementsSharedMemory == Shared!Spec

=============================================================================
