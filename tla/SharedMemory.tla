---------------------------- MODULE SharedMemory ----------------------------
(***************************************************************************)
(* What lightarray promises of its arrays, with no cache in sight.  Every  *)
(* array is a list of cells of one allocation; every operation reads and   *)
(* writes those cells, and nothing else.  An array that owns its buffer is *)
(* the list of all its cells; a view is another list over the same cells.  *)
(* StridedArrays is the implementation, with contiguous windows, strided   *)
(* views and the caches the kernels work on.                               *)
(***************************************************************************)
EXTENDS ArrayData

VARIABLES
  mem,    \* mem[a]: the buffer array a owns, <<>> when it owns none
  arr,    \* arr[a]: the owner of its memory and the cells it addresses
  call,   \* the operation whose Python callback is running
  out     \* the data the last operation returned or wrote, <<>> if none

vars == <<mem, arr, call, out>>

-----------------------------------------------------------------------------

NoArray == [base |-> None, cells |-> <<>>]
NoCall  == [who |-> None, seen |-> {}]

Exists(a) == arr[a].base # None
Size(a)   == Len(arr[a].cells)

\* The elements of an array, read in memory m.
Values(m, a) == Gather(m[arr[a].base], arr[a].cells)

\* A call in progress has now seen its array's elements in memory m too.
Seeing(m) ==
  IF call.who = None THEN call
                     ELSE [call EXCEPT !.seen = @ \cup {Values(m, call.who)}]

Init ==
  /\ mem = [a \in Arr |-> <<>>]
  /\ arr = [a \in Arr |-> NoArray]
  /\ call = NoCall
  /\ out = <<>>

-----------------------------------------------------------------------------
(* Building blocks: allocate, share, write, return. *)

Allocate(v, w) ==
  /\ ~Exists(v)
  /\ mem' = [mem EXCEPT ![v] = w]
  /\ arr' = [arr EXCEPT ![v] = [base |-> v, cells |-> Identity(Len(w))]]
  /\ out' = <<>>
  /\ UNCHANGED call

Share(v, a, c) ==
  /\ ~Exists(v)
  /\ arr' = [arr EXCEPT ![v] = [base |-> arr[a].base, cells |-> c]]
  /\ out' = <<>>
  /\ UNCHANGED <<mem, call>>

\* a now holds w; x is what was written of it.
Write(a, w, x) ==
  /\ mem' = [mem EXCEPT ![arr[a].base] = Scatter(@, arr[a].cells, w)]
  /\ call' = Seeing(mem')
  /\ out' = x
  /\ UNCHANGED arr

Result(w) ==
  /\ out' = w
  /\ UNCHANGED <<mem, arr, call>>

-----------------------------------------------------------------------------
(* The operations. *)

Create(v, w) == Allocate(v, w)

\* Basic indexing and transposing share memory unless nothing is selected.
Index(v, a, sel) ==
  /\ Exists(a) /\ Selects(sel, Size(a))
  /\ IF sel = <<>> THEN Allocate(v, <<>>)
                   ELSE Share(v, a, Pick(arr[a].cells, sel))

\* Reshaping shares memory exactly when the cells are consecutive.
Reshape(v, a) ==
  /\ Exists(a)
  /\ IF Consecutive(arr[a].cells) THEN Share(v, a, arr[a].cells)
                                  ELSE Allocate(v, Values(mem, a))

\* Fancy indexing and copying.
Copy(v, a, sel) ==
  /\ Exists(a) /\ Selects(sel, Size(a))
  /\ Allocate(v, Pick(Values(mem, a), sel))

Read(a) ==
  /\ Exists(a)
  /\ Result(Values(mem, a))

ReadItem(a, i) ==
  /\ Exists(a) /\ i \in 1..Size(a)
  /\ Result(<<Values(mem, a)[i]>>)

WriteItem(a, i, x) ==
  /\ Exists(a) /\ i \in 1..Size(a)
  /\ Write(a, [Values(mem, a) EXCEPT ![i] = x], <<x>>)

Fill(a, x) ==
  /\ Exists(a)
  /\ LET w == Constantly(x, Size(a)) IN Write(a, w, w)

InplaceScalar(a, x) ==
  /\ Exists(a)
  /\ LET w == ZipScalar(Values(mem, a), x) IN Write(a, w, w)

\* a OP= b reads every element of b before it writes the first of a.
InplaceArray(a, b) ==
  /\ Exists(a) /\ Exists(b) /\ Broadcasts(Size(b), Size(a))
  /\ LET w == Zip(Values(mem, a), Stretch(Values(mem, b), Size(a))) IN Write(a, w, w)

\* An operation that fails changes no array.
Fail == Result(<<>>)

\* An operation on a that runs Python code before it computes its result,
Begin(a) ==
  /\ Exists(a) /\ call = NoCall
  /\ call' = [who |-> a, seen |-> {Values(mem, a)}]
  /\ out' = <<>>
  /\ UNCHANGED <<mem, arr>>

\* which is the result for elements the array had at one point of the call.
Return(x) ==
  /\ call # NoCall
  /\ \E v \in call.seen : out' = ZipScalar(v, x)
  /\ call' = NoCall
  /\ UNCHANGED <<mem, arr>>

\* reshape() is such an operation too: it shares the memory of an array whose
\* cells are consecutive, and copies the elements another one had at one point.
ReturnReshaped(v) ==
  LET a == call.who IN
  /\ call # NoCall /\ ~Exists(v)
  /\ \/ /\ Consecutive(arr[a].cells)
        /\ arr' = [arr EXCEPT ![v] = arr[a]]
        /\ UNCHANGED mem
     \/ /\ ~Consecutive(arr[a].cells)
        /\ \E w \in call.seen :
             /\ mem' = [mem EXCEPT ![v] = w]
             /\ arr' = [arr EXCEPT ![v] = [base |-> v, cells |-> Identity(Len(w))]]
  /\ call' = NoCall
  /\ out' = <<>>

\* The callback raised.
Abandon ==
  /\ call # NoCall
  /\ call' = NoCall
  /\ out' = <<>>
  /\ UNCHANGED <<mem, arr>>

Next ==
  \/ \E v \in Arr, w \in Contents : Create(v, w)
  \/ \E v, a \in Arr :
       \/ Reshape(v, a)
       \/ Copy(v, a, Identity(Size(a)))
       \/ \E sel \in Selections : Index(v, a, sel) \/ Copy(v, a, sel)
  \/ \E a \in Arr :
       \/ Read(a)
       \/ Begin(a)
       \/ \E i \in 1..Size(a) : ReadItem(a, i) \/ \E x \in Val : WriteItem(a, i, x)
       \/ \E x \in Val : Fill(a, x) \/ InplaceScalar(a, x)
       \/ \E b \in Arr : InplaceArray(a, b)
  \/ Fail \/ Abandon
  \/ \E x \in Val : Return(x)
  \/ \E v \in Arr : ReturnReshaped(v)

Spec == Init /\ [][Next]_vars

=============================================================================
