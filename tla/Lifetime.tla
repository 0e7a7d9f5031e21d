------------------------------ MODULE Lifetime ------------------------------
(***************************************************************************)
(* Who keeps which memory alive.  An array object either owns its buffer   *)
(* or is a view that holds a reference to the owner; buffer-protocol       *)
(* consumers (NumPy, memoryview) hold a reference to the array they were   *)
(* given, and DLPack consumers hold a tensor whose deleter releases one.   *)
(* Raw pointers travel beside those references: nothing in the types makes *)
(* sure that the object a pointer leads to is the one that is held.        *)
(* All steps run under the GIL; objects are never reborn, so that a stale  *)
(* pointer is never hidden by a new object at the same address.            *)
(***************************************************************************)
EXTENDS Integers, FiniteSets

CONSTANTS
  Obj,       \* array objects
  Export,    \* buffers and DLPack tensors handed out
  None,      \* "no object"
  Shape,     \* the shapes an array can be given (equal numbers of elements)
  MaxRefs    \* bound: references the program keeps to one object

ASSUME NoneAssumption == None \notin Obj
ASSUME FiniteAssumption == IsFiniteSet(Obj) /\ IsFiniteSet(Export)

VARIABLES
  obj,    \* obj[o]: how o stores its elements, whose memory its pointer
          \* leads to (mem) and whose reference it holds (base)
  count,  \* count[o]: Python's reference count of o
  refs,   \* refs[o]: references held by the running program
  exp     \* exp[h]: exports

vars == <<obj, count, refs, exp>>

NoObject == [kind |-> "unborn", base |-> None, mem |-> None, shape |-> None]
NoExport == [kind |-> "none", of |-> None, mem |-> None, shape |-> None,
             capsule |-> FALSE, consumer |-> "none", deleted |-> 0]

Init ==
  /\ obj = [o \in Obj |-> NoObject]
  /\ count = [o \in Obj |-> 0]
  /\ refs = [o \in Obj |-> 0]
  /\ exp = [h \in Export |-> NoExport]

-----------------------------------------------------------------------------
(* Reference counts. *)

Unborn(o) == obj[o].kind = "unborn"
Live(o)   == count[o] > 0
IsView(o) == obj[o].kind \in {"window", "strided"}

\* base_of: a view of a view holds the owner, not the view.
BaseOf(o) == IF IsView(o) THEN obj[o].base ELSE o

Incref(c, o) == [c EXCEPT ![o] = @ + 1]

\* Slips the runs must notice: a view gives back its base with every reference
\* to it, and never.
DecrefEager(c, o) ==
  IF IsView(o)
  THEN [c EXCEPT ![o] = @ - 1, ![obj[o].base] = @ - 1]
  ELSE [c EXCEPT ![o] = @ - 1]

DecrefLeaking(c, o) == [c EXCEPT ![o] = @ - 1]

\* Dropping the last reference to a view drops its reference to the owner,
\* which holds no further ones.
Decref(c, o) ==
  IF c[o] = 1 /\ IsView(o)
  THEN [c EXCEPT ![o] = 0, ![obj[o].base] = @ - 1]
  ELSE [c EXCEPT ![o] = @ - 1]

-----------------------------------------------------------------------------
(* The program. *)

InUse(o) == refs[o] > 0

\* Any operation that returns an array of its own.
NewArray(o, s) ==
  /\ Unborn(o)
  /\ obj' = [obj EXCEPT ![o] = [kind |-> "owned", base |-> None, mem |-> o, shape |-> s]]
  /\ count' = Incref(count, o)
  /\ refs' = [refs EXCEPT ![o] = 1]
  /\ UNCHANGED exp

\* A slip the runs must notice: the new view points into memory it does not
\* hold.
MakeViewBorrowing(v, o, kind, s) ==
  /\ Unborn(v)
  /\ obj' = [obj EXCEPT ![v] = [kind |-> kind, base |-> BaseOf(o), mem |-> obj[o].mem, shape |-> s]]
  /\ count' = Incref(count, v)
  /\ refs' = [refs EXCEPT ![v] = 1]
  /\ UNCHANGED exp

\* A new array v with a pointer into the memory of o and a reference to base_of(o).
MakeView(v, o, kind, s) ==
  /\ Unborn(v)
  /\ obj' = [obj EXCEPT ![v] = [kind |-> kind, base |-> BaseOf(o), mem |-> obj[o].mem, shape |-> s]]
  /\ count' = Incref(Incref(count, BaseOf(o)), v)
  /\ refs' = [refs EXCEPT ![v] = 1]
  /\ UNCHANGED exp

\* a[1:], a.T, a.reshape(...).
NewView(v, o, kind, s) ==
  /\ InUse(o)
  /\ MakeView(v, o, kind, s)

\* b = a, b = v.base, and the array behind a buffer (memoryview.obj).
Hold(o) ==
  /\ \/ \E a \in Obj : InUse(a) /\ o \in {a, BaseOf(a)}
     \/ \E h \in Export : exp[h].kind = "buffer" /\ o = exp[h].of
  /\ refs[o] < MaxRefs
  /\ count' = Incref(count, o)
  /\ refs' = [refs EXCEPT ![o] = @ + 1]
  /\ UNCHANGED <<obj, exp>>

Forget(o) ==
  /\ InUse(o)
  /\ refs' = [refs EXCEPT ![o] = @ - 1]
  /\ count' = Decref(count, o)
  /\ UNCHANGED <<obj, exp>>

\* a.shape = s rewrites the array's dims in place; strided views refuse.
SetShape(o, s) ==
  /\ InUse(o) /\ obj[o].kind # "strided"
  /\ obj' = [obj EXCEPT ![o].shape = s]
  /\ UNCHANGED <<count, refs, exp>>

-----------------------------------------------------------------------------
(* The buffer protocol. *)

\* The buffer's shape and strides are pointers to the dims of o itself; its
\* `shape` here is history: the one it was created with.
GetBuffer(h, o) ==
  /\ InUse(o) /\ exp[h].kind = "none"
  /\ exp' = [exp EXCEPT ![h] = [NoExport EXCEPT !.kind = "buffer", !.of = o,
                                                !.mem = obj[o].mem, !.shape = obj[o].shape]]
  /\ count' = Incref(count, o)
  /\ UNCHANGED <<obj, refs>>

\* External: the consumer is done with the buffer.
ReleaseBuffer(h) ==
  /\ exp[h].kind = "buffer"
  /\ exp' = [exp EXCEPT ![h] = NoExport]
  /\ count' = Decref(count, exp[h].of)
  /\ UNCHANGED <<obj, refs>>

\* A NumPy function returned a view of the array behind the buffer, which the
\* program may have forgotten.
ViewOfNumpy(v, h, kind, s) ==
  /\ exp[h].kind = "buffer"
  /\ MakeView(v, BaseOf(exp[h].of), kind, s)

-----------------------------------------------------------------------------
(* DLPack. *)

Tensor(o, mem, shape) ==
  [NoExport EXCEPT !.kind = "tensor", !.of = o, !.mem = mem, !.shape = shape, !.capsule = TRUE]

\* a.__dlpack__(): a capsule with a tensor that holds a.
Dlpack(h, o) ==
  /\ InUse(o) /\ exp[h].kind = "none"
  /\ exp' = [exp EXCEPT ![h] = Tensor(o, obj[o].mem, obj[o].shape)]
  /\ count' = Incref(count, o)
  /\ UNCHANGED <<obj, refs>>

\* a.__dlpack__(copy=True): the tensor alone holds the fresh copy c.
DlpackCopy(h, o, c) ==
  /\ InUse(o) /\ exp[h].kind = "none" /\ Unborn(c)
  /\ obj' = [obj EXCEPT ![c] = [kind |-> "owned", base |-> None, mem |-> c, shape |-> obj[o].shape]]
  /\ exp' = [exp EXCEPT ![h] = Tensor(c, c, obj[o].shape)]
  /\ count' = Decref(Incref(Incref(count, c), c), c)
  /\ UNCHANGED refs

\* There is no memory for the capsule: the tensor, with its reference, is undone.
DlpackFails(o) ==
  /\ InUse(o)
  /\ count' = Decref(Incref(count, o), o)
  /\ UNCHANGED <<obj, refs, exp>>

\* The deleter runs on tensor h, whose capsule has become e.
Deleter(h, e) ==
  /\ exp' = [exp EXCEPT ![h] = [e EXCEPT !.deleted = @ + 1]]
  /\ count' = Decref(count, e.of)
  /\ UNCHANGED <<obj, refs>>

\* External: a consumer renames the capsule and takes over the tensor.
Consume(h) ==
  /\ exp[h].capsule /\ exp[h].consumer = "none"
  /\ exp' = [exp EXCEPT ![h].consumer = "using"]
  /\ UNCHANGED <<obj, count, refs>>

\* A slip the runs must notice: the destructor does not look at the name.
DropCapsuleAlways(h) ==
  /\ exp[h].capsule
  /\ Deleter(h, [exp[h] EXCEPT !.capsule = FALSE])

\* The capsule is collected: only a capsule nobody has consumed still owns
\* its tensor.
DropCapsule(h) ==
  /\ exp[h].capsule
  /\ LET e == [exp[h] EXCEPT !.capsule = FALSE] IN
     \/ e.consumer = "none" /\ Deleter(h, e)
     \/ /\ e.consumer # "none"
        /\ exp' = [exp EXCEPT ![h] = e]
        /\ UNCHANGED <<obj, count, refs>>

\* External: the consumer calls the deleter of its tensor, once.
ReleaseTensor(h) ==
  /\ exp[h].consumer = "using"
  /\ Deleter(h, [exp[h] EXCEPT !.consumer = "done"])

-----------------------------------------------------------------------------

Next ==
  \/ \E o \in Obj, s \in Shape : NewArray(o, s)
  \/ \E v, o \in Obj, kind \in {"window", "strided"}, s \in Shape : NewView(v, o, kind, s)
  \/ \E o \in Obj : Hold(o)
  \/ \E o \in Obj : Forget(o)
  \/ \E o \in Obj, s \in Shape : SetShape(o, s)
  \/ \E h \in Export, o \in Obj : GetBuffer(h, o)
  \/ \E h \in Export : ReleaseBuffer(h)
  \/ \E v \in Obj, h \in Export, kind \in {"window", "strided"}, s \in Shape :
       ViewOfNumpy(v, h, kind, s)
  \/ \E h \in Export, o \in Obj : Dlpack(h, o)
  \/ \E h \in Export, o, c \in Obj : DlpackCopy(h, o, c)
  \/ \E o \in Obj : DlpackFails(o)
  \/ \E h \in Export : Consume(h)
  \/ \E h \in Export : DropCapsule(h)
  \/ \E h \in Export : ReleaseTensor(h)

Spec == Init /\ [][Next]_vars

-----------------------------------------------------------------------------
(* Properties. *)

\* The export's pointers may still be followed: by the holder of the buffer,
\* by whoever consumes the capsule, by the consumer.
Outstanding(h) ==
  \/ exp[h].kind = "buffer"
  \/ exp[h].capsule /\ exp[h].consumer = "none"
  \/ exp[h].consumer = "using"

ViewsOf(o)   == {v \in Obj : IsView(v) /\ Live(v) /\ obj[v].base = o}
ExportsOf(o) == {h \in Export : Outstanding(h) /\ exp[h].of = o}

TypeOK ==
  /\ obj \in [Obj -> [kind : {"unborn", "owned", "window", "strided"},
                      base : Obj \cup {None}, mem : Obj \cup {None},
                      shape : Shape \cup {None}]]
  /\ count \in [Obj -> Nat]
  /\ refs \in [Obj -> Nat]
  /\ exp \in [Export -> [kind : {"none", "buffer", "tensor"}, of : Obj \cup {None},
                         mem : Obj \cup {None}, shape : Shape \cup {None},
                         capsule : BOOLEAN, consumer : {"none", "using", "done"},
                         deleted : Nat]]

\* No pointer outlives what it points to: the buffer of a live view's owner,
\* and, for an export, the elements and the array whose dims a Py_buffer shows.
NoDangling ==
  /\ \A v \in Obj : Live(v) => Live(obj[v].mem)
  /\ \A h \in Export : Outstanding(h) => Live(exp[h].mem) /\ Live(exp[h].of)

\* Every reference counted is one somebody will give back, and the other way
\* round: no array is freed too early, and none is kept when the program, the
\* views and the consumers are done with it.
CountsAreExact ==
  \A o \in Obj : count[o] = refs[o] + Cardinality(ViewsOf(o)) + Cardinality(ExportsOf(o))

\* Whichever comes first, the end of the capsule or the end of its consumer:
\* a tensor is deleted once when nobody can follow its pointers any more, and
\* never before.
DeletedOnce ==
  \A h \in Export : exp[h].kind = "tensor" =>
    exp[h].deleted = IF Outstanding(h) THEN 0 ELSE 1

=============================================================================
