-------------------------- MODULE NestedSequences ---------------------------
(***************************************************************************)
(* array([[1, 2.0], [True, 4]]): the walk of nested_sequence in python.rs  *)
(* over lists and tuples.  It goes through the items once, learns the      *)
(* shape from the first list at each depth, collects the numbers, and      *)
(* either makes an array or declines, and then NumPy converts the object   *)
(* or raises.                                                              *)
(***************************************************************************)
EXTENDS Shapes, FiniteSets

CONSTANTS
  Inputs,   \* nested lists: Nested(items) of Leaf(kind, value) and lists
  MAX_NDIM  \* dimensions handled natively

VARIABLES
  input,   \* the outermost list
  rest,    \* per depth, the items the walk has yet to see there
  dims,    \* Walk.dims up to Walk.ndim
  floats,  \* Walk.floats: every number so far
  ints,    \* Walk.ints: those before the first float
  saw,     \* Walk.saw_float, saw_int and saw_bool
  status   \* "walking", then "native" or "declined"

walk == <<rest, dims, floats, ints, saw>>
vars == <<input, walk, status>>

\* The kinds of item: numbers Rust can hold, and what is for NumPy (an int
\* beyond int64, a string, an array).
Numbers == {"float", "int", "bool"}

Leaf(kind, value) == [kind |-> kind, value |-> value, items |-> <<>>]
Nested(items)     == [kind |-> "list", value |-> 0, items |-> items]

\* The outermost list itself: a list may contain itself.
Itself == Leaf("itself", 0)
Sequences == {"list", "itself"}

-----------------------------------------------------------------------------
(* What NumPy makes of a nested list.                                      *)

\* Its shape: {} if the lists at one depth differ, or mix with numbers.
RECURSIVE NumpyShape(_)
NumpyShape(t) ==
  IF t.kind # "list" THEN IF t.kind \in Numbers THEN {<<>>} ELSE {}
  ELSE IF t.items = <<>> THEN {<<0>>}
  ELSE LET inner == {NumpyShape(t.items[k]) : k \in DOMAIN t.items} IN
       IF Cardinality(inner) > 1 THEN {} ELSE {<<Len(t.items)>> \o s : s \in UNION inner}

RECURSIVE Leaves(_)
Leaves(t) ==
  IF t.kind # "list" THEN <<t>>
  ELSE FlattenSeq([k \in DOMAIN t.items |-> Leaves(t.items[k])])

Values(t) == [k \in DOMAIN Leaves(t) |-> Leaves(t)[k].value]
Kinds(t)  == {Leaves(t)[k].kind : k \in DOMAIN Leaves(t)}

\* Any float makes float64, integers make int64, only bools make bool.
NumpyDtype(t) ==
  IF "float" \in Kinds(t) \/ Kinds(t) = {} THEN "float64"
  ELSE IF "int" \in Kinds(t) THEN "int64" ELSE "bool"

-----------------------------------------------------------------------------

Depth == Len(rest) - 1

\* walk_items opens the outermost list.
Init ==
  /\ input \in Inputs
  /\ rest = <<input.items>>
  /\ dims = <<Len(input.items)>>
  /\ floats = <<>> /\ ints = <<>> /\ saw = {}
  /\ status = "walking"

Walking  == status = "walking" /\ UNCHANGED input
Declines == status' = "declined" /\ UNCHANGED walk

\* The next item at the current depth, and the walk past it.
HasNext == rest # <<>> /\ Last(rest) # <<>>
Item    == Head(Last(rest))
Within  == IF Item = Itself THEN input.items ELSE Item.items
Passed  == Append(Front(rest), Tail(Last(rest)))

\* A slip the runs must notice: one level above the bottom.
AboveTheBottom == Depth + 2 = Ndim(dims)

\* A number belongs at the deepest level found so far.
AtTheBottom == Depth + 1 = Ndim(dims)

\* A slip the runs must notice: the kind of the last number instead of all.
PushLastKind ==
  /\ Walking /\ HasNext /\ Item.kind \in Numbers
  /\ IF ~AtTheBottom THEN Declines
     ELSE /\ rest' = Passed
          /\ floats' = Append(floats, Item.value)
          /\ ints' = IF Item.kind = "float" \/ "float" \in saw THEN ints
                     ELSE Append(ints, Item.value)
          /\ saw' = {Item.kind}
          /\ UNCHANGED <<dims, status>>

\* A float, bool or int.
Push ==
  /\ Walking /\ HasNext /\ Item.kind \in Numbers
  /\ IF ~AtTheBottom THEN Declines
     ELSE /\ rest' = Passed
          /\ floats' = Append(floats, Item.value)
          /\ ints' = IF Item.kind = "float" \/ "float" \in saw THEN ints
                     ELSE Append(ints, Item.value)
          /\ saw' = saw \cup {Item.kind}
          /\ UNCHANGED <<dims, status>>

\* Neither a number nor a list or tuple.
Stranger == Walking /\ HasNext /\ Item.kind \notin Numbers \cup Sequences /\ Declines

\* A slip the runs must notice: the depth is not checked.
FitsAnyDepth == Depth + 1 # Ndim(dims) => dims[Depth + 2] = Len(Within)

\* The first list of a depth sets its length if there is room for another
\* dimension; the others must have that length.
Fits ==
  IF Depth + 1 = Ndim(dims) THEN Ndim(dims) + 1 =< MAX_NDIM ELSE dims[Depth + 2] = Len(Within)

\* walk_items one level deeper.
Open ==
  /\ Walking /\ HasNext /\ Item.kind \in Sequences
  /\ IF ~Fits THEN Declines
     ELSE /\ rest' = Append(Passed, Within)
          /\ dims' = IF Depth + 1 = Ndim(dims) THEN Append(dims, Len(Within)) ELSE dims
          /\ UNCHANGED <<floats, ints, saw, status>>

\* A slip the runs must notice: the outermost level is never left.
CloseInner ==
  /\ Walking /\ Len(rest) > 1 /\ Last(rest) = <<>>
  /\ rest' = Front(rest)
  /\ UNCHANGED <<dims, floats, ints, saw, status>>

\* The list at this depth is done.
Close ==
  /\ Walking /\ rest # <<>> /\ Last(rest) = <<>>
  /\ rest' = Front(rest)
  /\ UNCHANGED <<dims, floats, ints, saw, status>>

\* nested_sequence after the walk: the numbers must fill the shape.
Finish ==
  /\ Walking /\ rest = <<>>
  /\ status' = IF Len(floats) = Product(dims) THEN "native" ELSE "declined"
  /\ UNCHANGED walk

Next == Push \/ Stranger \/ Open \/ Close \/ Finish

\* The walk is a loop of one thread: it keeps going.
Spec == Init /\ [][Next]_vars /\ WF_vars(Next)

\* The array made.
Dtype ==
  IF "float" \in saw \/ saw = {} THEN "float64" ELSE IF "int" \in saw THEN "int64" ELSE "bool"
Data == IF Dtype = "float64" THEN floats ELSE ints

-----------------------------------------------------------------------------
(* Properties. *)

TypeOK ==
  /\ status \in {"walking", "native", "declined"}
  /\ Ndim(dims) \in 1..MAX_NDIM /\ dims \in Seq(Nat)
  /\ Len(rest) =< Ndim(dims)
  /\ saw \subseteq Numbers
  /\ Len(ints) =< Len(floats)

\* A native array holds every number of the input in the order written, under
\* the dtype NumPy infers, and they fill its shape: whichever of floats and
\* ints is used, it missed nothing.
NothingIsLost ==
  status = "native" =>
    /\ Dtype = NumpyDtype(input)
    /\ Data = Values(input)
    /\ Len(Data) = Product(dims)

\* Learning the shape from the first list of each depth mistakes nothing:
\* regular nested lists of numbers stay native, with NumPy's shape, and lists
\* of different lengths at one depth never become an array: if an irregular
\* input does, a number stood where a list of one should have.
RegularIsNative ==
  /\ \A shape \in NumpyShape(input) :
       Len(shape) =< MAX_NDIM => /\ status # "declined"
                                 /\ status = "native" => dims = shape
  /\ status = "native" /\ NumpyShape(input) = {} => dims[Ndim(dims)] = 1

\* The walk of every input ends, also of a list that contains itself.
Decided == <>(status # "walking")

\* python.rs l.2390-2391: None for what is not a rectangular nested list, "let
\* NumPy produce the proper error for those" (l.2401-2402).
RaggedIsDeclined == status = "native" => NumpyShape(input) # {}

=============================================================================
