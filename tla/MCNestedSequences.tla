------------------------- MODULE MCNestedSequences --------------------------
(***************************************************************************)
(* NestedSequences over all lists of at most two items: three deep of      *)
(* floats and ints, two deep of every kind, some deeper, and some that     *)
(* contain themselves.                                                     *)
(***************************************************************************)
EXTENDS NestedSequences

Lists(items) == {Nested(s) : s \in BoundedSeq(items, 2)}

Two  == {Leaf("float", 1), Leaf("int", 2)}
Five == Two \cup {Leaf("int", 3), Leaf("bool", 1), Leaf("other", 0)}

One(L)   == Lists(L)
Deep2(L) == Lists(L \cup One(L))
Deep3(L) == Lists(L \cup Deep2(L))

Single(t) == Nested(<<t>>)

MCInputs ==
  Deep3(Two) \cup Deep2(Five) \cup {Single(Single(t)) : t \in Deep2(Two)}
    \cup Deep2({Itself, Leaf("int", 2)})

=============================================================================
