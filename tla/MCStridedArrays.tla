-------------------------- MODULE MCStridedArrays ---------------------------
(***************************************************************************)
(* StridedArrays on small instances.                                       *)
(***************************************************************************)
EXTENDS StridedArrays, TLC

\* A kernel on {0, 1} that is neither commutative nor idempotent.
MCOp == [p \in Val \X Val |-> IF p[1] <= p[2] THEN 1 ELSE 0]

\* One initial buffer, whose ends differ.
MCContents == {<<0, 1, 1>>}

\* a[:0], a[1:], a[::2], a[::-1] and a[2::-2]
MCSelections    == {<<>>, <<2, 3>>, <<1, 3>>, <<3, 2, 1>>, <<3, 1>>}

\* For the calls: two cells, the reversed view of both and the window of one.
MCFewContents   == {<<0, 1>>}
MCFewSelections == {<<2, 1>>, <<2>>}

\* No action reads `out`, and every property of it is one of the step that set
\* it, so states that differ only there need not be told apart.
Future == <<buf, obj, call>>

Symmetry == Permutations(Arr)

=============================================================================
