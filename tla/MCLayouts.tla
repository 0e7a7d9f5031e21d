----------------------------- MODULE MCLayouts ------------------------------
(***************************************************************************)
(* Layouts on small arrays: chains of indexing operations.                 *)
(***************************************************************************)
EXTENDS Layouts

MCShapes == {<<2, 3>>, <<4>>, <<2, 2, 2>>, <<2, 0>>}

Int1(i)         == [kind |-> "int", i |-> i]
Slice(a, b, st) == [kind |-> "slice", start |-> a, stop |-> b, step |-> st]
All             == Slice(None, None, 1)
Flip            == Slice(None, None, -1)

\* a[-1], a[0, 1], a[1:], a[::2], a[::-1], a[:, 0], a[:, -2:], a[0, ::-1],
\* a[None], a[:, None], a[0, None, ::2], a[5:0:-2, 1:1], a[()]
MCKeys == {
  <<Int1(-1)>>, <<Int1(0), Int1(1)>>,
  <<Slice(1, None, 1)>>, <<Slice(None, None, 2)>>, <<Flip>>,
  <<All, Int1(0)>>, <<All, Slice(-2, None, 1)>>, <<Int1(0), Flip>>,
  <<None>>, <<All, None>>, <<Int1(0), None, Slice(None, None, 2)>>,
  <<Slice(5, 0, -2), Slice(1, 1, 1)>>, <<>>}

MCRows      == {<<1, -1, 0>>, <<>>}
MCNewShapes == {<<-1>>, <<2, -1>>, <<1, 3, -1>>}

\* A diagonal, a flipped row, a swapped pair of axes, a single element, and
\* views that begin before or end behind the buffer.
MCForeign == {
  Layout(0, <<2>>, <<4>>), Layout(2, <<3>>, <<-1>>), Layout(1, <<3>>, <<-1>>),
  Layout(0, <<3, 2>>, <<1, 3>>), Layout(3, <<2, 2>>, <<1, -2>>),
  Layout(5, <<1>>, <<7>>), Layout(0, <<0>>, <<1>>)}

=============================================================================
