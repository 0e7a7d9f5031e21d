----------------------------- MODULE MCKernels ------------------------------
(***************************************************************************)
(* Kernels on small arrays, chains of operations.                          *)
(***************************************************************************)
EXTENDS Kernels

\* Rows and columns to broadcast, a NaN, ties, an axis of length zero, two of
\* them, a 0-d array, and one with a remainder behind a whole chunk.
MCArrays == {
  Array(<<>>, <<2>>),
  Array(<<3>>, <<1, 0, 2>>),
  Array(<<1>>, <<2>>),
  Array(<<2, 3>>, <<0, 2, 1, 2, 0, 1>>),
  Array(<<2, 1>>, <<1, NaN>>),
  Array(<<2, 1, 2>>, <<2, 1, 1, 0>>),
  Array(<<2, 0>>, <<>>),
  Array(<<0, 0>>, <<>>)}

MCAxes == -3..2

\* In range, out of range and from the end; masks of the whole array and of its rows.
MCKeys ==
  {Key("int", <<i>>) : i \in {-3, 0, 1}}
    \cup {Key("ints", s) : s \in {<<>>, <<-1, 0, -1>>, <<2>>}}
    \cup {MaskKey(Array(<<3>>, <<TRUE, FALSE, TRUE>>)), MaskKey(Array(<<2>>, <<FALSE, TRUE>>)),
          MaskKey(Array(<<2, 3>>, <<TRUE, TRUE, FALSE, FALSE, TRUE, FALSE>>))}

\* No two of them further apart than an integer of MC's width can tell.
MCBounds == {-3, -1, 0, 2, 4}

=============================================================================
