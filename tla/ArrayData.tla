----------------------------- MODULE ArrayData ------------------------------
(***************************************************************************)
(* The data SharedMemory and StridedArrays have in common: the constants,  *)
(* index lists, and the element-wise kernels.  An array's shape and        *)
(* strides are abstracted to the list, in C order, of the cells of its     *)
(* owner's buffer that it addresses: `a[::2]`, `a[:, 0]` and `a.T` differ  *)
(* only in that list.                                                      *)
(***************************************************************************)
EXTENDS Naturals, Sequences

CONSTANTS
  Arr,         \* array objects
  None,        \* "no array"
  Val,         \* element values
  Op,          \* the binary kernel: Op[<<x, y>>], for every pair of values
  Zero,        \* the value fresh caches and zeros() are filled with
  Contents,    \* the buffers a fresh array may be created with
  Selections   \* the index lists an indexing operation may select

ASSUME NoneAssumption == None \notin Arr
ASSUME ZeroAssumption == Zero \in Val
ASSUME OpAssumption   == Op \in [Val \X Val -> Val]
ASSUME ContentsAssumption == Contents \subseteq Seq(Val)

\* An index list addresses no element twice: basic indexing and transposing
\* never do (as_strided, which can, is outside the model).
Injective(c) == \A i, j \in 1..Len(c) : c[i] = c[j] => i = j

ASSUME SelectionsAssumption ==
  /\ Selections \subseteq Seq(Nat)
  /\ \A sel \in Selections : Injective(sel)

-----------------------------------------------------------------------------

\* The index list that selects everything.
Identity(n) == [i \in 1..n |-> i]

\* The elements of sequence s named by the index list sel.
Pick(s, sel) == [i \in 1..Len(sel) |-> s[sel[i]]]

Selects(sel, n) == \A i \in 1..Len(sel) : sel[i] \in 1..n

\* Consecutive cells: the layout is C-contiguous.
Consecutive(c) == \A i \in 1..Len(c) : c[i] = c[1] + i - 1

\* An operand broadcast to a target of n elements.
Broadcasts(m, n) == m \in {n, 1}

Stretch(w, n) == [i \in 1..n |-> IF Len(w) = n THEN w[i] ELSE w[1]]

\* f(a[i], b[i]) and f(a[i], x).
Zip(v, w)       == [i \in 1..Len(v) |-> Op[<<v[i], w[i]>>]]
ZipScalar(v, x) == [i \in 1..Len(v) |-> Op[<<v[i], x>>]]

Constantly(x, n) == [i \in 1..n |-> x]

\* The elements found at cells c of buffer s, and buffer s after the
\* elements w have been written to those cells.
Gather(s, c) == Pick(s, c)

Scatter(s, c, w) ==
  [k \in 1..Len(s) |-> IF \E i \in 1..Len(c) : c[i] = k
                       THEN w[CHOOSE i \in 1..Len(c) : c[i] = k]
                       ELSE s[k]]

=============================================================================
