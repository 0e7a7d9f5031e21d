------------------------- MODULE StridedArraysProofs ------------------------
(***************************************************************************)
(* Proofs about StridedArrays for every set of arrays, values, buffers and *)
(* index lists.                                                            *)
(*                                                                         *)
(* 1. What the helpers of ArrayData return.                                *)
(* 2. The invariant is inductive: who owns which memory (ViewsAreInOwners),*)
(*    how it is stored (StorageMatchesKind) and which array an operation in*)
(*    progress works on (CallOK) each rely on the others.  An operation does*)
(*    one of three things to it: Update changes elements and keeps every   *)
(*    length (Fits), NewObject and CopyInto add one array, and the callbacks*)
(*    change `call`.  There is one lemma for each, and one per operation that*)
(*    reduces it to them.                                                  *)
(* 3. Strided views, windows and their caches implement SharedMemory: every*)
(*    step of StridedArrays maps to one of SharedMemory.  MemoryOf(b) is the*)
(*    shared memory that buffers b stand for: the caches are left out.  So a*)
(*    refresh does not change it, and a write to the data of an array      *)
(*    followed by its commit changes just the array's cells.               *)
(***************************************************************************)
EXTENDS StridedArrays, SequenceTheorems, TLAPS

-----------------------------------------------------------------------------
(* The helpers of ArrayData. *)

\* A function on 1..n is a sequence of length n.
LEMMA SequenceIntro ==
  ASSUME NEW S, NEW n \in Nat, NEW f \in [1..n -> S]
  PROVE  /\ f \in Seq(S)
         /\ Len(f) = n
  OBVIOUS

\* A sequence is a function on 1..Len.
LEMMA SequenceElim ==
  ASSUME NEW S, NEW s \in Seq(S)
  PROVE  /\ Len(s) \in Nat
         /\ s \in [1..Len(s) -> S]
  OBVIOUS

\* The list that selects everything names each cell once.
LEMMA IdentityFacts ==
  ASSUME NEW n \in Nat
  PROVE  /\ Identity(n) \in Seq(Nat)
         /\ Len(Identity(n)) = n
         /\ Selects(Identity(n), n)
         /\ Injective(Identity(n))
         /\ Consecutive(Identity(n))
<1>1. Identity(n) \in [1..n -> Nat]
  BY DEF Identity
<1>2. Identity(n) \in Seq(Nat) /\ Len(Identity(n)) = n
  BY <1>1, SequenceIntro
<1>3. \A i \in 1..n : Identity(n)[i] = i
  BY DEF Identity
<1> QED
  BY <1>2, <1>3 DEF Selects, Injective, Consecutive

\* Consecutive cells lie between the first and the last.
LEMMA ConsecutiveRange ==
  ASSUME NEW c \in Seq(Nat), Consecutive(c), NEW i \in 1..Len(c)
  PROVE  /\ c[1] \in Nat /\ c[i] \in Nat /\ c[Len(c)] \in Nat
         /\ c[1] =< c[i] /\ c[i] =< c[Len(c)]
<1>1. Len(c) \in Nat /\ Len(c) \in 1..Len(c) /\ 1 \in 1..Len(c)
  OBVIOUS
<1>2. c[1] \in Nat /\ c[i] \in Nat /\ c[Len(c)] \in Nat
  BY <1>1, SequenceElim
<1>3. c[i] = c[1] + i - 1 /\ c[Len(c)] = c[1] + Len(c) - 1
  BY <1>1 DEF Consecutive
<1> QED
  BY <1>1, <1>2, <1>3

\* Picking elements of a sequence by a list of its indices.
LEMMA PickFacts ==
  ASSUME NEW S, NEW s \in Seq(S), NEW sel \in Seq(Nat), Selects(sel, Len(s))
  PROVE  /\ Pick(s, sel) \in Seq(S)
         /\ Len(Pick(s, sel)) = Len(sel)
         /\ \A i \in 1..Len(sel) : Pick(s, sel)[i] = s[sel[i]]
<1>1. Len(sel) \in Nat /\ Pick(s, sel) \in [1..Len(sel) -> S]
  BY SequenceElim DEF Pick, Selects
<1>2. \A i \in 1..Len(sel) : Pick(s, sel)[i] = s[sel[i]]
  BY DEF Pick
<1> QED
  BY <1>1, <1>2, SequenceIntro

\* Gathering is picking.
LEMMA GatherFacts ==
  ASSUME NEW S, NEW s \in Seq(S), NEW c \in Seq(Nat), Selects(c, Len(s))
  PROVE  /\ Gather(s, c) \in Seq(S)
         /\ Len(Gather(s, c)) = Len(c)
         /\ \A i \in 1..Len(c) : Gather(s, c)[i] = s[c[i]]
  BY PickFacts DEF Gather

\* Indexing a list of distinct cells of a buffer gives another one: this is
\* what makes views of views views of the owner.
LEMMA PickOfCells ==
  ASSUME NEW n \in Nat, NEW c \in Seq(Nat), Selects(c, n), Injective(c),
         NEW sel \in Seq(Nat), Selects(sel, Len(c)), Injective(sel)
  PROVE  /\ Pick(c, sel) \in Seq(Nat)
         /\ Len(Pick(c, sel)) = Len(sel)
         /\ Selects(Pick(c, sel), n)
         /\ Injective(Pick(c, sel))
<1>1. /\ Pick(c, sel) \in Seq(Nat)
      /\ Len(Pick(c, sel)) = Len(sel)
      /\ \A i \in 1..Len(sel) : Pick(c, sel)[i] = c[sel[i]]
  BY PickFacts
<1>2. Selects(Pick(c, sel), n)
  BY <1>1 DEF Selects
<1>3. ASSUME NEW i \in 1..Len(sel), NEW j \in 1..Len(sel), Pick(c, sel)[i] = Pick(c, sel)[j]
      PROVE  i = j
  <2>1. sel[i] \in 1..Len(c) /\ sel[j] \in 1..Len(c) /\ c[sel[i]] = c[sel[j]]
    BY <1>1, <1>3 DEF Selects
  <2>2. sel[i] = sel[j]
    BY <2>1 DEF Injective
  <2> QED
    BY <2>2 DEF Injective
<1> QED
  BY <1>1, <1>2, <1>3 DEF Injective

\* Scattering changes elements, never the size of the buffer.
LEMMA ScatterFacts ==
  ASSUME NEW S, NEW s \in Seq(S), NEW c \in Seq(Nat), NEW w \in Seq(S), Len(w) = Len(c)
  PROVE  /\ Scatter(s, c, w) \in Seq(S)
         /\ Len(Scatter(s, c, w)) = Len(s)
<1>1. ASSUME NEW k \in 1..Len(s)
      PROVE  Scatter(s, c, w)[k] \in S
  <2>1. CASE \E i \in 1..Len(c) : c[i] = k
    <3>1. (CHOOSE i \in 1..Len(c) : c[i] = k) \in 1..Len(c)
      BY <2>1
    <3> QED
      BY <2>1, <3>1, SequenceElim DEF Scatter
  <2>2. CASE ~\E i \in 1..Len(c) : c[i] = k
    BY <2>2, SequenceElim DEF Scatter
  <2> QED
    BY <2>1, <2>2
<1>2. Scatter(s, c, w) \in [1..Len(s) -> S]
  BY <1>1 DEF Scatter
<1> QED
  BY <1>2, SequenceIntro, SequenceElim

\* What was written to distinct cells is read back from them.
LEMMA GatherScatter ==
  ASSUME NEW S, NEW s \in Seq(S), NEW c \in Seq(Nat), Selects(c, Len(s)), Injective(c),
         NEW w \in Seq(S), Len(w) = Len(c)
  PROVE  Gather(Scatter(s, c, w), c) = w
<1>1. Len(c) \in Nat /\ w \in [1..Len(c) -> S]
  BY SequenceElim
<1>2. ASSUME NEW i \in 1..Len(c)
      PROVE  Scatter(s, c, w)[c[i]] = w[i]
  <2>1. c[i] \in 1..Len(s)
    BY DEF Selects
  <2>2. (CHOOSE j \in 1..Len(c) : c[j] = c[i]) = i
    <3>1. /\ (CHOOSE j \in 1..Len(c) : c[j] = c[i]) \in 1..Len(c)
          /\ c[CHOOSE j \in 1..Len(c) : c[j] = c[i]] = c[i]
      OBVIOUS
    <3> QED
      BY <3>1 DEF Injective
  <2> QED
    BY <2>1, <2>2 DEF Scatter
<1>3. Gather(Scatter(s, c, w), c) = [i \in 1..Len(c) |-> w[i]]
  BY <1>2 DEF Gather, Pick
<1> QED
  BY <1>1, <1>3

\* Writing back what was gathered with one element changed changes one cell.
LEMMA ScatterOne ==
  ASSUME NEW S, NEW s \in Seq(S), NEW c \in Seq(Nat), Selects(c, Len(s)), Injective(c),
         NEW i \in 1..Len(c), NEW x \in S,
         NEW w, w[i] = x, \A j \in 1..Len(c) : j # i => w[j] = s[c[j]]
  PROVE  Scatter(s, c, w) = [s EXCEPT ![c[i]] = x]
<1>1. s \in [1..Len(s) -> S]
  BY SequenceElim
<1>2. ASSUME NEW k \in 1..Len(s)
      PROVE  Scatter(s, c, w)[k] = [s EXCEPT ![c[i]] = x][k]
  <2>1. CASE \E j \in 1..Len(c) : c[j] = k
    <3>1. PICK j \in 1..Len(c) : c[j] = k /\ j = CHOOSE m \in 1..Len(c) : c[m] = k
      BY <2>1
    <3>2. Scatter(s, c, w)[k] = w[j]
      BY <2>1, <3>1 DEF Scatter
    <3>3. k = c[i] <=> j = i
      BY <3>1 DEF Injective
    <3> QED
      BY <1>1, <3>1, <3>2, <3>3
  <2>2. CASE ~\E j \in 1..Len(c) : c[j] = k
    BY <1>1, <2>2 DEF Scatter
  <2> QED
    BY <2>1, <2>2
<1>3. Scatter(s, c, w) = [k \in 1..Len(s) |-> Scatter(s, c, w)[k]]
  BY DEF Scatter
<1>4. [s EXCEPT ![c[i]] = x] = [k \in 1..Len(s) |-> [s EXCEPT ![c[i]] = x][k]]
  BY <1>1
<1> QED
  BY <1>2, <1>3, <1>4

\* The kernels produce as many elements as their first operand has.
LEMMA ZipFacts ==
  ASSUME NEW v \in Seq(Val), NEW w \in Seq(Val), Len(w) = Len(v)
  PROVE  /\ Zip(v, w) \in Seq(Val)
         /\ Len(Zip(v, w)) = Len(v)
<1>1. \A i \in 1..Len(v) : Op[<<v[i], w[i]>>] \in Val
  BY OpAssumption
<1>2. Zip(v, w) \in [1..Len(v) -> Val]
  BY <1>1 DEF Zip
<1> QED
  BY <1>2, SequenceIntro, SequenceElim

LEMMA ZipScalarFacts ==
  ASSUME NEW v \in Seq(Val), NEW x \in Val
  PROVE  /\ ZipScalar(v, x) \in Seq(Val)
         /\ Len(ZipScalar(v, x)) = Len(v)
<1>1. \A i \in 1..Len(v) : Op[<<v[i], x>>] \in Val
  BY OpAssumption
<1>2. ZipScalar(v, x) \in [1..Len(v) -> Val]
  BY <1>1 DEF ZipScalar
<1> QED
  BY <1>2, SequenceIntro, SequenceElim

\* A broadcast operand has the size of the target.
LEMMA StretchFacts ==
  ASSUME NEW n \in Nat, NEW w \in Seq(Val), Broadcasts(Len(w), n)
  PROVE  /\ Stretch(w, n) \in Seq(Val)
         /\ Len(Stretch(w, n)) = n
<1>1. Stretch(w, n) \in [1..n -> Val]
  BY SequenceElim DEF Stretch, Broadcasts
<1> QED
  BY <1>1, SequenceIntro

LEMMA ConstantlyFacts ==
  ASSUME NEW n \in Nat, NEW x \in Val
  PROVE  /\ Constantly(x, n) \in Seq(Val)
         /\ Len(Constantly(x, n)) = n
<1>1. Constantly(x, n) \in [1..n -> Val]
  BY DEF Constantly
<1> QED
  BY <1>1, SequenceIntro

-----------------------------------------------------------------------------
(* The invariant. *)

\* An operation in progress works on a live array.
CallOK == call = NoCall \/ (call.who \in Arr /\ Live(call.who))

RepInv == TypeOK /\ ViewsAreInOwners /\ StorageMatchesKind /\ CallOK

\* Buffers of the same sizes as the current ones.
Fits(b) ==
  /\ b \in [Arr -> Seq(Val)]
  /\ \A a \in Arr : Len(b[a]) = Len(buf[a])

-----------------------------------------------------------------------------
(* What the invariant says of one live array. *)

\* The facts about one live array that the invariant gives.
LEMMA LiveArray ==
  ASSUME RepInv, NEW a \in Arr, Live(a)
  PROVE  /\ BaseOf(a) \in Arr
         /\ Live(BaseOf(a))
         /\ obj[BaseOf(a)].kind = "owned"
         /\ ~Strided(BaseOf(a))
         /\ BaseOf(BaseOf(a)) = BaseOf(a)
         /\ obj[a].cells \in Seq(Nat)
         /\ Size(a) \in Nat
         /\ Selects(obj[a].cells, Len(buf[BaseOf(a)]))
         /\ Injective(obj[a].cells)
         /\ Strided(a) => Len(buf[a]) = Size(a)
<1>1. /\ BaseOf(a) \in Arr
      /\ obj[BaseOf(a)].kind = "owned"
      /\ Selects(obj[a].cells, Len(buf[BaseOf(a)]))
      /\ Injective(obj[a].cells)
  BY DEF RepInv, ViewsAreInOwners
<1>2. BaseOf(BaseOf(a)) = BaseOf(a)
  BY <1>1 DEF RepInv, StorageMatchesKind
<1>3. obj[a].cells \in Seq(Nat) /\ Size(a) \in Nat
  BY SequenceElim DEF RepInv, TypeOK, Size
<1>4. Strided(a) => Len(buf[a]) = Size(a)
  BY DEF RepInv, StorageMatchesKind, Strided
<1> QED
  BY <1>1, <1>2, <1>3, <1>4 DEF Live, Strided

\* What is no strided view is one stretch of the owner's buffer.
LEMMA PlainArray ==
  ASSUME RepInv, NEW a \in Arr, Live(a), ~Strided(a)
  PROVE  Consecutive(obj[a].cells)
<1>1. obj[a].kind = "owned" \/ obj[a].kind = "window"
  BY DEF Live, Strided, RepInv, TypeOK, Kinds
<1>2. CASE obj[a].kind = "owned"
  <2>1. obj[a].cells = Identity(Len(buf[a])) /\ Len(buf[a]) \in Nat
    BY <1>2, SequenceElim DEF RepInv, TypeOK, StorageMatchesKind
  <2> QED
    BY <2>1, IdentityFacts
<1>3. CASE obj[a].kind = "window"
  BY <1>3 DEF RepInv, StorageMatchesKind
<1> QED
  BY <1>1, <1>2, <1>3

\* Elements and data of a live array are lists of its size, in any buffers of
\* the current sizes.
LEMMA DataFits ==
  ASSUME RepInv, NEW a \in Arr, Live(a), NEW b, Fits(b)
  PROVE  /\ Elements(b, a) \in Seq(Val) /\ Len(Elements(b, a)) = Size(a)
         /\ Data(b, a) \in Seq(Val) /\ Len(Data(b, a)) = Size(a)
<1>1. /\ BaseOf(a) \in Arr /\ obj[a].cells \in Seq(Nat)
      /\ Selects(obj[a].cells, Len(buf[BaseOf(a)]))
      /\ Strided(a) => Len(buf[a]) = Size(a)
  BY LiveArray
<1>2. b[BaseOf(a)] \in Seq(Val) /\ Selects(obj[a].cells, Len(b[BaseOf(a)]))
  BY <1>1 DEF Fits
<1>3. Elements(b, a) \in Seq(Val) /\ Len(Elements(b, a)) = Size(a)
  BY <1>1, <1>2, GatherFacts DEF Elements, Size
<1>4. Strided(a) => b[a] \in Seq(Val) /\ Len(b[a]) = Size(a)
  BY <1>1 DEF Fits
<1> QED
  BY <1>3, <1>4 DEF Data

\* refresh, writing data and commit keep every size.
LEMMA RefreshFits ==
  ASSUME RepInv, NEW a \in Arr, Live(a), NEW b, Fits(b)
  PROVE  Fits(Refresh(b, a))
<1>1. Elements(b, a) \in Seq(Val) /\ Len(Elements(b, a)) = Size(a)
  BY DataFits
<1>2. Strided(a) => Len(buf[a]) = Size(a)
  BY LiveArray
<1> QED
  BY <1>1, <1>2 DEF Refresh, Fits

\* Writing to the cells of a view keeps the owner's buffer in size and type.
LEMMA ScatterFits ==
  ASSUME RepInv, NEW a \in Arr, Live(a), NEW b, Fits(b),
         NEW w \in Seq(Val), Len(w) = Size(a)
  PROVE  Fits([b EXCEPT ![BaseOf(a)] = Scatter(@, obj[a].cells, w)])
<1>1. BaseOf(a) \in Arr /\ obj[a].cells \in Seq(Nat)
  BY LiveArray
<1>2. b[BaseOf(a)] \in Seq(Val)
  BY <1>1 DEF Fits
<1>3. /\ Scatter(b[BaseOf(a)], obj[a].cells, w) \in Seq(Val)
      /\ Len(Scatter(b[BaseOf(a)], obj[a].cells, w)) = Len(b[BaseOf(a)])
  BY <1>1, <1>2, ScatterFacts DEF Size
<1> QED
  BY <1>1, <1>3 DEF Fits

\* Replacing the data of an array keeps every buffer in size and type.
LEMMA SetDataFits ==
  ASSUME RepInv, NEW a \in Arr, Live(a), NEW b, Fits(b),
         NEW w \in Seq(Val), Len(w) = Size(a)
  PROVE  Fits(SetData(b, a, w))
<1>1. CASE Strided(a)
  <2>1. Len(buf[a]) = Size(a)
    BY <1>1, LiveArray
  <2> QED
    BY <1>1, <2>1 DEF SetData, Fits
<1>2. CASE ~Strided(a)
  BY <1>2, ScatterFits DEF SetData
<1> QED
  BY <1>1, <1>2

\* commit() keeps every buffer in size and type.
LEMMA CommitFits ==
  ASSUME RepInv, NEW a \in Arr, Live(a), NEW b, Fits(b)
  PROVE  Fits(Commit(b, a))
<1>1. CASE Strided(a)
  <2>1. b[a] \in Seq(Val) /\ Len(b[a]) = Size(a)
    BY <1>1, LiveArray DEF Fits
  <2> QED
    BY <1>1, <2>1, ScatterFits DEF Commit
<1>2. CASE ~Strided(a)
  BY <1>2 DEF Commit
<1> QED
  BY <1>1, <1>2

\* So does a kernel's write followed by its commit.
LEMMA WrittenFits ==
  ASSUME RepInv, NEW a \in Arr, Live(a), NEW b, Fits(b),
         NEW w \in Seq(Val), Len(w) = Size(a)
  PROVE  Fits(Written(b, a, w))
  BY SetDataFits, CommitFits DEF Written

\* One element of the owner's buffer.
LEMMA ElementWriteFits ==
  ASSUME RepInv, NEW a \in Arr, Live(a), NEW i \in 1..Size(a), NEW x \in Val
  PROVE  Fits([buf EXCEPT ![BaseOf(a)][obj[a].cells[i]] = x])
<1>1. /\ BaseOf(a) \in Arr
      /\ obj[a].cells[i] \in 1..Len(buf[BaseOf(a)])
  BY LiveArray DEF Selects, Size
<1>2. buf \in [Arr -> Seq(Val)]
  BY DEF RepInv, TypeOK
<1>3. /\ [buf[BaseOf(a)] EXCEPT ![obj[a].cells[i]] = x] \in Seq(Val)
      /\ Len([buf[BaseOf(a)] EXCEPT ![obj[a].cells[i]] = x]) = Len(buf[BaseOf(a)])
  BY <1>1, <1>2, ExceptSeq
<1> QED
  BY <1>1, <1>2, <1>3 DEF Fits

\* The buffers of a state that satisfies the invariant.
LEMMA BufFits ==
  ASSUME RepInv
  PROVE  Fits(buf)
  BY DEF RepInv, TypeOK, Fits

-----------------------------------------------------------------------------
(* The caches.  A native operation leaves each cache as it was, or filled     *)
(* from the elements of before or of after the operation.                     *)

\* The buffers b are the current ones but for caches that were refreshed.
Refreshed(b) ==
  \A c \in Arr : IF Strided(c) THEN b[c] \in {buf[c], Elements(buf, c)} ELSE b[c] = buf[c]

Kept(b) ==
  \A c \in Arr : Strided(c) => b[c] \in {buf[c], Elements(buf, c), Elements(b, c)}

\* A state's own buffers count as refreshed.
LEMMA BufRefreshed ==
  Refreshed(buf)
  BY DEF Refreshed

\* Caches are nobody's memory.
LEMMA RefreshedElements ==
  ASSUME RepInv, NEW b, Refreshed(b), NEW a \in Arr, Live(a)
  PROVE  Elements(b, a) = Elements(buf, a)
<1>1. BaseOf(a) \in Arr /\ ~Strided(BaseOf(a))
  BY LiveArray
<1> QED
  BY <1>1 DEF Refreshed, Elements

\* After refresh the cache of a view holds its elements.
LEMMA RefreshRefreshes ==
  ASSUME RepInv, NEW a \in Arr, Live(a), NEW b, Fits(b), Refreshed(b)
  PROVE  Refreshed(Refresh(b, a))
<1>1. Elements(b, a) = Elements(buf, a)
  BY RefreshedElements
<1> QED
  BY <1>1 DEF Refresh, Refreshed, Fits

\* Refreshing disturbs no call in progress.
LEMMA RefreshedKept ==
  ASSUME NEW b, Refreshed(b)
  PROVE  Kept(b)
  BY DEF Refreshed, Kept

\* After a write and its commit, the cache holds what the base holds.
LEMMA WrittenKept ==
  ASSUME RepInv, NEW a \in Arr, Live(a), NEW b, Fits(b), Refreshed(b),
         NEW w \in Seq(Val), Len(w) = Size(a)
  PROVE  Kept(Written(b, a, w))
<1>1. /\ BaseOf(a) \in Arr /\ ~Strided(BaseOf(a)) /\ obj[a].cells \in Seq(Nat)
      /\ Selects(obj[a].cells, Len(buf[BaseOf(a)])) /\ Injective(obj[a].cells)
  BY LiveArray
<1>2. b \in [Arr -> Seq(Val)] /\ Len(b[BaseOf(a)]) = Len(buf[BaseOf(a)])
  BY <1>1 DEF Fits
<1>3. CASE Strided(a)
  <2> DEFINE s == Scatter(b[BaseOf(a)], obj[a].cells, w)
  <2>1. Written(b, a, w) = [[b EXCEPT ![a] = w] EXCEPT ![BaseOf(a)] = s]
    BY <1>1, <1>2, <1>3 DEF Written, SetData, Commit
  <2>2. Gather(s, obj[a].cells) = w
    BY <1>1, <1>2, GatherScatter DEF Size
  <2>3. ASSUME NEW c \in Arr, Strided(c)
        PROVE  Written(b, a, w)[c] \in {buf[c], Elements(buf, c), Elements(Written(b, a, w), c)}
    <3>1. CASE c = a
      BY <1>1, <1>2, <2>1, <2>2, <2>3, <3>1 DEF Elements
    <3>2. CASE c # a
      BY <1>1, <1>2, <2>1, <2>3, <3>2 DEF Refreshed
    <3> QED
      BY <3>1, <3>2
  <2> QED
    BY <2>3 DEF Kept
<1>4. CASE ~Strided(a)
  <2>1. Written(b, a, w) = [b EXCEPT ![BaseOf(a)] = Scatter(@, obj[a].cells, w)]
    BY <1>4 DEF Written, SetData, Commit
  <2> QED
    BY <1>1, <1>2, <2>1 DEF Kept, Refreshed
<1> QED
  BY <1>3, <1>4

\* Writing owners' memory touches no cache.
LEMMA OwnerWriteKept ==
  ASSUME RepInv, NEW a \in Arr, Live(a), NEW s
  PROVE  Kept([buf EXCEPT ![BaseOf(a)] = s])
<1>1. BaseOf(a) \in Arr /\ ~Strided(BaseOf(a))
  BY LiveArray
<1> QED
  BY <1>1 DEF Kept, RepInv, TypeOK

-----------------------------------------------------------------------------
(* The three ways to change the state. *)

\* The inductive invariant.
Inv == RepInv /\ CallsUseSeenData

\* Buffers of the current sizes keep the representation.
LEMMA BuffersKeep ==
  ASSUME RepInv, NEW b, Fits(b), buf' = b, obj' = obj, out' \in Seq(Val), CallOK',
         call' \in [who : Arr \cup {None}, early : BOOLEAN, seen : SUBSET Seq(Val)]
  PROVE  RepInv'
<1>3. TypeOK'
  BY DEF TypeOK, RepInv, Fits
<1>4. ViewsAreInOwners'
  BY DEF ViewsAreInOwners, RepInv, Fits, Live, BaseOf
<1>5. StorageMatchesKind'
  <2> SUFFICES ASSUME NEW a \in Arr
               PROVE  /\ obj[a].kind = "free"    => obj[a] = NoObject /\ b[a] = <<>>
                      /\ obj[a].kind = "owned"   => /\ BaseOf(a) = a
                                                    /\ obj[a].cells = Identity(Len(b[a]))
                      /\ obj[a].kind = "window"  => b[a] = <<>> /\ Consecutive(obj[a].cells)
                      /\ obj[a].kind = "strided" => /\ Len(b[a]) = Size(a)
                                                    /\ ~Consecutive(obj[a].cells)
    BY DEF StorageMatchesKind, BaseOf, Size
  <2>1. Len(b[a]) = Len(buf[a]) /\ b[a] \in Seq(Val) /\ buf[a] \in Seq(Val)
    BY DEF Fits, RepInv, TypeOK
  <2>2. buf[a] = <<>> => b[a] = <<>>
    BY <2>1, EmptySeq
  <2> QED
    BY <2>1, <2>2 DEF RepInv, StorageMatchesKind
<1> QED
  BY <1>3, <1>4, <1>5 DEF RepInv

\* Changing elements keeps the invariant.
LEMMA UpdateKeeps ==
  ASSUME Inv, NEW b, Fits(b), Kept(b), NEW w \in Seq(Val), Update(b, w)
  PROVE  Inv'
<1>1. RepInv /\ buf' = b /\ out' = w /\ call' = Seeing(b) /\ obj' = obj
  BY DEF Update, Inv
<1>2. call' \in [who : Arr \cup {None}, early : BOOLEAN, seen : SUBSET Seq(Val)]
  <2>1. CASE call.who = None
    BY <1>1, <2>1 DEF Seeing, RepInv, TypeOK
  <2>2. CASE call.who # None
    <3>1. call.who \in Arr /\ Live(call.who)
      BY <1>1, <2>2 DEF RepInv, CallOK, NoCall
    <3>2. Elements(b, call.who) \in Seq(Val)
      BY <1>1, <3>1, DataFits
    <3> QED
      BY <1>1, <2>2, <3>2 DEF Seeing, RepInv, TypeOK
  <2> QED
    BY <2>1, <2>2
<1>3. CallOK'
  <2>1. CASE call.who = None
    BY <1>1, <2>1, NoneAssumption DEF CallOK, RepInv, Seeing, NoCall
  <2>2. CASE call.who # None
    <3>1. call.who \in Arr /\ Live(call.who)
      BY <1>1, <2>2 DEF RepInv, CallOK, NoCall
    <3>2. call'.who = call.who
      BY <1>1, <2>2 DEF Seeing, RepInv, TypeOK
    <3> QED
      BY <1>1, <3>1, <3>2 DEF CallOK, Live
  <2> QED
    BY <2>1, <2>2
<1>4. RepInv'
  BY <1>1, <1>2, <1>3, BuffersKeep
<1>5. CallsUseSeenData'
  <2> SUFFICES ASSUME call' # NoCall
               PROVE  /\ Live(call'.who)
                      /\ Elements(b, call'.who) \in call'.seen
                      /\ call'.early => Data(b, call'.who) \in call'.seen
    BY <1>1 DEF CallsUseSeenData, Live, Elements, Data, BaseOf, Strided
  <2>1. call # NoCall /\ call.who \in Arr /\ Live(call.who) /\ call.who # None
    <3>1. NoCall.who = None
      BY DEF NoCall
    <3>2. call # NoCall
      BY <1>1, <3>1 DEF Seeing
    <3> QED
      BY <1>1, <3>2, NoneAssumption DEF RepInv, CallOK
  <2>2. /\ call'.who = call.who /\ call'.early = call.early
        /\ call'.seen = call.seen \cup {Elements(b, call.who)}
    BY <1>1, <2>1 DEF Seeing, RepInv, TypeOK
  <2>3. /\ Elements(buf, call.who) \in call.seen
        /\ call.early => Data(buf, call.who) \in call.seen
    BY <2>1 DEF Inv, CallsUseSeenData
  <2>4. CASE Strided(call.who)
    BY <2>1, <2>2, <2>3, <2>4 DEF Kept, Data
  <2>5. CASE ~Strided(call.who)
    BY <2>1, <2>2, <2>5 DEF Data
  <2> QED
    BY <2>4, <2>5
<1> QED
  BY <1>4, <1>5 DEF Inv

\* What a new array must look like.
Admissible(v, w, kind, base, cells) ==
  /\ w \in Seq(Val) /\ cells \in Seq(Nat)
  /\ \/ kind = "owned" /\ base = v /\ cells = Identity(Len(w))
     \/ /\ kind = "window" /\ w = <<>> /\ Consecutive(cells)
        /\ base \in Arr /\ obj[base].kind = "owned"
        /\ Selects(cells, Len(buf[base])) /\ Injective(cells)
     \/ /\ kind = "strided" /\ Len(w) = Len(cells) /\ ~Consecutive(cells)
        /\ base \in Arr /\ obj[base].kind = "owned"
        /\ Selects(cells, Len(buf[base])) /\ Injective(cells)

\* Adding an admissible array to buffers of the current sizes keeps the
\* invariant, whether or not a call ends with it.
LEMMA ArrivalKeeps ==
  ASSUME Inv, NEW v \in Arr, ~Live(v), NEW b, Fits(b), Refreshed(b),
         NEW w, NEW kind, NEW base, NEW cells, Admissible(v, w, kind, base, cells),
         buf' = [b EXCEPT ![v] = w],
         obj' = [obj EXCEPT ![v] = [kind |-> kind, base |-> base, cells |-> cells]],
         call' \in {call, NoCall}, out' = <<>>
  PROVE  Inv'
<1>0. RepInv
  BY DEF Inv
<1>1. /\ b \in [Arr -> Seq(Val)] /\ buf \in [Arr -> Seq(Val)]
      /\ obj \in [Arr -> [kind : Kinds, base : Arr \cup {None}, cells : Seq(Nat)]]
      /\ \A a \in Arr : Len(b[a]) = Len(buf[a])
  BY <1>0 DEF Fits, RepInv, TypeOK
<1>2. kind \in Kinds /\ base \in Arr \cup {None} /\ w \in Seq(Val) /\ cells \in Seq(Nat)
  BY DEF Admissible, Kinds
<1>3. /\ buf' \in [Arr -> Seq(Val)]
      /\ obj' \in [Arr -> [kind : Kinds, base : Arr \cup {None}, cells : Seq(Nat)]]
      /\ buf'[v] = w /\ obj'[v] = [kind |-> kind, base |-> base, cells |-> cells]
      /\ \A a \in Arr : a # v => buf'[a] = b[a] /\ obj'[a] = obj[a]
  BY <1>1, <1>2
<1>4. TypeOK'
  <2>1. call' \in [who : Arr \cup {None}, early : BOOLEAN, seen : SUBSET Seq(Val)]
    <3>1. call \in [who : Arr \cup {None}, early : BOOLEAN, seen : SUBSET Seq(Val)]
      BY <1>0 DEF TypeOK, RepInv
    <3>2. NoCall \in [who : Arr \cup {None}, early : BOOLEAN, seen : SUBSET Seq(Val)]
      BY DEF NoCall
    <3> QED
      BY <3>1, <3>2
  <2> QED
    BY <1>3, <2>1, EmptySeq DEF TypeOK
<1>5. ViewsAreInOwners'
  <2> SUFFICES ASSUME NEW a \in Arr, obj'[a].kind # "free"
               PROVE  /\ obj'[a].base \in Arr
                      /\ obj'[obj'[a].base].kind = "owned"
                      /\ Selects(obj'[a].cells, Len(buf'[obj'[a].base]))
                      /\ Injective(obj'[a].cells)
    BY DEF ViewsAreInOwners, Live, BaseOf
  <2>1. CASE a # v
    <3>1. Live(a)
      BY <1>3, <2>1 DEF Live
    <3>2. /\ obj[a].base \in Arr /\ Live(obj[a].base) /\ obj[obj[a].base].kind = "owned"
          /\ Selects(obj[a].cells, Len(buf[obj[a].base])) /\ Injective(obj[a].cells)
      BY <1>0, <3>1, LiveArray DEF BaseOf
    <3> QED
      BY <1>1, <1>3, <2>1, <3>2
  <2>2. CASE a = v /\ kind = "owned"
    <3>1. Len(w) \in Nat /\ cells = Identity(Len(w)) /\ base = v
      BY <2>2, SequenceElim DEF Admissible
    <3> QED
      BY <1>3, <2>2, <3>1, IdentityFacts
  <2>3. CASE a = v /\ kind # "owned"
    <3>1. /\ base \in Arr /\ obj[base].kind = "owned"
          /\ Selects(cells, Len(buf[base])) /\ Injective(cells)
      BY <2>3 DEF Admissible
    <3>2. base # v
      BY <3>1 DEF Live
    <3> QED
      BY <1>1, <1>3, <2>3, <3>1, <3>2
  <2> QED
    BY <2>1, <2>2, <2>3
<1>6. StorageMatchesKind'
  <2> SUFFICES ASSUME NEW a \in Arr
               PROVE  /\ obj'[a].kind = "free"    => obj'[a] = NoObject /\ buf'[a] = <<>>
                      /\ obj'[a].kind = "owned"   => /\ obj'[a].base = a
                                                     /\ obj'[a].cells = Identity(Len(buf'[a]))
                      /\ obj'[a].kind = "window"  => buf'[a] = <<>> /\ Consecutive(obj'[a].cells)
                      /\ obj'[a].kind = "strided" => /\ Len(buf'[a]) = Len(obj'[a].cells)
                                                     /\ ~Consecutive(obj'[a].cells)
    BY DEF StorageMatchesKind, BaseOf, Size
  <2>1. CASE a # v
    <3>1. Len(b[a]) = Len(buf[a]) /\ (buf[a] = <<>> => b[a] = <<>>)
      BY <1>1, EmptySeq
    <3> QED
      BY <1>0, <1>3, <2>1, <3>1 DEF RepInv, StorageMatchesKind, BaseOf, Size
  <2>2. CASE a = v
    BY <1>3, <2>2 DEF Admissible
  <2> QED
    BY <2>1, <2>2
<1>7. CallOK'
  BY <1>0, <1>3 DEF RepInv, CallOK, Live
<1>8. CallsUseSeenData'
  <2> SUFFICES ASSUME call # NoCall, call' = call
               PROVE  CallsUseSeenData'
    BY DEF CallsUseSeenData
  <2> DEFINE a == call.who
  <2>1. /\ a \in Arr /\ Live(a) /\ a # v
        /\ Elements(buf, a) \in call.seen
        /\ call.early => Data(buf, a) \in call.seen
    BY <1>0 DEF Inv, CallsUseSeenData, RepInv, CallOK
  <2>2. BaseOf(a) \in Arr /\ BaseOf(a) # v /\ ~Strided(BaseOf(a))
    BY <1>0, <2>1, LiveArray
  <2>3. obj'[a] = obj[a] /\ buf'[a] = b[a] /\ buf'[BaseOf(a)] = buf[BaseOf(a)]
    BY <1>3, <2>1, <2>2 DEF Refreshed
  <2>4. Live(a)' /\ Elements(buf, a)' = Elements(buf, a)
    BY <2>1, <2>3 DEF Live, Elements, BaseOf
  <2>5. call.early => Data(buf, a)' \in call.seen
    <3>1. CASE Strided(a)
      BY <2>1, <2>3, <3>1 DEF Data, Strided, Refreshed
    <3>2. CASE ~Strided(a)
      BY <2>1, <2>3, <2>4, <3>2 DEF Data, Strided
    <3> QED
      BY <3>1, <3>2
  <2> QED
    BY <2>1, <2>4, <2>5 DEF CallsUseSeenData
<1> QED
  BY <1>4, <1>5, <1>6, <1>7, <1>8 DEF RepInv, Inv

\* A new array with any admissible representation keeps the invariant.
LEMMA NewObjectKeeps ==
  ASSUME Inv, NEW v \in Arr, NEW w, NEW kind, NEW base, NEW cells,
         Admissible(v, w, kind, base, cells), NewObject(v, w, kind, base, cells)
  PROVE  Inv'
  BY BufFits, BufRefreshed, ArrivalKeeps DEF NewObject, Inv

\* An array with a fresh buffer keeps the invariant.
LEMMA OwnedKeeps ==
  ASSUME Inv, NEW v \in Arr, NEW w \in Seq(Val), Owned(v, w)
  PROVE  Inv'
<1> USE DEF Inv
<1>1. Identity(Len(w)) \in Seq(Nat)
  BY IdentityFacts, SequenceElim
<1>2. Admissible(v, w, "owned", v, Identity(Len(w)))
  BY <1>1 DEF Admissible
<1> QED
  BY <1>2, NewObjectKeeps DEF Owned

\* A copy taken after a refresh keeps the invariant.
LEMMA CopyIntoKeeps ==
  ASSUME Inv, NEW v \in Arr, NEW a \in Arr, Live(a), NEW w \in Seq(Val), CopyInto(v, a, w)
  PROVE  Inv'
<1> USE DEF Inv
<1>1. Fits(Refresh(buf, a)) /\ Refreshed(Refresh(buf, a))
  BY BufFits, BufRefreshed, RefreshFits, RefreshRefreshes
<1>2. Identity(Len(w)) \in Seq(Nat)
  BY IdentityFacts, SequenceElim
<1>3. Admissible(v, w, "owned", v, Identity(Len(w)))
  BY <1>2 DEF Admissible
<1> QED
  BY <1>1, <1>3, ArrivalKeeps DEF CopyInto

\* A view of distinct cells of the owner, whichever way it is stored.
LEMMA ViewKeeps ==
  ASSUME Inv, NEW v \in Arr, NEW a \in Arr, Live(a), NEW cells \in Seq(Nat),
         Selects(cells, Len(buf[BaseOf(a)])), Injective(cells), ViewFromLayout(v, a, cells)
  PROVE  Inv'
<1> USE DEF Inv
<1>1. BaseOf(a) \in Arr /\ obj[BaseOf(a)].kind = "owned"
  BY LiveArray
<1>2. CASE cells = <<>>
  BY <1>2, EmptySeq, OwnedKeeps DEF ViewFromLayout
<1>3. CASE cells # <<>> /\ Consecutive(cells)
  <2>1. Admissible(v, <<>>, "window", BaseOf(a), cells)
    BY <1>1, <1>3, EmptySeq DEF Admissible
  <2> QED
    BY <1>3, <2>1, NewObjectKeeps DEF ViewFromLayout
<1>4. CASE cells # <<>> /\ ~Consecutive(cells)
  <2>1. /\ Constantly(Zero, Len(cells)) \in Seq(Val)
        /\ Len(Constantly(Zero, Len(cells))) = Len(cells)
    BY ConstantlyFacts, ZeroAssumption, SequenceElim
  <2>2. Admissible(v, Constantly(Zero, Len(cells)), "strided", BaseOf(a), cells)
    BY <1>1, <1>4, <2>1 DEF Admissible
  <2> QED
    BY <1>4, <2>2, NewObjectKeeps DEF ViewFromLayout
<1> QED
  BY <1>2, <1>3, <1>4

-----------------------------------------------------------------------------
(* The operations. *)

\* The index lists of indexing operations are injective lists of cells.
LEMMA SelectionFacts ==
  ASSUME NEW sel \in Selections
  PROVE  sel \in Seq(Nat) /\ Injective(sel)
  BY SelectionsAssumption

\* array(), zeros(), ndarray().
LEMMA CreateKeeps ==
  ASSUME Inv, NEW v \in Arr, NEW w \in Contents, Create(v, w)
  PROVE  Inv'
  BY ContentsAssumption, OwnedKeeps DEF Create

\* a[i:j:k] and a.T: picking cells of a view gives distinct cells of the owner.
LEMMA IndexKeeps ==
  ASSUME Inv, NEW v \in Arr, NEW a \in Arr, NEW sel \in Selections, Index(v, a, sel)
  PROVE  Inv'
<1> USE DEF Inv
<1>1. Live(a) /\ Selects(sel, Len(obj[a].cells))
  BY DEF Index, Size
<1>2. /\ obj[a].cells \in Seq(Nat) /\ Injective(obj[a].cells)
      /\ Selects(obj[a].cells, Len(buf[BaseOf(a)]))
      /\ BaseOf(a) \in Arr
  BY <1>1, LiveArray
<1>3. Len(buf[BaseOf(a)]) \in Nat
  BY <1>2, SequenceElim DEF RepInv, TypeOK
<1>4. /\ Pick(obj[a].cells, sel) \in Seq(Nat) /\ Injective(Pick(obj[a].cells, sel))
      /\ Selects(Pick(obj[a].cells, sel), Len(buf[BaseOf(a)]))
  BY <1>1, <1>2, <1>3, SelectionFacts, PickOfCells
<1> QED
  BY <1>1, <1>4, ViewKeeps DEF Index

\* Views that NumPy made of the owner's memory.
LEMMA ViewOfNumpyKeeps ==
  ASSUME Inv, NEW v \in Arr, NEW a \in Arr, NEW sel \in Selections, ViewOfNumpy(v, a, sel)
  PROVE  Inv'
<1> USE DEF Inv
<1>1. BaseOf(a) \in Arr /\ Live(BaseOf(a)) /\ BaseOf(BaseOf(a)) = BaseOf(a)
  BY LiveArray DEF ViewOfNumpy
<1> QED
  BY <1>1, SelectionFacts, ViewKeeps DEF ViewOfNumpy

\* reshape(): a window again, or a copy of a strided view.
LEMMA ReshapeKeeps ==
  ASSUME Inv, NEW v \in Arr, NEW a \in Arr, Reshape(v, a)
  PROVE  Inv'
<1> USE DEF Inv
<1>1. Live(a)
  BY DEF Reshape
<1>2. CASE Strided(a)
  <2>1. Data(Refresh(buf, a), a) \in Seq(Val)
    BY <1>1, BufFits, RefreshFits, DataFits
  <2> QED
    BY <1>1, <1>2, <2>1, CopyIntoKeeps DEF Reshape
<1>3. CASE ~Strided(a)
  <2>1. /\ BaseOf(a) \in Arr /\ obj[BaseOf(a)].kind = "owned"
        /\ obj[a].cells \in Seq(Nat) /\ Injective(obj[a].cells)
        /\ Selects(obj[a].cells, Len(buf[BaseOf(a)]))
    BY <1>1, LiveArray
  <2>2. Consecutive(obj[a].cells)
    BY <1>1, <1>3, PlainArray
  <2>3. Admissible(v, <<>>, "window", BaseOf(a), obj[a].cells)
    BY <2>1, <2>2, EmptySeq DEF Admissible
  <2> QED
    BY <1>3, <2>3, NewObjectKeeps DEF Reshape
<1> QED
  BY <1>2, <1>3

\* copy() and its relatives.
LEMMA CopyArrayKeeps ==
  ASSUME Inv, NEW v \in Arr, NEW a \in Arr, CopyArray(v, a)
  PROVE  Inv'
<1> USE DEF Inv
<1>1. Live(a)
  BY DEF CopyArray
<1>2. Data(Refresh(buf, a), a) \in Seq(Val)
  BY <1>1, BufFits, RefreshFits, DataFits
<1> QED
  BY <1>1, <1>2, CopyIntoKeeps DEF CopyArray

\* Fancy indexing copies.
LEMMA TakeKeeps ==
  ASSUME Inv, NEW v \in Arr, NEW a \in Arr, NEW sel \in Selections, Take(v, a, sel)
  PROVE  Inv'
<1> USE DEF Inv
<1>1. Live(a) /\ Selects(sel, Size(a))
  BY DEF Take
<1>2. Data(Refresh(buf, a), a) \in Seq(Val) /\ Len(Data(Refresh(buf, a), a)) = Size(a)
  BY <1>1, BufFits, RefreshFits, DataFits
<1>3. Pick(Data(Refresh(buf, a), a), sel) \in Seq(Val)
  BY <1>1, <1>2, SelectionFacts, PickFacts
<1> QED
  BY <1>1, <1>3, CopyIntoKeeps DEF Take

\* Reading changes nothing but caches.
LEMMA ReadsKeep ==
  ASSUME Inv, NEW a \in Arr,
         \/ ReadArray(a)
         \/ NumpyRead(a)
         \/ \E i \in 1..Size(a) : GetItem(a, i)
  PROVE  Inv'
<1> USE DEF Inv
<1>1. Live(a)
  BY DEF ReadArray, NumpyRead, GetItem
<1>2. /\ Fits(buf) /\ Fits(Refresh(buf, a))
      /\ Data(Refresh(buf, a), a) \in Seq(Val) /\ Elements(buf, a) \in Seq(Val)
      /\ Data(buf, a) \in Seq(Val) /\ Len(Data(buf, a)) = Size(a)
      /\ Kept(buf) /\ Kept(Refresh(buf, a))
  BY <1>1, BufFits, RefreshFits, DataFits, BufRefreshed, RefreshRefreshes, RefreshedKept
<1>3. CASE ReadArray(a)
  BY <1>2, <1>3, UpdateKeeps DEF ReadArray
<1>4. CASE NumpyRead(a)
  BY <1>2, <1>4, UpdateKeeps DEF NumpyRead
<1>5. ASSUME NEW i \in 1..Size(a), GetItem(a, i)
      PROVE  Inv'
  <2>1. Data(buf, a)[i] \in Val
    BY <1>2, SequenceElim
  <2>2. buf[BaseOf(a)][obj[a].cells[i]] \in Val
    BY <1>1, <1>2, LiveArray, SequenceElim DEF Fits, Selects, Size
  <2>3. /\ <<Data(buf, a)[i]>> \in Seq(Val)
        /\ <<buf[BaseOf(a)][obj[a].cells[i]]>> \in Seq(Val)
    BY <2>1, <2>2
  <2> QED
    BY <1>2, <1>5, <2>3, UpdateKeeps DEF GetItem
<1> QED
  BY <1>3, <1>4, <1>5

\* Writing one element goes to the owner's buffer.
LEMMA ItemWritesKeep ==
  ASSUME Inv, NEW a \in Arr, NEW x \in Val, NEW i \in 1..Size(a),
         SetItem(a, i, x) \/ NumpyWrite(a, i, x)
  PROVE  Inv'
<1> USE DEF Inv
<1>1. Live(a)
  BY DEF SetItem, NumpyWrite
<1>2. /\ Fits([buf EXCEPT ![BaseOf(a)][obj[a].cells[i]] = x])
      /\ Kept([buf EXCEPT ![BaseOf(a)][obj[a].cells[i]] = x])
  BY <1>1, ElementWriteFits, OwnerWriteKept
<1>3. /\ Fits(SetData(buf, a, [Data(buf, a) EXCEPT ![i] = x]))
      /\ ~Strided(a) => Kept(SetData(buf, a, [Data(buf, a) EXCEPT ![i] = x]))
  <2>1. Data(buf, a) \in Seq(Val) /\ Len(Data(buf, a)) = Size(a)
    BY <1>1, BufFits, DataFits
  <2>2. /\ [Data(buf, a) EXCEPT ![i] = x] \in Seq(Val)
        /\ Len([Data(buf, a) EXCEPT ![i] = x]) = Size(a)
    BY <2>1, ExceptSeq
  <2> QED
    BY <1>1, <2>2, BufFits, SetDataFits, OwnerWriteKept DEF SetData
<1>4. <<x>> \in Seq(Val)
  OBVIOUS
<1> QED
  BY <1>2, <1>3, <1>4, UpdateKeeps DEF SetItem, NumpyWrite

\* fill() writes and commits.
LEMMA FillKeeps ==
  ASSUME Inv, NEW a \in Arr, NEW x \in Val, Fill(a, x)
  PROVE  Inv'
<1> USE DEF Inv
<1>1. Live(a) /\ Size(a) \in Nat
  BY LiveArray DEF Fill
<1>2. /\ Constantly(x, Size(a)) \in Seq(Val)
      /\ Len(Constantly(x, Size(a))) = Size(a)
  BY <1>1, ConstantlyFacts
<1>3. Fits(Refresh(buf, a)) /\ Refreshed(Refresh(buf, a))
  BY <1>1, BufFits, BufRefreshed, RefreshFits, RefreshRefreshes
<1>4. /\ Fits(Written(Refresh(buf, a), a, Constantly(x, Size(a))))
      /\ Kept(Written(Refresh(buf, a), a, Constantly(x, Size(a))))
  BY <1>1, <1>2, <1>3, WrittenFits, WrittenKept
<1> QED
  BY <1>2, <1>4, UpdateKeeps DEF Fill

\* a OP= x writes and commits.
LEMMA InplaceScalarKeeps ==
  ASSUME Inv, NEW a \in Arr, NEW x \in Val, InplaceScalar(a, x)
  PROVE  Inv'
<1> USE DEF Inv
<1> DEFINE b == Refresh(buf, a)
<1>1. Live(a)
  BY DEF InplaceScalar
<1>2. Fits(b) /\ Refreshed(b) /\ Data(b, a) \in Seq(Val) /\ Len(Data(b, a)) = Size(a)
  BY <1>1, BufFits, BufRefreshed, RefreshFits, RefreshRefreshes, DataFits
<1>3. /\ ZipScalar(Data(b, a), x) \in Seq(Val)
      /\ Len(ZipScalar(Data(b, a), x)) = Size(a)
  BY <1>2, ZipScalarFacts
<1>4. /\ Fits(Written(b, a, ZipScalar(Data(b, a), x)))
      /\ Kept(Written(b, a, ZipScalar(Data(b, a), x)))
  BY <1>1, <1>2, <1>3, WrittenFits, WrittenKept
<1> QED
  BY <1>3, <1>4, UpdateKeeps DEF InplaceScalar

\* a OP= b, overlapping or not, writes data of the right size and type.
LEMMA InplaceArrayKeeps ==
  ASSUME Inv, NEW a \in Arr, NEW b \in Arr, InplaceArray(a, b)
  PROVE  Inv'
<1> USE DEF Inv
<1> DEFINE s == Refresh(Refresh(buf, b), a)
<1>1. Live(a) /\ Live(b) /\ Broadcasts(Size(b), Size(a)) /\ Size(a) \in Nat /\ Size(b) \in Nat
  BY LiveArray DEF InplaceArray
<1>2. Fits(s) /\ Refreshed(s)
  BY <1>1, BufFits, BufRefreshed, RefreshFits, RefreshRefreshes
<1>3. /\ Data(s, a) \in Seq(Val) /\ Len(Data(s, a)) = Size(a)
      /\ Data(s, b) \in Seq(Val) /\ Len(Data(s, b)) = Size(b)
  BY <1>1, <1>2, DataFits
<1>4. PICK w \in OperandReads(s, a, b) :
        Update(Written(s, a, Zip(Data(s, a), Stretch(w, Size(a)))),
               Zip(Data(s, a), Stretch(w, Size(a))))
  BY DEF InplaceArray
<1>5. w \in Seq(Val) /\ Len(w) = Size(b)
  BY <1>1, <1>3, <1>4, SequenceIntro DEF OperandReads
<1>6. Stretch(w, Size(a)) \in Seq(Val) /\ Len(Stretch(w, Size(a))) = Size(a)
  BY <1>1, <1>5, StretchFacts
<1>7. /\ Zip(Data(s, a), Stretch(w, Size(a))) \in Seq(Val)
      /\ Len(Zip(Data(s, a), Stretch(w, Size(a)))) = Size(a)
  BY <1>3, <1>6, ZipFacts
<1>8. /\ Fits(Written(s, a, Zip(Data(s, a), Stretch(w, Size(a)))))
      /\ Kept(Written(s, a, Zip(Data(s, a), Stretch(w, Size(a)))))
  BY <1>1, <1>2, <1>7, WrittenFits, WrittenKept
<1> QED
  BY <1>4, <1>7, <1>8, UpdateKeeps

\* A failing in-place operator only refreshes.
LEMMA InplaceFailsKeeps ==
  ASSUME Inv, NEW a \in Arr, NEW b \in Arr, InplaceFails(a, b)
  PROVE  Inv'
<1> USE DEF Inv
<1>1. Fits(Refresh(Refresh(buf, b), a)) /\ Kept(Refresh(Refresh(buf, b), a))
  BY BufFits, BufRefreshed, RefreshFits, RefreshRefreshes, RefreshedKept DEF InplaceFails
<1> QED
  BY <1>1, EmptySeq, UpdateKeeps DEF InplaceFails

\* An operation starts: what its cache holds is what its array holds.
LEMMA BeginEarlyKeeps ==
  ASSUME Inv, NEW a \in Arr, BeginEarly(a)
  PROVE  Inv'
<1> USE DEF Inv
<1>1. /\ Live(a) /\ buf' = Refresh(buf, a) /\ obj' = obj /\ out' = <<>>
      /\ call' = [who |-> a, early |-> TRUE, seen |-> {Elements(buf, a)}]
  BY DEF BeginEarly
<1>2. Fits(buf') /\ Elements(buf, a) \in Seq(Val) /\ Elements(buf', a) = Elements(buf, a)
  BY <1>1, BufFits, BufRefreshed, RefreshFits, RefreshRefreshes, RefreshedElements, DataFits
<1>3. RepInv'
  <2>1. CallOK'
    BY <1>1 DEF CallOK, Live
  <2>2. call' \in [who : Arr \cup {None}, early : BOOLEAN, seen : SUBSET Seq(Val)]
    BY <1>1, <1>2
  <2> QED
    BY <1>1, <1>2, <2>1, <2>2, EmptySeq, BuffersKeep
<1>4. Data(buf', a) = Elements(buf, a)
  BY <1>1, <1>2 DEF Data, Refresh, RepInv, TypeOK
<1>5. CallsUseSeenData'
  BY <1>1, <1>2, <1>4 DEF CallsUseSeenData, Live, Elements, Data, BaseOf, Strided
<1> QED
  BY <1>3, <1>5

\* An operation starts that will refresh its operand later.
LEMMA BeginLateKeeps ==
  ASSUME Inv, NEW a \in Arr, BeginLate(a)
  PROVE  Inv'
<1> USE DEF Inv
<1>1. /\ Live(a) /\ buf' = buf /\ obj' = obj /\ out' = <<>>
      /\ call' = [who |-> a, early |-> FALSE, seen |-> {Elements(buf, a)}]
  BY DEF BeginLate
<1>2. Fits(buf) /\ Elements(buf, a) \in Seq(Val)
  BY <1>1, BufFits, DataFits
<1>3. RepInv'
  <2>1. CallOK'
    BY <1>1 DEF CallOK, Live
  <2>2. call' \in [who : Arr \cup {None}, early : BOOLEAN, seen : SUBSET Seq(Val)]
    BY <1>1, <1>2
  <2> QED
    BY <1>1, <1>2, <2>1, <2>2, EmptySeq, BuffersKeep
<1>4. CallsUseSeenData'
  BY <1>1 DEF CallsUseSeenData, Live, Elements, BaseOf
<1> QED
  BY <1>3, <1>4

\* A call ends with the reshaped array: the cache it copies has the size of the
\* view, whatever it holds.
LEMMA ReturnReshapedKeeps ==
  ASSUME Inv, NEW v \in Arr, ReturnReshaped(v)
  PROVE  Inv'
<1> USE DEF Inv
<1> DEFINE a == call.who
<1>1. /\ ~Live(v) /\ call' = NoCall /\ out' = <<>>
      /\ a \in Arr /\ Live(a)
  BY DEF ReturnReshaped, RepInv, CallOK
<1>2. CASE Strided(a)
  <2>1. buf[a] \in Seq(Val)
    BY <1>1 DEF RepInv, TypeOK
  <2>2. Identity(Len(buf[a])) \in Seq(Nat)
    BY <2>1, IdentityFacts, SequenceElim
  <2>3. Admissible(v, buf[a], "owned", v, Identity(Len(buf[a])))
    BY <2>1, <2>2 DEF Admissible
  <2>4. /\ buf' = [buf EXCEPT ![v] = buf[a]]
        /\ obj' = [obj EXCEPT ![v] = [kind |-> "owned", base |-> v,
                                     cells |-> Identity(Len(buf[a]))]]
    BY <1>2 DEF ReturnReshaped
  <2> QED
    BY <1>1, <2>3, <2>4, BufFits, BufRefreshed, ArrivalKeeps
<1>3. CASE ~Strided(a)
  <2>1. /\ BaseOf(a) \in Arr /\ obj[BaseOf(a)].kind = "owned"
        /\ obj[a].cells \in Seq(Nat) /\ Injective(obj[a].cells)
        /\ Selects(obj[a].cells, Len(buf[BaseOf(a)]))
    BY <1>1, LiveArray
  <2>2. Consecutive(obj[a].cells)
    BY <1>1, <1>3, PlainArray
  <2>3. Admissible(v, <<>>, "window", BaseOf(a), obj[a].cells)
    BY <2>1, <2>2, EmptySeq DEF Admissible
  <2>4. /\ buf' = buf
        /\ obj' = [obj EXCEPT ![v] = [kind |-> "window", base |-> BaseOf(a),
                                     cells |-> obj[a].cells]]
    BY <1>3 DEF ReturnReshaped
  <2>5. buf' = [buf EXCEPT ![v] = <<>>]
    <3>1. buf[v] = <<>> /\ buf \in [Arr -> Seq(Val)]
      BY <1>1 DEF Live, RepInv, TypeOK, StorageMatchesKind
    <3> QED
      BY <2>4, <3>1
  <2> QED
    BY <1>1, <2>3, <2>4, <2>5, BufFits, BufRefreshed, ArrivalKeeps
<1> QED
  BY <1>2, <1>3

\* An operation ends.
LEMMA EndKeeps ==
  ASSUME Inv, Abandon \/ \E x \in Val : Return(x)
  PROVE  Inv'
<1> USE DEF Inv
<1>1. call # NoCall /\ call' = NoCall /\ obj' = obj
  BY DEF Abandon, Return
<1>2. call.who \in Arr /\ Live(call.who)
  BY <1>1 DEF RepInv, CallOK
<1>3. Fits(buf') /\ out' \in Seq(Val)
  <2>1. CASE Abandon
    BY <2>1, BufFits, EmptySeq DEF Abandon
  <2>2. ASSUME NEW x \in Val, Return(x)
        PROVE  Fits(buf') /\ out' \in Seq(Val)
    <3>1. Fits(buf) /\ Fits(Refresh(buf, call.who))
      BY <1>2, BufFits, RefreshFits
    <3>2. Fits(buf') /\ out' = ZipScalar(Data(buf', call.who), x)
      BY <2>2, <3>1 DEF Return
    <3> QED
      BY <1>2, <3>2, DataFits, ZipScalarFacts
  <2> QED
    BY <2>1, <2>2
<1>4. CallOK' /\ CallsUseSeenData'
  BY <1>1 DEF CallOK, CallsUseSeenData
<1>5. call' \in [who : Arr \cup {None}, early : BOOLEAN, seen : SUBSET Seq(Val)]
  BY <1>1 DEF NoCall
<1> QED
  BY <1>1, <1>3, <1>4, <1>5, BuffersKeep

-----------------------------------------------------------------------------
(* The theorems. *)

\* There are no arrays at first.
LEMMA InitInv ==
  ASSUME Init
  PROVE  Inv
<1>1. NoCall \in [who : Arr \cup {None}, early : BOOLEAN, seen : SUBSET Seq(Val)]
  BY DEF NoCall
<1>2. NoObject \in [kind : Kinds, base : Arr \cup {None}, cells : Seq(Nat)]
  BY EmptySeq DEF NoObject, Kinds
<1>3. TypeOK
  BY <1>1, <1>2, EmptySeq DEF Init, TypeOK
<1>4. \A a \in Arr : obj[a] = NoObject /\ buf[a] = <<>> /\ obj[a].kind = "free"
  BY DEF Init, NoObject
<1>5. ViewsAreInOwners /\ StorageMatchesKind
  BY <1>4 DEF ViewsAreInOwners, StorageMatchesKind, Live
<1>6. CallOK /\ CallsUseSeenData
  BY DEF Init, CallOK, CallsUseSeenData
<1> QED
  BY <1>3, <1>5, <1>6 DEF Inv, RepInv

\* Every operation preserves the invariant.
LEMMA NextInv ==
  ASSUME Inv, [Next]_vars
  PROVE  Inv'
<1>1. CASE UNCHANGED vars
  BY <1>1 DEF vars, Inv, RepInv, TypeOK, ViewsAreInOwners, StorageMatchesKind, CallOK,
              CallsUseSeenData, Live, BaseOf, Size, Strided, Elements, Data
<1>2. CASE AtomicNext
  BY <1>2, CreateKeeps, IndexKeeps, ViewOfNumpyKeeps, ReshapeKeeps, CopyArrayKeeps, TakeKeeps,
     ReadsKeep, ItemWritesKeep, FillKeeps, InplaceScalarKeeps, InplaceArrayKeeps,
     InplaceFailsKeeps DEF AtomicNext
<1>3. CASE CallNext
  BY <1>3, BeginEarlyKeeps, BeginLateKeeps, EndKeeps, ReturnReshapedKeeps DEF CallNext
<1> QED
  BY <1>1, <1>2, <1>3 DEF Next

\* The invariant holds in every reachable state.
THEOREM Invariance == Spec => []Inv
<1>1. Init => Inv
  BY InitInv
<1>2. Inv /\ [Next]_vars => Inv'
  BY NextInv
<1> QED
  BY <1>1, <1>2, PTL DEF Spec

\* The state is always well typed.
THEOREM TypeCorrectness == Spec => []TypeOK
<1>1. Inv => TypeOK
  BY DEF Inv, RepInv
<1> QED
  BY <1>1, Invariance, PTL

\* Whatever chain of slices, transposes and reshapes created it, a view's
\* cells lie in the buffer of an owner: the memory safety of view_from_layout,
\* refresh and commit.
THEOREM ViewsStayInOwners == Spec => []ViewsAreInOwners
<1>1. Inv => ViewsAreInOwners
  BY DEF Inv, RepInv
<1> QED
  BY <1>1, Invariance, PTL

\* Every array is stored the way its kind says.
THEOREM StorageCorrectness == Spec => []StorageMatchesKind
<1>1. Inv => StorageMatchesKind
  BY DEF Inv, RepInv
<1> QED
  BY <1>1, Invariance, PTL

\* An operation interrupted by Python code never computes from data its array
\* did not have at some point since it began.
THEOREM CallsAreSound == Spec => []CallsUseSeenData
<1>1. Inv => CallsUseSeenData
  BY DEF Inv
<1> QED
  BY <1>1, Invariance, PTL

-----------------------------------------------------------------------------
(* What the buffers stand for. *)

MemoryOf(b) == [a \in Arr |-> IF obj[a].kind = "owned" THEN b[a] ELSE <<>>]

-----------------------------------------------------------------------------

\* Both modules work on the data of ArrayData.
LEMMA SameData ==
  /\ \A s, c : Shared!Gather(s, c) = Gather(s, c)
  /\ \A s, c, w : Shared!Scatter(s, c, w) = Scatter(s, c, w)
  /\ \A s, sel : Shared!Pick(s, sel) = Pick(s, sel)
  /\ \A sel, n : Shared!Selects(sel, n) <=> Selects(sel, n)
  /\ \A n : Shared!Identity(n) = Identity(n)
  /\ \A c : Shared!Consecutive(c) <=> Consecutive(c)
  /\ \A m, n : Shared!Broadcasts(m, n) <=> Broadcasts(m, n)
  /\ \A w, n : Shared!Stretch(w, n) = Stretch(w, n)
  /\ \A v, w : Shared!Zip(v, w) = Zip(v, w)
  /\ \A v, x : Shared!ZipScalar(v, x) = ZipScalar(v, x)
  /\ \A x, n : Shared!Constantly(x, n) = Constantly(x, n)
<1>1. /\ \A s, sel : Shared!Pick(s, sel) = Pick(s, sel)
      /\ \A s, c : Shared!Gather(s, c) = Gather(s, c)
  BY DEF Shared!Pick, Pick, Shared!Gather, Gather
<1>2. \A s, c, w : Shared!Scatter(s, c, w) = Scatter(s, c, w)
  BY DEF Shared!Scatter, Scatter
<1>3. /\ \A sel, n : Shared!Selects(sel, n) <=> Selects(sel, n)
      /\ \A c : Shared!Consecutive(c) <=> Consecutive(c)
      /\ \A m, n : Shared!Broadcasts(m, n) <=> Broadcasts(m, n)
  BY DEF Shared!Selects, Selects, Shared!Consecutive, Consecutive,
         Shared!Broadcasts, Broadcasts
<1>4. /\ \A n : Shared!Identity(n) = Identity(n)
      /\ \A w, n : Shared!Stretch(w, n) = Stretch(w, n)
      /\ \A v, w : Shared!Zip(v, w) = Zip(v, w)
      /\ \A v, x : Shared!ZipScalar(v, x) = ZipScalar(v, x)
      /\ \A x, n : Shared!Constantly(x, n) = Constantly(x, n)
  BY DEF Shared!Identity, Identity, Shared!Stretch, Stretch, Shared!Zip, Zip,
         Shared!ZipScalar, ZipScalar, Shared!Constantly, Constantly
<1> QED
  BY <1>1, <1>2, <1>3, <1>4

-----------------------------------------------------------------------------
(* Arrays, seen from SharedMemory. *)

\* A live array exists, with its size and cells, and reads its elements.
LEMMA SharedArray ==
  ASSUME RepInv, NEW a \in Arr, Live(a)
  PROVE  /\ Arrays[a].base = BaseOf(a)
         /\ Arrays[a].cells = obj[a].cells
         /\ Shared!Exists(a)
         /\ Shared!Size(a) = Size(a)
         /\ \A b : Shared!Values(MemoryOf(b), a) = Elements(b, a)
<1>1. Arrays[a].base = BaseOf(a) /\ Arrays[a].cells = obj[a].cells
  BY DEF Arrays, BaseOf
<1>2. BaseOf(a) \in Arr /\ obj[BaseOf(a)].kind = "owned"
  BY LiveArray
<1>3. Shared!Exists(a)
  BY <1>1, <1>2, NoneAssumption DEF Shared!Exists
<1>4. Shared!Size(a) = Size(a)
  BY <1>1 DEF Shared!Size, Size
<1>5. ASSUME NEW b
      PROVE  Shared!Values(MemoryOf(b), a) = Elements(b, a)
  <2>1. MemoryOf(b)[BaseOf(a)] = b[BaseOf(a)]
    BY <1>2 DEF MemoryOf
  <2> QED
    BY <1>1, <2>1, SameData DEF Shared!Values, Elements
<1> QED
  BY <1>1, <1>3, <1>4, <1>5

\* A free object is no array.
LEMMA SharedFree ==
  ASSUME RepInv, NEW v \in Arr, ~Live(v)
  PROVE  ~Shared!Exists(v)
<1>1. obj[v] = NoObject
  BY DEF RepInv, StorageMatchesKind, Live
<1> QED
  BY <1>1 DEF Shared!Exists, Arrays, NoObject

\* The memory does not depend on caches.
LEMMA RefreshedMemory ==
  ASSUME NEW b, Refreshed(b)
  PROVE  MemoryOf(b) = Memory
  BY DEF Refreshed, Strided, MemoryOf, Memory

\* The elements of an array are what it reads in the current memory.
LEMMA SharedValues ==
  ASSUME RepInv, NEW a \in Arr, Live(a)
  PROVE  Shared!Values(Memory, a) = Elements(buf, a)
  BY SharedArray, RefreshedMemory, BufRefreshed

\* A write and its commit change the cells of the array, and nothing else.
LEMMA WrittenMemory ==
  ASSUME RepInv, NEW a \in Arr, Live(a), NEW b, Fits(b), Refreshed(b),
         NEW w \in Seq(Val), Len(w) = Size(a)
  PROVE  MemoryOf(Written(b, a, w)) =
           [Memory EXCEPT ![BaseOf(a)] = Scatter(@, obj[a].cells, w)]
<1>1. /\ BaseOf(a) \in Arr /\ obj[BaseOf(a)].kind = "owned" /\ ~Strided(BaseOf(a))
  BY LiveArray
<1>2. b \in [Arr -> Seq(Val)]
  BY DEF Fits
<1> DEFINE s == Scatter(b[BaseOf(a)], obj[a].cells, w)
<1>3. /\ Written(b, a, w)[BaseOf(a)] = s
      /\ \A c \in Arr : c # BaseOf(a) /\ ~Strided(c) => Written(b, a, w)[c] = b[c]
  <2>1. CASE Strided(a)
    <3>1. Written(b, a, w) = [[b EXCEPT ![a] = w] EXCEPT ![BaseOf(a)] = s]
      BY <1>1, <1>2, <2>1 DEF Written, SetData, Commit
    <3> QED
      BY <1>1, <1>2, <2>1, <3>1
  <2>2. CASE ~Strided(a)
    BY <1>1, <1>2, <2>2 DEF Written, SetData, Commit
  <2> QED
    BY <2>1, <2>2
<1>4. \A c \in Arr : obj[c].kind = "owned" => ~Strided(c) /\ b[c] = buf[c]
  BY DEF Strided, Refreshed
<1>5. /\ Memory[BaseOf(a)] = b[BaseOf(a)]
      /\ Memory \in [Arr -> Seq(Val) \cup {<<>>}]
  BY <1>1, <1>4 DEF Memory, RepInv, TypeOK
<1>6. ASSUME NEW c \in Arr
      PROVE  MemoryOf(Written(b, a, w))[c] = [Memory EXCEPT ![BaseOf(a)] = s][c]
  <2>1. CASE c = BaseOf(a)
    BY <1>1, <1>3, <1>5, <2>1 DEF MemoryOf
  <2>2. CASE c # BaseOf(a)
    BY <1>3, <1>4, <1>5, <2>2 DEF MemoryOf, Memory
  <2> QED
    BY <2>1, <2>2
<1>7. MemoryOf(Written(b, a, w)) = [Memory EXCEPT ![BaseOf(a)] = s]
  BY <1>5, <1>6 DEF MemoryOf
<1> QED
  BY <1>1, <1>5, <1>7

-----------------------------------------------------------------------------
(* Update: reading and writing. *)

\* The shared memory after an operation that leaves the arrays alone.
LEMMA UpdateMaps ==
  ASSUME RepInv, NEW b, Fits(b), NEW w, Update(b, w)
  PROVE  /\ Memory' = MemoryOf(b)
         /\ Arrays' = Arrays
         /\ Pending' = Shared!Seeing(MemoryOf(b))
         /\ out' = w
<1>1. buf' = b /\ obj' = obj /\ call' = Seeing(b) /\ out' = w
  BY DEF Update
<1>2. Memory' = MemoryOf(b) /\ Arrays' = Arrays
  BY <1>1 DEF Memory, MemoryOf, Arrays
<1>3. Pending' = Shared!Seeing(MemoryOf(b))
  <2>1. CASE call.who = None
    BY <1>1, <2>1 DEF Pending, Seeing, Shared!Seeing
  <2>2. CASE call.who # None
    <3>1. call.who \in Arr /\ Live(call.who)
      BY <2>2 DEF RepInv, CallOK, NoCall
    <3>2. Shared!Values(MemoryOf(b), call.who) = Elements(b, call.who)
      BY <3>1, SharedArray
    <3>3. call' = [call EXCEPT !.seen = @ \cup {Elements(b, call.who)}]
      BY <1>1, <2>2 DEF Seeing
    <3>4. call'.who = call.who /\ call'.seen = call.seen \cup {Elements(b, call.who)}
      BY <3>3 DEF RepInv, TypeOK
    <3> QED
      BY <2>2, <3>2, <3>4 DEF Pending, Shared!Seeing
  <2> QED
    BY <2>1, <2>2
<1> QED
  BY <1>1, <1>2, <1>3

\* An operation that only refreshes caches is a read.
LEMMA ReadMaps ==
  ASSUME Inv, NEW b, Fits(b), Refreshed(b), NEW w, Update(b, w)
  PROVE  Shared!Result(w)
<1>1. /\ Memory' = MemoryOf(b) /\ Arrays' = Arrays /\ out' = w
      /\ Pending' = Shared!Seeing(MemoryOf(b))
  BY UpdateMaps DEF Inv
<1>2. MemoryOf(b) = Memory
  BY RefreshedMemory
<1>3. Shared!Seeing(MemoryOf(b)) = Pending
  <2>1. CASE call.who = None
    BY <2>1 DEF Shared!Seeing, Pending
  <2>2. CASE call.who # None
    <3>1. call # NoCall /\ call.who \in Arr /\ Live(call.who)
      BY <2>2 DEF Inv, RepInv, CallOK, NoCall
    <3>2. Elements(buf, call.who) \in call.seen
      BY <3>1 DEF Inv, CallsUseSeenData
    <3>3. Shared!Values(MemoryOf(b), call.who) \in call.seen
      BY <1>2, <3>1, <3>2, SharedValues DEF Inv
    <3> QED
      BY <2>2, <3>3 DEF Shared!Seeing, Pending
  <2> QED
    BY <2>1, <2>2
<1> QED
  BY <1>1, <1>2, <1>3 DEF Shared!Result

\* A kernel that replaces the data of an array, with its commit, is a write.
LEMMA WriteMaps ==
  ASSUME Inv, NEW a \in Arr, Live(a), NEW b, Fits(b), Refreshed(b),
         NEW w \in Seq(Val), Len(w) = Size(a), NEW x, Update(Written(b, a, w), x)
  PROVE  Shared!Write(a, w, x)
<1> USE DEF Inv
<1>1. Fits(Written(b, a, w))
  BY WrittenFits
<1>2. /\ Memory' = MemoryOf(Written(b, a, w)) /\ Arrays' = Arrays /\ out' = x
      /\ Pending' = Shared!Seeing(MemoryOf(Written(b, a, w)))
  BY <1>1, UpdateMaps
<1>3. MemoryOf(Written(b, a, w)) = [Memory EXCEPT ![BaseOf(a)] = Scatter(@, obj[a].cells, w)]
  BY WrittenMemory
<1>4. Arrays[a].base = BaseOf(a) /\ Arrays[a].cells = obj[a].cells
  BY SharedArray
<1> QED
  BY <1>2, <1>3, <1>4, SameData DEF Shared!Write

-----------------------------------------------------------------------------
(* New arrays. *)

\* An array with a buffer of its own, made after caches were refreshed.
LEMMA AllocatedMemory ==
  ASSUME RepInv, NEW v \in Arr, ~Live(v), NEW b, Fits(b), Refreshed(b), NEW w,
         buf' = [b EXCEPT ![v] = w],
         obj' = [obj EXCEPT ![v] = [kind |-> "owned", base |-> v, cells |-> Identity(Len(w))]]
  PROVE  /\ Memory' = [Memory EXCEPT ![v] = w]
         /\ Arrays' = [Arrays EXCEPT ![v] = [base |-> v, cells |-> Identity(Len(w))]]
<1>1. /\ b \in [Arr -> Seq(Val)] /\ DOMAIN obj = Arr
      /\ obj'[v] = [kind |-> "owned", base |-> v, cells |-> Identity(Len(w))]
      /\ buf'[v] = w
      /\ \A c \in Arr : c # v => obj'[c] = obj[c] /\ buf'[c] = b[c]
  BY DEF Fits, RepInv, TypeOK
<1>2. \A c \in Arr : obj[c].kind = "owned" => b[c] = buf[c]
  BY DEF Refreshed, Strided
<1>3. Memory' = [Memory EXCEPT ![v] = w]
  BY <1>1, <1>2 DEF Memory
<1>4. Arrays' = [Arrays EXCEPT ![v] = [base |-> v, cells |-> Identity(Len(w))]]
  BY <1>1 DEF Arrays
<1> QED
  BY <1>3, <1>4

\* A new array with memory of its own is allocated.
LEMMA AllocateMaps ==
  ASSUME RepInv, NEW v \in Arr, ~Live(v), NEW b, Fits(b), Refreshed(b), NEW w \in Seq(Val),
         buf' = [b EXCEPT ![v] = w],
         obj' = [obj EXCEPT ![v] = [kind |-> "owned", base |-> v, cells |-> Identity(Len(w))]],
         call' = call, out' = <<>>
  PROVE  Shared!Allocate(v, w)
<1>1. ~Shared!Exists(v) /\ Pending' = Pending
  BY SharedFree DEF Pending
<1> QED
  BY <1>1, AllocatedMemory, SameData DEF Shared!Allocate

\* An own buffer from the start.
LEMMA OwnedMaps ==
  ASSUME RepInv, NEW v \in Arr, NEW w \in Seq(Val), Owned(v, w)
  PROVE  Shared!Allocate(v, w)
  BY BufFits, BufRefreshed, AllocateMaps DEF Owned, NewObject

\* A copy of a refreshed array.
LEMMA CopyIntoMaps ==
  ASSUME RepInv, NEW v \in Arr, NEW a \in Arr, Live(a), NEW w \in Seq(Val), CopyInto(v, a, w)
  PROVE  Shared!Allocate(v, w)
<1>1. Fits(Refresh(buf, a)) /\ Refreshed(Refresh(buf, a))
  BY BufFits, BufRefreshed, RefreshFits, RefreshRefreshes
<1> QED
  BY <1>1, AllocateMaps DEF CopyInto

\* A window or a strided view, with its cache.
LEMMA ShareMaps ==
  ASSUME RepInv, NEW v \in Arr, NEW a \in Arr, Live(a), NEW w, NEW kind, NEW cells,
         kind # "owned", NewObject(v, w, kind, BaseOf(a), cells)
  PROVE  Shared!Share(v, a, cells)
<1>1. /\ ~Live(v) /\ buf \in [Arr -> Seq(Val)] /\ DOMAIN obj = Arr
      /\ obj'[v] = [kind |-> kind, base |-> BaseOf(a), cells |-> cells]
      /\ \A c \in Arr : c # v => obj'[c] = obj[c] /\ buf'[c] = buf[c]
  BY DEF NewObject, RepInv, TypeOK
<1>2. Memory' = Memory
  BY <1>1 DEF Memory, Live
<1>3. Arrays' = [Arrays EXCEPT ![v] = [base |-> BaseOf(a), cells |-> cells]]
  <2>1. obj'[v].base = BaseOf(a) /\ obj'[v].cells = cells
    BY <1>1
  <2>2. Arrays' = [c \in Arr |-> [base |-> obj'[c].base, cells |-> obj'[c].cells]]
    BY DEF Arrays
  <2> QED
    BY <1>1, <2>1, <2>2 DEF Arrays
<1>4. ~Shared!Exists(v) /\ Arrays[a].base = BaseOf(a)
  BY <1>1, SharedFree, SharedArray
<1>5. Pending' = Pending /\ out' = <<>>
  BY DEF Pending, NewObject
<1> QED
  BY <1>2, <1>3, <1>4, <1>5 DEF Shared!Share

\* Whichever way the view is stored.
LEMMA ViewMaps ==
  ASSUME RepInv, NEW v \in Arr, NEW a \in Arr, Live(a), NEW cells, ViewFromLayout(v, a, cells)
  PROVE  IF cells = <<>> THEN Shared!Allocate(v, <<>>) ELSE Shared!Share(v, a, cells)
<1>1. CASE cells = <<>>
  BY <1>1, EmptySeq, OwnedMaps DEF ViewFromLayout
<1>2. CASE cells # <<>> /\ Consecutive(cells)
  BY <1>2, ShareMaps DEF ViewFromLayout
<1>3. CASE cells # <<>> /\ ~Consecutive(cells)
  BY <1>3, ShareMaps DEF ViewFromLayout
<1> QED
  BY <1>1, <1>2, <1>3

-----------------------------------------------------------------------------
(* What kernels read. *)

\* A refreshed array's data are its elements.
LEMMA RefreshData ==
  ASSUME RepInv, NEW a \in Arr, Live(a), NEW b, Fits(b), Refreshed(b)
  PROVE  Data(Refresh(b, a), a) = Elements(buf, a)
<1>1. Refreshed(Refresh(b, a)) /\ Elements(b, a) = Elements(buf, a)
  BY RefreshRefreshes, RefreshedElements
<1>2. CASE Strided(a)
  BY <1>1, <1>2 DEF Data, Refresh, Fits
<1>3. CASE ~Strided(a)
  BY <1>1, <1>3, RefreshedElements DEF Data, Refresh
<1> QED
  BY <1>2, <1>3

\* The address ranges of data with a common cell overlap: the test that makes
\* in-place operators copy their operand misses none.
LEMMA AliasedOverlaps ==
  ASSUME RepInv, NEW a \in Arr, Live(a), NEW b \in Arr, Live(b),
         Aliased(a, b), Size(a) = Size(b)
  PROVE  Overlaps(a, b)
<1>1. /\ Size(a) \in Nat /\ BaseOf(a) \in Arr /\ ~Strided(BaseOf(a))
      /\ Size(b) \in Nat /\ BaseOf(b) \in Arr /\ ~Strided(BaseOf(b))
  BY LiveArray
<1>2. Store(a) = Store(b)
  BY DEF Aliased
<1>3. Strided(a) <=> Strided(b)
  BY <1>1, <1>2 DEF Store
<1>4. CASE Strided(a)
  <2>1. a = b
    BY <1>2, <1>3, <1>4 DEF Store
  <2>2. Size(a) # 0
    BY <1>1, <2>1 DEF Aliased
  <2> QED
    BY <1>1, <1>4, <2>1, <2>2 DEF Overlaps, Lo, Hi
<1>5. CASE ~Strided(a)
  <2> DEFINE ca == obj[a].cells
             cb == obj[b].cells
  <2>1. PICK i \in 1..Size(a), j \in 1..Size(b) : ca[i] = cb[j]
    BY <1>5 DEF Aliased
  <2>2. Consecutive(ca) /\ Consecutive(cb)
    BY <1>3, <1>5, PlainArray
  <2>3. ca \in Seq(Nat) /\ cb \in Seq(Nat) /\ Len(ca) = Size(a) /\ Len(cb) = Size(b)
    BY LiveArray DEF Size
  <2>4. /\ ca[1] \in Nat /\ ca[i] \in Nat /\ ca[Size(a)] \in Nat
        /\ ca[1] =< ca[i] /\ ca[i] =< ca[Size(a)]
    BY <2>2, <2>3, ConsecutiveRange
  <2>5. /\ cb[1] \in Nat /\ cb[j] \in Nat /\ cb[Size(b)] \in Nat
        /\ cb[1] =< cb[j] /\ cb[j] =< cb[Size(b)]
    BY <2>2, <2>3, ConsecutiveRange
  <2> HIDE DEF ca, cb
  <2>6. ca[1] =< cb[Size(b)] /\ cb[1] =< ca[Size(a)]
    BY <2>1, <2>4, <2>5
  <2> QED
    BY <1>1, <1>2, <1>3, <1>5, <2>1, <2>6 DEF Overlaps, Lo, Hi, ca, cb
<1> QED
  BY <1>4, <1>5

\* Hence the operand of an in-place operator is read as it was before.
LEMMA OperandMaps ==
  ASSUME RepInv, NEW a \in Arr, Live(a), NEW b \in Arr, Live(b),
         NEW r \in OperandReads(Refresh(Refresh(buf, b), a), a, b)
  PROVE  r = Elements(buf, b)
<1> DEFINE t == Refresh(buf, b)
           s == Refresh(t, a)
<1>1. r = Data(s, b)
  BY AliasedOverlaps DEF OperandReads
<1>2. Fits(t) /\ Refreshed(t)
  BY BufFits, BufRefreshed, RefreshFits, RefreshRefreshes
<1>3. Refreshed(s)
  BY <1>2, RefreshRefreshes
<1>4. CASE a = b
  BY <1>1, <1>2, <1>4, RefreshData
<1>5. CASE a # b /\ Strided(b)
  <2>1. s[b] = t[b]
    BY <1>2, <1>5 DEF Refresh, Fits
  <2>2. Data(t, b) = Elements(buf, b)
    BY BufFits, BufRefreshed, RefreshData
  <2> QED
    BY <1>1, <1>5, <2>1, <2>2 DEF Data
<1>6. CASE ~Strided(b)
  BY <1>1, <1>3, <1>6, RefreshedElements DEF Data
<1> QED
  BY <1>4, <1>5, <1>6

-----------------------------------------------------------------------------
(* The operations that create arrays. *)

\* array(), zeros(), ndarray().
LEMMA CreateMaps ==
  ASSUME Inv, NEW v \in Arr, NEW w \in Contents, Create(v, w)
  PROVE  Shared!Create(v, w)
  BY ContentsAssumption, OwnedMaps DEF Inv, Create, Shared!Create

\* Basic indexing and transposing.
LEMMA IndexMaps ==
  ASSUME Inv, NEW v \in Arr, NEW a \in Arr, NEW sel \in Selections, Index(v, a, sel)
  PROVE  Shared!Index(v, a, sel)
<1> USE DEF Inv
<1>1. Live(a) /\ Selects(sel, Size(a)) /\ ViewFromLayout(v, a, Pick(obj[a].cells, sel))
  BY DEF Index
<1>2. /\ Shared!Exists(a) /\ Shared!Size(a) = Size(a) /\ Arrays[a].cells = obj[a].cells
      /\ obj[a].cells \in Seq(Nat)
  BY <1>1, SharedArray, LiveArray
<1>3. Pick(obj[a].cells, sel) = <<>> <=> sel = <<>>
  <2>1. Pick(obj[a].cells, sel) \in Seq(Nat) /\ Len(Pick(obj[a].cells, sel)) = Len(sel)
    BY <1>1, <1>2, SelectionFacts, PickFacts DEF Size
  <2> QED
    BY <2>1, SelectionFacts, EmptySeq
<1>4. IF sel = <<>> THEN Shared!Allocate(v, <<>>)
                    ELSE Shared!Share(v, a, Pick(obj[a].cells, sel))
  BY <1>1, <1>3, ViewMaps
<1> QED
  BY <1>1, <1>2, <1>4, SameData DEF Shared!Index

\* A view made by NumPy is a selection from its owner.
LEMMA ViewOfNumpyMaps ==
  ASSUME Inv, NEW v \in Arr, NEW a \in Arr, NEW sel \in Selections, ViewOfNumpy(v, a, sel)
  PROVE  Shared!Index(v, BaseOf(a), sel)
<1> USE DEF Inv
<1> DEFINE o == BaseOf(a)
<1>1. /\ Live(a) /\ sel # <<>> /\ Selects(sel, Len(buf[o])) /\ ViewFromLayout(v, o, sel)
  BY DEF ViewOfNumpy
<1>2. o \in Arr /\ Live(o) /\ obj[o].kind = "owned"
  BY <1>1, LiveArray
<1>3. obj[o].cells = Identity(Len(buf[o])) /\ Len(buf[o]) \in Nat
  BY <1>2, SequenceElim DEF RepInv, StorageMatchesKind, TypeOK
<1>4. Size(o) = Len(buf[o])
  BY <1>3, IdentityFacts DEF Size
<1>5. Pick(obj[o].cells, sel) = sel
  <2>1. sel \in [1..Len(sel) -> Nat]
    BY SelectionFacts, SequenceElim
  <2>2. \A i \in 1..Len(sel) : obj[o].cells[sel[i]] = sel[i]
    BY <1>1, <1>3 DEF Identity, Selects
  <2> QED
    BY <2>1, <2>2 DEF Pick
<1>6. Shared!Exists(o) /\ Shared!Size(o) = Size(o) /\ Arrays[o].cells = obj[o].cells
  BY <1>2, SharedArray
<1>7. Shared!Share(v, o, sel)
  BY <1>1, <1>2, ViewMaps
<1> QED
  BY <1>1, <1>4, <1>5, <1>6, <1>7, SameData DEF Shared!Index

\* Exactly the arrays that are one stretch of memory are reshaped in place.
LEMMA ReshapeMaps ==
  ASSUME Inv, NEW v \in Arr, NEW a \in Arr, Reshape(v, a)
  PROVE  Shared!Reshape(v, a)
<1> USE DEF Inv
<1>1. Live(a)
  BY DEF Reshape
<1>2. /\ Shared!Exists(a) /\ Arrays[a].cells = obj[a].cells
      /\ Shared!Values(Memory, a) = Elements(buf, a)
  BY <1>1, SharedArray, SharedValues
<1>3. CASE Strided(a)
  <2>1. ~Consecutive(obj[a].cells)
    BY <1>3 DEF RepInv, StorageMatchesKind, Strided
  <2>2. Elements(buf, a) \in Seq(Val) /\ CopyInto(v, a, Elements(buf, a))
    BY <1>1, <1>3, BufFits, BufRefreshed, DataFits, RefreshData DEF Reshape
  <2>3. Shared!Allocate(v, Elements(buf, a))
    BY <1>1, <2>2, CopyIntoMaps
  <2> QED
    BY <1>2, <2>1, <2>3, SameData DEF Shared!Reshape
<1>4. CASE ~Strided(a)
  <2>1. Consecutive(obj[a].cells)
    BY <1>1, <1>4, PlainArray
  <2>2. Shared!Share(v, a, obj[a].cells)
    BY <1>1, <1>4, ShareMaps DEF Reshape
  <2> QED
    BY <1>2, <2>1, <2>2, SameData DEF Shared!Reshape
<1> QED
  BY <1>3, <1>4

\* copy() copies every element.
LEMMA CopyArrayMaps ==
  ASSUME Inv, NEW v \in Arr, NEW a \in Arr, CopyArray(v, a)
  PROVE  Shared!Copy(v, a, Shared!Identity(Shared!Size(a)))
<1> USE DEF Inv
<1>1. Live(a) /\ Size(a) \in Nat
  BY LiveArray DEF CopyArray
<1>2. /\ Shared!Exists(a) /\ Shared!Size(a) = Size(a)
      /\ Shared!Values(Memory, a) = Elements(buf, a)
  BY <1>1, SharedArray, SharedValues
<1>3. Elements(buf, a) \in Seq(Val) /\ Len(Elements(buf, a)) = Size(a)
  BY <1>1, BufFits, DataFits
<1>4. Pick(Elements(buf, a), Identity(Size(a))) = Elements(buf, a)
  <2>1. Elements(buf, a) \in [1..Size(a) -> Val]
    BY <1>3, SequenceElim
  <2>2. Len(Identity(Size(a))) = Size(a) /\ \A i \in 1..Size(a) : Identity(Size(a))[i] = i
    BY <1>1, IdentityFacts DEF Identity
  <2> QED
    BY <2>1, <2>2 DEF Pick
<1>5. Shared!Allocate(v, Elements(buf, a))
  BY <1>1, <1>3, BufFits, BufRefreshed, RefreshData, CopyIntoMaps DEF CopyArray
<1>6. Selects(Identity(Size(a)), Size(a))
  BY <1>1, IdentityFacts
<1> QED
  BY <1>2, <1>4, <1>5, <1>6, SameData DEF Shared!Copy

\* Fancy indexing copies what it selects.
LEMMA TakeMaps ==
  ASSUME Inv, NEW v \in Arr, NEW a \in Arr, NEW sel \in Selections, Take(v, a, sel)
  PROVE  Shared!Copy(v, a, sel)
<1> USE DEF Inv
<1>1. Live(a) /\ Selects(sel, Size(a))
  BY DEF Take
<1>2. /\ Shared!Exists(a) /\ Shared!Size(a) = Size(a)
      /\ Shared!Values(Memory, a) = Elements(buf, a)
  BY <1>1, SharedArray, SharedValues
<1>3. Elements(buf, a) \in Seq(Val) /\ Len(Elements(buf, a)) = Size(a)
  BY <1>1, BufFits, DataFits
<1>4. Pick(Elements(buf, a), sel) \in Seq(Val)
  BY <1>1, <1>3, SelectionFacts, PickFacts
<1>5. Shared!Allocate(v, Pick(Elements(buf, a), sel))
  BY <1>1, <1>4, BufFits, BufRefreshed, RefreshData, CopyIntoMaps DEF Take
<1> QED
  BY <1>1, <1>2, <1>5, SameData DEF Shared!Copy

-----------------------------------------------------------------------------
(* The operations that read and write. *)

\* Kernels read a refreshed cache, NumPy reads the owner's memory.
LEMMA ReadArrayMaps ==
  ASSUME Inv, NEW a \in Arr, ReadArray(a) \/ NumpyRead(a)
  PROVE  Shared!Read(a)
<1> USE DEF Inv
<1>1. Live(a)
  BY DEF ReadArray, NumpyRead
<1>2. Shared!Exists(a) /\ Shared!Values(Memory, a) = Elements(buf, a)
  BY <1>1, SharedArray, SharedValues
<1>3. /\ Fits(buf) /\ Refreshed(buf)
      /\ Fits(Refresh(buf, a)) /\ Refreshed(Refresh(buf, a))
      /\ Data(Refresh(buf, a), a) = Elements(buf, a)
  BY <1>1, BufFits, BufRefreshed, RefreshFits, RefreshRefreshes, RefreshData
<1>4. Shared!Result(Elements(buf, a))
  BY <1>3, ReadMaps DEF ReadArray, NumpyRead
<1> QED
  BY <1>2, <1>4 DEF Shared!Read

\* One element is read where it lives.
LEMMA GetItemMaps ==
  ASSUME Inv, NEW a \in Arr, NEW i \in 1..Size(a), GetItem(a, i)
  PROVE  Shared!ReadItem(a, i)
<1> USE DEF Inv
<1>1. Live(a) /\ i \in 1..Size(a)
  BY DEF GetItem
<1>2. /\ Shared!Exists(a) /\ Shared!Size(a) = Size(a)
      /\ Shared!Values(Memory, a) = Elements(buf, a)
  BY <1>1, SharedArray, SharedValues
<1>3. Elements(buf, a)[i] = buf[BaseOf(a)][obj[a].cells[i]]
  BY DEF Elements, Gather, Pick, Size
<1>4. Update(buf, <<Elements(buf, a)[i]>>)
  BY <1>3 DEF GetItem, Data
<1>5. Shared!Result(<<Elements(buf, a)[i]>>)
  BY <1>4, BufFits, BufRefreshed, ReadMaps
<1> QED
  BY <1>1, <1>2, <1>5 DEF Shared!ReadItem

\* One element is written where it lives.
LEMMA ElementWriteMaps ==
  ASSUME Inv, NEW a \in Arr, Live(a), NEW i \in 1..Size(a), NEW x \in Val,
         Update([buf EXCEPT ![BaseOf(a)][obj[a].cells[i]] = x], <<x>>)
  PROVE  Shared!Write(a, [Elements(buf, a) EXCEPT ![i] = x], <<x>>)
<1> USE DEF Inv
<1> DEFINE o == BaseOf(a)
           b == [buf EXCEPT ![o][obj[a].cells[i]] = x]
           w == [Elements(buf, a) EXCEPT ![i] = x]
<1>1. /\ o \in Arr /\ obj[o].kind = "owned" /\ obj[a].cells \in Seq(Nat)
      /\ Selects(obj[a].cells, Len(buf[o])) /\ Injective(obj[a].cells)
  BY LiveArray
<1>2. Fits(b)
  BY ElementWriteFits
<1>3. buf \in [Arr -> Seq(Val)] /\ buf[o] \in Seq(Val)
  BY <1>1 DEF RepInv, TypeOK
<1>4. Scatter(buf[o], obj[a].cells, w) = [buf[o] EXCEPT ![obj[a].cells[i]] = x]
  <2> DEFINE c == obj[a].cells
             m == buf[o]
  <2>1. c \in Seq(Nat) /\ m \in Seq(Val) /\ Selects(c, Len(m)) /\ Injective(c)
    BY <1>1, <1>3
  <2>2. i \in 1..Len(c) /\ w[i] = x /\ \A j \in 1..Len(c) : j # i => w[j] = m[c[j]]
    BY DEF Elements, Gather, Pick, Size
  <2> HIDE DEF c, m, w
  <2>3. Scatter(m, c, w) = [m EXCEPT ![c[i]] = x]
    BY <2>1, <2>2, ScatterOne
  <2> QED
    BY <2>3 DEF c, m
<1>5. MemoryOf(b) = [Memory EXCEPT ![o] = Scatter(@, obj[a].cells, w)]
  <2>1. Memory[o] = buf[o] /\ b[o] = Scatter(buf[o], obj[a].cells, w)
    BY <1>1, <1>3, <1>4 DEF Memory
  <2>2. \A c \in Arr : c # o => b[c] = buf[c]
    BY <1>3
  <2> HIDE DEF b, w
  <2>3. Memory = [c \in Arr |-> IF obj[c].kind = "owned" THEN buf[c] ELSE <<>>]
    BY DEF Memory
  <2> QED
    BY <1>1, <2>1, <2>2, <2>3 DEF MemoryOf
<1> HIDE DEF b, w
<1>6. /\ Memory' = MemoryOf(b) /\ Arrays' = Arrays /\ out' = <<x>>
      /\ Pending' = Shared!Seeing(MemoryOf(b))
  BY <1>2, UpdateMaps DEF b
<1>7. Arrays[a].base = o /\ Arrays[a].cells = obj[a].cells
  BY SharedArray
<1>8. Shared!Write(a, w, <<x>>)
  BY <1>5, <1>6, <1>7, SameData DEF Shared!Write
<1> QED
  BY <1>8 DEF w

\* a[i] = x, natively or through NumPy.
LEMMA WriteItemMaps ==
  ASSUME Inv, NEW a \in Arr, NEW i \in 1..Size(a), NEW x \in Val,
         SetItem(a, i, x) \/ NumpyWrite(a, i, x)
  PROVE  Shared!WriteItem(a, i, x)
<1> USE DEF Inv
<1> DEFINE w == [Elements(buf, a) EXCEPT ![i] = x]
<1>1. Live(a) /\ i \in 1..Size(a)
  BY DEF SetItem, NumpyWrite
<1>2. /\ Shared!Exists(a) /\ Shared!Size(a) = Size(a)
      /\ Shared!Values(Memory, a) = Elements(buf, a)
  BY <1>1, SharedArray, SharedValues
<1>3. CASE NumpyWrite(a, i, x) \/ Strided(a)
  <2>1. Update([buf EXCEPT ![BaseOf(a)][obj[a].cells[i]] = x], <<x>>)
    BY <1>3 DEF NumpyWrite, SetItem
  <2> QED
    BY <1>1, <1>2, <2>1, ElementWriteMaps DEF Shared!WriteItem
<1>4. CASE SetItem(a, i, x) /\ ~Strided(a)
  <2>1. Elements(buf, a) \in Seq(Val) /\ Len(Elements(buf, a)) = Size(a)
    BY <1>1, BufFits, DataFits
  <2>2. w \in Seq(Val) /\ Len(w) = Size(a)
    BY <2>1, ExceptSeq
  <2>3. Update(Written(buf, a, w), <<x>>)
    BY <1>4 DEF SetItem, SetData, Data, Written, Commit
  <2>4. Shared!Write(a, w, <<x>>)
    BY <1>1, <2>2, <2>3, BufFits, BufRefreshed, WriteMaps
  <2> QED
    BY <1>1, <1>2, <2>4 DEF Shared!WriteItem
<1> QED
  BY <1>3, <1>4

\* fill().
LEMMA FillMaps ==
  ASSUME Inv, NEW a \in Arr, NEW x \in Val, Fill(a, x)
  PROVE  Shared!Fill(a, x)
<1> USE DEF Inv
<1> DEFINE w == Constantly(x, Size(a))
<1>1. Live(a) /\ Size(a) \in Nat
  BY LiveArray DEF Fill
<1>2. w \in Seq(Val) /\ Len(w) = Size(a)
  BY <1>1, ConstantlyFacts
<1>3. Fits(Refresh(buf, a)) /\ Refreshed(Refresh(buf, a))
  BY <1>1, BufFits, BufRefreshed, RefreshFits, RefreshRefreshes
<1>4. Shared!Write(a, w, w)
  BY <1>1, <1>2, <1>3, WriteMaps DEF Fill
<1> QED
  BY <1>1, <1>4, SharedArray, SameData DEF Shared!Fill

\* a OP= x.
LEMMA InplaceScalarMaps ==
  ASSUME Inv, NEW a \in Arr, NEW x \in Val, InplaceScalar(a, x)
  PROVE  Shared!InplaceScalar(a, x)
<1> USE DEF Inv
<1> DEFINE w == ZipScalar(Elements(buf, a), x)
<1>1. Live(a)
  BY DEF InplaceScalar
<1>2. Elements(buf, a) \in Seq(Val) /\ Len(Elements(buf, a)) = Size(a)
  BY <1>1, BufFits, DataFits
<1>3. w \in Seq(Val) /\ Len(w) = Size(a)
  BY <1>2, ZipScalarFacts
<1>4. /\ Fits(Refresh(buf, a)) /\ Refreshed(Refresh(buf, a))
      /\ Data(Refresh(buf, a), a) = Elements(buf, a)
  BY <1>1, BufFits, BufRefreshed, RefreshFits, RefreshRefreshes, RefreshData
<1>5. Shared!Write(a, w, w)
  BY <1>1, <1>3, <1>4, WriteMaps DEF InplaceScalar
<1>6. Shared!Exists(a) /\ Shared!Values(Memory, a) = Elements(buf, a)
  BY <1>1, SharedArray, SharedValues
<1> QED
  BY <1>5, <1>6, SameData DEF Shared!InplaceScalar

\* a OP= b, overlapping or not.
LEMMA InplaceArrayMaps ==
  ASSUME Inv, NEW a \in Arr, NEW b \in Arr, InplaceArray(a, b)
  PROVE  Shared!InplaceArray(a, b)
<1> USE DEF Inv
<1> DEFINE s == Refresh(Refresh(buf, b), a)
           w == Zip(Elements(buf, a), Stretch(Elements(buf, b), Size(a)))
<1>1. Live(a) /\ Live(b) /\ Broadcasts(Size(b), Size(a)) /\ Size(a) \in Nat
  BY LiveArray DEF InplaceArray
<1>2. Fits(Refresh(buf, b)) /\ Refreshed(Refresh(buf, b)) /\ Fits(s) /\ Refreshed(s)
  BY <1>1, BufFits, BufRefreshed, RefreshFits, RefreshRefreshes
<1>3. Data(s, a) = Elements(buf, a)
  BY <1>1, <1>2, RefreshData
<1>4. Update(Written(s, a, w), w)
  <2>1. PICK r \in OperandReads(s, a, b) :
          Update(Written(s, a, Zip(Data(s, a), Stretch(r, Size(a)))),
                 Zip(Data(s, a), Stretch(r, Size(a))))
    BY DEF InplaceArray
  <2>2. r = Elements(buf, b)
    BY <1>1, OperandMaps
  <2> QED
    BY <1>3, <2>1, <2>2
<1>5. w \in Seq(Val) /\ Len(w) = Size(a)
  <2>1. /\ Elements(buf, a) \in Seq(Val) /\ Len(Elements(buf, a)) = Size(a)
        /\ Elements(buf, b) \in Seq(Val) /\ Len(Elements(buf, b)) = Size(b)
    BY <1>1, BufFits, DataFits
  <2>2. /\ Stretch(Elements(buf, b), Size(a)) \in Seq(Val)
        /\ Len(Stretch(Elements(buf, b), Size(a))) = Size(a)
    BY <1>1, <2>1, StretchFacts
  <2> QED
    BY <2>1, <2>2, ZipFacts
<1>6. Shared!Write(a, w, w)
  BY <1>1, <1>2, <1>4, <1>5, WriteMaps
<1>7. /\ Shared!Exists(a) /\ Shared!Size(a) = Size(a)
      /\ Shared!Exists(b) /\ Shared!Size(b) = Size(b)
      /\ Shared!Values(Memory, a) = Elements(buf, a)
      /\ Shared!Values(Memory, b) = Elements(buf, b)
  BY <1>1, SharedArray, SharedValues
<1> QED
  BY <1>1, <1>6, <1>7, SameData DEF Shared!InplaceArray

\* Operands that do not broadcast.
LEMMA InplaceFailsMaps ==
  ASSUME Inv, NEW a \in Arr, NEW b \in Arr, InplaceFails(a, b)
  PROVE  Shared!Fail
<1> USE DEF Inv
<1>1. /\ Fits(Refresh(Refresh(buf, b), a)) /\ Refreshed(Refresh(Refresh(buf, b), a))
  BY BufFits, BufRefreshed, RefreshFits, RefreshRefreshes DEF InplaceFails
<1> QED
  BY <1>1, ReadMaps DEF InplaceFails, Shared!Fail

-----------------------------------------------------------------------------
(* Operations that run Python code in the middle. *)

\* No call is in progress in both or in neither.
LEMMA PendingNone ==
  ASSUME RepInv
  PROVE  call = NoCall <=> Pending = Shared!NoCall
<1>1. CASE call = NoCall
  BY <1>1 DEF Pending, NoCall, Shared!NoCall
<1>2. CASE call # NoCall
  <2>1. call.who \in Arr
    BY <1>2 DEF RepInv, CallOK
  <2>2. Pending.who # Shared!NoCall.who
    BY <2>1, NoneAssumption DEF Pending, Shared!NoCall
  <2> QED
    BY <1>2, <2>2
<1> QED
  BY <1>1, <1>2

\* A call begins; whether its array is refreshed now or later is not visible.
LEMMA BeginMaps ==
  ASSUME Inv, NEW a \in Arr, BeginEarly(a) \/ BeginLate(a)
  PROVE  Shared!Begin(a)
<1> USE DEF Inv
<1>1. Live(a) /\ call = NoCall /\ obj' = obj /\ out' = <<>>
  BY DEF BeginEarly, BeginLate
<1>2. Memory' = Memory
  <2>1. Refreshed(buf')
    BY <1>1, BufFits, BufRefreshed, RefreshRefreshes DEF BeginEarly, BeginLate
  <2>2. MemoryOf(buf') = Memory
    BY <2>1, RefreshedMemory
  <2> QED
    BY <1>1, <2>2 DEF Memory, MemoryOf
<1>3. Arrays' = Arrays /\ Pending' = [who |-> a, seen |-> {Elements(buf, a)}]
  <2>1. call'.who = a /\ call'.seen = {Elements(buf, a)}
    BY DEF BeginEarly, BeginLate
  <2> QED
    BY <1>1, <2>1 DEF Arrays, Pending
<1>4. /\ Shared!Exists(a) /\ Shared!Values(Memory, a) = Elements(buf, a)
      /\ Pending = Shared!NoCall
  BY <1>1, SharedArray, SharedValues, PendingNone
<1> QED
  BY <1>1, <1>2, <1>3, <1>4 DEF Shared!Begin

\* A call returns a result for elements its array had.
LEMMA ReturnMaps ==
  ASSUME Inv, NEW x \in Val, Return(x)
  PROVE  Shared!Return(x)
<1> USE DEF Inv
<1> DEFINE a == call.who
<1>1. /\ call # NoCall /\ call' = NoCall /\ obj' = obj /\ a \in Arr /\ Live(a)
      /\ out' = ZipScalar(Data(buf', a), x)
  BY DEF Return, RepInv, CallOK
<1>2. Refreshed(buf') /\ Data(buf', a) \in call.seen
  <2>1. CASE call.early
    BY <1>1, <2>1, BufRefreshed DEF Return, CallsUseSeenData
  <2>2. CASE ~call.early
    <3>1. buf' = Refresh(buf, a)
      BY <2>2 DEF Return
    <3> QED
      BY <1>1, <3>1, BufFits, BufRefreshed, RefreshRefreshes, RefreshData DEF CallsUseSeenData
  <2> QED
    BY <2>1, <2>2
<1>3. Memory' = Memory /\ Arrays' = Arrays
  <2>1. MemoryOf(buf') = Memory
    BY <1>2, RefreshedMemory
  <2> QED
    BY <1>1, <2>1 DEF Memory, MemoryOf, Arrays
<1>4. Pending # Shared!NoCall /\ Pending.seen = call.seen
  BY <1>1, PendingNone DEF Pending
<1>5. Pending' = Shared!NoCall
  BY <1>1 DEF Pending, NoCall, Shared!NoCall
<1> QED
  BY <1>1, <1>2, <1>3, <1>4, <1>5, SameData DEF Shared!Return

\* A call ends with the reshaped array: the cache is a copy of elements its view
\* had, and what is not strided is shared.
LEMMA ReturnReshapedMaps ==
  ASSUME Inv, NEW v \in Arr, ReturnReshaped(v)
  PROVE  Shared!ReturnReshaped(v)
<1> USE DEF Inv
<1> DEFINE a == call.who
<1>1. /\ call # NoCall /\ call.early /\ ~Live(v) /\ call' = NoCall /\ out' = <<>>
      /\ a \in Arr /\ Live(a)
  BY DEF ReturnReshaped, RepInv, CallOK
<1>2. /\ ~Shared!Exists(v) /\ Pending # Shared!NoCall /\ Pending' = Shared!NoCall
      /\ Pending.who = a /\ Pending.seen = call.seen
      /\ Arrays[a] = [base |-> BaseOf(a), cells |-> obj[a].cells]
  BY <1>1, SharedFree, PendingNone DEF Pending, NoCall, Shared!NoCall, Arrays, BaseOf
<1>3. /\ DOMAIN buf = Arr /\ DOMAIN obj = Arr /\ buf[v] = <<>> /\ obj[v].kind = "free"
  BY <1>1 DEF RepInv, TypeOK, StorageMatchesKind, Live
<1>4. CASE Strided(a)
  <2>1. ~Consecutive(obj[a].cells)
    BY <1>1, <1>4 DEF RepInv, StorageMatchesKind, Strided
  <2>2. buf[a] \in Pending.seen
    BY <1>1, <1>2, <1>4 DEF CallsUseSeenData, Data
  <2>3. /\ buf' = [buf EXCEPT ![v] = buf[a]]
        /\ obj' = [obj EXCEPT ![v] = [kind |-> "owned", base |-> v,
                                      cells |-> Identity(Len(buf[a]))]]
    BY <1>4 DEF ReturnReshaped
  <2>4. Fits(buf) /\ Refreshed(buf)
    BY BufFits, BufRefreshed
  <2>5. /\ Memory' = [Memory EXCEPT ![v] = buf[a]]
        /\ Arrays' = [Arrays EXCEPT ![v] = [base |-> v, cells |-> Identity(Len(buf[a]))]]
    BY <1>1, <2>3, <2>4, AllocatedMemory
  <2>6. \E w \in Pending.seen :
          /\ Memory' = [Memory EXCEPT ![v] = w]
          /\ Arrays' = [Arrays EXCEPT ![v] = [base |-> v, cells |-> Shared!Identity(Len(w))]]
    BY <2>2, <2>5, SameData
  <2>7. ~Shared!Consecutive(Arrays[Pending.who].cells)
    BY <1>2, <2>1, SameData
  <2> QED
    BY <1>1, <1>2, <2>6, <2>7 DEF Shared!ReturnReshaped
<1>5. CASE ~Strided(a)
  <2> DEFINE new == [kind |-> "window", base |-> BaseOf(a), cells |-> obj[a].cells]
  <2>1. Consecutive(obj[a].cells)
    BY <1>1, <1>5, PlainArray
  <2>2. buf' = buf /\ obj' = [obj EXCEPT ![v] = new]
    BY <1>5 DEF ReturnReshaped
  <2>3. /\ obj'[v] = new
        /\ \A c \in Arr : c # v => obj'[c] = obj[c]
    BY <1>3, <2>2
  <2>4. Memory' = Memory
    BY <1>3, <2>2, <2>3 DEF Memory
  <2>5. Arrays' = [Arrays EXCEPT ![v] = Arrays[a]]
    BY <1>2, <2>3 DEF Arrays
  <2> QED
    BY <1>1, <1>2, <2>1, <2>4, <2>5, SameData DEF Shared!ReturnReshaped
<1> QED
  BY <1>4, <1>5

\* A call is given up.
LEMMA AbandonMaps ==
  ASSUME Inv, Abandon
  PROVE  Shared!Abandon
<1>1. Memory' = Memory /\ Arrays' = Arrays /\ out' = <<>>
  BY DEF Abandon, Memory, Arrays
<1>2. Pending # Shared!NoCall
  BY PendingNone DEF Abandon, Inv
<1>3. Pending' = Shared!NoCall
  BY DEF Abandon, Pending, NoCall, Shared!NoCall
<1> QED
  BY <1>1, <1>2, <1>3 DEF Shared!Abandon

-----------------------------------------------------------------------------
(* The theorem. *)

\* No arrays at first.
LEMMA InitMaps == Init => Shared!Init
<1> SUFFICES ASSUME Init
             PROVE  Shared!Init
  OBVIOUS
<1>1. \A a \in Arr : obj[a] = NoObject /\ buf[a] = <<>>
  BY DEF Init
<1>2. Memory = [a \in Arr |-> <<>>]
  BY <1>1 DEF Memory, NoObject
<1>3. Arrays = [a \in Arr |-> Shared!NoArray]
  BY <1>1 DEF Arrays, NoObject, Shared!NoArray
<1>4. Pending = Shared!NoCall /\ out = <<>>
  BY DEF Init, Pending, NoCall, Shared!NoCall
<1> QED
  BY <1>2, <1>3, <1>4 DEF Shared!Init

\* Every step is an operation on the shared memory, or none.
LEMMA NextMaps ==
  ASSUME Inv, [Next]_vars
  PROVE  [Shared!Next]_(Shared!vars)
<1>1. CASE UNCHANGED vars
  BY <1>1 DEF vars, Shared!vars, Memory, Arrays, Pending
<1>2. ASSUME NEW v \in Arr, NEW w \in Contents, Create(v, w)
      PROVE  Shared!Next
  BY <1>2, CreateMaps DEF Shared!Next
<1>3. ASSUME NEW v \in Arr, NEW a \in Arr, Reshape(v, a)
      PROVE  Shared!Next
  BY <1>3, ReshapeMaps DEF Shared!Next
<1>4. ASSUME NEW v \in Arr, NEW a \in Arr, CopyArray(v, a)
      PROVE  Shared!Next
  BY <1>4, CopyArrayMaps DEF Shared!Next
<1>5. ASSUME NEW v \in Arr, NEW a \in Arr, NEW sel \in Selections, Index(v, a, sel)
      PROVE  Shared!Next
  BY <1>5, IndexMaps DEF Shared!Next
<1>6. ASSUME NEW v \in Arr, NEW a \in Arr, NEW sel \in Selections, ViewOfNumpy(v, a, sel)
      PROVE  Shared!Next
  <2>1. BaseOf(a) \in Arr
    BY <1>6, LiveArray DEF ViewOfNumpy, Inv
  <2> QED
    BY <1>6, <2>1, ViewOfNumpyMaps DEF Shared!Next
<1>7. ASSUME NEW v \in Arr, NEW a \in Arr, NEW sel \in Selections, Take(v, a, sel)
      PROVE  Shared!Next
  BY <1>7, TakeMaps DEF Shared!Next
<1>8. ASSUME NEW a \in Arr, ReadArray(a) \/ NumpyRead(a)
      PROVE  Shared!Next
  BY <1>8, ReadArrayMaps DEF Shared!Next
<1>9. ASSUME NEW a \in Arr, NEW i \in 1..Size(a), GetItem(a, i)
      PROVE  Shared!Next
  <2>1. Shared!ReadItem(a, i) /\ i \in 1..Shared!Size(a)
    BY <1>9, GetItemMaps DEF Shared!ReadItem
  <2> QED
    BY <2>1 DEF Shared!Next
<1>10. ASSUME NEW a \in Arr, NEW i \in 1..Size(a), NEW x \in Val,
              SetItem(a, i, x) \/ NumpyWrite(a, i, x)
       PROVE  Shared!Next
  <2>1. Shared!WriteItem(a, i, x) /\ i \in 1..Shared!Size(a)
    BY <1>10, WriteItemMaps DEF Shared!WriteItem
  <2> QED
    BY <2>1 DEF Shared!Next
<1>11. ASSUME NEW a \in Arr, NEW x \in Val, Fill(a, x)
       PROVE  Shared!Next
  BY <1>11, FillMaps DEF Shared!Next
<1>12. ASSUME NEW a \in Arr, NEW x \in Val, InplaceScalar(a, x)
       PROVE  Shared!Next
  BY <1>12, InplaceScalarMaps DEF Shared!Next
<1>13. ASSUME NEW a \in Arr, NEW b \in Arr, InplaceArray(a, b)
       PROVE  Shared!Next
  BY <1>13, InplaceArrayMaps DEF Shared!Next
<1>14. ASSUME NEW a \in Arr, NEW b \in Arr, InplaceFails(a, b)
       PROVE  Shared!Next
  BY <1>14, InplaceFailsMaps DEF Shared!Next
<1>15. ASSUME NEW a \in Arr, BeginEarly(a) \/ BeginLate(a)
       PROVE  Shared!Next
  BY <1>15, BeginMaps DEF Shared!Next
<1>16. ASSUME NEW x \in Val, Return(x)
       PROVE  Shared!Next
  BY <1>16, ReturnMaps DEF Shared!Next
<1>17. CASE Abandon
  BY <1>17, AbandonMaps DEF Shared!Next
<1>18. ASSUME NEW v \in Arr, ReturnReshaped(v)
       PROVE  Shared!Next
  BY <1>18, ReturnReshapedMaps DEF Shared!Next
<1>19. CASE AtomicNext
  BY <1>19, <1>2, <1>3, <1>4, <1>5, <1>6, <1>7, <1>8, <1>9, <1>10, <1>11, <1>12, <1>13, <1>14
     DEF AtomicNext
<1>20. CASE CallNext
  BY <1>20, <1>15, <1>16, <1>17, <1>18 DEF CallNext
<1> QED
  BY <1>1, <1>19, <1>20 DEF Next

\* Programs cannot tell strided views, windows and their caches from arrays
\* that are lists of cells of one memory: StridedArrays, with the callbacks
\* that interrupt its operations, implements SharedMemory.
THEOREM Refinement == Spec => ImplementsSharedMemory
<1>1. Init => Shared!Init
  BY InitMaps
<1>2. Inv /\ [Next]_vars => [Shared!Next]_(Shared!vars)
  BY NextMaps
<1> QED
  BY <1>1, <1>2, Invariance, PTL DEF Spec, ImplementsSharedMemory, Shared!Spec

=============================================================================
