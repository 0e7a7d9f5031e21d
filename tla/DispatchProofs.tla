--------------------------- MODULE DispatchProofs ---------------------------
(***************************************************************************)
(* Dispatch for every set of calls and every recursion limit.              *)
(*                                                                         *)
(* 1. Shape says which frame may stand on which, and what each has of the  *)
(*    program's call: the call itself, or its converted arguments where    *)
(*    NumPy computes for lightarray.  An action replaces the last frame by *)
(*    frames that may stand in its place (EnterKeepsShape), or pops it.    *)
(*    Shape alone is not inductive: the flip of a descending sort is       *)
(*    called with the answer of the sort, so Inv adds that an answer is a  *)
(*    value a conversion takes every lightarray out of.                    *)
(* 2. NumPyIsNotReentered is in the shape: what stands on `invoke` is      *)
(*    NumPy, and NumPy finds no lightarray to hand back.                   *)
(* 3. EveryRunCounted: a frame that counts does so before NumPy is called, *)
(*    so a run is owed while NumPy is on top of such a frame (Counted).    *)
(* 4. OutReturned: the answer on its way down is the caller's arrays, or a *)
(*    frame that puts them in its place is still on the stack (Delivered). *)
(* 5. DtypesMatchNumPy, MemoryMatchesNumPy: above a frame that converts is *)
(*    what NumPy returned, below it what fits NumPy's answer (Answering).  *)
(* 6. ResultsHaveTheRightClass: below it the results also have their class *)
(*    (Classed), as few frames are between it and the program (Height).    *)
(***************************************************************************)
EXTENDS Dispatch, SequenceTheorems, FiniteSetTheorems, TLAPS

-----------------------------------------------------------------------------
(* Sequences. *)

\* The length, for the provers a number and nothing else.
Size(s) == Len(s)

\* The last element of s makes room for those of t.
Shortened(s)  == SubSeq(s, 1, Len(s) - 1)
Replace(s, t) == Shortened(s) \o t

LEMMA Sequence ==
  ASSUME NEW S, NEW s \in Seq(S)
  PROVE  /\ IsSequence(s) /\ Size(s) \in Nat /\ DOMAIN s = 1..Size(s)
         /\ \A k \in 1..Size(s) : s[k] \in S
BY DEF IsSequence, Range, Size

LEMMA SequenceSize ==
  ASSUME NEW s, IsSequence(s)
  PROVE  Size(s) \in Nat /\ DOMAIN s = 1..Size(s) /\ (s # <<>> <=> Size(s) # 0)
BY DEF IsSequence, Size

LEMMA SizeOfShortened ==
  ASSUME NEW s, IsSequence(s), s # <<>>
  PROVE  /\ IsSequence(Shortened(s)) /\ Size(Shortened(s)) = Size(s) - 1
         /\ \A k \in 1..Size(s) - 1 : Shortened(s)[k] = s[k]
<1> DEFINE r == Shortened(s)
<1>1. Size(s) \in Nat /\ Size(s) # 0 /\ \A k \in 1..Size(s) : s[k] \in Range(s)
  BY Sequence DEF IsSequence, Size
<1>2. Size(s) - 1 \in Int /\ \A k \in 1..Size(s) - 1 : s[k] \in Range(s)
  BY <1>1
<1>3. r = SubSeq(s, 1, Size(s) - 1)  BY DEF Shortened, Size
<1> HIDE DEF r
<1>4. /\ r \in Seq(Range(s))
      /\ Size(r) = IF 1 <= Size(s) - 1 THEN Size(s) - 1 - 1 + 1 ELSE 0
      /\ \A k \in 1..Size(s) - 1 - 1 + 1 : r[k] = s[1 + k - 1]
  BY <1>2, <1>3, SubSeqProperties DEF Size
<1>5. Size(s) - 1 - 1 + 1 = Size(s) - 1  BY <1>1
<1>6. ASSUME NEW k \in 1..Size(s) - 1  PROVE r[k] = s[k]
  <2>1. 1 + k - 1 = k  OBVIOUS
  <2> QED  BY <1>4, <1>5, <2>1
<1>7. IsSequence(r) /\ Size(r) = Size(s) - 1  BY <1>1, <1>4, <1>5, Sequence
<1> QED  BY <1>6, <1>7 DEF r

LEMMA Replaced ==
  ASSUME NEW s, NEW t, IsSequence(s), s # <<>>, IsSequence(t)
  PROVE  /\ IsSequence(Replace(s, t)) /\ Size(Replace(s, t)) = Size(s) - 1 + Size(t)
         /\ \A k \in 1..Size(s) - 1 : Replace(s, t)[k] = s[k]
         /\ \A k \in 1..Size(t) : Replace(s, t)[Size(s) - 1 + k] = t[k]
<1> DEFINE d == Shortened(s)
           r == Replace(s, t)
           S == Range(d) \cup Range(t)
<1>1. /\ IsSequence(d) /\ Size(d) = Size(s) - 1
      /\ \A k \in 1..Size(s) - 1 : d[k] = s[k]
  BY SizeOfShortened
<1>2. Size(d) \in Nat /\ Size(t) \in Nat
  BY <1>1, SequenceSize
<1>3. d \in Seq(S) /\ t \in Seq(S)
  BY <1>1, SeqMonotonic DEF IsSequence
<1>4. r = d \o t  BY DEF Replace
<1> HIDE DEF d, r, S
<1>5. /\ d \o t \in Seq(S) /\ Size(d \o t) = Size(d) + Size(t)
      /\ \A k \in 1..Size(d) + Size(t) : (d \o t)[k] = IF k <= Size(d) THEN d[k] ELSE t[k - Size(d)]
  BY <1>3, ConcatProperties DEF Size
<1>6. IsSequence(r) /\ Size(r) = Size(s) - 1 + Size(t)
  BY <1>1, <1>4, <1>5, Sequence
<1>7. ASSUME NEW k \in 1..Size(d)  PROVE r[k] = d[k]
  <2>1. k \in 1..Size(d) + Size(t) /\ k <= Size(d)
    BY <1>2
  <2> QED  BY <1>4, <1>5, <2>1
<1>8. ASSUME NEW k \in 1..Size(t)  PROVE r[Size(d) + k] = t[k]
  <2> DEFINE j == Size(d) + k
  <2>1. j \in 1..Size(d) + Size(t) /\ ~(j <= Size(d)) /\ j - Size(d) = k
    BY <1>2
  <2> HIDE DEF j
  <2>2. r[j] = t[j - Size(d)]
    BY <1>4, <1>5, <2>1
  <2> QED  BY <2>1, <2>2 DEF j
<1>9. \A k \in 1..Size(s) - 1 : r[k] = s[k]
  BY <1>1, <1>7
<1>10. \A k \in 1..Size(t) : r[Size(s) - 1 + k] = t[k]
  BY <1>1, <1>8
<1> QED  BY <1>6, <1>9, <1>10 DEF r

LEMMA Literals ==
  /\ \A x : IsSequence(<<x>>) /\ Size(<<x>>) = 1
  /\ \A x, y : IsSequence(<<x, y>>) /\ Size(<<x, y>>) = 2
  /\ \A x, y, z : IsSequence(<<x, y, z>>) /\ Size(<<x, y, z>>) = 3
  /\ \A x, y, z, u : IsSequence(<<x, y, z, u>>) /\ Size(<<x, y, z, u>>) = 4
<1>1. \A x : <<x>> \in Seq({x})  OBVIOUS
<1>2. \A x, y : <<x, y>> \in Seq({x, y})  OBVIOUS
<1>3. \A x, y, z : <<x, y, z>> \in Seq({x, y, z})  OBVIOUS
<1>4. \A x, y, z, u : <<x, y, z, u>> \in Seq({x, y, z, u})  OBVIOUS
<1> QED  BY <1>1, <1>2, <1>3, <1>4, Sequence DEF Size

LEMMA JoinedLiterals ==
  /\ \A x, y, z : <<x>> \o <<y, z>> = <<x, y, z>>
  /\ \A x, y, z, u : <<x, y>> \o <<z, u>> = <<x, y, z, u>>
<1>1. ASSUME NEW x, NEW y, NEW z  PROVE <<x>> \o <<y, z>> = <<x, y, z>>
  <2> DEFINE S == {x, y, z}
             s == <<x>>
             t == <<y, z>>
             r == <<x, y, z>>
  <2>1. s \in Seq(S) /\ t \in Seq(S) /\ r \in Seq(S) /\ Size(s) = 1 /\ Size(t) = 2 /\ Size(r) = 3
    BY DEF Size
  <2>2. s[1] = r[1] /\ t[1] = r[2] /\ t[2] = r[3]  OBVIOUS
  <2> HIDE DEF S, s, t, r
  <2>3. /\ s \o t \in Seq(S) /\ Size(s \o t) = Size(s) + Size(t)
        /\ \A i \in 1..Size(s) + Size(t) :
             (s \o t)[i] = IF i <= Size(s) THEN s[i] ELSE t[i - Size(s)]
    BY <2>1, ConcatProperties DEF Size
  <2>4. \A i \in 1..Size(s \o t) : (s \o t)[i] = r[i]
    <3>1. (s \o t)[1] = r[1]
      <4>1. 1 \in 1..Size(s) + Size(t) /\ 1 <= Size(s)  BY <2>1
      <4> QED  BY <2>2, <2>3, <4>1
    <3>2. (s \o t)[2] = r[2]
      <4>1. 2 \in 1..Size(s) + Size(t) /\ ~(2 <= Size(s)) /\ 2 - Size(s) = 1  BY <2>1
      <4> QED  BY <2>2, <2>3, <4>1
    <3>3. (s \o t)[3] = r[3]
      <4>1. 3 \in 1..Size(s) + Size(t) /\ ~(3 <= Size(s)) /\ 3 - Size(s) = 2  BY <2>1
      <4> QED  BY <2>2, <2>3, <4>1
    <3>4. \A i \in 1..Size(s \o t) : i = 1 \/ i = 2 \/ i = 3  BY <2>1, <2>3
    <3> QED  BY <3>1, <3>2, <3>3, <3>4
  <2>5. Size(s \o t) = Size(r)  BY <2>1, <2>3
  <2>6. s \o t = r  BY <2>1, <2>3, <2>4, <2>5, SeqEqual DEF Size
  <2> QED  BY <2>6 DEF s, t, r
<1>2. ASSUME NEW x, NEW y, NEW z, NEW u  PROVE <<x, y>> \o <<z, u>> = <<x, y, z, u>>
  <2> DEFINE S == {x, y, z, u}
             s == <<x, y>>
             t == <<z, u>>
             r == <<x, y, z, u>>
  <2>1. s \in Seq(S) /\ t \in Seq(S) /\ r \in Seq(S) /\ Size(s) = 2 /\ Size(t) = 2 /\ Size(r) = 4
    BY DEF Size
  <2>2. s[1] = r[1] /\ s[2] = r[2] /\ t[1] = r[3] /\ t[2] = r[4]  OBVIOUS
  <2> HIDE DEF S, s, t, r
  <2>3. /\ s \o t \in Seq(S) /\ Size(s \o t) = Size(s) + Size(t)
        /\ \A i \in 1..Size(s) + Size(t) :
             (s \o t)[i] = IF i <= Size(s) THEN s[i] ELSE t[i - Size(s)]
    BY <2>1, ConcatProperties DEF Size
  <2>4. \A i \in 1..Size(s \o t) : (s \o t)[i] = r[i]
    <3>1. (s \o t)[1] = r[1]
      <4>1. 1 \in 1..Size(s) + Size(t) /\ 1 <= Size(s)  BY <2>1
      <4> QED  BY <2>2, <2>3, <4>1
    <3>2. (s \o t)[2] = r[2]
      <4>1. 2 \in 1..Size(s) + Size(t) /\ 2 <= Size(s)  BY <2>1
      <4> QED  BY <2>2, <2>3, <4>1
    <3>3. (s \o t)[3] = r[3]
      <4>1. 3 \in 1..Size(s) + Size(t) /\ ~(3 <= Size(s)) /\ 3 - Size(s) = 1  BY <2>1
      <4> QED  BY <2>2, <2>3, <4>1
    <3>4. (s \o t)[4] = r[4]
      <4>1. 4 \in 1..Size(s) + Size(t) /\ ~(4 <= Size(s)) /\ 4 - Size(s) = 2  BY <2>1
      <4> QED  BY <2>2, <2>3, <4>1
    <3>5. \A i \in 1..Size(s \o t) : i = 1 \/ i = 2 \/ i = 3 \/ i = 4  BY <2>1, <2>3
    <3> QED  BY <3>1, <3>2, <3>3, <3>4, <3>5
  <2>5. Size(s \o t) = Size(r)  BY <2>1, <2>3
  <2>6. s \o t = r  BY <2>1, <2>3, <2>4, <2>5, SeqEqual DEF Size
  <2> QED  BY <2>6 DEF s, t, r
<1> QED  BY <1>1, <1>2

-----------------------------------------------------------------------------
(* The shape of the stack. *)

\* Frames have the five fields of Dispatch!Frame.
IsFrame(fr) == DOMAIN fr = {"at", "fn", "args", "out", "form"}

\* Functions that run, and that wait for the one above them.
Active  == Entries \cup {"implementation", "_array_ufunc", "_array_function"}
Waiting == Passing \cup {"invoke", "_array_ufunc: out", "getitem: convert", "argsort_descending", "sort"}

\* Frames that forward the call, and what NumPy's protocols lead to.
Forwarding == {"proxy: call", "_array_ufunc: native", "_array_function: native"}
Protocol   == {"_array_ufunc", "_array_ufunc: out", "_array_ufunc: native", "_array_ufunc: invoke",
               "_array_function", "_array_function: native", "_array_function: invoke"}
Computing  == {"numpy", "implementation"}

\* Which frame may be called by which.
StandsOn(upper, lower) ==
  \/ /\ lower \in CallerFrames
     /\ upper \in Entries \cup Protocol \cup
          {"call", "sort", "argsort_descending", "proxy: call", "getitem: convert"}
  \/ lower \in Forwarding /\ upper \in {"native", "call", "sort", "argsort_descending"}
  \/ lower = "proxy: call" /\ upper = "wrapper"
  \/ lower = "sort" /\ upper = "call"
  \/ /\ lower \in {"call", "wrapper", "method", "_array_ufunc: invoke", "_array_function: invoke"}
     /\ upper = "invoke"
  \/ lower = "invoke" /\ upper \in Computing
  \/ lower = "_array_ufunc: out" /\ upper = "numpy"
  \/ lower \in {"argsort_descending", "getitem: convert"} /\ upper = "implementation"

\* What a frame has of the program's call c, unless it is for the flip of sort.
Has(c, fr) == fr.fn = c.fn /\ fr.args = c.args /\ fr.out = c.out /\ fr.form = c.form

Flips(c, fr) == c.fn = "sort" /\ c.form = "descending" /\ fr.fn = "flip"

\* The same for frames of NumPy's functions, which have the converted arguments.
HasConverted(c, fr) ==
  /\ fr.fn = c.fn /\ fr.args = args_to_numpy(c.args) /\ fr.form = c.form
  /\ fr.out = OutToNumpy(c.out) \/ (fr.at = "implementation" /\ fr.out = c.out)

\* A value to_numpy and from_numpy go all the way into.
IsPlain(v) == IsValue(v) /\ v.is # "sequence"

\* NumPy turns round what the sort returned.
FlipsConverted(c, fr) ==
  /\ Flips(c, fr) /\ fr.out = NoOut /\ fr.form = "bare"
  /\ \E v : IsPlain(v) /\ fr.args = args_to_numpy(<<v>>)

\* The frame fr, called by the frame `lower`, while the program's call is c.
OnTop(c, lower, fr) ==
  /\ StandsOn(fr.at, lower.at)
  /\ lower.at \in CallerFrames => /\ fr.at \in Entries => fr.at = c.entry
                                  /\ fr.at \in Protocol => c.entry = "numpy"
  /\ IF fr.at \in Computing /\ lower.at \notin CallerFrames
     THEN HasConverted(c, fr) \/ FlipsConverted(c, fr)
     ELSE \/ Has(c, fr)
          \/ Flips(c, fr) /\ (fr.at = "call" \/ (fr.at = "invoke" /\ fr.out = NoOut))
  /\ fr.at = "sort" => fr.fn = "sort" /\ fr.form = "descending"
  /\ fr.at = "_array_ufunc: out" => fr.out # NoOut
  /\ fr.at = "argsort_descending" => fr.fn = "argsort"
  /\ fr.at = "getitem: convert" => c.entry = "getitem"
  /\ fr.at = "proxy: call" => c.entry = "proxy"
  /\ fr.at \in {"_array_ufunc: native", "_array_function: native"} => c.fn \in NativeFunctions

\* How many frames are the program's.
Bottom == Size(call.under)

StackOK == call \in Calls /\ IsSequence(stack) /\ stack # <<>>

\* The program's frames, then lightarray's and NumPy's, each called by the one
\* below; all but the last of a call in progress wait.
Shape ==
  /\ \A k \in 1..Size(stack) : IsFrame(stack[k])
  /\ Size(stack) >= Bottom
  /\ \A k \in 1..Bottom : stack[k].at = call.under[k] /\ stack[k].at \in CallerFrames
  /\ \A k \in Bottom + 1..Size(stack) : OnTop(call, stack[k - 1], stack[k])
  /\ \A k \in Bottom + 1..Size(stack) : k < Size(stack) \/ status # "calling" => stack[k].at \in Waiting
  /\ status = "calling" => Size(stack) > Bottom /\ stack[Size(stack)].at \in Active

-----------------------------------------------------------------------------
(* What the actions do to the stack. *)

LEMMA StackSize ==
  ASSUME StackOK
  PROVE  /\ Size(stack) \in Nat \ {0} /\ DOMAIN stack = 1..Size(stack) /\ Top = stack[Size(stack)]
         /\ Bottom \in Nat \ {0}
<1>1. Size(stack) \in Nat \ {0} /\ DOMAIN stack = 1..Size(stack) /\ Top = stack[Size(stack)]
  BY SequenceSize DEF StackOK, Top, Size
<1>2. call.under \in Seq(CallerFrames) /\ call.under # <<>>
  BY CallsAssumption DEF StackOK
<1>3. IsSequence(call.under)  BY <1>2, Sequence
<1> QED  BY <1>1, <1>2, <1>3, SequenceSize DEF Bottom

LEMMA Popped ==
  ASSUME StackOK, stack' = Rest
  PROVE  /\ IsSequence(stack') /\ Size(stack') = Size(stack) - 1
         /\ \A k \in 1..Size(stack) - 1 : stack'[k] = stack[k]
<1>1. stack' = Shortened(stack)  BY DEF Rest, Shortened
<1> QED  BY <1>1, SizeOfShortened DEF StackOK

LEMMA Entered ==
  ASSUME StackOK, NEW t, IsSequence(t), stack' = Replace(stack, t)
  PROVE  /\ IsSequence(stack') /\ Size(stack') = Size(stack) - 1 + Size(t)
         /\ \A k \in 1..Size(stack) - 1 : stack'[k] = stack[k]
         /\ \A k \in 1..Size(t) : stack'[Size(stack) - 1 + k] = t[k]
<1> DEFINE q == Replace(stack, t)
<1>1. /\ IsSequence(q) /\ Size(q) = Size(stack) - 1 + Size(t)
      /\ \A k \in 1..Size(stack) - 1 : q[k] = stack[k]
      /\ \A k \in 1..Size(t) : q[Size(stack) - 1 + k] = t[k]
  BY Replaced DEF StackOK
<1>2. stack' = q  OBVIOUS
<1> HIDE DEF q
<1> QED  BY <1>1, <1>2

\* A frame makes room for frames that may stand where it stood.
LEMMA EnterKeepsShape ==
  ASSUME StackOK, Shape, Size(stack) > Bottom, call' = call, status' = "calling",
         NEW t, IsSequence(t), Size(t) \in Nat \ {0}, stack' = Replace(stack, t),
         \A k \in 1..Size(t) : IsFrame(t[k]),
         OnTop(call, stack[Size(stack) - 1], t[1]),
         \A k \in 2..Size(t) : OnTop(call, t[k - 1], t[k]),
         \A k \in 1..Size(t) - 1 : t[k].at \in Waiting,
         t[Size(t)].at \in Active
  PROVE  StackOK' /\ Shape'
<1> DEFINE n == Size(stack)
           m == Size(t)
           n1 == Size(stack')
<1>1. /\ IsSequence(stack') /\ n1 = n - 1 + m
      /\ \A k \in 1..n - 1 : stack'[k] = stack[k]
      /\ \A k \in 1..m : stack'[n - 1 + k] = t[k]
  BY Entered
<1>2. n \in Nat \ {0} /\ Bottom \in Nat \ {0} /\ n > Bottom /\ m \in Nat \ {0}
  BY StackSize DEF Shape
<1>3. Bottom' = Bottom  BY DEF Bottom
<1>4. ASSUME NEW k \in n..n1
      PROVE  k - n + 1 \in 1..m /\ stack'[k] = t[k - n + 1]
  <2>1. k - n + 1 \in 1..m /\ n - 1 + (k - n + 1) = k  BY <1>1, <1>2
  <2> QED  BY <1>1, <2>1
<1>5. StackOK'
  <2>1. stack' # <<>>  BY <1>1, <1>2, SequenceSize
  <2> QED  BY <1>1, <2>1 DEF StackOK
<1> HIDE DEF n, m, n1
<1>6. ASSUME NEW k \in 1..n1  PROVE IsFrame(stack'[k])
  <2>1. CASE k \in 1..n - 1
    <3>1. stack'[k] = stack[k] /\ k \in 1..Size(stack)  BY <1>1, <1>2, <2>1 DEF n
    <3> QED  BY <3>1 DEF Shape
  <2>2. CASE k \in n..n1  BY <1>4, <2>2 DEF m
  <2> QED  BY <1>1, <1>2, <2>1, <2>2
<1>7. \A k \in 1..Bottom : stack'[k].at = call'.under[k] /\ stack'[k].at \in CallerFrames
  BY <1>1, <1>2 DEF Shape
<1>8. ASSUME NEW k \in Bottom + 1..n1  PROVE OnTop(call, stack'[k - 1], stack'[k])
  <2>1. CASE k \in 1..n - 1
    <3>1. stack'[k - 1] = stack[k - 1] /\ stack'[k] = stack[k]
      BY <1>1, <1>2, <2>1
    <3>2. k \in Bottom + 1..Size(stack)  BY <1>2, <2>1 DEF n
    <3> QED  BY <3>1, <3>2 DEF Shape
  <2>2. CASE k = n
    <3>1. stack'[n] = t[1]
      <4>1. n \in n..n1 /\ n - n + 1 = 1  BY <1>1, <1>2
      <4> QED  BY <1>4, <4>1
    <3>2. stack'[n - 1] = stack[n - 1]
      <4>1. n - 1 \in 1..n - 1  BY <1>2
      <4> QED  BY <1>1, <4>1
    <3> QED  BY <2>2, <3>1, <3>2 DEF n
  <2>3. CASE k \in n + 1..n1
    <3>1. k \in n..n1 /\ k - 1 \in n..n1 /\ k - 1 - n + 1 = (k - n + 1) - 1 /\ k - n + 1 \in 2..m
      BY <1>1, <1>2, <2>3
    <3>2. stack'[k] = t[k - n + 1] /\ stack'[k - 1] = t[(k - n + 1) - 1]
      BY <1>4, <3>1
    <3> QED  BY <3>1, <3>2 DEF m
  <2> QED  BY <1>1, <1>2, <2>1, <2>2, <2>3
<1>9. ASSUME NEW k \in Bottom + 1..n1, k < n1  PROVE stack'[k].at \in Waiting
  <2>1. CASE k \in 1..n - 1
    <3>1. stack'[k] = stack[k] /\ k \in Bottom + 1..Size(stack) /\ k < Size(stack)
      BY <1>1, <1>2, <2>1 DEF n
    <3> QED  BY <3>1 DEF Shape
  <2>2. CASE k \in n..n1
    <3>1. k - n + 1 \in 1..m - 1  BY <1>1, <1>2, <1>9, <2>2
    <3> QED  BY <1>4, <2>2, <3>1 DEF m
  <2> QED  BY <1>1, <1>2, <2>1, <2>2
<1>10. stack'[n1].at \in Active
  <2>1. n1 \in n..n1 /\ n1 - n + 1 = m  BY <1>1, <1>2
  <2> QED  BY <1>4, <2>1 DEF m
<1>11. n1 > Bottom /\ n1 >= Bottom  BY <1>1, <1>2
<1>12. Shape'
  BY <1>3, <1>6, <1>7, <1>8, <1>9, <1>10, <1>11, Zenon DEF Shape, n1
<1> QED  BY <1>5, <1>12

\* What an action puts in the place of the last frame.
One(x) == <<x>>
Two(x, y) == <<x, y>>
Three(x, y, z) == <<x, y, z>>
Four(x, y, z, u) == <<x, y, z, u>>

LEMMA EnterOne ==
  ASSUME StackOK, Shape, Size(stack) > Bottom, call' = call, status' = "calling",
         NEW x, stack' = Replace(stack, One(x)),
         IsFrame(x),
         OnTop(call, stack[Size(stack) - 1], x),
         x.at \in Active
  PROVE  StackOK' /\ Shape'
<1> DEFINE t == One(x)
<1>1. IsSequence(t) /\ Size(t) = 1 /\ Size(t) \in Nat \ {0}  BY Literals DEF One
<1>2. t[1] = x  BY DEF One
<1>3. stack' = Replace(stack, t)  OBVIOUS
<1> HIDE DEF t
<1>4. \A k \in 1..Size(t) : IsFrame(t[k])  BY <1>1, <1>2
<1>5. OnTop(call, stack[Size(stack) - 1], t[1])  BY <1>2
<1>6. \A k \in 2..Size(t) : OnTop(call, t[k - 1], t[k])
  BY <1>1
<1>7. \A k \in 1..Size(t) - 1 : t[k].at \in Waiting  BY <1>1, <1>2
<1>8. t[Size(t)].at \in Active  BY <1>1, <1>2
<1> QED  BY <1>1, <1>3, <1>4, <1>5, <1>6, <1>7, <1>8, EnterKeepsShape

LEMMA EnterTwo ==
  ASSUME StackOK, Shape, Size(stack) > Bottom, call' = call, status' = "calling",
         NEW x, NEW y, stack' = Replace(stack, Two(x, y)),
         IsFrame(x), IsFrame(y),
         OnTop(call, stack[Size(stack) - 1], x), OnTop(call, x, y),
         x.at \in Waiting, y.at \in Active
  PROVE  StackOK' /\ Shape'
<1> DEFINE t == Two(x, y)
<1>1. IsSequence(t) /\ Size(t) = 2 /\ Size(t) \in Nat \ {0}  BY Literals DEF Two
<1>2. t[1] = x /\ t[2] = y  BY DEF Two
<1>3. stack' = Replace(stack, t)  OBVIOUS
<1> HIDE DEF t
<1>4. \A k \in 1..Size(t) : IsFrame(t[k])  BY <1>1, <1>2
<1>5. OnTop(call, stack[Size(stack) - 1], t[1])  BY <1>2
<1>6. \A k \in 2..Size(t) : OnTop(call, t[k - 1], t[k])
  <2>1. \A k \in 2..Size(t) : (k = 2 /\ k - 1 = 1)  BY <1>1
  <2> QED  BY <1>2, <2>1
<1>7. \A k \in 1..Size(t) - 1 : t[k].at \in Waiting  BY <1>1, <1>2
<1>8. t[Size(t)].at \in Active  BY <1>1, <1>2
<1> QED  BY <1>1, <1>3, <1>4, <1>5, <1>6, <1>7, <1>8, EnterKeepsShape

LEMMA EnterThree ==
  ASSUME StackOK, Shape, Size(stack) > Bottom, call' = call, status' = "calling",
         NEW x, NEW y, NEW z, stack' = Replace(stack, Three(x, y, z)),
         IsFrame(x), IsFrame(y), IsFrame(z),
         OnTop(call, stack[Size(stack) - 1], x), OnTop(call, x, y), OnTop(call, y, z),
         x.at \in Waiting, y.at \in Waiting, z.at \in Active
  PROVE  StackOK' /\ Shape'
<1> DEFINE t == Three(x, y, z)
<1>1. IsSequence(t) /\ Size(t) = 3 /\ Size(t) \in Nat \ {0}  BY Literals DEF Three
<1>2. t[1] = x /\ t[2] = y /\ t[3] = z  BY DEF Three
<1>3. stack' = Replace(stack, t)  OBVIOUS
<1> HIDE DEF t
<1>4. \A k \in 1..Size(t) : IsFrame(t[k])  BY <1>1, <1>2
<1>5. OnTop(call, stack[Size(stack) - 1], t[1])  BY <1>2
<1>6. \A k \in 2..Size(t) : OnTop(call, t[k - 1], t[k])
  <2>1. \A k \in 2..Size(t) : (k = 2 /\ k - 1 = 1) \/ (k = 3 /\ k - 1 = 2)  BY <1>1
  <2> QED  BY <1>2, <2>1
<1>7. \A k \in 1..Size(t) - 1 : t[k].at \in Waiting  BY <1>1, <1>2
<1>8. t[Size(t)].at \in Active  BY <1>1, <1>2
<1> QED  BY <1>1, <1>3, <1>4, <1>5, <1>6, <1>7, <1>8, EnterKeepsShape

LEMMA EnterFour ==
  ASSUME StackOK, Shape, Size(stack) > Bottom, call' = call, status' = "calling",
         NEW x, NEW y, NEW z, NEW u, stack' = Replace(stack, Four(x, y, z, u)),
         IsFrame(x), IsFrame(y), IsFrame(z), IsFrame(u),
         OnTop(call, stack[Size(stack) - 1], x), OnTop(call, x, y), OnTop(call, y, z), OnTop(call, z, u),
         x.at \in Waiting, y.at \in Waiting, z.at \in Waiting, u.at \in Active
  PROVE  StackOK' /\ Shape'
<1> DEFINE t == Four(x, y, z, u)
<1>1. IsSequence(t) /\ Size(t) = 4 /\ Size(t) \in Nat \ {0}  BY Literals DEF Four
<1>2. t[1] = x /\ t[2] = y /\ t[3] = z /\ t[4] = u  BY DEF Four
<1>3. stack' = Replace(stack, t)  OBVIOUS
<1> HIDE DEF t
<1>4. \A k \in 1..Size(t) : IsFrame(t[k])  BY <1>1, <1>2
<1>5. OnTop(call, stack[Size(stack) - 1], t[1])  BY <1>2
<1>6. \A k \in 2..Size(t) : OnTop(call, t[k - 1], t[k])
  <2>1. \A k \in 2..Size(t) : (k = 2 /\ k - 1 = 1) \/ (k = 3 /\ k - 1 = 2) \/ (k = 4 /\ k - 1 = 3)  BY <1>1
  <2> QED  BY <1>2, <2>1
<1>7. \A k \in 1..Size(t) - 1 : t[k].at \in Waiting  BY <1>1, <1>2
<1>8. t[Size(t)].at \in Active  BY <1>1, <1>2
<1> QED  BY <1>1, <1>3, <1>4, <1>5, <1>6, <1>7, <1>8, EnterKeepsShape

LEMMA ToFields ==
  ASSUME NEW at, IsFrame(Top)
  PROVE  /\ IsFrame(To(at)) /\ To(at).at = at
         /\ To(at).fn = Top.fn /\ To(at).args = Top.args /\ To(at).out = Top.out /\ To(at).form = Top.form
BY DEF IsFrame, To

LEMMA FrameFields ==
  ASSUME NEW at, NEW f, NEW args, NEW out, NEW form
  PROVE  LET fr == Frame(at, f, args, out, form) IN
         /\ IsFrame(fr) /\ fr.at = at /\ fr.fn = f /\ fr.args = args /\ fr.out = out /\ fr.form = form
BY DEF IsFrame, Frame

LEMMA TopOfCall ==
  ASSUME StackOK, Shape, status = "calling"
  PROVE  /\ IsFrame(Top) /\ Top.at \in Active /\ Size(stack) > Bottom
         /\ OnTop(call, stack[Size(stack) - 1], Top)
         /\ Top.at \in Active \ Computing => Has(call, Top)
<1>1. Size(stack) \in Nat \ {0} /\ Bottom \in Nat \ {0} /\ Top = stack[Size(stack)]  BY StackSize
<1>2. Size(stack) \in 1..Size(stack) /\ Size(stack) \in Bottom + 1..Size(stack)  BY <1>1 DEF Shape
<1>3. IsFrame(Top) /\ Top.at \in Active /\ OnTop(call, stack[Size(stack) - 1], Top)
  BY <1>1, <1>2 DEF Shape
<1>4. Top.at \in Active => Top.at \notin {"call", "invoke"}  BY DEF Active, Entries
<1>5. Size(stack) > Bottom  BY DEF Shape
<1> QED  BY <1>3, <1>4, <1>5 DEF OnTop

-----------------------------------------------------------------------------
(* Values and their conversion. *)

\* Containers are lists and tuples: NumPy also looks into other sequences, and
\* _fallback.py does not.
ListsAndTuples == \A c \in Calls : \A k \in DOMAIN c.args : c.args[k].is # "sequence"

LEMMA CallValues ==
  ASSUME ListsAndTuples, NEW c \in Calls
  PROVE  /\ 1 \in DOMAIN c.args /\ \A k \in DOMAIN c.args : IsPlain(c.args[k])
         /\ \A k \in DOMAIN c.out.outs : IsSingle(c.out.outs[k])
<1>1. /\ IsSequence(c.args) /\ c.args # <<>>
      /\ \A k \in DOMAIN c.args : IsValue(c.args[k])
  BY CallsAssumption
<1>2. 1 \in DOMAIN c.args  BY <1>1, SequenceSize
<1>3. \A k \in DOMAIN c.args : IsPlain(c.args[k])
  BY <1>1 DEF ListsAndTuples, IsPlain
<1>4. CASE c.out = NoOut
  <2>1. DOMAIN c.out.outs = {}  BY <1>4 DEF NoOut
  <2> QED  BY <1>2, <1>3, <2>1
<1>5. CASE c.out # NoOut
  BY <1>2, <1>3, <1>5, CallsAssumption
<1> QED  BY <1>4, <1>5

LEMMA LeafIsConverted ==
  ASSUME NEW v, IsSingle(v)
  PROVE  IsSingle(NumpyLeaf(v)) /\ ~IsArray(NumpyLeaf(v)) /\ ~IsContainer(NumpyLeaf(v))
<1>1. CASE IsArray(v)
  BY <1>1 DEF NumpyLeaf, Ndarray, IsArray, IsSingle, IsContainer
<1>2. CASE ~IsArray(v)
  BY <1>2 DEF NumpyLeaf, IsArray, IsSingle, IsContainer
<1> QED  BY <1>1, <1>2

LEMMA SequenceMap ==
  ASSUME NEW s, IsSequence(s), NEW t, DOMAIN t = DOMAIN s, t = [k \in DOMAIN s |-> t[k]]
  PROVE  IsSequence(t)
<1>1. Size(s) \in Nat /\ DOMAIN s = 1..Size(s)  BY SequenceSize
<1>2. t \in [1..Size(s) -> Range(t)]  BY <1>1 DEF Range
<1>3. t \in Seq(Range(t))  BY <1>1, <1>2
<1> QED  BY <1>3 DEF IsSequence

\* No lightarray is left, also in a list or tuple.
LEMMA ValueIsConverted ==
  ASSUME NEW v, IsPlain(v)
  PROVE  /\ IsPlain(to_numpy(v)) /\ ~IsArray(to_numpy(v)) /\ \A w \in Parts(to_numpy(v)) : ~IsArray(w)
         /\ IsSingle(v) => IsSingle(to_numpy(v))
<1>1. CASE v.is \in {"list", "tuple"}
  <2> DEFINE items == [k \in DOMAIN v.items |-> NumpyLeaf(v.items[k])]
  <2>1. /\ DOMAIN v = {"is", "items"} /\ IsSequence(v.items) /\ ~IsSingle(v)
        /\ \A k \in DOMAIN v.items : IsSingle(v.items[k])
    BY <1>1 DEF IsPlain, IsValue, IsSingle
  <2>2. \A k \in DOMAIN items : IsSingle(items[k]) /\ ~IsArray(items[k])
    BY <2>1, LeafIsConverted
  <2>3. IsSequence(items)
    <3>1. DOMAIN items = DOMAIN v.items /\ items = [k \in DOMAIN v.items |-> items[k]]  OBVIOUS
    <3> HIDE DEF items
    <3> QED  BY <2>1, <3>1, SequenceMap
  <2>4. to_numpy(v) = [v EXCEPT !.items = items]
    BY <1>1 DEF to_numpy, Map
  <2> HIDE DEF items
  <2>5. /\ DOMAIN to_numpy(v) = {"is", "items"} /\ to_numpy(v).is = v.is
        /\ to_numpy(v).items = items
    BY <2>1, <2>4
  <2>6. IsContainer(to_numpy(v)) /\ ~IsArray(to_numpy(v)) /\ v.is # "sequence"
    BY <1>1, <2>5 DEF IsContainer, IsArray
  <2> QED  BY <2>1, <2>2, <2>3, <2>5, <2>6 DEF IsPlain, IsValue, Parts
<1>2. CASE v.is \notin {"list", "tuple"}
  <2>1. IsSingle(v) /\ to_numpy(v) = NumpyLeaf(v)
    BY <1>2 DEF IsPlain, IsValue, IsContainer, to_numpy
  <2>2. IsSingle(to_numpy(v)) /\ ~IsArray(to_numpy(v)) /\ ~IsContainer(to_numpy(v))
    BY <2>1, LeafIsConverted
  <2> QED  BY <2>2 DEF IsPlain, IsValue, Parts, IsContainer
<1> QED  BY <1>1, <1>2

LEMMA SingleIsPlain == \A v : IsSingle(v) => IsPlain(v)
BY DEF IsPlain, IsValue, IsSingle

\* The arguments a frame of NumPy's has.
Prepared(fr) ==
  /\ 1 \in DOMAIN fr.args /\ \A k \in DOMAIN fr.args : IsPlain(fr.args[k])
  /\ \A k \in DOMAIN fr.out.outs : IsSingle(fr.out.outs[k])
  /\ fr.fn = "split" => IsSingle(fr.args[1])

LEMMA ConvertedIsPrepared ==
  ASSUME ListsAndTuples, NEW c \in Calls, NEW fr, HasConverted(c, fr) \/ FlipsConverted(c, fr)
  PROVE  Prepared(fr) /\ (fr.at = "numpy" => ~Dispatches(fr))
<1>1. /\ 1 \in DOMAIN c.args /\ \A k \in DOMAIN c.args : IsPlain(c.args[k])
      /\ \A k \in DOMAIN c.out.outs : IsSingle(c.out.outs[k])
      /\ c.fn = "split" => IsSingle(c.args[1])
  BY CallValues, CallsAssumption DEF IsPlain, IsValue, IsContainer, IsSingle
<1>2. CASE HasConverted(c, fr)
  <2>1. DOMAIN fr.args = DOMAIN c.args /\ \A k \in DOMAIN c.args : fr.args[k] = to_numpy(c.args[k])
    BY <1>2 DEF HasConverted, args_to_numpy, Map
  <2>2. /\ 1 \in DOMAIN fr.args /\ \A k \in DOMAIN fr.args : IsPlain(fr.args[k])
        /\ fr.fn = "split" => IsSingle(fr.args[1])
    BY <1>1, <1>2, <2>1, ValueIsConverted DEF HasConverted
  <2>3. CASE fr.out = OutToNumpy(c.out)
    <3>1. "outs" \in DOMAIN c.out  BY CallsAssumption DEF NoOut
    <3>2. /\ DOMAIN fr.out.outs = DOMAIN c.out.outs
          /\ \A k \in DOMAIN c.out.outs : fr.out.outs[k] = to_numpy(c.out.outs[k])
      BY <2>3, <3>1 DEF OutToNumpy, Map
    <3>3. \A k \in DOMAIN fr.out.outs : IsSingle(fr.out.outs[k])
      BY <1>1, <3>2, ValueIsConverted, SingleIsPlain
    <3>4. ASSUME NEW k \in DOMAIN fr.args
          PROVE  ~IsArray(fr.args[k]) /\ \A w \in Parts(fr.args[k]) : ~IsArray(w)
      BY <1>1, <2>1, ValueIsConverted
    <3>5. ASSUME NEW k \in DOMAIN fr.out.outs
          PROVE  ~IsArray(fr.out.outs[k]) /\ \A w \in Parts(fr.out.outs[k]) : ~IsArray(w)
      BY <1>1, <3>2, ValueIsConverted, SingleIsPlain
    <3>6. ~Dispatches(fr)  BY <3>4, <3>5 DEF Dispatches, Relevant
    <3> QED  BY <2>2, <3>3, <3>6 DEF Prepared
  <2>4. CASE fr.at = "implementation" /\ fr.out = c.out
    BY <1>1, <2>2, <2>4 DEF Prepared
  <2> QED  BY <1>2, <2>3, <2>4 DEF HasConverted
<1>3. CASE FlipsConverted(c, fr)
  <2>1. PICK v : IsPlain(v) /\ fr.args = args_to_numpy(<<v>>)
    BY <1>3 DEF FlipsConverted
  <2>2. DOMAIN fr.args = {1} /\ fr.args[1] = to_numpy(v)
    BY <2>1 DEF args_to_numpy, Map
  <2>3. fr.fn = "flip" /\ DOMAIN fr.out.outs = {}
    BY <1>3 DEF FlipsConverted, Flips, NoOut
  <2>4. IsPlain(fr.args[1]) /\ ~IsArray(fr.args[1]) /\ \A w \in Parts(fr.args[1]) : ~IsArray(w)
    BY <2>1, <2>2, ValueIsConverted
  <2>5. ~Dispatches(fr)  BY <2>2, <2>3, <2>4 DEF Dispatches, Relevant
  <2> QED  BY <2>2, <2>3, <2>4, <2>5 DEF Prepared
<1> QED  BY <1>2, <1>3

LEMMA RenamedIsPlain ==
  ASSUME NEW v, IsPlain(v), NEW w,
         \/ w = [v EXCEPT !.id = "new"]
         \/ w = [[v EXCEPT !.id = "new"] EXCEPT !.writable = FALSE]
         \/ w = [[v EXCEPT !.id = "new"] EXCEPT !.dtype = "int64"]
  PROVE  IsPlain(w) /\ (IsSingle(v) => IsSingle(w))
<1>1. DOMAIN w = DOMAIN v  OBVIOUS
<1>2. CASE IsSingle(v)
  <2>1. w.is = v.is  BY <1>2 DEF IsSingle
  <2>2. IsSingle(w)  BY <1>1, <1>2, <2>1 DEF IsSingle
  <2> QED  BY <2>2, SingleIsPlain
<1>3. CASE ~IsSingle(v)
  <2>1. /\ DOMAIN v = {"is", "items"} /\ IsContainer(v) /\ v.is # "sequence"
        /\ IsSequence(v.items) /\ \A k \in DOMAIN v.items : IsSingle(v.items[k])
    BY <1>3 DEF IsPlain, IsValue
  <2>2. w.is = v.is /\ w.items = v.items  BY <2>1
  <2> QED  BY <1>1, <1>3, <2>1, <2>2 DEF IsPlain, IsValue, IsContainer
<1> QED  BY <1>2, <1>3

LEMMA TupleIsPlain ==
  ASSUME NEW s, IsSequence(s), \A k \in DOMAIN s : IsSingle(s[k]), NEW is \in {"list", "tuple"}
  PROVE  IsPlain([is |-> is, items |-> s])
BY DEF IsPlain, IsValue, IsContainer

LEMMA NumpyAnswerIsPlain ==
  ASSUME NEW fr, Prepared(fr)
  PROVE  IsPlain(NumpyAnswer(fr))
<1> DEFINE x == fr.args[1]
           new == [x EXCEPT !.id = "new"]
           array == Ndarray(NumpyType(fr.fn, fr.args), "result", "none", TRUE)
           number == Number(NumpyType(fr.fn, fr.args))
           fresh == IF fr.fn \in Reductions \cup {"any"}
                    THEN IF fr.form = "bare" THEN number ELSE array
                    ELSE IF fr.fn # "full" /\ \A k \in DOMAIN fr.args : fr.args[k].is = "scalar"
                         THEN number ELSE array
           given(k) == k \in DOMAIN fr.out.outs /\ fr.out.outs[k] # None
           result(k) == IF given(k) THEN fr.out.outs[k] ELSE fresh
<1>1. IsPlain(x) /\ (fr.fn = "split" => IsSingle(x))  BY DEF Prepared
<1>2. /\ IsPlain(new) /\ IsPlain([new EXCEPT !.writable = FALSE]) /\ IsPlain([new EXCEPT !.dtype = "int64"])
      /\ IsSingle(x) => IsSingle(new)
  BY <1>1, RenamedIsPlain
<1>3. IsSingle(array) /\ IsSingle(number)  BY DEF IsSingle, Ndarray, Number
<1>4. IsSingle(fresh)  BY <1>3
<1>5. IsSingle(result(1)) /\ IsSingle(result(2))  BY <1>4 DEF Prepared
<1>6. ASSUME fr.fn = "split"  PROVE IsPlain([is |-> "list", items |-> <<new, new>>])
  <2>1. IsSingle(new)  BY <1>1, <1>2, <1>6
  <2> HIDE DEF new
  <2> DEFINE s == <<new, new>>
  <2>2. IsSequence(s)  BY Literals
  <2>3. \A k \in DOMAIN s : IsSingle(s[k])  BY <2>1
  <2> HIDE DEF s
  <2>4. IsPlain([is |-> "list", items |-> s])  BY <2>2, <2>3, TupleIsPlain
  <2> QED  BY <2>4 DEF s
<1>7. IsPlain(Tuple(<<result(1), result(2)>>))
  <2> HIDE DEF result
  <2> DEFINE s == <<result(1), result(2)>>
  <2>1. IsSequence(s)  BY Literals
  <2>2. \A k \in DOMAIN s : IsSingle(s[k])  BY <1>5
  <2> HIDE DEF s
  <2>3. IsPlain([is |-> "tuple", items |-> s])  BY <2>1, <2>2, TupleIsPlain
  <2> QED  BY <2>3 DEF s, Tuple
<1>8. IsPlain(result(1))  BY <1>5, SingleIsPlain
<1>9. NumpyAnswer(fr) =
        CASE fr.fn = "broadcast_to" -> [new EXCEPT !.writable = FALSE]
          [] fr.fn = "view" -> [new EXCEPT !.dtype = "int64"]
          [] fr.fn \in {"swapaxes", "getitem", "flip"} -> new
          [] fr.fn = "split" -> [is |-> "list", items |-> <<new, new>>]
          [] fr.fn = "modf" -> Tuple(<<result(1), result(2)>>)
          [] OTHER -> result(1)
  BY DEF NumpyAnswer
<1> HIDE DEF x, new, array, number, fresh, given, result
<1> QED  BY <1>2, <1>6, <1>7, <1>8, <1>9

LEMMA LeafFromNumpyIsSingle ==
  ASSUME NEW v, IsSingle(v), NEW inside
  PROVE  IsSingle(FromNumpyLeaf(v, inside))
BY DEF FromNumpyLeaf, IsSingle, Lightarray

LEMMA FromNumpyIsPlain ==
  ASSUME NEW v, IsPlain(v)
  PROVE  IsPlain(from_numpy(v))
<1>1. CASE v.is \in {"list", "tuple"}
  <2> DEFINE inside == call.patched /\ InsideDunderArray(1)
             items == [k \in DOMAIN v.items |-> FromNumpyLeaf(v.items[k], inside)]
  <2>1. /\ DOMAIN v = {"is", "items"} /\ IsSequence(v.items)
        /\ \A k \in DOMAIN v.items : IsSingle(v.items[k])
    BY <1>1 DEF IsPlain, IsValue, IsSingle
  <2>2. from_numpy(v) = [v EXCEPT !.items = items]
    BY <1>1 DEF from_numpy, Map
  <2> HIDE DEF inside
  <2>3. \A k \in DOMAIN items : IsSingle(items[k])
    BY <2>1, LeafFromNumpyIsSingle
  <2>4. DOMAIN items = DOMAIN v.items /\ items = [k \in DOMAIN v.items |-> items[k]]  OBVIOUS
  <2> HIDE DEF items
  <2>5. IsSequence(items)  BY <2>1, <2>4, SequenceMap
  <2>6. [v EXCEPT !.items = items] = [is |-> v.is, items |-> items] \/ IsPlain([v EXCEPT !.items = items])
    BY <1>1, <2>1, <2>3, <2>5 DEF IsPlain, IsValue, IsContainer
  <2> QED  BY <1>1, <2>2, <2>3, <2>5, <2>6, TupleIsPlain
<1>2. CASE v.is \notin {"list", "tuple"}
  <2>1. IsSingle(v)  BY <1>2 DEF IsPlain, IsValue, IsContainer
  <2>2. from_numpy(v) = FromNumpyLeaf(v, call.patched /\ InsideDunderArray(0))
    BY <1>2 DEF from_numpy
  <2> QED  BY <2>1, <2>2, LeafFromNumpyIsSingle, SingleIsPlain
<1> QED  BY <1>1, <1>2

LEMMA OutAnswerIsPlain ==
  ASSUME NEW c \in Calls, c.out # NoOut
  PROVE  IsPlain(OutAnswer(c.out))
<1>1. IsSequence(c.out.outs) /\ c.out.outs # <<>> /\ \A k \in DOMAIN c.out.outs : IsSingle(c.out.outs[k])
  BY CallsAssumption DEF IsSequence
<1>2. CASE Len(c.out.outs) = 1
  <2>1. 1 \in DOMAIN c.out.outs  BY <1>1, <1>2, SequenceSize DEF Size
  <2> QED  BY <1>1, <1>2, <2>1, SingleIsPlain DEF OutAnswer
<1>3. CASE Len(c.out.outs) # 1
  BY <1>1, <1>3, TupleIsPlain DEF OutAnswer, Tuple
<1> QED  BY <1>2, <1>3

-----------------------------------------------------------------------------
(* Every action keeps the shape. *)

LEMMA EnterIs ==
  /\ \A x : Enter(<<x>>) => stack' = Replace(stack, One(x))
  /\ \A x, y : Enter(<<x, y>>) => stack' = Replace(stack, Two(x, y))
  /\ \A x, y, z : Enter(<<x, y, z>>) => stack' = Replace(stack, Three(x, y, z))
  /\ \A x, y, z, u : Enter(<<x, y, z, u>>) => stack' = Replace(stack, Four(x, y, z, u))
BY DEF Enter, Rest, Shortened, Replace, One, Two, Three, Four

\* What an action that returns v does.
Returned(v) == stack' = Rest /\ answer' = v /\ status' = "returning"

LEMMA PopKeepsShape ==
  ASSUME StackOK, Shape, Size(stack) > Bottom, call' = call, stack' = Rest, status' # "calling"
  PROVE  StackOK' /\ Shape'
<1> DEFINE n == Size(stack)
           n1 == Size(stack')
<1>1. IsSequence(stack') /\ n1 = n - 1 /\ \A k \in 1..n - 1 : stack'[k] = stack[k]
  BY Popped
<1>2. n \in Nat \ {0} /\ Bottom \in Nat \ {0} /\ n > Bottom
  BY StackSize
<1>3. Bottom' = Bottom  BY DEF Bottom
<1>4. StackOK'
  <2>1. stack' # <<>>  BY <1>1, <1>2, SequenceSize
  <2> QED  BY <1>1, <2>1 DEF StackOK
<1> HIDE DEF n, n1
<1>5. \A k \in 1..n1 : k \in 1..Size(stack) /\ stack'[k] = stack[k] /\ k < Size(stack)
  BY <1>1, <1>2 DEF n
<1>6. \A k \in 1..n1 : IsFrame(stack'[k])
  BY <1>5 DEF Shape
<1>7. \A k \in 1..Bottom : stack'[k].at = call'.under[k] /\ stack'[k].at \in CallerFrames
  BY <1>1, <1>2 DEF Shape
<1>8. ASSUME NEW k \in Bottom + 1..n1
      PROVE  OnTop(call, stack'[k - 1], stack'[k]) /\ stack'[k].at \in Waiting
  <2>1. k \in 1..n1 /\ k - 1 \in 1..n1  BY <1>1, <1>2
  <2>2. k \in Bottom + 1..Size(stack)  BY <1>1, <1>2 DEF n
  <2> QED  BY <1>5, <2>1, <2>2 DEF Shape
<1>9. n1 >= Bottom  BY <1>1, <1>2
<1>10. Shape'
  BY <1>3, <1>6, <1>7, <1>8, <1>9, Zenon DEF Shape, n1
<1> QED  BY <1>4, <1>10

\* One frame for the call, one that waits for NumPy, and NumPy's.
LEMMA InvokeShape ==
  ASSUME StackOK, Shape, status = "calling", Has(call, Top),
         NEW p \in {"call", "wrapper", "method", "_array_ufunc: invoke", "_array_function: invoke"},
         NEW at \in Computing, Invoke(<<To(p)>>, at),
         OnTop(call, stack[Size(stack) - 1], To(p))
  PROVE  StackOK' /\ Shape'
<1> DEFINE x == To(p)
           y == To("invoke")
           z == Frame(at, Top.fn, args_to_numpy(Top.args), OutToNumpy(Top.out), Top.form)
<1>1. Enter(<<x, y, z>>) /\ call' = call /\ status' = "calling"
  BY JoinedLiterals DEF Invoke, Enter
<1>2. stack' = Replace(stack, Three(x, y, z))  BY <1>1, EnterIs
<1>3. IsFrame(Top) /\ Size(stack) > Bottom  BY TopOfCall
<1>4. /\ IsFrame(x) /\ x.at = p
      /\ IsFrame(y) /\ y.at = "invoke" /\ Has(call, y)
      /\ IsFrame(z) /\ z.at = at /\ HasConverted(call, z)
  <2> DEFINE args == args_to_numpy(Top.args)
             out == OutToNumpy(Top.out)
  <2>1. IsFrame(x) /\ x.at = p /\ IsFrame(y) /\ y.at = "invoke" /\ Has(call, y)
    BY <1>3, ToFields DEF Has
  <2>2. args = args_to_numpy(call.args) /\ out = OutToNumpy(call.out)
    BY DEF Has
  <2>3. z = Frame(at, Top.fn, args, out, Top.form)  OBVIOUS
  <2> HIDE DEF args, out, x, y, z
  <2>4. IsFrame(z) /\ z.at = at /\ z.fn = Top.fn /\ z.args = args /\ z.out = out /\ z.form = Top.form
    BY <2>3 DEF IsFrame, Frame
  <2> QED  BY <2>1, <2>2, <2>4 DEF Has, HasConverted
<1>5. OnTop(call, stack[Size(stack) - 1], x)  OBVIOUS
<1> HIDE DEF x, y, z
<1>6. OnTop(call, x, y) /\ OnTop(call, y, z)
  BY <1>4 DEF OnTop, StandsOn, CallerFrames, Entries, Protocol, Computing
<1>7. x.at \in Waiting /\ y.at \in Waiting /\ z.at \in Active
  BY <1>4 DEF Waiting, Passing, Active, Entries, Computing
<1> QED  BY <1>1, <1>2, <1>3, <1>4, <1>5, <1>6, <1>7, EnterThree

\* Two frames that both have the call, of which the first waits.
LEMMA ForwardShape ==
  ASSUME StackOK, Shape, status = "calling", Has(call, Top),
         NEW p \in Waiting \ {"sort"}, NEW at \in Active \ Computing, Enter(<<To(p), To(at)>>),
         OnTop(call, stack[Size(stack) - 1], To(p)), StandsOn(at, p), p \notin CallerFrames
  PROVE  StackOK' /\ Shape'
<1> DEFINE x == To(p)
           y == To(at)
<1>1. call' = call /\ status' = "calling"  BY DEF Enter
<1>2. stack' = Replace(stack, Two(x, y))  BY EnterIs
<1>3. IsFrame(Top) /\ Size(stack) > Bottom  BY TopOfCall
<1>4. IsFrame(x) /\ x.at = p /\ IsFrame(y) /\ y.at = at /\ Has(call, y)
  BY <1>3, ToFields DEF Has
<1>5. OnTop(call, stack[Size(stack) - 1], x)  OBVIOUS
<1> HIDE DEF x, y
<1>6. OnTop(call, x, y)
  BY <1>4 DEF OnTop, Active, Entries
<1> QED  BY <1>1, <1>2, <1>3, <1>4, <1>5, <1>6, EnterTwo

\* A frame that waits for NumPy's implementation.
LEMMA ConvertShape ==
  ASSUME StackOK, Shape, status = "calling", Has(call, Top),
         NEW p \in {"argsort_descending", "getitem: convert"},
         Enter(<<To(p), [To("implementation") EXCEPT !.args = args_to_numpy(@)]>>),
         OnTop(call, stack[Size(stack) - 1], To(p))
  PROVE  StackOK' /\ Shape'
<1> DEFINE x == To(p)
           w == To("implementation")
           y == [w EXCEPT !.args = args_to_numpy(w.args)]
<1>1. call' = call /\ status' = "calling" /\ Enter(<<x, y>>)  BY DEF Enter
<1>2. stack' = Replace(stack, Two(x, y))  BY <1>1, EnterIs
<1>3. IsFrame(Top) /\ Size(stack) > Bottom  BY TopOfCall
<1>4. IsFrame(x) /\ x.at = p /\ IsFrame(w) /\ w.at = "implementation" /\ Has(call, w)
  BY <1>3, ToFields DEF Has
<1>5. OnTop(call, stack[Size(stack) - 1], x)  OBVIOUS
<1> HIDE DEF x, w
<1>6. IsFrame(y) /\ y.at = "implementation" /\ HasConverted(call, y)
  BY <1>4 DEF IsFrame, Has, HasConverted
<1> HIDE DEF y
<1>7. OnTop(call, x, y) /\ x.at \in Waiting /\ y.at \in Active
  BY <1>4, <1>6 DEF OnTop, StandsOn, CallerFrames, Entries, Protocol, Computing, Waiting, Active
<1> QED  BY <1>1, <1>2, <1>3, <1>4, <1>5, <1>6, <1>7, EnterTwo

\* Where the frame of the call may be replaced by another of the same call.
LEMMA SameCall ==
  ASSUME StackOK, Shape, status = "calling", Has(call, Top), NEW p, p \notin Computing \cup Entries,
         StandsOn(p, stack[Size(stack) - 1].at),
         p \in Protocol => call.entry = "numpy",
         p = "sort" => call.fn = "sort" /\ call.form = "descending",
         p = "_array_ufunc: out" => call.out # NoOut,
         p = "argsort_descending" => call.fn = "argsort",
         p = "getitem: convert" => call.entry = "getitem",
         p = "proxy: call" => call.entry = "proxy",
         p \in {"_array_ufunc: native", "_array_function: native"} => call.fn \in NativeFunctions
  PROVE  OnTop(call, stack[Size(stack) - 1], To(p))
<1> DEFINE x == To(p)
           lower == stack[Size(stack) - 1]
<1>1. x.at = p /\ Has(call, x)  BY TopOfCall, ToFields DEF Has
<1> HIDE DEF x, lower
<1>2. StandsOn(p, lower.at)  BY DEF lower
<1>3. OnTop(call, lower, x)  BY <1>1, <1>2 DEF OnTop, Has
<1> QED  BY <1>3 DEF x, lower

LEMMA NativeKeepsShape ==
  ASSUME StackOK, Shape, Native
  PROVE  StackOK' /\ Shape'
<1> DEFINE lower == stack[Size(stack) - 1]
<1>1. PICK at \in {"native", "operator"} : Calling(at)
  BY DEF Native
<1>2. status = "calling" /\ Top.at \in {"native", "operator"}  BY <1>1 DEF Calling
<1>3. Has(call, Top) /\ Size(stack) > Bottom /\ OnTop(call, lower, Top)
  BY <1>2, TopOfCall DEF Active, Entries, Computing
<1> HIDE DEF lower
<1>4. StandsOn(Top.at, lower.at)  BY <1>3 DEF OnTop
<1>5. StandsOn("call", lower.at) /\ StandsOn("sort", lower.at) /\ StandsOn("argsort_descending", lower.at)
  BY <1>2, <1>4 DEF StandsOn, Forwarding, Computing
<1>6. OnTop(call, lower, To("call"))
  BY <1>2, <1>3, <1>5, SameCall DEF lower, Computing, Entries, Protocol
<1>7. CASE \E v : Return(v) /\ call' = call
  BY <1>3, <1>7, PopKeepsShape DEF Return
<1>8. CASE /\ Top.fn = "argsort"
           /\ Enter(<<To("argsort_descending"), [To("implementation") EXCEPT !.args = args_to_numpy(@)]>>)
  <2>1. call.fn = "argsort"  BY <1>3, <1>8 DEF Has
  <2>2. OnTop(call, lower, To("argsort_descending"))
    BY <1>2, <1>3, <1>5, <2>1, SameCall DEF lower, Computing, Entries, Protocol
  <2> QED  BY <1>2, <1>3, <1>8, <2>2, ConvertShape DEF lower
<1>9. CASE Top.fn = "sort" /\ Top.form = "descending" /\ Invoke(<<To("sort"), To("call")>>, "numpy")
  <2> DEFINE x == To("sort")
             y == To("call")
             z == To("invoke")
             args == args_to_numpy(Top.args)
             out == OutToNumpy(Top.out)
             u == Frame("numpy", Top.fn, args, out, Top.form)
  <2>1. Enter(<<x, y, z, u>>) /\ call' = call /\ status' = "calling"
    BY <1>2, <1>9, JoinedLiterals DEF Invoke, Enter
  <2>2. stack' = Replace(stack, Four(x, y, z, u))  BY <2>1, EnterIs
  <2>3. call.fn = "sort" /\ call.form = "descending"  BY <1>3, <1>9 DEF Has
  <2>4. OnTop(call, lower, x)
    BY <1>2, <1>3, <1>5, <2>3, SameCall DEF lower, Computing, Entries, Protocol
  <2>5. /\ IsFrame(x) /\ x.at = "sort" /\ IsFrame(y) /\ y.at = "call" /\ Has(call, y)
        /\ IsFrame(z) /\ z.at = "invoke" /\ Has(call, z)
    BY <1>2, <1>3, TopOfCall, ToFields DEF Has
  <2>6. args = args_to_numpy(call.args) /\ out = OutToNumpy(call.out)
    BY <1>3 DEF Has
  <2>7. u = Frame("numpy", Top.fn, args, out, Top.form)  OBVIOUS
  <2> HIDE DEF args, out, x, y, z, u
  <2>8. IsFrame(u) /\ u.at = "numpy" /\ HasConverted(call, u)
    <3>1. IsFrame(u) /\ u.at = "numpy" /\ u.fn = Top.fn /\ u.args = args /\ u.out = out /\ u.form = Top.form
      BY <2>7 DEF IsFrame, Frame
    <3> QED  BY <1>3, <2>6, <3>1 DEF Has, HasConverted
  <2>9. OnTop(call, x, y) /\ OnTop(call, y, z) /\ OnTop(call, z, u)
    BY <2>5, <2>8 DEF OnTop, StandsOn, CallerFrames, Entries, Protocol, Computing
  <2>10. x.at \in Waiting /\ y.at \in Waiting /\ z.at \in Waiting /\ u.at \in Active
    BY <2>5, <2>8 DEF Waiting, Passing, Active, Entries
  <2> QED  BY <1>3, <2>1, <2>2, <2>4, <2>5, <2>8, <2>9, <2>10, EnterFour DEF lower
<1>10. CASE Invoke(<<To("call")>>, "numpy")
  BY <1>2, <1>3, <1>6, <1>10, InvokeShape DEF lower, Computing
<1> QED  BY <1>7, <1>8, <1>9, <1>10 DEF Native

LEMMA WrapperKeepsShape ==
  ASSUME StackOK, Shape, Wrapper \/ Method \/ GetItem \/ UfuncProxy
  PROVE  StackOK' /\ Shape'
<1> DEFINE lower == stack[Size(stack) - 1]
<1>1. status = "calling" /\ Top.at \in {"wrapper", "method", "getitem", "proxy"}
  BY DEF Wrapper, Method, GetItem, UfuncProxy, Calling
<1>2. Has(call, Top) /\ Size(stack) > Bottom /\ OnTop(call, lower, Top)
  BY <1>1, TopOfCall DEF Active, Entries, Computing
<1> HIDE DEF lower
<1>3. StandsOn(Top.at, lower.at)  BY <1>2 DEF OnTop
<1>4. Top.at # "wrapper" => lower.at \in CallerFrames  BY <1>1, <1>3 DEF StandsOn, Computing
<1>5. CASE Wrapper
  <2>1. OnTop(call, lower, To("wrapper"))
    <3> DEFINE x == To("wrapper")
    <3>1. x.at = Top.at /\ Has(call, x)
      BY <1>1, <1>2, <1>5, TopOfCall, ToFields DEF Wrapper, Calling, Has
    <3> HIDE DEF x
    <3>2. OnTop(call, lower, x)
      BY <1>1, <1>2, <3>1 DEF OnTop, Computing
    <3> QED  BY <3>2 DEF x
  <2> QED  BY <1>1, <1>2, <1>5, <2>1, InvokeShape DEF Wrapper, lower, Computing
<1>6. CASE Method
  <2>1. OnTop(call, lower, To("method"))
    <3> DEFINE x == To("method")
    <3>1. x.at = Top.at /\ Has(call, x)
      BY <1>1, <1>2, <1>6, TopOfCall, ToFields DEF Method, Calling, Has
    <3> HIDE DEF x
    <3>2. OnTop(call, lower, x)
      BY <1>1, <1>2, <1>4, <1>6, <3>1 DEF OnTop, Computing, Method, Calling
    <3> QED  BY <3>2 DEF x
  <2> QED  BY <1>1, <1>2, <1>6, <2>1, InvokeShape DEF Method, lower, Computing
<1>7. CASE GetItem
  <2>1. call.entry = "getitem"
    BY <1>2, <1>4, <1>7 DEF OnTop, GetItem, Calling, Entries
  <2>2. OnTop(call, lower, To("getitem: convert"))
    BY <1>1, <1>2, <1>4, <1>7, <2>1, SameCall DEF lower, StandsOn, Computing, Entries, Protocol, GetItem, Calling
  <2> QED  BY <1>1, <1>2, <1>7, <2>2, ConvertShape DEF GetItem, lower
<1>8. CASE UfuncProxy
  <2>1. call.entry = "proxy"
    BY <1>2, <1>4, <1>8 DEF OnTop, UfuncProxy, Calling, Entries
  <2>2. OnTop(call, lower, To("proxy: call"))
    BY <1>1, <1>2, <1>4, <1>8, <2>1, SameCall DEF lower, StandsOn, Computing, Entries, Protocol, UfuncProxy, Calling
  <2>3. PICK at \in {"native", "wrapper"} : Enter(<<To("proxy: call"), To(at)>>)
    BY <1>8 DEF UfuncProxy
  <2>4. /\ StandsOn(at, "proxy: call") /\ at \in Active \ Computing
        /\ "proxy: call" \in Waiting \ {"sort"} /\ "proxy: call" \notin CallerFrames
    BY DEF StandsOn, Forwarding, Active, Entries, Computing, Waiting, Passing, CallerFrames
  <2> QED  BY <1>1, <1>2, <2>2, <2>3, <2>4, ForwardShape DEF lower
<1> QED  BY <1>5, <1>6, <1>7, <1>8

\* NumPy finds nothing to dispatch on in a call lightarray makes.
LEMMA DispatchesForCallers ==
  ASSUME ListsAndTuples, StackOK, Shape, NumpyDispatches
  PROVE  stack[Size(stack) - 1].at \in CallerFrames
<1> DEFINE lower == stack[Size(stack) - 1]
<1>1. status = "calling" /\ Top.at = "numpy" /\ Dispatches(Top)
  BY DEF NumpyDispatches, Calling
<1>2. call \in Calls  BY DEF StackOK
<1>3. OnTop(call, lower, Top)  BY <1>1, TopOfCall
<1> HIDE DEF lower
<1>4. SUFFICES ASSUME lower.at \notin CallerFrames  PROVE FALSE
  BY DEF lower
<1>5. HasConverted(call, Top) \/ FlipsConverted(call, Top)
  BY <1>1, <1>3, <1>4 DEF OnTop, Computing
<1> QED  BY <1>1, <1>2, <1>5, ConvertedIsPrepared

LEMMA NumpyDispatchesKeepsShape ==
  ASSUME ListsAndTuples, StackOK, Shape, NumpyDispatches
  PROVE  StackOK' /\ Shape'
<1> DEFINE lower == stack[Size(stack) - 1]
           p == IF Top.fn \in Ufuncs THEN "_array_ufunc" ELSE "_array_function"
           x == To(p)
<1>1. status = "calling" /\ Top.at = "numpy"
  BY DEF NumpyDispatches, Calling
<1>2. lower.at \in CallerFrames  BY DispatchesForCallers
<1>3. IsFrame(Top) /\ Size(stack) > Bottom /\ OnTop(call, lower, Top)
  BY <1>1, TopOfCall
<1>4. stack' = Replace(stack, One(x)) /\ call' = call /\ status' = "calling"
  BY <1>1, EnterIs DEF NumpyDispatches, Enter
<1> HIDE DEF lower
<1>5. Has(call, Top) /\ call.entry = "numpy"
  BY <1>1, <1>2, <1>3 DEF OnTop, Entries
<1>6. p \in {"_array_ufunc", "_array_function"}  OBVIOUS
<1> HIDE DEF p
<1>7. OnTop(call, lower, x)
  BY <1>1, <1>2, <1>5, <1>6, SameCall DEF lower, StandsOn, Protocol, Computing, Entries
<1>8. IsFrame(x) /\ x.at \in Active
  BY <1>3, <1>6, ToFields DEF Active
<1> HIDE DEF x
<1> QED  BY <1>3, <1>4, <1>7, <1>8, EnterOne DEF lower

LEMMA NumpyRunsKeepsShape ==
  ASSUME StackOK, Shape, NumpyRuns
  PROVE  StackOK' /\ Shape'
<1>1. status = "calling"  BY DEF NumpyRuns, Calling
<1>2. Size(stack) > Bottom  BY <1>1, TopOfCall
<1>3. call' = call /\ stack' = Rest /\ status' # "calling"  BY DEF NumpyRuns, Return
<1> QED  BY <1>2, <1>3, PopKeepsShape

\* The protocols are NumPy's way into lightarray: a program's call of a NumPy function.
LEMMA ProtocolKeepsShape ==
  ASSUME StackOK, Shape, ArrayUfunc \/ ArrayFunction
  PROVE  StackOK' /\ Shape'
<1> DEFINE lower == stack[Size(stack) - 1]
<1>1. status = "calling" /\ Top.at \in {"_array_ufunc", "_array_function"}
  BY DEF ArrayUfunc, ArrayFunction, Calling
<1>2. Has(call, Top) /\ IsFrame(Top) /\ Size(stack) > Bottom /\ OnTop(call, lower, Top)
  BY <1>1, TopOfCall DEF Active, Entries, Computing
<1> HIDE DEF lower
<1>3. StandsOn(Top.at, lower.at)  BY <1>2 DEF OnTop
<1>4. lower.at \in CallerFrames  BY <1>1, <1>3 DEF StandsOn, Computing
<1>5. call.entry = "numpy"  BY <1>1, <1>2, <1>4 DEF OnTop, Protocol
<1>6. ASSUME NEW p \in Protocol, p = "_array_ufunc: out" => Top.out # NoOut,
             p \in {"_array_ufunc: native", "_array_function: native"} => call.fn \in NativeFunctions
      PROVE  OnTop(call, lower, To(p))
  BY <1>1, <1>2, <1>4, <1>5, <1>6, SameCall DEF Has, lower, StandsOn, Protocol, Computing, Entries
<1>7. ASSUME NEW p \in {"_array_ufunc: native", "_array_function: native"}, Enter(<<To(p), To("native")>>),
             Top.fn \in Registered
      PROVE  StackOK' /\ Shape'
  <2>1. /\ StandsOn("native", p) /\ "native" \in Active \ Computing
        /\ p \in Waiting \ {"sort"} /\ p \notin CallerFrames /\ p \in Protocol
    BY <1>7 DEF StandsOn, Forwarding, Active, Entries, Computing, Waiting, Passing, CallerFrames, Protocol
  <2>2. call.fn \in NativeFunctions  BY <1>2, <1>7 DEF Has, Registered
  <2>3. OnTop(call, lower, To(p))  BY <1>6, <2>1, <2>2
  <2> QED  BY <1>1, <1>2, <1>7, <2>1, <2>3, ForwardShape DEF lower
<1>8. ASSUME NEW p \in {"_array_ufunc: invoke", "_array_function: invoke"}, NEW at \in Computing,
             Invoke(<<To(p)>>, at)
      PROVE  StackOK' /\ Shape'
  <2>1. OnTop(call, lower, To(p))  BY <1>6 DEF Protocol
  <2> QED  BY <1>1, <1>2, <1>8, <2>1, InvokeShape DEF lower
<1>9. CASE /\ Top.out # NoOut
           /\ Enter(<<To("_array_ufunc: out"),
                     Frame("numpy", Top.fn, args_to_numpy(Top.args), OutToNumpy(Top.out), Top.form)>>)
  <2> DEFINE args == args_to_numpy(Top.args)
             out == OutToNumpy(Top.out)
             x == To("_array_ufunc: out")
             y == Frame("numpy", Top.fn, args, out, Top.form)
  <2>1. stack' = Replace(stack, Two(x, y)) /\ call' = call /\ status' = "calling"
    BY <1>1, <1>9, EnterIs DEF Enter
  <2>2. args = args_to_numpy(call.args) /\ out = OutToNumpy(call.out)
    BY <1>2 DEF Has
  <2>3. y = Frame("numpy", Top.fn, args, out, Top.form)  OBVIOUS
  <2>4. IsFrame(x) /\ x.at = "_array_ufunc: out"  BY <1>2, ToFields
  <2>5. OnTop(call, lower, x)  BY <1>6, <1>9 DEF Protocol
  <2> HIDE DEF args, out, x, y
  <2>6. IsFrame(y) /\ y.at = "numpy" /\ HasConverted(call, y)
    <3>1. IsFrame(y) /\ y.at = "numpy" /\ y.fn = Top.fn /\ y.args = args /\ y.out = out /\ y.form = Top.form
      BY <2>3 DEF IsFrame, Frame
    <3> QED  BY <1>2, <2>2, <3>1 DEF Has, HasConverted
  <2>7. OnTop(call, x, y) /\ x.at \in Waiting /\ y.at \in Active
    BY <2>4, <2>6 DEF OnTop, StandsOn, CallerFrames, Entries, Protocol, Computing, Waiting, Active
  <2> QED  BY <1>2, <2>1, <2>4, <2>5, <2>6, <2>7, EnterTwo DEF lower
<1>10. CASE ArrayUfunc
  BY <1>7, <1>8, <1>9, <1>10 DEF ArrayUfunc, Computing
<1>11. CASE ArrayFunction
  BY <1>7, <1>8, <1>11 DEF ArrayFunction, Computing
<1> QED  BY <1>10, <1>11

\* The frame that gets the answer.
LEMMA TopOfReturn ==
  ASSUME StackOK, Shape, status = "returning", Top.at \notin CallerFrames
  PROVE  /\ IsFrame(Top) /\ Top.at \in Waiting /\ Size(stack) > Bottom
         /\ OnTop(call, stack[Size(stack) - 1], Top)
<1>1. Size(stack) \in Nat \ {0} /\ Bottom \in Nat \ {0} /\ Top = stack[Size(stack)]  BY StackSize
<1>2. Size(stack) \in 1..Size(stack)  BY <1>1
<1>3. Size(stack) > Bottom
  <2>1. Size(stack) >= Bottom /\ ~(Size(stack) \in 1..Bottom)  BY <1>1 DEF Shape
  <2> QED  BY <1>1, <2>1
<1>4. Size(stack) \in Bottom + 1..Size(stack)  BY <1>1, <1>3
<1> QED  BY <1>1, <1>2, <1>3, <1>4 DEF Shape

LEMMA ReturnToKeepsShape ==
  ASSUME StackOK, Shape, ReturnTo
  PROVE  StackOK' /\ Shape'
<1>1. status = "returning" /\ Top.at \notin CallerFrames /\ stack' = Rest /\ call' = call /\ status' # "calling"
  BY DEF ReturnTo
<1>2. Size(stack) > Bottom  BY <1>1, TopOfReturn
<1> QED  BY <1>1, <1>2, PopKeepsShape

\* The flip of a descending sort has the sorted array for its argument.
LEMMA SortFlipKeepsShape ==
  ASSUME StackOK, Shape, SortFlip, IsPlain(answer)
  PROVE  StackOK' /\ Shape'
<1> DEFINE lower == stack[Size(stack) - 1]
           w == To("call")
           x == [w EXCEPT !.fn = "flip"]
           y == Frame("invoke", "flip", <<answer>>, NoOut, "bare")
           args == args_to_numpy(<<answer>>)
           z == Frame("numpy", "flip", args, NoOut, "bare")
<1>1. status = "returning" /\ Top.at = "sort" /\ call' = call /\ status' = "calling"
  BY DEF SortFlip
<1>2. Top.at \notin CallerFrames  BY <1>1 DEF CallerFrames
<1>3. IsFrame(Top) /\ Size(stack) > Bottom /\ OnTop(call, lower, Top)
  BY <1>1, <1>2, TopOfReturn
<1>4. stack' = Replace(stack, Three(x, y, z))
  BY DEF SortFlip, Rest, Shortened, Replace, Three
<1> HIDE DEF lower
<1>5. Has(call, Top) /\ Top.fn = "sort" /\ Top.form = "descending"
  BY <1>1, <1>3 DEF OnTop, Computing
<1>6. StandsOn("call", lower.at)
  BY <1>1, <1>3 DEF OnTop, StandsOn, Forwarding, Computing
<1>7. IsFrame(w) /\ w.at = "call"
  BY <1>3, ToFields
<1> HIDE DEF w
<1>8. IsFrame(x) /\ x.at = "call" /\ Flips(call, x)
  BY <1>5, <1>7 DEF IsFrame, Flips, Has
<1>9. IsFrame(y) /\ y.at = "invoke" /\ y.out = NoOut /\ Flips(call, y)
  BY <1>5 DEF IsFrame, Frame, Flips, Has
<1>10. \E v : IsPlain(v) /\ args = args_to_numpy(<<v>>)  OBVIOUS
<1>11. z = Frame("numpy", "flip", args, NoOut, "bare")  OBVIOUS
<1> HIDE DEF args, x, y, z
<1>12. IsFrame(z) /\ z.at = "numpy" /\ FlipsConverted(call, z)
  <2>1. IsFrame(z) /\ z.at = "numpy" /\ z.fn = "flip" /\ z.args = args /\ z.out = NoOut /\ z.form = "bare"
    BY <1>11 DEF IsFrame, Frame
  <2> QED  BY <1>5, <1>10, <2>1 DEF FlipsConverted, Flips, Has
<1>13. OnTop(call, lower, x)
  BY <1>6, <1>8 DEF OnTop, Computing, Entries, Protocol
<1>14. OnTop(call, x, y) /\ OnTop(call, y, z)
  BY <1>8, <1>9, <1>12 DEF OnTop, StandsOn, CallerFrames, Entries, Protocol, Computing
<1>15. x.at \in Waiting /\ y.at \in Waiting /\ z.at \in Active
  BY <1>8, <1>9, <1>12 DEF Waiting, Passing, Active, Entries
<1> QED  BY <1>1, <1>3, <1>4, <1>8, <1>9, <1>12, <1>13, <1>14, <1>15, EnterThree DEF lower

-----------------------------------------------------------------------------
(* The answer. *)

\* NumPy gets arguments of the program's call, converted unless it is the
\* program that calls NumPy.
LEMMA ComputingIsPrepared ==
  ASSUME ListsAndTuples, StackOK, Shape, status = "calling", Top.at \in Computing
  PROVE  Prepared(Top)
<1> DEFINE lower == stack[Size(stack) - 1]
<1>1. OnTop(call, lower, Top) /\ call \in Calls  BY TopOfCall DEF StackOK
<1> HIDE DEF lower
<1>2. CASE lower.at \in CallerFrames
  <2>1. Top.at = "numpy"
    BY <1>1, <1>2 DEF OnTop, StandsOn, Computing, CallerFrames, Entries, Protocol, Forwarding
  <2>2. Has(call, Top)  BY <1>1, <1>2, <2>1 DEF OnTop
  <2>3. call.fn = "split" => IsSingle(call.args[1])
    BY <1>1, CallsAssumption, CallValues DEF IsPlain, IsValue, IsContainer
  <2> QED  BY <1>1, <2>2, <2>3, CallValues DEF Has, Prepared
<1>3. CASE lower.at \notin CallerFrames
  <2>1. HasConverted(call, Top) \/ FlipsConverted(call, Top)
    BY <1>1, <1>3 DEF OnTop
  <2> QED  BY <1>1, <2>1, ConvertedIsPrepared
<1> QED  BY <1>2, <1>3

LEMMA NativeAnswerIsPlain ==
  ASSUME NEW fr, NEW t
  PROVE  IsPlain(NativeAnswer(fr, t))
<1>1. IsSingle(Number(t)) /\ IsSingle(Lightarray(t, "result"))
  BY DEF IsSingle, Number, Lightarray
<1> QED  BY <1>1, SingleIsPlain DEF NativeAnswer

\* invoke hands back the caller's arrays only where the caller gave some.
LEMMA InvokeAnswerIsPlain ==
  ASSUME StackOK, NEW fr, IsPlain(answer), fr.out = call.out \/ fr.out = NoOut
  PROVE  IsPlain(InvokeAnswer(fr, answer))
<1>1. IsPlain(from_numpy(answer))  BY FromNumpyIsPlain
<1>2. ASSUME fr.out.how \in {"keyword", "positional"}  PROVE IsPlain(OutAnswer(fr.out))
  <2>1. fr.out # NoOut  BY <1>2 DEF NoOut
  <2>2. fr.out = call.out /\ call \in Calls  BY <2>1 DEF StackOK
  <2>3. IsPlain(OutAnswer(call.out))  BY <2>1, <2>2, OutAnswerIsPlain
  <2> QED  BY <2>2, <2>3
<1> QED  BY <1>1, <1>2 DEF InvokeAnswer

LEMMA ReturnToAnswer ==
  ASSUME StackOK, Shape, IsPlain(answer), ReturnTo
  PROVE  IsPlain(answer')
<1> DEFINE lower == stack[Size(stack) - 1]
<1>1. status = "returning" /\ Top.at \notin CallerFrames /\ Top.at # "sort"  BY DEF ReturnTo
<1>2. Top.at \in Waiting /\ OnTop(call, lower, Top)  BY <1>1, TopOfReturn
<1> HIDE DEF lower
<1>3. CASE Top.at = "invoke"
  <2>1. Top.out = call.out \/ Top.out = NoOut  BY <1>2, <1>3 DEF OnTop, Has, Computing
  <2>2. answer' = InvokeAnswer(Top, answer)  BY <1>3 DEF ReturnTo, Passing
  <2> QED  BY <2>1, <2>2, InvokeAnswerIsPlain
<1>4. CASE Top.at = "_array_ufunc: out"
  <2>1. Top.out = call.out /\ Top.out # NoOut  BY <1>2, <1>4 DEF OnTop, Has, Computing
  <2>2. answer' = OutAnswer(Top.out)  BY <1>4 DEF ReturnTo, Passing
  <2>3. IsPlain(OutAnswer(call.out))  BY <2>1, OutAnswerIsPlain DEF StackOK
  <2> QED  BY <2>1, <2>2, <2>3
<1>5. CASE Top.at \in {"getitem: convert", "argsort_descending"}
  <2>1. answer' = from_numpy(answer)  BY <1>5 DEF ReturnTo, Passing
  <2> QED  BY <2>1, FromNumpyIsPlain
<1>6. CASE Top.at \in Passing
  BY <1>6 DEF ReturnTo, Passing
<1> QED  BY <1>1, <1>2, <1>3, <1>4, <1>5, <1>6 DEF Waiting

-----------------------------------------------------------------------------
(* The inductive invariant. *)

\* The shape, and a value on its way down that is fit for the next conversion.
Inv ==
  /\ StackOK /\ Shape
  /\ IsPlain(answer)
  /\ status \in {"calling", "returning", "returned"}

LEMMA NextKeepsInv ==
  ASSUME ListsAndTuples, Inv, [Next]_vars
  PROVE  Inv'
<1>1. StackOK /\ Shape /\ IsPlain(answer)  BY DEF Inv
<1>2. CASE Native
  <2>1. StackOK' /\ Shape'  BY <1>1, <1>2, NativeKeepsShape
  <2>2. IsPlain(answer') /\ status' \in {"calling", "returning"}
    BY <1>1, <1>2, NativeAnswerIsPlain DEF Native, Calling, Return, Enter, Invoke
  <2> QED  BY <2>1, <2>2 DEF Inv
<1>3. CASE Wrapper \/ Method \/ GetItem \/ UfuncProxy
  <2>1. StackOK' /\ Shape'  BY <1>1, <1>3, WrapperKeepsShape
  <2>2. answer' = answer /\ status' = status
    BY <1>3 DEF Wrapper, Method, GetItem, UfuncProxy, Invoke, Enter
  <2> QED  BY <1>1, <2>1, <2>2 DEF Inv
<1>4. CASE NumpyDispatches
  <2>1. StackOK' /\ Shape'  BY <1>1, <1>4, NumpyDispatchesKeepsShape
  <2>2. answer' = answer /\ status' = status  BY <1>4 DEF NumpyDispatches, Enter
  <2> QED  BY <1>1, <2>1, <2>2 DEF Inv
<1>5. CASE NumpyRuns
  <2>1. StackOK' /\ Shape'  BY <1>1, <1>5, NumpyRunsKeepsShape
  <2>2. status = "calling" /\ Top.at \in Computing
    BY <1>5 DEF NumpyRuns, Calling, Computing
  <2>3. IsPlain(NumpyAnswer(Top))  BY <1>1, <2>2, ComputingIsPrepared, NumpyAnswerIsPlain
  <2> QED  BY <1>5, <2>1, <2>3 DEF NumpyRuns, Return, Inv
<1>6. CASE ArrayUfunc \/ ArrayFunction
  <2>1. StackOK' /\ Shape'  BY <1>1, <1>6, ProtocolKeepsShape
  <2>2. answer' = answer /\ status' = status  BY <1>6 DEF ArrayUfunc, ArrayFunction, Invoke, Enter
  <2> QED  BY <1>1, <2>1, <2>2 DEF Inv
<1>7. CASE ReturnTo
  <2>1. StackOK' /\ Shape' /\ IsPlain(answer')  BY <1>1, <1>7, ReturnToKeepsShape, ReturnToAnswer
  <2> QED  BY <1>7, <2>1 DEF ReturnTo, Inv
<1>8. CASE SortFlip
  <2>1. StackOK' /\ Shape'  BY <1>1, <1>8, SortFlipKeepsShape
  <2> QED  BY <1>1, <1>8, <2>1 DEF SortFlip, Inv
<1>9. CASE Finish \/ UNCHANGED vars
  <2>1. stack' = stack /\ call' = call /\ answer' = answer /\ (status' = status \/ status' = "returned")
    BY <1>9 DEF Finish, vars
  <2>2. StackOK'  BY <1>1, <2>1 DEF StackOK
  <2>3. Bottom' = Bottom  BY <2>1 DEF Bottom
  <2>4. status' # "calling" => \A k \in Bottom + 1..Size(stack) : stack[k].at \in Waiting
    BY <1>1, <1>9 DEF Finish, vars, Shape
  <2>5. Shape'  BY <1>1, <2>1, <2>3, <2>4, <1>9 DEF Shape, Finish, vars
  <2> QED  BY <1>1, <2>1, <2>2, <2>5 DEF Inv
<1> QED  BY <1>2, <1>3, <1>4, <1>5, <1>6, <1>7, <1>8, <1>9 DEF Next

LEMMA InitInv ==
  ASSUME Init
  PROVE  Inv /\ Size(stack) = Bottom + 1 /\ Top.at = call.entry
<1> DEFINE callers == [k \in DOMAIN call.under |-> Frame(call.under[k], "none", <<>>, NoOut, "bare")]
           last == Frame(call.entry, call.fn, call.args, call.out, call.form)
           t == One(last)
<1>1. call \in Calls /\ stack = callers \o t /\ answer = None /\ status = "calling"
  BY DEF Init, One
<1>2. call.under \in Seq(CallerFrames) /\ call.under # <<>> /\ call.entry \in Entries
  BY <1>1, CallsAssumption
<1>3. IsSequence(call.under) /\ \A k \in 1..Size(call.under) : call.under[k] \in CallerFrames
  BY <1>2, Sequence
<1>4. Bottom \in Nat \ {0} /\ DOMAIN call.under = 1..Bottom
  BY <1>2, <1>3, SequenceSize DEF Bottom
<1>5. DOMAIN callers = 1..Bottom /\ callers = [k \in DOMAIN call.under |-> callers[k]]
  BY <1>4
<1>6. \A k \in 1..Bottom : IsFrame(callers[k]) /\ callers[k].at = call.under[k]
  BY <1>4 DEF IsFrame, Frame
<1>7. IsSequence(t) /\ Size(t) = 1 /\ t[1] = last
  BY Literals DEF One
<1>8. IsFrame(last) /\ last.at = call.entry /\ Has(call, last)
  BY DEF IsFrame, Frame, Has
<1> HIDE DEF callers, last, t
<1>9. IsSequence(callers)
  BY <1>3, <1>5, <1>4, SequenceMap
<1>10. Size(callers) = Bottom
  <2>1. 1..Size(callers) = 1..Bottom /\ Size(callers) \in Nat  BY <1>5, <1>9, SequenceSize
  <2> QED  BY <1>4, <2>1
<1>11. /\ IsSequence(stack) /\ Size(stack) = Bottom + 1
       /\ \A k \in 1..Bottom : stack[k] = callers[k]
       /\ stack[Bottom + 1] = last
  <2> DEFINE S == Range(callers) \cup Range(t)
             r == callers \o t
  <2>1. callers \in Seq(S) /\ t \in Seq(S)
    BY <1>7, <1>9, SeqMonotonic DEF IsSequence
  <2> HIDE DEF S
  <2>2. /\ r \in Seq(S) /\ Size(r) = Size(callers) + Size(t)
        /\ \A k \in 1..Size(callers) + Size(t) :
             r[k] = IF k <= Size(callers) THEN callers[k] ELSE t[k - Size(callers)]
    BY <2>1, ConcatProperties DEF Size
  <2>3. stack = r  BY <1>1
  <2> HIDE DEF r
  <2>4. IsSequence(r) /\ Size(r) = Bottom + 1  BY <1>7, <1>10, <2>2, Sequence
  <2>5. \A k \in 1..Bottom : r[k] = callers[k]
    <3>1. \A k \in 1..Bottom : k \in 1..Size(callers) + Size(t) /\ k <= Size(callers)
      BY <1>4, <1>7, <1>10
    <3> QED  BY <2>2, <3>1
  <2>6. r[Bottom + 1] = last
    <3> DEFINE k == Bottom + 1
    <3>1. k \in 1..Size(callers) + Size(t) /\ ~(k <= Size(callers)) /\ k - Size(callers) = 1
      BY <1>4, <1>7, <1>10
    <3> HIDE DEF k
    <3>2. r[k] = t[k - Size(callers)]  BY <2>2, <3>1
    <3> QED  BY <1>7, <3>1, <3>2 DEF k
  <2> QED  BY <2>3, <2>4, <2>5, <2>6
<1>12. StackOK
  <2>1. Size(stack) # 0  BY <1>4, <1>11
  <2> QED  BY <1>1, <1>11, <2>1, SequenceSize DEF StackOK
<1>13. \A k \in 1..Bottom : stack[k].at = call.under[k] /\ stack[k].at \in CallerFrames
  BY <1>3, <1>6, <1>11 DEF Bottom
<1>14. \A k \in 1..Size(stack) : IsFrame(stack[k])
  <2>1. \A k \in 1..Size(stack) : k \in 1..Bottom \/ k = Bottom + 1  BY <1>4, <1>11
  <2> QED  BY <1>6, <1>8, <1>11, <2>1
<1>15. ASSUME NEW k \in Bottom + 1..Size(stack)
       PROVE  OnTop(call, stack[k - 1], stack[k]) /\ k = Size(stack) /\ stack[k].at \in Entries
  <2>1. k = Bottom + 1 /\ k - 1 = Bottom /\ Bottom \in 1..Bottom  BY <1>4, <1>11
  <2>2. stack[k] = last /\ stack[k - 1].at \in CallerFrames  BY <1>11, <1>13, <2>1
  <2>3. StandsOn(last.at, stack[k - 1].at)  BY <1>2, <1>8, <2>2 DEF StandsOn
  <2>4. last.at \notin Protocol \cup {"sort", "argsort_descending", "getitem: convert", "proxy: call",
                                  "_array_ufunc: out", "_array_ufunc: native", "_array_function: native"}
    BY <1>2, <1>8 DEF Entries, Protocol
  <2>5. OnTop(call, stack[k - 1], last)  BY <1>8, <2>2, <2>3, <2>4 DEF OnTop
  <2> QED  BY <1>2, <1>8, <1>11, <2>1, <2>2, <2>5
<1>16. Size(stack) > Bottom /\ stack[Size(stack)].at \in Active
  BY <1>2, <1>4, <1>8, <1>11 DEF Active
<1>17. Shape
  <2>1. Size(stack) >= Bottom  BY <1>4, <1>11
  <2>2. \A k \in Bottom + 1..Size(stack) : k < Size(stack) \/ status # "calling" => stack[k].at \in Waiting
    BY <1>1, <1>4, <1>11, <1>15
  <2> QED  BY <1>13, <1>14, <1>15, <1>16, <2>1, <2>2 DEF Shape
<1>18. IsPlain(answer)
  <2>1. IsSingle(None)  BY DEF IsSingle, None
  <2> QED  BY <1>1, <2>1, SingleIsPlain
<1>19. Top.at = call.entry  BY <1>8, <1>11, <1>12, StackSize
<1> QED  BY <1>1, <1>11, <1>12, <1>17, <1>18, <1>19 DEF Inv

\* Calls are nested as _fallback.py, the native module and NumPy's protocols
\* nest them, each with the arguments of the program's call, and what comes
\* back is a value from_numpy and to_numpy know.
THEOREM StackShape == ListsAndTuples => (Spec => []Inv)
<1> SUFFICES ASSUME ListsAndTuples  PROVE Spec => []Inv
  OBVIOUS
<1>1. Init => Inv  BY InitInv
<1>2. Inv /\ [Next]_vars => Inv'  BY NextKeepsInv
<1> QED  BY <1>1, <1>2, PTL DEF Spec

\* Above the frame of `invoke` is NumPy, and NumPy calls nothing.
LEMMA InvReentrance == Inv => NumPyIsNotReentered
<1> SUFFICES ASSUME Inv, NEW i \in DOMAIN stack, NEW j \in DOMAIN stack,
                    stack[i].at = "invoke", i < j
             PROVE  stack[j].at \in Computing
  BY DEF NumPyIsNotReentered, Computing
<1>1. StackOK /\ Shape  BY DEF Inv
<1>2. /\ Size(stack) \in Nat \ {0} /\ DOMAIN stack = 1..Size(stack)
      /\ Bottom \in Nat \ {0}
  BY <1>1, StackSize
<1>3. i \in 1..Size(stack) /\ j \in 1..Size(stack)  BY <1>2
<1>4. "invoke" \notin CallerFrames  BY DEF CallerFrames
<1>5. i > Bottom
  <2>1. ~(i \in 1..Bottom)  BY <1>1, <1>4 DEF Shape
  <2> QED  BY <1>2, <1>3, <2>1
<1> DEFINE k == i + 1
<1>6. k \in Bottom + 1..Size(stack) /\ k - 1 = i /\ i + 1 = k  BY <1>2, <1>3, <1>5
<1> HIDE DEF k
<1>7. OnTop(call, stack[k - 1], stack[k])  BY <1>1, <1>6 DEF Shape
<1>8. stack[k].at \in Computing
  <2>1. StandsOn(stack[k].at, "invoke")  BY <1>6, <1>7 DEF OnTop
  <2> QED  BY <2>1 DEF StandsOn, CallerFrames, Forwarding, Computing
<1>9. ~(k < Size(stack))
  <2>1. stack[k].at \notin Waiting  BY <1>8 DEF Computing, Waiting, Passing
  <2> QED  BY <1>1, <1>6, <2>1 DEF Shape
<1>10. j = k  BY <1>2, <1>3, <1>6, <1>9
<1> QED  BY <1>8, <1>10

\* Whatever is called and however deep, a call handed to NumPy stays with
\* NumPy: to_numpy leaves no lightarray for a protocol to find.
THEOREM Reentrance == ListsAndTuples => (Spec => []NumPyIsNotReentered)
BY StackShape, InvReentrance, PTL

-----------------------------------------------------------------------------
(* Counting. *)

\* The last but one of the frames an action leaves.
LEMMA Beneath ==
  ASSUME StackOK, Size(stack) > 1
  PROVE  /\ \A x : stack' = Replace(stack, One(x)) =>
              Size(stack') = Size(stack) /\ stack'[Size(stack') - 1] = stack[Size(stack) - 1]
         /\ \A x, y : stack' = Replace(stack, Two(x, y)) => stack'[Size(stack') - 1] = x
         /\ \A x, y, z : stack' = Replace(stack, Three(x, y, z)) => stack'[Size(stack') - 1] = y
         /\ \A x, y, z, u : stack' = Replace(stack, Four(x, y, z, u)) => stack'[Size(stack') - 1] = z
<1> DEFINE n == Size(stack)
<1>1. n \in Nat \ {0}  BY StackSize
<1>2. ASSUME NEW t, IsSequence(t), stack' = Replace(stack, t)
      PROVE  /\ Size(stack') = n - 1 + Size(t)
             /\ \A k \in 1..Size(t) : stack'[n - 1 + k] = t[k]
             /\ \A k \in 1..n - 1 : stack'[k] = stack[k]
  BY <1>2, Entered
<1> HIDE DEF n
<1>3. ASSUME NEW x, stack' = Replace(stack, One(x))
      PROVE  Size(stack') = Size(stack) /\ stack'[Size(stack') - 1] = stack[Size(stack) - 1]
  <2> DEFINE t == One(x)
  <2>1. IsSequence(t) /\ Size(t) = 1 /\ stack' = Replace(stack, t)  BY <1>3, Literals DEF One
  <2> HIDE DEF t
  <2>2. Size(stack') = n /\ n - 1 \in 1..n - 1  BY <1>1, <1>2, <2>1 DEF n
  <2> QED  BY <1>2, <2>1, <2>2 DEF n
<1>4. ASSUME NEW x, NEW y, stack' = Replace(stack, Two(x, y))
      PROVE  stack'[Size(stack') - 1] = x
  <2> DEFINE t == Two(x, y)
  <2>1. IsSequence(t) /\ Size(t) = 2 /\ stack' = Replace(stack, t) /\ t[1] = x  BY <1>4, Literals DEF Two
  <2> HIDE DEF t
  <2>2. Size(stack') - 1 = n - 1 + 1 /\ 1 \in 1..Size(t)  BY <1>1, <1>2, <2>1
  <2> QED  BY <1>2, <2>1, <2>2
<1>5. ASSUME NEW x, NEW y, NEW z, stack' = Replace(stack, Three(x, y, z))
      PROVE  stack'[Size(stack') - 1] = y
  <2> DEFINE t == Three(x, y, z)
  <2>1. IsSequence(t) /\ Size(t) = 3 /\ stack' = Replace(stack, t) /\ t[2] = y  BY <1>5, Literals DEF Three
  <2> HIDE DEF t
  <2>2. Size(stack') - 1 = n - 1 + 2 /\ 2 \in 1..Size(t)  BY <1>1, <1>2, <2>1
  <2> QED  BY <1>2, <2>1, <2>2
<1>6. ASSUME NEW x, NEW y, NEW z, NEW u, stack' = Replace(stack, Four(x, y, z, u))
      PROVE  stack'[Size(stack') - 1] = z
  <2> DEFINE t == Four(x, y, z, u)
  <2>1. IsSequence(t) /\ Size(t) = 4 /\ stack' = Replace(stack, t) /\ t[3] = z  BY <1>6, Literals DEF Four
  <2> HIDE DEF t
  <2>2. Size(stack') - 1 = n - 1 + 3 /\ 3 \in 1..Size(t)  BY <1>1, <1>2, <2>1
  <2> QED  BY <1>2, <2>1, <2>2
<1> QED  BY <1>3, <1>4, <1>5, <1>6

\* A frame the program calls is the only one.
LEMMA OverCaller ==
  ASSUME StackOK, Shape, Size(stack) > Bottom, stack[Size(stack) - 1].at \in CallerFrames
  PROVE  Size(stack) = Bottom + 1
<1> DEFINE k == Size(stack) - 1
<1>1. Size(stack) \in Nat \ {0} /\ Bottom \in Nat \ {0}  BY StackSize
<1>2. stack[k].at \notin Waiting  BY DEF CallerFrames, Waiting, Passing
<1>3. k < Size(stack) /\ k >= Bottom /\ (k > Bottom => k \in Bottom + 1..Size(stack))  BY <1>1
<1> HIDE DEF k
<1>4. ~(k > Bottom)  BY <1>2, <1>3 DEF Shape
<1> QED  BY <1>1, <1>3, <1>4 DEF k

\* Who counts before NumPy is called, and who called the innermost frame.
Counting == {"invoke", "argsort_descending", "getitem: convert"}

Caller == stack[Size(stack) - 1].at

\* A run is counted before it is made.
Owed == IF status = "calling" /\ Caller \in Counting THEN 1 ELSE 0

\* NumPy runs for lightarray's frames, and is counted ...
CountedRuns ==
  /\ calls = runs + Owed
  /\ status = "calling" => /\ Caller # "_array_ufunc: out"
                           /\ Caller \in CallerFrames => calls = 0

\* ... but for NumPy's own call with out=, which is run once.
OutRun ==
  /\ call.entry = "numpy" /\ call.out # NoOut /\ calls = 0
  /\ \A k \in Bottom + 1..Size(stack) :
       k < Size(stack) \/ status # "calling" => stack[k].at = "_array_ufunc: out"
  /\ IF status = "calling" THEN runs = 0 /\ Caller = "_array_ufunc: out" ELSE runs = 1

\* The invariant behind EveryRunCounted.
Counted ==
  /\ calls \in Nat /\ runs \in Nat
  /\ CountedRuns \/ OutRun

LEMMA CallerOfEntered ==
  ASSUME StackOK, Shape, Size(stack) > Bottom, IsFrame(Top)
  PROVE  /\ \A x : Enter(<<x>>) => Caller' = Caller
         /\ \A x, y : Enter(<<x, y>>) => Caller' = x.at
         /\ \A x, at : Invoke(<<x>>, at) => Caller' = "invoke"
         /\ \A x, y, at : Invoke(<<x, y>>, at) => Caller' = "invoke"
<1> DEFINE i == To("invoke")
           z(at) == Frame(at, Top.fn, args_to_numpy(Top.args), OutToNumpy(Top.out), Top.form)
<1>1. i.at = "invoke"  BY ToFields
<1>2. Size(stack) > 1
  <2>1. Size(stack) \in Nat \ {0} /\ Bottom \in Nat \ {0}  BY StackSize
  <2> QED  BY <2>1
<1>3. /\ \A x, at : Invoke(<<x>>, at) => Enter(<<x, i, z(at)>>)
      /\ \A x, y, at : Invoke(<<x, y>>, at) => Enter(<<x, y, i, z(at)>>)
  BY JoinedLiterals DEF Invoke
<1> HIDE DEF i, z
<1>4. ASSUME NEW x, Enter(<<x>>)  PROVE Caller' = Caller
  <2>1. stack' = Replace(stack, One(x))  BY <1>4, EnterIs
  <2>2. stack'[Size(stack') - 1] = stack[Size(stack) - 1]  BY <1>2, <2>1, Beneath
  <2> QED  BY <2>2 DEF Caller
<1>5. ASSUME NEW x, NEW y, Enter(<<x, y>>)  PROVE Caller' = x.at
  <2>1. stack' = Replace(stack, Two(x, y))  BY <1>5, EnterIs
  <2>2. stack'[Size(stack') - 1] = x  BY <1>2, <2>1, Beneath
  <2> QED  BY <2>2 DEF Caller
<1>6. ASSUME NEW x, NEW at, Invoke(<<x>>, at)  PROVE Caller' = "invoke"
  <2>1. stack' = Replace(stack, Three(x, i, z(at)))  BY <1>3, <1>6, EnterIs
  <2>2. stack'[Size(stack') - 1] = i  BY <1>2, <2>1, Beneath
  <2> QED  BY <1>1, <2>2 DEF Caller
<1>7. ASSUME NEW x, NEW y, NEW at, Invoke(<<x, y>>, at)  PROVE Caller' = "invoke"
  <2>1. stack' = Replace(stack, Four(x, y, i, z(at)))  BY <1>3, <1>7, EnterIs
  <2>2. stack'[Size(stack') - 1] = i  BY <1>2, <2>1, Beneath
  <2> QED  BY <1>1, <2>2 DEF Caller
<1> QED  BY <1>4, <1>5, <1>6, <1>7

\* Nothing is owed while lightarray's own functions run, and the run with out=
\* is NumPy's.
LEMMA OwnCallsOweNothing ==
  ASSUME StackOK, Shape, status = "calling", Counted, Top.at \in Active \ Computing
  PROVE  /\ calls = runs /\ calls = runs + 0 /\ calls + 1 \in Nat
         /\ Owed = 0 /\ CountedRuns /\ Caller \notin Counting
<1>1. StandsOn(Top.at, Caller)  BY TopOfCall DEF OnTop, Caller
<1>2. Caller \in CallerFrames \cup Forwarding
  BY <1>1 DEF StandsOn, Active, Entries, Computing, Forwarding
<1>3. Caller \notin Counting /\ Caller # "_array_ufunc: out"
  BY <1>2 DEF CallerFrames, Forwarding, Counting
<1>4. Owed = 0  BY <1>3 DEF Owed
<1>5. CountedRuns  BY <1>3 DEF Counted, OutRun
<1>6. calls = runs + Owed /\ runs \in Nat  BY <1>5 DEF CountedRuns, Counted
<1>7. calls = runs
  <2>1. calls = runs + 0  BY <1>4, <1>6
  <2> QED  BY <1>6, <2>1
<1>8. calls + 1 \in Nat  BY <1>6, <1>7
<1> QED  BY <1>3, <1>4, <1>5, <1>6, <1>7, <1>8, Zenon

LEMMA CountedWhenEntered ==
  ASSUME StackOK, Shape, Counted, status = "calling", Top.at \in Active \ Computing,
         status' = "calling", runs' = runs, Caller' \notin CallerFrames \cup {"_array_ufunc: out"},
         Caller' \in Counting => calls' = calls + 1,
         Caller' \notin Counting => calls' = calls
  PROVE  Counted'
<1>1. calls = runs /\ calls = runs + 0 /\ calls \in Nat /\ calls + 1 \in Nat /\ runs \in Nat
  BY OwnCallsOweNothing DEF Counted
<1>2. Owed' = IF Caller' \in Counting THEN 1 ELSE 0  BY DEF Owed
<1>3. calls' = runs' + Owed' /\ calls' \in Nat /\ runs' \in Nat
  <2>1. CASE Caller' \in Counting
    <3>1. calls' = calls + 1 /\ Owed' = 1  BY <1>2, <2>1
    <3> QED  BY <1>1, <3>1, Zenon
  <2>2. CASE Caller' \notin Counting
    <3>1. calls' = calls /\ Owed' = 0  BY <1>2, <2>2
    <3> QED  BY <1>1, <3>1, Zenon
  <2> QED  BY <2>1, <2>2
<1>4. CountedRuns'  BY <1>3 DEF CountedRuns
<1> QED  BY <1>3, <1>4 DEF Counted

LEMMA OwnCallsAreCounted ==
  ASSUME StackOK, Shape, Counted, Wrapper \/ Method \/ GetItem \/ UfuncProxy \/ ArrayFunction \/ ArrayUfunc \/ Native
  PROVE  Counted'
<1>1. status = "calling" /\ Top.at \in Active \ Computing
  BY DEF Wrapper, Method, GetItem, UfuncProxy, ArrayFunction, ArrayUfunc, Native, Calling, Active, Entries, Computing
<1>2. IsFrame(Top) /\ Size(stack) > Bottom /\ OnTop(call, stack[Size(stack) - 1], Top)
  BY <1>1, TopOfCall
<1>3. calls = runs /\ calls \in Nat /\ runs \in Nat  BY <1>1, OwnCallsOweNothing DEF Counted
<1>4. ASSUME NEW x, NEW y, Enter(<<x, y>>), x.at \notin CallerFrames \cup {"_array_ufunc: out"},
             x.at \in Counting => calls' = calls + 1, x.at \notin Counting => calls' = calls
      PROVE  Counted'
  <2>1. Caller' = x.at  BY <1>2, <1>4, CallerOfEntered
  <2>2. runs' = runs /\ status' = "calling"  BY <1>1, <1>4 DEF Enter
  <2> QED  BY <1>1, <1>4, <2>1, <2>2, CountedWhenEntered
<1>5. ASSUME NEW x, NEW at, Invoke(<<x>>, at)
      PROVE  Counted'
  <2>1. Caller' = "invoke"  BY <1>2, <1>5, CallerOfEntered
  <2>2. runs' = runs /\ status' = "calling" /\ calls' = calls + 1  BY <1>1, <1>5 DEF Enter, Invoke
  <2> QED  BY <1>1, <2>1, <2>2, CountedWhenEntered DEF Counting, CallerFrames
<1>6. ASSUME NEW x, NEW y, NEW at, Invoke(<<x, y>>, at)
      PROVE  Counted'
  <2>1. Caller' = "invoke"  BY <1>2, <1>6, CallerOfEntered
  <2>2. runs' = runs /\ status' = "calling" /\ calls' = calls + 1  BY <1>1, <1>6 DEF Enter, Invoke
  <2> QED  BY <1>1, <2>1, <2>2, CountedWhenEntered DEF Counting, CallerFrames
<1>7. ASSUME NEW p \in {"argsort_descending", "getitem: convert"}, NEW y, Enter(<<To(p), y>>), calls' = calls + 1
      PROVE  Counted'
  <2> DEFINE x == To(p)
  <2>1. x.at = p  BY <1>2, ToFields
  <2>2. Enter(<<x, y>>)  BY <1>7
  <2> HIDE DEF x
  <2> QED  BY <1>4, <1>7, <2>1, <2>2 DEF Counting, CallerFrames
<1>8. ASSUME NEW p \in Forwarding, NEW y, Enter(<<To(p), y>>), calls' = calls
      PROVE  Counted'
  <2> DEFINE x == To(p)
  <2>1. x.at = p  BY <1>2, ToFields
  <2>2. Enter(<<x, y>>)  BY <1>8
  <2> HIDE DEF x
  <2>3. p \notin Counting \cup CallerFrames \cup {"_array_ufunc: out"}
    BY DEF Counting, CallerFrames, Forwarding
  <2> QED  BY <1>4, <1>8, <2>1, <2>2, <2>3
<1>9. CASE Native
  <2>1. CASE status' = "returning" /\ calls' = calls /\ runs' = runs
    <3>1. Owed' = 0  BY <2>1 DEF Owed
    <3>2. calls' = runs' + Owed' /\ calls' \in Nat /\ runs' \in Nat  BY <1>3, <2>1, <3>1
    <3>3. CountedRuns'  BY <2>1, <3>2 DEF CountedRuns
    <3> QED  BY <3>2, <3>3 DEF Counted
  <2> QED  BY <1>5, <1>6, <1>7, <1>9, <2>1 DEF Native, Return
<1>10. CASE Wrapper \/ Method
  BY <1>5, <1>10 DEF Wrapper, Method
<1>11. CASE GetItem
  BY <1>7, <1>11 DEF GetItem
<1>12. CASE UfuncProxy
  BY <1>8, <1>12 DEF UfuncProxy, Forwarding
<1>13. CASE ArrayFunction
  BY <1>5, <1>8, <1>13 DEF ArrayFunction, Forwarding
<1>14. CASE ArrayUfunc
  <2>1. CASE Top.out = NoOut
    BY <1>5, <1>8, <1>14, <2>1 DEF ArrayUfunc, Forwarding
  <2>2. CASE Top.out # NoOut
    <3> DEFINE x == To("_array_ufunc: out")
               y == Frame("numpy", Top.fn, args_to_numpy(Top.args), OutToNumpy(Top.out), Top.form)
    <3>1. Enter(<<x, y>>) /\ calls' = calls
      BY <1>14, <2>2 DEF ArrayUfunc
    <3>2. x.at = "_array_ufunc: out"  BY <1>2, ToFields
    <3> HIDE DEF x, y
    <3>3. Caller' = "_array_ufunc: out"  BY <1>2, <3>1, <3>2, CallerOfEntered
    <3>4. Top.at = "_array_ufunc"  BY <1>14 DEF ArrayUfunc, Calling
    <3>5. Caller \in CallerFrames
      BY <1>2, <3>4 DEF OnTop, StandsOn, Caller, Computing
    <3>6. calls = 0 /\ runs = 0
      BY <1>1, <1>3, <3>5, OwnCallsOweNothing DEF CountedRuns
    <3>7. call.entry = "numpy" /\ Has(call, Top)
      BY <1>2, <3>4, <3>5 DEF OnTop, Protocol, Caller, Computing
    <3>8. Size(stack) = Bottom + 1 /\ Bottom \in Nat \ {0}
      BY <1>2, <3>5, OverCaller, StackSize DEF Caller
    <3>9. Bottom' = Bottom /\ call' = call /\ runs' = runs /\ status' = "calling"
      BY <1>1, <3>1 DEF Enter, Bottom
    <3>10. Size(stack') = Bottom + 2 /\ stack'[Bottom + 1] = x
      <4> DEFINE t == Two(x, y)
      <4>1. IsSequence(t) /\ Size(t) = 2 /\ stack' = Replace(stack, t) /\ t[1] = x
        BY <3>1, EnterIs, Literals DEF Two
      <4> HIDE DEF t
      <4>2. Size(stack') = Size(stack) - 1 + 2 /\ stack'[Size(stack) - 1 + 1] = x
        BY <4>1, Entered
      <4>3. Size(stack) - 1 + 1 = Bottom + 1 /\ Size(stack) - 1 + 2 = Bottom + 2  BY <3>8
      <4> QED  BY <4>2, <4>3
    <3>11. ASSUME NEW k \in Bottom + 1..Size(stack'), k < Size(stack')
           PROVE  stack'[k].at = "_array_ufunc: out"
      <4>1. k = Bottom + 1  BY <3>8, <3>10, <3>11
      <4> QED  BY <3>2, <3>10, <4>1
    <3>12. OutRun'
      BY <2>2, <3>1, <3>3, <3>6, <3>7, <3>9, <3>11 DEF OutRun, Has
    <3> QED  BY <1>3, <3>1, <3>9, <3>12 DEF Counted
  <2> QED  BY <2>1, <2>2
<1> QED  BY <1>9, <1>10, <1>11, <1>12, <1>13, <1>14

LEMMA NumpyDispatchesIsCounted ==
  ASSUME ListsAndTuples, StackOK, Shape, Counted, NumpyDispatches
  PROVE  Counted'
<1> DEFINE x == To(IF Top.fn \in Ufuncs THEN "_array_ufunc" ELSE "_array_function")
<1>1. status = "calling" /\ status' = status /\ calls' = calls /\ runs' = runs /\ Enter(<<x>>)
  BY DEF NumpyDispatches, Calling, Enter
<1>2. IsFrame(Top) /\ Size(stack) > Bottom  BY <1>1, TopOfCall
<1> HIDE DEF x
<1>3. Caller' = Caller  BY <1>1, <1>2, CallerOfEntered
<1>4. Caller \in CallerFrames  BY DispatchesForCallers DEF Caller
<1>5. Owed' = Owed  BY <1>1, <1>3 DEF Owed
<1>6. CountedRuns  BY <1>1, <1>4 DEF Counted, OutRun, CallerFrames
<1>7. CountedRuns'  BY <1>1, <1>3, <1>5, <1>6, Zenon DEF CountedRuns
<1> QED  BY <1>1, <1>7 DEF Counted

\* NumPy runs for lightarray if a frame below is lightarray's.
LEMMA NumpyRunsIsCounted ==
  ASSUME StackOK, Shape, Counted, NumpyRuns
  PROVE  Counted'
<1>1. /\ status = "calling" /\ status' = "returning" /\ calls' = calls /\ call' = call
      /\ Top.at \in Computing /\ stack' = Rest
  BY DEF NumpyRuns, Calling, Return, Computing
<1>2. Size(stack) > Bottom /\ OnTop(call, stack[Size(stack) - 1], Top)
  BY <1>1, TopOfCall
<1>3. Size(stack) \in Nat \ {0} /\ Bottom \in Nat \ {0}  BY StackSize
<1>4. /\ IsSequence(stack') /\ Size(stack') = Size(stack) - 1
      /\ \A k \in 1..Size(stack) - 1 : stack'[k] = stack[k]
  BY <1>1, Popped
<1>5. DOMAIN Rest = 1..Size(stack) - 1 /\ \A k \in DOMAIN Rest : Rest[k] = stack[k]
  <2>1. DOMAIN stack' = 1..Size(stack')  BY <1>4, SequenceSize
  <2> QED  BY <1>1, <1>4, <2>1
<1>6. Size(stack) - 1 \in DOMAIN Rest /\ Rest[Size(stack) - 1].at = Caller
  <2>1. Size(stack) - 1 \in 1..Size(stack) - 1  BY <1>2, <1>3
  <2> QED  BY <1>5, <2>1 DEF Caller
<1>7. /\ calls \in Nat /\ runs \in Nat /\ runs + 0 = runs
      /\ runs + 1 \in Nat /\ runs + 1 + 0 = runs + 1 /\ 0 + 1 = 1
  <2>1. calls \in Nat /\ runs \in Nat  BY DEF Counted
  <2> QED  BY <2>1
<1>8. Owed' = 0  BY <1>1 DEF Owed
<1>9. CASE Caller \in CallerFrames
  <2>1. Size(stack) = Bottom + 1  BY <1>2, <1>9, OverCaller DEF Caller
  <2>2. DOMAIN Rest = 1..Bottom  BY <1>3, <1>5, <2>1
  <2>3. \A k \in DOMAIN Rest : Rest[k].at \in CallerFrames
    BY <1>5, <2>2 DEF Shape
  <2>4. runs' = runs  BY <2>3 DEF NumpyRuns
  <2>5. CountedRuns /\ Owed = 0
    BY <1>1, <1>9 DEF Counted, OutRun, CallerFrames, Owed, Counting
  <2>6. calls' = runs' + Owed'  BY <1>1, <1>8, <2>4, <2>5, Zenon DEF CountedRuns
  <2>7. CountedRuns'  BY <1>1, <2>6 DEF CountedRuns
  <2> QED  BY <1>1, <1>7, <2>4, <2>7 DEF Counted
<1>10. CASE Caller \notin CallerFrames
  <2>1. runs' = runs + 1  BY <1>6, <1>10 DEF NumpyRuns
  <2>2. CASE CountedRuns
    <3>1. Caller \in Counting
      <4>1. StandsOn(Top.at, Caller) /\ Caller # "_array_ufunc: out"
        BY <1>1, <1>2, <2>2 DEF OnTop, Caller, CountedRuns
      <4> QED  BY <1>1, <1>10, <4>1 DEF StandsOn, Computing, Forwarding, Counting, Entries, Protocol
    <3>2. Owed = 1  BY <1>1, <3>1 DEF Owed
    <3>3. calls = runs + 1  BY <2>2, <3>2, Zenon DEF CountedRuns
    <3>4. calls' = runs'  BY <1>1, <2>1, <3>3, Zenon
    <3>5. runs' \in Nat /\ runs' + 0 = runs'  BY <1>7, <2>1, Zenon
    <3>6. calls' = runs' + Owed'  BY <1>8, <3>4, <3>5, Zenon
    <3>7. CountedRuns'  BY <1>1, <3>6 DEF CountedRuns
    <3> QED  BY <3>4, <3>5, <3>7 DEF Counted
  <2>3. CASE OutRun
    <3>1. runs' = 1
      <4>1. runs = 0  BY <1>1, <2>3 DEF OutRun
      <4> QED  BY <1>7, <2>1, <4>1, Zenon
    <3>2. Bottom' = Bottom  BY <1>1 DEF Bottom
    <3>3. ASSUME NEW k \in Bottom + 1..Size(stack')  PROVE stack'[k].at = "_array_ufunc: out"
      <4>1. k \in Bottom + 1..Size(stack) /\ k < Size(stack) /\ k \in 1..Size(stack) - 1
        BY <1>3, <1>4
      <4> QED  BY <1>4, <2>3, <4>1 DEF OutRun
    <3>4. OutRun'  BY <1>1, <2>3, <3>1, <3>2, <3>3 DEF OutRun
    <3> QED  BY <1>1, <1>7, <3>1, <3>4 DEF Counted
  <2> QED  BY <2>2, <2>3 DEF Counted
<1> QED  BY <1>9, <1>10

LEMMA ReturnToIsCounted ==
  ASSUME StackOK, Shape, Counted, ReturnTo
  PROVE  Counted'
<1>1. /\ status = "returning" /\ status' = status /\ calls' = calls /\ runs' = runs /\ call' = call
      /\ stack' = Rest /\ Top.at \notin CallerFrames
  BY DEF ReturnTo
<1>2. Size(stack) \in Nat \ {0} /\ Bottom \in Nat \ {0}  BY StackSize
<1>3. /\ Size(stack') = Size(stack) - 1 /\ \A k \in 1..Size(stack) - 1 : stack'[k] = stack[k]
  BY <1>1, Popped
<1>4. Owed = 0 /\ Owed' = 0  BY <1>1 DEF Owed
<1>5. CASE CountedRuns
  <2>1. CountedRuns'  BY <1>1, <1>4, <1>5, Zenon DEF CountedRuns
  <2> QED  BY <1>1, <2>1 DEF Counted
<1>6. CASE OutRun
  <2>1. Bottom' = Bottom  BY <1>1 DEF Bottom
  <2>2. ASSUME NEW k \in Bottom + 1..Size(stack')  PROVE stack'[k].at = "_array_ufunc: out"
    <3>1. k \in Bottom + 1..Size(stack) /\ k \in 1..Size(stack) - 1  BY <1>2, <1>3
    <3> QED  BY <1>1, <1>3, <1>6, <3>1 DEF OutRun
  <2>3. OutRun'  BY <1>1, <1>6, <2>1, <2>2 DEF OutRun
  <2> QED  BY <1>1, <2>3 DEF Counted
<1> QED  BY <1>5, <1>6 DEF Counted

LEMMA SortFlipIsCounted ==
  ASSUME StackOK, Shape, Counted, SortFlip
  PROVE  Counted'
<1> DEFINE x == [To("call") EXCEPT !.fn = "flip"]
           y == Frame("invoke", "flip", <<answer>>, NoOut, "bare")
           z == Frame("numpy", "flip", args_to_numpy(<<answer>>), NoOut, "bare")
<1>1. /\ status = "returning" /\ status' = "calling" /\ calls' = calls + 1 /\ runs' = runs
      /\ Top.at = "sort"
  BY DEF SortFlip
<1>2. stack' = Replace(stack, Three(x, y, z))
  BY DEF SortFlip, Rest, Shortened, Replace, Three
<1>3. Size(stack) \in Nat \ {0} /\ Bottom \in Nat \ {0} /\ Top = stack[Size(stack)]  BY StackSize
<1>4. Size(stack) > Bottom  BY <1>1, TopOfReturn DEF CallerFrames
<1>5. y.at = "invoke"  BY FrameFields
<1> HIDE DEF x, y, z
<1>6. Caller' = "invoke"
  <2>1. Size(stack) > 1  BY <1>3, <1>4
  <2>2. stack'[Size(stack') - 1] = y  BY <1>2, <2>1, Beneath
  <2> QED  BY <1>5, <2>2 DEF Caller
<1>7. CountedRuns
  <2>1. Size(stack) \in Bottom + 1..Size(stack)  BY <1>3, <1>4
  <2>2. ~OutRun  BY <1>1, <1>3, <2>1 DEF OutRun
  <2> QED  BY <2>2 DEF Counted
<1>8. Owed = 0 /\ Owed' = 1  BY <1>1, <1>6 DEF Owed, Counting
<1>9. calls = runs + 0  BY <1>7, <1>8, Zenon DEF CountedRuns
<1>10. calls \in Nat /\ runs \in Nat  BY DEF Counted
<1>11. calls = runs /\ calls + 1 \in Nat  BY <1>9, <1>10
<1>12. calls' = runs' + Owed'  BY <1>1, <1>8, <1>11, Zenon
<1>13. CountedRuns'  BY <1>1, <1>6, <1>12 DEF CountedRuns, CallerFrames
<1> QED  BY <1>1, <1>10, <1>11, <1>13 DEF Counted

LEMMA NextKeepsCounted ==
  ASSUME ListsAndTuples, Inv, Counted, [Next]_vars
  PROVE  Counted'
<1>1. StackOK /\ Shape  BY DEF Inv
<1>2. CASE Wrapper \/ Method \/ GetItem \/ UfuncProxy \/ ArrayFunction \/ ArrayUfunc \/ Native
  BY <1>1, <1>2, OwnCallsAreCounted
<1>3. CASE NumpyDispatches  BY <1>1, <1>3, NumpyDispatchesIsCounted
<1>4. CASE NumpyRuns  BY <1>1, <1>4, NumpyRunsIsCounted
<1>5. CASE ReturnTo  BY <1>1, <1>5, ReturnToIsCounted
<1>6. CASE SortFlip  BY <1>1, <1>6, SortFlipIsCounted
<1>7. CASE Finish \/ UNCHANGED vars
  <2>1. /\ stack' = stack /\ call' = call /\ calls' = calls /\ runs' = runs
        /\ status' = "calling" <=> status = "calling"
    BY <1>7 DEF Finish, vars
  <2>2. Bottom' = Bottom /\ Caller' = Caller  BY <2>1 DEF Bottom, Caller
  <2>3. Owed' = Owed  BY <2>1, <2>2 DEF Owed
  <2>4. CASE CountedRuns
    <3>1. CountedRuns'  BY <2>1, <2>2, <2>3, <2>4, Zenon DEF CountedRuns
    <3> QED  BY <2>1, <3>1 DEF Counted
  <2>5. CASE OutRun
    <3>1. OutRun'  BY <2>1, <2>2, <2>5 DEF OutRun
    <3> QED  BY <2>1, <3>1 DEF Counted
  <2> QED  BY <2>4, <2>5 DEF Counted
<1> QED  BY <1>2, <1>3, <1>4, <1>5, <1>6, <1>7 DEF Next

LEMMA InitCounted ==
  ASSUME Init
  PROVE  Counted
<1>1. calls = 0 /\ runs = 0 /\ status = "calling" /\ Inv  BY InitInv DEF Init
<1>2. StackOK /\ Shape  BY <1>1 DEF Inv
<1>3. Caller \in CallerFrames
  <2>1. Size(stack) - 1 = Bottom /\ Bottom \in 1..Bottom
    <3>1. Size(stack) = Bottom + 1 /\ Bottom \in Nat \ {0}  BY <1>2, InitInv, StackSize
    <3> QED  BY <3>1
  <2> QED  BY <1>2, <2>1 DEF Shape, Caller
<1>4. Caller \notin Counting /\ Caller # "_array_ufunc: out"  BY <1>3 DEF CallerFrames, Counting
<1>5. Owed = 0  BY <1>4 DEF Owed
<1>6. CountedRuns
  <2>1. 0 + 0 = 0  OBVIOUS
  <2>2. calls = runs + Owed  BY <1>1, <1>5, <2>1, Zenon
  <2> QED  BY <1>1, <1>4, <2>2, Zenon DEF CountedRuns
<1> QED  BY <1>1, <1>6 DEF Counted

LEMMA CountedRunsInvariant == ListsAndTuples => (Spec => [](Inv /\ Counted))
<1> SUFFICES ASSUME ListsAndTuples  PROVE Spec => [](Inv /\ Counted)
  OBVIOUS
<1>1. Init => Inv /\ Counted  BY InitInv, InitCounted
<1>2. Inv /\ Counted /\ [Next]_vars => (Inv /\ Counted)'  BY NextKeepsInv, NextKeepsCounted
<1> QED  BY <1>1, <1>2, PTL DEF Spec

\* Frames have their five fields, whatever is called from where, and the counters count.
THEOREM TypeCorrect == ListsAndTuples => (Spec => []TypeOK)
<1>1. Inv /\ Counted => TypeOK
  <2> SUFFICES ASSUME Inv, Counted  PROVE TypeOK
    OBVIOUS
  <2>1. \A k \in DOMAIN stack : {"at", "fn", "args", "out", "form"} = DOMAIN stack[k]
    BY StackSize DEF Inv, Shape, IsFrame
  <2> QED  BY <2>1 DEF Inv, Counted, TypeOK
<1> QED  BY <1>1, CountedRunsInvariant, PTL

\* A call is counted before NumPy makes it and NumPy makes every call that is
\* counted, from whichever of the entry points: for any calls and any depth
\* `calls` and `runs` agree when the program has its answer, but for NumPy's
\* own call with out=.
THEOREM RunsAreCounted == ListsAndTuples => (Spec => []EveryRunCounted)
<1>1. Inv /\ Counted => EveryRunCounted
  <2> SUFFICES ASSUME Counted, status = "returned", ~OutRun  PROVE calls = runs
    BY DEF EveryRunCounted, OutRun
  <2>1. Owed = 0 /\ CountedRuns  BY DEF Owed, Counted
  <2>2. calls = runs + 0 /\ runs \in Nat  BY <2>1 DEF CountedRuns, Counted
  <2> QED  BY <2>2
<1> QED  BY <1>1, CountedRunsInvariant, PTL

-----------------------------------------------------------------------------
(* The caller's own arrays. *)

\* What may be called with out=: not the functions NumPy gives no such
\* argument, views, splits and sorts, nor an index.
OutTaken ==
  \A c \in Calls : c.out # NoOut =>
    c.fn \notin Views \cup {"split", "sort", "argsort"} /\ c.entry # "getitem"

\* The program gives an array for every result of the function.
AllGiven == Len(call.out.outs) = Results(call.fn) /\ None \notin Range(call.out.outs)

\* The frames that see to it that the caller's arrays are returned.
Giving == {"invoke", "_array_ufunc: out"}

\* Once something is returned it is the caller's arrays, or a frame below will put them in its place.
Delivered ==
  /\ AllGiven /\ status # "calling" =>
       answer = OutAnswer(call.out) \/ \E k \in Bottom + 1..Size(stack) : stack[k].at \in Giving
  /\ status = "returned" => Size(stack) = Bottom

LEMMA GivenOuts ==
  ASSUME OutTaken, StackOK, AllGiven
  PROVE  /\ call.out # NoOut /\ call.entry # "getitem"
         /\ call.fn \notin Views \cup {"split", "sort", "argsort"}
         /\ call.out.how \in {"keyword", "positional"} /\ IsSequence(call.out.outs)
         /\ \A k \in DOMAIN call.out.outs : call.out.outs[k] # None /\ IsSingle(call.out.outs[k])
<1>1. call \in Calls  BY DEF StackOK
<1>2. call.out # NoOut
  <2> SUFFICES ASSUME call.out = NoOut  PROVE FALSE
    OBVIOUS
  <2>1. Len(call.out.outs) = 0  BY DEF NoOut
  <2> QED  BY <2>1 DEF AllGiven, Results
<1>3. \A k \in DOMAIN call.out.outs : call.out.outs[k] # None
  BY DEF AllGiven, Range
<1>4. /\ call.out \in [how : {"keyword", "positional"}, outs : Seq(Range(call.out.outs))]
      /\ \A k \in DOMAIN call.out.outs : IsSingle(call.out.outs[k])
  BY <1>1, <1>2, CallsAssumption
<1>5. call.out.how \in {"keyword", "positional"} /\ IsSequence(call.out.outs)
  BY <1>4 DEF IsSequence
<1> QED  BY <1>1, <1>2, <1>3, <1>4, <1>5 DEF OutTaken

\* NumPy called by the program itself, with NumPy arrays only, writes to them
\* and returns them.
LEMMA NumpyGivesOuts ==
  ASSUME OutTaken, StackOK, AllGiven, Has(call, Top)
  PROVE  NumpyAnswer(Top) = OutAnswer(call.out)
<1> DEFINE o == call.out.outs
<1>1. /\ IsSequence(o) /\ \A k \in DOMAIN o : o[k] # None
      /\ call.fn \notin Views \cup {"split", "sort", "argsort"}
  BY GivenOuts
<1>2. Top.fn = call.fn /\ Top.out.outs = o  BY DEF Has
<1>3. Size(o) = IF call.fn = "modf" THEN 2 ELSE 1  BY DEF AllGiven, Results, Size
<1>4. OutAnswer(call.out) = IF Size(o) = 1 THEN o[1] ELSE Tuple(o)  BY DEF OutAnswer, Size
<1> HIDE DEF o
<1>5. DOMAIN o = 1..Size(o)  BY <1>1, SequenceSize
<1>6. CASE call.fn = "modf"
  <2>1. Size(o) = 2 /\ 1 \in DOMAIN o /\ 2 \in DOMAIN o  BY <1>3, <1>5, <1>6
  <2> DEFINE t == <<o[1], o[2]>>
  <2>2. NumpyAnswer(Top) = Tuple(t)
    BY <1>1, <1>2, <1>6, <2>1 DEF NumpyAnswer
  <2>3. t \in Seq(Range(o)) /\ Size(t) = 2 /\ t[1] = o[1] /\ t[2] = o[2]
    BY <2>1 DEF Size, Range
  <2> HIDE DEF t
  <2>4. \A k \in 1..Size(t) : t[k] = o[k]
    <3>1. \A k \in 1..Size(t) : k = 1 \/ k = 2  BY <2>3
    <3> QED  BY <2>3, <3>1
  <2>5. o \in Seq(Range(o)) /\ Size(o) = Size(t)  BY <1>1, <2>1, <2>3 DEF IsSequence
  <2>6. t = o  BY <2>3, <2>4, <2>5, SeqEqual DEF Size
  <2> QED  BY <1>4, <2>1, <2>2, <2>6
<1>7. CASE call.fn # "modf"
  <2>1. Size(o) = 1 /\ 1 \in DOMAIN o  BY <1>3, <1>5, <1>7
  <2>2. NumpyAnswer(Top) = o[1]
    BY <1>1, <1>2, <1>7, <2>1 DEF NumpyAnswer, Views
  <2> QED  BY <1>4, <2>1, <2>2
<1> QED  BY <1>6, <1>7

LEMMA PendingBelow ==
  ASSUME StackOK, Shape, stack' = Rest, call' = call, Top.at \notin Giving,
         \E k \in Bottom + 1..Size(stack) : stack[k].at \in Giving
  PROVE  \E k \in Bottom' + 1..Size(stack') : stack'[k].at \in Giving
<1>1. Size(stack) \in Nat \ {0} /\ Bottom \in Nat \ {0} /\ Top = stack[Size(stack)]  BY StackSize
<1>2. /\ Size(stack') = Size(stack) - 1 /\ \A k \in 1..Size(stack) - 1 : stack'[k] = stack[k]
  BY Popped
<1>3. PICK k \in Bottom + 1..Size(stack) : stack[k].at \in Giving  OBVIOUS
<1>4. k # Size(stack)  BY <1>1, <1>3
<1>5. k \in 1..Size(stack) - 1 /\ k \in Bottom + 1..Size(stack')  BY <1>1, <1>2, <1>4
<1>6. Bottom' = Bottom  BY DEF Bottom
<1> QED  BY <1>2, <1>3, <1>5, <1>6

LEMMA ReturnToDelivers ==
  ASSUME OutTaken, StackOK, Shape, AllGiven, Delivered, ReturnTo
  PROVE  answer' = OutAnswer(call.out) \/ \E k \in Bottom' + 1..Size(stack') : stack'[k].at \in Giving
<1> DEFINE lower == stack[Size(stack) - 1]
<1>1. status = "returning" /\ Top.at \notin CallerFrames \cup {"sort"} /\ stack' = Rest /\ call' = call
  BY DEF ReturnTo
<1>2. Top.at \in Waiting /\ OnTop(call, lower, Top)  BY <1>1, TopOfReturn
<1> HIDE DEF lower
<1>3. /\ call.out # NoOut /\ call.entry # "getitem"
      /\ call.fn \notin Views \cup {"split", "sort", "argsort"}
      /\ call.out.how \in {"keyword", "positional"}
      /\ \A k \in DOMAIN call.out.outs : call.out.outs[k] # None
  BY GivenOuts
<1>4. Top.at \notin Computing  BY <1>2 DEF Waiting, Passing, Computing
<1>5. Has(call, Top)  BY <1>2, <1>3, <1>4 DEF OnTop, Flips
<1>6. Top.at \notin {"argsort_descending", "getitem: convert"}
  BY <1>2, <1>3, <1>5 DEF OnTop, Has
<1>7. CASE Top.at = "invoke"
  <2>1. answer' = InvokeAnswer(Top, answer)  BY <1>7 DEF ReturnTo, Passing
  <2>2. Top.out = call.out  BY <1>5 DEF Has
  <2> QED  BY <1>3, <2>1, <2>2 DEF InvokeAnswer
<1>8. CASE Top.at = "_array_ufunc: out"
  <2>1. answer' = OutAnswer(Top.out)  BY <1>8 DEF ReturnTo, Passing
  <2> QED  BY <1>5, <2>1 DEF Has
<1>9. CASE Top.at \in Passing
  <2>1. answer' = answer /\ Top.at \notin Giving  BY <1>9 DEF ReturnTo, Passing, Giving
  <2>2. CASE answer = OutAnswer(call.out)  BY <2>1, <2>2
  <2>3. CASE \E k \in Bottom + 1..Size(stack) : stack[k].at \in Giving
    BY <1>1, <2>1, <2>3, PendingBelow
  <2> QED  BY <1>1, <2>2, <2>3 DEF Delivered
<1> QED  BY <1>1, <1>2, <1>6, <1>7, <1>8, <1>9 DEF Waiting

\* NumPy returns to a frame that gives the caller's arrays, or to the program.
LEMMA NumpyRunsDelivers ==
  ASSUME OutTaken, StackOK, Shape, AllGiven, NumpyRuns
  PROVE  answer' = OutAnswer(call.out) \/ \E k \in Bottom' + 1..Size(stack') : stack'[k].at \in Giving
<1> DEFINE n == Size(stack)
           lower == stack[n - 1]
<1>1. /\ status = "calling" /\ Top.at \in Computing /\ stack' = Rest /\ call' = call
      /\ answer' = NumpyAnswer(Top)
  BY DEF NumpyRuns, Calling, Return, Computing
<1>2. OnTop(call, lower, Top) /\ n > Bottom  BY <1>1, TopOfCall
<1>3. n \in Nat \ {0} /\ Bottom \in Nat \ {0}  BY StackSize
<1>4. Size(stack') = n - 1 /\ \A k \in 1..n - 1 : stack'[k] = stack[k]  BY <1>1, Popped
<1>5. Bottom' = Bottom  BY <1>1 DEF Bottom
<1>6. /\ call.entry # "getitem" /\ call.fn \notin Views \cup {"split", "sort", "argsort"}
  BY GivenOuts
<1> HIDE DEF n
<1>7. n - 1 \in 1..n - 1 /\ n - 1 >= Bottom /\ (n - 1 # Bottom => n - 1 \in Bottom + 1..n - 1)
  BY <1>2, <1>3
<1>8. CASE lower.at \in CallerFrames
  <2>1. Has(call, Top)
    BY <1>1, <1>2, <1>8 DEF OnTop, Computing
  <2> QED  BY <1>1, <2>1, NumpyGivesOuts
<1>9. CASE lower.at \notin CallerFrames
  <2>1. lower.at \in {"invoke", "_array_ufunc: out", "argsort_descending", "getitem: convert"}
    <3>1. StandsOn(Top.at, lower.at)  BY <1>2 DEF OnTop
    <3> QED  BY <1>1, <1>9, <3>1 DEF StandsOn, Computing, Entries, Protocol, Forwarding
  <2>2. n - 1 \in Bottom + 1..n - 1
    <3>1. n - 1 # Bottom
      <4>1. Bottom \in 1..Bottom  BY <1>3
      <4> QED  BY <1>9, <4>1 DEF Shape
    <3> QED  BY <1>7, <3>1
  <2>3. n - 1 \in Bottom + 1..Size(stack)  BY <1>3, <2>2 DEF n
  <2>4. OnTop(call, stack[n - 1 - 1], lower)  BY <2>3 DEF Shape
  <2>5. lower.at # "getitem: convert" /\ lower.at # "argsort_descending"
    BY <1>6, <2>4 DEF OnTop, Has, Flips, Computing
  <2>6. lower.at \in Giving  BY <2>1, <2>5 DEF Giving
  <2>7. stack'[n - 1].at \in Giving  BY <1>4, <1>7, <2>6
  <2> QED  BY <1>4, <1>5, <2>2, <2>7
<1> QED  BY <1>8, <1>9

LEMMA NextKeepsDelivered ==
  ASSUME OutTaken, Inv, Delivered, [Next]_vars
  PROVE  Delivered'
<1>1. StackOK /\ Shape  BY DEF Inv
<1>2. call' = call
  BY DEF Next, Native, Wrapper, Method, GetItem, UfuncProxy, NumpyDispatches, NumpyRuns, ArrayUfunc,
         ArrayFunction, ReturnTo, SortFlip, Finish, Invoke, Enter, Return, vars
<1>3. AllGiven' = AllGiven  BY <1>2 DEF AllGiven
<1>4. CASE status' = "calling"  BY <1>4 DEF Delivered
<1>5. CASE NumpyRuns
  <2>1. status' = "returning"  BY <1>5 DEF NumpyRuns, Return
  <2> QED  BY <1>1, <1>2, <1>3, <1>5, <2>1, NumpyRunsDelivers DEF Delivered
<1>6. CASE ReturnTo
  <2>1. status' = "returning"  BY <1>6 DEF ReturnTo
  <2> QED  BY <1>1, <1>2, <1>3, <1>6, <2>1, ReturnToDelivers DEF Delivered
<1>7. CASE Native /\ status' # "calling"
  <2>1. /\ status' = "returning" /\ Top.at \in Active \ Computing
        /\ (IF Top.fn = "full" /\ called_from_dunder_array THEN Delegate ELSE Natively(Top)) # Delegate
    BY <1>7 DEF Native, Calling, Return, Enter, Invoke, Active, Entries, Computing
  <2>2. Top.out = NoOut  BY <2>1 DEF Natively
  <2>3. status = "calling"  BY <1>7 DEF Native, Calling
  <2>4. Has(call, Top)  BY <1>1, <2>1, <2>3, TopOfCall
  <2>5. ~AllGiven  BY <1>1, <2>2, <2>4, GivenOuts DEF Has
  <2> QED  BY <1>3, <2>1, <2>5 DEF Delivered
<1>8. CASE Finish
  <2>1. Top.at \in CallerFrames /\ stack' = stack /\ answer' = answer /\ status # "calling"
    BY <1>8 DEF Finish
  <2>2. Bottom' = Bottom  BY <1>2 DEF Bottom
  <2>3. Size(stack) = Bottom
    <3>1. Size(stack) \in Nat \ {0} /\ Bottom \in Nat \ {0} /\ Top = stack[Size(stack)]  BY <1>1, StackSize
    <3>2. Size(stack) >= Bottom  BY <1>1 DEF Shape
    <3>3. ~(Size(stack) \in Bottom + 1..Size(stack))
      BY <1>1, <2>1, <3>1 DEF Shape, CallerFrames, Waiting, Passing
    <3> QED  BY <3>1, <3>2, <3>3
  <2> QED  BY <1>2, <1>3, <2>1, <2>2, <2>3 DEF Delivered
<1>9. CASE UNCHANGED vars
  <2>1. Bottom' = Bottom  BY <1>2 DEF Bottom
  <2> QED  BY <1>2, <1>3, <1>9, <2>1 DEF Delivered, vars
<1>10. CASE Wrapper \/ Method \/ GetItem \/ UfuncProxy \/ NumpyDispatches \/ ArrayUfunc \/ ArrayFunction \/ SortFlip
  BY <1>4, <1>10 DEF Wrapper, Method, GetItem, UfuncProxy, NumpyDispatches, ArrayUfunc, ArrayFunction,
                     SortFlip, Calling, Invoke, Enter
<1> QED  BY <1>4, <1>5, <1>6, <1>7, <1>8, <1>9, <1>10 DEF Next

\* Whatever a program gives as out=, lightarrays or NumPy arrays, it gets back
\* the objects themselves: the answer that comes up the stack is theirs, or
\* invoke or _array_ufunc still have to hand them back.
THEOREM OutsAreReturned == ListsAndTuples /\ OutTaken => (Spec => []OutReturned)
<1> SUFFICES ASSUME ListsAndTuples, OutTaken  PROVE Spec => []OutReturned
  OBVIOUS
<1>1. Init => Inv /\ Delivered  BY InitInv DEF Init, Delivered
<1>2. Inv /\ Delivered /\ [Next]_vars => (Inv /\ Delivered)'  BY NextKeepsInv, NextKeepsDelivered
<1>3. Inv /\ Delivered => OutReturned
  <2> SUFFICES ASSUME Inv, Delivered, status = "returned", AllGiven
               PROVE  [k \in DOMAIN Items(answer) |-> Items(answer)[k]] = call.out.outs
    BY DEF OutReturned, AllGiven
  <2> DEFINE o == call.out.outs
  <2>1. StackOK  BY DEF Inv
  <2>2. IsSequence(o) /\ \A k \in DOMAIN o : IsSingle(o[k])  BY <2>1, GivenOuts
  <2>3. answer = OutAnswer(call.out)
    <3>1. Size(stack) = Bottom /\ Size(stack) \in Nat  BY <2>1, StackSize DEF Delivered
    <3>2. \A k \in Bottom + 1..Size(stack) : FALSE  BY <3>1
    <3> QED  BY <3>2 DEF Delivered
  <2>4. answer = IF Size(o) = 1 THEN o[1] ELSE Tuple(o)  BY <2>3 DEF OutAnswer, Size
  <2> HIDE DEF o
  <2>5. Size(o) \in Nat /\ DOMAIN o = 1..Size(o)  BY <2>2, SequenceSize
  <2>6. o = [k \in DOMAIN o |-> o[k]]
    <3>1. o \in Seq(Range(o))  BY <2>2 DEF IsSequence
    <3> QED  BY <3>1
  <2>7. CASE Size(o) = 1
    <3> DEFINE t == <<o[1]>>
    <3>1. IsSingle(o[1])  BY <2>2, <2>5, <2>7
    <3>2. Items(answer) = t  BY <2>4, <2>7, <3>1 DEF Items, IsContainer, IsSingle
    <3>3. t = [k \in DOMAIN t |-> t[k]] /\ t = o
      <4>1. t \in Seq(Range(o)) /\ o \in Seq(Range(o))  BY <2>2, <2>5, <2>7 DEF IsSequence, Range
      <4>2. Size(t) = 1 /\ t[1] = o[1]  BY DEF Size
      <4> HIDE DEF t
      <4>3. \A k \in 1..Size(t) : t[k] = o[k]
        <5>1. \A k \in 1..Size(t) : k = 1  BY <4>2
        <5> QED  BY <4>2, <5>1
      <4>4. t = o  BY <2>7, <4>1, <4>2, <4>3, SeqEqual DEF Size
      <4> QED  BY <2>6, <4>4
    <3> QED  BY <3>2, <3>3 DEF o
  <2>8. CASE Size(o) # 1
    <3>1. Items(answer) = o  BY <2>4, <2>8 DEF Items, IsContainer, Tuple
    <3> QED  BY <2>6, <3>1 DEF o
  <2> QED  BY <2>7, <2>8
<1> QED  BY <1>1, <1>2, <1>3, PTL DEF Spec

-----------------------------------------------------------------------------
(* Operands.                                                               *)

\* A lightarray, a NumPy array or a number.
IsOperand(v) ==
  /\ IsSingle(v)
  /\ \/ v.is = "lightarray" /\ v.dtype \in ArrayTypes
     \/ v.is = "ndarray" /\ v.dtype \in ArrayTypes \cup {"float32", "uint64"}
     \/ v.is = "scalar" /\ v.dtype \in PythonTypes \cup NumpyTypes

\* Functions have their operands: concatenate a list or tuple of arrays, where
\* three, the binary functions two, the others one.  No memory of the program's
\* has the name the model gives to copies.
HasOperands(c) ==
  /\ DOMAIN c.args = IF c.fn = "where" THEN 1..3 ELSE IF c.fn \in Binary THEN 1..2 ELSE {1}
  /\ IF c.fn = "concatenate"
     THEN LET s == c.args[1].items IN
          /\ c.args[1] \in {[is |-> "list", items |-> s], [is |-> "tuple", items |-> s]}
          /\ \A k \in DOMAIN s : IsOperand(s[k]) /\ s[k].is # "scalar"
     ELSE /\ \A k \in DOMAIN c.args : IsOperand(c.args[k])
          /\ c.fn = "sort" => c.args[1].is # "scalar"
          /\ c.args[1].mem # "copy"

OperandsGiven == \A c \in Calls : HasOperands(c)

\* The operands whose dtypes lightarray means to treat as NumPy does: not the
\* numbers it takes for Python's, nor floor of a Python int.
HasNumpysTypes(c) ==
  /\ \A k \in DOMAIN c.args : c.args[k].is = "scalar" =>
       c.args[k].dtype \in {"python float", "python int", "python bool", "np.float64", "np.int64"}
  /\ c.fn = "floor" => c.args[1].dtype # "python int"
  /\ c.fn = "concatenate" => DOMAIN c.args[1].items = 1..2

-----------------------------------------------------------------------------
(* Dtypes.                                                                 *)

\* The dtypes NumPy has for the kinds of operands lightarray knows.
LEMMA Defaults ==
  /\ \A t \in ArrayTypes : Default[t] = t
  /\ Default["float64"] = "float64" /\ Default["int64"] = "int64" /\ Default["bool"] = "bool"
  /\ Default["python float"] = "float64" /\ Default["python int"] = "int64" /\ Default["python bool"] = "bool"
  /\ Default["np.float64"] = "float64" /\ Default["np.int64"] = "int64"
  /\ Default["float32"] = "float32" /\ Default["uint64"] = "uint64"
BY DEF Default, ArrayTypes, NumpyTypes, PythonTypes

\* A conversion keeps the dtype.
LEMMA LeafDtype ==
  ASSUME NEW v, IsSingle(v)
  PROVE  /\ NumpyLeaf(v).dtype = v.dtype /\ NumpyLeaf(v).mem = v.mem
         /\ NumpyLeaf(v).is = IF IsArray(v) THEN "ndarray" ELSE v.is
BY DEF NumpyLeaf, Ndarray, IsSingle

\* What is no list or tuple is converted by itself.
LEMMA SingleToNumpy ==
  ASSUME NEW v, IsSingle(v)
  PROVE  to_numpy(v) = NumpyLeaf(v)
BY DEF to_numpy, IsSingle

\* The dtypes NumPy goes by, of a call and of the call with NumPy arrays.
LEMMA NumpyTypeOfConverted ==
  ASSUME NEW c \in Calls, HasOperands(c), HasNumpysTypes(c)
  PROVE  NumpyType(c.fn, args_to_numpy(c.args)) = NumpyType(c.fn, c.args)
<1> DEFINE x == args_to_numpy(c.args)
<1>1. DOMAIN x = DOMAIN c.args /\ \A k \in DOMAIN c.args : x[k] = to_numpy(c.args[k])
  BY DEF args_to_numpy, Map
<1> HIDE DEF x
<1>2. 1 \in DOMAIN c.args
  <2>1. IsSequence(c.args) /\ c.args # <<>>  BY CallsAssumption
  <2> QED  BY <2>1, SequenceSize
<1>3. CASE c.fn = "concatenate"
  <2> DEFINE s == c.args[1].items
             t == x[1].items
  <2>1. x[1] = [c.args[1] EXCEPT !.items = Map(s, NumpyLeaf)]
    <3>1. c.args[1].is \in {"list", "tuple"}  BY <1>3 DEF HasOperands
    <3> QED  BY <1>1, <1>2, <3>1 DEF to_numpy
  <2>2. DOMAIN s = 1..2 /\ IsSingle(s[1]) /\ IsSingle(s[2])
    <3>1. DOMAIN s = 1..2  BY <1>3 DEF HasNumpysTypes
    <3>2. \A k \in DOMAIN s : IsSingle(s[k])  BY <1>3 DEF HasOperands, IsOperand
    <3> HIDE DEF s
    <3> QED  BY <3>1, <3>2
  <2>3. "items" \in DOMAIN c.args[1]
    BY <1>2, <1>3, CallsAssumption DEF HasOperands, IsValue, IsSingle
  <2>4. t = Map(s, NumpyLeaf)  BY <2>1, <2>3
  <2>5. t[1] = NumpyLeaf(s[1]) /\ t[2] = NumpyLeaf(s[2])
    BY <2>2, <2>4 DEF Map
  <2>6. t[1].dtype = s[1].dtype /\ t[2].dtype = s[2].dtype
    BY <2>2, <2>5, LeafDtype
  <2> HIDE DEF s, t
  <2>7. ResultType(t[1], t[2]) = ResultType(s[1], s[2])
    BY <2>6 DEF ResultType
  <2>8. \A a : NumpyType(c.fn, a) = ResultType(a[1].items[1], a[1].items[2])
    BY <1>3 DEF NumpyType, Compares
  <2> QED  BY <2>7, <2>8 DEF s, t, x
<1>4. CASE c.fn # "concatenate"
  <2>1. \A k \in DOMAIN c.args : x[k].dtype = c.args[k].dtype
    BY <1>1, <1>4, SingleToNumpy, LeafDtype DEF HasOperands, IsOperand
  <2>2. x[1].dtype = c.args[1].dtype  BY <1>2, <2>1
  <2>3. c.fn = "where" => x[2].dtype = c.args[2].dtype /\ x[3].dtype = c.args[3].dtype
    BY <1>4, <2>1 DEF HasOperands
  <2>4. c.fn \in Binary => x[2].dtype = c.args[2].dtype
    BY <1>4, <2>1 DEF HasOperands, Binary, Operators, Compares, Bitwise, BinaryMath
  <2>5. c.fn \in Binary => ResultType(x[1], x[2]) = ResultType(c.args[1], c.args[2])
    BY <2>2, <2>4 DEF ResultType
  <2>6. c.fn = "where" => ResultType(x[2], x[3]) = ResultType(c.args[2], c.args[3])
    BY <2>3 DEF ResultType
  <2>7. CASE c.fn \in Binary
    BY <2>5, <2>7 DEF NumpyType, Binary, Operators, Compares, Bitwise, BinaryMath, x
  <2>8. CASE c.fn = "where"
    BY <2>6, <2>8 DEF NumpyType, Compares, x
  <2>9. CASE c.fn \notin Binary \cup {"where"}
    BY <1>4, <2>2, <2>9 DEF NumpyType, Binary, Operators, Compares, Bitwise, BinaryMath, x
  <2> QED  BY <2>7, <2>8, <2>9
<1> QED  BY <1>3, <1>4

\* What HasNumpysTypes asks of a number.
IsTyped(v) ==
  /\ IsOperand(v)
  /\ v.is = "scalar" => v.dtype \in {"python float", "python int", "python bool", "np.float64", "np.int64"}

TypeOf(v) == Default[v.dtype]

\* Operands by what Classify makes of them.
LEMMA OperandTypes ==
  ASSUME NEW v, IsTyped(v)
  PROVE  /\ IsF64(v) \/ Classify(v) \in {"F64", "Float"} => TypeOf(v) = "float64"
         /\ IsI64(v) \/ Classify(v) = "Int" => TypeOf(v) = "int64"
         /\ IsBool(v) \/ Classify(v) = "Bool" => TypeOf(v) = "bool"
         /\ IsArray(v) => TypeOf(v) \in ArrayTypes
         /\ Classify(v) = "F64" <=> IsF64(v)
         /\ Classify(v) = "Alt" => IsI64(v) \/ IsBool(v)
         /\ Classify(v) \in {"F64", "Alt", "Float", "Int", "Bool", "Other"}
BY Defaults DEF IsTyped, TypeOf, IsOperand, IsF64, IsI64, IsBool, IsArray, Classify, ArrayTypes, PythonTypes, NumpyTypes

\* Of the dtypes lightarray has, NumPy takes the widest, also with Python's numbers.
LEMMA ResultTypes ==
  ASSUME NEW x, NEW y, IsTyped(x), IsTyped(y), TypeOf(x) \in ArrayTypes, TypeOf(y) \in ArrayTypes
  PROVE  ResultType(x, y) =
           IF "float64" \in {TypeOf(x), TypeOf(y)} THEN "float64"
           ELSE IF "int64" \in {TypeOf(x), TypeOf(y)} THEN "int64" ELSE "bool"
<1>1. \A v \in {x, y} : /\ v.dtype # "huge int"
                        /\ IsWeak(v.dtype) => TypeOf(v) = IF v.dtype = "python float" THEN "float64" ELSE "int64"
  BY Defaults DEF IsTyped, IsOperand, TypeOf, IsWeak, ArrayTypes
<1> QED  BY <1>1 DEF TypeOf, ResultType, Promote, Weak, IsWeak, Floats, Integers, ArrayTypes

\* The tables of the binary functions agree with ResultType.
LEMMA BinaryTypes ==
  ASSUME NEW s, IsTyped(s[1]), IsTyped(s[2]), NEW form, NEW f \in Binary
  PROVE  NativeType(f, s, form) \in {Delegate, NumpyType(f, s)}
<1> DEFINE x == s[1]
           y == s[2]
<1>1. x = s[1] /\ y = s[2] /\ IsTyped(x) /\ IsTyped(y)  OBVIOUS
<1> HIDE DEF x, y
<1>2. /\ TypeOf(x) \in ArrayTypes /\ TypeOf(y) \in ArrayTypes =>
           ResultType(x, y) = IF "float64" \in {TypeOf(x), TypeOf(y)} THEN "float64"
                              ELSE IF "int64" \in {TypeOf(x), TypeOf(y)} THEN "int64" ELSE "bool"
  BY <1>1, ResultTypes
<1>3. /\ f \in Binary /\ f \notin Unary /\ f \notin Reductions
      /\ f \notin {"isnan", "where", "cumsum", "any", "sort", "argsort", "concatenate", "full"}
  BY DEF Binary, Operators, Compares, Bitwise, BinaryMath, Unary, Reductions
<1>4. CASE form = "keywords"
  <2>1. NativeType(f, s, form) = Delegate  BY <1>3, <1>4 DEF NativeType
  <2> QED  BY <2>1
<1>5. CASE f \in Operators /\ form # "keywords"
  <2>1. f \in {"add", "divide", "power"} /\ f \notin Compares \cup Bitwise \cup BinaryMath
    BY <1>5 DEF Operators, Compares, Bitwise, BinaryMath
  <2>2. NativeType(f, s, form) = OperatorType(f, x, y, form)
    BY <1>1, <1>3, <1>5, <2>1 DEF NativeType
  <2>3. NumpyType(f, s) = LET r == ResultType(x, y) IN
          IF f = "divide" THEN InFloat(r) ELSE IF f = "power" /\ r = "bool" THEN "int8" ELSE r
    BY <1>1, <2>1 DEF NumpyType, Compares
  <2> QED
    BY <1>1, <1>2, <2>1, <2>2, <2>3, OperandTypes DEF OperatorType, InFloat, Integers, ArrayTypes
<1>6. CASE f \in Compares /\ form # "keywords"
  <2>1. NativeType(f, s, form) = CompareType(f, x, y, form)
    <3>1. f \notin Operators \cup Bitwise \cup BinaryMath
      BY <1>6 DEF Compares, Operators, Bitwise, BinaryMath
    <3> QED  BY <1>1, <1>3, <1>6, <3>1 DEF NativeType
  <2>2. NumpyType(f, s) = "bool"  BY <1>6 DEF NumpyType, Compares
  <2> QED  BY <2>1, <2>2 DEF CompareType
<1>7. CASE f \in Bitwise /\ form # "keywords"
  <2>1. f = "bitwise_and" /\ f \notin Operators \cup Compares \cup BinaryMath
    BY <1>7 DEF Bitwise, Operators, Compares, BinaryMath
  <2>2. NativeType(f, s, form) = BitwiseType(x, y, form)
    BY <1>1, <1>3, <1>7, <2>1 DEF NativeType
  <2>3. NumpyType(f, s) = ResultType(x, y)  BY <1>1, <2>1 DEF NumpyType
  <2> QED  BY <1>1, <1>2, <2>2, <2>3, OperandTypes DEF BitwiseType, ArrayTypes
<1>8. CASE f \in BinaryMath /\ form # "keywords"
  <2>1. f = "maximum" /\ f \notin Operators \cup Compares \cup Bitwise
    BY <1>8 DEF BinaryMath, Bitwise, Operators, Compares
  <2>2. NativeType(f, s, form) = BinaryMathType(x, y)
    BY <1>1, <1>3, <1>8, <2>1 DEF NativeType
  <2>3. NumpyType(f, s) = ResultType(x, y)  BY <1>1, <2>1 DEF NumpyType
  <2>4. \A v \in {x, y} : v.dtype = "python float" => TypeOf(v) = "float64"
    BY Defaults DEF TypeOf
  <2> QED  BY <1>1, <1>2, <2>2, <2>3, <2>4, OperandTypes DEF BinaryMathType, ArrayTypes
<1> QED  BY <1>4, <1>5, <1>6, <1>7, <1>8 DEF Binary

\* A type lightarray decides for is NumPy's.
LEMMA NativeTypes ==
  ASSUME NEW c \in Calls, HasOperands(c), HasNumpysTypes(c)
  PROVE  NativeType(c.fn, c.args, c.form) \in {Delegate, NumpyType(c.fn, c.args)}
<1> DEFINE f == c.fn
           s == c.args
           x == c.args[1]
<1>1. f # "concatenate" => \A k \in DOMAIN s : IsTyped(s[k])
  BY DEF HasOperands, HasNumpysTypes, IsTyped
<1>2. f # "concatenate" => IsTyped(x)
  BY <1>1 DEF HasOperands
<1>3. f = "where" => IsTyped(s[2]) /\ IsTyped(s[3])
  BY <1>1 DEF HasOperands
<1>4. f \in Binary => IsTyped(s[1]) /\ IsTyped(s[2])
  <2>1. f \in Binary => f \notin {"where", "concatenate"}
    BY DEF Binary, Operators, Compares, Bitwise, BinaryMath
  <2> QED  BY <1>1, <2>1 DEF HasOperands
<1>5. f = "floor" => x.dtype # "python int"  BY DEF HasNumpysTypes
<1>6. /\ NumpyType("sin", s) = LET t == Default[x.dtype] IN IF t = "bool" THEN "float16" ELSE InFloat(t)
      /\ NumpyType("isnan", s) = "bool" /\ NumpyType("any", s) = "bool" /\ NumpyType("argsort", s) = "int64"
      /\ \A g \in {"sum", "cumsum"} : NumpyType(g, s) = Added(Default[x.dtype])
      /\ NumpyType("mean", s) = InFloat(Default[x.dtype])
      /\ NumpyType("where", s) = ResultType(s[2], s[3])
      /\ \A g \in {"floor", "max", "sort", "full"} : NumpyType(g, s) = Default[x.dtype]
  BY DEF NumpyType, Compares
<1>7. CASE f \in Binary
  BY <1>4, <1>7, BinaryTypes
<1>8. CASE f = "concatenate"
  <2> DEFINE items == x.items
  <2>1. NativeType(f, s, c.form) = JoinType(x, c.form) /\ NumpyType(f, s) = ResultType(items[1], items[2])
    BY <1>8 DEF NativeType, NumpyType, Unary, Binary, Operators, Compares, Bitwise, BinaryMath, Reductions
  <2>2. DOMAIN items = 1..2  BY <1>8 DEF HasNumpysTypes
  <2>3. \A k \in DOMAIN items : IsOperand(items[k]) /\ items[k].is # "scalar"
    BY <1>8 DEF HasOperands
  <2>4. IsTyped(items[1]) /\ IsTyped(items[2])
    <3>1. 1 \in DOMAIN items /\ 2 \in DOMAIN items  BY <2>2
    <3> QED  BY <2>3, <3>1 DEF IsTyped
  <2>5. CASE JoinType(x, c.form) # Delegate
    <3>1. PICK t \in ArrayTypes : \A k \in DOMAIN items : IsArray(items[k]) /\ items[k].dtype = t
      BY <2>5 DEF JoinType
    <3>2. JoinType(x, c.form) = items[1].dtype  BY <2>5 DEF JoinType
    <3> HIDE DEF items
    <3>3. items[1].dtype = t /\ items[2].dtype = t  BY <2>2, <3>1
    <3>4. TypeOf(items[1]) = t /\ TypeOf(items[2]) = t  BY <3>3, Defaults DEF TypeOf
    <3>5. ResultType(items[1], items[2]) = t  BY <2>4, <3>4, ResultTypes DEF ArrayTypes
    <3> QED  BY <2>1, <3>2, <3>3, <3>5
  <2> QED  BY <2>1, <2>5
<1>9. CASE f = "where"
  <2>1. NativeType(f, s, c.form) = WhereType(s[1], s[2], s[3], c.form)
    BY <1>9 DEF NativeType, Unary, Binary, Operators, Compares, Bitwise, BinaryMath, Reductions
  <2> HIDE DEF s
  <2>2. CASE WhereType(s[1], s[2], s[3], c.form) # Delegate
    <3>1. /\ WhereType(s[1], s[2], s[3], c.form) = "float64"
          /\ \A v \in {s[2], s[3]} : Classify(v) \in {"F64", "Float", "Int"} \/ IsF64(v)
          /\ \E v \in {s[2], s[3]} : Classify(v) \in {"F64", "Float"}
      BY <2>2 DEF WhereType
    <3>2. /\ \A v \in {s[2], s[3]} : TypeOf(v) \in ArrayTypes
          /\ "float64" \in {TypeOf(s[2]), TypeOf(s[3])}
      BY <1>3, <1>9, <3>1, OperandTypes DEF ArrayTypes
    <3>3. ResultType(s[2], s[3]) = "float64"  BY <1>3, <1>9, <3>2, ResultTypes
    <3> QED  BY <1>6, <1>9, <2>1, <3>1, <3>3 DEF s
  <2> QED  BY <2>1, <2>2 DEF s
<1>10. CASE f \in Unary
  <2>1. /\ f \in {"sin", "floor"} /\ IsTyped(x)
    BY <1>2, <1>10 DEF Unary
  <2>2. NativeType(f, s, c.form) = IF c.form = "keywords" THEN Delegate ELSE UnaryType(f, x)
    BY <1>10, <2>1 DEF NativeType, Binary, Operators, Compares, Bitwise, BinaryMath, Reductions
  <2>3. CASE UnaryType(f, x) # Delegate
    <3>1. UnaryType(f, x) = "float64"  BY <2>3 DEF UnaryType
    <3>2. /\ Default[x.dtype] \in {"float64", "int64"}
          /\ f = "floor" => Default[x.dtype] = "float64"
      BY <1>5, <2>1, <2>3, Defaults DEF UnaryType, KeepsInt, IsF64, IsI64, IsTyped
    <3> QED  BY <1>6, <2>1, <2>2, <3>1, <3>2 DEF InFloat, Integers
  <2> QED  BY <2>2, <2>3
<1>11. CASE f \in Reductions
  <2>1. f \in {"sum", "mean", "max"} /\ IsTyped(x)  BY <1>2, <1>11 DEF Reductions
  <2>2. NativeType(f, s, c.form) = ReduceType(f, x, c.form)
    BY <1>11, <2>1 DEF NativeType, Unary, Binary, Operators, Compares, Bitwise, BinaryMath
  <2>3. CASE ReduceType(f, x, c.form) # Delegate
    <3>1. IsArray(x) /\ Default[x.dtype] = x.dtype /\ x.dtype \in ArrayTypes
      BY <2>1, <2>3, Defaults DEF ReduceType, IsF64, IsI64, IsTyped, IsOperand, IsArray
    <3>2. ReduceType(f, x, c.form) \in {NumpyType(f, s)}
      BY <1>6, <2>1, <2>3, <3>1 DEF ReduceType, IsF64, IsI64, IsArray, InFloat, Integers, Added, ArrayTypes
    <3> QED  BY <2>2, <3>2
  <2> QED  BY <2>2, <2>3
<1>12. CASE f \in {"isnan", "cumsum", "any", "sort", "argsort", "full"}
  <2>1. IsTyped(x)  BY <1>2, <1>12
  <2>2. NativeType(f, s, c.form) =
          IF f = "isnan" THEN IF c.form = "keywords" THEN Delegate ELSE PredicateType(x)
          ELSE IF f = "full" THEN FullType(x, c.form)
          ELSE IF f = "sort" THEN SortType(x, c.form)
          ELSE IF f = "argsort" THEN ArgsortType(x, c.form) ELSE BareType(f, x, c.form)
    BY <1>12 DEF NativeType, Unary, Binary, Operators, Compares, Bitwise, BinaryMath, Reductions
  <2>3. PredicateType(x) \in {"bool", Delegate} /\ ArgsortType(x, c.form) \in {"int64", Delegate}
    BY DEF PredicateType, ArgsortType
  <2>4. FullType(x, c.form) \in {Delegate, Default[x.dtype]}
    BY Defaults DEF FullType
  <2>5. SortType(x, c.form) \in {Delegate, Default[x.dtype]}
    BY Defaults DEF SortType, IsF64
  <2>6. BareType("any", x, c.form) \in {Delegate, "bool"}
    BY DEF BareType
  <2>7. BareType("cumsum", x, c.form) \in {Delegate, Added(Default[x.dtype])}
    BY Defaults DEF BareType, IsF64, Added
  <2> HIDE DEF s, x, f
  <2> QED  BY <1>6, <1>12, <2>2, <2>3, <2>4, <2>5, <2>6, <2>7 DEF f, s, x
<1>13. CASE f \notin NativeFunctions
  <2>1. NativeType(f, s, c.form) = Delegate
    BY <1>13 DEF NativeType, NativeFunctions, Binary
  <2> QED  BY <2>1
<1> QED  BY <1>7, <1>8, <1>9, <1>10, <1>11, <1>12, <1>13 DEF NativeFunctions

-----------------------------------------------------------------------------
(* What NumPy answers, and what fits it.                                   *)

\* NumPy's answer to the call c made with NumPy arrays.
Expects(c) == NumpyAnswer(Frame("numpy", c.fn, args_to_numpy(c.args), OutToNumpy(c.out), c.form))

\* One result a, next to NumPy's e: see DtypesMatchNumPy and MemoryMatchesNumPy.
Matches(c, a, e) ==
  /\ e.is = "ndarray" => a.is \in {"ndarray", "lightarray"}
  /\ e.mem = "result" => a.mem \in {"result", "copy"}
  /\ e.is = "ndarray" /\ e.mem # "result" =>
       (a.mem = e.mem <=> a.is = "ndarray" \/ (e.writable /\ e.source = e.dtype))
  /\ HasNumpysTypes(c) => a.dtype = e.dtype

NumPys(v) == \A k \in DOMAIN Items(v) : ~IsArray(Items(v)[k])

Fits(c, v) ==
  /\ IsContainer(v) <=> IsContainer(Expects(c))
  /\ Size(Items(v)) = Size(Items(Expects(c)))
  /\ \A k \in DOMAIN Items(v) : Matches(c, Items(v)[k], Items(Expects(c))[k])

\* NumPy goes by the function, the arguments, out= and the form only.
LEMMA SameNumpyAnswer ==
  ASSUME NEW x, NEW y, x.fn = y.fn, x.args = y.args, x.out = y.out, x.form = y.form
  PROVE  NumpyAnswer(x) = NumpyAnswer(y)
BY DEF NumpyAnswer

\* No out= stays none.
LEMMA NoOutToNumpy == OutToNumpy(NoOut) = NoOut
<1>1. Map(<<>>, to_numpy) = <<>>  BY DEF Map
<1> QED  BY <1>1 DEF OutToNumpy, NoOut

\* Without out= there is only one way to hand the call to NumPy.
LEMMA ConvertedIsExpected ==
  ASSUME NEW c \in Calls, c.out = NoOut, NEW fr, HasConverted(c, fr)
  PROVE  NumpyAnswer(fr) = Expects(c)
<1> DEFINE y == Frame("numpy", c.fn, args_to_numpy(c.args), OutToNumpy(c.out), c.form)
<1>1. fr.out = NoOut /\ OutToNumpy(c.out) = NoOut  BY NoOutToNumpy DEF HasConverted
<1>2. y.fn = c.fn /\ y.args = args_to_numpy(c.args) /\ y.out = NoOut /\ y.form = c.form
  BY <1>1 DEF Frame
<1> HIDE DEF y
<1>3. NumpyAnswer(fr) = NumpyAnswer(y)  BY <1>1, <1>2, SameNumpyAnswer DEF HasConverted
<1> QED  BY <1>3 DEF Expects, y

\* The functions that do not make views return new numbers and arrays.
Fresh(c) ==
  LET t == NumpyType(c.fn, args_to_numpy(c.args)) IN
  IF c.fn \in Reductions \cup {"any"}
  THEN IF c.form = "bare" THEN Number(t) ELSE Ndarray(t, "result", "none", TRUE)
  ELSE IF c.fn # "full" /\ \A k \in DOMAIN c.args : c.args[k].is = "scalar"
       THEN Number(t) ELSE Ndarray(t, "result", "none", TRUE)

\* NumPy's answer to them has that one item.
LEMMA FreshAnswer ==
  ASSUME ListsAndTuples, NEW c \in Calls, c.out = NoOut, c.fn \notin Views \cup {"split"}
  PROVE  Expects(c) = IF c.fn = "modf" THEN Tuple(<<Fresh(c), Fresh(c)>>) ELSE Fresh(c)
<1> DEFINE s == args_to_numpy(c.args)
           y == Frame("numpy", c.fn, s, OutToNumpy(c.out), c.form)
           t == NumpyType(c.fn, s)
           array == Ndarray(t, "result", "none", TRUE)
           fresh == IF c.fn \in Reductions \cup {"any"}
                    THEN IF c.form = "bare" THEN Number(t) ELSE array
                    ELSE IF c.fn # "full" /\ \A k \in DOMAIN s : s[k].is = "scalar"
                         THEN Number(t) ELSE array
<1>1. y.fn = c.fn /\ y.args = s /\ y.out = NoOut /\ y.form = c.form /\ DOMAIN y.out.outs = {}
  BY NoOutToNumpy DEF Frame, NoOut
<1>2. (\A k \in DOMAIN s : s[k].is = "scalar") <=> (\A k \in DOMAIN c.args : c.args[k].is = "scalar")
  <2>1. DOMAIN s = DOMAIN c.args /\ \A k \in DOMAIN c.args : s[k] = to_numpy(c.args[k])
    BY DEF args_to_numpy, Map
  <2>2. ASSUME NEW k \in DOMAIN c.args
        PROVE  to_numpy(c.args[k]).is = "scalar" <=> c.args[k].is = "scalar"
    <3>1. IsPlain(c.args[k])  BY CallValues
    <3>2. CASE IsSingle(c.args[k])
      BY <3>2, SingleToNumpy, LeafDtype DEF IsArray
    <3>3. CASE c.args[k].is \in {"list", "tuple"}
      BY <3>1, <3>3 DEF to_numpy, IsPlain, IsValue, IsSingle
    <3> QED  BY <3>1, <3>2, <3>3 DEF IsPlain, IsValue, IsContainer
  <2> HIDE DEF s
  <2> QED  BY <2>1, <2>2
<1>3. fresh = Fresh(c)  BY <1>2 DEF Fresh
<1>4. NumpyAnswer(y) = IF c.fn = "modf" THEN Tuple(<<fresh, fresh>>) ELSE fresh
  <2>1. c.fn \notin {"broadcast_to", "view", "swapaxes", "getitem", "flip", "split"}  BY DEF Views
  <2> HIDE DEF y, s
  <2> QED  BY <1>1, <2>1 DEF NumpyAnswer
<1>5. Expects(c) = NumpyAnswer(y)  BY DEF Expects
<1> HIDE DEF fresh, y
<1> QED  BY <1>3, <1>4, <1>5

\* Results are known by name, and none has the name of a copy.
LEMMA ExpectedItems ==
  ASSUME ListsAndTuples, NEW c \in Calls, HasOperands(c), c.out = NoOut
  PROVE  /\ IsPlain(Expects(c))
         /\ \A k \in DOMAIN Items(Expects(c)) :
              IsSingle(Items(Expects(c))[k]) /\ Items(Expects(c))[k].mem # "copy"
         /\ NumPys(Expects(c))
<1> DEFINE s == args_to_numpy(c.args)
           y == Frame("numpy", c.fn, s, OutToNumpy(c.out), c.form)
           x == s[1]
           new == [x EXCEPT !.id = "new"]
<1>1. Expects(c) = NumpyAnswer(y)  BY DEF Expects
<1>2. HasConverted(c, y)  BY DEF HasConverted, Frame
<1>3. y.fn = c.fn /\ y.args[1] = x  BY DEF Frame
<1> HIDE DEF y
<1>4. IsPlain(Expects(c))  BY <1>1, <1>2, ConvertedIsPrepared, NumpyAnswerIsPlain
<1>5. \A v : IsSingle(v) => Items(v) = <<v>>  BY DEF IsSingle, Items, IsContainer
<1>6. ASSUME c.fn \in Views \cup {"split"}
      PROVE  \A w \in {new, [new EXCEPT !.writable = FALSE], [new EXCEPT !.dtype = "int64"]} :
               IsSingle(w) /\ w.mem # "copy" /\ ~IsArray(w)
  <2>1. c.fn # "concatenate"  BY <1>6 DEF Views
  <2>2. 1 \in DOMAIN c.args  BY CallValues
  <2>3. IsSingle(c.args[1]) /\ c.args[1].mem # "copy"
    BY <2>1, <2>2 DEF HasOperands, IsOperand
  <2>4. x = to_numpy(c.args[1])  BY <2>2 DEF args_to_numpy, Map
  <2>5. IsSingle(x) /\ x.mem # "copy" /\ ~IsArray(x)
    BY <2>3, <2>4, SingleToNumpy, LeafDtype, LeafIsConverted
  <2> HIDE DEF x
  <2> QED  BY <2>5, SingleIsPlain, RenamedIsPlain DEF IsSingle, IsArray
<1>7. CASE c.fn \in Views
  <2>1. \/ NumpyAnswer(y) = [new EXCEPT !.writable = FALSE] \/ NumpyAnswer(y) = [new EXCEPT !.dtype = "int64"]
        \/ NumpyAnswer(y) = new
    BY <1>3, <1>7 DEF NumpyAnswer, Views
  <2> HIDE DEF new
  <2>2. IsSingle(Expects(c)) /\ Expects(c).mem # "copy" /\ ~IsArray(Expects(c))  BY <1>1, <1>6, <1>7, <2>1
  <2> QED  BY <1>4, <1>5, <2>2 DEF NumPys
<1>8. CASE c.fn = "split"
  <2>1. NumpyAnswer(y) = [is |-> "list", items |-> <<new, new>>]
    BY <1>3, <1>8 DEF NumpyAnswer
  <2> HIDE DEF new
  <2>2. Items(Expects(c)) = <<new, new>>  BY <1>1, <2>1 DEF Items, IsContainer
  <2> QED  BY <1>4, <1>6, <1>8, <2>2 DEF NumPys
<1>9. CASE c.fn \notin Views \cup {"split"}
  <2>1. IsSingle(Fresh(c)) /\ Fresh(c).mem # "copy" /\ ~IsArray(Fresh(c))
    BY DEF Fresh, Number, Ndarray, IsSingle, IsArray
  <2>2. CASE c.fn = "modf"
    <3>1. Expects(c) = Tuple(<<Fresh(c), Fresh(c)>>)  BY <1>9, <2>2, FreshAnswer
    <3>2. Items(Expects(c)) = <<Fresh(c), Fresh(c)>>  BY <3>1 DEF Tuple, Items, IsContainer
    <3> QED  BY <1>4, <2>1, <3>2 DEF NumPys
  <2>3. CASE c.fn # "modf"
    <3>1. Expects(c) = Fresh(c)  BY <1>9, <2>3, FreshAnswer
    <3> QED  BY <1>4, <1>5, <2>1, <3>1 DEF NumPys
  <2> QED  BY <2>2, <2>3
<1> QED  BY <1>7, <1>8, <1>9

\* What NumPy returns matches itself.
LEMMA SameMatches ==
  \A c, e : Matches(c, e, e)
BY DEF Matches

\* One result of NumPy's, converted, matches it.
LEMMA LeafMatches ==
  ASSUME NEW c, NEW e, IsSingle(e), e.mem # "copy", NEW inside
  PROVE  Matches(c, FromNumpyLeaf(e, inside), e)
<1>1. CASE FromNumpyLeaf(e, inside) = e  BY <1>1, SameMatches
<1>2. CASE FromNumpyLeaf(e, inside) # e
  <2>1. FromNumpyLeaf(e, inside) = Lightarray(e.dtype, IF SharesMemory(e) THEN e.mem ELSE "copy")
    BY <1>2 DEF FromNumpyLeaf
  <2> QED  BY <2>1 DEF Matches, Lightarray, SharesMemory
<1> QED  BY <1>1, <1>2

\* A conversion keeps the number of results.
LEMMA SameSize ==
  ASSUME NEW s, NEW t, IsSequence(s), IsSequence(t), DOMAIN s = DOMAIN t
  PROVE  Size(s) = Size(t)
<1>1. Size(s) \in Nat /\ Size(t) \in Nat /\ 1..Size(s) = 1..Size(t)  BY SequenceSize
<1>2. Size(s) # 0 => Size(s) \in 1..Size(s)  BY <1>1
<1>3. Size(t) # 0 => Size(t) \in 1..Size(t)  BY <1>1
<1> QED  BY <1>1, <1>2, <1>3

\* NumPy's answer fits itself, and what from_numpy makes of it fits.
LEMMA ExpectedFits ==
  ASSUME NEW c
  PROVE  Fits(c, Expects(c))
BY SameMatches DEF Fits

\* from_numpy gives the program the view on the memory it is on.
LEMMA ConvertedFits ==
  ASSUME ListsAndTuples, NEW c \in Calls, HasOperands(c), c.out = NoOut
  PROVE  Fits(c, from_numpy(Expects(c)))
<1> DEFINE e == Expects(c)
           v == from_numpy(e)
<1>1. /\ IsPlain(e) /\ IsPlain(v)
      /\ \A k \in DOMAIN Items(e) : IsSingle(Items(e)[k]) /\ Items(e)[k].mem # "copy"
  BY ExpectedItems, FromNumpyIsPlain
<1>2. CASE e.is \in {"list", "tuple"}
  <2> DEFINE inside == call.patched /\ InsideDunderArray(1)
             items == [k \in DOMAIN e.items |-> FromNumpyLeaf(e.items[k], inside)]
  <2>1. v = [e EXCEPT !.items = items]  BY <1>2 DEF from_numpy, Map
  <2> HIDE DEF inside, e, v
  <2>2. DOMAIN e = {"is", "items"} /\ IsSequence(e.items) /\ IsContainer(e)
    BY <1>1, <1>2 DEF IsPlain, IsValue, IsSingle, IsContainer
  <2>3. v.is = e.is /\ v.items = items /\ IsContainer(v)
    BY <1>2, <2>1, <2>2 DEF IsContainer
  <2>4. Items(e) = e.items /\ Items(v) = items  BY <2>2, <2>3 DEF Items
  <2>5. \A k \in DOMAIN items : Matches(c, items[k], e.items[k])
    BY <1>1, <2>4, LeafMatches
  <2>6. DOMAIN items = DOMAIN e.items /\ items = [k \in DOMAIN e.items |-> items[k]]  OBVIOUS
  <2> HIDE DEF items
  <2>7. Size(items) = Size(e.items)
    <3>1. IsSequence(items)  BY <2>2, <2>6, SequenceMap
    <3> QED  BY <2>2, <2>6, <3>1, SameSize
  <2> QED  BY <2>2, <2>3, <2>4, <2>5, <2>7 DEF Fits, e, v
<1>3. CASE e.is \notin {"list", "tuple"}
  <2> DEFINE inside == call.patched /\ InsideDunderArray(0)
  <2>1. v = FromNumpyLeaf(e, inside)  BY <1>3 DEF from_numpy
  <2> HIDE DEF inside, e, v
  <2>2. IsSingle(e)  BY <1>1, <1>3 DEF IsPlain, IsValue, IsContainer
  <2>3. IsSingle(v)  BY <2>1, <2>2, LeafFromNumpyIsSingle
  <2>4. \A w : IsSingle(w) => ~IsContainer(w) /\ Items(w) = <<w>>  BY DEF IsSingle, Items, IsContainer
  <2>5. Items(e) = <<e>> /\ Items(v) = <<v>> /\ ~IsContainer(e) /\ ~IsContainer(v)  BY <2>2, <2>3, <2>4
  <2>6. Matches(c, v, e)  BY <1>1, <2>1, <2>2, <2>5, LeafMatches
  <2>7. Size(<<e>>) = 1 /\ Size(<<v>>) = 1  BY DEF Size
  <2> QED  BY <2>5, <2>6, <2>7 DEF Fits, e, v
<1> QED  BY <1>2, <1>3

-----------------------------------------------------------------------------
(* Who computes the answer: lightarray, NumPy directly, NumPy for lightarray. *)

\* Natively a number is the answer only where NumPy's is one.
LEMMA NativeNumbers ==
  ASSUME NEW c \in Calls, HasOperands(c), NEW t, t = NativeType(c.fn, c.args, c.form), t # Delegate,
         NEW fr, Has(c, fr)
  PROVE  /\ c.fn \in NativeFunctions
         /\ NativeAnswer(fr, t) = Number(t) \/ NativeAnswer(fr, t) = Lightarray(t, "result")
         /\ NativeAnswer(fr, t) = Number(t) => Fresh(c).is = "scalar"
<1> DEFINE f == c.fn
           s == c.args
<1>1. f \in NativeFunctions
  <2> SUFFICES ASSUME f \notin NativeFunctions  PROVE FALSE
    OBVIOUS
  <2> QED  BY DEF NativeType, NativeFunctions, Binary
<1>2. NativeAnswer(fr, t) = Number(t) \/ NativeAnswer(fr, t) = Lightarray(t, "result")
  BY DEF NativeAnswer
<1>3. Number(t) # Lightarray(t, "result")  BY DEF Number, Lightarray
<1>4. ASSUME f \in Reductions \cup {"any"}, NativeAnswer(fr, t) = Number(t)  PROVE Fresh(c).is = "scalar"
  <2>1. f \notin Unary \cup Binary \cup {"isnan"}
    BY <1>4 DEF Unary, Binary, Operators, Compares, Bitwise, BinaryMath, Reductions
  <2>2. f = "any" => c.form = "bare"
    <3>1. f = "any" => t = BareType(f, s[1], c.form)
      BY DEF NativeType, Unary, Binary, Operators, Compares, Bitwise, BinaryMath, Reductions
    <3> QED  BY <3>1 DEF BareType
  <2>3. c.form = "bare"  BY <1>3, <1>4, <2>1, <2>2 DEF NativeAnswer, Has
  <2> QED  BY <1>4, <2>3 DEF Fresh, Number
<1>5. ASSUME f \notin Reductions \cup {"any"}, NativeAnswer(fr, t) = Number(t)
      PROVE  f \in Unary \cup Binary \cup {"isnan"} /\ \A k \in DOMAIN s : ~IsArray(s[k])
  BY <1>3, <1>5 DEF NativeAnswer, Has
<1>6. ASSUME f \in Unary \cup {"isnan"}, ~IsArray(s[1])  PROVE s[1].is = "scalar"
  <2>1. t = UnaryType(f, s[1]) \/ t = PredicateType(s[1])
    BY <1>6 DEF NativeType, Unary, Binary, Operators, Compares, Bitwise, BinaryMath, Reductions
  <2> QED  BY <1>6, <2>1 DEF UnaryType, PredicateType, IsF64, IsI64
<1>7. ASSUME f \in Binary, ~IsArray(s[1]), ~IsArray(s[2]), IsOperand(s[1]), IsOperand(s[2])
      PROVE  s[1].is = "scalar" /\ s[2].is = "scalar"
  <2>1. t \in {OperatorType(f, s[1], s[2], c.form), CompareType(f, s[1], s[2], c.form),
               BitwiseType(s[1], s[2], c.form), BinaryMathType(s[1], s[2])}
    BY <1>7 DEF NativeType, Unary, Binary, Operators, Compares, Bitwise, BinaryMath, Reductions
  <2>2. OperatorType(f, s[1], s[2], c.form) = Delegate  BY <1>7 DEF OperatorType
  <2>3. CompareType(f, s[1], s[2], c.form) = Delegate  BY <1>7 DEF CompareType, IsF64, IsI64, IsBool
  <2>4. BitwiseType(s[1], s[2], c.form) = Delegate  BY <1>7 DEF BitwiseType, IsI64, IsBool
  <2>5. BinaryMathType(s[1], s[2]) # Delegate  BY <2>1, <2>2, <2>3, <2>4
  <2>6. s[1].dtype = "python float" /\ s[2].dtype = "python float"
    BY <1>7, <2>5 DEF BinaryMathType, IsF64
  <2> QED  BY <1>7, <2>6 DEF IsOperand, ArrayTypes
<1>8. ASSUME f \notin Reductions \cup {"any"}, NativeAnswer(fr, t) = Number(t)  PROVE Fresh(c).is = "scalar"
  <2>1. f \in Unary \cup Binary \cup {"isnan"} /\ \A k \in DOMAIN s : ~IsArray(s[k])
    BY <1>5, <1>8
  <2>2. f # "concatenate" /\ f # "full" /\ f # "where"
    BY <2>1 DEF Unary, Binary, Operators, Compares, Bitwise, BinaryMath
  <2>3. \A k \in DOMAIN s : IsOperand(s[k])  BY <2>2 DEF HasOperands
  <2>4. \A k \in DOMAIN s : s[k].is = "scalar"
    <3>1. CASE f \in Binary
      <4>1. DOMAIN s = 1..2  BY <2>2, <3>1 DEF HasOperands
      <4>2. 1 \in DOMAIN s /\ 2 \in DOMAIN s /\ \A k \in DOMAIN s : k = 1 \/ k = 2  BY <4>1
      <4> QED  BY <1>7, <2>1, <2>3, <3>1, <4>2
    <3>2. CASE f \notin Binary
      <4>1. DOMAIN s = {1}  BY <2>2, <3>2 DEF HasOperands
      <4> QED  BY <1>6, <2>1, <3>2, <4>1
    <3> QED  BY <3>1, <3>2
  <2> QED  BY <1>8, <2>2, <2>4 DEF Fresh, Number
<1> QED  BY <1>1, <1>2, <1>4, <1>8

\* What lightarray computes itself fits.
LEMMA NativeFits ==
  ASSUME ListsAndTuples, NEW c \in Calls, HasOperands(c), c.out = NoOut,
         NEW t, t = NativeType(c.fn, c.args, c.form), t # Delegate, NEW fr, Has(c, fr)
  PROVE  Fits(c, NativeAnswer(fr, t))
<1> DEFINE a == NativeAnswer(fr, t)
           e == Fresh(c)
<1>1. c.fn \in NativeFunctions /\ (a = Number(t) \/ a = Lightarray(t, "result")) /\ (a = Number(t) => e.is = "scalar")
  BY NativeNumbers
<1>2. c.fn \notin Views \cup {"split", "modf"}
  BY <1>1 DEF NativeFunctions, Unary, Binary, Operators, Compares, Bitwise, BinaryMath, Reductions, Views
<1>3. Expects(c) = e  BY <1>2, FreshAnswer
<1>4. HasNumpysTypes(c) => e.dtype = t
  <2>1. e.dtype = NumpyType(c.fn, args_to_numpy(c.args))  BY DEF Fresh, Number, Ndarray
  <2> QED  BY <2>1, NativeTypes, NumpyTypeOfConverted
<1>5. /\ e.is \in {"scalar", "ndarray"} /\ e.mem = IF e.is = "scalar" THEN "none" ELSE "result"
      /\ IsSingle(e)
  BY DEF Fresh, Number, Ndarray, IsSingle
<1>6. /\ IsSingle(a) /\ a.dtype = t
      /\ a = Lightarray(t, "result") => a.is = "lightarray" /\ a.mem = "result"
  BY <1>1 DEF Number, Lightarray, IsSingle
<1> HIDE DEF a, e
<1>7. Matches(c, a, e)  BY <1>1, <1>4, <1>5, <1>6 DEF Matches
<1>8. Items(e) = <<e>> /\ Items(a) = <<a>> /\ ~IsContainer(e) /\ ~IsContainer(a)
  BY <1>5, <1>6 DEF IsSingle, Items, IsContainer
<1>9. Size(<<e>>) = 1 /\ Size(<<a>>) = 1  BY DEF Size
<1> QED  BY <1>3, <1>7, <1>8, <1>9 DEF Fits, a

\* NumPy with nothing to dispatch on has been called with NumPy arrays.
LEMMA DirectAnswer ==
  ASSUME ListsAndTuples, NEW c \in Calls, HasOperands(c), c.out = NoOut,
         NEW fr, Has(c, fr), ~Dispatches(fr)
  PROVE  NumpyAnswer(fr) = Expects(c)
<1> DEFINE s == c.args
<1>1. fr.fn = c.fn /\ fr.args = s /\ fr.out = NoOut /\ fr.form = c.form  BY DEF Has
<1>2. IsSequence(s)  BY CallsAssumption
<1>3. ASSUME NEW k \in DOMAIN s  PROVE to_numpy(s[k]) = s[k]
  <2>1. CASE c.fn = "concatenate"
    <3> DEFINE items == s[1].items
    <3>1. k = 1  BY <2>1 DEF HasOperands, Binary, Operators, Compares, Bitwise, BinaryMath
    <3>2. s[1].is \in {"list", "tuple"} /\ s[1] = [is |-> s[1].is, items |-> items]
      BY <2>1 DEF HasOperands
    <3>3. IsSequence(items)  BY <3>1, <3>2, CallsAssumption DEF IsValue, IsSingle
    <3>4. \A m \in DOMAIN items : ~IsArray(items[m])
      BY <1>1, <2>1, <3>1, <3>2 DEF Dispatches, Relevant, Parts, IsContainer, Ufuncs, Unary, Binary,
                                    Operators, Compares, Bitwise, BinaryMath
    <3>5. Map(items, NumpyLeaf) = items
      <4>1. Map(items, NumpyLeaf) = [m \in DOMAIN items |-> items[m]]  BY <3>4 DEF Map, NumpyLeaf
      <4>2. items \in Seq(Range(items))  BY <3>3 DEF IsSequence
      <4> QED  BY <4>1, <4>2
    <3>6. to_numpy(s[1]) = [s[1] EXCEPT !.items = items]  BY <3>2, <3>5 DEF to_numpy
    <3> HIDE DEF items
    <3> QED  BY <3>1, <3>2, <3>6
  <2>2. CASE c.fn # "concatenate"
    <3>1. IsSingle(s[k])  BY <2>2 DEF HasOperands, IsOperand
    <3>2. s[k] \in Relevant(fr)
      BY <1>1, <3>1 DEF Relevant, Parts, IsContainer, IsSingle
    <3>3. ~IsArray(s[k])  BY <3>2 DEF Dispatches
    <3> QED  BY <3>1, <3>3, SingleToNumpy DEF NumpyLeaf
  <2> QED  BY <2>1, <2>2
<1>4. args_to_numpy(s) = s
  <2>1. args_to_numpy(s) = [k \in DOMAIN s |-> s[k]]  BY <1>3 DEF args_to_numpy, Map
  <2>2. s \in Seq(Range(s))  BY <1>2 DEF IsSequence
  <2> QED  BY <2>1, <2>2
<1>5. HasConverted(c, fr)
  BY <1>1, <1>4, NoOutToNumpy DEF HasConverted
<1> QED  BY <1>5, ConvertedIsExpected

-----------------------------------------------------------------------------
(* A descending sort: sorted by NumPy, converted, turned round by NumPy,   *)
(* and converted again.                                                    *)

\* A new array of the dtype NumPy sorts to, or a copy of one.
Sorted(c, v) == c.fn = "sort" /\ IsSingle(v) /\ Matches(c, v, Expects(c))

\* NumPy's sort is one array of new memory.
LEMMA SortAnswer ==
  ASSUME ListsAndTuples, NEW c \in Calls, HasOperands(c), c.out = NoOut, c.fn = "sort"
  PROVE  IsSingle(Expects(c)) /\ Expects(c).is = "ndarray" /\ Expects(c).mem = "result"
<1>1. Expects(c) = Fresh(c)  BY FreshAnswer DEF Views
<1>2. 1 \in DOMAIN c.args /\ c.args[1].is # "scalar"
  BY DEF HasOperands, Binary, Operators, Compares, Bitwise, BinaryMath
<1>3. Fresh(c) = Ndarray(NumpyType(c.fn, args_to_numpy(c.args)), "result", "none", TRUE)
  BY <1>2 DEF Fresh, Reductions
<1> QED  BY <1>1, <1>3 DEF Ndarray, IsSingle

\* So it is no number, which cannot be turned round.
LEMMA SortedIsArray ==
  ASSUME ListsAndTuples, NEW c \in Calls, HasOperands(c), c.out = NoOut, NEW v, Sorted(c, v)
  PROVE  /\ v.is \in {"ndarray", "lightarray"} /\ v.mem \in {"result", "copy"}
         /\ HasNumpysTypes(c) => v.dtype = Expects(c).dtype
BY SortAnswer DEF Sorted, Matches

\* Arrays that have what Sorted asks for.
LEMMA SortedIs ==
  ASSUME ListsAndTuples, NEW c \in Calls, HasOperands(c), c.out = NoOut, c.fn = "sort", NEW v, IsSingle(v),
         v.is \in {"ndarray", "lightarray"}, v.mem \in {"result", "copy"},
         HasNumpysTypes(c) => v.dtype = Expects(c).dtype
  PROVE  Sorted(c, v)
BY SortAnswer DEF Sorted, Matches

\* The answer of a sort is sorted,
LEMMA FitsIsSorted ==
  ASSUME ListsAndTuples, NEW c \in Calls, HasOperands(c), c.out = NoOut, c.fn = "sort", NEW v, IsPlain(v), Fits(c, v)
  PROVE  Sorted(c, v)
<1>1. IsSingle(Expects(c))  BY SortAnswer
<1>2. ~IsContainer(Expects(c)) /\ Items(Expects(c)) = <<Expects(c)>>
  BY <1>1 DEF IsSingle, IsContainer, Items
<1>3. ~IsContainer(v) /\ Items(v) = <<v>> /\ IsSingle(v)
  BY <1>2 DEF Fits, Items, IsPlain, IsValue
<1>4. Matches(c, v, Expects(c))  BY <1>2, <1>3 DEF Fits
<1> QED  BY <1>3, <1>4 DEF Sorted

\* and what is sorted fits.
LEMMA SortedFits ==
  ASSUME ListsAndTuples, NEW c \in Calls, HasOperands(c), c.out = NoOut, NEW v, Sorted(c, v)
  PROVE  Fits(c, v)
<1>1. IsSingle(Expects(c)) /\ IsSingle(v) /\ Matches(c, v, Expects(c))  BY SortAnswer DEF Sorted
<1>2. \A w : IsSingle(w) => ~IsContainer(w) /\ Items(w) = <<w>>  BY DEF IsSingle, IsContainer, Items
<1>3. \A w : Size(<<w>>) = 1  BY DEF Size
<1> QED  BY <1>1, <1>2, <1>3 DEF Fits

\* A view of it is sorted too, of new memory or of a copy,
LEMMA FlipOfSorted ==
  ASSUME ListsAndTuples, NEW c \in Calls, HasOperands(c), c.out = NoOut, NEW v, Sorted(c, v),
         NEW fr, fr.fn = "flip", fr.args = args_to_numpy(<<v>>)
  PROVE  Sorted(c, NumpyAnswer(fr)) /\ NumPys(NumpyAnswer(fr))
<1> DEFINE x == NumpyLeaf(v)
           w == [x EXCEPT !.id = "new"]
<1>1. IsSingle(v) /\ c.fn = "sort"  BY DEF Sorted
<1>2. fr.args[1] = x  BY <1>1, SingleToNumpy DEF args_to_numpy, Map
<1>3. /\ IsSingle(x) /\ x.dtype = v.dtype /\ x.mem = v.mem /\ x.is \in {"ndarray", v.is} /\ ~IsArray(x)
  BY <1>1, LeafIsConverted, LeafDtype
<1> HIDE DEF x
<1>4. NumpyAnswer(fr) = w  BY <1>2 DEF NumpyAnswer
<1>5. IsSingle(w) /\ w.is = x.is /\ w.mem = x.mem /\ w.dtype = x.dtype
  BY <1>3 DEF IsSingle
<1> HIDE DEF w
<1>6. Sorted(c, w)  BY <1>1, <1>3, <1>5, SortedIsArray, SortedIs
<1>7. NumPys(w)  BY <1>3, <1>5 DEF NumPys, Items, IsContainer, IsSingle, IsArray
<1> QED  BY <1>4, <1>6, <1>7

\* and so is what a second conversion makes of that view.
LEMMA SortedConverted ==
  ASSUME ListsAndTuples, NEW c \in Calls, HasOperands(c), c.out = NoOut, NEW v, Sorted(c, v)
  PROVE  Fits(c, from_numpy(v))
<1> DEFINE inside == call.patched /\ InsideDunderArray(0)
           w == FromNumpyLeaf(v, inside)
<1>1. IsSingle(v) /\ c.fn = "sort"  BY DEF Sorted
<1>2. from_numpy(v) = w  BY <1>1 DEF from_numpy, IsSingle
<1> HIDE DEF inside
<1>3. IsSingle(w)  BY <1>1, LeafFromNumpyIsSingle
<1>4. w.is \in {v.is, "lightarray"} /\ w.mem \in {v.mem, "copy"} /\ w.dtype = v.dtype
  BY DEF FromNumpyLeaf, Lightarray
<1> HIDE DEF w
<1>5. Sorted(c, w)  BY <1>1, <1>3, <1>4, SortedIsArray, SortedIs
<1> QED  BY <1>2, <1>5, SortedFits

\* What NumPy returns to lightarray, without lightarrays, and what the
\* conversion makes of it.
Raw(c, v) == (v = Expects(c) \/ Sorted(c, v)) /\ NumPys(v)

\* A frame that converts returns what fits.
LEMMA RawConverted ==
  ASSUME ListsAndTuples, call \in Calls, HasOperands(call), call.out = NoOut, NEW v, Raw(call, v)
  PROVE  Fits(call, from_numpy(v))
BY ConvertedFits, SortedConverted DEF Raw

-----------------------------------------------------------------------------
(* The answer on its way down the stack.                                   *)

\* Above a frame that converts is what NumPy returned, elsewhere what fits.
Answering ==
  call.out = NoOut =>
    /\ status # "calling" => IF Top.at \in Counting THEN Raw(call, answer) ELSE Fits(call, answer)
    /\ status = "calling" /\ Top.at \in Computing /\ Top.fn = "flip" /\ call.fn = "sort" =>
         \E v : Sorted(call, v) /\ Top.args = args_to_numpy(<<v>>)
    /\ status = "returned" => Top.at \in CallerFrames

\* The last of the frames an action leaves.
LEMMA LastOf ==
  ASSUME StackOK, NEW t, IsSequence(t), Size(t) \in Nat \ {0}, stack' = Replace(stack, t)
  PROVE  Top' = t[Size(t)]
<1> DEFINE n == Size(stack)
           m == Size(t)
<1>1. /\ IsSequence(stack') /\ Size(stack') = n - 1 + m
      /\ \A k \in 1..m : stack'[n - 1 + k] = t[k]
  BY Entered
<1>2. n \in Nat \ {0}  BY StackSize
<1>3. Top' = stack'[Size(stack')]  BY DEF Top, Size
<1> HIDE DEF n, m
<1>4. m \in 1..m /\ n - 1 + m = Size(stack')  BY <1>1, <1>2 DEF m
<1> QED  BY <1>1, <1>3, <1>4 DEF m

\* The frame that goes on after an action has left frames on the stack.
LEMMA LastEntered ==
  ASSUME StackOK
  PROVE  /\ \A x : Enter(<<x>>) => Top' = x
         /\ \A x, y : Enter(<<x, y>>) => Top' = y
         /\ \A x, at : Invoke(<<x>>, at) =>
              Top' = Frame(at, Top.fn, args_to_numpy(Top.args), OutToNumpy(Top.out), Top.form)
         /\ \A x, y, at : Invoke(<<x, y>>, at) =>
              Top' = Frame(at, Top.fn, args_to_numpy(Top.args), OutToNumpy(Top.out), Top.form)
<1> DEFINE i == To("invoke")
           z(at) == Frame(at, Top.fn, args_to_numpy(Top.args), OutToNumpy(Top.out), Top.form)
<1>1. /\ \A x, at : Invoke(<<x>>, at) => Enter(<<x, i, z(at)>>)
      /\ \A x, y, at : Invoke(<<x, y>>, at) => Enter(<<x, y, i, z(at)>>)
  BY JoinedLiterals DEF Invoke
<1> HIDE DEF i, z
<1>2. ASSUME NEW x, Enter(<<x>>)  PROVE Top' = x
  <2> DEFINE t == One(x)
  <2>1. IsSequence(t) /\ Size(t) = 1 /\ stack' = Replace(stack, t) /\ t[1] = x  BY <1>2, Literals, EnterIs DEF One
  <2> HIDE DEF t
  <2> QED  BY <2>1, LastOf
<1>3. ASSUME NEW x, NEW y, Enter(<<x, y>>)  PROVE Top' = y
  <2> DEFINE t == Two(x, y)
  <2>1. IsSequence(t) /\ Size(t) = 2 /\ stack' = Replace(stack, t) /\ t[2] = y  BY <1>3, Literals, EnterIs DEF Two
  <2> HIDE DEF t
  <2> QED  BY <2>1, LastOf
<1>4. ASSUME NEW x, NEW at, Invoke(<<x>>, at)  PROVE Top' = z(at)
  <2> DEFINE t == Three(x, i, z(at))
  <2>1. IsSequence(t) /\ Size(t) = 3 /\ stack' = Replace(stack, t) /\ t[3] = z(at)
    BY <1>1, <1>4, Literals, EnterIs DEF Three
  <2> HIDE DEF t
  <2> QED  BY <2>1, LastOf
<1>5. ASSUME NEW x, NEW y, NEW at, Invoke(<<x, y>>, at)  PROVE Top' = z(at)
  <2> DEFINE t == Four(x, y, i, z(at))
  <2>1. IsSequence(t) /\ Size(t) = 4 /\ stack' = Replace(stack, t) /\ t[4] = z(at)
    BY <1>1, <1>5, Literals, EnterIs DEF Four
  <2> HIDE DEF t
  <2> QED  BY <2>1, LastOf
<1> QED  BY <1>2, <1>3, <1>4, <1>5 DEF z

\* The frame a result is returned to.
LEMMA TopPopped ==
  ASSUME StackOK, Size(stack) > Bottom, stack' = Rest
  PROVE  Top' = stack[Size(stack) - 1]
<1> DEFINE n == Size(stack)
<1>1. Size(stack') = n - 1 /\ \A k \in 1..n - 1 : stack'[k] = stack[k]  BY Popped
<1>2. n \in Nat \ {0} /\ Bottom \in Nat \ {0} /\ n > Bottom  BY StackSize
<1>3. Top' = stack'[Size(stack')]  BY DEF Top, Size
<1> HIDE DEF n
<1>4. n - 1 \in 1..n - 1  BY <1>2
<1> QED  BY <1>1, <1>3, <1>4 DEF n

\* Calls on the way to the answer are for the program's function, but the flip.
LEMMA CallsAnswer ==
  ASSUME call' = call, status' = "calling", Top'.fn = call.fn \/ Top'.at \notin Computing
  PROVE  Answering'
BY DEF Answering

\* None but the flip is called with another call's answer.
LEMMA OwnCallsAnswer ==
  ASSUME StackOK, Shape, status' = "calling",
         Wrapper \/ Method \/ GetItem \/ UfuncProxy \/ ArrayFunction \/ ArrayUfunc \/ Native
  PROVE  Answering'
<1>1. status = "calling" /\ Top.at \in Active \ Computing
  BY DEF Wrapper, Method, GetItem, UfuncProxy, ArrayFunction, ArrayUfunc, Native, Calling, Active, Entries, Computing
<1>2. IsFrame(Top) /\ Top.fn = call.fn  BY <1>1, TopOfCall DEF Has
<1>3. ASSUME NEW x, NEW y, Enter(<<x, y>>), y.fn = Top.fn
      PROVE  Answering'
  BY <1>2, <1>3, LastEntered, CallsAnswer DEF Enter
<1>4. ASSUME NEW x, NEW at, Invoke(<<x>>, at)
      PROVE  Answering'
  <2>1. Top'.fn = Top.fn  BY <1>4, LastEntered DEF Frame
  <2> QED  BY <1>2, <1>4, <2>1, CallsAnswer DEF Invoke, Enter
<1>5. ASSUME NEW x, NEW y, NEW at, Invoke(<<x, y>>, at)
      PROVE  Answering'
  <2>1. Top'.fn = Top.fn  BY <1>5, LastEntered DEF Frame
  <2> QED  BY <1>2, <1>5, <2>1, CallsAnswer DEF Invoke, Enter
<1>6. /\ To("native").fn = Top.fn /\ To("wrapper").fn = Top.fn
      /\ [To("implementation") EXCEPT !.args = args_to_numpy(@)].fn = Top.fn
      /\ Frame("numpy", Top.fn, args_to_numpy(Top.args), OutToNumpy(Top.out), Top.form).fn = Top.fn
  BY <1>2, ToFields DEF IsFrame, Frame
<1>7. CASE Wrapper \/ Method  BY <1>4, <1>7 DEF Wrapper, Method
<1>8. CASE GetItem  BY <1>3, <1>6, <1>8 DEF GetItem
<1>9. CASE UfuncProxy
  <2>1. PICK at \in {"native", "wrapper"} : Enter(<<To("proxy: call"), To(at)>>)  BY <1>9 DEF UfuncProxy
  <2> QED  BY <1>3, <1>6, <2>1
<1>10. CASE ArrayFunction  BY <1>3, <1>4, <1>6, <1>10 DEF ArrayFunction
<1>11. CASE ArrayUfunc  BY <1>3, <1>4, <1>6, <1>11 DEF ArrayUfunc
<1>12. CASE Native
  <2>1. CASE \E v : Return(v)  BY <2>1 DEF Return
  <2>2. CASE Enter(<<To("argsort_descending"), [To("implementation") EXCEPT !.args = args_to_numpy(@)]>>)
    BY <1>3, <1>6, <2>2
  <2>3. CASE Invoke(<<To("sort"), To("call")>>, "numpy")  BY <1>5, <2>3
  <2>4. CASE Invoke(<<To("call")>>, "numpy")  BY <1>4, <2>4
  <2> QED  BY <1>12, <2>1, <2>2, <2>3, <2>4 DEF Native
<1> QED  BY <1>7, <1>8, <1>9, <1>10, <1>11, <1>12

\* A dispatch hands the same call on.
LEMMA NumpyDispatchesAnswers ==
  ASSUME StackOK, Shape, NumpyDispatches
  PROVE  Answering'
<1>1. status = "calling" /\ IsFrame(Top)  BY TopOfCall DEF NumpyDispatches, Calling
<1>2. PICK at \in {"_array_ufunc", "_array_function"} : Enter(<<To(at)>>)
  BY DEF NumpyDispatches
<1>3. Top'.at = at  BY <1>1, <1>2, LastEntered, ToFields
<1> QED  BY <1>1, <1>2, <1>3, CallsAnswer DEF Enter, Computing

\* What lightarray computes goes to the program or to a frame that passes it on.
LEMMA NativeReturns ==
  ASSUME ListsAndTuples, OperandsGiven, StackOK, Shape, Native, status' # "calling"
  PROVE  Answering'
<1> DEFINE lower == stack[Size(stack) - 1]
<1>1. PICK at \in {"native", "operator"} : Calling(at)  BY DEF Native
<1>2. status = "calling" /\ Top.at \in {"native", "operator"}  BY <1>1 DEF Calling
<1>3. Has(call, Top) /\ Size(stack) > Bottom /\ OnTop(call, lower, Top)
  BY <1>2, TopOfCall DEF Active, Entries, Computing
<1>4. PICK t : t # Delegate /\ t = Natively(Top) /\ Return(NativeAnswer(Top, t)) /\ call' = call
  BY <1>2 DEF Native, Enter, Invoke
<1>5. Top' = lower  BY <1>3, <1>4, TopPopped DEF Return
<1> HIDE DEF lower
<1>6. lower.at \notin Counting
  BY <1>2, <1>3 DEF OnTop, StandsOn, CallerFrames, Forwarding, Computing, Counting
<1>7. call \in Calls /\ HasOperands(call)  BY DEF StackOK, OperandsGiven
<1>8. ASSUME call.out = NoOut  PROVE Fits(call, answer')
  <2>1. t = NativeType(call.fn, call.args, call.form)  BY <1>3, <1>4, <1>8 DEF Natively, Has
  <2>2. Fits(call, NativeAnswer(Top, t))  BY <1>3, <1>4, <1>7, <1>8, <2>1, NativeFits
  <2> QED  BY <1>4, <2>2 DEF Return
<1> QED  BY <1>4, <1>5, <1>6, <1>8 DEF Return, Answering

\* NumPy returns to the program, or to a frame that converts.
LEMMA NumpyRunsAnswers ==
  ASSUME ListsAndTuples, OperandsGiven, StackOK, Shape, Answering, NumpyRuns
  PROVE  Answering'
<1> DEFINE n == Size(stack)
           lower == stack[n - 1]
<1>1. /\ status = "calling" /\ Top.at \in Computing /\ stack' = Rest /\ call' = call
      /\ status' = "returning" /\ answer' = NumpyAnswer(Top)
      /\ Top.at = "implementation" \/ ~Dispatches(Top)
  BY DEF NumpyRuns, Calling, Return, Computing
<1>2. OnTop(call, lower, Top) /\ n > Bottom  BY <1>1, TopOfCall
<1>3. n \in Nat \ {0} /\ Bottom \in Nat \ {0}  BY StackSize
<1>4. Top' = lower  BY <1>1, <1>2, TopPopped
<1>5. call \in Calls /\ HasOperands(call)  BY DEF StackOK, OperandsGiven
<1> HIDE DEF n
<1>6. SUFFICES ASSUME call.out = NoOut
               PROVE  IF lower.at \in Counting THEN Raw(call, answer') ELSE Fits(call, answer')
  BY <1>1, <1>4 DEF Answering
<1>7. CASE lower.at \in CallerFrames
  <2>1. Has(call, Top) /\ Top.at = "numpy"
    BY <1>1, <1>2, <1>7 DEF OnTop, StandsOn, Computing, CallerFrames, Entries, Protocol, Forwarding
  <2>2. answer' = Expects(call)  BY <1>1, <1>5, <1>6, <2>1, DirectAnswer
  <2> QED  BY <1>7, <2>2, ExpectedFits DEF Counting, CallerFrames
<1>8. CASE lower.at \notin CallerFrames
  <2>1. lower.at \in Counting \cup {"_array_ufunc: out"}
    <3>1. StandsOn(Top.at, lower.at)  BY <1>2 DEF OnTop
    <3> QED  BY <1>1, <1>8, <3>1 DEF StandsOn, Computing, Entries, Protocol, Forwarding, Counting
  <2>2. lower.at # "_array_ufunc: out"
    <3>1. n - 1 \in 1..n /\ (n - 1 > Bottom => n - 1 \in Bottom + 1..n)  BY <1>2, <1>3
    <3>2. n - 1 > Bottom
      <4>1. n - 1 # Bottom
        <5>1. Bottom \in 1..Bottom  BY <1>3
        <5> QED  BY <1>8, <5>1 DEF Shape
      <4> QED  BY <1>2, <1>3, <4>1
    <3>3. n - 1 \in Bottom + 1..Size(stack)  BY <3>1, <3>2 DEF n
    <3>4. OnTop(call, stack[n - 1 - 1], lower)  BY <3>3 DEF Shape
    <3> QED  BY <1>6, <3>4 DEF OnTop, Has, Computing
  <2>3. Raw(call, answer')
    <3>1. CASE HasConverted(call, Top)
      BY <1>1, <1>5, <1>6, <3>1, ConvertedIsExpected, ExpectedItems DEF Raw
    <3>2. CASE FlipsConverted(call, Top)
      <4>1. Top.fn = "flip" /\ call.fn = "sort"  BY <3>2 DEF FlipsConverted, Flips
      <4>2. PICK v : Sorted(call, v) /\ Top.args = args_to_numpy(<<v>>)
        BY <1>1, <1>6, <4>1 DEF Answering
      <4>3. Sorted(call, NumpyAnswer(Top)) /\ NumPys(NumpyAnswer(Top))
        BY <1>5, <1>6, <4>1, <4>2, FlipOfSorted
      <4> QED  BY <1>1, <4>3 DEF Raw
    <3> QED  BY <1>1, <1>2, <1>8, <3>1, <3>2 DEF OnTop
  <2> QED  BY <2>1, <2>2, <2>3
<1> QED  BY <1>7, <1>8

\* Frames that convert turn what NumPy returned into what fits, others pass it on.
LEMMA ReturnToAnswers ==
  ASSUME ListsAndTuples, OperandsGiven, StackOK, Shape, Answering, ReturnTo
  PROVE  Answering'
<1> DEFINE lower == stack[Size(stack) - 1]
<1>1. status = "returning" /\ Top.at \notin CallerFrames \cup {"sort"} /\ stack' = Rest /\ call' = call
      /\ status' = "returning"
  BY DEF ReturnTo
<1>2. Top.at \in Waiting /\ OnTop(call, lower, Top) /\ Size(stack) > Bottom  BY <1>1, TopOfReturn
<1>3. Top' = lower  BY <1>1, <1>2, TopPopped
<1> HIDE DEF lower
<1>4. lower.at \notin Counting
  BY <1>2 DEF OnTop, StandsOn, Waiting, Passing, Computing, Counting, CallerFrames, Forwarding
<1>5. call \in Calls /\ HasOperands(call)  BY DEF StackOK, OperandsGiven
<1>6. SUFFICES ASSUME call.out = NoOut  PROVE Fits(call, answer')
  BY <1>1, <1>3, <1>4 DEF Answering
<1>7. Top.at = "invoke" => Top.out = NoOut
  <2>1. Top.at = "invoke" => Has(call, Top) \/ Top.out = NoOut
    BY <1>2 DEF OnTop, Computing
  <2> QED  BY <1>6, <2>1 DEF Has
<1>8. Top.at # "_array_ufunc: out"
  <2>1. Top.at = "_array_ufunc: out" => Has(call, Top) /\ Top.out # NoOut
    BY <1>2 DEF OnTop, Computing
  <2> QED  BY <1>6, <2>1 DEF Has
<1>9. CASE Top.at \in Counting
  <2>1. answer' = from_numpy(answer)
    <3>1. CASE Top.at = "invoke"
      <4>1. answer' = InvokeAnswer(Top, answer)  BY <3>1 DEF ReturnTo, Passing
      <4>2. Top.out.how = "no"  BY <1>7, <3>1 DEF NoOut
      <4> QED  BY <4>1, <4>2 DEF InvokeAnswer
    <3>2. CASE Top.at \in {"getitem: convert", "argsort_descending"}
      BY <3>2 DEF ReturnTo, Passing
    <3> QED  BY <1>9, <3>1, <3>2 DEF Counting
  <2>2. Raw(call, answer)  BY <1>1, <1>6, <1>9 DEF Answering
  <2> QED  BY <1>5, <1>6, <2>1, <2>2, RawConverted
<1>10. CASE Top.at \in Passing
  <2>1. answer' = answer /\ Top.at \notin Counting  BY <1>10 DEF ReturnTo, Passing, Counting
  <2> QED  BY <1>1, <1>6, <2>1 DEF Answering
<1> QED  BY <1>1, <1>2, <1>8, <1>9, <1>10 DEF Waiting, Counting

\* The sort's answer, which fits, becomes the flip's operand.
LEMMA SortFlipAnswers ==
  ASSUME ListsAndTuples, OperandsGiven, StackOK, Shape, IsPlain(answer), Answering, SortFlip
  PROVE  Answering'
<1> DEFINE x == [To("call") EXCEPT !.fn = "flip"]
           y == Frame("invoke", "flip", <<answer>>, NoOut, "bare")
           z == Frame("numpy", "flip", args_to_numpy(<<answer>>), NoOut, "bare")
           t == Three(x, y, z)
<1>1. status = "returning" /\ Top.at = "sort" /\ call' = call /\ status' = "calling"
  BY DEF SortFlip
<1>2. IsSequence(t) /\ Size(t) = 3 /\ stack' = Replace(stack, t) /\ t[3] = z
  BY Literals DEF SortFlip, Rest, Shortened, Replace, Three
<1> HIDE DEF t
<1>3. Top' = z  BY <1>2, LastOf
<1>4. Top'.args = args_to_numpy(<<answer>>)  BY <1>3 DEF Frame
<1>5. call \in Calls /\ HasOperands(call)  BY DEF StackOK, OperandsGiven
<1>6. ASSUME call.out = NoOut, call.fn = "sort"  PROVE Sorted(call, answer)
  <2>1. Fits(call, answer)  BY <1>1, <1>6 DEF Answering, Counting
  <2> QED  BY <1>5, <1>6, <2>1, FitsIsSorted
<1> QED  BY <1>1, <1>4, <1>6 DEF Answering

\* Every action, or none.
LEMMA NextKeepsAnswering ==
  ASSUME ListsAndTuples, OperandsGiven, Inv, Answering, [Next]_vars
  PROVE  Answering'
<1>1. StackOK /\ Shape /\ IsPlain(answer)  BY DEF Inv
<1>2. CASE Native /\ status' # "calling"  BY <1>1, <1>2, NativeReturns
<1>3. CASE Native /\ status' = "calling"  BY <1>1, <1>3, OwnCallsAnswer
<1>4. CASE Wrapper \/ Method \/ GetItem \/ UfuncProxy \/ ArrayFunction \/ ArrayUfunc
  <2>1. status' = "calling"
    BY <1>4 DEF Wrapper, Method, GetItem, UfuncProxy, ArrayFunction, ArrayUfunc, Calling, Invoke, Enter
  <2> QED  BY <1>1, <1>4, <2>1, OwnCallsAnswer
<1>5. CASE NumpyDispatches  BY <1>1, <1>5, NumpyDispatchesAnswers
<1>6. CASE NumpyRuns  BY <1>1, <1>6, NumpyRunsAnswers
<1>7. CASE ReturnTo  BY <1>1, <1>7, ReturnToAnswers
<1>8. CASE SortFlip  BY <1>1, <1>8, SortFlipAnswers
<1>9. CASE Finish
  <2>1. /\ stack' = stack /\ call' = call /\ answer' = answer /\ status = "returning" /\ status' = "returned"
        /\ Top.at \in CallerFrames
    BY <1>9 DEF Finish
  <2>2. Top' = Top  BY <2>1 DEF Top
  <2> QED  BY <2>1, <2>2 DEF Answering, Counting, CallerFrames
<1>10. CASE UNCHANGED vars
  <2>1. stack' = stack /\ call' = call /\ answer' = answer /\ status' = status  BY <1>10 DEF vars
  <2>2. Top' = Top  BY <2>1 DEF Top
  <2> QED  BY <2>1, <2>2 DEF Answering
<1> QED  BY <1>2, <1>3, <1>4, <1>5, <1>6, <1>7, <1>8, <1>9, <1>10 DEF Next

\* A call of NumPy by the program itself is not for a flip of a sort.
LEMMA InitAnswering ==
  ASSUME Init
  PROVE  Answering
<1>1. status = "calling" /\ Inv  BY InitInv DEF Init
<1>2. CASE Top.at \notin Computing  BY <1>1, <1>2 DEF Answering
<1>3. CASE Top.at \in Computing
  <2>1. Top.at = call.entry /\ Size(stack) = Bottom + 1  BY InitInv
  <2>2. OnTop(call, stack[Size(stack) - 1], Top)  BY <1>1, TopOfCall DEF Inv
  <2>3. stack[Size(stack) - 1].at \in CallerFrames
    <3>1. Bottom \in Nat \ {0} /\ Size(stack) - 1 = Bottom  BY <1>1, <2>1, StackSize DEF Inv
    <3>2. Bottom \in 1..Bottom  BY <3>1
    <3> QED  BY <1>1, <3>1, <3>2 DEF Inv, Shape
  <2>4. Has(call, Top)  BY <1>3, <2>2, <2>3 DEF OnTop, Computing
  <2> QED  BY <1>1, <2>4 DEF Has, Answering
<1> QED  BY <1>2, <1>3

\* Without out=, whatever is returned fits what NumPy answers.
LEMMA AnswersFit ==
  ListsAndTuples /\ OperandsGiven =>
    (Spec => [](status = "returned" /\ call.out = NoOut => Fits(call, answer)))
<1> SUFFICES ASSUME ListsAndTuples, OperandsGiven
             PROVE  Spec => [](status = "returned" /\ call.out = NoOut => Fits(call, answer))
  OBVIOUS
<1>1. Init => Inv /\ Answering  BY InitInv, InitAnswering
<1>2. Inv /\ Answering /\ [Next]_vars => (Inv /\ Answering)'  BY NextKeepsInv, NextKeepsAnswering
<1>3. Answering => (status = "returned" /\ call.out = NoOut => Fits(call, answer))
  BY DEF Answering, Counting, CallerFrames
<1> QED  BY <1>1, <1>2, <1>3, PTL DEF Spec

\* Whoever computes a call, NumPy's views come back on the memory NumPy's views
\* are on, and nothing else does: one conversion and no more has been made of
\* what NumPy returned, two in a descending sort.
THEOREM MemoryIsNumpys == ListsAndTuples /\ OperandsGiven => (Spec => []MemoryMatchesNumPy)
<1> SUFFICES ASSUME ListsAndTuples, OperandsGiven  PROVE Spec => []MemoryMatchesNumPy
  OBVIOUS
<1>1. Spec => [](status = "returned" /\ call.out = NoOut => Fits(call, answer))  BY AnswersFit
<1>2. (status = "returned" /\ call.out = NoOut => Fits(call, answer)) => MemoryMatchesNumPy
  BY DEF MemoryMatchesNumPy, Answers, Fits, Matches, Expects, Expected, Size
<1> QED  BY <1>1, <1>2, PTL

\* The dtype is NumPy's for all operands of the kinds lightarray treats itself,
\* in any combination and from every entry point.
THEOREM DtypesAreNumpys ==
  ListsAndTuples /\ OperandsGiven /\ (\A c \in Calls : HasNumpysTypes(c)) => (Spec => []DtypesMatchNumPy)
<1> SUFFICES ASSUME ListsAndTuples, OperandsGiven, \A c \in Calls : HasNumpysTypes(c)
             PROVE  Spec => []DtypesMatchNumPy
  OBVIOUS
<1>1. Spec => [](status = "returned" /\ call.out = NoOut => Fits(call, answer))  BY AnswersFit
<1>2. Spec => []Inv  BY StackShape
<1>3. Inv /\ (status = "returned" /\ call.out = NoOut => Fits(call, answer)) => DtypesMatchNumPy
  <2> SUFFICES ASSUME Inv, status = "returned" /\ call.out = NoOut => Fits(call, answer)
               PROVE  DtypesMatchNumPy
    OBVIOUS
  <2>1. HasNumpysTypes(call)  BY DEF Inv, StackOK
  <2> QED  BY <2>1 DEF DtypesMatchNumPy, Answers, Fits, Matches, Expects, Expected, Size
<1> QED  BY <1>1, <1>2, <1>3, PTL

-----------------------------------------------------------------------------
(* The class of the results.                                               *)

\* An __array__ method in a patched package.
IsInside(c) == "__array__" \in Range(c.under) /\ c.patched

\* The search for __array__ reaches over two helpers of the program's; over one
\* where the items of a tuple are converted for a proxy.
WithinReach ==
  \A c \in Calls : IsInside(c) /\ c.out = NoOut =>
    \E k \in DOMAIN c.under :
      /\ c.under[k] = "__array__"
      /\ Size(c.under) - k <= IF c.entry = "proxy" /\ c.fn \in {"modf", "split"} THEN 1 ELSE 2

\* Calls lightarray has to do with.
IsOwn(c) == c.entry = "numpy" => \E k \in DOMAIN c.args : \E v \in Parts(c.args[k]) : IsArray(v)

\* The results v, next to NumPy's: see ResultsHaveTheRightClass.
HasRightClass(c, v) ==
  \A k \in DOMAIN Items(v) :
    /\ IsInside(c) /\ runs > 0 => ~IsArray(Items(v)[k])
    /\ ~IsInside(c) /\ IsOwn(c) /\ Items(Expects(c))[k].is = "ndarray" /\ Items(Expects(c))[k].dtype \in ArrayTypes
         => IsArray(Items(v)[k])

\* Nothing has been computed before NumPy is asked, and what is returned has
\* the class it should have once it is below a conversion.
Classed ==
  call.out = NoOut =>
    /\ status = "calling" /\ Top.at \notin Computing => runs = 0
    /\ status # "calling" /\ Top.at \notin Counting => HasRightClass(call, answer)

\* What a frame that waits for NumPy stands on, down to the program.
LEMMA Height ==
  ASSUME StackOK, Shape, status = "returning", Top.at \in Counting
  PROVE  LET n == Size(stack) IN
         /\ n <= Bottom + 3 \/ (n = Bottom + 4 /\ stack[n - 2].at = "sort" /\ call.fn = "sort")
         /\ call.fn \in {"modf", "split"} => n <= Bottom + 2 \/ (n <= Bottom + 3 /\ call.entry = "proxy")
<1> DEFINE n == Size(stack)
           at(k) == stack[n - k].at
<1>1. n \in Nat \ {0} /\ Bottom \in Nat \ {0} /\ Top = stack[n]  BY StackSize
<1>2. Top.at \notin CallerFrames  BY DEF Counting, CallerFrames
<1>3. n > Bottom  BY <1>2, TopOfReturn
<1>4. ASSUME NEW k \in Nat, n - k > Bottom
      PROVE  /\ OnTop(call, stack[n - (k + 1)], stack[n - k]) /\ StandsOn(at(k), at(k + 1))
             /\ at(k) \in Waiting /\ at(k) \notin CallerFrames
  <2> DEFINE j == n - k
  <2>1. j \in Bottom + 1..n /\ n - (k + 1) = j - 1  BY <1>1, <1>4
  <2> HIDE DEF j
  <2>2. OnTop(call, stack[j - 1], stack[j]) /\ stack[j].at \in Waiting  BY <2>1 DEF Shape, n
  <2>3. stack[j].at \notin CallerFrames  BY <2>2 DEF Waiting, Passing, CallerFrames
  <2> QED  BY <2>1, <2>2, <2>3 DEF OnTop, j
<1>5. ASSUME NEW k \in Nat, n - k > Bottom, at(k + 1) \in CallerFrames
      PROVE  n = Bottom + k + 1
  <2>1. ~(n - (k + 1) > Bottom)  BY <1>4, <1>5
  <2> QED  BY <1>1, <1>5, <2>1
<1>6. ASSUME NEW k \in Nat, n - k > Bottom, at(k + 1) \notin CallerFrames
      PROVE  n - (k + 1) > Bottom
  <2>1. n - (k + 1) # Bottom
    <3>1. Bottom \in 1..Bottom  BY <1>1
    <3> QED  BY <1>6, <3>1 DEF Shape
  <2> QED  BY <1>1, <1>6, <2>1
<1>7. ASSUME NEW k \in Nat, n - k > Bottom, at(k) \in {"sort", "argsort_descending", "proxy: call",
                                                       "_array_ufunc: native", "_array_function: native"}
      PROVE  /\ at(k) = "sort" => call.fn = "sort"
             /\ at(k) = "argsort_descending" => call.fn = "argsort"
             /\ at(k) = "proxy: call" => call.entry = "proxy"
             /\ at(k) \in {"_array_ufunc: native", "_array_function: native"} => call.fn \notin {"modf", "split"}
  <2>1. OnTop(call, stack[n - (k + 1)], stack[n - k])  BY <1>4, <1>7
  <2>2. call.fn \in NativeFunctions => call.fn \notin {"modf", "split"}
    BY DEF NativeFunctions, Unary, Binary, Operators, Compares, Bitwise, BinaryMath, Reductions
  <2> QED  BY <1>7, <2>1, <2>2 DEF OnTop, Has, Computing
<1> HIDE DEF at
<1>8. at(0) = Top.at /\ n - 0 > Bottom  BY <1>1, <1>3 DEF at
<1>9. ASSUME NEW k \in Nat, n - k > Bottom, at(k) \in Forwarding
      PROVE  /\ n = Bottom + k + 1
             /\ call.fn \in {"modf", "split"} => call.entry = "proxy"
  <2>1. at(k + 1) \in CallerFrames
    BY <1>4, <1>9 DEF StandsOn, Forwarding, Entries, Protocol, Computing
  <2>2. n = Bottom + k + 1  BY <1>5, <1>9, <2>1
  <2> QED  BY <1>7, <1>9, <2>2 DEF Forwarding
<1>10. ASSUME NEW k \in Nat, n - k > Bottom, at(k) \in {"call", "wrapper", "sort", "argsort_descending"},
              at(k + 1) \in CallerFrames \cup Forwarding
       PROVE  /\ n = Bottom + k + 1 \/ (n = Bottom + k + 2 /\ (call.fn \in {"modf", "split"} => call.entry = "proxy"))
  <2>1. CASE at(k + 1) \in CallerFrames  BY <1>5, <1>10, <2>1
  <2>2. CASE at(k + 1) \in Forwarding
    <3>1. at(k + 1) \notin CallerFrames  BY <2>2 DEF Forwarding, CallerFrames
    <3>2. n - (k + 1) > Bottom /\ k + 1 \in Nat  BY <1>6, <1>10, <3>1
    <3>3. n = Bottom + (k + 1) + 1 /\ (call.fn \in {"modf", "split"} => call.entry = "proxy")
      BY <1>9, <2>2, <3>2
    <3> QED  BY <1>1, <3>3
  <2> QED  BY <1>10, <2>1, <2>2
<1>11. CASE at(0) \in {"argsort_descending", "getitem: convert"}
  <2>1. StandsOn(at(0), at(1))  BY <1>4, <1>8
  <2>2. CASE at(0) = "getitem: convert"
    <3>1. at(0 + 1) \in CallerFrames
      <4>1. at(1) \in CallerFrames  BY <2>1, <2>2 DEF StandsOn, Forwarding, Computing
      <4> QED  BY <4>1
    <3>2. n = Bottom + 0 + 1  BY <1>5, <1>8, <3>1
    <3> QED  BY <1>1, <3>2 DEF n
  <2>3. CASE at(0) = "argsort_descending"
    <3>1. at(0 + 1) \in CallerFrames \cup Forwarding
      <4>1. at(1) \in CallerFrames \cup Forwarding  BY <2>1, <2>3 DEF StandsOn, Forwarding, Computing
      <4> QED  BY <4>1
    <3>2. n = Bottom + 0 + 1 \/ n = Bottom + 0 + 2  BY <1>8, <1>10, <2>3, <3>1
    <3> QED  BY <1>1, <3>2 DEF n
  <2> QED  BY <1>11, <2>2, <2>3
<1>12. CASE at(0) = "invoke"
  <2>1. StandsOn("invoke", at(1))  BY <1>4, <1>8, <1>12
  <2>2. at(1) \in {"call", "wrapper", "method", "_array_ufunc: invoke", "_array_function: invoke"}
    BY <2>1 DEF StandsOn, Forwarding, Computing, Entries, Protocol
  <2>3. at(1) \notin CallerFrames  BY <2>2 DEF CallerFrames
  <2>4. n - 1 > Bottom
    <3>1. n - (0 + 1) > Bottom  BY <1>6, <1>8, <2>3
    <3> QED  BY <3>1
  <2>5. StandsOn(at(1), at(2))
    <3>1. StandsOn(at(1), at(1 + 1))  BY <1>4, <2>4
    <3> QED  BY <3>1
  <2>6. CASE at(2) \in CallerFrames
    <3>1. n = Bottom + 1 + 1
      <4>1. at(1 + 1) \in CallerFrames  BY <2>6
      <4> QED  BY <1>5, <2>4, <4>1
    <3> QED  BY <1>1, <3>1 DEF n
  <2>7. CASE at(2) \in Forwarding
    <3>1. at(1 + 1) \in CallerFrames \cup Forwarding /\ at(1) \in {"call", "wrapper"}
      <4>1. at(1) \in {"call", "wrapper"}  BY <2>2, <2>5, <2>7 DEF StandsOn, Forwarding, CallerFrames, Computing
      <4> QED  BY <2>7, <4>1
    <3>2. n = Bottom + 1 + 1 \/ (n = Bottom + 1 + 2 /\ (call.fn \in {"modf", "split"} => call.entry = "proxy"))
      BY <1>10, <2>4, <3>1
    <3> QED  BY <1>1, <3>2 DEF n
  <2>8. CASE at(2) = "sort"
    <3>1. at(2) \notin CallerFrames  BY <2>8 DEF CallerFrames
    <3>2. n - 2 > Bottom
      <4>1. n - (1 + 1) > Bottom
        <5>1. at(1 + 1) \notin CallerFrames  BY <3>1
        <5> QED  BY <1>6, <2>4, <5>1
      <4> QED  BY <4>1
    <3>3. call.fn = "sort"  BY <1>7, <2>8, <3>2
    <3>4. at(2 + 1) \in CallerFrames \cup Forwarding
      <4>1. StandsOn("sort", at(2 + 1))  BY <1>4, <2>8, <3>2
      <4> QED  BY <4>1 DEF StandsOn, Entries, Protocol, Computing
    <3>5. n = Bottom + 2 + 1 \/ n = Bottom + 2 + 2  BY <1>10, <2>8, <3>2, <3>4
    <3>6. n <= Bottom + 3 \/ n = Bottom + 4  BY <1>1, <3>5
    <3> QED  BY <2>8, <3>3, <3>6 DEF n, at
  <2>9. at(2) \in CallerFrames \cup Forwarding \cup {"sort"}
    BY <2>2, <2>5 DEF StandsOn, Forwarding, Entries, Protocol, Computing
  <2> QED  BY <2>6, <2>7, <2>8, <2>9
<1> QED  BY <1>8, <1>11, <1>12 DEF Counting

\* The Python frames of some of the last frames.
LEMMA FewPythonFrames ==
  ASSUME StackOK, NEW k \in 1..Size(stack)
  PROVE  /\ PythonFrames(k) \in Nat /\ PythonFrames(k) <= Size(stack) - k + 1
         /\ \A j \in k..Size(stack) : stack[j].at \in Compiled => PythonFrames(k) <= Size(stack) - k
<1> DEFINE n == Size(stack)
           all == k..n
           P == {j \in all : stack[j].at \notin Compiled}
<1>1. n \in Nat \ {0} /\ k \in Int /\ n \in Int /\ k <= n  BY StackSize
<1>2. PythonFrames(k) = Cardinality(P)  BY DEF PythonFrames, Size
<1>3. IsFiniteSet(all) /\ Cardinality(all) = n - k + 1
  <2> HIDE DEF n
  <2>1. IsFiniteSet(k..n) /\ Cardinality(k..n) = IF k > n THEN 0 ELSE n - k + 1  BY <1>1, FS_Interval
  <2> QED  BY <1>1, <2>1
<1>4. P \subseteq all  OBVIOUS
<1>5. \A j \in all : stack[j].at \in Compiled => P \subseteq all \ {j}  OBVIOUS
<1> HIDE DEF n, all, P
<1>6. IsFiniteSet(P) /\ Cardinality(P) <= Cardinality(all) /\ Cardinality(P) \in Nat
  BY <1>3, <1>4, FS_Subset, FS_CardinalityType
<1>7. ASSUME NEW j \in all, stack[j].at \in Compiled  PROVE Cardinality(P) <= n - k
  <2>1. IsFiniteSet(all \ {j}) /\ Cardinality(all \ {j}) = Cardinality(all) - 1
    BY <1>3, FS_RemoveElement
  <2>2. Cardinality(P) <= Cardinality(all \ {j})  BY <1>5, <1>7, <2>1, FS_Subset
  <2> QED  BY <1>1, <1>3, <1>6, <2>1, <2>2
<1> QED  BY <1>2, <1>3, <1>6, <1>7 DEF n, all

\* The search finds the __array__ method a call is made in.
LEMMA Reached ==
  ASSUME WithinReach, StackOK, Shape, status = "returning", Top.at \in Counting, IsInside(call), call.out = NoOut
  PROVE  InsideDunderArray(0) /\ (call.fn \in {"modf", "split"} => InsideDunderArray(1))
<1> DEFINE n == Size(stack)
           far == call.entry = "proxy" /\ call.fn \in {"modf", "split"}
<1>1. n \in Nat \ {0} /\ DOMAIN stack = 1..n /\ Bottom \in Nat \ {0} /\ n >= Bottom
  BY StackSize DEF Shape
<1>2. DOMAIN call.under = 1..Bottom
  <2>1. call.under \in Seq(CallerFrames)  BY CallsAssumption DEF StackOK
  <2> QED  BY <2>1, Sequence DEF Bottom
<1>3. PICK k \in DOMAIN call.under : call.under[k] = "__array__" /\ Bottom - k <= IF far THEN 1 ELSE 2
  BY DEF WithinReach, StackOK, Bottom
<1>4. k \in 1..Bottom /\ k \in 1..n /\ stack[k].at = "__array__"
  BY <1>1, <1>2, <1>3 DEF Shape
<1>5. /\ n <= Bottom + 3 \/ (n = Bottom + 4 /\ stack[n - 2].at = "sort" /\ call.fn = "sort")
      /\ call.fn \in {"modf", "split"} => n <= Bottom + 2 \/ (n <= Bottom + 3 /\ call.entry = "proxy")
  BY Height
<1>6. /\ PythonFrames(k) \in Nat /\ PythonFrames(k) <= n - k + 1
      /\ \A j \in k..n : stack[j].at \in Compiled => PythonFrames(k) <= n - k
  BY <1>4, FewPythonFrames
<1>7. ASSUME NEW own \in {0, 1}, own + PythonFrames(k) <= 6  PROVE InsideDunderArray(own)
  BY <1>1, <1>4, <1>7 DEF InsideDunderArray, Lookback
<1> HIDE DEF n
<1>8. PythonFrames(k) <= 6
  <2>1. CASE n <= Bottom + 3  BY <1>1, <1>3, <1>4, <1>6, <2>1
  <2>2. CASE n = Bottom + 4 /\ stack[n - 2].at = "sort"
    <3>1. n - 2 \in k..n  BY <1>1, <1>4, <2>2
    <3>2. PythonFrames(k) <= n - k  BY <1>6, <2>2, <3>1 DEF Compiled
    <3> QED  BY <1>1, <1>3, <1>4, <1>6, <2>2, <3>2
  <2> QED  BY <1>5, <2>1, <2>2
<1>9. ASSUME call.fn \in {"modf", "split"}  PROVE 1 + PythonFrames(k) <= 6
  <2>1. CASE n <= Bottom + 2  BY <1>1, <1>3, <1>4, <1>6, <2>1
  <2>2. CASE n <= Bottom + 3 /\ far  BY <1>1, <1>3, <1>4, <1>6, <2>2
  <2> QED  BY <1>5, <1>9, <2>1, <2>2
<1>10. 0 + PythonFrames(k) <= 6  BY <1>6, <1>8
<1> QED  BY <1>7, <1>9, <1>10

\* Without one it finds none.
LEMMA NotInside ==
  ASSUME StackOK, Shape, status = "returning", "__array__" \notin Range(call.under), NEW own
  PROVE  ~InsideDunderArray(own)
<1>1. DOMAIN stack = 1..Size(stack) /\ Size(stack) \in Nat \ {0} /\ Bottom \in Nat \ {0}  BY StackSize
<1>2. DOMAIN call.under = 1..Bottom
  <2>1. call.under \in Seq(CallerFrames)  BY CallsAssumption DEF StackOK
  <2> QED  BY <2>1, Sequence DEF Bottom
<1>3. ASSUME NEW k \in 1..Size(stack)  PROVE stack[k].at # "__array__"
  <2>1. CASE k \in 1..Bottom
    BY <1>2, <2>1 DEF Shape, Range
  <2>2. CASE k \in Bottom + 1..Size(stack)
    <3>1. stack[k].at \in Waiting  BY <2>2 DEF Shape
    <3> QED  BY <3>1 DEF Waiting, Passing
  <2>3. k \in 1..Bottom \/ k \in Bottom + 1..Size(stack)  BY <1>1
  <2> QED  BY <2>1, <2>2, <2>3
<1> QED  BY <1>1, <1>3 DEF InsideDunderArray

\* A conversion converts every result by itself.
LEMMA ItemsConverted ==
  ASSUME NEW v, IsPlain(v)
  PROVE  /\ DOMAIN Items(from_numpy(v)) = DOMAIN Items(v)
         /\ \A k \in DOMAIN Items(v) :
              /\ IsSingle(Items(v)[k])
              /\ Items(from_numpy(v))[k] =
                   FromNumpyLeaf(Items(v)[k], call.patched /\ InsideDunderArray(IF IsContainer(v) THEN 1 ELSE 0))
<1> DEFINE w == from_numpy(v)
<1>1. CASE v.is \in {"list", "tuple"}
  <2> DEFINE inside == call.patched /\ InsideDunderArray(1)
             items == [k \in DOMAIN v.items |-> FromNumpyLeaf(v.items[k], inside)]
  <2>1. w = [v EXCEPT !.items = items]  BY <1>1 DEF from_numpy, Map
  <2>2. IsContainer(v)  BY <1>1 DEF IsContainer
  <2>3. inside = (call.patched /\ InsideDunderArray(IF IsContainer(v) THEN 1 ELSE 0))  BY <2>2
  <2> HIDE DEF inside, w
  <2>4. DOMAIN v = {"is", "items"} /\ \A k \in DOMAIN v.items : IsSingle(v.items[k])
    BY <1>1 DEF IsPlain, IsValue, IsSingle
  <2>5. w.is = v.is /\ w.items = items  BY <2>1, <2>4
  <2>6. Items(v) = v.items /\ Items(w) = items  BY <1>1, <2>5 DEF Items, IsContainer
  <2> QED  BY <2>3, <2>4, <2>6 DEF w
<1>2. CASE v.is \notin {"list", "tuple"}
  <2> DEFINE inside == call.patched /\ InsideDunderArray(0)
  <2>1. w = FromNumpyLeaf(v, inside)  BY <1>2 DEF from_numpy
  <2>2. IsSingle(v) /\ ~IsContainer(v)  BY <1>2 DEF IsPlain, IsValue, IsContainer
  <2>3. inside = (call.patched /\ InsideDunderArray(IF IsContainer(v) THEN 1 ELSE 0))  BY <2>2
  <2> HIDE DEF inside, w
  <2>4. IsSingle(w)  BY <2>1, <2>2, LeafFromNumpyIsSingle
  <2>5. ~IsContainer(w)  BY <2>4 DEF IsSingle, IsContainer
  <2>6. Items(v) = <<v>> /\ Items(w) = <<w>>  BY <2>2, <2>5 DEF Items
  <2> QED  BY <2>1, <2>2, <2>3, <2>6 DEF w
<1> QED  BY <1>1, <1>2

\* A sort has an array to sort, and so NumPy's dtype.
LEMMA SortTypes ==
  ASSUME NEW c, HasOperands(c), c.fn = "sort"
  PROVE  HasNumpysTypes(c)
BY DEF HasOperands, HasNumpysTypes, Binary, Operators, Compares, Bitwise, BinaryMath

\* NumPy's results, whoever called NumPy for them: arrays where NumPy's answer
\* to the program's call has arrays, and several for two functions only.
LEMMA RawItems ==
  ASSUME ListsAndTuples, NEW c \in Calls, HasOperands(c), c.out = NoOut, NEW v, Raw(c, v)
  PROVE  /\ IsPlain(v)
         /\ IsContainer(v) => c.fn \in {"modf", "split"}
         /\ \A k \in DOMAIN Items(v) :
              /\ ~IsArray(Items(v)[k])
              /\ Items(Expects(c))[k].is = "ndarray" =>
                   Items(v)[k].is = "ndarray" /\ Items(v)[k].dtype = Items(Expects(c))[k].dtype
<1>1. NumPys(v)  BY DEF Raw
<1>2. CASE v = Expects(c)
  <2>1. IsPlain(v)  BY <1>2, ExpectedItems
  <2>2. ASSUME c.fn \notin {"modf", "split"}  PROVE ~IsContainer(v)
    <3>1. CASE c.fn \notin Views
      <4>1. v = Fresh(c)  BY <1>2, <2>2, <3>1, FreshAnswer
      <4> QED  BY <4>1 DEF Fresh, Number, Ndarray, IsContainer
    <3>2. CASE c.fn \in Views
      <4> DEFINE y == Frame("numpy", c.fn, args_to_numpy(c.args), OutToNumpy(c.out), c.form)
                 x == y.args[1]
                 new == [x EXCEPT !.id = "new"]
      <4>1. v = NumpyAnswer(y)  BY <1>2 DEF Expects
      <4>2. y.fn = c.fn /\ y.args = args_to_numpy(c.args)  BY DEF Frame
      <4>3. c.fn # "concatenate" /\ 1 \in DOMAIN c.args  BY <3>2, CallValues DEF Views
      <4>4. IsSingle(c.args[1])  BY <4>3 DEF HasOperands, IsOperand
      <4>5. x = NumpyLeaf(c.args[1])  BY <4>2, <4>3, <4>4, SingleToNumpy DEF args_to_numpy, Map
      <4>6. IsSingle(x)  BY <4>4, <4>5, LeafIsConverted
      <4> HIDE DEF y
      <4>7. v = [new EXCEPT !.writable = FALSE] \/ v = [new EXCEPT !.dtype = "int64"] \/ v = new
        BY <3>2, <4>1, <4>2 DEF NumpyAnswer, Views
      <4> HIDE DEF x
      <4>8. IsSingle(v)  BY <4>6, <4>7, RenamedIsPlain, SingleIsPlain
      <4> QED  BY <4>8 DEF IsSingle, IsContainer
    <3> QED  BY <3>1, <3>2
  <2> QED  BY <1>1, <1>2, <2>1, <2>2 DEF NumPys
<1>3. CASE Sorted(c, v)
  <2>1. c.fn = "sort" /\ IsSingle(v)  BY <1>3 DEF Sorted
  <2>2. v.is \in {"ndarray", "lightarray"} /\ v.dtype = Expects(c).dtype
    BY <1>3, <2>1, SortedIsArray, SortTypes
  <2>3. IsSingle(Expects(c))  BY <2>1, SortAnswer
  <2>4. \A w : IsSingle(w) => ~IsContainer(w) /\ Items(w) = <<w>>  BY DEF IsSingle, IsContainer, Items
  <2>5. /\ ~IsContainer(v) /\ Items(v) = <<v>> /\ Items(Expects(c)) = <<Expects(c)>> /\ IsPlain(v)
    BY <2>1, <2>3, <2>4, SingleIsPlain
  <2>6. ~IsArray(v)  BY <1>1, <2>5 DEF NumPys
  <2>7. v.is = "ndarray"  BY <2>2, <2>6 DEF IsArray
  <2> QED  BY <2>2, <2>5, <2>6, <2>7
<1> QED  BY <1>2, <1>3 DEF Raw

\* A conversion gives the results of NumPy the class they should have.
LEMMA RightClassConverted ==
  ASSUME ListsAndTuples, WithinReach, StackOK, Shape, HasOperands(call), call.out = NoOut,
         status = "returning", Top.at \in Counting, NEW v, Raw(call, v)
  PROVE  HasRightClass(call, from_numpy(v))
<1> DEFINE own == IF IsContainer(v) THEN 1 ELSE 0
           inside == call.patched /\ InsideDunderArray(own)
<1>1. call \in Calls  BY DEF StackOK
<1>2. /\ IsPlain(v) /\ (IsContainer(v) => call.fn \in {"modf", "split"})
      /\ \A k \in DOMAIN Items(v) :
           /\ ~IsArray(Items(v)[k])
           /\ Items(Expects(call))[k].is = "ndarray" =>
                Items(v)[k].is = "ndarray" /\ Items(v)[k].dtype = Items(Expects(call))[k].dtype
  BY <1>1, RawItems
<1>3. /\ DOMAIN Items(from_numpy(v)) = DOMAIN Items(v)
      /\ \A k \in DOMAIN Items(v) : Items(from_numpy(v))[k] = FromNumpyLeaf(Items(v)[k], inside)
  BY <1>2, ItemsConverted
<1>4. IsInside(call) => inside
  BY <1>2, Reached DEF IsInside
<1>5. ~IsInside(call) => ~inside
  BY NotInside DEF IsInside
<1> HIDE DEF inside
<1>6. ASSUME NEW k \in DOMAIN Items(v), IsInside(call)  PROVE ~IsArray(Items(from_numpy(v))[k])
  <2>1. Items(from_numpy(v))[k] = FromNumpyLeaf(Items(v)[k], inside) /\ inside  BY <1>3, <1>4, <1>6
  <2>2. Items(from_numpy(v))[k] = Items(v)[k]  BY <2>1 DEF FromNumpyLeaf
  <2> QED  BY <1>2, <2>2
<1>7. ASSUME NEW k \in DOMAIN Items(v), ~IsInside(call),
             Items(Expects(call))[k].is = "ndarray", Items(Expects(call))[k].dtype \in ArrayTypes
      PROVE  IsArray(Items(from_numpy(v))[k])
  <2> DEFINE x == Items(v)[k]
  <2>1. Items(from_numpy(v))[k] = FromNumpyLeaf(x, inside) /\ ~inside  BY <1>3, <1>5, <1>7
  <2>2. x.is = "ndarray" /\ x.dtype \in ArrayTypes  BY <1>2, <1>7
  <2> HIDE DEF x
  <2> QED  BY <2>1, <2>2 DEF FromNumpyLeaf, Lightarray, IsArray
<1> QED  BY <1>3, <1>6, <1>7 DEF HasRightClass

\* Nothing has run before NumPy is asked.
LEMMA CallsAreClassed ==
  ASSUME StackOK, Shape, Classed, status' = "calling",
         Wrapper \/ Method \/ GetItem \/ UfuncProxy \/ ArrayFunction \/ ArrayUfunc \/ Native
  PROVE  Classed'
<1>1. status = "calling" /\ Top.at \notin Computing
  BY DEF Wrapper, Method, GetItem, UfuncProxy, ArrayFunction, ArrayUfunc, Native, Calling, Computing
<1>2. runs' = runs /\ call' = call
  BY DEF Wrapper, Method, GetItem, UfuncProxy, ArrayFunction, ArrayUfunc, Native, Invoke, Enter, Return
<1> QED  BY <1>1, <1>2 DEF Classed

\* A program's own call of NumPy is not a run of lightarray's.
LEMMA NumpyDispatchesIsClassed ==
  ASSUME ListsAndTuples, StackOK, Shape, Counted, NumpyDispatches
  PROVE  Classed'
<1>1. status = "calling" /\ status' = status /\ runs' = runs
  BY DEF NumpyDispatches, Calling, Enter
<1>2. Caller \in CallerFrames  BY DispatchesForCallers DEF Caller
<1>3. CountedRuns /\ Owed = 0
  BY <1>1, <1>2 DEF Counted, OutRun, CallerFrames, Owed, Counting
<1>4. calls = 0 /\ calls = runs + 0  BY <1>1, <1>2, <1>3, Zenon DEF CountedRuns
<1>5. runs = 0  BY <1>4 DEF Counted
<1> QED  BY <1>1, <1>5 DEF Classed

\* lightarray's own results are arrays where NumPy's are.
LEMMA NativeReturnIsClassed ==
  ASSUME ListsAndTuples, OperandsGiven, StackOK, Shape, Classed, Native, status' # "calling"
  PROVE  Classed'
<1>1. PICK at \in {"native", "operator"} : Calling(at)  BY DEF Native
<1>2. status = "calling" /\ Top.at \in {"native", "operator"}  BY <1>1 DEF Calling
<1>3. Has(call, Top)  BY <1>2, TopOfCall DEF Active, Entries, Computing
<1>4. PICK t : t # Delegate /\ t = Natively(Top) /\ Return(NativeAnswer(Top, t)) /\ call' = call /\ runs' = runs
  BY <1>2 DEF Native, Enter, Invoke
<1>5. call \in Calls /\ HasOperands(call)  BY DEF StackOK, OperandsGiven
<1>6. SUFFICES ASSUME call.out = NoOut  PROVE HasRightClass(call, answer)'
  BY <1>4 DEF Return, Classed
<1>7. runs' = 0  BY <1>2, <1>4, <1>6 DEF Classed, Computing
<1>8. t = NativeType(call.fn, call.args, call.form)  BY <1>3, <1>4, <1>6 DEF Natively, Has
<1> DEFINE a == NativeAnswer(Top, t)
           e == Fresh(call)
<1>9. /\ call.fn \in NativeFunctions /\ (a = Number(t) \/ a = Lightarray(t, "result"))
      /\ a = Number(t) => e.is = "scalar"
  BY <1>3, <1>4, <1>5, <1>8, NativeNumbers
<1>10. call.fn \notin Views \cup {"split", "modf"}
  BY <1>9 DEF NativeFunctions, Unary, Binary, Operators, Compares, Bitwise, BinaryMath, Reductions, Views
<1>11. Expects(call) = e  BY <1>5, <1>6, <1>10, FreshAnswer
<1>12. answer' = a  BY <1>4 DEF Return
<1>13. e.is \in {"scalar", "ndarray"}  BY DEF Fresh, Number, Ndarray
<1>14. /\ a.is \in {"scalar", "lightarray"}
       /\ a = Lightarray(t, "result") => IsArray(a)
  BY <1>9 DEF Number, Lightarray, IsArray
<1> HIDE DEF a, e
<1>15. Items(e) = <<e>> /\ Items(a) = <<a>>  BY <1>13, <1>14 DEF Items, IsContainer
<1> QED  BY <1>4, <1>7, <1>9, <1>11, <1>12, <1>14, <1>15 DEF HasRightClass

\* NumPy returns to a frame that converts, or to a program that gave it no lightarray.
LEMMA NumpyRunsIsClassed ==
  ASSUME ListsAndTuples, OperandsGiven, StackOK, Shape, NumpyRuns
  PROVE  Classed'
<1> DEFINE n == Size(stack)
           lower == stack[n - 1]
<1>1. /\ status = "calling" /\ Top.at \in Computing /\ stack' = Rest /\ call' = call
      /\ status' = "returning" /\ answer' = NumpyAnswer(Top)
      /\ Top.at = "implementation" \/ ~Dispatches(Top)
  BY DEF NumpyRuns, Calling, Return, Computing
<1>2. OnTop(call, lower, Top) /\ n > Bottom  BY <1>1, TopOfCall
<1>3. n \in Nat \ {0} /\ Bottom \in Nat \ {0}  BY StackSize
<1>4. Top' = lower  BY <1>1, <1>2, TopPopped
<1>5. call \in Calls /\ HasOperands(call)  BY DEF StackOK, OperandsGiven
<1> HIDE DEF n
<1>6. SUFFICES ASSUME call.out = NoOut, lower.at \notin Counting
               PROVE  HasRightClass(call, answer)'
  BY <1>1, <1>4 DEF Classed
<1>7. lower.at \in CallerFrames \cup {"_array_ufunc: out"}
  <2>1. StandsOn(Top.at, lower.at)  BY <1>2 DEF OnTop
  <2> QED  BY <1>1, <1>6, <2>1 DEF StandsOn, Computing, Entries, Protocol, Forwarding, Counting
<1>8. lower.at # "_array_ufunc: out"
  <2>1. SUFFICES ASSUME lower.at = "_array_ufunc: out"  PROVE FALSE
    OBVIOUS
  <2>2. n - 1 # Bottom
    <3>1. Bottom \in 1..Bottom  BY <1>3
    <3> QED  BY <2>1, <3>1 DEF Shape, CallerFrames
  <2>3. n - 1 \in Bottom + 1..Size(stack)  BY <1>2, <1>3, <2>2 DEF n
  <2>4. OnTop(call, stack[n - 1 - 1], lower)  BY <2>3 DEF Shape
  <2> QED  BY <1>6, <2>1, <2>4 DEF OnTop, Has, Computing
<1>9. Has(call, Top) /\ Top.at = "numpy" /\ call.entry = "numpy" /\ ~Dispatches(Top)
  BY <1>1, <1>2, <1>7, <1>8 DEF OnTop, StandsOn, Computing, CallerFrames, Entries, Protocol, Forwarding
<1>10. answer' = Expects(call)  BY <1>1, <1>5, <1>6, <1>9, DirectAnswer
<1>11. \A k \in DOMAIN Items(Expects(call)) : ~IsArray(Items(Expects(call))[k])
  BY <1>5, <1>6, ExpectedItems DEF NumPys
<1>12. ~IsOwn(call)
  <2>1. SUFFICES ASSUME NEW k \in DOMAIN call.args, NEW v \in Parts(call.args[k]), IsArray(v)
                 PROVE  FALSE
    BY <1>9 DEF IsOwn
  <2>2. Top.fn = call.fn /\ Top.args = call.args  BY <1>9 DEF Has
  <2>3. CASE IsContainer(call.args[k])
    <3>1. call.fn = "concatenate"
      <4>1. ~IsSingle(call.args[k])  BY <2>3 DEF IsSingle, IsContainer
      <4> QED  BY <1>5, <4>1 DEF HasOperands, IsOperand
    <3>2. call.fn \notin Ufuncs
      BY <3>1 DEF Ufuncs, Unary, Binary, Operators, Compares, Bitwise, BinaryMath
    <3> QED  BY <1>9, <2>1, <2>2, <3>2 DEF Dispatches, Relevant
  <2>4. CASE ~IsContainer(call.args[k])
    <3>1. v = call.args[k]  BY <2>4 DEF Parts
    <3> QED  BY <1>9, <2>1, <2>2, <3>1 DEF Dispatches, Relevant
  <2> QED  BY <2>3, <2>4
<1> QED  BY <1>1, <1>10, <1>11, <1>12 DEF HasRightClass

\* Frames that convert give the results their class, others pass them on.
LEMMA ReturnToIsClassed ==
  ASSUME ListsAndTuples, OperandsGiven, WithinReach, StackOK, Shape, Answering, Classed, ReturnTo
  PROVE  Classed'
<1> DEFINE lower == stack[Size(stack) - 1]
<1>1. status = "returning" /\ Top.at \notin CallerFrames \cup {"sort"} /\ stack' = Rest /\ call' = call
      /\ status' = "returning" /\ runs' = runs
  BY DEF ReturnTo
<1>2. Top.at \in Waiting /\ OnTop(call, lower, Top)  BY <1>1, TopOfReturn
<1> HIDE DEF lower
<1>3. call \in Calls /\ HasOperands(call)  BY DEF StackOK, OperandsGiven
<1>4. SUFFICES ASSUME call.out = NoOut  PROVE HasRightClass(call, answer)'
  BY <1>1 DEF Classed
<1>5. Top.at = "invoke" => Top.out = NoOut
  <2>1. Top.at = "invoke" => Has(call, Top) \/ Top.out = NoOut
    BY <1>2 DEF OnTop, Computing
  <2> QED  BY <1>4, <2>1 DEF Has
<1>6. Top.at # "_array_ufunc: out"
  <2>1. Top.at = "_array_ufunc: out" => Has(call, Top) /\ Top.out # NoOut
    BY <1>2 DEF OnTop, Computing
  <2> QED  BY <1>4, <2>1 DEF Has
<1>7. CASE Top.at \in Counting
  <2>1. answer' = from_numpy(answer)
    <3>1. CASE Top.at = "invoke"
      <4>1. answer' = InvokeAnswer(Top, answer)  BY <3>1 DEF ReturnTo, Passing
      <4>2. Top.out.how = "no"  BY <1>5, <3>1 DEF NoOut
      <4> QED  BY <4>1, <4>2 DEF InvokeAnswer
    <3>2. CASE Top.at \in {"getitem: convert", "argsort_descending"}
      BY <3>2 DEF ReturnTo, Passing
    <3> QED  BY <1>7, <3>1, <3>2 DEF Counting
  <2>2. Raw(call, answer)  BY <1>1, <1>4, <1>7 DEF Answering
  <2> DEFINE v == from_numpy(answer)
  <2>3. HasRightClass(call, v)  BY <1>1, <1>3, <1>4, <1>7, <2>2, RightClassConverted
  <2>4. answer' = v  BY <2>1
  <2> HIDE DEF v
  <2> QED  BY <1>1, <2>3, <2>4 DEF HasRightClass
<1>8. CASE Top.at \in Passing
  <2>1. answer' = answer /\ Top.at \notin Counting  BY <1>8 DEF ReturnTo, Passing, Counting
  <2>2. HasRightClass(call, answer)  BY <1>1, <1>4, <2>1 DEF Classed
  <2> QED  BY <1>1, <2>1, <2>2 DEF HasRightClass
<1> QED  BY <1>1, <1>2, <1>6, <1>7, <1>8 DEF Waiting, Counting

LEMMA NextKeepsClassed ==
  ASSUME ListsAndTuples, OperandsGiven, WithinReach, Inv, Counted, Answering, Classed, [Next]_vars
  PROVE  Classed'
<1>1. StackOK /\ Shape  BY DEF Inv
<1>2. CASE Native /\ status' # "calling"  BY <1>1, <1>2, NativeReturnIsClassed
<1>3. CASE Native /\ status' = "calling"  BY <1>1, <1>3, CallsAreClassed
<1>4. CASE Wrapper \/ Method \/ GetItem \/ UfuncProxy \/ ArrayFunction \/ ArrayUfunc
  <2>1. status' = "calling"
    BY <1>4 DEF Wrapper, Method, GetItem, UfuncProxy, ArrayFunction, ArrayUfunc, Calling, Invoke, Enter
  <2> QED  BY <1>1, <1>4, <2>1, CallsAreClassed
<1>5. CASE NumpyDispatches  BY <1>1, <1>5, NumpyDispatchesIsClassed
<1>6. CASE NumpyRuns  BY <1>1, <1>6, NumpyRunsIsClassed
<1>7. CASE ReturnTo  BY <1>1, <1>7, ReturnToIsClassed
<1>8. CASE SortFlip
  <2> DEFINE x == [To("call") EXCEPT !.fn = "flip"]
             y == Frame("invoke", "flip", <<answer>>, NoOut, "bare")
             z == Frame("numpy", "flip", args_to_numpy(<<answer>>), NoOut, "bare")
             t == Three(x, y, z)
  <2>1. IsSequence(t) /\ Size(t) = 3 /\ stack' = Replace(stack, t) /\ t[3] = z /\ status' = "calling"
    BY <1>8, Literals DEF SortFlip, Rest, Shortened, Replace, Three
  <2> HIDE DEF t
  <2>2. Top' = z  BY <1>1, <2>1, LastOf
  <2>3. Top'.at \in Computing  BY <2>2 DEF Frame, Computing
  <2> QED  BY <2>1, <2>3 DEF Classed
<1>9. CASE Finish
  <2>1. /\ stack' = stack /\ call' = call /\ answer' = answer /\ runs' = runs
        /\ status = "returning" /\ status' = "returned"
    BY <1>9 DEF Finish
  <2>2. Top' = Top  BY <2>1 DEF Top
  <2> QED  BY <2>1, <2>2 DEF Classed, HasRightClass
<1>10. CASE UNCHANGED vars
  <2>1. stack' = stack /\ call' = call /\ answer' = answer /\ runs' = runs /\ status' = status  BY <1>10 DEF vars
  <2>2. Top' = Top  BY <2>1 DEF Top
  <2> QED  BY <2>1, <2>2 DEF Classed, HasRightClass
<1> QED  BY <1>2, <1>3, <1>4, <1>5, <1>6, <1>7, <1>8, <1>9, <1>10 DEF Next

\* Whoever computes a call, results of lightarray's dtypes are lightarrays, but
\* NumPy's own results below the __array__ method of a patched package: from
\* each of the entry points the frames in between fit into the search, over
\* any calls with no more helpers than WithinReach allows.
THEOREM ClassesAreRight ==
  ListsAndTuples /\ OperandsGiven /\ WithinReach => (Spec => []ResultsHaveTheRightClass)
<1> SUFFICES ASSUME ListsAndTuples, OperandsGiven, WithinReach
             PROVE  Spec => []ResultsHaveTheRightClass
  OBVIOUS
<1> DEFINE All == Inv /\ Counted /\ Answering /\ Classed
<1>1. Init => All
  <2> SUFFICES ASSUME Init  PROVE All
    OBVIOUS
  <2>1. Inv /\ Counted /\ Answering  BY InitInv, InitCounted, InitAnswering
  <2>2. status = "calling" /\ runs = 0  BY DEF Init
  <2> QED  BY <2>1, <2>2 DEF Classed
<1>2. All /\ [Next]_vars => All'
  BY NextKeepsInv, NextKeepsCounted, NextKeepsAnswering, NextKeepsClassed
<1>3. All => ResultsHaveTheRightClass
  <2> SUFFICES ASSUME Answering, Classed, status = "returned", call.out = NoOut
               PROVE  ResultsHaveTheRightClass
    BY DEF ResultsHaveTheRightClass, Answers
  <2>1. Top.at \in CallerFrames  BY DEF Answering
  <2>2. Top.at \notin Counting  BY <2>1 DEF CallerFrames, Counting
  <2>3. Fits(call, answer) /\ HasRightClass(call, answer)  BY <2>2 DEF Answering, Classed
  <2>4. Expected = Expects(call)  BY DEF Expected, Expects
  <2> QED  BY <2>3, <2>4 DEF ResultsHaveTheRightClass, Answers, Fits, Size, HasRightClass, IsInside, IsOwn, IsArray
<1> QED  BY <1>1, <1>2, <1>3, PTL DEF Spec

=============================================================================
