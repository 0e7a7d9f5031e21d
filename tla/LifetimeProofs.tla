--------------------------- MODULE LifetimeProofs ---------------------------
(***************************************************************************)
(* No pointer of an array, a buffer or a DLPack tensor dangles, and every  *)
(* reference is given back exactly once, for every number of objects and   *)
(* exports.                                                                *)
(*                                                                         *)
(* NoDangling is not inductive: that a view's owner stays alive depends on *)
(* its reference count, and that on who holds references.  The invariant   *)
(* is therefore CountsAreExact, together with what makes the counting      *)
(* right: views hold owners (never views), pointers lead to the memory of  *)
(* what is held, and a tensor is outstanding until it is deleted.          *)
(***************************************************************************)
EXTENDS Lifetime, FiniteSetTheorems, TLAPS

\* Views hold, and point to, owners.
ObjectsOK ==
  \A o \in Obj :
    /\ Unborn(o) => count[o] = 0
    /\ obj[o].kind = "owned" => obj[o].mem = o
    /\ IsView(o) => /\ obj[o].base \in Obj /\ obj[obj[o].base].kind = "owned"
                    /\ obj[o].mem = obj[o].base

\* Exports hold an array and point to its memory.
ExportsOK ==
  \A h \in Export :
    /\ exp[h].kind # "none" => /\ exp[h].of \in Obj /\ ~Unborn(exp[h].of)
                               /\ exp[h].mem = obj[exp[h].of].mem
    /\ exp[h].kind # "tensor" => ~exp[h].capsule /\ exp[h].consumer = "none"

Inv ==
  /\ TypeOK
  /\ ObjectsOK
  /\ ExportsOK
  /\ DeletedOnce
  /\ CountsAreExact

One(b) == IF b THEN 1 ELSE 0

-----------------------------------------------------------------------------
(* Counting. *)

\* The sets that are counted are finite, before and after a step.
LEMMA Counted ==
  /\ \A S \in SUBSET Obj : IsFiniteSet(S) /\ Cardinality(S) \in Nat
  /\ \A S \in SUBSET Export : IsFiniteSet(S) /\ Cardinality(S) \in Nat
  BY FiniteAssumption, FS_Subset, FS_CardinalityType

\* The views and the exports of an array are among those.
LEMMA ViewsAndExports ==
  \A o : /\ ViewsOf(o) \in SUBSET Obj /\ ViewsOf(o)' \in SUBSET Obj
         /\ ExportsOf(o) \in SUBSET Export /\ ExportsOf(o)' \in SUBSET Export
  BY DEF ViewsOf, ExportsOf

\* References that are known to exist keep their object alive.
LEMMA HeldIsLive ==
  ASSUME TypeOK, ObjectsOK, ExportsOK, CountsAreExact
  PROVE  /\ \A o \in Obj : InUse(o) => Live(o)
         /\ \A v \in Obj : IsView(v) /\ Live(v) => Live(obj[v].base)
         /\ \A h \in Export : Outstanding(h) => exp[h].of \in Obj /\ Live(exp[h].of)
<1>1. \A o \in Obj : /\ refs[o] \in Nat /\ count[o] \in Nat
                     /\ Cardinality(ViewsOf(o)) \in Nat
                     /\ Cardinality(ExportsOf(o)) \in Nat
                     /\ count[o] = refs[o] + Cardinality(ViewsOf(o)) + Cardinality(ExportsOf(o))
  BY Counted, ViewsAndExports DEF TypeOK, CountsAreExact
<1>2. ASSUME NEW o \in Obj, InUse(o)  PROVE Live(o)
  BY <1>1, <1>2 DEF InUse, Live
<1>3. ASSUME NEW v \in Obj, IsView(v), Live(v)  PROVE Live(obj[v].base)
  <2>1. obj[v].base \in Obj /\ v \in ViewsOf(obj[v].base)
    BY <1>3 DEF ObjectsOK, ViewsOf
  <2>2. Cardinality(ViewsOf(obj[v].base)) # 0
    BY <2>1, FS_EmptySet, Counted, ViewsAndExports
  <2> QED  BY <1>1, <2>1, <2>2 DEF Live
<1>4. ASSUME NEW h \in Export, Outstanding(h)  PROVE exp[h].of \in Obj /\ Live(exp[h].of)
  <2>1. exp[h].of \in Obj /\ h \in ExportsOf(exp[h].of)
    BY <1>4 DEF ExportsOK, ExportsOf, Outstanding
  <2>2. Cardinality(ExportsOf(exp[h].of)) # 0
    BY <2>1, FS_EmptySet, Counted, ViewsAndExports
  <2> QED  BY <1>1, <2>1, <2>2 DEF Live
<1> QED  BY <1>2, <1>3, <1>4

\* Steps that leave the representation of views and their liveness alone
\* leave the sets of views alone.
LEMMA SameViews ==
  ASSUME \A v \in Obj : /\ IsView(v)' <=> IsView(v)
                        /\ IsView(v) => obj'[v].base = obj[v].base /\ (Live(v)' <=> Live(v))
  PROVE  \A x : ViewsOf(x)' = ViewsOf(x)
  BY DEF ViewsOf

\* An export h that becomes e, and what that does to the number of exports.
LEMMA ExportBecomes ==
  ASSUME TypeOK, NEW h \in Export, NEW e, exp' = [exp EXCEPT ![h] = e]
  PROVE  /\ ~Outstanding(h) /\ Outstanding(h)'
              => \A x \in Obj : Cardinality(ExportsOf(x)') = Cardinality(ExportsOf(x)) + One(x = e.of)
         /\ Outstanding(h) /\ ~Outstanding(h)'
              => \A x \in Obj : Cardinality(ExportsOf(x)') = Cardinality(ExportsOf(x)) - One(x = exp[h].of)
         /\ (Outstanding(h)' <=> Outstanding(h)) /\ e.of = exp[h].of
              => \A x \in Obj : ExportsOf(x)' = ExportsOf(x)
<1>1. exp'[h] = e /\ \A g \in Export : g # h => exp'[g] = exp[g]
  BY DEF TypeOK
<1>2. \A g \in Export : g # h => (Outstanding(g)' <=> Outstanding(g))
  BY <1>1 DEF Outstanding
<1>3. \A x \in Obj, g \in Export : g # h => (g \in ExportsOf(x)' <=> g \in ExportsOf(x))
  BY <1>1, <1>2 DEF ExportsOf
<1>4. \A x \in Obj : /\ h \in ExportsOf(x) <=> Outstanding(h) /\ exp[h].of = x
                     /\ h \in ExportsOf(x)' <=> Outstanding(h)' /\ e.of = x
  BY <1>1 DEF ExportsOf
<1>5. \A x \in Obj : ExportsOf(x) \subseteq Export /\ ExportsOf(x)' \subseteq Export
  BY ViewsAndExports
<1>6. ASSUME ~Outstanding(h), Outstanding(h)', NEW x \in Obj
      PROVE  Cardinality(ExportsOf(x)') = Cardinality(ExportsOf(x)) + One(x = e.of)
  <2>1. CASE x = e.of
    <3>1. ExportsOf(x)' = ExportsOf(x) \cup {h} /\ h \notin ExportsOf(x)
      BY <1>3, <1>4, <1>5, <1>6, <2>1
    <3> QED  BY <2>1, <3>1, FS_AddElement, Counted, ViewsAndExports DEF One
  <2>2. CASE x # e.of
    <3>1. ExportsOf(x)' = ExportsOf(x)
      BY <1>3, <1>4, <1>5, <1>6, <2>2
    <3> QED  BY <2>2, <3>1, Counted, ViewsAndExports DEF One
  <2> QED  BY <2>1, <2>2
<1>7. ASSUME Outstanding(h), ~Outstanding(h)', NEW x \in Obj
      PROVE  Cardinality(ExportsOf(x)') = Cardinality(ExportsOf(x)) - One(x = exp[h].of)
  <2>1. CASE x = exp[h].of
    <3>1. ExportsOf(x)' = ExportsOf(x) \ {h} /\ h \in ExportsOf(x)
      BY <1>3, <1>4, <1>5, <1>7, <2>1
    <3> QED  BY <2>1, <3>1, FS_RemoveElement, Counted, ViewsAndExports DEF One
  <2>2. CASE x # exp[h].of
    <3>1. ExportsOf(x)' = ExportsOf(x)
      BY <1>3, <1>4, <1>5, <1>7, <2>2
    <3> QED  BY <2>2, <3>1, Counted, ViewsAndExports DEF One
  <2> QED  BY <2>1, <2>2
<1>8. ASSUME Outstanding(h)' <=> Outstanding(h), e.of = exp[h].of, NEW x \in Obj
      PROVE  ExportsOf(x)' = ExportsOf(x)
  BY <1>3, <1>4, <1>5, <1>8
<1> QED  BY <1>6, <1>7, <1>8

\* Giving back one reference to o: its count sinks by one, and when that ends
\* a view, the count of the owner and the number of the owner's views sink
\* together.
LEMMA DecrefFacts ==
  ASSUME Inv, NEW o \in Obj, Live(o), obj' = obj, count' = Decref(count, o)
  PROVE  /\ count' \in [Obj -> Nat]
         /\ \A x \in Obj : count[x] = 0 => count'[x] = 0
         /\ \A x \in Obj : count'[x] - Cardinality(ViewsOf(x)')
                           = count[x] - Cardinality(ViewsOf(x)) - One(x = o)
<1> DEFINE b == obj[o].base
<1>0. /\ count \in [Obj -> Nat] /\ count[o] \in Nat \ {0}
      /\ \A x \in Obj : /\ Cardinality(ViewsOf(x)) \in Nat
                        /\ Cardinality(ViewsOf(x)') \in Nat
  BY Counted, ViewsAndExports DEF Inv, TypeOK, Live
<1>1. \A v \in Obj : IsView(v)' <=> IsView(v)
  BY DEF IsView
<1>2. CASE count[o] = 1 /\ IsView(o)
  <2>1. b \in Obj /\ ~IsView(b) /\ b # o
    BY <1>2 DEF Inv, ObjectsOK, IsView
  <2>2. count[b] \in Nat \ {0}
    BY <1>0, <1>2, <2>1, HeldIsLive DEF Inv, Live
  <2>3. count' = [count EXCEPT ![o] = 0, ![b] = @ - 1]
    BY <1>2 DEF Decref
  <2>4. /\ count'[o] = 0 /\ count'[b] = count[b] - 1
        /\ \A x \in Obj \ {o, b} : count'[x] = count[x]
    BY <1>0, <2>1, <2>3
  <2>5. o \in ViewsOf(b) /\ ViewsOf(b)' = ViewsOf(b) \ {o}
    BY <1>1, <1>2, <2>1, <2>4 DEF ViewsOf, Live
  <2>6. \A x \in Obj \ {b} : ViewsOf(x)' = ViewsOf(x)
    BY <1>1, <1>2, <2>1, <2>4 DEF ViewsOf, Live
  <2>7. Cardinality(ViewsOf(b)') = Cardinality(ViewsOf(b)) - 1
    BY <2>5, FS_RemoveElement, Counted, ViewsAndExports
  <2>8. count' \in [Obj -> Nat]
    BY <1>0, <2>1, <2>2, <2>3
  <2>9. \A x \in Obj : count[x] = 0 => count'[x] = 0
    BY <1>0, <2>1, <2>2, <2>4
  <2>10. ASSUME NEW x \in Obj
         PROVE  count'[x] - Cardinality(ViewsOf(x)')
                = count[x] - Cardinality(ViewsOf(x)) - One(x = o)
    <3> USE DEF One
    <3>1. CASE x = o
      BY <1>0, <1>2, <2>1, <2>4, <2>6, <3>1
    <3>2. CASE x = b
      <4>1. Cardinality(ViewsOf(x)) \in Nat /\ Cardinality(ViewsOf(x)') = Cardinality(ViewsOf(x)) - 1
        BY <1>0, <2>7, <3>2
      <4>2. count'[x] = count[x] - 1 /\ count[x] \in Nat /\ x # o
        BY <2>1, <2>2, <2>4, <3>2
      <4> QED  BY <4>1, <4>2
    <3>3. CASE x \notin {o, b}
      <4>1. Cardinality(ViewsOf(x)) \in Nat /\ Cardinality(ViewsOf(x)') = Cardinality(ViewsOf(x))
        BY <1>0, <2>6, <3>3
      <4>2. count'[x] = count[x] /\ count[x] \in Nat /\ x # o
        BY <1>0, <2>4, <3>3
      <4> QED  BY <4>1, <4>2
    <3> QED  BY <3>1, <3>2, <3>3
  <2> QED  BY <2>8, <2>9, <2>10
<1>3. CASE ~(count[o] = 1 /\ IsView(o))
  <2>1. count' = [count EXCEPT ![o] = @ - 1]
    BY <1>3 DEF Decref
  <2>2. \A v \in Obj : IsView(v) => (Live(v)' <=> Live(v))
    BY <1>0, <1>3, <2>1 DEF Live
  <2>3. \A x : ViewsOf(x)' = ViewsOf(x)
    BY <1>1, <2>2, SameViews
  <2>4. count' \in [Obj -> Nat]
    BY <1>0, <2>1
  <2>5. \A x \in Obj : count[x] = 0 => count'[x] = 0
    BY <1>0, <2>1
  <2>6. ASSUME NEW x \in Obj
        PROVE  count'[x] - Cardinality(ViewsOf(x)')
               = count[x] - Cardinality(ViewsOf(x)) - One(x = o)
    <3>1. Cardinality(ViewsOf(x)) \in Nat /\ Cardinality(ViewsOf(x)') = Cardinality(ViewsOf(x))
      BY <1>0, <2>3
    <3>2. count'[x] = count[x] - One(x = o) /\ count[x] \in Nat /\ One(x = o) \in Nat
      BY <1>0, <2>1 DEF One
    <3> QED  BY <3>1, <3>2
  <2> QED  BY <2>4, <2>5, <2>6
<1> QED  BY <1>2, <1>3

\* Taking one more reference to a live array ends and begins no view.
LEMMA IncrefFacts ==
  ASSUME Inv, NEW o \in Obj, Live(o), count' = Incref(count, o),
         \A v \in Obj : (IsView(v)' <=> IsView(v)) /\ (IsView(v) => obj'[v].base = obj[v].base)
  PROVE  /\ count' \in [Obj -> Nat]
         /\ \A x \in Obj : count[x] = 0 => count'[x] = 0
         /\ \A x \in Obj : /\ count'[x] = count[x] + One(x = o)
                           /\ ViewsOf(x)' = ViewsOf(x)
<1>1. count \in [Obj -> Nat] /\ count[o] \in Nat \ {0} /\ count' = [count EXCEPT ![o] = @ + 1]
  BY DEF Inv, TypeOK, Incref, Live
<1>2. \A v \in Obj : Live(v)' <=> Live(v)
  BY <1>1 DEF Live
<1>3. \A x : ViewsOf(x)' = ViewsOf(x)
  BY <1>2, SameViews
<1>4. \A x \in Obj : count'[x] = count[x] + One(x = o)
  BY <1>1 DEF One
<1>5. count' \in [Obj -> Nat] /\ \A x \in Obj : count[x] = 0 => count'[x] = 0
  BY <1>1
<1> QED  BY <1>3, <1>4, <1>5

\* The numbers in CountsAreExact are natural numbers.
LEMMA Numbers ==
  ASSUME TypeOK, NEW x \in Obj
  PROVE  /\ count[x] \in Nat /\ refs[x] \in Nat
         /\ Cardinality(ViewsOf(x)) \in Nat /\ Cardinality(ViewsOf(x)') \in Nat
         /\ Cardinality(ExportsOf(x)) \in Nat /\ Cardinality(ExportsOf(x)') \in Nat
  BY Counted, ViewsAndExports DEF TypeOK

-----------------------------------------------------------------------------
(* The operations of the program. *)

Records(e) ==
  e \in [kind : {"none", "buffer", "tensor"}, of : Obj \cup {None},
         mem : Obj \cup {None}, shape : Shape \cup {None},
         capsule : BOOLEAN, consumer : {"none", "using", "done"}, deleted : Nat]

\* Steps that change neither the representation of arrays nor exports.
LEMMA SteadyKeeps ==
  ASSUME Inv, obj' = obj, exp' = exp, count' \in [Obj -> Nat], refs' \in [Obj -> Nat],
         \A x \in Obj : count[x] = 0 => count'[x] = 0
  PROVE  /\ TypeOK' /\ ObjectsOK' /\ ExportsOK' /\ DeletedOnce'
         /\ \A x \in Obj : ExportsOf(x)' = ExportsOf(x)
<1>1. TypeOK'
  BY DEF Inv, TypeOK
<1>2. ObjectsOK'
  BY DEF Inv, ObjectsOK, Unborn, IsView
<1>3. ExportsOK'
  BY DEF Inv, ExportsOK, Unborn
<1>4. \A h : Outstanding(h)' <=> Outstanding(h)
  BY DEF Outstanding
<1>5. DeletedOnce'
  BY <1>4 DEF Inv, DeletedOnce
<1>6. \A x \in Obj : ExportsOf(x)' = ExportsOf(x)
  BY <1>4 DEF ExportsOf
<1> QED  BY <1>1, <1>2, <1>3, <1>5, <1>6

\* A new object v, owning its memory or a view into that of an owner b.
LEMMA NewObjectKeeps ==
  ASSUME Inv, NEW v \in Obj, Unborn(v),
         NEW r \in [kind : {"owned", "window", "strided"}, base : Obj \cup {None},
                    mem : Obj, shape : Shape \cup {None}],
         obj' = [obj EXCEPT ![v] = r],
         \/ r.kind = "owned" /\ r.mem = v
         \/ /\ r.kind # "owned" /\ r.base \in Obj
            /\ obj[r.base].kind = "owned" /\ r.mem = r.base,
         \A x \in Obj : count[x] = 0 /\ x # v => count'[x] = 0
  PROVE  /\ obj' \in [Obj -> [kind : {"unborn", "owned", "window", "strided"},
                              base : Obj \cup {None}, mem : Obj \cup {None},
                              shape : Shape \cup {None}]]
         /\ ObjectsOK'
         /\ exp' = exp => ExportsOK'
<1>1. obj'[v] = r /\ \A x \in Obj : x # v => obj'[x] = obj[x]
  BY DEF Inv, TypeOK
<1>2. obj' \in [Obj -> [kind : {"unborn", "owned", "window", "strided"},
                        base : Obj \cup {None}, mem : Obj \cup {None},
                        shape : Shape \cup {None}]]
  BY DEF Inv, TypeOK
<1>3. \A x \in Obj : obj[x].kind = "owned" => x # v
  BY DEF Unborn
<1>4. ASSUME NEW o \in Obj
      PROVE  /\ Unborn(o)' => count'[o] = 0
             /\ obj'[o].kind = "owned" => obj'[o].mem = o
             /\ IsView(o)' => /\ obj'[o].base \in Obj /\ obj'[obj'[o].base].kind = "owned"
                              /\ obj'[o].mem = obj'[o].base
  <2>1. CASE o = v
    BY <1>1, <1>3, <2>1 DEF Unborn, IsView
  <2>2. CASE o # v
    <3>1. obj'[o] = obj[o]
      BY <1>1, <2>2
    <3>2. Unborn(o)' => count'[o] = 0
      BY <2>2, <3>1 DEF Inv, ObjectsOK, Unborn
    <3>3. IsView(o)' => /\ obj[o].base \in Obj /\ obj[obj[o].base].kind = "owned"
                        /\ obj[o].mem = obj[o].base
      BY <3>1 DEF Inv, ObjectsOK, IsView
    <3>4. obj[o].kind = "owned" => obj[o].mem = o
      BY DEF Inv, ObjectsOK
    <3> QED  BY <1>1, <1>3, <3>1, <3>2, <3>3, <3>4
  <2> QED  BY <2>1, <2>2
<1>5. ObjectsOK'
  BY <1>4 DEF ObjectsOK
<1>6. ASSUME exp' = exp  PROVE ExportsOK'
  BY <1>1, <1>6 DEF Inv, ExportsOK, Unborn
<1> QED  BY <1>2, <1>5, <1>6

\* A fresh array of its own adds no view.
LEMMA NewArrayKeeps ==
  ASSUME Inv, NEW o \in Obj, NEW s \in Shape, NewArray(o, s)
  PROVE  Inv'
<1> DEFINE r == [kind |-> "owned", base |-> None, mem |-> o, shape |-> s]
<1>0. /\ Unborn(o) /\ obj' = [obj EXCEPT ![o] = r] /\ count' = [count EXCEPT ![o] = @ + 1]
      /\ refs' = [refs EXCEPT ![o] = 1] /\ exp' = exp
  BY DEF NewArray, Incref
<1>1. count[o] = 0 /\ count \in [Obj -> Nat] /\ refs \in [Obj -> Nat]
  BY <1>0 DEF Inv, ObjectsOK, TypeOK
<1>2. count'[o] = 1 /\ refs'[o] = 1
      /\ \A x \in Obj : x # o => count'[x] = count[x] /\ refs'[x] = refs[x]
  BY <1>0, <1>1
<1>3. /\ obj' \in [Obj -> [kind : {"unborn", "owned", "window", "strided"},
                           base : Obj \cup {None}, mem : Obj \cup {None},
                           shape : Shape \cup {None}]]
      /\ ObjectsOK' /\ ExportsOK'
  BY <1>0, <1>2, NewObjectKeeps
<1>4. TypeOK'
  BY <1>0, <1>1, <1>3 DEF Inv, TypeOK
<1>5. \A h : Outstanding(h)' <=> Outstanding(h)
  BY <1>0 DEF Outstanding
<1>6. DeletedOnce'
  BY <1>0, <1>5 DEF Inv, DeletedOnce
<1>7. \A x : ExportsOf(x)' = ExportsOf(x)
  BY <1>0, <1>5 DEF ExportsOf
<1>8. \A x : ViewsOf(x)' = ViewsOf(x)
  <2>1. obj'[o].kind = "owned" /\ obj[o].kind = "unborn"
    BY <1>0 DEF Unborn, Inv, TypeOK
  <2>2. \A v \in Obj : v # o => obj'[v] = obj[v]
    BY <1>0 DEF Inv, TypeOK
  <2> QED  BY <1>2, <2>1, <2>2, SameViews DEF IsView, Live
<1>9. ASSUME NEW x \in Obj
      PROVE  count'[x] = refs'[x] + Cardinality(ViewsOf(x)') + Cardinality(ExportsOf(x)')
  <2>1. count[x] = refs[x] + Cardinality(ViewsOf(x)) + Cardinality(ExportsOf(x))
    BY DEF Inv, CountsAreExact
  <2>2. CASE x = o
    <3>1. Cardinality(ViewsOf(x)) = 0 /\ Cardinality(ExportsOf(x)) = 0
      BY <1>1, <2>1, <2>2, Numbers DEF Inv
    <3> QED  BY <1>2, <1>7, <1>8, <2>2, <3>1
  <2>3. CASE x # o
    BY <1>2, <1>7, <1>8, <2>1, <2>3
  <2> QED  BY <2>2, <2>3
<1> QED  BY <1>3, <1>4, <1>6, <1>9 DEF Inv, CountsAreExact

\* A view adds itself to the views of the owner, and a reference.
LEMMA MakeViewKeeps ==
  ASSUME Inv, NEW v \in Obj, NEW o \in Obj, Live(o),
         NEW kind \in {"window", "strided"}, NEW s \in Shape, MakeView(v, o, kind, s)
  PROVE  Inv'
<1>b. BaseOf(o) \in Obj
  BY DEF Inv, ObjectsOK, BaseOf
<1> PICK b \in Obj : b = BaseOf(o)
  BY <1>b
<1> DEFINE r == [kind |-> kind, base |-> b, mem |-> obj[o].mem, shape |-> s]
<1>0. /\ Unborn(v) /\ obj' = [obj EXCEPT ![v] = r] /\ count' = Incref(Incref(count, b), v)
      /\ refs' = [refs EXCEPT ![v] = 1] /\ exp' = exp
  BY DEF MakeView
<1>1. count[v] = 0 /\ count \in [Obj -> Nat] /\ refs \in [Obj -> Nat]
  BY <1>0 DEF Inv, ObjectsOK, TypeOK
<1>2. b \in Obj /\ obj[b].kind = "owned" /\ obj[o].mem = b /\ Live(b) /\ b # v
  <2> USE DEF BaseOf
  <2>1. ~Unborn(o)
    BY DEF Inv, ObjectsOK, Live
  <2>2. CASE IsView(o)
    BY <1>0, <2>2, HeldIsLive DEF Inv, ObjectsOK, Unborn
  <2>3. CASE ~IsView(o)
    <3>1. obj[o].kind = "owned"
      BY <2>1, <2>3 DEF Inv, TypeOK, Unborn, IsView
    <3> QED  BY <1>0, <2>3, <3>1 DEF Inv, ObjectsOK, Unborn
  <2> QED  BY <2>2, <2>3
<1>3. /\ count'[v] = 1 /\ count'[b] = count[b] + 1 /\ refs'[v] = 1
      /\ \A x \in Obj : x # v => refs'[x] = refs[x]
      /\ \A x \in Obj \ {v, b} : count'[x] = count[x]
      /\ count' \in [Obj -> Nat] /\ refs' \in [Obj -> Nat]
  BY <1>0, <1>1, <1>2 DEF Incref
<1>4. r \in [kind : {"owned", "window", "strided"}, base : Obj \cup {None},
             mem : Obj, shape : Shape \cup {None}]
  BY <1>2
<1>5. /\ obj' \in [Obj -> [kind : {"unborn", "owned", "window", "strided"},
                           base : Obj \cup {None}, mem : Obj \cup {None},
                           shape : Shape \cup {None}]]
      /\ ObjectsOK' /\ ExportsOK'
  <2>1. \A x \in Obj : count[x] = 0 /\ x # v => count'[x] = 0
    BY <1>2, <1>3 DEF Live
  <2>2. r.kind # "owned" /\ r.base = b /\ r.mem = b
    BY <1>2
  <2> HIDE DEF r
  <2> QED  BY <1>0, <1>2, <1>4, <2>1, <2>2, NewObjectKeeps
<1>6. TypeOK'
  BY <1>0, <1>3, <1>5 DEF Inv, TypeOK
<1>7. \A h : Outstanding(h)' <=> Outstanding(h)
  BY <1>0 DEF Outstanding
<1>8. DeletedOnce'
  BY <1>0, <1>7 DEF Inv, DeletedOnce
<1>9. \A x : ExportsOf(x)' = ExportsOf(x)
  BY <1>0, <1>7 DEF ExportsOf
<1>10. /\ v \notin ViewsOf(b) /\ ViewsOf(b)' = ViewsOf(b) \cup {v}
       /\ \A x \in Obj \ {b} : ViewsOf(x)' = ViewsOf(x)
  <2>1. obj'[v].kind = kind /\ obj'[v].base = b /\ obj[v].kind = "unborn"
    BY <1>0 DEF Unborn, Inv, TypeOK
  <2>2. \A x \in Obj : x # v => obj'[x] = obj[x]
    BY <1>0 DEF Inv, TypeOK
  <2>3. \A x \in Obj : x # v => (Live(x)' <=> Live(x))
    BY <1>1, <1>2, <1>3 DEF Live
  <2>4. Live(v)'
    BY <1>3 DEF Live
  <2>5. ASSUME NEW x \in Obj, NEW y \in Obj, y # v
        PROVE  y \in ViewsOf(x)' <=> y \in ViewsOf(x)
    BY <2>2, <2>3, <2>5 DEF ViewsOf, IsView
  <2>6. \A x \in Obj : v \notin ViewsOf(x) /\ (v \in ViewsOf(x)' <=> x = b)
    BY <2>1, <2>4 DEF ViewsOf, IsView
  <2>7. \A x \in Obj : ViewsOf(x) \subseteq Obj /\ ViewsOf(x)' \subseteq Obj
    BY ViewsAndExports
  <2> QED  BY <2>5, <2>6, <2>7
<1>11. Cardinality(ViewsOf(b)') = Cardinality(ViewsOf(b)) + 1
  BY <1>10, FS_AddElement, Counted, ViewsAndExports
<1>12. ASSUME NEW x \in Obj
       PROVE  count'[x] = refs'[x] + Cardinality(ViewsOf(x)') + Cardinality(ExportsOf(x)')
  <2>1. count[x] = refs[x] + Cardinality(ViewsOf(x)) + Cardinality(ExportsOf(x))
    BY DEF Inv, CountsAreExact
  <2>2. /\ refs[x] \in Nat /\ count[x] \in Nat
        /\ Cardinality(ViewsOf(x)) \in Nat /\ Cardinality(ExportsOf(x)) \in Nat
    BY Numbers DEF Inv
  <2>3. CASE x = v
    <3>1. Cardinality(ViewsOf(x)) = 0 /\ Cardinality(ExportsOf(x)) = 0
      BY <1>1, <2>1, <2>2, <2>3
    <3>2. ViewsOf(x)' = ViewsOf(x)
      BY <1>2, <1>10, <2>3
    <3> QED  BY <1>3, <1>9, <2>3, <3>1, <3>2
  <2>4. CASE x = b
    BY <1>2, <1>3, <1>9, <1>11, <2>1, <2>2, <2>4
  <2>5. CASE x \notin {v, b}
    BY <1>3, <1>9, <1>10, <2>1, <2>2, <2>5
  <2> QED  BY <2>3, <2>4, <2>5
<1> QED  BY <1>5, <1>6, <1>8, <1>12 DEF Inv, CountsAreExact

\* A reference taken by the program,
LEMMA HoldKeeps ==
  ASSUME Inv, NEW o \in Obj, Hold(o)
  PROVE  Inv'
<1>1. Live(o)
  <2>1. ASSUME NEW a \in Obj, InUse(a), o \in {a, BaseOf(a)}  PROVE Live(o)
    BY <2>1, HeldIsLive DEF Inv, BaseOf
  <2>2. ASSUME NEW h \in Export, exp[h].kind = "buffer", o = exp[h].of  PROVE Live(o)
    BY <2>2, HeldIsLive DEF Inv, Outstanding
  <2> QED  BY <2>1, <2>2 DEF Hold
<1>2. /\ count' = Incref(count, o) /\ refs' = [refs EXCEPT ![o] = @ + 1]
      /\ obj' = obj /\ exp' = exp
  BY DEF Hold
<1>3. /\ count' \in [Obj -> Nat]
      /\ \A x \in Obj : count[x] = 0 => count'[x] = 0
      /\ \A x \in Obj : count'[x] = count[x] + One(x = o) /\ ViewsOf(x)' = ViewsOf(x)
  BY <1>1, <1>2, IncrefFacts DEF IsView
<1>4. refs' \in [Obj -> Nat] /\ \A x \in Obj : refs'[x] = refs[x] + One(x = o)
  BY <1>2 DEF Inv, TypeOK, One
<1>5. /\ TypeOK' /\ ObjectsOK' /\ ExportsOK' /\ DeletedOnce'
      /\ \A x \in Obj : ExportsOf(x)' = ExportsOf(x)
  BY <1>2, <1>3, <1>4, SteadyKeeps
<1>6. CountsAreExact'
  BY <1>3, <1>4, <1>5, Numbers DEF Inv, CountsAreExact, One
<1> QED  BY <1>5, <1>6 DEF Inv

\* and given back.
LEMMA ForgetKeeps ==
  ASSUME Inv, NEW o \in Obj, Forget(o)
  PROVE  Inv'
<1>1. Live(o) /\ refs \in [Obj -> Nat] /\ refs[o] > 0
  BY HeldIsLive DEF Inv, Forget, InUse, TypeOK
<1>2. /\ count' = Decref(count, o) /\ refs' = [refs EXCEPT ![o] = @ - 1]
      /\ obj' = obj /\ exp' = exp
  BY DEF Forget
<1>3. /\ count' \in [Obj -> Nat]
      /\ \A x \in Obj : count[x] = 0 => count'[x] = 0
      /\ \A x \in Obj : count'[x] - Cardinality(ViewsOf(x)')
                        = count[x] - Cardinality(ViewsOf(x)) - One(x = o)
  BY <1>1, <1>2, DecrefFacts
<1>4. refs' \in [Obj -> Nat] /\ \A x \in Obj : refs'[x] = refs[x] - One(x = o)
  BY <1>1, <1>2 DEF One
<1>5. /\ TypeOK' /\ ObjectsOK' /\ ExportsOK' /\ DeletedOnce'
      /\ \A x \in Obj : ExportsOf(x)' = ExportsOf(x)
  BY <1>2, <1>3, <1>4, SteadyKeeps
<1>6. CountsAreExact'
  BY <1>3, <1>4, <1>5, Numbers DEF Inv, CountsAreExact, One
<1> QED  BY <1>5, <1>6 DEF Inv

\* Reshaping in place touches nothing that is counted.
LEMMA SetShapeKeeps ==
  ASSUME Inv, NEW o \in Obj, NEW s \in Shape, SetShape(o, s)
  PROVE  Inv'
<1>1. obj' = [obj EXCEPT ![o].shape = s] /\ UNCHANGED <<count, refs, exp>>
  BY DEF SetShape
<1>2. \A x \in Obj : /\ obj'[x].kind = obj[x].kind
                     /\ obj'[x].base = obj[x].base /\ obj'[x].mem = obj[x].mem
  BY <1>1 DEF Inv, TypeOK
<1>3. TypeOK'
  BY <1>1 DEF Inv, TypeOK
<1>4. ObjectsOK'
  BY <1>1, <1>2 DEF Inv, ObjectsOK, Unborn, IsView
<1>5. ExportsOK'
  BY <1>1, <1>2 DEF Inv, ExportsOK, Unborn
<1>6. \A h : Outstanding(h)' <=> Outstanding(h)
  BY <1>1 DEF Outstanding
<1>7. DeletedOnce'
  BY <1>1, <1>6 DEF Inv, DeletedOnce
<1>8. \A x : ViewsOf(x)' = ViewsOf(x)
  BY <1>1, <1>2, SameViews DEF IsView, Live
<1>9. \A x : ExportsOf(x)' = ExportsOf(x)
  BY <1>1, <1>6 DEF ExportsOf
<1>10. CountsAreExact'
  BY <1>1, <1>8, <1>9 DEF Inv, CountsAreExact
<1> QED  BY <1>3, <1>4, <1>5, <1>7, <1>10 DEF Inv

-----------------------------------------------------------------------------
(* Exports. *)

\* What makes an entry e for the export h admissible.
LEMMA EntryKeeps ==
  ASSUME Inv, obj' = obj, refs' = refs, count' \in [Obj -> Nat],
         \A x \in Obj : count[x] = 0 => count'[x] = 0,
         NEW h \in Export, NEW e, Records(e), exp' = [exp EXCEPT ![h] = e],
         e.kind # "none" => e.of \in Obj /\ ~Unborn(e.of) /\ e.mem = obj[e.of].mem,
         e.kind # "tensor" => ~e.capsule /\ e.consumer = "none",
         e.kind = "tensor" => e.deleted = IF Outstanding(h)' THEN 0 ELSE 1
  PROVE  TypeOK' /\ ObjectsOK' /\ ExportsOK' /\ DeletedOnce'
<1>1. exp'[h] = e /\ \A g \in Export : g # h => exp'[g] = exp[g]
  BY DEF Inv, TypeOK
<1>2. TypeOK'
  BY DEF Inv, TypeOK, Records
<1>3. ObjectsOK'
  BY DEF Inv, ObjectsOK, Unborn, IsView
<1>4. ExportsOK'
  BY <1>1 DEF Inv, ExportsOK, Unborn
<1>5. DeletedOnce'
  <2>1. \A g \in Export : g # h => (Outstanding(g)' <=> Outstanding(g))
    BY <1>1 DEF Outstanding
  <2>2. \A g \in Export : g # h /\ exp'[g].kind = "tensor"
          => exp'[g].deleted = IF Outstanding(g)' THEN 0 ELSE 1
    BY <1>1, <2>1 DEF Inv, DeletedOnce
  <2> QED  BY <1>1, <2>2 DEF DeletedOnce
<1> QED  BY <1>2, <1>3, <1>4, <1>5

\* A buffer or a tensor handed out holds one more reference.
LEMMA HandOutKeeps ==
  ASSUME Inv, NEW h \in Export, exp[h].kind = "none", NEW o \in Obj, Live(o),
         NEW e, Records(e), e.of = o, e.mem = obj[o].mem, e.consumer = "none", e.deleted = 0,
         \/ e.kind = "buffer" /\ ~e.capsule
         \/ e.kind = "tensor" /\ e.capsule,
         exp' = [exp EXCEPT ![h] = e], count' = Incref(count, o), UNCHANGED <<obj, refs>>
  PROVE  Inv'
<1>1. /\ count' \in [Obj -> Nat]
      /\ \A x \in Obj : count[x] = 0 => count'[x] = 0
      /\ \A x \in Obj : count'[x] = count[x] + One(x = o) /\ ViewsOf(x)' = ViewsOf(x)
  BY IncrefFacts DEF IsView
<1>2. ~Outstanding(h)
  BY DEF Inv, ExportsOK, Outstanding
<1>3. Outstanding(h)'
  BY DEF Inv, TypeOK, Outstanding
<1>4. ~Unborn(o)
  BY DEF Inv, ObjectsOK, Live
<1>5. TypeOK' /\ ObjectsOK' /\ ExportsOK' /\ DeletedOnce'
  BY <1>1, <1>3, <1>4, EntryKeeps
<1>6. \A x \in Obj : Cardinality(ExportsOf(x)') = Cardinality(ExportsOf(x)) + One(x = o)
  BY <1>2, <1>3, ExportBecomes DEF Inv
<1>7. CountsAreExact'
  BY <1>1, <1>6, Numbers DEF Inv, CountsAreExact, One
<1> QED  BY <1>5, <1>7 DEF Inv

\* An export that ends, as a buffer that is released or as a tensor that is
\* deleted, gives its reference back.
LEMMA EndKeeps ==
  ASSUME Inv, NEW h \in Export, Outstanding(h),
         NEW e, Records(e), exp' = [exp EXCEPT ![h] = e],
         \/ e = NoExport
         \/ /\ e.kind = "tensor" /\ e.of = exp[h].of /\ e.mem = exp[h].mem /\ e.deleted = 1
            /\ ~(e.capsule /\ e.consumer = "none") /\ e.consumer # "using",
         exp[h].kind # "none",
         count' = Decref(count, exp[h].of), UNCHANGED <<obj, refs>>
  PROVE  Inv'
<1>1. exp[h].of \in Obj /\ Live(exp[h].of) /\ ~Unborn(exp[h].of)
      /\ exp[h].mem = obj[exp[h].of].mem
  BY HeldIsLive DEF Inv, ExportsOK
<1>2. /\ count' \in [Obj -> Nat]
      /\ \A x \in Obj : count[x] = 0 => count'[x] = 0
      /\ \A x \in Obj : count'[x] - Cardinality(ViewsOf(x)')
                        = count[x] - Cardinality(ViewsOf(x)) - One(x = exp[h].of)
  BY <1>1, DecrefFacts
<1>3. ~Outstanding(h)'
  BY DEF Inv, TypeOK, Outstanding, NoExport
<1>4. TypeOK' /\ ObjectsOK' /\ ExportsOK' /\ DeletedOnce'
  <2>1. e.kind # "none" => e.of \in Obj /\ ~Unborn(e.of) /\ e.mem = obj[e.of].mem
    BY <1>1 DEF NoExport
  <2>2. e.kind # "tensor" => ~e.capsule /\ e.consumer = "none"
    BY DEF NoExport
  <2>3. e.kind = "tensor" => e.deleted = IF Outstanding(h)' THEN 0 ELSE 1
    BY <1>3 DEF NoExport
  <2> QED  BY <1>2, <2>1, <2>2, <2>3, EntryKeeps
<1>5. \A x \in Obj : Cardinality(ExportsOf(x)') = Cardinality(ExportsOf(x)) - One(x = exp[h].of)
  BY <1>3, ExportBecomes DEF Inv
<1>6. ASSUME NEW x \in Obj
      PROVE  count'[x] = refs'[x] + Cardinality(ViewsOf(x)') + Cardinality(ExportsOf(x)')
  <2>1. /\ count[x] \in Nat /\ refs[x] \in Nat /\ count'[x] \in Nat
        /\ Cardinality(ViewsOf(x)) \in Nat /\ Cardinality(ViewsOf(x)') \in Nat
        /\ Cardinality(ExportsOf(x)) \in Nat /\ One(x = exp[h].of) \in Nat
    BY <1>2, Numbers DEF Inv, One
  <2>2. count[x] = refs[x] + Cardinality(ViewsOf(x)) + Cardinality(ExportsOf(x))
    BY DEF Inv, CountsAreExact
  <2> QED  BY <1>2, <1>5, <2>1, <2>2
<1> QED  BY <1>4, <1>6 DEF Inv, CountsAreExact

\* A capsule changes hands, or goes after its consumer has taken over.
LEMMA PassOnKeeps ==
  ASSUME Inv, NEW h \in Export, exp[h].kind = "tensor",
         NEW e, Records(e), exp' = [exp EXCEPT ![h] = e],
         e.kind = "tensor", e.of = exp[h].of, e.mem = exp[h].mem, e.deleted = exp[h].deleted,
         Outstanding(h)' <=> Outstanding(h), UNCHANGED <<obj, count, refs>>
  PROVE  Inv'
<1>1. TypeOK' /\ ObjectsOK' /\ ExportsOK' /\ DeletedOnce'
  <2>1. e.of \in Obj /\ ~Unborn(e.of) /\ e.mem = obj[e.of].mem
    BY DEF Inv, ExportsOK
  <2>2. e.deleted = IF Outstanding(h)' THEN 0 ELSE 1
    BY DEF Inv, DeletedOnce
  <2>3. count' \in [Obj -> Nat] /\ \A x \in Obj : count[x] = 0 => count'[x] = 0
    BY DEF Inv, TypeOK
  <2> QED  BY <2>1, <2>2, <2>3, EntryKeeps
<1>2. \A x \in Obj : ExportsOf(x)' = ExportsOf(x)
  BY ExportBecomes DEF Inv
<1>3. \A x \in Obj : ViewsOf(x)' = ViewsOf(x)
  BY SameViews DEF IsView, Live
<1>4. CountsAreExact'
  BY <1>2, <1>3 DEF Inv, CountsAreExact
<1> QED  BY <1>1, <1>4 DEF Inv

\* The consumers of the buffer protocol.
LEMMA BuffersKeep ==
  ASSUME Inv, NEW h \in Export,
         (\E o \in Obj : GetBuffer(h, o)) \/ ReleaseBuffer(h)
  PROVE  Inv'
<1>1. ASSUME NEW o \in Obj, GetBuffer(h, o)  PROVE Inv'
  <2> DEFINE e == [NoExport EXCEPT !.kind = "buffer", !.of = o,
                                   !.mem = obj[o].mem, !.shape = obj[o].shape]
  <2>1. /\ Records(e) /\ e.kind = "buffer" /\ e.of = o /\ e.mem = obj[o].mem
        /\ e.consumer = "none" /\ e.deleted = 0 /\ ~e.capsule
    BY DEF Inv, TypeOK, Records, NoExport
  <2>2. /\ exp[h].kind = "none" /\ exp' = [exp EXCEPT ![h] = e]
        /\ count' = Incref(count, o) /\ UNCHANGED <<obj, refs>>
    BY <1>1 DEF GetBuffer
  <2>3. Live(o)
    BY <1>1, HeldIsLive DEF GetBuffer, Inv
  <2> HIDE DEF e
  <2> QED  BY <2>1, <2>2, <2>3, HandOutKeeps
<1>2. CASE ReleaseBuffer(h)
  <2>1. /\ exp[h].kind = "buffer" /\ exp' = [exp EXCEPT ![h] = NoExport]
        /\ count' = Decref(count, exp[h].of) /\ UNCHANGED <<obj, refs>>
    BY <1>2 DEF ReleaseBuffer
  <2>2. Outstanding(h) /\ Records(NoExport)
    BY <2>1 DEF Outstanding, Records, NoExport
  <2> QED  BY <2>1, <2>2, EndKeeps
<1> QED  BY <1>1, <1>2

\* __dlpack__ on the array itself.
LEMMA DlpackKeeps ==
  ASSUME Inv, NEW h \in Export, NEW o \in Obj, Dlpack(h, o)
  PROVE  Inv'
<1> DEFINE e == Tensor(o, obj[o].mem, obj[o].shape)
<1>1. /\ Records(e) /\ e.kind = "tensor" /\ e.of = o /\ e.mem = obj[o].mem
      /\ e.consumer = "none" /\ e.deleted = 0 /\ e.capsule
  BY DEF Inv, TypeOK, Records, NoExport, Tensor
<1>2. /\ exp[h].kind = "none" /\ exp' = [exp EXCEPT ![h] = e]
      /\ count' = Incref(count, o) /\ UNCHANGED <<obj, refs>>
  BY DEF Dlpack
<1>3. Live(o)
  BY HeldIsLive DEF Dlpack, Inv
<1> HIDE DEF e
<1> QED  BY <1>1, <1>2, <1>3, HandOutKeeps

\* A reference taken and given back leaves every count as it was.
LEMMA UndoneIncref ==
  ASSUME NEW c \in [Obj -> Nat], NEW o \in Obj, c[o] > 0
  PROVE  Decref(Incref(c, o), o) = c
<1>1. /\ Incref(c, o) \in [Obj -> Nat] /\ Incref(c, o)[o] = c[o] + 1
      /\ \A x \in Obj : x # o => Incref(c, o)[x] = c[x]
  BY DEF Incref
<1>2. Decref(Incref(c, o), o) = [Incref(c, o) EXCEPT ![o] = @ - 1]
  BY <1>1 DEF Decref
<1> DEFINE d == [Incref(c, o) EXCEPT ![o] = @ - 1]
<1>3. d \in [Obj -> Int] /\ \A x \in Obj : d[x] = c[x]
  BY <1>1
<1>4. d = c
  BY <1>3
<1> QED  BY <1>2, <1>4

\* A capsule that cannot be made leaves the count as it was.
LEMMA DlpackFailsKeeps ==
  ASSUME Inv, NEW o \in Obj, DlpackFails(o)
  PROVE  Inv'
<1>1. count \in [Obj -> Nat] /\ count[o] \in Nat \ {0}
  BY HeldIsLive DEF Inv, TypeOK, DlpackFails, Live
<1>2. Decref(Incref(count, o), o) = count
  BY <1>1, UndoneIncref
<1>3. UNCHANGED vars
  BY <1>2 DEF DlpackFails, vars
<1>4. /\ refs' \in [Obj -> Nat] /\ count' \in [Obj -> Nat]
      /\ \A x \in Obj : count[x] = 0 => count'[x] = 0
  BY <1>1, <1>3 DEF Inv, TypeOK, vars
<1>5. /\ TypeOK' /\ ObjectsOK' /\ ExportsOK' /\ DeletedOnce'
      /\ \A x \in Obj : ExportsOf(x)' = ExportsOf(x)
  BY <1>3, <1>4, SteadyKeeps DEF vars
<1>6. \A x \in Obj : ViewsOf(x)' = ViewsOf(x)
  BY <1>3, SameViews DEF IsView, Live, vars
<1>7. CountsAreExact'
  BY <1>3, <1>5, <1>6 DEF Inv, CountsAreExact, vars
<1> QED  BY <1>5, <1>7 DEF Inv

\* The fresh copy exported by __dlpack__(copy=True) has the tensor as its only
\* holder.
LEMMA DlpackCopyKeeps ==
  ASSUME Inv, NEW h \in Export, NEW o \in Obj, NEW c \in Obj, DlpackCopy(h, o, c)
  PROVE  Inv'
<1> DEFINE r == [kind |-> "owned", base |-> None, mem |-> c, shape |-> obj[o].shape]
           e == Tensor(c, c, obj[o].shape)
<1>0. /\ exp[h].kind = "none" /\ Unborn(c) /\ obj' = [obj EXCEPT ![c] = r]
      /\ exp' = [exp EXCEPT ![h] = e] /\ refs' = refs
      /\ count' = Decref(Incref(Incref(count, c), c), c)
  BY DEF DlpackCopy
<1>1. count \in [Obj -> Nat] /\ count[c] = 0 /\ refs \in [Obj -> Nat]
  BY <1>0 DEF Inv, ObjectsOK, TypeOK
<1>2. /\ count' \in [Obj -> Nat] /\ count'[c] = 1
      /\ \A x \in Obj : x # c => count'[x] = count[x]
  <2>1. /\ Incref(count, c) \in [Obj -> Nat] /\ Incref(count, c)[c] = 1
        /\ \A x \in Obj : x # c => Incref(count, c)[x] = count[x]
    BY <1>1 DEF Incref
  <2>2. count' = Incref(count, c)
    BY <1>0, <2>1, UndoneIncref
  <2> QED  BY <2>1, <2>2
<1>3. /\ Records(e) /\ e.kind = "tensor" /\ e.of = c /\ e.mem = c
      /\ e.consumer = "none" /\ e.deleted = 0 /\ e.capsule
  BY DEF Inv, TypeOK, Records, NoExport, Tensor
<1>4. /\ obj' \in [Obj -> [kind : {"unborn", "owned", "window", "strided"},
                           base : Obj \cup {None}, mem : Obj \cup {None},
                           shape : Shape \cup {None}]]
      /\ ObjectsOK'
  <2>1. r \in [kind : {"owned", "window", "strided"}, base : Obj \cup {None},
               mem : Obj, shape : Shape \cup {None}]
    BY DEF Inv, TypeOK
  <2> QED  BY <1>0, <1>2, <2>1, NewObjectKeeps
<1> HIDE DEF e
<1>5. exp'[h] = e /\ \A g \in Export : g # h => exp'[g] = exp[g]
  BY <1>0 DEF Inv, TypeOK
<1>6. TypeOK'
  BY <1>0, <1>1, <1>2, <1>3, <1>4 DEF Inv, TypeOK, Records
<1>7. \A x \in Obj : x # c => obj'[x] = obj[x]
  BY <1>0 DEF Inv, TypeOK
<1>8. obj'[c] = r
  BY <1>0 DEF Inv, TypeOK
<1>9. ExportsOK'
  <2>1. ASSUME NEW g \in Export, g # h
        PROVE  /\ exp'[g].kind # "none" => /\ exp'[g].of \in Obj /\ obj'[exp'[g].of].kind # "unborn"
                                           /\ exp'[g].mem = obj'[exp'[g].of].mem
               /\ exp'[g].kind # "tensor" => ~exp'[g].capsule /\ exp'[g].consumer = "none"
    BY <1>0, <1>5, <1>7, <2>1 DEF Inv, ExportsOK, Unborn
  <2> QED  BY <1>3, <1>5, <1>8, <2>1 DEF ExportsOK, Unborn
<1>10. ~Outstanding(h) /\ Outstanding(h)'
  BY <1>0, <1>3, <1>5 DEF Inv, ExportsOK, Outstanding
<1>11. DeletedOnce'
  <2>1. \A g \in Export : g # h => (Outstanding(g)' <=> Outstanding(g))
    BY <1>5 DEF Outstanding
  <2> QED  BY <1>3, <1>5, <1>10, <2>1 DEF Inv, DeletedOnce
<1>12. \A x \in Obj : Cardinality(ExportsOf(x)') = Cardinality(ExportsOf(x)) + One(x = c)
  <2>1. TypeOK
    BY DEF Inv
  <2>2. \A x \in Obj : Cardinality(ExportsOf(x)') = Cardinality(ExportsOf(x)) + One(x = e.of)
    BY <1>0, <1>10, <2>1, ExportBecomes
  <2> QED  BY <1>3, <2>2
<1>13. \A x : ViewsOf(x)' = ViewsOf(x)
  BY <1>0, <1>2, <1>7, <1>8, SameViews DEF IsView, Live, Unborn
<1>14. ASSUME NEW x \in Obj
       PROVE  count'[x] = refs'[x] + Cardinality(ViewsOf(x)') + Cardinality(ExportsOf(x)')
  <2>1. count[x] = refs[x] + Cardinality(ViewsOf(x)) + Cardinality(ExportsOf(x))
    BY DEF Inv, CountsAreExact
  <2>2. /\ refs[x] \in Nat /\ count[x] \in Nat
        /\ Cardinality(ViewsOf(x)) \in Nat /\ Cardinality(ExportsOf(x)) \in Nat
    BY Numbers DEF Inv
  <2>3. count'[x] = count[x] + One(x = c)
    BY <1>1, <1>2 DEF One
  <2>4. One(x = c) \in Nat
    BY DEF One
  <2> QED  BY <1>0, <1>12, <1>13, <2>1, <2>2, <2>3, <2>4
<1> QED  BY <1>4, <1>6, <1>9, <1>11, <1>14 DEF Inv, CountsAreExact

\* The capsule and its consumer, in whichever order they end.
LEMMA CapsulesKeep ==
  ASSUME Inv, NEW h \in Export, Consume(h) \/ DropCapsule(h) \/ ReleaseTensor(h)
  PROVE  Inv'
<1>0. exp[h].kind = "tensor" /\ Records(exp[h])
  BY DEF Inv, TypeOK, ExportsOK, Records, Consume, DropCapsule, ReleaseTensor
<1>1. CASE Consume(h)
  <2> DEFINE e == [exp[h] EXCEPT !.consumer = "using"]
  <2>1. /\ exp' = [exp EXCEPT ![h] = e] /\ exp[h].capsule /\ exp[h].consumer = "none"
        /\ UNCHANGED <<obj, count, refs>>
    BY <1>1 DEF Consume, Inv, TypeOK
  <2>2. /\ Records(e) /\ e.kind = "tensor" /\ e.of = exp[h].of /\ e.mem = exp[h].mem
        /\ e.deleted = exp[h].deleted /\ e.consumer = "using"
    BY <1>0 DEF Records
  <2> HIDE DEF e
  <2>3. Outstanding(h)' /\ Outstanding(h)
    BY <2>1, <2>2 DEF Outstanding, Inv, TypeOK
  <2> QED  BY <1>0, <2>1, <2>2, <2>3, PassOnKeeps
<1>2. CASE DropCapsule(h)
  <2> DEFINE e == [exp[h] EXCEPT !.capsule = FALSE]
             d == [e EXCEPT !.deleted = @ + 1]
  <2>1. /\ Records(e) /\ e.kind = "tensor" /\ e.of = exp[h].of /\ e.mem = exp[h].mem
        /\ e.deleted = exp[h].deleted /\ e.consumer = exp[h].consumer /\ ~e.capsule
    BY <1>0 DEF Records
  <2>2. CASE exp[h].consumer = "none"
    <3>1. exp[h].capsule /\ Outstanding(h)
      BY <1>2, <2>2 DEF DropCapsule, Outstanding
    <3>2. exp[h].deleted = 0
      BY <1>0, <3>1 DEF Inv, DeletedOnce
    <3>3. /\ Records(d) /\ d.kind = "tensor" /\ d.of = exp[h].of /\ d.mem = exp[h].mem
          /\ d.deleted = 1 /\ d.consumer = "none" /\ ~d.capsule
      <4> HIDE DEF e
      <4>1. e.deleted = 0 /\ e.consumer = "none"
        BY <2>1, <2>2, <3>2
      <4> QED  BY <2>1, <4>1 DEF Records
    <3>4. /\ exp' = [exp EXCEPT ![h] = d] /\ count' = Decref(count, exp[h].of)
          /\ UNCHANGED <<obj, refs>>
      BY <1>2, <2>1, <2>2 DEF DropCapsule, Deleter
    <3> HIDE DEF d, e
    <3> QED  BY <1>0, <3>1, <3>3, <3>4, EndKeeps
  <2>3. CASE exp[h].consumer # "none"
    <3>1. exp' = [exp EXCEPT ![h] = e] /\ UNCHANGED <<obj, count, refs>>
      BY <1>2, <2>1, <2>3 DEF DropCapsule
    <3> HIDE DEF d, e
    <3>2. Outstanding(h)' <=> Outstanding(h)
      BY <1>0, <2>1, <2>3, <3>1 DEF Outstanding, Inv, TypeOK
    <3> QED  BY <1>0, <2>1, <3>1, <3>2, PassOnKeeps
  <2> QED  BY <2>2, <2>3
<1>3. CASE ReleaseTensor(h)
  <2> DEFINE f == [exp[h] EXCEPT !.consumer = "done"]
             e == [f EXCEPT !.deleted = @ + 1]
  <2>1. exp[h].consumer = "using" /\ Outstanding(h)
    BY <1>3 DEF ReleaseTensor, Outstanding
  <2>2. exp[h].deleted = 0
    BY <1>0, <2>1 DEF Inv, DeletedOnce
  <2>3. /\ Records(e) /\ e.kind = "tensor" /\ e.of = exp[h].of /\ e.mem = exp[h].mem
        /\ e.deleted = 1 /\ e.consumer = "done"
    <3>1. /\ Records(f) /\ f.kind = "tensor" /\ f.of = exp[h].of /\ f.mem = exp[h].mem
          /\ f.deleted = 0 /\ f.consumer = "done"
      BY <1>0, <2>2 DEF Records
    <3> HIDE DEF f
    <3> QED  BY <3>1 DEF Records
  <2>4. /\ exp' = [exp EXCEPT ![h] = e] /\ count' = Decref(count, exp[h].of)
        /\ UNCHANGED <<obj, refs>>
    BY <1>0, <1>3 DEF ReleaseTensor, Deleter, Records
  <2> HIDE DEF e
  <2> QED  BY <1>0, <2>1, <2>3, <2>4, EndKeeps
<1> QED  BY <1>1, <1>2, <1>3

-----------------------------------------------------------------------------
(* The theorems. *)

\* Nothing is born, held or exported at first.
LEMMA InitInv == Init => Inv
<1> SUFFICES ASSUME Init  PROVE Inv
  OBVIOUS
<1>1. TypeOK
  BY DEF Init, TypeOK, NoObject, NoExport
<1>2. ObjectsOK /\ ExportsOK /\ DeletedOnce
  BY DEF Init, ObjectsOK, ExportsOK, DeletedOnce, Unborn, IsView, NoObject, NoExport
<1>3. \A o \in Obj : ViewsOf(o) = {} /\ ExportsOf(o) = {}
  BY DEF Init, ViewsOf, ExportsOf, IsView, Outstanding, NoObject, NoExport
<1>4. CountsAreExact
  BY <1>3, FS_EmptySet DEF Init, CountsAreExact
<1> QED  BY <1>1, <1>2, <1>4 DEF Inv

\* Every operation, export and consumer preserves the invariant.
LEMMA NextInv == Inv /\ [Next]_vars => Inv'
<1> SUFFICES ASSUME Inv, [Next]_vars  PROVE Inv'
  OBVIOUS
<1>1. ASSUME NEW v \in Obj, NEW o \in Obj, NEW kind \in {"window", "strided"}, NEW s \in Shape,
             NewView(v, o, kind, s)
      PROVE  Inv'
  BY <1>1, HeldIsLive, MakeViewKeeps DEF NewView, Inv
<1>2. ASSUME NEW v \in Obj, NEW h \in Export, NEW kind \in {"window", "strided"}, NEW s \in Shape,
             ViewOfNumpy(v, h, kind, s)
      PROVE  Inv'
  <2>1. Outstanding(h)
    BY <1>2 DEF ViewOfNumpy, Outstanding
  <2>2. exp[h].of \in Obj /\ Live(exp[h].of)
    BY <2>1, HeldIsLive DEF Inv
  <2>3. ~Unborn(exp[h].of)
    BY <2>2 DEF Inv, ObjectsOK, Live
  <2>4. BaseOf(exp[h].of) \in Obj /\ Live(BaseOf(exp[h].of))
    BY <2>2, HeldIsLive DEF Inv, ObjectsOK, BaseOf
  <2> QED  BY <1>2, <2>4, MakeViewKeeps DEF ViewOfNumpy
<1>3. CASE UNCHANGED vars
  <2>1. TypeOK' /\ ObjectsOK' /\ ExportsOK' /\ DeletedOnce'
    BY <1>3 DEF vars, Inv, TypeOK, ObjectsOK, ExportsOK, DeletedOnce, Outstanding, Unborn, IsView
  <2>2. \A x : ViewsOf(x)' = ViewsOf(x) /\ ExportsOf(x)' = ExportsOf(x)
    BY <1>3 DEF vars, ViewsOf, ExportsOf, Outstanding, IsView, Live
  <2>3. CountsAreExact'
    BY <1>3, <2>2 DEF vars, Inv, CountsAreExact
  <2> QED  BY <2>1, <2>3 DEF Inv
<1>4. CASE Next
  BY <1>4, <1>1, <1>2, NewArrayKeeps, HoldKeeps, ForgetKeeps, SetShapeKeeps, BuffersKeep,
     DlpackKeeps, DlpackCopyKeeps, DlpackFailsKeeps, CapsulesKeep DEF Next
<1> QED  BY <1>3, <1>4

\* Inv holds in every reachable state.
THEOREM Invariance == Spec => []Inv
  BY InitInv, NextInv, PTL DEF Spec

\* Objects, counts and exports are always well typed; in particular no count
\* sinks below zero.
THEOREM TypeCorrectness == Spec => []TypeOK
<1>1. Inv => TypeOK
  BY DEF Inv
<1> QED  BY <1>1, Invariance, PTL

\* The reference count of every array is the number of its holders: the
\* program, the views into it, and the buffers and tensors handed out.
THEOREM ExactCounting == Spec => []CountsAreExact
<1>1. Inv => CountsAreExact
  BY DEF Inv
<1> QED  BY <1>1, Invariance, PTL

\* Whatever is dropped in whatever order, pointers kept by views and exports
\* lead to live memory.
THEOREM MemorySafety == Spec => []NoDangling
<1>1. ASSUME Inv  PROVE NoDangling
  <2>1. ASSUME NEW v \in Obj, Live(v)  PROVE Live(obj[v].mem)
    <3>1. CASE IsView(v)
      BY <1>1, <2>1, <3>1, HeldIsLive DEF Inv, ObjectsOK
    <3>2. CASE ~IsView(v)
      <4>1. obj[v].kind = "owned"
        BY <1>1, <2>1, <3>2 DEF Inv, TypeOK, ObjectsOK, IsView, Unborn, Live
      <4> QED  BY <1>1, <2>1, <4>1 DEF Inv, ObjectsOK
    <3> QED  BY <3>1, <3>2
  <2>2. ASSUME NEW h \in Export, Outstanding(h)  PROVE Live(exp[h].mem) /\ Live(exp[h].of)
    <3>1. exp[h].of \in Obj /\ Live(exp[h].of)
      BY <1>1, <2>2, HeldIsLive DEF Inv
    <3>2. exp[h].mem = obj[exp[h].of].mem
      BY <1>1, <2>2 DEF Inv, ExportsOK, Outstanding
    <3> QED  BY <2>1, <3>1, <3>2
  <2> QED  BY <2>1, <2>2 DEF NoDangling
<1> QED  BY <1>1, Invariance, PTL

\* Every DLPack tensor is deleted once, when nobody can reach it any more.
THEOREM TensorsDeletedOnce == Spec => []DeletedOnce
<1>1. Inv => DeletedOnce
  BY DEF Inv
<1> QED  BY <1>1, Invariance, PTL

=============================================================================
