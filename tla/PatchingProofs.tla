--------------------------- MODULE PatchingProofs ---------------------------
(***************************************************************************)
(* Patching is safe for every set of packages, submodules and siblings,    *)
(* every assignment of NumPy names to modules, any mixture of modes and    *)
(* any nesting of blocks and imports.                                      *)
(*                                                                         *)
(* The state properties are inductive only together: that the type-        *)
(* preserving flag outlives an unpatching needs NothingForgotten (once     *)
(* nothing is remembered only copied stand-ins are left), and the flag of  *)
(* the core follows what is remembered.  They need CopiesAreStandIns: a    *)
(* copied stand-in is none of the objects patch_module looks for, so       *)
(* patching never rebinds it.  They speak of ns, saved, copied, active and *)
(* numpyActive alone, and every action changes those by Patch, Unpatch, or *)
(* by Rebind of one name.                                                  *)
(***************************************************************************)
EXTENDS Patching, SequenceTheorems, TLAPS

\* What the namespaces and the remembered names are, as far as types go.
NamespacesOK ==
  /\ ns \in [Module -> [Name -> Bindings]]
  /\ saved \in [Module -> SUBSET Name]
  /\ copied \in [Module -> SUBSET Name]
  /\ active \in BOOLEAN /\ numpyActive \in BOOLEAN

\* The rest of TypeOK: imports and blocks in progress.
ControlOK ==
  /\ loaded \in [Module -> {"absent", "running", "ready"}]
  /\ imports \in Seq(Frame)
  /\ blocks \in Seq(Block)

\* What a module has copied is still in place, until it is bound again.
CopiesAreStandIns ==
  \A m \in Module, n \in Name : n \in copied[m] => ns[m][n] \in StandIns

Safe ==
  /\ NamespacesOK
  /\ CopiesAreStandIns
  /\ NothingForgotten
  /\ ActiveWhilePatched
  /\ NumpyNamespaceWhileNeeded

Inv == ControlOK /\ Safe

-----------------------------------------------------------------------------
(* The namespaces. *)

\* A name is replaced by a stand-in of lightarray or not at all.
LEMMA StandInIsStandIn ==
  ASSUME NEW n, NEW mode, StandIn(n, mode) # "numpy"
  PROVE  /\ StandIn(n, mode) \in StandIns
         /\ mode = "lightarray" => StandIn(n, mode) = "lightarray"
  BY DEF StandIn, StandIns

\* patch_module, on any set of modules in either mode, keeps Safe.
LEMMA PatchKeeps ==
  ASSUME NEW mods, NEW mode \in Modes, Safe, Patch(mods, mode)
  PROVE  Safe'
<1> USE DEF Safe
<1>1. NamespacesOK'
  <2>1. ASSUME NEW m \in Module, NEW n \in Name, Rebinds(m, n, mode)
        PROVE  StandIn(n, mode) \in Bindings
    BY <2>1, StandInIsStandIn DEF Rebinds, Bindings
  <2>2. ns' \in [Module -> [Name -> Bindings]]
    BY <2>1 DEF Patch, NamespacesOK
  <2> QED  BY <2>2 DEF Patch, NamespacesOK
<1>2. NothingForgotten'
  <2> SUFFICES ASSUME NEW m \in Module, NEW n \in Name, ns'[m][n] \in StandIns
               PROVE  n \in saved'[m] \cup copied'[m]
    BY DEF NothingForgotten
  <2>1. CASE m \in mods /\ Rebinds(m, n, mode)
    BY <2>1 DEF Patch
  <2>2. CASE ~(m \in mods /\ Rebinds(m, n, mode))
    <3>1. ns'[m][n] = ns[m][n]
      BY <2>2 DEF Patch
    <3> QED  BY <3>1 DEF Patch, NothingForgotten
  <2> QED  BY <2>1, <2>2
<1>3. ActiveWhilePatched'
  <2>1. \A m \in Module : saved[m] \subseteq saved'[m]
    BY DEF Patch
  <2>2. active' = (active \/ \E m \in Module : saved'[m] # {})
    BY DEF Patch
  <2>3. active <=> \E m \in Module : saved[m] # {}
    BY DEF ActiveWhilePatched
  <2>4. active => \E m \in Module : saved'[m] # {}
    BY <2>1, <2>3
  <2>5. active' <=> \E m \in Module : saved'[m] # {}
    BY <2>2, <2>4, Zenon
  <2> QED  BY <2>5 DEF ActiveWhilePatched
<1>4. NumpyNamespaceWhileNeeded'
  <2> SUFFICES ASSUME NEW m \in Module, NEW n \in Name, ns'[m][n] = "dispatch",
                      n \notin copied'[m]
               PROVE  numpyActive'
    BY DEF NumpyNamespaceWhileNeeded
  <2>0. numpyActive' = (numpyActive \/ (mode = "numpy" /\ ns' # ns))
    BY DEF Patch
  <2>1. CASE ns[m][n] = "dispatch"
    <3>1. numpyActive
      BY <2>1 DEF NumpyNamespaceWhileNeeded, Patch
    <3> QED  BY <2>0, <3>1
  <2>2. CASE ns[m][n] # "dispatch"
    <3>1. m \in mods /\ Rebinds(m, n, mode) /\ StandIn(n, mode) = "dispatch"
      BY <2>2 DEF Patch
    <3>2. mode = "numpy"
      BY <3>1, StandInIsStandIn DEF Rebinds, Modes
    <3>3. ns' # ns
      BY <2>2
    <3> QED  BY <2>0, <3>2, <3>3
  <2> QED  BY <2>1, <2>2
<1>5. CopiesAreStandIns'
  <2> SUFFICES ASSUME NEW m \in Module, NEW n \in Name, n \in copied'[m]
               PROVE  ns'[m][n] \in StandIns
    BY DEF CopiesAreStandIns
  <2>1. ns[m][n] \in StandIns
    BY DEF Patch, CopiesAreStandIns
  <2>2. ~Rebinds(m, n, mode)
    BY <2>1 DEF Rebinds, StandIns
  <2>3. ns'[m][n] = ns[m][n]
    BY <2>2 DEF Patch
  <2> QED  BY <2>1, <2>3
<1> QED  BY <1>1, <1>2, <1>3, <1>4, <1>5

\* So does unpatch_module.
LEMMA UnpatchKeeps ==
  ASSUME NEW mods, Safe, Unpatch(mods)
  PROVE  Safe'
<1> USE DEF Safe
<1> DEFINE none == \A m \in Module : saved'[m] = {}
<1>0. /\ active' = (active /\ ~none)
      /\ numpyActive' = (numpyActive /\ ~none)
  BY DEF Unpatch
<1>1. NamespacesOK'
  BY DEF Unpatch, NamespacesOK, Bindings
<1>2. NothingForgotten'
  <2> SUFFICES ASSUME NEW m \in Module, NEW n \in Name, ns'[m][n] \in StandIns
               PROVE  n \in saved'[m] \cup copied'[m]
    BY DEF NothingForgotten
  <2>1. CASE m \in mods
    <3>1. ns'[m][n] = ns[m][n] /\ n \notin saved[m]
      BY <2>1 DEF Unpatch, StandIns
    <3>2. n \in copied[m]
      BY <3>1 DEF NothingForgotten
    <3> QED  BY <2>1, <3>1, <3>2 DEF Unpatch
  <2>2. CASE m \notin mods
    BY <2>2 DEF Unpatch, NothingForgotten
  <2> QED  BY <2>1, <2>2
<1>3. ActiveWhilePatched'
  <2>1. \A m \in Module : saved'[m] \subseteq saved[m]
    BY DEF Unpatch
  <2>2. active <=> \E m \in Module : saved[m] # {}
    BY DEF ActiveWhilePatched
  <2>3. ~none => active
    BY <2>1, <2>2
  <2>4. active' <=> ~none
    BY <1>0, <2>3, Zenon
  <2>5. active' <=> \E m \in Module : saved'[m] # {}
    BY <2>4
  <2> QED  BY <2>5 DEF ActiveWhilePatched
<1>4. NumpyNamespaceWhileNeeded'
  <2> SUFFICES ASSUME NEW m \in Module, NEW n \in Name, ns'[m][n] = "dispatch",
                      n \notin copied'[m]
               PROVE  numpyActive'
    BY DEF NumpyNamespaceWhileNeeded
  <2>1. ~none
    BY <1>2 DEF NothingForgotten, StandIns
  <2>2. ns[m][n] = "dispatch" /\ n \notin copied[m]
    BY DEF Unpatch
  <2>3. numpyActive
    BY <2>2 DEF NumpyNamespaceWhileNeeded
  <2> QED  BY <1>0, <2>1, <2>3
<1>5. CopiesAreStandIns'
  <2> SUFFICES ASSUME NEW m \in Module, NEW n \in Name, n \in copied'[m]
               PROVE  ns'[m][n] \in StandIns
    BY DEF CopiesAreStandIns
  <2>1. n \in copied[m] /\ (m \in mods => n \notin saved[m])
    BY DEF Unpatch
  <2>2. ns'[m][n] = ns[m][n]
    BY <2>1 DEF Unpatch
  <2> QED  BY <2>1, <2>2 DEF CopiesAreStandIns
<1> QED  BY <1>1, <1>2, <1>3, <1>4, <1>5

\* And everything that leaves the namespaces alone.
LEMMA UntouchedKeeps ==
  ASSUME Safe, Untouched
  PROVE  Safe'
  BY DEF Safe, Untouched, NamespacesOK, CopiesAreStandIns, NothingForgotten,
         ActiveWhilePatched, NumpyNamespaceWhileNeeded

\* A module binding one of its names, to NumPy's object, to one of its own or
\* to what another module has.
LEMMA RebindKeeps ==
  ASSUME Safe, NEW m \in Module, NEW n \in Name, NEW v \in Bindings, Rebind(m, n, v)
  PROVE  Safe'
<1> USE DEF Safe
<1>1. /\ ns' \in [Module -> [Name -> Bindings]]
      /\ copied' \in [Module -> SUBSET Name]
      /\ UNCHANGED <<saved, active, numpyActive>>
  BY DEF Rebind, NamespacesOK
<1>2. /\ ns'[m][n] = v
      /\ v \in StandIns <=> n \in copied'[m]
  BY DEF Rebind, NamespacesOK
<1>3. ASSUME NEW x \in Module, NEW y \in Name, ~(x = m /\ y = n)
      PROVE  /\ ns'[x][y] = ns[x][y]
             /\ y \in copied'[x] <=> y \in copied[x]
  BY <1>3 DEF Rebind, NamespacesOK
<1>4. NamespacesOK'
  BY <1>1 DEF NamespacesOK
<1>5. CopiesAreStandIns'
  BY <1>2, <1>3 DEF CopiesAreStandIns
<1>6. NothingForgotten'
  BY <1>1, <1>2, <1>3 DEF NothingForgotten
<1>7. ActiveWhilePatched'
  BY <1>1 DEF ActiveWhilePatched
<1>8. NumpyNamespaceWhileNeeded'
  BY <1>1, <1>2, <1>3 DEF NumpyNamespaceWhileNeeded, StandIns
<1> QED  BY <1>4, <1>5, <1>6, <1>7, <1>8

\* set_patched(m, FALSE) unpatches or does nothing.
LEMMA DisableKeeps ==
  ASSUME Safe, NEW m, NEW r, Disable(m, r)
  PROVE  Safe'
<1>1. CASE IsPatched(m)
  BY <1>1, UnpatchKeeps DEF Disable
<1>2. CASE ~IsPatched(m)
  BY <1>2, UntouchedKeeps DEF Disable
<1> QED  BY <1>1, <1>2

\* The import hook patches or does nothing.
LEMMA HookKeeps ==
  ASSUME Safe, NEW m \in Module, NEW by, Hook(m, by)
  PROVE  Safe'
<1>1. CASE Root[m] \in DOMAIN HookMode /\ RootOf(by) # Root[m]
  <2>1. HookMode[Root[m]] \in Modes
    BY <1>1, ModeAssumption
  <2>2. Patch(PackageModules(Root[m], TRUE), HookMode[Root[m]])
    BY <1>1 DEF Hook
  <2> QED  BY <2>1, <2>2, PatchKeeps
<1>2. CASE ~(Root[m] \in DOMAIN HookMode /\ RootOf(by) # Root[m])
  <2>1. Untouched
    BY <1>2 DEF Hook
  <2> QED  BY <2>1, UntouchedKeeps
<1> QED  BY <1>1, <1>2

-----------------------------------------------------------------------------
(* Imports and blocks in progress. *)

\* Putting an element in front of a sequence.
LEMMA PushFacts ==
  ASSUME NEW S, NEW s \in Seq(S), NEW x \in S
  PROVE  <<x>> \o s \in Seq(S)
<1>1. <<x>> \in Seq(S)
  OBVIOUS
<1> QED  BY <1>1, ConcatProperties

\* Taking one away.
LEMMA PopFacts ==
  ASSUME NEW S, NEW s \in Seq(S), s # <<>>
  PROVE  Head(s) \in S /\ Tail(s) \in Seq(S)
  BY HeadTailProperties

\* No action puts anything but an import or a block on the two stacks.
LEMMA ControlKeeps ==
  ASSUME ControlOK, [Next]_vars
  PROVE  ControlOK'
<1> USE DEF ControlOK
<1>1. CASE UNCHANGED <<loaded, imports, blocks>>
  BY <1>1
<1>2. ASSUME NEW m \in Module, NEW r \in BOOLEAN, NEW mode \in Mode, Enter(m, r, mode)
      PROVE  ControlOK'
  <2> DEFINE b == [module |-> m, recursive |-> r, was |-> IsPatched(m)]
  <2>1. b \in Block
    BY DEF Block, IsPatched
  <2>2. blocks' = <<b>> \o blocks /\ UNCHANGED <<loaded, imports>>
    BY <1>2 DEF Enter
  <2> HIDE DEF b
  <2>3. blocks' \in Seq(Block)
    BY <2>1, <2>2, PushFacts
  <2> QED  BY <2>2, <2>3
<1>3. CASE Exit
  <2>1. blocks # <<>> /\ blocks' = Tail(blocks) /\ UNCHANGED <<loaded, imports>>
    BY <1>3 DEF Exit
  <2>2. blocks' \in Seq(Block)
    BY <2>1, PopFacts
  <2> QED  BY <2>1, <2>2
<1>4. ASSUME NEW m \in Module, NEW by \in Module \cup {Main}, ImportFirst(m, by)
      PROVE  ControlOK'
  <2> DEFINE f == [module |-> m, by |-> by]
  <2>1. f \in Frame
    BY DEF Frame
  <2>2. /\ imports' = <<f>> \o imports
        /\ loaded' = [loaded EXCEPT ![m] = "running"]
        /\ UNCHANGED blocks
    BY <1>4 DEF ImportFirst
  <2> HIDE DEF f
  <2>3. imports' \in Seq(Frame)
    BY <2>1, <2>2, PushFacts
  <2> QED  BY <2>2, <2>3
<1>5. CASE Finish
  <2>1. /\ imports # <<>> /\ imports' = Tail(imports)
        /\ loaded' = [loaded EXCEPT ![Head(imports).module] = "ready"]
        /\ UNCHANGED blocks
    BY <1>5 DEF Finish
  <2>2. imports' \in Seq(Frame)
    BY <2>1, PopFacts
  <2> QED  BY <2>1, <2>2
<1>6. CASE UNCHANGED vars
  BY <1>6, <1>1 DEF vars
<1>7. CASE Next
  BY <1>7, <1>1, <1>2, <1>3, <1>4, <1>5
     DEF Next, PatchModule, UnpatchModule, DisableModule, ImportAgain, Bind, Assign, Rebind
<1> QED  BY <1>6, <1>7

\* The innermost import in progress is one of a module.
LEMMA ImportingModule ==
  ASSUME ControlOK, imports # <<>>
  PROVE  Head(imports).module \in Module
<1>1. Head(imports) \in Frame
  BY PopFacts DEF ControlOK
<1> QED  BY <1>1 DEF Frame

-----------------------------------------------------------------------------
(* The invariant. *)

\* Nothing is imported, bound or patched at first.
LEMMA InitInv == Init => Inv
<1> SUFFICES ASSUME Init  PROVE Inv
  OBVIOUS
<1>1. ControlOK
  BY DEF Init, ControlOK
<1>2. Safe
  BY DEF Init, Safe, NamespacesOK, CopiesAreStandIns, NothingForgotten,
         ActiveWhilePatched, NumpyNamespaceWhileNeeded, Bindings, StandIns
<1> QED  BY <1>1, <1>2 DEF Inv

\* Every call, block, import and assignment preserves the invariant.
LEMMA NextInv == Inv /\ [Next]_vars => Inv'
<1> SUFFICES ASSUME Inv, [Next]_vars  PROVE Inv'
  OBVIOUS
<1>0. ControlOK /\ Safe
  BY DEF Inv
<1>1. ControlOK'
  BY <1>0, ControlKeeps
<1>2. ASSUME NEW m \in Module, NEW r \in BOOLEAN, NEW mode \in Mode, PatchModule(m, r, mode)
      PROVE  Safe'
  BY <1>0, <1>2, PatchKeeps, ModeAssumption DEF PatchModule
<1>3. ASSUME NEW m \in Module, NEW r \in BOOLEAN, UnpatchModule(m, r)
      PROVE  Safe'
  BY <1>0, <1>3, UnpatchKeeps DEF UnpatchModule
<1>4. ASSUME NEW m \in Module, NEW r \in BOOLEAN, DisableModule(m, r)
      PROVE  Safe'
  BY <1>0, <1>4, DisableKeeps DEF DisableModule
<1>5. ASSUME NEW m \in Module, NEW r \in BOOLEAN, NEW mode \in Mode, Enter(m, r, mode)
      PROVE  Safe'
  BY <1>0, <1>5, PatchKeeps, ModeAssumption DEF Enter
<1>6. ASSUME Exit  PROVE Safe'
  <2> DEFINE b == Head(blocks)
  <2>1. CASE b.was
    <3>1. Patch(PackageModules(b.module, b.recursive), "lightarray")
      BY <1>6, <2>1 DEF Exit
    <3> QED  BY <1>0, <3>1, PatchKeeps DEF Modes
  <2>2. CASE ~b.was
    <3>1. Disable(b.module, b.recursive)
      BY <1>6, <2>2 DEF Exit
    <3> QED  BY <1>0, <3>1, DisableKeeps
  <2> QED  BY <2>1, <2>2
<1>7. ASSUME NEW m \in Module, NEW by \in Module \cup {Main}, ImportAgain(m, by)
      PROVE  Safe'
  BY <1>0, <1>7, HookKeeps DEF ImportAgain
<1>8. ASSUME NEW m \in Module, NEW by \in Module \cup {Main}, ImportFirst(m, by)
      PROVE  Safe'
  BY <1>0, <1>8, UntouchedKeeps DEF ImportFirst
<1>9. ASSUME NEW n \in Name, NEW v \in Bindings, Bind(n, v)
      PROVE  Safe'
  <2>1. Head(imports).module \in Module
    BY <1>9, <1>0, ImportingModule DEF Bind
  <2> QED  BY <1>0, <1>9, <2>1, RebindKeeps DEF Bind
<1>10. ASSUME Finish  PROVE Safe'
  <2>1. Head(imports).module \in Module
    BY <1>10, <1>0, ImportingModule DEF Finish
  <2> QED  BY <1>0, <1>10, <2>1, HookKeeps DEF Finish
<1>11. ASSUME NEW m \in Module, NEW n \in Name, NEW v \in Bindings, Assign(m, n, v)
       PROVE  Safe'
  BY <1>0, <1>11, RebindKeeps DEF Assign
<1>12. ASSUME UNCHANGED vars  PROVE Safe'
  BY <1>0, <1>12, UntouchedKeeps DEF vars, Untouched
<1>13. Safe'
  BY <1>2, <1>3, <1>4, <1>5, <1>6, <1>7, <1>8, <1>9, <1>10, <1>11, <1>12 DEF Next
<1> QED  BY <1>1, <1>13 DEF Inv

-----------------------------------------------------------------------------
(* The theorems. *)

\* Inv holds in every reachable state.
THEOREM Invariance == Spec => []Inv
  BY InitInv, NextInv, PTL DEF Spec

\* Type correctness of the namespaces, the remembered objects, the flags and
\* the imports and blocks in progress.
THEOREM TypeCorrectness == Spec => []TypeOK
<1>1. Inv => TypeOK
  BY DEF Inv, ControlOK, Safe, NamespacesOK, TypeOK
<1> QED  BY <1>1, Invariance, PTL

\* No call, block, import or assignment makes patch_module forget the NumPy
\* object behind a stand-in it has bound: the stand-ins it knows nothing of are
\* those that a module took over from another one.
THEOREM NothingIsForgotten == Spec => []NothingForgotten
<1>1. Inv => NothingForgotten
  BY DEF Inv, Safe
<1> QED  BY <1>1, Invariance, PTL

\* The flag in lib.rs and _fallback.py is set exactly while some module is
\* patched.
THEOREM FlagFollowsPatching == Spec => []ActiveWhilePatched
<1>1. Inv => ActiveWhilePatched
  BY DEF Inv, Safe
<1> QED  BY <1>1, Invariance, PTL

\* __array_namespace__ is NumPy as long as a dispatcher that patch_module bound
\* is in place.
THEOREM NamespaceFollowsPatching == Spec => []NumpyNamespaceWhileNeeded
<1>1. Inv => NumpyNamespaceWhileNeeded
  BY DEF Inv, Safe
<1> QED  BY <1>1, Invariance, PTL

\* unpatch_module leaves those stand-ins in the package, its loaded submodules
\* and its loaded siblings that a module took over over no patched name, and
\* no others.
THEOREM UnpatchingRestores == Spec => UnpatchRestores
<1> DEFINE Restored ==
      \A m \in Module : UnpatchModule(m, TRUE)
        => \A x \in PackageModules(m, TRUE), n \in Name :
             ns'[x][n] \in StandIns <=> n \in copied[x] \ saved[x]
<1>1. ASSUME Inv, NEW m \in Module, UnpatchModule(m, TRUE),
             NEW x \in PackageModules(m, TRUE), NEW n \in Name
      PROVE  ns'[x][n] \in StandIns <=> n \in copied[x] \ saved[x]
  <2>1. x \in Module
    BY DEF PackageModules
  <2>2. CASE n \in saved[x]
    BY <1>1, <2>1, <2>2 DEF UnpatchModule, Unpatch, StandIns
  <2>3. CASE n \notin saved[x]
    <3>1. ns[x][n] \in StandIns <=> n \in copied[x]
      BY <1>1, <2>1, <2>3 DEF Inv, Safe, NothingForgotten, CopiesAreStandIns
    <3> QED  BY <1>1, <2>1, <2>3, <3>1 DEF UnpatchModule, Unpatch
  <2> QED  BY <2>2, <2>3
<1>2. Inv => [Restored]_vars
  BY <1>1
<1>3. Spec => [][Restored]_vars
  BY <1>2, Invariance, PTL DEF Spec
<1> QED  BY <1>3 DEF UnpatchRestores

=============================================================================
