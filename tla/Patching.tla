------------------------------ MODULE Patching ------------------------------
(***************************************************************************)
(* Running other packages on lightarray (python/lightarray/__init__.py):   *)
(* patch_module rebinds the NumPy objects in the namespaces of a package   *)
(* and remembers them in _patched, unpatch_module puts them back,          *)
(* set_patched and `with patched(...)` are built on the two, and with      *)
(* LIGHTARRAY_PATCH set a hook on __import__ patches packages as they are  *)
(* imported.  What a module binds is abstracted to what patching tells     *)
(* apart: NumPy's object, one of lightarray's two stand-ins, anything else.*)
(* A module can also get a stand-in without patch_module: by importing the *)
(* name from a module that is patched.  patch_module does not know such a  *)
(* stand-in from the module's own objects, so it remembers nothing of it.  *)
(***************************************************************************)
EXTENDS Naturals, Sequences

CONSTANTS
  Module,     \* modules that can be imported
  Main,       \* the script
  Name,       \* names in their namespaces
  Kind,       \* Kind[n]: what NumPy object the name n stands for (functions bound
              \* under another name than NumPy's are treated like conversions)
  Root,       \* Root[m]: the top-level package of m
  Under,      \* Under[m]: the submodules of m, by name
  Siblings,   \* Siblings[m]: other top-level modules of m's distribution
  Imports,    \* Imports[m]: the NumPy names m's body imports
  Mode,       \* the modes the program asks for
  HookMode,   \* HookMode[m]: the mode LIGHTARRAY_PATCH gives m, for its packages
  MaxBlocks   \* bound: nesting of `with patched(...)`

Modes == {"lightarray", "numpy"}

ASSUME MainAssumption == Main \notin Module
ASSUME KindAssumption ==
  Kind \in [Name -> {"alias", "function", "class", "conversion", "submodule"}]
ASSUME ModuleAssumption ==
  /\ Root \in [Module -> Module]
  /\ Under \in [Module -> SUBSET Module]
  /\ Siblings \in [Module -> SUBSET Module]
  /\ Imports \in [Module -> SUBSET Name]
ASSUME ModeAssumption ==
  /\ Mode \subseteq Modes
  /\ DOMAIN HookMode \subseteq Module
  /\ \A m \in DOMAIN HookMode : HookMode[m] \in Modes

VARIABLES
  loaded,        \* is the module in sys.modules, and has its body finished?
  ns,            \* ns[m][n]: what m binds n to
  saved,         \* _patched: the names with a remembered NumPy object, per module
  copied,        \* history: the names whose stand-in m's own code has bound
  active,        \* the flag of lib.rs and _fallback.py
  numpyActive,   \* _numpy_conversions_active
  imports,       \* import statements in progress, the innermost first
  blocks         \* `with patched(...)` blocks entered, the innermost first

vars == <<loaded, ns, saved, copied, active, numpyActive, imports, blocks>>

StandIns == {"lightarray", "dispatch"}
Bindings == {"unbound", "numpy", "other"} \cup StandIns

Init ==
  /\ loaded = [m \in Module |-> "absent"]
  /\ ns = [m \in Module |-> [n \in Name |-> "unbound"]]
  /\ saved = [m \in Module |-> {}]
  /\ copied = [m \in Module |-> {}]
  /\ active = FALSE
  /\ numpyActive = FALSE
  /\ imports = <<>>
  /\ blocks = <<>>

-----------------------------------------------------------------------------
(* Patching. *)

Loaded(m) == loaded[m] # "absent"

\* The modules a call on m is about; sys.modules is consulted at the time of
\* the call.
PackageModules(m, recursive) ==
  IF ~recursive THEN {m}
  ELSE {m} \cup {x \in Module : /\ Loaded(x)
                                /\ \/ x \in Under[m]
                                   \/ \E s \in Siblings[m] : Loaded(s) /\ x \in {s} \cup Under[s]}

\* A slip the runs must notice: what is not an alias or a function is bound to
\* its own kind instead of being left alone.
StandInOfKind(n, mode) ==
  IF mode = "lightarray" \/ Kind[n] = "submodule" THEN "lightarray"
  ELSE IF Kind[n] \in {"alias", "function"} THEN "dispatch"
  ELSE Kind[n]

\* What NumPy's object n is replaced by; "numpy" when it stays.
StandIn(n, mode) ==
  IF mode = "lightarray" \/ Kind[n] = "submodule" THEN "lightarray"
  ELSE IF Kind[n] \in {"alias", "function"} THEN "dispatch"
  ELSE "numpy"

Rebinds(m, n, mode) == ns[m][n] = "numpy" /\ StandIn(n, mode) # "numpy"

\* A slip the runs must notice: only what was not patched before is remembered.
PatchOnce(mods, mode) ==
  /\ ns' = [m \in Module |-> [n \in Name |->
              IF m \in mods /\ Rebinds(m, n, mode) THEN StandIn(n, mode) ELSE ns[m][n]]]
  /\ saved' = [m \in Module |->
                 IF m \in mods /\ saved[m] = {} THEN {n \in Name : Rebinds(m, n, mode)} ELSE saved[m]]
  /\ active' = (active \/ \E m \in Module : saved'[m] # {})
  /\ numpyActive' = (numpyActive \/ (mode = "numpy" /\ ns' # ns))
  /\ UNCHANGED copied

\* A slip the runs must notice: the flag for NumPy's namespace follows the last
\* call instead of staying set.
PatchLastMode(mods, mode) ==
  /\ ns' = [m \in Module |-> [n \in Name |->
              IF m \in mods /\ Rebinds(m, n, mode) THEN StandIn(n, mode) ELSE ns[m][n]]]
  /\ saved' = [m \in Module |->
                 saved[m] \cup {n \in Name : m \in mods /\ Rebinds(m, n, mode)}]
  /\ active' = (active \/ \E m \in Module : saved'[m] # {})
  /\ numpyActive' = (mode = "numpy" /\ ns' # ns)
  /\ UNCHANGED copied

\* patch_module: a name bound to a stand-in, by patch_module or by the module
\* itself, is bound to no NumPy object, so it is left alone; the first object
\* remembered for a name is kept.
Patch(mods, mode) ==
  /\ ns' = [m \in Module |-> [n \in Name |->
              IF m \in mods /\ Rebinds(m, n, mode) THEN StandIn(n, mode) ELSE ns[m][n]]]
  /\ saved' = [m \in Module |->
                 saved[m] \cup {n \in Name : m \in mods /\ Rebinds(m, n, mode)}]
  /\ active' = (active \/ \E m \in Module : saved'[m] # {})
  /\ numpyActive' = (numpyActive \/ (mode = "numpy" /\ ns' # ns))
  /\ UNCHANGED copied

\* A slip the runs must notice: the flags are cleared by every unpatching.
UnpatchClears(mods) ==
  /\ saved' = [m \in Module |-> IF m \in mods THEN {} ELSE saved[m]]
  /\ ns' = [m \in Module |-> [n \in Name |->
              IF m \in mods /\ n \in saved[m] THEN "numpy" ELSE ns[m][n]]]
  /\ copied' = [m \in Module |-> IF m \in mods THEN copied[m] \ saved[m] ELSE copied[m]]
  /\ active' = FALSE
  /\ numpyActive' = FALSE

\* unpatch_module.
Unpatch(mods) ==
  /\ saved' = [m \in Module |-> IF m \in mods THEN {} ELSE saved[m]]
  /\ ns' = [m \in Module |-> [n \in Name |->
              IF m \in mods /\ n \in saved[m] THEN "numpy" ELSE ns[m][n]]]
  /\ copied' = [m \in Module |-> IF m \in mods THEN copied[m] \ saved[m] ELSE copied[m]]
  /\ LET none == \A m \in Module : saved'[m] = {} IN
     /\ active' = (active /\ ~none)
     /\ numpyActive' = (numpyActive /\ ~none)

\* is_patched looks at the module and at its submodules, not at siblings.
IsPatched(m) == saved[m] # {} \/ \E x \in Under[m] : saved[x] # {}

Untouched == UNCHANGED <<ns, saved, copied, active, numpyActive>>

\* set_patched(m, FALSE).
Disable(m, recursive) ==
  IF IsPatched(m) THEN Unpatch(PackageModules(m, recursive)) ELSE Untouched

PatchModule(m, recursive, mode) ==
  /\ Loaded(m)
  /\ Patch(PackageModules(m, recursive), mode)
  /\ UNCHANGED <<loaded, imports, blocks>>

UnpatchModule(m, recursive) ==
  /\ Loaded(m)
  /\ UNCHANGED <<loaded, imports, blocks>>
  /\ Unpatch(PackageModules(m, recursive))

DisableModule(m, recursive) ==
  /\ Loaded(m)
  /\ Disable(m, recursive)
  /\ UNCHANGED <<loaded, imports, blocks>>

\* `with patched(m, ...)` begins,
Enter(m, recursive, mode) ==
  /\ Loaded(m) /\ Len(blocks) < MaxBlocks
  /\ blocks' = <<[module |-> m, recursive |-> recursive, was |-> IsPatched(m)]>> \o blocks
  /\ Patch(PackageModules(m, recursive), mode)
  /\ UNCHANGED <<loaded, imports>>

\* and ends; a package that was patched is patched again, in the default mode.
Exit ==
  /\ blocks # <<>>
  /\ LET b == Head(blocks) IN
     IF b.was THEN Patch(PackageModules(b.module, b.recursive), "lightarray")
              ELSE Disable(b.module, b.recursive)
  /\ blocks' = Tail(blocks)
  /\ UNCHANGED <<loaded, imports>>

-----------------------------------------------------------------------------
(* Importing.  External: Python's import system, with the hook on top. *)

RootOf(m) == IF m = Main THEN Main ELSE Root[m]

\* The hook: an import statement in module `by` has loaded m.
Hook(m, by) ==
  IF Root[m] \in DOMAIN HookMode /\ RootOf(by) # Root[m]
  THEN Patch(PackageModules(Root[m], TRUE), HookMode[Root[m]])
  ELSE Untouched

\* Import statements run in the body of the module being imported, else in
\* the script or in a function of a module that is ready.
Importers ==
  IF imports # <<>> THEN {Head(imports).module}
                    ELSE {Main} \cup {m \in Module : loaded[m] = "ready"}

\* The module is in sys.modules: even if its body is still running.
ImportAgain(m, by) ==
  /\ by \in Importers /\ Loaded(m)
  /\ Hook(m, by)
  /\ UNCHANGED <<loaded, imports, blocks>>

\* Its body starts to run; a package is imported before its submodules.
ImportFirst(m, by) ==
  /\ by \in Importers /\ ~Loaded(m)
  /\ m # Root[m] => Loaded(Root[m])
  /\ loaded' = [loaded EXCEPT ![m] = "running"]
  /\ imports' = <<[module |-> m, by |-> by]>> \o imports
  /\ Untouched /\ UNCHANGED blocks

\* What code can bind n to without making an object of its own: NumPy's object,
\* or whatever a loaded module binds n to now (`from pkg import np`).
Available(n) == {"numpy"} \cup ({ns[x][n] : x \in {y \in Module : Loaded(y)}} \ {"unbound"})

\* Module m binds its name n to v.
Rebind(m, n, v) ==
  /\ ns' = [ns EXCEPT ![m][n] = v]
  /\ copied' = [copied EXCEPT ![m] = IF v \in StandIns THEN @ \cup {n} ELSE @ \ {n}]
  /\ UNCHANGED <<loaded, saved, active, numpyActive, imports, blocks>>

\* The body reaches `import numpy as np`, `from numpy import ...`, or imports
\* the name from a module it has imported before.
Bind(n, v) ==
  /\ imports # <<>>
  /\ LET m == Head(imports).module IN
     /\ n \in Imports[m] /\ ns[m][n] = "unbound"
     /\ v \in Available(n)
     /\ Rebind(m, n, v)

\* The body is done and the import statement returns.
Finish ==
  /\ imports # <<>>
  /\ LET f == Head(imports) IN
     /\ \A n \in Imports[f.module] : ns[f.module][n] # "unbound"
     /\ loaded' = [loaded EXCEPT ![f.module] = "ready"]
     /\ Hook(f.module, f.by)
  /\ imports' = Tail(imports)
  /\ UNCHANGED blocks

\* A module assigns one of its own names: NumPy's object again, what another
\* module binds it to, or anything else.
Assign(m, n, v) ==
  /\ loaded[m] = "ready" /\ ns[m][n] # "unbound"
  /\ v \in Available(n) \cup {"other"}
  /\ Rebind(m, n, v)

Next ==
  \/ \E m \in Module, r \in BOOLEAN, mode \in Mode : PatchModule(m, r, mode)
  \/ \E m \in Module, r \in BOOLEAN : UnpatchModule(m, r)
  \/ \E m \in Module, r \in BOOLEAN : DisableModule(m, r)
  \/ \E m \in Module, r \in BOOLEAN, mode \in Mode : Enter(m, r, mode)
  \/ Exit
  \/ \E m \in Module, by \in Module \cup {Main} : ImportAgain(m, by)
  \/ \E m \in Module, by \in Module \cup {Main} : ImportFirst(m, by)
  \/ \E n \in Name, v \in Bindings : Bind(n, v)
  \/ Finish
  \/ \E m \in Module, n \in Name, v \in Bindings : Assign(m, n, v)

Spec == Init /\ [][Next]_vars

-----------------------------------------------------------------------------
(* Properties. *)

Frame == [module : Module, by : Module \cup {Main}]
Block == [module : Module, recursive : BOOLEAN, was : BOOLEAN]

TypeOK ==
  /\ loaded \in [Module -> {"absent", "running", "ready"}]
  /\ ns \in [Module -> [Name -> Bindings]]
  /\ saved \in [Module -> SUBSET Name]
  /\ copied \in [Module -> SUBSET Name]
  /\ active \in BOOLEAN /\ numpyActive \in BOOLEAN
  /\ imports \in Seq(Frame)
  /\ blocks \in Seq(Block)

\* However calls, blocks, imports and modes follow one another, the NumPy
\* object behind every stand-in is remembered, so that unpatch_module can put
\* it back, except behind those that the module took over from another one.
NothingForgotten ==
  \A m \in Module, n \in Name :
    ns[m][n] \in StandIns => n \in saved[m] \cup copied[m]

\* array() looks for a calling __array__ method exactly while some module is
\* patched (patch_active in lib.rs and in _fallback.py).
ActiveWhilePatched == active <=> \E m \in Module : saved[m] # {}

\* As long as a dispatcher that patch_module bound is in place, in the type-
\* preserving mode, __array_namespace__ is NumPy: the package must hand its
\* compiled kernels real ndarrays.  A copy of the dispatcher outlives the flag.
NumpyNamespaceWhileNeeded ==
  (\E m \in Module, n \in Name : ns[m][n] = "dispatch" /\ n \notin copied[m])
    => numpyActive

\* After unpatch_module the names of the package that are left on lightarray
\* are those whose stand-in the module itself took over and that were never
\* patched, whatever mixture of modes, submodule and package calls there was.
UnpatchRestores ==
  [][\A m \in Module : UnpatchModule(m, TRUE)
       => \A x \in PackageModules(m, TRUE), n \in Name :
            ns'[x][n] \in StandIns <=> n \in copied[x] \ saved[x]]_vars

=============================================================================
