----------------------------- MODULE MCPatching -----------------------------
(***************************************************************************)
(* Patching with a package `pkg`, its submodule, and a sibling module that *)
(* the same distribution installs.                                         *)
(***************************************************************************)
EXTENDS Patching, TLC

CONSTANTS pkg, pkg_sub, sibling, np, asarray

MCKind == (np :> "alias") @@ (asarray :> "conversion")

MCRoot     == [m \in Module |-> IF m = pkg_sub THEN pkg ELSE m]
MCUnder    == [m \in Module |-> IF m = pkg THEN {pkg_sub} \cap Module ELSE {}]
MCSiblings == [m \in Module |-> IF m = pkg THEN {sibling} \cap Module ELSE {}]

\* pkg/__init__.py only imports its submodule, which has `import numpy as np`
\* and `from numpy import asarray`; the sibling has the former.  Either can take
\* np from the other instead.
MCImports ==
  [m \in Module |-> IF m = pkg_sub THEN {np, asarray}
                    ELSE IF m = sibling THEN {np} ELSE {}]

\* LIGHTARRAY_PATCH=pkg:numpy.
MCHook == pkg :> "numpy"

\* The hook only asks whether an import statement stands in the package it
\* imports from, and `recursive` means nothing for a module that has neither
\* submodules nor siblings: states that differ only there have the same future.
HasMore(m) == Under[m] \cup Siblings[m] # {}

Future ==
  <<loaded, ns, saved, copied, active, numpyActive,
    [i \in DOMAIN imports |->
       <<imports[i].module, RootOf(imports[i].by) = Root[imports[i].module]>>],
    [i \in DOMAIN blocks |->
       [blocks[i] EXCEPT !.recursive = @ /\ HasMore(blocks[i].module)]]>>

=============================================================================
