SPECIFICATION Spec
CONSTANTS
  pkg = pkg
  pkg_sub = pkg_sub
  sibling = sibling
  np = np
  asarray = asarray
  Main = Main
  Module = {pkg, pkg_sub, sibling}
  Name = {np, asarray}
  Kind <- MCKind
  Root <- MCRoot
  Under <- MCUnder
  Siblings <- MCSiblings
  Imports <- MCImports
  Mode = {"lightarray", "numpy"}
  HookMode <- MCHook
  MaxBlocks = 2
VIEW Future
INVARIANTS
  TypeOK
  NothingForgotten
  ActiveWhilePatched
  NumpyNamespaceWhileNeeded
PROPERTIES
  UnpatchRestores
