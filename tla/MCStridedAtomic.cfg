SPECIFICATION AtomicSpec
CONSTANTS
  Arr = {a1, a2, a3}
  None = None
  Val = {0, 1}
  Zero = 0
  Op <- MCOp
  Contents <- MCContents
  Selections <- MCSelections
SYMMETRY Symmetry
VIEW Future
INVARIANTS
  TypeOK
  ViewsAreInOwners
  StorageMatchesKind
PROPERTIES
  ImplementsSharedMemory
CHECK_DEADLOCK FALSE
