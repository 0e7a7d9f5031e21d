SPECIFICATION Spec
CONSTANTS
  Arr = {a1, a2, a3}
  None = None
  Val = {0, 1}
  Zero = 0
  Op <- MCOp
  Contents <- MCFewContents
  Selections <- MCFewSelections
SYMMETRY Symmetry
VIEW Future
INVARIANTS
  CallsUseSeenData
PROPERTIES
  ImplementsSharedMemory
CHECK_DEADLOCK FALSE
