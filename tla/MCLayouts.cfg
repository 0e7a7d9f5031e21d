SPECIFICATION Spec
CONSTANTS
  None = None
  Shapes <- MCShapes
  Keys <- MCKeys
  Rows <- MCRows
  NewShapes <- MCNewShapes
  Foreign <- MCForeign
  MAX_NDIM = 3
  MaxOps = 4
INVARIANTS
  TypeOK
  ElementsMatchNumPy
  DataInCOrder
  StridedOnlyIfScattered
  AcceptsWhatLiesInside
CHECK_DEADLOCK FALSE
