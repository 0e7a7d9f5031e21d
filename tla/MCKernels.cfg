SPECIFICATION Spec
CONSTANTS
  None = None
  NaN = NaN
  Arrays <- MCArrays
  Axes <- MCAxes
  Keys <- MCKeys
  Bounds <- MCBounds
  Half = 8
  MAX_NDIM = 3
  Lanes = 4
  MaxOps = 3
INVARIANTS
  TypeOK
  ResultsMatchNumPy
  RefusesWithNumPy
  WholeArrayReductions
  DescendingIsStable
CHECK_DEADLOCK FALSE
