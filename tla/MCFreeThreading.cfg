SPECIFICATION Spec
CONSTANTS
  Threads = {t1, t2}
  a = a
  v = v
  w = w
  None = None
  Arrays <- MCArrays
  Views <- MCViews
  CellsOf <- MCCellsOf
  Size = 3
  Values <- MCValues
  Zero = 0
  Updates <- MCUpdates
  Contract = "arrays"
  MaxOps = 2
SYMMETRY MCSymmetry
INVARIANTS
  TypeOK
  GuaranteesAreNumPys
CHECK_DEADLOCK FALSE
