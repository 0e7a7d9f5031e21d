SPECIFICATION Spec
CONSTANTS
  None = None
  Obj = {o1, o2, o3}
  Export = {h1, h2}
  Shape = {flat}
  MaxRefs = 2
SYMMETRY Symmetry
INVARIANTS
  TypeOK
  NoDangling
  CountsAreExact
  DeletedOnce
CHECK_DEADLOCK FALSE
