SPECIFICATION Spec
CONSTANTS
  Inputs <- MCInputs
  MAX_NDIM = 3
INVARIANTS
  TypeOK
  NothingIsLost
  RegularIsNative
PROPERTY Decided
CHECK_DEADLOCK FALSE
