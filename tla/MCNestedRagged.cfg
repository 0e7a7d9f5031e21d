SPECIFICATION Spec
CONSTANTS
  Inputs <- MCInputs
  MAX_NDIM = 3
INVARIANT RaggedIsDeclined
CHECK_DEADLOCK FALSE
