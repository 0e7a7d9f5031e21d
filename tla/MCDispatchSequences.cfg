SPECIFICATION Spec
CONSTANTS
  Calls <- MCSequences
  MaxDepth = 20
INVARIANT NumPyIsNotReentered
CHECK_DEADLOCK FALSE
