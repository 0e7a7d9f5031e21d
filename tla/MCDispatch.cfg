SPECIFICATION Spec
CONSTANTS
  Calls <- MCCalls
  MaxDepth = 20
INVARIANTS
  TypeOK
  DtypesMatchNumPy
  MemoryMatchesNumPy
  OutReturned
  EveryRunCounted
  NumPyIsNotReentered
  ResultsHaveTheRightClass
PROPERTY Answered
CHECK_DEADLOCK FALSE
