SPECIFICATION Spec
CONSTANTS
  Lines = {a, b}
  a = a
  b = b
  MaxSteps = 4
  MaxDrift = 2
  MaxContext = 1
INVARIANT InsertionTrustsHeader
CHECK_DEADLOCK FALSE
