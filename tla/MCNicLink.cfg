SPECIFICATION Spec
CONSTANTS
  a = a
  b = b
  c = c
  d = d
  Reader = {a, b, c, d}
  None = None
  Programs <- AllPrograms
  Service = 2
  Factor = 2
  Millisecond = 5
  Idle = 1
  Fixed = 4
  MaxNow = 6
SYMMETRY AnyReader
CHECK_DEADLOCK FALSE
INVARIANT ExpiresAfterArrival
PROPERTY ImplementsSerialLink
