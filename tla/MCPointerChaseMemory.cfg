SPECIFICATION SpecChase
CONSTANTS
  NumNodes = 3
  NodeInts = 2
  VectorInts = 2
  Warmup = 2
  NumSamples = 3
  NumLoad = 2
  ChaseSizes <- ManySizes
  MaxNode = 1
  NoMembind = NoMembind
  MaxAccesses = 4
CHECK_DEADLOCK FALSE
INVARIANTS AccessesStayInMemory
