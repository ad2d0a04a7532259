SPECIFICATION SpecDataplane
CONSTANTS
  N = 3
  Blocks = 2
  Rounds = 2
CHECK_DEADLOCK FALSE
INVARIANTS RequestIsInOnePlace ThreadsHaveTheirMemory
PROPERTIES EveryTurnReported
