CONSTANTS
  N = 3
  Ops = 3
  U = 2
  Order <- MCOrder
SPECIFICATION FairSpecRun
CHECK_DEADLOCK FALSE
INVARIANTS NoAccessWhilePreparing ProgressIsExact SavedAreOwnAndComplete
PROPERTIES MainAloneWithBuffers RunCompletes
