SPECIFICATION Spec
CONSTANTS
  Requests = 2
  Blocks = 2
  Rounds = 3
INVARIANTS VerifyNeverFails PhasesDoNotOverlap
PROPERTIES EndsWithCumulativeRows
