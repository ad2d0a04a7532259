CONSTANTS
  N = 3
  Blocks = 2
SPECIFICATION FairSpec
CHECK_DEADLOCK FALSE
INVARIANTS FreedDataIsUnused RequestHasOneOwner ReadsStartTogether
PROPERTIES CreatedReadersDrain FullSweepReturns
