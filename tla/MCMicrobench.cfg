SPECIFICATION Spec
CONSTANTS
  Run = {1, 2}
  Commands <- OneOrTwo
  Unset = Unset
  d = d
  CpusOf <- Topology
  NoSuchNode <- Holes
  IntMax = 7
  PageSize = 3
  PagesPerMib = 2
  ChaseMib = 4
  Seconds = 1
INVARIANTS TestsFitTheMemory PreTouchIsHonest RowMatchesHeader WorkersSpread
CHECK_DEADLOCK FALSE
