CONSTANTS
  IntSize = 4
  VecInts = 8
  UpdateInterval = 2
  SampleInterval = 3
  Sizes = {192, 256}
  Blocks = {22, 32, 50, 64, 128, 300}
  Strides = {30, 32, 64, 128}
SPECIFICATION Spec
CHECK_DEADLOCK FALSE
INVARIANTS StaysInPartition TilesThePartition ReportsAccesses RecordsAreComplete
