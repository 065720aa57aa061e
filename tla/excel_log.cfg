SPECIFICATION Spec
CONSTANTS
  Workers = {w1, w2}
  RotateSize = 2
  MonthLength = 2
  MaxNow = 2
  ImportRows = {2}
  MaxBatches = 3
  MaxCrashes = 1
SYMMETRY Threads
CHECK_DEADLOCK FALSE
INVARIANTS TypeOK LossNeedsOverlap FilesInOrder RotationBound
PROPERTY WedgeLasts
