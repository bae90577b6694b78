SPECIFICATION Spec
CONSTANTS
  BufferSize = 4
  Boundary = 16
  Thresholds = {2, 4}
  AvailMin = 2
  MaxWrite = 5
  Ahead = 2
CHECK_DEADLOCK FALSE
INVARIANTS
  NeverOverwrites
