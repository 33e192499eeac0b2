CONSTANTS
  Numbers = {0, 1, 3, 4, 6}
  MaxItems = 2
  MaxModifiers = 2
  Lengths = {0, 4, 5}
  BufferSizes = {1, 4}
SPECIFICATION Spec
INVARIANTS
  RangesAsDocumented
  CopiesSelection
  InsidePacket
CHECK_DEADLOCK FALSE
