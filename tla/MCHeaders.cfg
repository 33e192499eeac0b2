CONSTANTS
  Packets <- MCPackets
  LengthBytes = {0, 1, 255}
SPECIFICATION Spec
INVARIANTS
  TypeOK
  TransportFound
  OffsetsOrdered
  HopInvariant
  RecordMatchesTemplate
CHECK_DEADLOCK FALSE
