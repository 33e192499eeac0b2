CONSTANTS
  Packets <- IPv6
  LengthBytes = {0, 1, 255}
SPECIFICATION Spec
INVARIANT OptionsSkipped
CHECK_DEADLOCK FALSE
