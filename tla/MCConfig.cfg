CONSTANTS
  UINT32_MAX = 49
  RANGE_MIN = 5
  DEFAULT_MAX = 10
  Devices = {d1, d2}
  Filters = {f1}
  NoFilter = NoFilter
  DeviceTemplates = {"unset", "ts"}
  TemplateNames = {"lp", "ls"}
  StartIntervals <- MCStartIntervals
  Bounds <- MCBounds
  Shares <- MCShares
  Timeouts <- MCTimeouts
SPECIFICATION ConfigSpec
INVARIANTS
  RangeOrdered
  ResponseInForce
PROPERTY BoundMovesOther
