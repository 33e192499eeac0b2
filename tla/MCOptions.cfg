CONSTANTS
  UINT32_MAX = 49
  RANGE_MIN = 5
  DEFAULT_MAX = 10
  MAX_INTERFACES = 2
  MaxOpen = 2
  HostNameLengths = {7, 8}
  Addresses <- MCAddresses
  Files <- MCFiles
  Expressions <- MCExpressions
  FunctionNames <- MCFunctionNames
  CommandLines <- MCCommandLines
SPECIFICATION FairSpec
INVARIANTS
  PrecedenceByOrder
  DevicesAsGiven
  LogAsAsked
PROPERTY ParsingEnds
CHECK_DEADLOCK FALSE
