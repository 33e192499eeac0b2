CONSTANTS
  UINT32_MAX = 2
  RANGE_MIN = 1
  DEFAULT_MAX = 1
  Devices = {d1}
  NoDevice = NoDevice
  Filters = {}
  NoFilter = NoFilter
  DeviceTemplates = {"unset"}
  TemplateNames = {}
  StartIntervals <- OnOrOff
  Bounds <- None
  Shares <- None
  Timeouts <- MCTimeouts
  Hashes = {0, 1}
  ExportPacketCount = 2
  PCAP_DISPATCH_PACKET_COUNT = 2
  MaxPackets = 3
SPECIFICATION FairSpec
INVARIANTS
  TypeOK
  DeltaConserved
  SizeConserved
  ExportBufferBound
  RecordsAccounted
PROPERTIES
  AccountingSpec
  CachedIsFlushed
  SeenIsReported
  InterruptStops
CHECK_DEADLOCK FALSE
