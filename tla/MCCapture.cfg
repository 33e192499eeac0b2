CONSTANTS
  Types <- AllTypes
  Links = {"DLT_EN10MB", "DLT_RAW"}
  Messages = {0, 1, 2, 4}
  MaxSent = 4
  SnapLength = 3
  LinkHeader <- MCLinkHeader
  Offset = 1
  PCAP_DISPATCH_PACKET_COUNT = 2
SPECIFICATION FairSpec
INVARIANTS
  CapturedInOrder
  OffsetAfterLink
  StopsExplained
PROPERTIES
  ArrivedIsHandled
  DispatchSpec
CHECK_DEADLOCK FALSE
