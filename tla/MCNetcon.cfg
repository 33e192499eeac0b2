CONSTANTS
  Fds = {5, 6}
  MaxConnects = 4
SPECIFICATION FairSpec
INVARIANTS
  TypeOK
  DistinctSlots
  SlotsBounded
  CurrentSlotWatched
PROPERTY SlotFollowsCollector
CHECK_DEADLOCK FALSE
