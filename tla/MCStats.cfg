CONSTANTS
  Word = 6
  Boot <- MCBoot
  MaxTicks = 3
  STATS_MISSING = STATS_MISSING
SPECIFICATION Spec
INVARIANTS
  CpuTimeTiled
  ProcessTimeOnce
  ProcessWithinBusy
  ReportDelivered
