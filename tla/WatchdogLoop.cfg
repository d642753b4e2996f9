SPECIFICATION FairSpec
CONSTANTS
  Heartbeat = 15
  Tick = 5
  Stall = 30
  InitialDelay = 2
  MaxDelay = 300
  MaxRetries = 7
  StartupDeadline = 60
  WatchdogSec = 30
  StartTimeout = 90
  BusyTimeout = 5
  Work = {5, 15, 60}
CHECK_DEADLOCK FALSE
INVARIANTS
  BudgetOutOfReach
PROPERTIES
  EndedForCause
  StallIsFatal
  BudgetIsSpent
  UnreadyIsEnded
