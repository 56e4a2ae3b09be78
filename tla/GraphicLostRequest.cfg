SPECIFICATION Spec
CONSTANTS
  Levels = {0, 1}
  TimerMayFail = FALSE
INVARIANTS
  ShowsLatestVolume
CHECK_DEADLOCK FALSE
