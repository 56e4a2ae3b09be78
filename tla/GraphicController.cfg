SPECIFICATION FairSpec
CONSTANTS
  Levels = {0}
  TimerMayFail = TRUE
INVARIANTS
  NothingStays
CHECK_DEADLOCK FALSE
PROPERTIES
  VolumeDrawn
  DeinitCompletes
  SurfaceOutlivesUsers
