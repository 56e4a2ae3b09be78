SPECIFICATION FairSpec
CONSTANTS
  Files <- MCFiles
  Leftovers <- MCLeftovers
  LastChannel = 1
  Env = {"createFails", "bringUpFails", "displayFails", "inputFails", "streamFails", "unlistedKey",
         "spuriousWakeup"}
INVARIANTS
  ReleasedOnce
  KeysFindTheirState
  CleanExit
  JoinsCanReturn
  ConfigFollowsFile
PROPERTIES
  ExitCloses
  TunerCallbackReturns
CHECK_DEADLOCK FALSE
