SPECIFICATION FairSpec
CONSTANTS
  ServiceCount = 3
  Streams <- MCStreams
  EventServices = {}
  ConfigPrograms = {0}
  Keys = {"INFO"}
  Digits = {1}
  Env = {"setFilterFails", "streamCreateFails", "pidMismatch"}
INVARIANTS
  OnlyOwnedResources
PROPERTIES
  DeinitCompletes
CHECK_DEADLOCK FALSE
