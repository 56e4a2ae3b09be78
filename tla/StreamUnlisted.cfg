SPECIFICATION FairSpec
CONSTANTS
  ServiceCount = 3
  Streams <- MCStreams
  EventServices = {}
  ConfigPrograms = {0}
  Keys = {}
  Digits = {2}
  Env = {}
PROPERTIES
  DeinitCompletes
CHECK_DEADLOCK FALSE
