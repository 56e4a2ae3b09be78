SPECIFICATION Spec
CONSTANTS
  ServiceCount = 3
  Streams <- MCStreams
  EventServices = {}
  ConfigPrograms = {0}
  Keys = {"P+"}
  Digits = {}
  Env = {}
INVARIANTS
  PlaysCurrentChannel
CHECK_DEADLOCK FALSE
