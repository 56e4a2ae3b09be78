SPECIFICATION Spec
CONSTANTS
  ServiceCount = 3
  Streams <- MCStreams
  EventServices = {}
  ConfigPrograms = {0}
  Keys = {"P+", "INFO"}
  Digits = {}
  Env = {}
INVARIANTS
  InfoMatchesPlayer
CHECK_DEADLOCK FALSE
