SPECIFICATION FairSpec
CONSTANTS
  ServiceCount = 4
  Streams <- MCStreams
  EventServices = {0, 2}
  ConfigPrograms = {2, 3}
  Keys = {"P+", "P-"}
  Digits = {0, 2}
  Env = {}
INVARIANTS
  FreshPmt
  InfoMatchesPlayer
  InfoTellsPmt
  WaitsAreAnswered
PROPERTIES
  ConfigCheckTellsTruth
  EventFollowsChannel
  HandsOverLatest
  ZapServed
  StartCompletes
CHECK_DEADLOCK FALSE
