SPECIFICATION Spec
CONSTANTS
  ServiceCount = 3
  Streams <- MCStreams
  EventServices = {}
  ConfigPrograms <- MCWrapped
  Keys = {"P+", "P-"}
  Digits = {2}
  Env = {"spuriousWakeup", "lateSection", "earlyKey"}
INVARIANTS
  TypeOK
  ScanInTable
  NoLostZap
CHECK_DEADLOCK FALSE
