SPECIFICATION FairSpec
CONSTANTS
  MaxLevel = 3
  SetMayFail = FALSE
INVARIANTS
  TypeOK
  NeverLouder
  RightOrSilent
PROPERTIES
  VolumeServed
