SPECIFICATION FairSpec
CONSTANTS
  Sections <- MCSections
  MaxEntries = 2
  Following = {0, 77, 255}
INVARIANTS
  WalkOnEntries
  TableIsSection
PROPERTIES
  EventIsOwn
  ParseEnds
