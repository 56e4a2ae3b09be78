SPECIFICATION Spec
CONSTANTS
  MaxLevel = 3
  SetMayFail = FALSE
INVARIANTS
  PlaysIntended
