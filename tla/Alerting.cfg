SPECIFICATION AlertingSpec
CONSTANTS
  Packages <- MCPackages
  HOLDS_FOR <- MCHoldsFor
  WEBHOOK = TRUE
  None = None
  COUNT_MAX = 1
INVARIANT AlertingTypeOK
PROPERTIES CriticalIsPaged AlertsClear
