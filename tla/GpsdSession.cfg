SPECIFICATION Spec
CONSTANTS
  TIMEOUT = 3
  INTERVAL = 1
  Scenarios = {"3dfix", "nofix", "silent"}
  SATELLITES = 9
  MAX_CYCLES = 3
INVARIANTS TypeOK SessionBounded NoFixHasAReason OneMoment
