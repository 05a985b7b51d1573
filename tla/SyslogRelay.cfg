SPECIFICATION FairSpec
CONSTANTS
  c1 = c1
  c2 = c2
  Conns <- MCConns
  None = None
  LEN = 2
  BUFFER = 3
  MAX_MSG = 4
INVARIANTS TypeOK NoMergedMessages FailuresSurfaced
PROPERTIES LogSpec RelayHearsAgain
