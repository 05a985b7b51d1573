SPECIFICATION Spec
CONSTANTS
  Packages <- MCPackages
  openssl = openssl
  WEBHOOK = TRUE
  None = None
  COUNT_MAX = 2
INVARIANTS EverySendCounted
