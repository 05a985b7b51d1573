SPECIFICATION FairSpec
CONSTANTS
  Packages <- MCPackages
  openssl = openssl
  WEBHOOK = TRUE
  None = None
  COUNT_MAX = 1
INVARIANTS TypeOK ReceiverInStep NeverToldTwice AnnouncedOnce
PROPERTIES PageSurvivesBrokenWebhook
