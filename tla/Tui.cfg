SPECIFICATION FairSpec
CONSTANTS
  chrony = chrony
  gpsd = gpsd
  Units <- MCUnits
  ALLOW_SHELL = TRUE
  ADMIN = TRUE
  None = None
  HANDED_MAX = 2
INVARIANTS TypeOK EachScreenOnce RightJournal OneLateSnapshot
PROPERTIES ConsoleSpec BannerFollows LeavesInTheEnd
