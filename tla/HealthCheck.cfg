SPECIFICATION FairSpec
CONSTANTS
  Units = {"chrony", "gpsd"}
  NoReading = NoReading
  MIN_SATELLITES = 4
  OFFSET_WARN = 1
  OFFSET_CRIT = 3
  TEMP_WARN = 70
  TEMP_CRIT = 80
  DISK_WARN = 85
  MEM_WARN = 90
  RESTART_AFTER = 2
  REBOOT_AFTER = 3
  MIN_UPTIME = 4
  REBOOT_ENABLED = TRUE
  Position <- MCPosition
  TALLY_MAX = 1
  Snapshots <- MCSnapshots
  StuckSets <- MCStuckSets
  HANG_BUDGET = 1
  MAX_FAILED_REBOOTS = 1
INVARIANTS TypeOK CountersBacked CommandsJustified
PROPERTIES RestartsBackOff PolicySpec RebootsUntilCured RecoveryIsRecorded
CHECK_DEADLOCK FALSE
