SPECIFICATION FairSpec
CONSTANTS
  Units = {"chrony", "gpsd"}
  NoReading = NoReading
  MIN_SATELLITES = 4
  OFFSET_WARN = 1
  OFFSET_CRIT = 3
  TEMP_WARN = 70
  TEMP_CRIT = 80
  DISK_WARN = 85
  MEM_WARN = 90
  RESTART_AFTER = 1
  REBOOT_AFTER = 2
  MIN_UPTIME = 3
  REBOOT_ENABLED = TRUE
  Position <- MCPosition
  TALLY_MAX = 0
  Snapshots <- MCSnapshots
  StuckSets <- MCGpsdStuck
  HANG_BUDGET = 1
  MAX_FAILED_REBOOTS = 1
PROPERTIES RebootsUntilCuredAlways
CHECK_DEADLOCK FALSE
