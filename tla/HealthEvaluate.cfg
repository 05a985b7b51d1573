SPECIFICATION Spec
CONSTANTS
  Units = {"chrony", "gpsd"}
  NoReading = NoReading
  NoDevice = NoDevice
  Unreadable = Unreadable
  Garbled = Garbled
  Refused = Refused
  Failed = Failed
  SECOND = 2
  STALE_AFTER = 6
  MIN_SATELLITES = 4
  OFFSET_WARN = 1
  OFFSET_CRIT = 3
  TEMP_WARN = 70
  TEMP_CRIT = 80
  DISK_WARN = 1
  MEM_WARN = 90
  RULE_OFFSET = 1
  RULE_TEMP = 75
  MAX_OFF = 2
INVARIANTS CriticalMatchesAlertTable CriticalShowsInMetrics ScreensTell RulesAgree
PROPERTIES WorseNeverLooksBetter
