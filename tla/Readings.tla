------------------------------- MODULE Readings -------------------------------
(***************************************************************************)
(* From what the host answers to the snapshot evaluate() looks at: the     *)
(* collectors (pps.py, gpsd.py, chrony.py, services.py, system.py), each   *)
(* with the ways its source can fail.  And from the snapshot to the        *)
(* metrics served or sent (metrics/model.py).                              *)
(*                                                                         *)
(* A host is a record of what each source would answer:                    *)
(*   pps       the age of the last edge, or NoDevice, Unreadable, Garbled  *)
(*   gpsd      the reports of one session in order, or Refused             *)
(*   tracking, sources   chronyc's two outputs, or Failed                  *)
(*   show      per unit, its ActiveState, or Failed                        *)
(*   thermal   the temperature, or NoReading                               *)
(*   throttled the bits set, or NoReading                                  *)
(*   memory    [total, available], zeros when unreadable                   *)
(*   disk      per cent                                                    *)
(*   updates   the state file of the update check, or Failed               *)
(*                                                                         *)
(* Definitions named ..._BUG are mistakes the runs must notice; nothing    *)
(* uses them.                                                              *)
(***************************************************************************)
EXTENDS HealthEvaluate, GpsdReports

CONSTANTS
  NoDevice, Unreadable, Garbled, Refused, Failed,
  SECOND,           \* a second, in the unit of the ages
  STALE_AFTER       \* pps.stale_after_s

(* What cannot be read is no number, and no answer is no state of a unit. *)
ASSUME ReadingsAssumption ==
  /\ {MIN_SATELLITES, OFFSET_WARN, OFFSET_CRIT, TEMP_WARN, TEMP_CRIT, DISK_WARN, MEM_WARN} \subseteq Int
  /\ SECOND \in Nat \ {0} /\ STALE_AFTER \in Nat
  /\ {NoReading, NoDevice, Unreadable, Garbled} \cap Int = {}
  /\ NoDevice \notin {Unreadable, Garbled}
  /\ Failed # "active"

-----------------------------------------------------------------------------
(* collect_pps, evaluate_pps: an edge up to a second in the future is one  *)
(* that came while the clock was being read.                               *)

Fresh(age) == (0 <= age /\ age <= STALE_AFTER) \/ (age < 0 /\ -age < SECOND)

CollectPps(pps) ==
  [present |-> pps # NoDevice,
   error |-> pps \in {NoDevice, Unreadable, Garbled},
   pulsing |-> pps \notin {NoDevice, Unreadable, Garbled} /\ Fresh(pps)]

-----------------------------------------------------------------------------
(* collect_gnss: the session is GpsdSession's, the reports GpsdReports'. *)

CollectGnss(gpsd) ==
  IF gpsd = Refused THEN Unreachable ELSE Conclude(gpsd)

-----------------------------------------------------------------------------
(* collect_chrony: one try around both commands, so that chronyd counts as *)
(* not answering when either of them fails.                                *)

NotAnswering == [reachable |-> FALSE, leap_status |-> "", stratum |-> 0, offset |-> 0]

CollectChrony(tracking, sources) ==
  IF tracking = Failed THEN NotAnswering
  ELSE IF sources = Failed THEN NotAnswering
  ELSE [reachable |-> TRUE, leap_status |-> tracking.leap_status,
        stratum |-> tracking.stratum, offset |-> tracking.offset]

-----------------------------------------------------------------------------
(* collect_service, parse_show: a systemctl that fails to say is "unknown". *)

CollectServices(show) == [u \in Units |-> IF show[u] = Failed THEN "unknown" ELSE show[u]]

-----------------------------------------------------------------------------
(* collect_system, throttle_reasons, mem_used_pct. *)

(* Of the bits of THROTTLE_BITS; others have no words. *)
ThrottleReasons(bits) ==
  IF bits = NoReading THEN {}
  ELSE { IF b < 16 THEN "now" ELSE "occurred" : b \in bits \cap (0 .. 3 \cup 16 .. 19) }

MemUsed(memory) ==
  IF memory.total = 0 THEN 0 ELSE (100 * (memory.total - memory.available)) \div memory.total

CollectSystem(host) ==
  [temperature |-> host.thermal, flags |-> host.throttled,
   throttled |-> ThrottleReasons(host.throttled),
   disk |-> host.disk, mem |-> MemUsed(host.memory)]

-----------------------------------------------------------------------------
(* collect_updates, load_state: no file, or a corrupt one, is "never       *)
(* checked".  age is the time since the check, in days.                    *)

NotChecked ==
  [age |-> NoReading, pending |-> 0, security |-> 0, reboot_required |-> FALSE, error |-> FALSE]

CollectUpdates(updates) == IF updates = Failed THEN NotChecked ELSE updates

-----------------------------------------------------------------------------

(* gather() *)
Gather(host) ==
  [pps |-> CollectPps(host.pps),
   gnss |-> CollectGnss(host.gpsd),
   tracking |-> CollectChrony(host.tracking, host.sources),
   services |-> CollectServices(host.show),
   system |-> CollectSystem(host),
   updates |-> CollectUpdates(host.updates)]

(***************************************************************************)
(* snapshot_to_metrics: the values under the metrics' names, those without *)
(* a reading left out; a metric per unit is a function of the unit.        *)
(***************************************************************************)
Bit(condition) == IF condition THEN 1 ELSE 0

ServiceActive(services) == [u \in Units |-> Bit(services[u] = "active")]

UpdatesMetrics(upd) ==
  [updates_pending |-> upd.pending,
   security_updates_pending |-> upd.security,
   reboot_required |-> Bit(upd.reboot_required),
   updates_checked |-> Bit(upd.age # NoReading),
   updates_check_age |-> upd.age]

SnapshotToMetrics_BUG(snapshot, report) ==     \* reachable taken for synchronised
  [health_level |-> report.level,
   gnss_fix_mode |-> snapshot.gnss.fix_mode,
   pps_pulsing |-> Bit(snapshot.pps.pulsing),
   chrony_synchronised |-> Bit(snapshot.tracking.reachable),
   chrony_system_offset_seconds |-> snapshot.tracking.offset,
   soc_temperature_celsius |-> snapshot.system.temperature,
   service_active |-> ServiceActive(snapshot.services)]

SnapshotToMetrics(snapshot, report) ==
  [health_level |-> report.level,
   gpsd_reachable |-> Bit(snapshot.gnss.reachable),
   gnss_fix_mode |-> snapshot.gnss.fix_mode,
   gnss_satellites_used |-> snapshot.gnss.satellites_used,
   pps_present |-> Bit(snapshot.pps.present),
   pps_pulsing |-> Bit(snapshot.pps.pulsing),
   chrony_reachable |-> Bit(snapshot.tracking.reachable),
   chrony_synchronised |-> Bit(Synchronised(snapshot.tracking)),
   chrony_stratum |-> snapshot.tracking.stratum,
   chrony_system_offset_seconds |-> snapshot.tracking.offset,
   memory_used_percent |-> snapshot.system.mem,
   disk_used_percent |-> snapshot.system.disk,
   soc_temperature_celsius |-> snapshot.system.temperature,
   service_active |-> ServiceActive(snapshot.services),
   updates |-> UpdatesMetrics(snapshot.updates)]

(* build_message: the metrics as the body, the level as the severity. *)
SEVERITY_BY_LEVEL == [l \in Level |-> IF l = CRITICAL THEN 2 ELSE IF l = WARNING THEN 4 ELSE 6]

BuildMessage(metrics, level) ==
  [severity |-> SEVERITY_BY_LEVEL[level], body |-> [metrics EXCEPT !.health_level = level]]

-----------------------------------------------------------------------------
(* For the properties: the answers of a host. *)

Tracking ==                            \* a stratum is above 0 once there is a source
  { t \in [leap_status : {"Normal", "Insert second", "Delete second", "Not synchronised"},
           stratum : Nat, offset : Int] :
      t.leap_status # "Not synchronised" => t.stratum > 0 }

Report == [class : {"VERSION"}] \cup [class : {"TPV"}, mode : 0 .. 3]
          \cup [class : {"SKY"}, used : Int] \cup [class : {"SKY"}, uSat : Int, used : Int]

ActiveState == {"active", "reloading", "inactive", "failed", "activating", "deactivating"}

Checks ==                              \* security updates are among the pending ones
  { c \in [age : Int, pending : Nat, security : Nat, reboot_required : BOOLEAN, error : BOOLEAN] :
      c.security <= c.pending }

Host == [pps : {NoDevice, Unreadable, Garbled} \cup Int, gpsd : {Refused} \cup Seq(Report),
         tracking : {Failed} \cup Tracking, sources : {"listed", Failed},
         show : [Units -> ActiveState \cup {Failed}],
         thermal : Int \cup {NoReading}, throttled : {NoReading} \cup SUBSET Nat,
         memory : [total : Nat, available : Int], disk : Int, updates : {Failed} \cup Checks]

(* What is critical, on what the host answers. *)

HasFix(reports) ==
  \E i \in DOMAIN reports :
    /\ reports[i].class = "TPV" /\ reports[i].mode \in {2, 3}
    /\ \A j \in DOMAIN reports : reports[j].class = "TPV" => j <= i

Gone(host) ==
  { n \in Subsystem :
      \/ n = "pps" /\ host.pps \notin (1 - SECOND) .. STALE_AFTER
      \/ n = "gnss" /\ (host.gpsd = Refused \/ ~HasFix(host.gpsd))
      \/ n = "chrony" /\ \/ Failed \in {host.tracking, host.sources}
                         \/ host.tracking.leap_status = "Not synchronised"
                         \/ host.tracking.offset \notin (1 - OFFSET_CRIT) .. (OFFSET_CRIT - 1)
      \/ n = "service" /\ \E u \in Units : host.show[u] # "active"
      \/ n = "system" /\ host.thermal # NoReading /\ host.thermal >= TEMP_CRIT }

MatchesAlertTable(host) ==
  LET report == Evaluate(Gather(host))
      gone == Gone(host)
  IN  /\ CriticalSubsystems(report) = gone
      /\ \A p, q \in report.problems :
           (/\ p.level = CRITICAL /\ q.level = CRITICAL
            /\ p.subsystem = q.subsystem /\ p.subsystem # "service") => p = q
      /\ (report.level = CRITICAL) <=> (gone # {})
      /\ gone # {} => { p.subsystem : p \in Headline(report) } = gone
      /\ (report.level = OK) <=> (Headline(report) = {})

(* A critical level, and why, is in the metrics. *)
ShowsInMetrics(snapshot) ==
  LET report == Evaluate(snapshot)
      message == BuildMessage(SnapshotToMetrics(snapshot, report), report.level)
      m == message.body
      critical == \/ m.pps_pulsing = 0
                  \/ m.gnss_fix_mode < 2
                  \/ m.chrony_synchronised = 0
                  \/ Magnitude(m.chrony_system_offset_seconds) >= OFFSET_CRIT
                  \/ /\ m.soc_temperature_celsius # NoReading
                     /\ m.soc_temperature_celsius >= TEMP_CRIT
                  \/ \E u \in Units : m.service_active[u] = 0
  IN  (m.health_level = CRITICAL <=> critical) /\ (message.severity = 2 <=> critical)

=============================================================================
