--------------------------------- MODULE Rules ---------------------------------
(***************************************************************************)
(* What is made of the metrics outside the unit: the expressions of the    *)
(* alert rules (grafana/rules/mother-ticker.rules.yml) and the colours of  *)
(* the Grafana dashboard's stat panels (gen_grafana_dashboard.py).  Both   *)
(* repeat thresholds that evaluate() takes from the configuration.         *)
(* The rules about counters over an hour, and `up`, are not here.          *)
(***************************************************************************)
EXTENDS Display

CONSTANTS RULE_OFFSET, RULE_TEMP     \* 0.001 s and 75 C

(* The unit warns no later than the rules that have a threshold of their own. *)
ASSUME RulesAssumption ==
  /\ RULE_OFFSET \in Int /\ OFFSET_WARN <= RULE_OFFSET + 1
  /\ RULE_TEMP \in Int /\ TEMP_WARN <= RULE_TEMP + 1

GREEN == 0
AMBER == 1
RED == 2

Rule == {"Critical", "Warning", "PpsSilent", "NoFix", "NotStratum1", "Offset", "Hot",
         "SecurityUpdates", "RebootRequired", "UpdateCheckStale"}

Severity == [r \in Rule |-> IF r \in {"Critical", "PpsSilent"} THEN "critical" ELSE "warning"]

Expr_BUG(r, m) ==            \* rules on the wrong metric
  \/ r = "Critical" /\ m.health_level >= 2
  \/ r = "NotStratum1" /\ m.chrony_stratum # 1 /\ m.chrony_synchronised = 1
  \/ r = "SecurityUpdates" /\ m.updates.updates_pending > 0

(* An expression over a metric that is not there holds for nothing. *)
Expr(r, m) ==
  \/ r = "Critical" /\ m.health_level >= 2
  \/ r = "Warning" /\ m.health_level = 1
  \/ r = "PpsSilent" /\ m.pps_pulsing = 0 /\ m.pps_present = 1
  \/ r = "NoFix" /\ m.gnss_fix_mode < 3 /\ m.gpsd_reachable = 1
  \/ r = "NotStratum1" /\ m.chrony_stratum # 1 /\ m.chrony_synchronised = 1
  \/ r = "Offset" /\ Magnitude(m.chrony_system_offset_seconds) > RULE_OFFSET
  \/ r = "Hot" /\ m.soc_temperature_celsius # NoReading /\ m.soc_temperature_celsius > RULE_TEMP
  \/ r = "SecurityUpdates" /\ m.updates.security_updates_pending > 0
  \/ r = "RebootRequired" /\ m.updates.reboot_required = 1
  \/ r = "UpdateCheckStale" /\ m.updates.updates_check_age # NoReading
                            /\ m.updates.updates_check_age > 3

Fires(m) == { r \in Rule : Expr(r, m) }

-----------------------------------------------------------------------------
(* The stat panels: a base colour and steps upwards.  The check's age is   *)
(* without a colour when there was no check.                               *)

Steps(v, low, step1, mid, step2, high) ==
  IF v >= step2 THEN high ELSE IF v >= step1 THEN mid ELSE low

Stats(m) ==
  [health |-> Steps(m.health_level, GREEN, 1, AMBER, 2, RED),
   stratum |-> Steps(m.chrony_stratum, RED, 1, GREEN, 2, AMBER),
   fix |-> Steps(m.gnss_fix_mode, RED, 2, AMBER, 3, GREEN),
   satellites |-> Steps(m.gnss_satellites_used, RED, 4, AMBER, 6, GREEN),
   pps |-> IF m.pps_pulsing >= 1 THEN GREEN ELSE RED,
   synchronised |-> IF m.chrony_synchronised >= 1 THEN GREEN ELSE RED]

UpdateStats(upd) ==
  [security |-> IF upd.security_updates_pending >= 1 THEN AMBER ELSE GREEN,
   reboot |-> IF upd.reboot_required >= 1 THEN AMBER ELSE GREEN,
   check |-> IF upd.updates_check_age = NoReading THEN GREEN
             ELSE Steps(upd.updates_check_age, GREEN, 2, AMBER, 3, RED)]

TimeStats == {"stratum", "fix", "pps", "synchronised"}

-----------------------------------------------------------------------------
(* For the properties: what the rules and the stats have to do with the level. *)

AboutUpdates == {"SecurityUpdates", "RebootRequired", "UpdateCheckStale"}

RulesFollow(snapshot, report) ==
  LET m == SnapshotToMetrics(snapshot, report)
      fires == Fires(m)
      stats == Stats(m)
      updates == UpdateStats(m.updates)
  IN  /\ fires \ AboutUpdates # {} => report.level > OK
      /\ (\E r \in fires : Severity[r] = "critical") <=> report.level = CRITICAL
      /\ {"SecurityUpdates", "RebootRequired"} \cap fires # {} => UpdatesText(snapshot.updates) # {}
      /\ updates.security = AMBER <=> "SecurityUpdates" \in fires
      /\ "UpdateCheckStale" \in fires => updates.check = RED
      /\ \A s \in TimeStats : stats[s] <= stats.health
      /\ stats.health = RED =>
           \/ RED \in { stats[s] : s \in TimeStats }
           \/ \E p \in Headline(report) : p.subsystem \in {"service", "chrony", "system"}

=============================================================================
