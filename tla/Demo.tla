---------------------------------- MODULE Demo ----------------------------------
(***************************************************************************)
(* tui/demo.py: the snapshots `mother-ticker tui --demo` and the           *)
(* screenshots are drawn from, under the thresholds of a unit without a    *)
(* configuration file.  Offsets are in nanoseconds, ages, temperatures and *)
(* percentages in thousandths, times in seconds.                           *)
(***************************************************************************)
EXTENDS Config, FiniteSets

CONSTANTS NoReading, NoDevice, Unreadable, Garbled, Refused, Failed

(* from thousandths of a second *)
Nanoseconds(ms) == 1000000 * ms

Unit == INSTANCE Display WITH
  Units <- {"chrony", "gpsd"}, SECOND <- 1000, STALE_AFTER <- Fraction.pps_stale_after_s,
  MIN_SATELLITES <- Whole.min_satellites,
  OFFSET_WARN <- Nanoseconds(Fraction.offset_warn_s),
  OFFSET_CRIT <- Nanoseconds(Fraction.offset_crit_s),
  TEMP_WARN <- Fraction.temp_warn_c, TEMP_CRIT <- Fraction.temp_crit_c,
  DISK_WARN <- Fraction.disk_warn_pct, MEM_WARN <- Fraction.mem_warn_pct

DemoState == {"nominal", "warning", "critical"}

(* SATS by position, as far as they are used: the first nine are. *)
SATS == [i \in 1 .. 14 |-> i <= 9]
Satellites(state) == [i \in DOMAIN SATS |-> SATS[i] /\ state # "critical"]

DemoGnss(state) ==
  [reachable |-> TRUE, fix_mode |-> IF state = "critical" THEN 1 ELSE 3,
   satellites_used |-> IF state = "critical" THEN 0 ELSE 9, satellites_seen |-> 14]

DemoTracking(state) ==
  [reachable |-> TRUE,
   leap_status |-> IF state = "critical" THEN "Not synchronised" ELSE "Normal",
   stratum |-> IF state = "critical" THEN 0 ELSE IF state = "warning" THEN 2 ELSE 1,
   offset |-> IF state = "warning" THEN -120000 ELSE -21]

(* The age of the last edge beside whether it is pulsing, as collect_pps has them. *)
DemoAge(state) == IF state = "critical" THEN 12000 ELSE 400
DemoPps(state) == [present |-> TRUE, error |-> FALSE, pulsing |-> state # "critical"]

DemoSystem(state) ==
  [temperature |-> IF state = "warning" THEN 71500 ELSE 52600, flags |-> {}, throttled |-> {},
   disk |-> (1000 * 4600) \div 310,
   mem |-> 1000 * Unit!MemUsed([total |-> 916256, available |-> 702000])]

DemoUpdates(state) ==
  [age |-> 10800, pending |-> IF state = "warning" THEN 7 ELSE 0,
   security |-> IF state = "warning" THEN 2 ELSE 0, reboot_required |-> FALSE, error |-> FALSE]

demo_snapshot(state) ==
  [pps |-> DemoPps(state), gnss |-> DemoGnss(state), tracking |-> DemoTracking(state),
   services |-> [u \in {"chrony", "gpsd"} |-> "active"],
   system |-> DemoSystem(state), updates |-> DemoUpdates(state)]

(***************************************************************************)
(* DemoApp: the same app with every privileged action replaced; what each  *)
(* says is only a notification.  The admin login is offered even when no   *)
(* administrator is configured.                                            *)
(***************************************************************************)
DemoConfig(settings) ==
  IF settings.admin_user = NoText THEN [settings EXCEPT !.admin_user = "admin"] ELSE settings

=============================================================================
