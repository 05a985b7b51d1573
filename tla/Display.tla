-------------------------------- MODULE Display --------------------------------
(***************************************************************************)
(* What a reader is told of a snapshot: the dashboard's banner and four    *)
(* panels (screens.py, format.py), the detail screens, and `mother-ticker  *)
(* status`.  The panels' words come from format.py, their colours from     *)
(* evaluate(): two chains of conditions over the same readings.            *)
(*                                                                         *)
(* A line is a tuple that starts with its words; numbers are kept, their   *)
(* formatting is not.                                                      *)
(***************************************************************************)
EXTENDS Readings

FIX_LABELS == [m \in 0 .. 3 |-> <<"no data", "no fix", "2D fix", "3D fix">>[m + 1]]

FixLabel(gnss) ==
  IF ~gnss.reachable THEN "gpsd unreachable"
  ELSE IF gnss.fix_mode \in 0 .. 3 THEN FIX_LABELS[gnss.fix_mode] ELSE "mode"

GnssSummary(gnss) ==
  IF ~gnss.reachable THEN <<"gpsd UNREACHABLE">> ELSE <<FixLabel(gnss), gnss.satellites_used>>

PpsSummary_BUG(pps) ==       \* an error is shown as a missing pulse
  IF ~pps.present THEN <<"device MISSING">>
  ELSE IF pps.pulsing THEN <<"pulsing">> ELSE <<"NO PULSE">>

PpsSummary(pps) ==
  IF ~pps.present THEN <<"device MISSING">>
  ELSE IF pps.error THEN <<"unreadable">>
  ELSE IF pps.pulsing THEN <<"pulsing">> ELSE <<"NO PULSE">>

ChronySummary(tracking) ==
  IF ~tracking.reachable THEN <<"chronyd NOT ANSWERING">>
  ELSE IF ~Synchronised(tracking) THEN <<"NOT SYNCHRONISED">>
  ELSE <<"stratum", tracking.stratum, tracking.offset, tracking.leap_status>>

SystemLines(system) ==
  { IF system.temperature = NoReading THEN <<"SoC temp unknown">>
    ELSE <<"SoC temp", system.temperature>>,
    <<"Memory", system.mem>>, <<"Disk /", system.disk>>,
    IF system.flags = NoReading THEN <<"Throttle vcgencmd unavailable">>
    ELSE IF system.throttled = {} THEN <<"Throttle none">>
    ELSE <<"Throttle", system.throttled>> }

UpdatesLines(upd) ==
  IF upd.age = NoReading THEN {<<"Updates not checked yet">>}
  ELSE { <<"Updates", upd.pending, upd.security, upd.reboot_required, upd.age>> }
       \cup { <<"Check err">> : e \in {upd.error} \cap {TRUE} }

UpdatesText(upd) ==
  IF upd.age = NoReading THEN {}
  ELSE IF upd.reboot_required THEN {"reboot required"}
  ELSE IF upd.pending > 0 THEN {"updates available"} ELSE {}

-----------------------------------------------------------------------------
(* DashboardScreen._show_snapshot.  A panel takes the level of one         *)
(* subsystem.  evaluate() names no "updates", which the host panel asks    *)
(* for.                                                                    *)

PanelOf(report, subsystem, words) == [level |-> BySubsystem(report, subsystem), words |-> words]

Dashboard(snapshot, report) ==
  [banner |-> [level |-> report.level, problems |-> Headline(report)],
   gnss |-> PanelOf(report, "gnss", GnssSummary(snapshot.gnss)),
   chrony |-> PanelOf(report, "chrony", ChronySummary(snapshot.tracking)),
   pps |-> PanelOf(report, "pps", PpsSummary(snapshot.pps)),
   updates |-> PanelOf(report, "updates", UpdatesText(snapshot.updates))]

SystemScreen(snapshot) == SystemLines(snapshot.system) \cup UpdatesLines(snapshot.updates)

ServicesScreen(snapshot) == { <<u, snapshot.services[u]>> : u \in Units }

(* cmd_status: what it prints, and its exit status *)
Status(snapshot, report) ==
  [health |-> Headline(report), gnss |-> FixLabel(snapshot.gnss),
   pps |-> IF snapshot.pps.pulsing THEN "pulsing" ELSE "NOT pulsing",
   leap |-> IF snapshot.tracking.leap_status = "" THEN "-" ELSE snapshot.tracking.leap_status,
   exit |-> report.level]

-----------------------------------------------------------------------------
(* For the properties. *)

Panels == {"gnss", "chrony", "pps", "updates"}

(* The words that say that something is wrong. *)
Alarming == {"gpsd UNREACHABLE", "no data", "no fix", "2D fix",
             "chronyd NOT ANSWERING", "NOT SYNCHRONISED",
             "device MISSING", "unreadable", "NO PULSE"}

(* A problem is on the dashboard: named by the banner, or a colour at least as bad. *)
OnDashboard(dash, p) ==
  \/ p \in dash.banner.problems
  \/ p.subsystem \in Panels /\ dash[p.subsystem].level >= p.level

Hidden(snapshot, report) ==
  { p \in report.problems : ~OnDashboard(Dashboard(snapshot, report), p) }

HidesOnlyTheHost(snapshot, report) ==
  Hidden(snapshot, report) =
    { p \in report.problems : p.subsystem = "system" /\ p.level < report.level }

WordsMatchColours(snapshot, report) ==
  LET dash == Dashboard(snapshot, report)
  IN  \A n \in {"gnss", "chrony", "pps"} :
        LET alarming == dash[n].words[1] \in Alarming
        IN  /\ alarming => dash[n].level > OK
            /\ dash[n].level = CRITICAL =>
                 alarming \/ (n = "chrony" /\ Magnitude(snapshot.tracking.offset) >= OFFSET_CRIT)

=============================================================================
