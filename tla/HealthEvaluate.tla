--------------------------- MODULE HealthEvaluate ---------------------------
(***************************************************************************)
(* health/evaluate.py: one snapshot of the host turned into a level and a  *)
(* set of problems.  The same function drives the dashboard banner, the    *)
(* mother_ticker_health metric, the alerts and the escalation ladder.      *)
(*                                                                         *)
(* A snapshot keeps the readings evaluate() looks at; quantities are       *)
(* integers in any unit, compared with the thresholds of the same unit.    *)
(* A message is kept only as far as something in the code reads it again:  *)
(* the ladder searches it for "unreachable", "not answering" and           *)
(* "missing", and takes the unit's name from the front of a service's.     *)
(***************************************************************************)
EXTENDS Integers

CONSTANTS
  Units,            \* the monitored systemd units (config.tui.services)
  NoReading,        \* temperature_c is None
  MIN_SATELLITES, OFFSET_WARN, OFFSET_CRIT, TEMP_WARN, TEMP_CRIT,
  DISK_WARN, MEM_WARN

OK == 0
WARNING == 1
CRITICAL == 2
Level == OK .. CRITICAL

Subsystem == {"gnss", "pps", "chrony", "system", "service"}

Problem(level, subsystem, message) ==
  [level |-> level, subsystem |-> subsystem, message |-> message]

-----------------------------------------------------------------------------
(* The five checks, each the set of problems it adds.  The definitions     *)
(* named ..._BUG are the mistakes the runs must be able to notice; nothing *)
(* uses them.                                                              *)

CheckPps(pps) ==
  { Problem(CRITICAL, "pps", m) : m \in
      IF ~pps.present THEN {"missing"}
      ELSE IF pps.error THEN {"unreadable"}
      ELSE IF ~pps.pulsing THEN {"not pulsing"} ELSE {} }

CheckGnss(gnss) ==
  IF ~gnss.reachable THEN {Problem(CRITICAL, "gnss", "unreachable")}
  ELSE IF gnss.fix_mode < 2 THEN {Problem(CRITICAL, "gnss", "no fix")}
  ELSE IF gnss.fix_mode = 2 THEN {Problem(WARNING, "gnss", "2D fix only")}
  ELSE IF gnss.satellites_used < MIN_SATELLITES
       THEN {Problem(WARNING, "gnss", "few satellites")} ELSE {}

Synchronised(tracking) ==
  tracking.reachable /\ tracking.leap_status \notin {"", "Not synchronised"}

Magnitude(n) == IF n < 0 THEN -n ELSE n

(* The offset looked at only when the stratum is fine. *)
CheckChrony_BUG(tracking) ==
  IF ~tracking.reachable THEN {Problem(CRITICAL, "chrony", "not answering")}
  ELSE IF ~Synchronised(tracking) THEN {Problem(CRITICAL, "chrony", "not synchronised")}
  ELSE IF tracking.stratum > 1 THEN {Problem(WARNING, "chrony", "stratum")}
  ELSE IF Magnitude(tracking.offset) >= OFFSET_CRIT THEN {Problem(CRITICAL, "chrony", "offset")}
  ELSE {}

CheckChrony(tracking) ==
  IF ~tracking.reachable THEN {Problem(CRITICAL, "chrony", "not answering")}
  ELSE IF ~Synchronised(tracking) THEN {Problem(CRITICAL, "chrony", "not synchronised")}
  ELSE LET offset == Magnitude(tracking.offset)
       IN  { Problem(WARNING, "chrony", m) : m \in
               { n \in {"stratum", "leap second"} :
                   \/ n = "stratum" /\ tracking.stratum > 1
                   \/ /\ n = "leap second"
                      /\ tracking.leap_status \in {"Insert second", "Delete second"} } }
           \cup { Problem(lv, "chrony", "offset") : lv \in
               IF offset >= OFFSET_CRIT THEN {CRITICAL}
               ELSE IF offset >= OFFSET_WARN THEN {WARNING} ELSE {} }

CheckServices(services) ==
  { Problem(CRITICAL, "service", u) : u \in { v \in Units : services[v] # "active" } }

CheckHost(system) ==
  { Problem(lv, "system", "temperature") : lv \in
      IF system.temperature = NoReading THEN {}
      ELSE IF system.temperature >= TEMP_CRIT THEN {CRITICAL}
      ELSE IF system.temperature >= TEMP_WARN THEN {WARNING} ELSE {} }
  \cup { Problem(WARNING, "system", m) : m \in
      { n \in {"throttled", "disk", "memory"} :
          \/ n = "throttled" /\ "now" \in system.throttled
          \/ n = "disk" /\ system.disk >= DISK_WARN
          \/ n = "memory" /\ system.mem >= MEM_WARN } }

-----------------------------------------------------------------------------

(* max((p.level for p in problems), default=OK) *)
WorstLevel(problems) ==
  IF \E p \in problems : p.level = CRITICAL THEN CRITICAL
  ELSE IF \E p \in problems : p.level = WARNING THEN WARNING ELSE OK

Evaluate(snapshot) ==
  LET problems == CheckPps(snapshot.pps) \cup CheckGnss(snapshot.gnss)
                  \cup CheckChrony(snapshot.tracking)
                  \cup CheckServices(snapshot.services)
                  \cup CheckHost(snapshot.system)
  IN  [level |-> WorstLevel(problems), problems |-> problems]

(* HealthReport.headline: the problems at the report's own level *)
Headline(report) == { p \in report.problems : p.level = report.level }

(* HealthReport.by_subsystem *)
BySubsystem(report, name) ==
  WorstLevel({ p \in report.problems : p.subsystem = name })

(* The subsystems with a critical problem, as the ladder computes them. *)
CriticalSubsystems(report) ==
  { p.subsystem : p \in { q \in report.problems : q.level = CRITICAL } }

-----------------------------------------------------------------------------
(***************************************************************************)
(* For the properties: how good a reading is, independently of evaluate(). *)
(***************************************************************************)
PpsRank(p) == IF ~p.present THEN 0 ELSE IF p.error THEN 1 ELSE IF ~p.pulsing THEN 2 ELSE 3
NoBetterGnss(g, h) ==
  /\ g.reachable => h.reachable
  /\ g.fix_mode <= h.fix_mode
  /\ g.satellites_used <= h.satellites_used
LeapAnnounced(tracking) == tracking.leap_status \in {"Insert second", "Delete second"}
NoBetterChrony(c, d) ==
  /\ c.reachable => d.reachable
  /\ Synchronised(c) => Synchronised(d)
  /\ Synchronised(c) /\ Synchronised(d) =>
       /\ c.stratum >= d.stratum
       /\ Magnitude(c.offset) >= Magnitude(d.offset)
       /\ LeapAnnounced(d) => LeapAnnounced(c)
NoBetterSystem(x, y) ==
  /\ x.temperature # NoReading /\ y.temperature # NoReading /\ x.temperature >= y.temperature
  /\ y.throttled \subseteq x.throttled
  /\ x.disk >= y.disk /\ x.mem >= y.mem

(* Snapshot s reads no better than t in every sensor. *)
NoBetter(s, t) ==
  /\ PpsRank(s.pps) <= PpsRank(t.pps)
  /\ NoBetterGnss(s.gnss, t.gnss)
  /\ NoBetterChrony(s.tracking, t.tracking)
  /\ \A u \in Units : s.services[u] = "active" => t.services[u] = "active"
  /\ NoBetterSystem(s.system, t.system)

(* Report r is as bad as q, as a whole and for each subsystem. *)
LooksNoBetter(r, q) ==
  /\ r.level >= q.level
  /\ \A name \in Subsystem : BySubsystem(r, name) >= BySubsystem(q, name)

=============================================================================
