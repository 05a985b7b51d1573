-------------------------- MODULE MCHealthEvaluate --------------------------
(***************************************************************************)
(* Gather and Evaluate over every combination of what the host can answer  *)
(* around each threshold.  One source changes at a time, so that a step    *)
(* compares two evaluations that differ in a single sensor.                *)
(***************************************************************************)
EXTENDS Rules, FiniteSets

VARIABLE host

PpsAnswers ==
  {NoDevice, Unreadable, Garbled}
  \cup {-SECOND, -SECOND + 1, 0, STALE_AFTER, STALE_AFTER + 1}

(* Sessions: cut before the TPV, one cycle, or two cycles that differ. *)
Version == [class |-> "VERSION"]
Tpv(mode) == [class |-> "TPV", mode |-> mode]
Sky(used) == [class |-> "SKY", uSat |-> used, used |-> used]
OldSky(used) == [class |-> "SKY", used |-> used]

GpsdAnswers ==
  { Refused, <<>>, <<Version>>, <<Version, Sky(MIN_SATELLITES)>> }
  \cup { <<Version, Sky(n), Tpv(m)>> : n \in {MIN_SATELLITES - 1, MIN_SATELLITES}, m \in 0 .. 3 }
  \cup { <<Version, OldSky(k), Tpv(m), OldSky(n), Tpv(3)>> :
           k, n \in {MIN_SATELLITES - 1, MIN_SATELLITES}, m \in {1, 3} }
  \cup { <<Version, Sky(MIN_SATELLITES), Tpv(3), Tpv(m)>> : m \in {1, 2} }

TrackingAnswers ==
  { Failed, [leap_status |-> "Not synchronised", stratum |-> 0, offset |-> 0] }
  \cup [leap_status : {"Normal", "Insert second"}, stratum : {1, 2},
        offset : {0, -OFFSET_WARN, OFFSET_WARN, OFFSET_CRIT, -OFFSET_CRIT}]

ShowAnswers == [Units -> {"active", "activating", "failed", Failed}]

(* run_check: security counts some of the pending packages; age in days. *)
Checked(pending, security, reboot, age) ==
  [age |-> age, pending |-> pending, security |-> security, reboot_required |-> reboot,
   error |-> FALSE]
UpdatesAnswers ==
  { Failed, Checked(0, 0, FALSE, 0), Checked(0, 0, FALSE, 4), Checked(2, 0, FALSE, 3),
    Checked(2, 1, FALSE, 0), Checked(2, 2, TRUE, 0), Checked(0, 0, TRUE, 4),
    [Checked(0, 0, FALSE, 0) EXCEPT !.error = TRUE] }

Memory(used) == [total |-> 100, available |-> 100 - used]

Nominal ==
  [pps |-> 0,
   gpsd |-> <<Version, Sky(MIN_SATELLITES), Tpv(3)>>,
   tracking |-> [leap_status |-> "Normal", stratum |-> 1, offset |-> 0],
   sources |-> "listed",
   show |-> [u \in Units |-> "active"],
   thermal |-> TEMP_WARN - 1, throttled |-> {}, memory |-> Memory(0), disk |-> 0,
   updates |-> Checked(0, 0, FALSE, 0)]

(* Bound: at most MAX_OFF sources are away from nominal. *)
CONSTANT MAX_OFF
Sensor == { {"pps"}, {"gpsd"}, {"tracking", "sources"}, {"show"},
            {"thermal"}, {"throttled"}, {"memory"}, {"disk"}, {"updates"} }
Off(h) == { s \in Sensor : \E f \in s : h[f] # Nominal[f] }
Bounded == Cardinality(Off(host')) <= MAX_OFF

Init == host = Nominal

PpsAnswer == \E a \in PpsAnswers : host' = [host EXCEPT !.pps = a] /\ Bounded
GpsdAnswer == \E a \in GpsdAnswers : host' = [host EXCEPT !.gpsd = a] /\ Bounded
ChronycAnswer ==
  \E t \in TrackingAnswers, s \in {"listed", Failed} :
    host' = [host EXCEPT !.tracking = t, !.sources = s] /\ Bounded
ShowAnswer == \E a \in ShowAnswers : host' = [host EXCEPT !.show = a] /\ Bounded
SystemAnswer ==
  /\ \/ \E t \in {NoReading, TEMP_WARN - 1, TEMP_WARN, RULE_TEMP + 1, TEMP_CRIT} : host' = [host EXCEPT !.thermal = t]
     \/ \E d \in {0, DISK_WARN} : host' = [host EXCEPT !.disk = d]
     \/ \E b \in {NoReading, {}, {16}, {0, 16}} : host' = [host EXCEPT !.throttled = b]
     \/ \E m \in {Memory(MEM_WARN - 1), Memory(MEM_WARN), [total |-> 0, available |-> 0]} :
          host' = [host EXCEPT !.memory = m]
  /\ Bounded

UpdatesAnswer == \E a \in UpdatesAnswers : host' = [host EXCEPT !.updates = a] /\ Bounded

Next == PpsAnswer \/ GpsdAnswer \/ ChronycAnswer \/ ShowAnswer \/ SystemAnswer \/ UpdatesAnswer

Spec == Init /\ [][Next]_host

-----------------------------------------------------------------------------
snapshot == Gather(host)
report == Evaluate(snapshot)

(***************************************************************************)
(* A sensor that gets worse never makes the unit look better: neither the  *)
(* overall level nor the level of any subsystem goes down.  The checks are *)
(* elif chains, where a worse reading takes a different branch.            *)
(***************************************************************************)
WorseNeverLooksBetter ==
  [][ NoBetter(Gather(host'), snapshot) => LooksNoBetter(Evaluate(Gather(host')), report) ]_host

(***************************************************************************)
(* What is critical, on what the host answers, is exactly: PPS gone, no    *)
(* fix, chrony unsynchronised or its offset past the critical threshold,   *)
(* one of tui.services not active, the SoC past its critical temperature;  *)
(* where a time source that cannot be read counts as gone.  (The table of  *)
(* docs/alerts.md has no critical offset and no critical temperature, and  *)
(* names gpsd and chronyd only.)  The headline of a critical report names  *)
(* every one of these, and apart from the services each is one critical    *)
(* problem: the ladder keeps one message per subsystem in a dict           *)
(* (check.py:106).                                                         *)
(***************************************************************************)
CriticalMatchesAlertTable == MatchesAlertTable(host)

(***************************************************************************)
(* Whoever sees only the metrics, on a scrape or in the relay's messages   *)
(* (whose severity is 2 exactly then), can tell from the others why        *)
(* mother_ticker_health_level is 2, and none of them looks critical when   *)
(* it is not.                                                              *)
(***************************************************************************)
CriticalShowsInMetrics == ShowsInMetrics(snapshot)

(***************************************************************************)
(* The dashboard hides nothing but a warm, full or throttled host under a  *)
(* critical banner.  The words of a panel and its colour, which two chains *)
(* of conditions decide, agree: alarming words are on a coloured panel,    *)
(* and a red panel has alarming words or is chrony's with a large offset.  *)
(***************************************************************************)
NothingHidden ==
  HidesOnlyTheHost(snapshot, report) /\ WordsMatchColours(snapshot, report)

(***************************************************************************)
(* A source that cannot be read is said to be unknown somewhere, even when *)
(* evaluate() takes it for fine (temperature, throttling, update check):   *)
(* a sensor that dies while it is hot clears the alarm, not the trace.     *)
(***************************************************************************)
UnknownIsSaid ==
  LET dash == Dashboard(snapshot, report)
      status == Status(snapshot, report)
  IN  /\ host.thermal = NoReading <=> <<"SoC temp unknown">> \in SystemScreen(snapshot)
      /\ host.throttled = NoReading <=> <<"Throttle vcgencmd unavailable">> \in SystemScreen(snapshot)
      /\ host.updates = Failed <=> <<"Updates not checked yet">> \in SystemScreen(snapshot)
      /\ \A u \in Units : host.show[u] = Failed <=> <<u, "unknown">> \in ServicesScreen(snapshot)
      /\ host.pps \in {Unreadable, Garbled} <=> dash.pps.words = <<"unreadable">>
      /\ host.gpsd \in {Refused, <<>>} <=> status.gnss = "gpsd unreachable"
      /\ Failed \in {host.tracking, host.sources} <=> dash.chrony.words = <<"chronyd NOT ANSWERING">>
      /\ Failed \in {host.tracking, host.sources} <=> status.leap = "-"

(* Both: what the screens tell is what the readings are. *)
ScreensTell == NothingHidden /\ UnknownIsSaid

(***************************************************************************)
(* The rules and the Grafana dashboard repeat thresholds of the unit.  A   *)
(* rule about time never fires beside a green banner, a critical one only  *)
(* beside a red one; one about updates only when the host panel says so;   *)
(* and the stats about time are never worse than the Health stat.  Red     *)
(* Health has a red stat beside it, or a service, offset or temperature.   *)
(* The satellites' stat is left out: it turns red where the unit warns.    *)
(***************************************************************************)
RulesAgree == RulesFollow(snapshot, report)

=============================================================================
