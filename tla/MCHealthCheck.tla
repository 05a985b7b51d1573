---------------------------- MODULE MCHealthCheck ----------------------------
(***************************************************************************)
(* The host conditions TLC puts the health check in: nominal, degraded,    *)
(* and the faults the ladder tells apart, alone and together.              *)
(***************************************************************************)
EXTENDS HealthCheck

Nominal ==
  [pps |-> [present |-> TRUE, error |-> FALSE, pulsing |-> TRUE],
   gnss |-> [reachable |-> TRUE, fix_mode |-> 3, satellites_used |-> 8],
   tracking |-> [reachable |-> TRUE, leap_status |-> "Normal", stratum |-> 1, offset |-> 0],
   services |-> [u \in Units |-> "active"],
   system |-> [temperature |-> 50, throttled |-> {}, disk |-> 0, mem |-> 0]]

NoGnss == [reachable |-> FALSE, fix_mode |-> 0, satellites_used |-> 0]

Degraded == [Nominal EXCEPT !.gnss.fix_mode = 2]
GpsdDown == [Nominal EXCEPT !.gnss = NoGnss, !.services["gpsd"] = "failed"]
PpsGone == [Nominal EXCEPT !.pps = [present |-> FALSE, error |-> TRUE, pulsing |-> FALSE],
                           !.tracking.leap_status = "Not synchronised"]

MCSnapshots == {Degraded, GpsdDown, PpsGone}
MCStuckSets == {{}, {"gpsd", "host"}}
MCGpsdStuck == {{}, {"gpsd"}}
MCPosition == [u \in Units |-> IF u = "chrony" THEN 0 ELSE 1]

=============================================================================
