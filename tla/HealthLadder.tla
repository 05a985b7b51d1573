---------------------------- MODULE HealthLadder ----------------------------
(***************************************************************************)
(* health/check.py, the pure part: decide() and what it calls.  From the   *)
(* report of one check and the counters saved by the previous one it       *)
(* computes the counters to save and the commands to run.                  *)
(*                                                                         *)
(* A dictionary entry that is absent reads as 0, so critical_by_subsystem  *)
(* and restarts are total functions here.  A command is a record of the    *)
(* reason it is run for and its target; Rank is its place in the list the  *)
(* code builds.  Log actions change nothing and are left out.  The         *)
(* definitions named ..._BUG are the mistakes the runs must be able to     *)
(* notice; nothing uses them.                                              *)
(***************************************************************************)
EXTENDS HealthEvaluate

CONSTANTS
  RESTART_AFTER,    \* restart_after_failures
  REBOOT_AFTER,     \* reboot_after_failures
  MIN_UPTIME,       \* min_uptime_before_reboot_s, counted in checks
  REBOOT_ENABLED,   \* reboot_enabled
  Position,         \* Position[u]: the place of unit u in config.tui.services
  TALLY_MAX         \* bound: the restart tallies, which nothing reads, saturate here

ASSUME LadderAssumption ==
  /\ RESTART_AFTER \in Nat \ {0}
  /\ REBOOT_AFTER \in Nat \ {0}
  /\ MIN_UPTIME \in Nat
  /\ REBOOT_ENABLED \in BOOLEAN
  /\ Position \in [Units -> Nat]
  /\ TALLY_MAX \in Nat

RestartTargets == Units \cup {"gpsd", "chrony"}

LadderState ==
  [ consecutive : Nat,                    \* consecutive_critical
    bySubsystem : [Subsystem -> Nat],     \* critical_by_subsystem
    restarts : [RestartTargets -> 0 .. TALLY_MAX],
    lastLevel : Level ]

(* LadderState.load of a missing or unparsable file *)
FreshState ==
  [ consecutive |-> 0, bySubsystem |-> [s \in Subsystem |-> 0],
    restarts |-> [u \in RestartTargets |-> 0], lastLevel |-> OK ]

Command(why, target) == [why |-> why, target |-> target]
Commands ==
  { Command("gnss", "gpsd"), Command("chrony", "chrony"), Command("reboot", "host") }
  \cup { Command("service", u) : u \in Units }

Rank(c) ==
  IF c.why = "gnss" THEN 0 ELSE IF c.why = "chrony" THEN 1 ELSE 2 + Position[c.target]

(* The list is run in order; the reboot is appended last. *)
RunsBefore(c, d) == c.why # "reboot" /\ (d.why = "reboot" \/ Rank(c) < Rank(d))

-----------------------------------------------------------------------------

(* A subsystem that recovered keeps its count; or loses one per good check. *)
AdvanceBySubsystem_BUG1(counts, critical) ==
  [s \in Subsystem |-> IF s \in critical THEN counts[s] + 1 ELSE counts[s]]
AdvanceBySubsystem_BUG2(counts, critical) ==
  [s \in Subsystem |-> IF s \in critical THEN counts[s] + 1 ELSE counts[s] - 1]

AdvanceBySubsystem(counts, critical) ==
  [s \in Subsystem |-> IF s \in critical THEN counts[s] + 1 ELSE 0]

(* Every further threshold. *)
Due_BUG(counts, s) ==
  counts[s] >= RESTART_AFTER /\ (counts[s] - RESTART_AFTER) % RESTART_AFTER = 0

(* The threshold, then every 2 x threshold further checks. *)
Due(counts, s) ==
  /\ counts[s] >= RESTART_AFTER
  /\ (counts[s] - RESTART_AFTER) % (2 * RESTART_AFTER) = 0

HasMessage(report, s, message) ==
  \E p \in report.problems : p.level = CRITICAL /\ p.subsystem = s /\ p.message = message

(* The restarts of _subsystem_actions, the counters being already advanced. *)
SubsystemRestarts(report, counts) ==
  LET critical == CriticalSubsystems(report)
  IN  { c \in Commands :
          /\ c.why \in critical
          /\ Due(counts, c.why)
          /\ \/ c.why = "gnss" /\ HasMessage(report, "gnss", "unreachable")
             \/ /\ c.why = "chrony"
                /\ HasMessage(report, "chrony", "not answering") \/ "pps" \notin critical
             \/ c.why = "service" /\ HasMessage(report, "service", c.target) }

(* _restart: one more for every restart of the unit, up to the bound. *)
TallyUp(restarts, cmds) ==
  LET asService(u) == IF Command("service", u) \in cmds THEN 1 ELSE 0
      asCause(u) == IF \E c \in cmds : c.target = u /\ c.why # "service" THEN 1 ELSE 0
      tally(u) == restarts[u] + asCause(u) + asService(u)
  IN  [u \in RestartTargets |-> IF tally(u) < TALLY_MAX THEN tally(u) ELSE TALLY_MAX]

(* One check early; without the uptime floor. *)
RebootDue_BUG1(consecutive, uptime) ==
  REBOOT_ENABLED /\ consecutive >= REBOOT_AFTER - 1 /\ uptime >= MIN_UPTIME
RebootDue_BUG2(consecutive, uptime) ==
  REBOOT_ENABLED /\ consecutive >= REBOOT_AFTER

RebootDue(consecutive, uptime) ==
  /\ REBOOT_ENABLED
  /\ consecutive >= REBOOT_AFTER
  /\ uptime >= MIN_UPTIME

(* decide(): the actions it returns. *)
DecideCommands(report, state, uptime) ==
  IF report.level # CRITICAL THEN {}
  ELSE SubsystemRestarts(report,
         AdvanceBySubsystem(state.bySubsystem, CriticalSubsystems(report)))
       \cup IF RebootDue(state.consecutive + 1, uptime)
            THEN {Command("reboot", "host")} ELSE {}

(* A recovery keeps the counters; a restart starts the ladder over. *)
DecideState_BUG1(report, state, uptime) ==
  IF report.level # CRITICAL THEN [state EXCEPT !.lastLevel = report.level]
  ELSE [state EXCEPT !.consecutive = IF RebootDue(@ + 1, uptime) THEN 0 ELSE @ + 1,
                     !.lastLevel = report.level]
DecideState_BUG2(report, state, uptime) ==
  LET counts == AdvanceBySubsystem(state.bySubsystem, CriticalSubsystems(report))
      over == \/ report.level # CRITICAL
              \/ SubsystemRestarts(report, counts) # {}
              \/ RebootDue(state.consecutive + 1, uptime)
  IN  IF over THEN [FreshState EXCEPT !.lastLevel = report.level]
      ELSE [ consecutive |-> state.consecutive + 1, bySubsystem |-> counts,
             restarts |-> state.restarts, lastLevel |-> report.level ]

(* decide(): the state it returns. *)
DecideState(report, state, uptime) ==
  LET counts == AdvanceBySubsystem(state.bySubsystem, CriticalSubsystems(report))
  IN  IF report.level # CRITICAL
      THEN [FreshState EXCEPT !.restarts = state.restarts, !.lastLevel = report.level]
      ELSE [ consecutive |-> IF RebootDue(state.consecutive + 1, uptime)
                             THEN 0 ELSE state.consecutive + 1,
             bySubsystem |-> counts,
             restarts |-> TallyUp(state.restarts, SubsystemRestarts(report, counts)),
             lastLevel |-> report.level ]

=============================================================================
