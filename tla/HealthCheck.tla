---------------------------- MODULE HealthCheck -----------------------------
(***************************************************************************)
(* One unit's `mother-ticker healthcheck` as systemd runs it: a oneshot    *)
(* service started by a timer, that evaluates the host, loads the counters *)
(* from /run, decides, runs the commands one after the other and only then *)
(* saves the counters (run_check, apply, LadderState.save).                *)
(*                                                                         *)
(* A command returns success, fails at once, or does not come back and is  *)
(* given up after 60 s.  The service itself is killed TimeoutStartSec      *)
(* (90 s) after it started: HANG_BUDGET is the number of 60 s waits that   *)
(* fit before that.  A save can fail (it is logged and forgotten).  /run   *)
(* is a tmpfs: a boot, ordered or not, starts from no file at all.         *)
(***************************************************************************)
EXTENDS HealthLadder

CONSTANTS
  Snapshots,          \* what gather() can return on this host
  StuckSets,          \* the sets of targets whose commands may hang together
  HANG_BUDGET,        \* 60 s waits that fit in TimeoutStartSec
  MAX_FAILED_REBOOTS  \* bound: reboot orders that fail or hang, per boot

ASSUME CheckAssumption ==
  /\ HANG_BUDGET \in Nat
  /\ MAX_FAILED_REBOOTS \in Nat
  /\ StuckSets \subseteq SUBSET (RestartTargets \cup {"host"})

VARIABLES
  host,       \* the snapshot gather() would return now
  stuck,      \* the targets whose commands would hang now
  uptime,     \* checks since boot, saturated at MIN_UPTIME
  disk,       \* the state file under /run
  pc,         \* "idle", "apply" or "save"
  todo,       \* the commands decide() returned that have not been run yet
  new,        \* the state decide() returned
  hangs,      \* commands of this check that were given up
  rebooting,  \* systemd has accepted a reboot
  failed,     \* reboot orders of this boot that did not take
  (* history, read by no action: *)
  streak,     \* critical checks in a row, saturated at REBOOT_AFTER
  rows,       \* the same per subsystem, saturated at RESTART_AFTER
  since,      \* checks since a subsystem's last restart in its row, saturated
  lost,       \* a check since the last recorded recovery was not recorded
  found,      \* critical checks since the last recorded recovery, saturated
  blamed      \* per subsystem, checks that blamed it since the last recorded one
              \* that did not, saturated

hostVars == <<host, stuck>>
checkVars == <<pc, todo, new, hangs>>
historyVars == <<streak, rows, since, found, blamed>>
vars == <<host, stuck, uptime, disk, pc, todo, new, hangs, rebooting, failed,
          streak, rows, since, lost, found, blamed>>

Saturate(n, max) == IF n < max THEN n ELSE max

BACKOFF == 2 * RESTART_AFTER

-----------------------------------------------------------------------------

NewBoot ==
  /\ uptime' = 0
  /\ disk' = FreshState
  /\ pc' = "idle" /\ todo' = {} /\ new' = FreshState /\ hangs' = 0
  /\ rebooting' = FALSE /\ failed' = 0
  /\ streak' = 0
  /\ rows' = [s \in Subsystem |-> 0]
  /\ since' = [s \in Subsystem |-> BACKOFF]
  /\ lost' = FALSE
  /\ found' = 0 /\ blamed' = [s \in Subsystem |-> 0]

Init ==
  /\ host \in Snapshots
  /\ stuck \in StuckSets
  /\ uptime = 0
  /\ disk = FreshState
  /\ pc = "idle" /\ todo = {} /\ new = FreshState /\ hangs = 0
  /\ rebooting = FALSE /\ failed = 0
  /\ streak = 0
  /\ rows = [s \in Subsystem |-> 0]
  /\ since = [s \in Subsystem |-> BACKOFF]
  /\ lost = FALSE
  /\ found = 0 /\ blamed = [s \in Subsystem |-> 0]

(* The host degrades or recovers on its own, at any time. *)
HostChanges ==
  /\ host' \in Snapshots
  /\ stuck' \in StuckSets
  /\ UNCHANGED <<uptime, disk, checkVars, rebooting, failed, historyVars, lost>>

(***************************************************************************)
(* The timer elapses: evaluate, load, decide (run_check:213-215).          *)
(***************************************************************************)
Observe(report) ==
  LET critical == CriticalSubsystems(report)
  IN  /\ streak' = IF report.level = CRITICAL THEN Saturate(streak + 1, REBOOT_AFTER) ELSE 0
      /\ rows' = [s \in Subsystem |->
                    IF s \in critical THEN Saturate(rows[s] + 1, RESTART_AFTER) ELSE 0]
      /\ since' = [s \in Subsystem |->
                    IF s \notin critical THEN BACKOFF
                    ELSE IF \E c \in todo' : c.why = s THEN 0
                    ELSE Saturate(since[s] + 1, BACKOFF)]
      /\ found' = IF report.level = CRITICAL THEN Saturate(found + 1, REBOOT_AFTER) ELSE found
      /\ blamed' = [s \in Subsystem |->
                    IF s \in critical THEN Saturate(blamed[s] + 1, RESTART_AFTER) ELSE blamed[s]]

StartCheck ==
  /\ pc = "idle" /\ ~rebooting
  /\ LET report == Evaluate(host)
     IN  /\ uptime' = Saturate(uptime + 1, MIN_UPTIME)
         /\ todo' = DecideCommands(report, disk, uptime')
         /\ new' = DecideState(report, disk, uptime')
         /\ Observe(report)
  /\ pc' = "apply" /\ hangs' = 0
  /\ UNCHANGED <<hostVars, disk, rebooting, failed, lost>>

(***************************************************************************)
(* The timer elapses, but a collector raises (a gpsd report whose mode is  *)
(* not a number, say) before anything was evaluated, loaded or decided.    *)
(***************************************************************************)
GatherRaises ==
  /\ pc = "idle" /\ ~rebooting
  /\ uptime' = Saturate(uptime + 1, MIN_UPTIME)
  /\ UNCHANGED <<hostVars, disk, checkVars, rebooting, failed, historyVars, lost>>

(***************************************************************************)
(* apply(): the next command of the list, and the three ways it can end.   *)
(***************************************************************************)
IsNext(c) == c \in todo /\ ~\E d \in todo : RunsBefore(d, c)

CommandSucceeds(c) ==
  /\ pc = "apply" /\ IsNext(c) /\ c.target \notin stuck
  /\ todo' = todo \ {c}
  /\ rebooting' = (rebooting \/ c.why = "reboot")
  /\ UNCHANGED <<hostVars, uptime, disk, pc, new, hangs, failed, historyVars, lost>>

(* Bound: at most MAX_FAILED_REBOOTS reboot orders of a boot fail. *)
FailsOnce(c) ==
  IF c.why = "reboot" THEN failed < MAX_FAILED_REBOOTS /\ failed' = failed + 1
  ELSE failed' = failed

CommandFails(c) ==
  /\ pc = "apply" /\ IsNext(c) /\ c.target \notin stuck
  /\ FailsOnce(c)
  /\ todo' = todo \ {c}
  /\ UNCHANGED <<hostVars, uptime, disk, pc, new, hangs, rebooting, historyVars, lost>>

CommandTimesOut(c) ==
  /\ pc = "apply" /\ IsNext(c) /\ c.target \in stuck
  /\ hangs < HANG_BUDGET
  /\ \/ FailsOnce(c) /\ UNCHANGED rebooting
     \/ c.why = "reboot" /\ rebooting' = TRUE /\ UNCHANGED failed  \* it takes all the same
  /\ hangs' = hangs + 1
  /\ todo' = todo \ {c}
  /\ UNCHANGED <<hostVars, uptime, disk, pc, new, historyVars, lost>>

(***************************************************************************)
(* TimeoutStartSec: systemd kills the check while it waits for a command.  *)
(* The commands left are not run and nothing is saved.                     *)
(***************************************************************************)
KilledBySystemd ==
  /\ pc = "apply" /\ hangs >= HANG_BUDGET
  /\ \E c \in todo : IsNext(c) /\ c.target \in stuck
  /\ pc' = "idle" /\ todo' = {} /\ new' = FreshState /\ hangs' = 0
  /\ lost' = TRUE
  /\ UNCHANGED <<hostVars, uptime, disk, rebooting, failed, historyVars>>

AllApplied ==
  /\ pc = "apply" /\ todo = {}
  /\ pc' = "save"
  /\ UNCHANGED <<hostVars, uptime, disk, todo, new, hangs, rebooting, failed, historyVars, lost>>

(***************************************************************************)
(* The state file is replaced in one rename, or not at all.                *)
(***************************************************************************)
CheckEnds == pc' = "idle" /\ new' = FreshState /\ hangs' = 0 /\ UNCHANGED todo

Save ==
  /\ pc = "save"
  /\ disk' = new
  /\ lost' = (lost /\ new.lastLevel = CRITICAL)
  /\ found' = IF streak = 0 THEN 0 ELSE found
  /\ blamed' = [s \in Subsystem |-> IF rows[s] = 0 THEN 0 ELSE blamed[s]]
  /\ CheckEnds
  /\ UNCHANGED <<hostVars, uptime, rebooting, failed, streak, rows, since>>

SaveFails ==
  /\ pc = "save"
  /\ lost' = TRUE
  /\ CheckEnds
  /\ UNCHANGED <<hostVars, uptime, disk, rebooting, failed, historyVars>>

(* The ordered reboot completes, whatever the check was doing; or the power fails. *)
RebootCompletes == rebooting /\ NewBoot /\ host' \in Snapshots /\ stuck' \in StuckSets
PowerCut == ~rebooting /\ NewBoot /\ host' \in Snapshots /\ stuck' \in StuckSets

Next ==
  \/ HostChanges \/ StartCheck \/ GatherRaises
  \/ \E c \in Commands : CommandSucceeds(c)
  \/ \E c \in Commands : CommandFails(c)
  \/ \E c \in Commands : CommandTimesOut(c)
  \/ KilledBySystemd \/ AllApplied \/ Save \/ SaveFails
  \/ RebootCompletes \/ PowerCut

Spec == Init /\ [][Next]_vars

(***************************************************************************)
(* The timer elapses again whenever the check has ended; every command     *)
(* ends, by itself, by its timeout or with the check; and an accepted      *)
(* reboot completes.  A save that can fail is not expected to fail for     *)
(* ever.  Nothing is assumed of the host, of the collectors, of the        *)
(* commands' outcomes or of the power.                                     *)
(***************************************************************************)
Apply ==
  \/ \E c \in Commands : CommandSucceeds(c) \/ CommandFails(c) \/ CommandTimesOut(c)
  \/ KilledBySystemd
  \/ AllApplied

Fairness ==
  /\ WF_vars(StartCheck \/ GatherRaises) /\ WF_vars(Apply)
  /\ SF_vars(Save) /\ WF_vars(RebootCompletes)

FairSpec == Spec /\ Fairness

-----------------------------------------------------------------------------
(***************************************************************************)
(* Properties.                                                             *)
(***************************************************************************)

TypeOK ==
  /\ host \in Snapshots /\ stuck \in StuckSets
  /\ uptime \in 0 .. MIN_UPTIME
  /\ disk \in LadderState /\ new \in LadderState
  /\ pc \in {"idle", "apply", "save"}
  /\ todo \subseteq Commands
  /\ hangs \in Nat /\ failed \in Nat
  /\ rebooting \in BOOLEAN /\ lost \in BOOLEAN
  /\ streak \in 0 .. REBOOT_AFTER
  /\ rows \in [Subsystem -> 0 .. RESTART_AFTER]
  /\ since \in [Subsystem -> 0 .. BACKOFF]
  /\ found \in 0 .. REBOOT_AFTER
  /\ blamed \in [Subsystem -> 0 .. RESTART_AFTER]

(* The counters of st do not exceed what the checks really found in a row. *)
Backed(st) ==
  /\ st.consecutive <= streak \/ streak = REBOOT_AFTER
  /\ \A s \in Subsystem : st.bySubsystem[s] <= rows[s] \/ rows[s] = RESTART_AFTER

(* Nor, whatever was lost, what they have found since it was last recorded to be over. *)
Earned(st) ==
  /\ st.consecutive <= found \/ found = REBOOT_AFTER
  /\ \A s \in Subsystem : st.bySubsystem[s] <= blamed[s] \/ blamed[s] = RESTART_AFTER

(***************************************************************************)
(* The counters in the file never claim more critical checks in a row than *)
(* there were: load, decide, commands and save lie between one value of    *)
(* the file and the next, and the file outlives every check.  After a      *)
(* check that was killed, or could not save, they may join two rows into   *)
(* one; but they never claim more than the critical checks there were      *)
(* since the last recovery that is on record.                              *)
(***************************************************************************)
CountersBacked ==
  /\ lost \/ pc # "idle" \/ Backed(disk)
  /\ lost \/ pc = "idle" \/ Backed(new)
  /\ Earned(disk)
  /\ pc = "idle" \/ Earned(new)

(***************************************************************************)
(* A command on the list is justified by the checks that really ran: a     *)
(* reboot by REBOOT_AFTER critical checks on a host that has been up for   *)
(* MIN_UPTIME, a restart by RESTART_AFTER checks that blamed its           *)
(* subsystem; in a row, unless a record was lost, and without a recovery   *)
(* on record between them in any case.                                     *)
(***************************************************************************)
CommandsJustified ==
  \A c \in todo :
    IF c.why = "reboot"
    THEN /\ REBOOT_ENABLED /\ uptime = MIN_UPTIME /\ found = REBOOT_AFTER
         /\ lost \/ streak = REBOOT_AFTER
    ELSE /\ blamed[c.why] = RESTART_AFTER
         /\ lost \/ rows[c.why] = RESTART_AFTER

(***************************************************************************)
(* ARCHITECTURE.md, the health ladder: restarts back off.  As long as no   *)
(* record was lost, two restarts for the same subsystem within one row of  *)
(* critical checks are at least 2 x RESTART_AFTER checks apart.            *)
(***************************************************************************)
RestartsBackOff ==
  [][ \A s \in Subsystem :
        (pc = "idle" /\ pc' = "apply" /\ \E c \in todo' : c.why = s)
          => lost \/ rows[s] < RESTART_AFTER \/ since[s] >= BACKOFF - 1 ]_vars

HostCritical == Evaluate(host).level = CRITICAL

(* The power stays on, and gather() returns again and again. *)
KeepsChecking == <>[][~PowerCut]_vars /\ []<><<StartCheck>>_vars

(***************************************************************************)
(* check.py:13: a host that stays critical, with power and with systemd    *)
(* answering, is rebooted again and again: no failed restart, failed save, *)
(* earlier reset of a counter or collector that raised in between keeps    *)
(* the last rung from being reached.                                       *)
(***************************************************************************)
RebootsUntilCured ==
  <>[](HostCritical /\ stuck = {}) /\ KeepsChecking => []<>rebooting

(***************************************************************************)
(* The same without the condition on the commands: "After                  *)
(* reboot_after_failures with no recovery ... the host reboots".           *)
(***************************************************************************)
RebootsUntilCuredAlways ==
  <>[]HostCritical /\ KeepsChecking => []<>rebooting

(***************************************************************************)
(* A recovery that lasts is recorded: from some point on the file holds no *)
(* count of critical checks, whatever was saved or lost before.            *)
(***************************************************************************)
RecoveryIsRecorded ==
  <>[](~HostCritical) /\ []<><<StartCheck>>_vars =>
    <>[](disk.consecutive = 0 /\ \A s \in Subsystem : disk.bySubsystem[s] = 0)

(***************************************************************************)
(* The check implements the reboot policy.                                 *)
(***************************************************************************)
Policy ==
  INSTANCE RebootPolicy WITH
    REBOOT_AFTER <- REBOOT_AFTER, MIN_UPTIME <- MIN_UPTIME,
    streak <- streak, found <- found, uptime <- uptime, lost <- lost,
    rebooting <- rebooting
PolicySpec == Policy!Spec

=============================================================================
