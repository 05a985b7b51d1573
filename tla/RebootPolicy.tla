---------------------------- MODULE RebootPolicy ----------------------------
(***************************************************************************)
(* What the ladder promises about reboots, whatever counters it keeps      *)
(* (RUNBOOK.md, "The box rebooted by itself"; check.py:13-15): the host is *)
(* rebooted only after REBOOT_AFTER checks in a row found it critical, and *)
(* never before it has been up for MIN_UPTIME checks, so that a fault      *)
(* nothing cures costs at most one reboot per MIN_UPTIME.                  *)
(*                                                                         *)
(* In a row, that is, as far as the checks were recorded: after one whose  *)
(* result was lost (lost = TRUE) the ladder may take two rows for one.     *)
(* Even then there were REBOOT_AFTER critical checks, with no recovery on  *)
(* record between them.                                                    *)
(***************************************************************************)
EXTENDS Naturals

CONSTANTS REBOOT_AFTER, MIN_UPTIME

VARIABLES
  streak,      \* critical checks in a row, saturated at REBOOT_AFTER
  found,       \* critical checks since the last recorded recovery, saturated
  uptime,      \* checks since boot, saturated at MIN_UPTIME
  lost,        \* a check since the last recorded recovery left no record
  rebooting    \* the reboot has been ordered

vars == <<streak, found, uptime, lost, rebooting>>

Saturate(n, max) == IF n < max THEN n ELSE max

Init == streak = 0 /\ found = 0 /\ uptime = 0 /\ lost = FALSE /\ rebooting = FALSE

(* A check looks at the host: critical, or not. *)
Check ==
  /\ ~rebooting
  /\ \/ streak' = Saturate(streak + 1, REBOOT_AFTER) /\ found' = Saturate(found + 1, REBOOT_AFTER)
     \/ streak' = 0 /\ UNCHANGED found
  /\ uptime' = Saturate(uptime + 1, MIN_UPTIME)
  /\ UNCHANGED <<lost, rebooting>>

(* A check's time passes without a look at the host. *)
Unseen ==
  /\ ~rebooting
  /\ uptime' = Saturate(uptime + 1, MIN_UPTIME)
  /\ UNCHANGED <<streak, found, lost, rebooting>>

(* Its outcome is lost, or a recovery is recorded. *)
LoseRecord == lost' = TRUE /\ UNCHANGED <<streak, found, uptime, rebooting>>
RecordRecovery ==
  /\ streak = 0
  /\ found' = 0 /\ lost' = FALSE
  /\ UNCHANGED <<streak, uptime, rebooting>>

Reboot ==
  /\ found = REBOOT_AFTER
  /\ streak = REBOOT_AFTER \/ lost
  /\ uptime = MIN_UPTIME
  /\ rebooting' = TRUE
  /\ UNCHANGED <<streak, found, uptime, lost>>

(* The host comes up again, after the reboot or after a power cut. *)
Boot ==
  /\ streak' = 0 /\ found' = 0 /\ uptime' = 0
  /\ lost' = FALSE /\ rebooting' = FALSE

Next == Check \/ Unseen \/ LoseRecord \/ RecordRecovery \/ Reboot \/ Boot

Spec == Init /\ [][Next]_vars

=============================================================================
