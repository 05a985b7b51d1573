------------------------------ MODULE Maintenance ------------------------------
(***************************************************************************)
(* mother-ticker-maint: the two settings that make the unit read-only, the *)
(* root overlay (cmdline.txt) and the boot partition (fstab), both of      *)
(* which take effect at the next boot, and the script that changes them    *)
(* with two raspi-config commands and a reboot.                            *)
(*                                                                         *)
(* An invocation comes from the TUI (maintenance_mode, which waits 120 s   *)
(* and then lets go of it), from a shell or from the role; nothing keeps   *)
(* two of them apart.  raspi-config is external and may fail.  The boot    *)
(* partition has to be writable for the overlay to be switched.            *)
(***************************************************************************)
EXTENDS Naturals, FiniteSets

CONSTANT Invocation      \* those that may run at the same time

VARIABLES
  root, boot,            \* what is mounted: "overlay" or "rw", "ro" or "rw"
  cmdline, fstab,        \* the same for the next boot
  script,                \* per invocation, where it is, how it was called, and
                         \* whether it has run alone so far
  rebooting,             \* a reboot was ordered and has not happened yet
  (* history, read by no action: *)
  overlapped,            \* two invocations once ran at the same time
  interrupted            \* one stopped between its two commands, and none has got
                         \* through both since

hostVars == <<root, boot>>
settings == <<cmdline, fstab>>
vars == <<hostVars, settings, script, rebooting, overlapped, interrupted>>

Idle == [at |-> "idle", action |-> "on", reboot |-> TRUE, code |-> 0, alone |-> TRUE]

Running == { i \in Invocation : script[i].at # "idle" }

Init ==        \* the role has just been deployed
  /\ root = "rw" /\ boot = "rw" /\ cmdline = "rw" /\ fstab = "rw"
  /\ script = [i \in Invocation |-> Idle]
  /\ rebooting = FALSE /\ overlapped = FALSE /\ interrupted = FALSE

-----------------------------------------------------------------------------
(* raspi-config. *)

DisableBootro == fstab' = "rw" /\ boot' = "rw" /\ UNCHANGED <<cmdline, root>>
EnableBootro == fstab' = "ro" /\ UNCHANGED <<cmdline, hostVars>>
DisableOverlayfs == boot = "rw" /\ cmdline' = "rw" /\ UNCHANGED <<fstab, hostVars>>
EnableOverlayfs == boot = "rw" /\ cmdline' = "overlay" /\ UNCHANGED <<fstab, hostVars>>

-----------------------------------------------------------------------------
(* The script. *)

Configured == cmdline = "overlay"
RunningOverlay == root = "overlay"

Goto(i, place) == script' = [script EXCEPT ![i].at = place]
Exit(i, code) == script' = [script EXCEPT ![i] = [@ EXCEPT !.at = "done", !.code = code]]

Invoke(i) ==
  /\ script[i].at = "idle"
  /\ \E action \in {"on", "off"}, reboot \in BOOLEAN :
       script' = [j \in Invocation |->
                    IF j = i THEN [at |-> "guard", action |-> action, reboot |-> reboot,
                                   code |-> 0, alone |-> Running = {}]
                    ELSE IF j \in Running THEN [script[j] EXCEPT !.alone = FALSE]
                    ELSE script[j]]
  /\ overlapped' = (overlapped \/ Running # {})
  /\ UNCHANGED <<hostVars, settings, rebooting, interrupted>>

(* `on` looks at what runs only. *)
NothingToDo_BUG(action) ==
  \/ action = "on" /\ ~RunningOverlay
  \/ action = "off" /\ Configured

NothingToDo(action) ==
  \/ action = "on" /\ ~Configured /\ ~RunningOverlay
  \/ action = "off" /\ Configured

Guard(i) ==
  /\ script[i].at = "guard"
  /\ IF NothingToDo(script[i].action) THEN Exit(i, 0) ELSE Goto(i, "first")
  /\ UNCHANGED <<hostVars, settings, rebooting, overlapped, interrupted>>

(* `on` disables the overlay first. *)
Command_BUG(n, action) ==
  \/ n = "first" /\ action = "on" /\ DisableOverlayfs
  \/ n = "second" /\ action = "on" /\ DisableBootro
  \/ n = "first" /\ action = "off" /\ EnableOverlayfs
  \/ n = "second" /\ action = "off" /\ EnableBootro

(* `off` hands the second command the word of the first. *)
Command_BUG2(n, action) ==
  \/ n = "first" /\ action = "on" /\ DisableBootro
  \/ n = "second" /\ action = "on" /\ DisableOverlayfs
  \/ n = "first" /\ action = "off" /\ EnableOverlayfs
  \/ n = "second" /\ action = "off" /\ fstab' = "overlay" /\ UNCHANGED <<cmdline, hostVars>>

Command(n, action) ==
  \/ n = "first" /\ action = "on" /\ DisableBootro
  \/ n = "second" /\ action = "on" /\ DisableOverlayfs
  \/ n = "first" /\ action = "off" /\ EnableOverlayfs
  \/ n = "second" /\ action = "off" /\ EnableBootro

FirstCommand(i) ==
  /\ script[i].at = "first"
  /\ Command("first", script[i].action)
  /\ Goto(i, "second")
  /\ UNCHANGED <<rebooting, overlapped, interrupted>>

SecondCommand(i) ==
  /\ script[i].at = "second"
  /\ Command("second", script[i].action)
  /\ IF script[i].reboot THEN Goto(i, "reboot") ELSE Exit(i, 0)
  /\ interrupted' = FALSE
  /\ UNCHANGED <<rebooting, overlapped>>

(* Without set -e. *)
CommandFails_BUG(i) ==
  /\ \/ script[i].at = "first" /\ Goto(i, "second")
     \/ script[i].at = "second" /\ Goto(i, "reboot")
  /\ UNCHANGED <<hostVars, settings, rebooting, overlapped, interrupted>>

(* set -e; whether a failed command did its work is not known. *)
CommandFails(i) ==
  /\ script[i].at \in {"first", "second"}
  /\ Command(script[i].at, script[i].action) \/ UNCHANGED <<hostVars, settings>>
  /\ Exit(i, 1)
  /\ interrupted' = TRUE
  /\ UNCHANGED <<rebooting, overlapped>>

(* sleep 5; systemctl reboot, which may be refused. *)
OrderReboot(i) ==
  /\ script[i].at = "reboot"
  /\ \/ rebooting' = TRUE /\ Exit(i, 0)
     \/ UNCHANGED rebooting /\ Exit(i, 1)
  /\ UNCHANGED <<hostVars, settings, overlapped, interrupted>>

(* The caller has gone (maintenance_mode's timeout, a dropped connection)  *)
(* and the script dies of it.                                              *)
Cut(i) ==
  /\ script[i].at \in {"guard", "first", "second", "reboot"}
  /\ Exit(i, 1)
  /\ interrupted' = (interrupted \/ script[i].at = "second")
  /\ UNCHANGED <<hostVars, settings, rebooting, overlapped>>

Return(i) ==
  /\ script[i].at = "done"
  /\ script' = [script EXCEPT ![i] = Idle]
  /\ UNCHANGED <<hostVars, settings, rebooting, overlapped, interrupted>>

(* A reboot that was ordered, by the script or by somebody else, or a      *)
(* power cut.                                                              *)
Boot ==
  /\ root' = cmdline /\ boot' = fstab
  /\ script' = [i \in Invocation |-> Idle]
  /\ rebooting' = FALSE
  /\ interrupted' = (interrupted \/ \E i \in Invocation : script[i].at = "second")
  /\ UNCHANGED <<settings, overlapped>>

Next ==
  \/ \E i \in Invocation :
       \/ Invoke(i) \/ Guard(i) \/ FirstCommand(i) \/ SecondCommand(i)
       \/ CommandFails(i) \/ OrderReboot(i) \/ Cut(i) \/ Return(i)
  \/ Boot

Spec == Init /\ [][Next]_vars

-----------------------------------------------------------------------------
(***************************************************************************)
(* Properties.                                                             *)
(***************************************************************************)

Place == {"idle", "guard", "first", "second", "reboot", "done"}

TypeOK ==
  /\ root \in {"overlay", "rw"} /\ cmdline \in {"overlay", "rw"}
  /\ boot \in {"ro", "rw"} /\ fstab \in {"ro", "rw"}
  /\ script \in [Invocation -> [at : Place, action : {"on", "off"}, reboot : BOOLEAN,
                                code : 0 .. 1, alone : BOOLEAN]]
  /\ rebooting \in BOOLEAN /\ overlapped \in BOOLEAN /\ interrupted \in BOOLEAN

Succeeded(i, action) ==
  script[i].at = "done" /\ script[i].code = 0 /\ script[i].action = action

(***************************************************************************)
(* The boot partition is read-only at the next boot only under the overlay *)
(* (on undoes it first, off does it last): in the other case the next      *)
(* `off` could not edit cmdline.txt.  It holds whatever command fails and  *)
(* wherever the power goes, as long as invocations do not overlap.         *)
(***************************************************************************)
BootPartitionFollows == ~overlapped /\ fstab = "ro" => cmdline = "overlay"

(***************************************************************************)
(* What exit 0 means, "nothing to do" included, as long as invocations do  *)
(* not overlap.  `on` leaves both filesystems writable for the next boot,  *)
(* whatever failed before it.  `off` leaves the overlay on, but the boot   *)
(* partition read-only only if no invocation before it has stopped between *)
(* its two commands: the retry of such an `off` (or the `off` after such   *)
(* an `on`) looks at cmdline.txt alone and does not finish the work.       *)
(***************************************************************************)
SuccessDelivers ==
  ~overlapped => \A i \in Invocation :
    /\ Succeeded(i, "on") => cmdline = "rw" /\ fstab = "rw"
    /\ Succeeded(i, "off") => cmdline = "overlay" /\ (fstab = "ro" \/ interrupted)

(***************************************************************************)
(* The script orders no reboot into half a change: as long as invocations  *)
(* do not overlap, both settings are those of one mode at that moment.     *)
(***************************************************************************)
RebootsWhole ==
  [][ ~rebooting /\ rebooting' /\ ~overlapped =>
        <<cmdline, fstab>> \in {<<"rw", "rw">>, <<"overlay", "ro">>} ]_vars

(***************************************************************************)
(* mother-ticker-maint.sh:4 says of `on`: "make the root and boot          *)
(* filesystems writable (for updates)".  So when it has succeeded with no  *)
(* other invocation beside it, both are writable at the next boot,         *)
(* whatever ran before it.                                                 *)
(***************************************************************************)
OnMakesBothWritable ==
  \A i \in Invocation :
    Succeeded(i, "on") /\ script[i].alone => cmdline = "rw" /\ fstab = "rw"

=============================================================================
