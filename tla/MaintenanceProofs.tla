-------------------------- MODULE MaintenanceProofs --------------------------
(***************************************************************************)
(* What mother-ticker-maint keeps true through failing commands, dropped   *)
(* connections and power cuts, for any number of invocations, as long as   *)
(* no two of them have overlapped; and what it costs when two have.        *)
(***************************************************************************)
EXTENDS Maintenance, TLAPS

(***************************************************************************)
(* Where a script that runs alone stands, and what it has already done.    *)
(***************************************************************************)
Progress(i) ==
  /\ script[i].at = "second" /\ script[i].action = "on" => fstab = "rw"
  /\ script[i].at = "second" /\ script[i].action = "off" => cmdline = "overlay"
  /\ script[i].at = "reboot" /\ script[i].action = "on" => cmdline = "rw" /\ fstab = "rw"
  /\ script[i].at = "reboot" /\ script[i].action = "off" => cmdline = "overlay" /\ fstab = "ro"
  /\ Succeeded(i, "on") => cmdline = "rw" /\ fstab = "rw"
  /\ Succeeded(i, "off") => cmdline = "overlay"

OneAtATime == ~overlapped => \A i, j \in Invocation : {i, j} \subseteq Running => i = j

InProgress == ~overlapped => \A i \in Invocation : Progress(i)

Invariant == TypeOK /\ OneAtATime /\ BootPartitionFollows /\ InProgress

(* The values of a script's fields, for the steps below. *)
ScriptRecord == [at : Place, action : {"on", "off"}, reboot : BOOLEAN,
                 code : 0 .. 1, alone : BOOLEAN]

(* The freshly deployed unit satisfies the invariant. *)
LEMMA InvariantInit == Init => Invariant
<1> SUFFICES ASSUME Init PROVE Invariant
  OBVIOUS
<1>1. Idle \in ScriptRecord
  BY DEF Idle, ScriptRecord, Place
<1>2. TypeOK
  BY <1>1 DEF Init, TypeOK, ScriptRecord
<1>3. \A i \in Invocation : script[i].at = "idle"
  BY DEF Init, Idle
<1> QED
  BY <1>2, <1>3 DEF Init, Invariant, OneAtATime, BootPartitionFollows, InProgress, Progress,
                    Succeeded, Running

(* A script that exits keeps the type of its record. *)
LEMMA ExitTyped ==
  ASSUME TypeOK, NEW i \in Invocation, NEW code \in 0 .. 1, Exit(i, code)
  PROVE  script' \in [Invocation -> ScriptRecord]
<1> DEFINE over == [script[i] EXCEPT !.at = "done", !.code = code]
<1>1. script \in [Invocation -> ScriptRecord]
  BY DEF TypeOK, ScriptRecord
<1>2. script' = [script EXCEPT ![i] = over]
  BY DEF Exit
<1>3. script[i] \in ScriptRecord
  BY <1>1
<1>4. over \in ScriptRecord
  BY <1>3 DEF ScriptRecord, Place
<1> HIDE DEF over
<1> QED BY <1>1, <1>2, <1>4

(* So does one that goes on. *)
LEMMA GotoTyped ==
  ASSUME TypeOK, NEW i \in Invocation, NEW place \in Place, Goto(i, place)
  PROVE  script' \in [Invocation -> ScriptRecord]
BY DEF TypeOK, ScriptRecord, Goto

(* Types alone: no step leaves the sets of values. *)
LEMMA TypeNext == TypeOK /\ [Next]_vars => TypeOK'
<1> SUFFICES ASSUME TypeOK, [Next]_vars PROVE TypeOK'
  OBVIOUS
<1> USE DEF TypeOK, Place
<1>1. ASSUME NEW i \in Invocation, Invoke(i) PROVE TypeOK'
  <2>1. PICK action \in {"on", "off"}, reboot \in BOOLEAN :
          script' = [j \in Invocation |->
                       IF j = i THEN [at |-> "guard", action |-> action, reboot |-> reboot,
                                      code |-> 0, alone |-> Running = {}]
                       ELSE IF j \in Running THEN [script[j] EXCEPT !.alone = FALSE]
                       ELSE script[j]]
    BY <1>1 DEF Invoke
  <2>2. [at |-> "guard", action |-> action, reboot |-> reboot,
         code |-> 0, alone |-> Running = {}] \in ScriptRecord
    BY DEF ScriptRecord
  <2>3. \A j \in Invocation : script[j] \in ScriptRecord
    BY DEF ScriptRecord
  <2>4. \A j \in Invocation : [script[j] EXCEPT !.alone = FALSE] \in ScriptRecord
    BY <2>3 DEF ScriptRecord
  <2>5. script' \in [Invocation -> ScriptRecord]
    BY <2>1, <2>2, <2>3, <2>4
  <2> QED BY <1>1, <2>5 DEF Invoke, ScriptRecord, hostVars, settings
<1>2. ASSUME NEW i \in Invocation, Guard(i) PROVE TypeOK'
  <2>1. script' \in [Invocation -> ScriptRecord]
    <3>1. Exit(i, 0) \/ Goto(i, "first")
      BY <1>2 DEF Guard
    <3> QED BY <3>1, ExitTyped, GotoTyped
  <2> QED BY <1>2, <2>1 DEF Guard, ScriptRecord, hostVars, settings
<1>3. ASSUME NEW i \in Invocation, FirstCommand(i) PROVE TypeOK'
  BY <1>3 DEF FirstCommand, Command, DisableBootro, EnableOverlayfs, DisableOverlayfs,
              EnableBootro, Goto, hostVars, settings
<1>4. ASSUME NEW i \in Invocation, SecondCommand(i) PROVE TypeOK'
  <2>1. /\ cmdline' \in {"overlay", "rw"} /\ fstab' \in {"ro", "rw"}
        /\ root' \in {"overlay", "rw"} /\ boot' \in {"ro", "rw"}
    BY <1>4 DEF SecondCommand, Command, DisableBootro, EnableOverlayfs, DisableOverlayfs,
                EnableBootro, hostVars
  <2>2. script' \in [Invocation -> ScriptRecord]
    <3>1. Exit(i, 0) \/ Goto(i, "reboot")
      BY <1>4 DEF SecondCommand
    <3> QED BY <3>1, ExitTyped, GotoTyped
  <2> QED BY <1>4, <2>1, <2>2 DEF SecondCommand, ScriptRecord
<1>5. ASSUME NEW i \in Invocation, CommandFails(i) PROVE TypeOK'
  <2>1. /\ cmdline' \in {"overlay", "rw"} /\ fstab' \in {"ro", "rw"}
        /\ root' \in {"overlay", "rw"} /\ boot' \in {"ro", "rw"}
    BY <1>5 DEF CommandFails, Command, DisableBootro, EnableOverlayfs, DisableOverlayfs,
                EnableBootro, hostVars, settings
  <2>2. script' \in [Invocation -> ScriptRecord]
    BY <1>5, ExitTyped DEF CommandFails
  <2> QED BY <1>5, <2>1, <2>2 DEF CommandFails, ScriptRecord
<1>6. ASSUME NEW i \in Invocation, OrderReboot(i) \/ Cut(i) PROVE TypeOK'
  <2>1. script' \in [Invocation -> ScriptRecord]
    <3>1. Exit(i, 0) \/ Exit(i, 1)
      BY <1>6 DEF OrderReboot, Cut
    <3> QED BY <3>1, ExitTyped
  <2> QED BY <1>6, <2>1 DEF OrderReboot, Cut, ScriptRecord, hostVars, settings
<1>7. ASSUME NEW i \in Invocation, Return(i) PROVE TypeOK'
  <2>1. Idle \in ScriptRecord
    BY DEF Idle, ScriptRecord
  <2>2. script' \in [Invocation -> ScriptRecord]
    BY <1>7, <2>1 DEF Return, ScriptRecord
  <2> QED BY <1>7, <2>2 DEF Return, ScriptRecord, hostVars, settings
<1>8. CASE Boot
  <2>1. Idle \in ScriptRecord
    BY DEF Idle, ScriptRecord
  <2>2. script' \in [Invocation -> ScriptRecord]
    BY <1>8, <2>1 DEF Boot
  <2> QED BY <1>8, <2>2 DEF Boot, ScriptRecord, settings
<1>9. CASE UNCHANGED vars
  BY <1>9 DEF vars, hostVars, settings
<1> QED BY <1>1, <1>2, <1>3, <1>4, <1>5, <1>6, <1>7, <1>8, <1>9 DEF Next

(***************************************************************************)
(* The rest of the invariant.  An invocation that takes a step is running, *)
(* so that without an overlap all others are idle; Invoke keeps that, for  *)
(* it notes an overlap unless nothing was running.                         *)
(***************************************************************************)
LEMMA InvariantNext == Invariant /\ [Next]_vars => Invariant'
<1> SUFFICES ASSUME Invariant, [Next]_vars PROVE Invariant'
  OBVIOUS
<1>t. TypeOK /\ TypeOK'
  BY TypeNext DEF Invariant
<1>o. CASE overlapped'
  BY <1>t, <1>o DEF Invariant, OneAtATime, BootPartitionFollows, InProgress
<1>n. CASE ~overlapped'
  <2>1. ~overlapped
    BY <1>n DEF Next, Invoke, Guard, FirstCommand, SecondCommand, CommandFails, OrderReboot,
                Cut, Return, Boot, vars
  <2>2. /\ \A i, j \in Invocation : {i, j} \subseteq Running => i = j
        /\ fstab = "ro" => cmdline = "overlay"
        /\ \A i \in Invocation : Progress(i)
    BY <2>1 DEF Invariant, OneAtATime, BootPartitionFollows, InProgress
  <2> DEFINE Safe ==
        /\ \A i, j \in Invocation : {i, j} \subseteq Running => i = j
        /\ fstab = "ro" => cmdline = "overlay"
        /\ \A i \in Invocation : Progress(i)
  <2> SUFFICES Safe'
    BY <1>t DEF Invariant, OneAtATime, BootPartitionFollows, InProgress
  <2> USE <1>t DEF TypeOK, Place, Running, Progress, Succeeded
  <2>3. ASSUME NEW i \in Invocation, Invoke(i) PROVE Safe'
    <3>1. Running = {}
      BY <1>n, <2>3 DEF Invoke
    <3>2. \A j \in Invocation : j # i => script'[j].at = "idle"
      BY <2>3, <3>1 DEF Invoke
    <3>3. script'[i].at = "guard"
      BY <2>3 DEF Invoke
    <3> QED BY <2>2, <2>3, <3>2, <3>3 DEF Invoke, hostVars, settings
  <2>4. ASSUME NEW i \in Invocation, script[i].at # "idle",
               NEW place \in Place,
               script' = [script EXCEPT ![i].at = place]
        PROVE  /\ script'[i].at = place /\ script'[i].action = script[i].action
               /\ \A j \in Invocation \ {i} : script'[j].at = "idle"
    BY <2>2, <2>4
  <2>5. ASSUME NEW i \in Invocation, script[i].at # "idle",
               NEW code \in 0 .. 1,
               Exit(i, code)
        PROVE  /\ script'[i].at = "done" /\ script'[i].code = code
               /\ script'[i].action = script[i].action
               /\ \A j \in Invocation \ {i} : script'[j].at = "idle"
    BY <2>2, <2>5 DEF Exit
  <2>6. ASSUME NEW i \in Invocation, Guard(i) PROVE Safe'
    <3>1. CASE NothingToDo(script[i].action)
      <4>1. Exit(i, 0) /\ script[i].at # "idle"
        BY <2>6, <3>1 DEF Guard
      <4> QED BY <2>2, <2>5, <2>6, <3>1, <4>1
              DEF Guard, NothingToDo, Configured, RunningOverlay, hostVars, settings
    <3>2. CASE ~NothingToDo(script[i].action)
      <4>1. script' = [script EXCEPT ![i].at = "first"] /\ script[i].at # "idle"
        BY <2>6, <3>2 DEF Guard, Goto
      <4> QED BY <2>2, <2>4, <2>6, <4>1 DEF Guard, hostVars, settings
    <3> QED BY <3>1, <3>2
  <2>7. ASSUME NEW i \in Invocation, FirstCommand(i) PROVE Safe'
    <3>1. script' = [script EXCEPT ![i].at = "second"] /\ script[i].at # "idle"
      BY <2>7 DEF FirstCommand, Goto
    <3> QED BY <2>2, <2>4, <2>7, <3>1
            DEF FirstCommand, Command, DisableBootro, EnableOverlayfs, hostVars
  <2>8. ASSUME NEW i \in Invocation, SecondCommand(i) PROVE Safe'
    <3>1. /\ script[i].action = "on" => cmdline' = "rw" /\ fstab' = "rw"
          /\ script[i].action = "off" => cmdline' = "overlay" /\ fstab' = "ro"
      BY <2>2, <2>8 DEF SecondCommand, Command, DisableOverlayfs, EnableBootro
    <3>2. CASE script[i].reboot
      <4>1. script' = [script EXCEPT ![i].at = "reboot"] /\ script[i].at # "idle"
        BY <2>8, <3>2 DEF SecondCommand, Goto
      <4>2. /\ script'[i].at = "reboot" /\ script'[i].action = script[i].action
            /\ \A j \in Invocation \ {i} : script'[j].at = "idle"
        BY <2>4, <4>1
      <4> QED BY <3>1, <4>2
    <3>3. CASE ~script[i].reboot
      <4>1. Exit(i, 0) /\ script[i].at # "idle"
        BY <2>8, <3>3 DEF SecondCommand
      <4> QED BY <2>5, <3>1, <4>1
    <3> QED BY <3>2, <3>3
  <2>9. ASSUME NEW i \in Invocation, CommandFails(i) PROVE Safe'
    <3>1. Exit(i, 1) /\ script[i].at # "idle"
      BY <2>9 DEF CommandFails
    <3>2. fstab' = "ro" => cmdline' = "overlay"
      BY <2>2, <2>9 DEF CommandFails, Command, DisableBootro, DisableOverlayfs,
                        EnableBootro, EnableOverlayfs, settings
    <3> QED BY <2>5, <3>1, <3>2
  <2>10. ASSUME NEW i \in Invocation, OrderReboot(i) PROVE Safe'
    <3>1. script[i].at # "idle" /\ (Exit(i, 0) \/ Exit(i, 1)) /\ UNCHANGED settings
      BY <2>10 DEF OrderReboot
    <3> QED BY <2>2, <2>5, <2>10, <3>1 DEF OrderReboot, settings
  <2>11. ASSUME NEW i \in Invocation, Cut(i) PROVE Safe'
    <3>1. script[i].at # "idle" /\ Exit(i, 1) /\ UNCHANGED settings
      BY <2>11 DEF Cut
    <3> QED BY <2>2, <2>5, <3>1 DEF settings
  <2>12. ASSUME NEW i \in Invocation, Return(i) PROVE Safe'
    <3>1. \A j \in Invocation : script'[j].at = "idle"
      BY <2>2, <2>12 DEF Return, Idle
    <3> QED BY <2>2, <2>12, <3>1 DEF Return, settings
  <2>13. CASE Boot
    BY <2>2, <2>13 DEF Boot, Idle, settings
  <2>14. CASE UNCHANGED vars
    BY <2>2, <2>14 DEF vars, settings
  <2> HIDE DEF Safe
  <2> QED BY <2>3, <2>6, <2>7, <2>8, <2>9, <2>10, <2>11, <2>12, <2>13, <2>14 DEF Next
<1> QED BY <1>o, <1>n

(* The invariant holds of every behaviour. *)
LEMMA InvariantHolds == Spec => []Invariant
BY InvariantInit, InvariantNext, PTL DEF Spec

(***************************************************************************)
(* Every variable keeps its type, for any number of invocations.           *)
(***************************************************************************)
THEOREM MaintenanceTypes == Spec => []TypeOK
BY InvariantHolds, PTL DEF Invariant

(***************************************************************************)
(* The boot partition is never left read-only for a boot without the       *)
(* overlay, whatever fails in mother-ticker-maint and wherever it is cut,  *)
(* as long as no two invocations overlap.                                  *)
(***************************************************************************)
THEOREM OrderOfCommandsProtects == Spec => []BootPartitionFollows
BY InvariantHolds, PTL DEF Invariant

(***************************************************************************)
(* How `off` may exit 0 with its work half done.  The overlay is on and    *)
(* the boot partition writable only while a script is between its two      *)
(* commands, or after one stopped there; so an `off` that finds the        *)
(* overlay on has nothing left to do in every other case.                  *)
(***************************************************************************)
HalfDone == cmdline = "overlay" /\ fstab = "rw"

Between == \E i \in Invocation : script[i].at = "second"

Settled ==
  ~overlapped =>
    /\ HalfDone => interrupted \/ Between
    /\ \A i \in Invocation : Succeeded(i, "off") => fstab = "ro" \/ interrupted

(* A script that goes on or exits changes its own record only.             *)
LEMMA OwnRecord ==
  ASSUME TypeOK, NEW i \in Invocation, NEW place, NEW code,
         Goto(i, place) \/ Exit(i, code)
  PROVE  /\ \A j \in Invocation \ {i} : script'[j] = script[j]
         /\ script'[i].action = script[i].action
         /\ Goto(i, place) => script'[i].at = place
         /\ Exit(i, code) => script'[i].at = "done" /\ script'[i].code = code
<1>1. script \in [Invocation -> ScriptRecord] /\ script[i] \in ScriptRecord
  BY DEF TypeOK, ScriptRecord
<1>2. CASE Goto(i, place)
  <2>1. /\ script'[i] = [script[i] EXCEPT !.at = place]
        /\ \A j \in Invocation \ {i} : script'[j] = script[j]
    BY <1>1, <1>2 DEF Goto
  <2>2. script'[i].at = place /\ script'[i].action = script[i].action
    BY <1>1, <2>1 DEF ScriptRecord
  <2>3. Exit(i, code) => place = "done" /\ script'[i].at = "done" /\ script'[i].code = code
    <3>1. ASSUME Exit(i, code)
          PROVE  script'[i] = [script[i] EXCEPT !.at = "done", !.code = code]
      BY <1>1, <3>1 DEF Exit
    <3> QED BY <1>1, <2>2, <3>1 DEF ScriptRecord
  <2> QED BY <2>1, <2>2, <2>3
<1>3. CASE ~Goto(i, place) /\ Exit(i, code)
  <2>1. /\ script'[i] = [script[i] EXCEPT !.at = "done", !.code = code]
        /\ \A j \in Invocation \ {i} : script'[j] = script[j]
    BY <1>1, <1>3 DEF Exit
  <2>2. /\ script'[i].at = "done" /\ script'[i].code = code
        /\ script'[i].action = script[i].action
    BY <1>1, <2>1 DEF ScriptRecord
  <2> QED BY <1>3, <2>1, <2>2
<1> QED BY <1>2, <1>3

(* Every step keeps it so: each other script is idle while one takes a     *)
(* step, and whatever stops a script between its commands is noted.        *)
LEMMA SettledNext == Invariant /\ Settled /\ [Next]_vars => Settled'
<1> SUFFICES ASSUME Invariant, Settled, [Next]_vars, ~overlapped'
             PROVE  /\ HalfDone' => interrupted' \/ Between'
                    /\ \A i \in Invocation : Succeeded(i, "off")' => fstab' = "ro" \/ interrupted'
  BY DEF Settled
<1> DEFINE Goal == /\ HalfDone' => interrupted' \/ Between'
                   /\ \A i \in Invocation : Succeeded(i, "off")' => fstab' = "ro" \/ interrupted'
<1>n. ~overlapped
  BY DEF Next, Invoke, Guard, FirstCommand, SecondCommand, CommandFails, OrderReboot,
         Cut, Return, Boot, vars
<1>s. /\ HalfDone => interrupted \/ Between
      /\ \A i \in Invocation : Succeeded(i, "off") => fstab = "ro" \/ interrupted
  BY <1>n DEF Settled
<1>t. TypeOK /\ (\A i \in Invocation : Progress(i))
  BY <1>n DEF Invariant, InProgress
(* Whatever takes a step, the others are idle. *)
<1>o. ASSUME NEW i \in Invocation, script[i].at # "idle"
      PROVE  \A j \in Invocation \ {i} : script[j].at = "idle"
  BY <1>n, <1>o DEF Invariant, OneAtATime, Running
<1>w. fstab = "rw" \/ fstab = "ro"
  BY <1>t DEF TypeOK
<1>1. ASSUME NEW i \in Invocation, Invoke(i) PROVE Goal
  <2>1. Running = {}
    BY <1>1 DEF Invoke
  <2>2. /\ \A j \in Invocation : script[j].at = "idle"
        /\ \A j \in Invocation : script'[j].at \in {"idle", "guard"}
    BY <1>1, <2>1 DEF Invoke, Running
  <2>3. ~Between
    BY <2>2 DEF Between
  <2> QED BY <1>1, <1>s, <2>2, <2>3 DEF Invoke, HalfDone, Succeeded, hostVars, settings
<1>2. ASSUME NEW i \in Invocation, Guard(i) PROVE Goal
  <2>1. /\ script[i].at = "guard" /\ UNCHANGED <<cmdline, fstab, interrupted>>
        /\ Goto(i, "first") \/ (Exit(i, 0) /\ NothingToDo(script[i].action))
    BY <1>2 DEF Guard, settings
  <2>2. ~Between
    BY <1>o, <2>1 DEF Between
  <2>3. HalfDone' => interrupted'
    BY <1>s, <2>1, <2>2 DEF HalfDone
  <2>4. ASSUME NEW j \in Invocation, Succeeded(j, "off")' PROVE fstab' = "ro" \/ interrupted'
    <3>1. j = i /\ Exit(i, 0)
      BY <1>o, <1>t, <2>1, <2>4, OwnRecord DEF Succeeded
    <3>2. script[i].action = "off"
      BY <1>t, <2>4, <3>1, OwnRecord DEF Succeeded
    <3>3. NothingToDo("off")
      BY <1>t, <2>1, <3>1, <3>2 DEF Guard, Exit, Goto, TypeOK
    <3> QED BY <1>s, <1>w, <2>1, <2>2, <3>3 DEF NothingToDo, Configured, HalfDone
  <2> QED BY <2>3, <2>4
<1>3. ASSUME NEW i \in Invocation, FirstCommand(i) PROVE Goal
  <2>1. script[i].at = "first" /\ Goto(i, "second")
    BY <1>3 DEF FirstCommand
  <2>2. script'[i].at = "second" /\ \A j \in Invocation \ {i} : script'[j].at = "idle"
    BY <1>o, <1>t, <2>1, OwnRecord
  <2> QED BY <2>2 DEF Between, Succeeded
<1>4. ASSUME NEW i \in Invocation, SecondCommand(i) PROVE Goal
  <2>1. script[i].at = "second" /\ (Goto(i, "reboot") \/ Exit(i, 0))
    BY <1>4 DEF SecondCommand
  <2>2. /\ script'[i].action = script[i].action
        /\ \A j \in Invocation \ {i} : script'[j].at = "idle"
    BY <1>o, <1>t, <2>1, OwnRecord
  <2>3. \/ script[i].action = "on" /\ cmdline' = "rw"
        \/ script[i].action = "off" /\ fstab' = "ro"
    BY <1>4, <2>1 DEF SecondCommand, Command, DisableOverlayfs, EnableBootro
  <2> QED BY <2>2, <2>3 DEF HalfDone, Succeeded
<1>5. ASSUME NEW i \in Invocation, CommandFails(i) PROVE Goal
  BY <1>5 DEF CommandFails
<1>6. ASSUME NEW i \in Invocation, OrderReboot(i) PROVE Goal
  <2>1. /\ script[i].at = "reboot" /\ UNCHANGED <<cmdline, fstab, interrupted>>
        /\ Exit(i, 0) \/ Exit(i, 1)
    BY <1>6 DEF OrderReboot, settings
  <2>2. ~Between
    BY <1>o, <2>1 DEF Between
  <2>3. /\ script'[i].action = script[i].action
        /\ \A j \in Invocation \ {i} : script'[j].at = "idle"
    BY <1>o, <1>t, <2>1, OwnRecord
  <2>4. script[i].action = "off" => fstab = "ro"
    BY <1>t, <2>1 DEF Progress
  <2> QED BY <1>s, <2>1, <2>2, <2>3, <2>4 DEF HalfDone, Succeeded
<1>7. ASSUME NEW i \in Invocation, Cut(i) PROVE Goal
  <2>1. /\ script[i].at # "idle" /\ UNCHANGED <<cmdline, fstab>> /\ Exit(i, 1)
        /\ interrupted' = (interrupted \/ script[i].at = "second")
    BY <1>7 DEF Cut, settings
  <2>2. Between => script[i].at = "second"
    BY <1>o, <2>1 DEF Between
  <2>3. script'[i].code = 1 /\ \A j \in Invocation \ {i} : script'[j].at = "idle"
    BY <1>o, <1>t, <2>1, OwnRecord
  <2>4. HalfDone' => interrupted'
    BY <1>s, <2>1, <2>2 DEF HalfDone
  <2>5. \A j \in Invocation : ~Succeeded(j, "off")'
    BY <2>3 DEF Succeeded
  <2> QED BY <2>4, <2>5
<1>8. ASSUME NEW i \in Invocation, Return(i) PROVE Goal
  <2>1. /\ script[i].at = "done" /\ UNCHANGED <<cmdline, fstab, interrupted>>
        /\ script' = [script EXCEPT ![i] = Idle]
    BY <1>8 DEF Return, settings
  <2>2. ~Between
    BY <1>o, <2>1 DEF Between
  <2>3. \A j \in Invocation : script'[j].at = "idle"
    BY <1>o, <1>t, <2>1 DEF TypeOK, Idle
  <2> QED BY <1>s, <2>1, <2>2, <2>3 DEF HalfDone, Succeeded
<1>9. CASE Boot
  <2>1. /\ UNCHANGED <<cmdline, fstab>> /\ interrupted' = (interrupted \/ Between)
        /\ \A j \in Invocation : script'[j].at = "idle"
    BY <1>9 DEF Boot, settings, Between, Idle
  <2> QED BY <1>s, <2>1 DEF HalfDone, Succeeded
<1>10. CASE UNCHANGED vars
  BY <1>s, <1>10 DEF vars, settings, HalfDone, Between, Succeeded
<1> QED
  BY <1>1, <1>2, <1>3, <1>4, <1>5, <1>6, <1>7, <1>8, <1>9, <1>10 DEF Next

(***************************************************************************)
(* As long as no two invocations overlap, mother-ticker-maint on that      *)
(* exits 0 has made both filesystems writable for the next boot, whatever  *)
(* failed before it and also when it found nothing to do; off that exits 0 *)
(* has the overlay on, and the boot partition read-only as well unless an  *)
(* invocation before it stopped between its two commands.                  *)
(***************************************************************************)
THEOREM SuccessOfEachAction == Spec => []SuccessDelivers
<1>1. Init => Settled
  BY DEF Init, Settled, HalfDone, Succeeded, Idle
<1>2. Invariant /\ Settled => SuccessDelivers
  BY DEF Invariant, InProgress, Progress, Settled, SuccessDelivers
<1> QED BY <1>1, <1>2, SettledNext, InvariantHolds, PTL DEF Spec

(***************************************************************************)
(* As long as no two invocations overlap, mother-ticker-maint orders a     *)
(* reboot only when both settings are those of one mode.                   *)
(***************************************************************************)
THEOREM NoRebootHalfway == Spec => RebootsWhole
<1>1. Invariant /\ [Next]_vars =>
        [~rebooting /\ rebooting' /\ ~overlapped =>
           <<cmdline, fstab>> \in {<<"rw", "rw">>, <<"overlay", "ro">>}]_vars
  <2> SUFFICES ASSUME Invariant, Next, ~rebooting, rebooting', ~overlapped
               PROVE  <<cmdline, fstab>> \in {<<"rw", "rw">>, <<"overlay", "ro">>}
    OBVIOUS
  <2>1. PICK i \in Invocation : OrderReboot(i)
    BY DEF Next, Invoke, Guard, FirstCommand, SecondCommand, CommandFails, Cut, Return, Boot
  <2>2. script[i].at = "reboot" /\ Progress(i) /\ script[i].action \in {"on", "off"}
    BY <2>1 DEF OrderReboot, Invariant, InProgress, TypeOK
  <2> QED BY <2>2 DEF Progress
<1> QED BY <1>1, InvariantHolds, PTL DEF Spec, RebootsWhole

-----------------------------------------------------------------------------
(* Both settings and what is mounted say "root writable, boot partition    *)
(* read-only", and no `on` is past its guard.                              *)
Trapped ==
  /\ root = "rw" /\ boot = "ro" /\ cmdline = "rw" /\ fstab = "ro"
  /\ \A i \in Invocation : ~(script[i].at = "first" /\ script[i].action = "on")

(* A script that exits, or goes on elsewhere than to its first command,    *)
(* leaves no `on` at its first command.                                    *)
LEMMA TrapScripts ==
  ASSUME TypeOK, Trapped, NEW i \in Invocation, NEW place \in Place, NEW code,
         Exit(i, code) \/ (Goto(i, place) /\ (place # "first" \/ script[i].action = "off"))
  PROVE  \A j \in Invocation : ~(script'[j].at = "first" /\ script'[j].action = "on")
<1>1. script \in [Invocation -> ScriptRecord]
  BY DEF TypeOK, ScriptRecord
<1>2. \A j \in Invocation : script[j] \in ScriptRecord
  BY <1>1
<1>3. CASE Exit(i, code)
  <2>1. script'[i].at = "done" /\ \A j \in Invocation \ {i} : script'[j] = script[j]
    BY <1>1, <1>2, <1>3 DEF Exit, ScriptRecord
  <2> QED BY <2>1 DEF Trapped
<1>4. CASE Goto(i, place) /\ (place # "first" \/ script[i].action = "off")
  <2>1. /\ script'[i].at = place /\ script'[i].action = script[i].action
        /\ \A j \in Invocation \ {i} : script'[j] = script[j]
    BY <1>1, <1>2, <1>4 DEF Goto, ScriptRecord
  <2> QED BY <1>4, <2>1 DEF Trapped
<1> QED BY <1>3, <1>4

(***************************************************************************)
(* What overlapping invocations of mother-ticker-maint can cost for good:  *)
(* a unit that is trapped so stays trapped through every further call of   *)
(* the script, alone or not, and through every reboot.  `on` finds nothing *)
(* to do, and `off` cannot edit cmdline.txt.                               *)
(***************************************************************************)
TrappedForGood == [][Trapped => Trapped']_vars

THEOREM NoWayOut == Spec => TrappedForGood
<1>1. ASSUME TypeOK, Trapped, Next PROVE Trapped'
  <2> DEFINE NoFirst == \A j \in Invocation : ~(script'[j].at = "first" /\ script'[j].action = "on")
             Same == UNCHANGED <<root, boot, cmdline, fstab>>
  <2>0. Same /\ NoFirst => Trapped'
    BY <1>1 DEF Trapped
  <2>s. \A j \in Invocation : script[j] \in ScriptRecord
    BY <1>1 DEF TypeOK, ScriptRecord
  <2>1. ASSUME NEW i \in Invocation, Invoke(i) PROVE Trapped'
    <3>1. PICK action \in {"on", "off"}, reboot \in BOOLEAN :
            script' = [j \in Invocation |->
                         IF j = i THEN [at |-> "guard", action |-> action, reboot |-> reboot,
                                        code |-> 0, alone |-> Running = {}]
                         ELSE IF j \in Running THEN [script[j] EXCEPT !.alone = FALSE]
                         ELSE script[j]]
      BY <2>1 DEF Invoke
    <3>2. ASSUME NEW j \in Invocation
          PROVE  script'[j].at = "guard"
                   \/ (script'[j].at = script[j].at /\ script'[j].action = script[j].action)
      BY <2>s, <3>1 DEF ScriptRecord
    <3>3. NoFirst
      BY <1>1, <3>2 DEF Trapped
    <3> QED BY <2>0, <2>1, <3>3 DEF Invoke, hostVars, settings
  <2>2. ASSUME NEW i \in Invocation, Guard(i) PROVE Trapped'
    <3>1. script[i].action = "on" => NothingToDo(script[i].action)
      BY <1>1 DEF Trapped, NothingToDo, Configured, RunningOverlay
    <3>2. NoFirst
      BY <1>1, <2>s, <2>2, <3>1, TrapScripts DEF Guard, Place, ScriptRecord
    <3> QED BY <2>0, <2>2, <3>2 DEF Guard, hostVars, settings
  <2>3. ASSUME NEW i \in Invocation, FirstCommand(i) PROVE FALSE
    BY <1>1, <2>3 DEF FirstCommand, Command, EnableOverlayfs, Trapped
  <2>c. ASSUME NEW i \in Invocation, Command("second", script[i].action)
        PROVE  Same
    BY <1>1, <2>c DEF Command, EnableBootro, DisableOverlayfs, Trapped, hostVars
  <2>4. ASSUME NEW i \in Invocation, SecondCommand(i) PROVE Trapped'
    <3>1. NoFirst
      BY <1>1, <2>4, TrapScripts DEF SecondCommand, Place
    <3> QED BY <2>0, <2>4, <2>c, <3>1 DEF SecondCommand
  <2>5. ASSUME NEW i \in Invocation, CommandFails(i) PROVE Trapped'
    <3>1. NoFirst
      BY <1>1, <2>5, TrapScripts DEF CommandFails, Place
    <3>2. Same
      <4>1. ~Command("first", script[i].action) \/ script[i].at # "first"
        BY <1>1 DEF Command, EnableOverlayfs, Trapped
      <4> QED BY <2>5, <2>c, <4>1 DEF CommandFails, hostVars, settings
    <3> QED BY <2>0, <3>1, <3>2
  <2>6. ASSUME NEW i \in Invocation, OrderReboot(i) \/ Cut(i) PROVE Trapped'
    <3>1. NoFirst
      BY <1>1, <2>6, TrapScripts DEF OrderReboot, Cut, Place
    <3> QED BY <2>0, <2>6, <3>1 DEF OrderReboot, Cut, hostVars, settings
  <2>7. ASSUME NEW i \in Invocation, Return(i) PROVE Trapped'
    <3>1. script \in [Invocation -> ScriptRecord] /\ Idle.at = "idle"
      BY <1>1 DEF TypeOK, ScriptRecord, Idle
    <3>2. NoFirst
      BY <1>1, <2>7, <3>1 DEF Return, Trapped
    <3> QED BY <2>0, <2>7, <3>2 DEF Return, hostVars, settings
  <2>8. CASE Boot
    <3>1. NoFirst
      BY <2>8 DEF Boot, Idle
    <3> QED BY <1>1, <2>8, <3>1 DEF Boot, Trapped, settings
  <2> QED BY <1>1, <2>1, <2>2, <2>3, <2>4, <2>5, <2>6, <2>7, <2>8 DEF Next
<1>2. ASSUME UNCHANGED vars, Trapped PROVE Trapped'
  BY <1>2 DEF Trapped, vars, hostVars, settings
<1>3. TypeOK /\ [Next]_vars => [Trapped => Trapped']_vars
  BY <1>1, <1>2
<1> QED BY <1>3, MaintenanceTypes, PTL DEF Spec, TrappedForGood

(***************************************************************************)
(* Only invocations that overlapped lead there: the order of the two       *)
(* commands of mother-ticker-maint keeps a unit on which they never do out *)
(* of the trap.                                                            *)
(***************************************************************************)
THEOREM TrapNeedsOverlap == Spec => [](Trapped => overlapped)
<1>1. BootPartitionFollows => (Trapped => overlapped)
  BY DEF BootPartitionFollows, Trapped
<1> QED BY <1>1, OrderOfCommandsProtects, PTL

=============================================================================
