------------------------- MODULE HealthCheckProofs --------------------------
(***************************************************************************)
(* For every set of units, every threshold and every host: the types, the  *)
(* inductive invariant behind the ladder's counters, the refinement of the *)
(* reboot policy, and that restarts back off.                              *)
(***************************************************************************)
EXTENDS HealthCheck, TLAPS

(***************************************************************************)
(* The state between the steps of one check.                               *)
(***************************************************************************)
Control ==
  /\ pc # "apply" => todo = {}
  /\ pc # "idle" /\ new.lastLevel # CRITICAL =>
       /\ streak = 0 /\ new.consecutive = 0
       /\ \A s \in Subsystem : new.bySubsystem[s] = 0
  /\ pc # "idle" =>
       /\ streak = 0 => new.lastLevel # CRITICAL
       /\ \A s \in Subsystem : rows[s] = 0 => new.bySubsystem[s] = 0

(* The inductive invariant: the counters are backed in every control state. *)
IInv == TypeOK /\ Control /\ CountersBacked /\ CommandsJustified

-----------------------------------------------------------------------------
(***************************************************************************)
(* Whatever the readings, evaluate() names a level and blames subsystems.  *)
(***************************************************************************)
LEMMA EvaluateType ==
  ASSUME NEW snapshot
  PROVE  /\ Evaluate(snapshot).level \in Level
         /\ CriticalSubsystems(Evaluate(snapshot)) \subseteq Subsystem
<1>1. Evaluate(snapshot).level \in Level
  BY DEF Evaluate, WorstLevel, Level, OK, WARNING, CRITICAL
<1>2. ASSUME NEW p \in Evaluate(snapshot).problems
      PROVE  p.subsystem \in Subsystem
  <2>1. CASE p \in CheckPps(snapshot.pps)
    <3>1. PICK m : p = Problem(CRITICAL, "pps", m)
      BY <2>1 DEF CheckPps
    <3>2. QED
      BY <3>1 DEF Problem, Subsystem
  <2>2. CASE p \in CheckGnss(snapshot.gnss)
    <3>1. PICK l, m : p = Problem(l, "gnss", m)
      BY <2>2, Zenon DEF CheckGnss
    <3>2. QED
      BY <3>1 DEF Problem, Subsystem
  <2>3. CASE p \in CheckChrony(snapshot.tracking)
    <3>1. PICK l, m : p = Problem(l, "chrony", m)
      BY <2>3, Zenon DEF CheckChrony
    <3>2. QED
      BY <3>1 DEF Problem, Subsystem
  <2>4. CASE p \in CheckServices(snapshot.services)
    BY <2>4 DEF CheckServices, Problem, Subsystem
  <2>5. CASE p \in CheckHost(snapshot.system)
    <3>1. PICK l, m : p = Problem(l, "system", m)
      BY <2>5, Zenon DEF CheckHost
    <3>2. QED
      BY <3>1 DEF Problem, Subsystem
  <2>6. QED
    BY <1>2, <2>1, <2>2, <2>3, <2>4, <2>5 DEF Evaluate
<1>3. QED
  BY <1>1, <1>2 DEF CriticalSubsystems

LEMMA FreshStateType == FreshState \in LadderState
BY LadderAssumption DEF FreshState, LadderState, Level, OK, CRITICAL

LEMMA SaturateType ==
  ASSUME NEW n \in Nat, NEW max \in Nat
  PROVE  /\ Saturate(n, max) \in 0 .. max
         /\ n >= max => Saturate(n, max) = max
         /\ n <= Saturate(n, max) \/ Saturate(n, max) = max
BY DEF Saturate

(* A restart tally never leaves its range. *)
LEMMA TallyType ==
  ASSUME NEW r \in [RestartTargets -> 0 .. TALLY_MAX], NEW cmds
  PROVE  TallyUp(r, cmds) \in [RestartTargets -> 0 .. TALLY_MAX]
<1> DEFINE asService(u) == IF Command("service", u) \in cmds THEN 1 ELSE 0
           asCause(u) == IF \E c \in cmds : c.target = u /\ c.why # "service" THEN 1 ELSE 0
           tally(u) == r[u] + asCause(u) + asService(u)
<1>1. ASSUME NEW u \in RestartTargets
      PROVE  (IF tally(u) < TALLY_MAX THEN tally(u) ELSE TALLY_MAX) \in 0 .. TALLY_MAX
  <2>1. asService(u) \in Nat /\ asCause(u) \in Nat /\ r[u] \in Nat
    OBVIOUS
  <2> HIDE DEF asService, asCause
  <2>2. QED
    BY <2>1, LadderAssumption
<1>2. QED
  BY <1>1 DEF TallyUp

(***************************************************************************)
(* What decide() returns from a legal state and any report that names a    *)
(* level and blames subsystems.                                            *)
(***************************************************************************)
LEMMA DecideType ==
  ASSUME NEW report, NEW state \in LadderState, NEW up \in Nat,
         report.level \in Level, CriticalSubsystems(report) \subseteq Subsystem
  PROVE  /\ DecideState(report, state, up) \in LadderState
         /\ DecideCommands(report, state, up) \subseteq Commands
<1> DEFINE counts == AdvanceBySubsystem(state.bySubsystem, CriticalSubsystems(report))
<1>1. counts \in [Subsystem -> Nat]
  BY DEF AdvanceBySubsystem, LadderState
<1>2. TallyUp(state.restarts, SubsystemRestarts(report, counts))
        \in [RestartTargets -> 0 .. TALLY_MAX]
  BY TallyType DEF LadderState
<1>3. DecideState(report, state, up) \in LadderState
  <2>1. CASE report.level # CRITICAL
    <3>1. DecideState(report, state, up)
            = [FreshState EXCEPT !.restarts = state.restarts, !.lastLevel = report.level]
      BY <2>1 DEF DecideState
    <3>2. DecideState(report, state, up) =
            [ consecutive |-> 0, bySubsystem |-> [s \in Subsystem |-> 0],
              restarts |-> state.restarts, lastLevel |-> report.level ]
      BY <3>1 DEF FreshState
    <3>3. QED
      BY <3>2 DEF LadderState
  <2>2. CASE report.level = CRITICAL
    <3>1. state.consecutive + 1 \in Nat
      BY DEF LadderState
    <3>2. DecideState(report, state, up) =
            [ consecutive |-> IF RebootDue(state.consecutive + 1, up)
                              THEN 0 ELSE state.consecutive + 1,
              bySubsystem |-> counts,
              restarts |-> TallyUp(state.restarts, SubsystemRestarts(report, counts)),
              lastLevel |-> report.level ]
      BY <2>2, Zenon DEF DecideState
    <3> HIDE DEF counts
    <3>3. QED
      BY <1>1, <1>2, <3>1, <3>2 DEF LadderState
  <2>3. QED
    BY <2>1, <2>2
<1>4. DecideCommands(report, state, up) \subseteq Commands
  BY DEF DecideCommands, SubsystemRestarts, Commands
<1>5. QED
  BY <1>3, <1>4

-----------------------------------------------------------------------------

LEMMA BackoffType == BACKOFF \in Nat
BY LadderAssumption DEF BACKOFF

LEMMA NewBootType == NewBoot /\ host' \in Snapshots /\ stuck' \in StuckSets => TypeOK'
<1>1. /\ 0 \in 0 .. MIN_UPTIME /\ 0 \in 0 .. REBOOT_AFTER
      /\ [s \in Subsystem |-> 0] \in [Subsystem -> 0 .. RESTART_AFTER]
      /\ [s \in Subsystem |-> BACKOFF] \in [Subsystem -> 0 .. BACKOFF]
  BY BackoffType, LadderAssumption
<1>2. SUFFICES ASSUME NewBoot, host' \in Snapshots, stuck' \in StuckSets PROVE TypeOK'
  OBVIOUS
<1>3. streak' \in 0 .. REBOOT_AFTER /\ found' \in 0 .. REBOOT_AFTER /\ uptime' \in 0 .. MIN_UPTIME
  BY <1>1, <1>2 DEF NewBoot
<1>4. /\ rows' \in [Subsystem -> 0 .. RESTART_AFTER]
      /\ blamed' \in [Subsystem -> 0 .. RESTART_AFTER]
      /\ since' \in [Subsystem -> 0 .. BACKOFF]
  BY <1>1, <1>2, Zenon DEF NewBoot
<1>5. disk' \in LadderState /\ new' \in LadderState
  BY <1>2, FreshStateType DEF NewBoot
<1>6. /\ pc' \in {"idle", "apply", "save"} /\ todo' \subseteq Commands
      /\ hangs' \in Nat /\ failed' \in Nat
      /\ rebooting' \in BOOLEAN /\ lost' \in BOOLEAN
  BY <1>2 DEF NewBoot
<1>7. QED
  BY <1>2, <1>3, <1>4, <1>5, <1>6 DEF TypeOK

LEMMA ObserveType ==
  ASSUME TypeOK, NEW report, Observe(report)
  PROVE  /\ streak' \in 0 .. REBOOT_AFTER
         /\ rows' \in [Subsystem -> 0 .. RESTART_AFTER]
         /\ since' \in [Subsystem -> 0 .. BACKOFF]
         /\ found' \in 0 .. REBOOT_AFTER
         /\ blamed' \in [Subsystem -> 0 .. RESTART_AFTER]
<1> USE LadderAssumption
<1>1. streak' \in 0 .. REBOOT_AFTER
  BY DEF Observe, TypeOK, Saturate
<1>2. rows' \in [Subsystem -> 0 .. RESTART_AFTER]
  BY DEF Observe, TypeOK, Saturate
<1>3. since' \in [Subsystem -> 0 .. BACKOFF]
  BY BackoffType DEF Observe, TypeOK, Saturate
<1>4. found' \in 0 .. REBOOT_AFTER
  BY DEF Observe, TypeOK, Saturate
<1>5. blamed' \in [Subsystem -> 0 .. RESTART_AFTER]
  BY DEF Observe, TypeOK, Saturate
<1>6. QED
  BY <1>1, <1>2, <1>3, <1>4, <1>5

(***************************************************************************)
(* Every variable keeps its type in every step.                            *)
(***************************************************************************)
LEMMA TypeStep == TypeOK /\ [Next]_vars => TypeOK'
<1> SUFFICES ASSUME TypeOK, [Next]_vars PROVE TypeOK'
  OBVIOUS
<1> USE DEF hostVars, checkVars, historyVars
<1>1. CASE HostChanges
  BY <1>1 DEF HostChanges, TypeOK
<1>2. CASE StartCheck
  <2> DEFINE report == Evaluate(host)
  <2>1. uptime' \in 0 .. MIN_UPTIME
    BY <1>2, LadderAssumption DEF StartCheck, TypeOK, Saturate
  <2>2. report.level \in Level /\ CriticalSubsystems(report) \subseteq Subsystem
    BY EvaluateType
  <2>3. /\ new' = DecideState(report, disk, uptime')
        /\ todo' = DecideCommands(report, disk, uptime')
        /\ Observe(report)
    BY <1>2 DEF StartCheck
  <2>4. disk \in LadderState /\ uptime' \in Nat
    BY <2>1 DEF TypeOK
  <2> HIDE DEF report
  <2>5. new' \in LadderState /\ todo' \subseteq Commands
    BY <2>2, <2>3, <2>4, DecideType
  <2>6. QED
    BY <1>2, <2>1, <2>3, <2>5, ObserveType DEF StartCheck, TypeOK
<1>3. ASSUME NEW c \in Commands, CommandSucceeds(c) PROVE TypeOK'
  BY <1>3 DEF CommandSucceeds, TypeOK
<1>4. ASSUME NEW c \in Commands, CommandFails(c) PROVE TypeOK'
  BY <1>4 DEF CommandFails, FailsOnce, TypeOK
<1>5. ASSUME NEW c \in Commands, CommandTimesOut(c) PROVE TypeOK'
  <2>1. rebooting' \in BOOLEAN
    BY <1>5 DEF CommandTimesOut, TypeOK
  <2>2. QED
    BY <1>5, <2>1 DEF CommandTimesOut, FailsOnce, TypeOK
<1>6. CASE KilledBySystemd
  BY <1>6, FreshStateType DEF KilledBySystemd, TypeOK
<1>7. CASE AllApplied
  BY <1>7 DEF AllApplied, TypeOK
<1>8. CASE Save
  <2>1. lost' \in BOOLEAN
    BY <1>8, Zenon DEF Save
  <2>2. found' \in 0 .. REBOOT_AFTER
    BY <1>8, LadderAssumption DEF Save, TypeOK
  <2>3. blamed' \in [Subsystem -> 0 .. RESTART_AFTER]
    BY <1>8, LadderAssumption DEF Save, TypeOK
  <2>4. QED
    BY <1>8, <2>1, <2>2, <2>3, FreshStateType DEF Save, CheckEnds, TypeOK
<1>9. CASE SaveFails
  BY <1>9, FreshStateType DEF SaveFails, CheckEnds, TypeOK
<1>10. CASE RebootCompletes
  BY <1>10, NewBootType DEF RebootCompletes
<1>11. CASE PowerCut
  BY <1>11, NewBootType DEF PowerCut
<1>12. CASE GatherRaises
  BY <1>12, LadderAssumption DEF GatherRaises, TypeOK, Saturate
<1>13. CASE UNCHANGED vars
  BY <1>13 DEF vars, TypeOK
<1>14. QED
  BY <1>1, <1>2, <1>3, <1>4, <1>5, <1>6, <1>7, <1>8, <1>9, <1>10, <1>11, <1>12, <1>13 DEF Next

LEMMA TypeInit == Init => TypeOK
<1>1. /\ 0 \in 0 .. MIN_UPTIME /\ 0 \in 0 .. REBOOT_AFTER
      /\ [s \in Subsystem |-> 0] \in [Subsystem -> 0 .. RESTART_AFTER]
      /\ [s \in Subsystem |-> BACKOFF] \in [Subsystem -> 0 .. BACKOFF]
  BY BackoffType, LadderAssumption
<1>2. SUFFICES ASSUME Init PROVE TypeOK
  OBVIOUS
<1>3. /\ rows \in [Subsystem -> 0 .. RESTART_AFTER]
      /\ blamed \in [Subsystem -> 0 .. RESTART_AFTER]
      /\ since \in [Subsystem -> 0 .. BACKOFF]
  BY <1>1, <1>2, Zenon DEF Init
<1>4. disk \in LadderState /\ new \in LadderState
  BY <1>2, FreshStateType DEF Init
<1>5. QED
  BY <1>1, <1>2, <1>3, <1>4 DEF Init, TypeOK

(***************************************************************************)
(* The health check is type-correct on every host and under every          *)
(* configuration: check.py, run_check and apply.                           *)
(***************************************************************************)
THEOREM TypeCorrect == Spec => []TypeOK
<1>1. Init => TypeOK
  BY TypeInit
<1>2. TypeOK /\ [Next]_vars => TypeOK'
  BY TypeStep
<1>3. QED
  BY <1>1, <1>2, PTL DEF Spec

-----------------------------------------------------------------------------
(***************************************************************************)
(* A check that starts from backed counters decides on backed counters,    *)
(* and every command it decides on is justified.                           *)
(***************************************************************************)
LEMMA StartCheckKeeps ==
  ASSUME TypeOK, CountersBacked, StartCheck
  PROVE  Control' /\ CountersBacked' /\ CommandsJustified'
<1> DEFINE report == Evaluate(host)
           critical == CriticalSubsystems(report)
           counts == AdvanceBySubsystem(disk.bySubsystem, critical)
<1>1. /\ pc = "idle" /\ pc' = "apply" /\ lost' = lost
      /\ uptime' = Saturate(uptime + 1, MIN_UPTIME)
      /\ new' = DecideState(report, disk, uptime')
      /\ todo' = DecideCommands(report, disk, uptime')
      /\ Observe(report)
  BY DEF StartCheck
<1>2. /\ disk.consecutive \in Nat /\ streak \in 0 .. REBOOT_AFTER
      /\ uptime' \in 0 .. MIN_UPTIME
      /\ \A s \in Subsystem : disk.bySubsystem[s] \in Nat /\ rows[s] \in 0 .. RESTART_AFTER
      /\ critical \subseteq Subsystem
  BY <1>1, EvaluateType, LadderAssumption DEF TypeOK, LadderState, Saturate
<1>3. (lost \/ Backed(disk)) /\ Earned(disk)
  BY <1>1 DEF CountersBacked
<1> HIDE DEF report, critical
<1>7. /\ disk' = disk
      /\ found \in 0 .. REBOOT_AFTER /\ found' \in 0 .. REBOOT_AFTER
      /\ found' = IF report.level = CRITICAL THEN Saturate(found + 1, REBOOT_AFTER) ELSE found
      /\ \A s \in Subsystem :
           /\ blamed[s] \in 0 .. RESTART_AFTER /\ blamed'[s] \in 0 .. RESTART_AFTER
           /\ blamed'[s] = IF s \in critical THEN Saturate(blamed[s] + 1, RESTART_AFTER)
                           ELSE blamed[s]
  BY <1>1, ObserveType DEF StartCheck, Observe, TypeOK, report, critical
<1>8. Earned(disk)'
  BY <1>2, <1>3, <1>7, LadderAssumption DEF Earned, Saturate
<1>4. CASE report.level # CRITICAL
  <2>1. /\ new'.consecutive = 0
        /\ \A s \in Subsystem : new'.bySubsystem[s] = 0
        /\ streak' = 0 /\ todo' = {}
    BY <1>1, <1>4 DEF DecideState, DecideCommands, FreshState, Observe
  <2>2. rows' \in [Subsystem -> 0 .. RESTART_AFTER]
    BY <1>1, ObserveType
  <2>3. Backed(new)'
    BY <2>1, <2>2, LadderAssumption DEF Backed
  <2>4. Earned(new)'
    BY <1>7, <2>1 DEF Earned
  <2>5. new'.lastLevel # CRITICAL
    BY <1>1, <1>4 DEF DecideState, FreshState
  <2>6. QED
    BY <1>1, <1>8, <2>1, <2>3, <2>4, <2>5 DEF Control, CountersBacked, CommandsJustified
<1>5. CASE report.level = CRITICAL
  <2>1. /\ new' = [ consecutive |-> IF RebootDue(disk.consecutive + 1, uptime')
                                    THEN 0 ELSE disk.consecutive + 1,
                    bySubsystem |-> counts,
                    restarts |-> TallyUp(disk.restarts, SubsystemRestarts(report, counts)),
                    lastLevel |-> report.level ]
        /\ todo' = SubsystemRestarts(report, counts)
                   \cup IF RebootDue(disk.consecutive + 1, uptime')
                        THEN {Command("reboot", "host")} ELSE {}
    BY <1>1, <1>5, Zenon DEF DecideState, DecideCommands, critical
  <2>2. /\ streak' = Saturate(streak + 1, REBOOT_AFTER)
        /\ \A s \in Subsystem :
             rows'[s] = IF s \in critical THEN Saturate(rows[s] + 1, RESTART_AFTER) ELSE 0
    BY <1>1, <1>5 DEF Observe, critical
  <2>3. \A s \in Subsystem :
          counts[s] = IF s \in critical THEN disk.bySubsystem[s] + 1 ELSE 0
    BY DEF AdvanceBySubsystem
  <2> HIDE DEF counts
  <2>4. ASSUME Backed(disk)
        PROVE  /\ disk.consecutive + 1 <= streak' \/ streak' = REBOOT_AFTER
               /\ \A s \in Subsystem : counts[s] <= rows'[s] \/ rows'[s] = RESTART_AFTER
    BY <1>2, <2>2, <2>3, <2>4, LadderAssumption DEF Backed, Saturate
  <2>5. lost \/ Backed(new)'
    <3>1. CASE RebootDue(disk.consecutive + 1, uptime')
      <4>1. new'.consecutive = 0 /\ new'.bySubsystem = counts
        BY <2>1, <3>1
      <4>2. streak' \in 0 .. REBOOT_AFTER
        BY <1>1, ObserveType
      <4>3. QED
        BY <1>3, <2>4, <4>1, <4>2, LadderAssumption DEF Backed
    <3>2. CASE ~RebootDue(disk.consecutive + 1, uptime')
      <4>1. new'.consecutive = disk.consecutive + 1 /\ new'.bySubsystem = counts
        BY <2>1, <3>2
      <4>2. QED
        BY <1>3, <2>4, <4>1 DEF Backed
    <3>3. QED
      BY <3>1, <3>2
  <2>11. /\ disk.consecutive + 1 <= found' \/ found' = REBOOT_AFTER
         /\ \A s \in Subsystem : counts[s] <= blamed'[s] \/ blamed'[s] = RESTART_AFTER
    BY <1>2, <1>3, <1>5, <1>7, <2>3, LadderAssumption DEF Earned, Saturate
  <2>12. Earned(new)'
    <3>1. /\ new'.consecutive = disk.consecutive + 1 \/ new'.consecutive = 0
          /\ new'.bySubsystem = counts
      BY <2>1
    <3>2. QED
      BY <1>7, <2>11, <3>1 DEF Earned
  <2>6. ASSUME NEW c \in SubsystemRestarts(report, counts)
        PROVE  /\ c.why # "reboot" /\ blamed'[c.why] = RESTART_AFTER
               /\ lost \/ rows'[c.why] = RESTART_AFTER
    <3>1. c.why \in critical /\ Due(counts, c.why)
      BY DEF SubsystemRestarts, critical
    <3>2. c.why \in Subsystem /\ counts[c.why] >= RESTART_AFTER
      BY <1>2, <3>1 DEF Due
    <3>3. c.why # "reboot"
      BY <3>2 DEF Subsystem
    <3>4. rows'[c.why] = Saturate(rows[c.why] + 1, RESTART_AFTER)
      BY <2>2, <3>1, <3>2
    <3>5. lost \/ rows'[c.why] = RESTART_AFTER
      BY <1>2, <1>3, <2>3, <2>4, <3>2, <3>4, LadderAssumption DEF Saturate
    <3>6. blamed'[c.why] = RESTART_AFTER
      BY <1>2, <1>7, <2>3, <2>11, <3>1, <3>2, LadderAssumption
    <3>7. QED
      BY <3>3, <3>5, <3>6
  <2>7. ASSUME RebootDue(disk.consecutive + 1, uptime')
        PROVE  /\ REBOOT_ENABLED /\ uptime' = MIN_UPTIME /\ found' = REBOOT_AFTER
               /\ lost \/ streak' = REBOOT_AFTER
    <3>1. /\ REBOOT_ENABLED
          /\ disk.consecutive + 1 >= REBOOT_AFTER
          /\ uptime' >= MIN_UPTIME
      BY <2>7 DEF RebootDue
    <3>2. streak' \in 0 .. REBOOT_AFTER
      BY <1>1, ObserveType
    <3>3. found' = REBOOT_AFTER
      BY <1>2, <1>7, <2>11, <3>1, LadderAssumption
    <3>4. QED
      BY <1>2, <1>3, <2>4, <3>1, <3>2, <3>3, LadderAssumption
  <2>8. CommandsJustified'
    <3>1. SUFFICES ASSUME NEW c \in todo'
                   PROVE  IF c.why = "reboot"
                          THEN /\ REBOOT_ENABLED /\ uptime' = MIN_UPTIME
                               /\ found' = REBOOT_AFTER
                               /\ lost \/ streak' = REBOOT_AFTER
                          ELSE /\ blamed'[c.why] = RESTART_AFTER
                               /\ lost \/ rows'[c.why] = RESTART_AFTER
      BY <1>1 DEF CommandsJustified
    <3>2. CASE c \in SubsystemRestarts(report, counts)
      BY <2>6, <3>2
    <3>3. CASE c \notin SubsystemRestarts(report, counts)
      <4>1. RebootDue(disk.consecutive + 1, uptime') /\ c = Command("reboot", "host")
        BY <2>1, <3>3
      <4>2. QED
        BY <2>7, <4>1 DEF Command
    <3>4. QED
      BY <3>2, <3>3
  <2>9. Control'
    <3>1. streak' # 0
      BY <1>2, <2>2, LadderAssumption DEF Saturate
    <3>2. \A s \in Subsystem : rows'[s] = 0 => counts[s] = 0
      BY <1>2, <2>2, <2>3, LadderAssumption DEF Saturate
    <3>3. new'.lastLevel = CRITICAL /\ new'.bySubsystem = counts
      BY <1>5, <2>1
    <3>4. QED
      BY <1>1, <3>1, <3>2, <3>3 DEF Control
  <2>10. QED
    BY <1>1, <1>8, <2>5, <2>8, <2>9, <2>12 DEF CountersBacked
<1>6. QED
  BY <1>4, <1>5

-----------------------------------------------------------------------------

LEMMA NewBootKeeps == NewBoot => Control' /\ CountersBacked' /\ CommandsJustified'
<1> SUFFICES ASSUME NewBoot PROVE Control' /\ CountersBacked' /\ CommandsJustified'
  OBVIOUS
<1>1. /\ disk' = FreshState /\ streak' = 0 /\ pc' = "idle" /\ todo' = {}
      /\ \A s \in Subsystem : rows'[s] = 0
  BY DEF NewBoot
<1>2. Backed(disk)'
  BY <1>1 DEF Backed, FreshState
<1>3. Earned(disk)'
  BY <1>1 DEF NewBoot, Earned, FreshState
<1>4. QED
  BY <1>1, <1>2, <1>3 DEF Control, CountersBacked, CommandsJustified

(***************************************************************************)
(* The invariant is inductive: one step per action of the check.           *)
(***************************************************************************)
LEMMA InvariantStep == IInv /\ [Next]_vars => IInv'
<1> SUFFICES ASSUME IInv, [Next]_vars PROVE Control' /\ CountersBacked' /\ CommandsJustified'
  BY TypeStep DEF IInv
<1>1. TypeOK /\ Control /\ CountersBacked /\ CommandsJustified
  BY DEF IInv
<1> USE DEF hostVars, checkVars, historyVars
<1>2. CASE HostChanges
  BY <1>1, <1>2 DEF HostChanges, Control, CountersBacked, CommandsJustified, Backed, Earned
<1>3. CASE StartCheck
  BY <1>1, <1>3, StartCheckKeeps
<1>4. ASSUME NEW c \in Commands, CommandSucceeds(c)
      PROVE  Control' /\ CountersBacked' /\ CommandsJustified'
  BY <1>1, <1>4 DEF CommandSucceeds, Control, CountersBacked, CommandsJustified, Backed, Earned
<1>5. ASSUME NEW c \in Commands, CommandFails(c)
      PROVE  Control' /\ CountersBacked' /\ CommandsJustified'
  BY <1>1, <1>5 DEF CommandFails, Control, CountersBacked, CommandsJustified, Backed, Earned
<1>6. ASSUME NEW c \in Commands, CommandTimesOut(c)
      PROVE  Control' /\ CountersBacked' /\ CommandsJustified'
  BY <1>1, <1>6 DEF CommandTimesOut, Control, CountersBacked, CommandsJustified, Backed, Earned
<1>7. CASE KilledBySystemd
  BY <1>1, <1>7 DEF KilledBySystemd, Control, CountersBacked, CommandsJustified, Earned
<1>8. CASE AllApplied
  BY <1>1, <1>8 DEF AllApplied, Control, CountersBacked, CommandsJustified, Backed, Earned
<1>9. CASE Save
  <2>1. /\ pc = "save" /\ pc' = "idle" /\ disk' = new /\ todo' = todo /\ todo = {}
        /\ streak' = streak /\ rows' = rows
    BY <1>1, <1>9 DEF Save, CheckEnds, Control
  <2>5. Earned(disk)'
    <3>1. /\ Earned(new)
          /\ streak = 0 => new.consecutive = 0
          /\ \A s \in Subsystem : rows[s] = 0 => new.bySubsystem[s] = 0
      BY <1>1, <2>1 DEF CountersBacked, Control
    <3>2. /\ found' = IF streak = 0 THEN 0 ELSE found
          /\ \A s \in Subsystem : blamed'[s] = IF rows[s] = 0 THEN 0 ELSE blamed[s]
      BY <1>9 DEF Save
    <3>3. QED
      BY <2>1, <3>1, <3>2 DEF Earned
  <2>2. CASE new.lastLevel = CRITICAL
    <3>1. lost' = lost
      BY <1>1, <1>9, <2>2, Zenon DEF Save, TypeOK
    <3>2. lost \/ Backed(disk)'
      BY <1>1, <2>1 DEF CountersBacked, Backed
    <3>3. QED
      BY <2>1, <2>5, <3>1, <3>2 DEF Control, CountersBacked, CommandsJustified
  <2>3. CASE new.lastLevel # CRITICAL
    <3>1. /\ new.consecutive = 0 /\ \A s \in Subsystem : new.bySubsystem[s] = 0
          /\ streak \in 0 .. REBOOT_AFTER /\ rows \in [Subsystem -> 0 .. RESTART_AFTER]
      BY <1>1, <2>1, <2>3 DEF Control, TypeOK
    <3>2. Backed(disk)'
      BY <2>1, <3>1, LadderAssumption DEF Backed
    <3>3. QED
      BY <2>1, <2>5, <3>2 DEF Control, CountersBacked, CommandsJustified
  <2>4. QED
    BY <2>2, <2>3
<1>10. CASE SaveFails
  BY <1>1, <1>10 DEF SaveFails, CheckEnds, Control, CountersBacked, CommandsJustified, Earned
<1>11. CASE RebootCompletes
  BY <1>11, NewBootKeeps DEF RebootCompletes
<1>12. CASE PowerCut
  BY <1>12, NewBootKeeps DEF PowerCut
<1>13. CASE UNCHANGED vars
  BY <1>1, <1>13 DEF vars, Control, CountersBacked, CommandsJustified, Backed, Earned
<1>14. CASE GatherRaises
  BY <1>1, <1>14 DEF GatherRaises, Control, CountersBacked, CommandsJustified, Backed, Earned
<1>15. QED
  BY <1>2, <1>3, <1>4, <1>5, <1>6, <1>7, <1>8, <1>9, <1>10, <1>11, <1>12, <1>13, <1>14 DEF Next

LEMMA InvariantInit == Init => IInv
<1> SUFFICES ASSUME Init PROVE Control /\ CountersBacked /\ CommandsJustified
  BY TypeInit DEF IInv
<1>1. Backed(disk) /\ Earned(disk)
  BY DEF Init, Backed, Earned, FreshState
<1>2. QED
  BY <1>1 DEF Init, Control, CountersBacked, CommandsJustified

LEMMA Invariant == Spec => []IInv
<1>1. QED
  BY InvariantInit, InvariantStep, PTL DEF Spec

(***************************************************************************)
(* The saved counters never claim more than the checks found: whatever the *)
(* host does between load and save, and whenever a check is killed.        *)
(***************************************************************************)
THEOREM CountersAreBacked == Spec => []CountersBacked
<1>1. IInv => CountersBacked
  BY DEF IInv
<1>2. QED
  BY <1>1, Invariant, PTL

(***************************************************************************)
(* Every restart and every reboot the ladder orders has its row of         *)
(* critical checks behind it, and no reboot comes before the uptime floor. *)
(***************************************************************************)
THEOREM CommandsAreJustified == Spec => []CommandsJustified
<1>1. IInv => CommandsJustified
  BY DEF IInv
<1>2. QED
  BY <1>1, Invariant, PTL

-----------------------------------------------------------------------------
(***************************************************************************)
(* The refinement: every step of the check is a step of the policy or      *)
(* leaves its variables alone.                                             *)
(***************************************************************************)
LEMMA PolicyStep == IInv /\ [Next]_vars => [Policy!Next]_(Policy!vars)
<1> SUFFICES ASSUME IInv, [Next]_vars PROVE [Policy!Next]_(Policy!vars)
  OBVIOUS
<1>1. TypeOK /\ Control /\ CommandsJustified
  BY DEF IInv
<1> USE DEF hostVars, checkVars, historyVars, Policy!vars
<1>2. CASE HostChanges
  BY <1>2 DEF HostChanges
<1>3. CASE StartCheck
  <2>1. Policy!Check
    <3>1. /\ pc = "idle" /\ ~rebooting /\ rebooting' = rebooting /\ lost' = lost
          /\ uptime' = Saturate(uptime + 1, MIN_UPTIME)
          /\ Observe(Evaluate(host))
      BY <1>3 DEF StartCheck
    <3>2. \/ /\ streak' = Saturate(streak + 1, REBOOT_AFTER)
             /\ found' = Saturate(found + 1, REBOOT_AFTER)
          \/ streak' = 0 /\ found' = found
      BY <3>1 DEF Observe
    <3>3. QED
      BY <3>1, <3>2 DEF Policy!Check, Saturate, Policy!Saturate
  <2>2. QED
    BY <2>1 DEF Policy!Next
<1>4. ASSUME NEW c \in Commands, CommandSucceeds(c)
      PROVE  [Policy!Next]_(Policy!vars)
  <2>1. /\ c \in todo /\ streak' = streak /\ found' = found /\ uptime' = uptime /\ lost' = lost
        /\ rebooting' = (rebooting \/ c.why = "reboot")
    BY <1>4 DEF CommandSucceeds, IsNext
  <2>2. CASE c.why = "reboot"
    <3>1. Policy!Reboot
      BY <1>1, <2>1, <2>2 DEF CommandsJustified, Policy!Reboot
    <3>2. QED
      BY <3>1 DEF Policy!Next
  <2>3. CASE c.why # "reboot"
    <3>1. rebooting' = rebooting
      BY <1>1, <2>1, <2>3, Zenon DEF TypeOK
    <3>2. QED
      BY <2>1, <3>1
  <2>4. QED
    BY <2>2, <2>3
<1>5. ASSUME NEW c \in Commands, CommandFails(c)
      PROVE  [Policy!Next]_(Policy!vars)
  BY <1>5 DEF CommandFails
<1>6. ASSUME NEW c \in Commands, CommandTimesOut(c)
      PROVE  [Policy!Next]_(Policy!vars)
  <2>1. /\ c \in todo /\ streak' = streak /\ found' = found /\ uptime' = uptime /\ lost' = lost
    BY <1>6 DEF CommandTimesOut, IsNext
  <2>2. rebooting' = rebooting \/ (c.why = "reboot" /\ rebooting' = TRUE)
    BY <1>6 DEF CommandTimesOut
  <2>3. CASE c.why = "reboot" /\ rebooting' = TRUE
    <3>1. Policy!Reboot
      BY <1>1, <2>1, <2>3 DEF CommandsJustified, Policy!Reboot
    <3>2. QED
      BY <3>1 DEF Policy!Next
  <2>4. QED
    BY <2>1, <2>2, <2>3
<1>7. CASE KilledBySystemd
  BY <1>7 DEF KilledBySystemd, Policy!LoseRecord, Policy!Next
<1>8. CASE AllApplied
  BY <1>8 DEF AllApplied
<1>9. CASE Save
  <2>1. /\ streak' = streak /\ uptime' = uptime /\ rebooting' = rebooting
        /\ pc = "save" /\ lost' = (lost /\ new.lastLevel = CRITICAL)
        /\ found' = IF streak = 0 THEN 0 ELSE found
    BY <1>9 DEF Save
  <2>2. CASE new.lastLevel = CRITICAL
    <3>1. lost' = lost
      BY <1>1, <2>1, <2>2, Zenon DEF TypeOK
    <3>2. found' = found
      BY <1>1, <2>1, <2>2 DEF Control
    <3>3. QED
      BY <2>1, <3>1, <3>2
  <2>3. CASE new.lastLevel # CRITICAL
    <3>1. lost' = FALSE
      BY <2>1, <2>3, Zenon
    <3>2. Policy!RecordRecovery
      BY <1>1, <2>1, <2>3, <3>1 DEF Control, Policy!RecordRecovery
    <3>3. QED
      BY <3>2 DEF Policy!Next
  <2>4. QED
    BY <2>2, <2>3
<1>10. CASE SaveFails
  BY <1>10 DEF SaveFails, Policy!LoseRecord, Policy!Next
<1>11. CASE RebootCompletes
  BY <1>11 DEF RebootCompletes, NewBoot, Policy!Boot, Policy!Next
<1>12. CASE PowerCut
  BY <1>12 DEF PowerCut, NewBoot, Policy!Boot, Policy!Next
<1>13. CASE UNCHANGED vars
  BY <1>13 DEF vars
<1>14. CASE GatherRaises
  BY <1>14 DEF GatherRaises, Saturate, Policy!Unseen, Policy!Saturate, Policy!Next
<1>15. QED
  BY <1>2, <1>3, <1>4, <1>5, <1>6, <1>7, <1>8, <1>9, <1>10, <1>11, <1>12, <1>13, <1>14 DEF Next

(***************************************************************************)
(* The health check implements the reboot policy: RUNBOOK.md's "critical   *)
(* for 40 consecutive checks" and "30 minutes of uptime".                  *)
(***************************************************************************)
THEOREM ImplementsPolicy == Spec => PolicySpec
<1>1. Init => Policy!Init
  BY DEF Init, Policy!Init
<1>2. QED
  BY <1>1, Invariant, PolicyStep, PTL DEF Spec, PolicySpec, Policy!Spec

-----------------------------------------------------------------------------
(***************************************************************************)
(* Restarts back off.  As long as no record was lost, the counter of a     *)
(* subsystem is its row until the first restart is due; from then on its   *)
(* place in the back-off period never runs ahead of the checks since the   *)
(* last restart.                                                           *)
(***************************************************************************)
Place(count) == (count - RESTART_AFTER) % BACKOFF

Exact(st) ==
  \A s \in Subsystem :
    IF st.bySubsystem[s] < RESTART_AFTER THEN rows[s] = st.bySubsystem[s]
    ELSE since[s] >= Place(st.bySubsystem[s])

Spaced ==
  /\ pc = "idle" /\ ~lost => Exact(disk)
  /\ pc # "idle" /\ (~lost \/ new.lastLevel # CRITICAL) => Exact(new)

(* Remainders, one by one. *)
LEMMA ModRange ==
  ASSUME NEW x \in Nat, NEW m \in Nat \ {0}
  PROVE  /\ x % m \in 0 .. m - 1 /\ x \div m \in Nat
         /\ x = m * (x \div m) + (x % m)
OBVIOUS

LEMMA NoMultiple ==
  ASSUME NEW m \in Nat \ {0}, NEW d \in Int, NEW e \in Int, m * d = e, e > -m, e < m
  PROVE  d = 0 /\ e = 0
<1>1. CASE d >= 1
  <2>1. m * d >= m
    BY <1>1
  <2> QED BY <2>1
<1>2. CASE d <= -1
  <2>1. m * d <= -m
    BY <1>2
  <2> QED BY <2>1
<1>3. CASE d = 0
  <2>1. m * 0 = 0
    OBVIOUS
  <2> QED BY <1>3, <2>1
<1> QED BY <1>1, <1>2, <1>3

LEMMA ModNext ==
  ASSUME NEW x \in Nat, NEW m \in Nat \ {0}
  PROVE  IF x % m = m - 1 THEN (x + 1) % m = 0 ELSE (x + 1) % m = (x % m) + 1
<1> DEFINE q == x \div m
           r == x % m
           p == (x + 1) \div m
           s == (x + 1) % m
<1>1. /\ x = m * q + r /\ r \in 0 .. m - 1 /\ q \in Int
      /\ x + 1 = m * p + s /\ s \in 0 .. m - 1 /\ p \in Int
  BY ModRange
<1> HIDE DEF q, r, p, s
<1>2. CASE r = m - 1
  <2>1. m * (p - q - 1) = 0 - s /\ p - q - 1 \in Int
    BY <1>1, <1>2
  <2>2. s = 0
    BY <1>1, <2>1, NoMultiple
  <2> QED BY <1>2, <2>2 DEF r, s
<1>3. CASE r # m - 1
  <2>1. /\ m * (p - q) = r + 1 - s /\ p - q \in Int /\ r + 1 - s \in Int
        /\ r + 1 - s < m /\ r + 1 - s > -m
    BY <1>1, <1>3
  <2>2. s = r + 1
    BY <1>1, <2>1, NoMultiple
  <2> QED BY <1>3, <2>2 DEF r, s
<1> QED BY <1>2, <1>3 DEF r

(* The place in the period: zero when a restart is due, one more otherwise. *)
LEMMA PlaceNext ==
  ASSUME NEW n \in Nat
  PROVE  /\ BACKOFF \in Nat \ {0} /\ RESTART_AFTER \in Nat \ {0} /\ BACKOFF >= 2
         /\ n >= RESTART_AFTER => Place(n) \in 0 .. BACKOFF - 1
         /\ n + 1 = RESTART_AFTER => Place(n + 1) = 0
         /\ n >= RESTART_AFTER => Place(n + 1) \in {0, Place(n) + 1}
         /\ n >= RESTART_AFTER /\ Place(n + 1) = 0 => Place(n) = BACKOFF - 1
<1>1. BACKOFF \in Nat \ {0} /\ RESTART_AFTER \in Nat \ {0} /\ BACKOFF >= 2
  BY LadderAssumption DEF BACKOFF
<1>2. n + 1 = RESTART_AFTER => Place(n + 1) = 0
  <2>1. 0 % BACKOFF = 0
    BY <1>1
  <2>2. n + 1 = RESTART_AFTER => n + 1 - RESTART_AFTER = 0
    BY <1>1
  <2> QED BY <2>1, <2>2 DEF Place
<1>3. ASSUME n >= RESTART_AFTER
      PROVE  /\ Place(n) \in 0 .. BACKOFF - 1 /\ Place(n + 1) \in {0, Place(n) + 1}
             /\ Place(n + 1) = 0 => Place(n) = BACKOFF - 1
  <2> DEFINE x == n - RESTART_AFTER
  <2>1. x \in Nat /\ n + 1 - RESTART_AFTER = x + 1
    BY <1>1, <1>3
  <2>2. Place(n) = x % BACKOFF /\ Place(n + 1) = (x + 1) % BACKOFF
    <3>1. Place(n) = x % BACKOFF /\ Place(n + 1) = (n + 1 - RESTART_AFTER) % BACKOFF
      BY <1>1, <2>1 DEF Place
    <3> HIDE DEF x
    <3> QED BY <2>1, <3>1
  <2> HIDE DEF x
  <2>3. x % BACKOFF \in 0 .. BACKOFF - 1
    BY <1>1, <2>1, ModRange
  <2>4. IF x % BACKOFF = BACKOFF - 1 THEN (x + 1) % BACKOFF = 0
        ELSE (x + 1) % BACKOFF = (x % BACKOFF) + 1
    BY <1>1, <2>1, ModNext
  <2> QED BY <1>1, <2>2, <2>3, <2>4
<1> QED BY <1>1, <1>2, <1>3

(* A report without a critical subsystem is not critical. *)
LEMMA LevelOfCritical ==
  ASSUME NEW snapshot, Evaluate(snapshot).level # CRITICAL
  PROVE  CriticalSubsystems(Evaluate(snapshot)) = {}
<1> DEFINE problems == Evaluate(snapshot).problems
<1>1. Evaluate(snapshot).level = WorstLevel(problems)
  BY DEF Evaluate
<1> HIDE DEF problems
<1>2. ~\E p \in problems : p.level = CRITICAL
  BY <1>1 DEF WorstLevel
<1> QED BY <1>2 DEF CriticalSubsystems, problems

LEMMA StartCheckSpaced ==
  ASSUME TypeOK, Control, Spaced, StartCheck
  PROVE  /\ Spaced'
         /\ \A s \in Subsystem : (\E c \in todo' : c.why = s) =>
              lost \/ rows[s] < RESTART_AFTER \/ since[s] >= BACKOFF - 1
<1> DEFINE report == Evaluate(host)
           critical == CriticalSubsystems(report)
           counts == AdvanceBySubsystem(disk.bySubsystem, critical)
<1>1. /\ pc = "idle" /\ pc' = "apply" /\ lost' = lost
      /\ new' = DecideState(report, disk, uptime')
      /\ todo' = DecideCommands(report, disk, uptime')
      /\ Observe(report)
  BY DEF StartCheck
<1>2. \A s \in Subsystem : /\ disk.bySubsystem[s] \in Nat
                           /\ rows[s] \in 0 .. RESTART_AFTER /\ since[s] \in 0 .. BACKOFF
  BY DEF TypeOK, LadderState
<1>3. report.level # CRITICAL => critical = {}
  BY LevelOfCritical
<1>4. \A s \in Subsystem :
        /\ rows'[s] = IF s \in critical THEN Saturate(rows[s] + 1, RESTART_AFTER) ELSE 0
        /\ since'[s] = IF s \notin critical THEN BACKOFF
                       ELSE IF \E c \in todo' : c.why = s THEN 0
                       ELSE Saturate(since[s] + 1, BACKOFF)
  BY <1>1 DEF Observe
<1>5. \A s \in Subsystem : counts[s] = IF s \in critical THEN disk.bySubsystem[s] + 1 ELSE 0
  BY DEF AdvanceBySubsystem
<1> HIDE DEF critical, counts
<1>6. \A s \in Subsystem : new'.bySubsystem[s] = counts[s]
  <2>1. CASE report.level # CRITICAL
    <3>1. \A s \in Subsystem : new'.bySubsystem[s] = 0
      BY <1>1, <2>1 DEF DecideState, FreshState
    <3> QED BY <1>3, <1>5, <2>1, <3>1
  <2>2. CASE report.level = CRITICAL
    <3>1. new'.bySubsystem = counts
      BY <1>1, <2>2 DEF DecideState, critical, counts
    <3> QED BY <3>1
  <2> QED BY <2>1, <2>2
<1>7. ASSUME NEW c \in todo', c.why \in Subsystem
      PROVE  c.why \in critical /\ Due(counts, c.why)
  <2>1. report.level = CRITICAL
    BY <1>1, <1>7 DEF DecideCommands
  <2>2. c \in SubsystemRestarts(report, counts) \/ c = Command("reboot", "host")
    BY <1>1, <1>7, <2>1 DEF DecideCommands, critical, counts
  <2>3. c \in SubsystemRestarts(report, counts)
    BY <1>7, <2>2 DEF Command, Subsystem
  <2> QED BY <2>3 DEF SubsystemRestarts, critical
<1> HIDE DEF report
\* one subsystem
<1>8. ASSUME NEW s \in Subsystem, ~lost \/ s \notin critical
      PROVE  IF counts[s] < RESTART_AFTER THEN rows'[s] = counts[s]
             ELSE since'[s] >= Place(counts[s])
  <2>1. RESTART_AFTER \in Nat \ {0} /\ BACKOFF \in Nat \ {0}
    BY PlaceNext
  <2>2. CASE s \notin critical
    BY <1>4, <1>5, <2>1, <2>2
  <2>3. CASE s \in critical
    <3> DEFINE n == disk.bySubsystem[s]
    <3>1. n \in Nat /\ counts[s] = n + 1 /\ rows[s] \in 0 .. RESTART_AFTER
          /\ since[s] \in 0 .. BACKOFF
      BY <1>2, <1>5, <2>3
    <3>2. IF n < RESTART_AFTER THEN rows[s] = n ELSE since[s] >= Place(n)
      BY <1>1, <1>8, <2>3 DEF Spaced, Exact
    <3> HIDE DEF n
    <3>3. CASE n + 1 < RESTART_AFTER
      BY <1>4, <2>1, <2>3, <3>1, <3>2, <3>3 DEF Saturate
    <3>4. CASE n + 1 >= RESTART_AFTER
      <4>1. CASE Place(n + 1) = 0
        <5>1. since'[s] >= 0
          BY <1>4, <2>1, <2>3, <3>1 DEF Saturate
        <5> QED BY <2>1, <3>1, <3>4, <4>1, <5>1
      <4>2. CASE Place(n + 1) # 0
        <5>1. n >= RESTART_AFTER
          BY <2>1, <3>1, <3>4, <4>2, PlaceNext
        <5>2. /\ Place(n) \in 0 .. BACKOFF - 1 /\ Place(n + 1) = Place(n) + 1
              /\ since[s] >= Place(n)
          BY <2>1, <3>1, <3>2, <4>2, <5>1, PlaceNext
        <5>3. ~\E c \in todo' : c.why = s
          <6>1. ~Due(counts, s)
            BY <3>1, <4>2 DEF Due, Place, BACKOFF
          <6> QED BY <1>7, <6>1
        <5>4. since'[s] = Saturate(since[s] + 1, BACKOFF)
          BY <1>4, <2>3, <5>3
        <5>5. since'[s] >= Place(n) + 1
          BY <2>1, <3>1, <5>2, <5>4 DEF Saturate
        <5> QED BY <2>1, <3>1, <3>4, <5>2, <5>5
      <4> QED BY <4>1, <4>2
    <3> QED BY <2>1, <3>1, <3>3, <3>4
  <2> QED BY <2>2, <2>3
<1>9. Spaced'
  <2>1. SUFFICES ASSUME ~lost \/ new'.lastLevel # CRITICAL PROVE Exact(new)'
    BY <1>1 DEF Spaced
  <2>2. new'.lastLevel = report.level
    BY <1>1 DEF DecideState, FreshState
  <2>3. ~lost \/ critical = {}
    BY <1>3, <2>1, <2>2 DEF report
  <2>4. \A s \in Subsystem : IF counts[s] < RESTART_AFTER THEN rows'[s] = counts[s]
                             ELSE since'[s] >= Place(counts[s])
    BY <1>8, <2>3
  <2>5. \A s \in Subsystem :
          IF new'.bySubsystem[s] < RESTART_AFTER THEN rows'[s] = new'.bySubsystem[s]
          ELSE since'[s] >= Place(new'.bySubsystem[s])
    BY <1>6, <2>4
  <2> QED BY <2>5 DEF Exact, Place, BACKOFF
<1>10. ASSUME NEW s \in Subsystem, \E c \in todo' : c.why = s
       PROVE  lost \/ rows[s] < RESTART_AFTER \/ since[s] >= BACKOFF - 1
  <2> SUFFICES ASSUME ~lost PROVE rows[s] < RESTART_AFTER \/ since[s] >= BACKOFF - 1
    OBVIOUS
  <2> DEFINE n == disk.bySubsystem[s]
  <2>1. s \in critical /\ Due(counts, s)
    BY <1>7, <1>10
  <2>2. n \in Nat /\ counts[s] = n + 1 /\ since[s] \in 0 .. BACKOFF
    BY <1>2, <1>5, <2>1
  <2>3. IF n < RESTART_AFTER THEN rows[s] = n ELSE since[s] >= Place(n)
    BY <1>1 DEF Spaced, Exact
  <2> HIDE DEF n
  <2>4. Place(n + 1) = 0
    BY <2>1, <2>2 DEF Due, Place, BACKOFF
  <2>5. CASE n < RESTART_AFTER
    BY <2>3, <2>5
  <2>6. CASE ~(n < RESTART_AFTER)
    <3>1. n >= RESTART_AFTER
      BY <2>2, <2>6, PlaceNext
    <3>2. Place(n) = BACKOFF - 1
      BY <2>2, <2>4, <3>1, PlaceNext
    <3> QED BY <2>3, <2>6, <3>2
  <2> QED BY <2>5, <2>6
<1> QED BY <1>9, <1>10

(* Every other step leaves the counters and the rows together, or loses the record. *)
LEMMA SpacedStep == IInv /\ Spaced /\ [Next]_vars => Spaced'
<1> SUFFICES ASSUME IInv, Spaced, [Next]_vars PROVE Spaced'
  OBVIOUS
<1>1. TypeOK /\ Control
  BY DEF IInv
<1> USE DEF hostVars, checkVars, historyVars
<1>2. CASE HostChanges \/ GatherRaises \/ UNCHANGED vars
  BY <1>2 DEF HostChanges, GatherRaises, vars, Spaced, Exact
<1>3. CASE StartCheck
  BY <1>1, <1>3, StartCheckSpaced
<1>4. ASSUME NEW c \in Commands, CommandSucceeds(c) \/ CommandFails(c) \/ CommandTimesOut(c)
      PROVE  Spaced'
  BY <1>4 DEF CommandSucceeds, CommandFails, CommandTimesOut, Spaced, Exact
<1>5. CASE KilledBySystemd \/ SaveFails
  BY <1>5 DEF KilledBySystemd, SaveFails, CheckEnds, Spaced
<1>6. CASE AllApplied
  BY <1>6 DEF AllApplied, Spaced, Exact
<1>7. CASE Save
  <2>1. /\ pc # "idle" /\ pc' = "idle" /\ disk' = new /\ UNCHANGED <<rows, since>>
        /\ lost' = (lost /\ new.lastLevel = CRITICAL)
    BY <1>7 DEF Save, CheckEnds
  <2>2. ~lost' => ~lost \/ new.lastLevel # CRITICAL
    BY <2>1
  <2>3. ~lost' => Exact(new)
    BY <2>1, <2>2 DEF Spaced
  <2>4. Exact(new) => Exact(disk)'
    BY <2>1 DEF Exact
  <2> QED BY <2>1, <2>3, <2>4 DEF Spaced
<1>8. CASE RebootCompletes \/ PowerCut
  <2>1. NewBoot
    BY <1>8 DEF RebootCompletes, PowerCut
  <2>2. pc' = "idle" /\ disk' = FreshState /\ \A s \in Subsystem : rows'[s] = 0
    BY <2>1 DEF NewBoot
  <2>3. \A s \in Subsystem : FreshState.bySubsystem[s] = 0
    BY DEF FreshState
  <2> QED BY <2>2, <2>3, PlaceNext DEF Spaced, Exact
<1> QED BY <1>2, <1>3, <1>4, <1>5, <1>6, <1>7, <1>8 DEF Next

LEMMA SpacedInit == Init => Spaced
<1> SUFFICES ASSUME Init PROVE Spaced
  OBVIOUS
<1>1. pc = "idle" /\ disk = FreshState /\ \A s \in Subsystem : rows[s] = 0
  BY DEF Init
<1>2. \A s \in Subsystem : FreshState.bySubsystem[s] = 0
  BY DEF FreshState
<1> QED BY <1>1, <1>2, PlaceNext DEF Spaced, Exact

(***************************************************************************)
(* Restarts back off: within one row of critical checks, and as long as no *)
(* record was lost, restarts for one subsystem are at least twice          *)
(* restart_after_failures checks apart, whatever the threshold.            *)
(***************************************************************************)
THEOREM RestartsDoBackOff == Spec => RestartsBackOff
<1>1. IInv /\ Spaced /\ [Next]_vars =>
        [\A s \in Subsystem :
           (pc = "idle" /\ pc' = "apply" /\ \E c \in todo' : c.why = s)
             => lost \/ rows[s] < RESTART_AFTER \/ since[s] >= BACKOFF - 1]_vars
  <2> SUFFICES ASSUME IInv, Spaced, Next, pc = "idle", pc' = "apply"
               PROVE  \A s \in Subsystem : (\E c \in todo' : c.why = s) =>
                        lost \/ rows[s] < RESTART_AFTER \/ since[s] >= BACKOFF - 1
    OBVIOUS
  <2>1. StartCheck
    BY DEF Next, HostChanges, GatherRaises, CommandSucceeds, CommandFails, CommandTimesOut,
           KilledBySystemd, AllApplied, Save, SaveFails, RebootCompletes, PowerCut, NewBoot,
           checkVars
  <2> QED BY <2>1, StartCheckSpaced DEF IInv
<1> QED BY <1>1, Invariant, SpacedInit, SpacedStep, PTL DEF Spec, RestartsBackOff

-----------------------------------------------------------------------------
(***************************************************************************)
(* The ladder does not hang back either.  As long as no record was lost,   *)
(* and until the first reboot order of this boot that did not take, the    *)
(* counter is no less than the checks in a row.                            *)
(***************************************************************************)
Full ==
  ~lost /\ failed = 0 /\ ~rebooting =>
    /\ pc = "idle" => disk.consecutive >= streak
    /\ pc # "idle" => new.consecutive >= streak \/ Command("reboot", "host") \in todo

(* The check's finding calls for this restart: gpsd or chronyd does not    *)
(* answer, chrony has failed while the pulse is there, or the unit is not  *)
(* active.                                                                 *)
Called(report, c) ==
  \/ c.why = "gnss" /\ HasMessage(report, "gnss", "unreachable")
  \/ /\ c.why = "chrony" /\ "chrony" \in CriticalSubsystems(report)
     /\ HasMessage(report, "chrony", "not answering") \/ "pps" \notin CriticalSubsystems(report)
  \/ c.why = "service" /\ HasMessage(report, "service", c.target)

(***************************************************************************)
(* Each rung is reached at its check (check.py:8-15): the check that makes *)
(* restart_after_failures in a row for a subsystem calls for its restart,  *)
(* and one that makes reboot_after_failures in a row, on a host that has   *)
(* been up long enough, for the reboot, whatever was restarted before.     *)
(***************************************************************************)
ActsInTime ==
  [][ pc = "idle" /\ pc' = "apply" /\ ~lost =>
        /\ REBOOT_ENABLED /\ failed = 0 /\ streak' = REBOOT_AFTER /\ uptime' = MIN_UPTIME
             => Command("reboot", "host") \in todo'
        /\ \A c \in Commands \ {Command("reboot", "host")} :
             Called(Evaluate(host), c) /\ rows[c.why] = RESTART_AFTER - 1 => c \in todo' ]_vars

(* What a check that loads a full counter decides. *)
LEMMA StartCheckFull ==
  ASSUME TypeOK, Full, StartCheck
  PROVE  /\ Full'
         /\ ~lost /\ failed = 0 /\ REBOOT_ENABLED /\ streak' = REBOOT_AFTER /\ uptime' = MIN_UPTIME
              => Command("reboot", "host") \in todo'
<1> DEFINE report == Evaluate(host)
           counts == AdvanceBySubsystem(disk.bySubsystem, CriticalSubsystems(report))
<1>1. /\ pc = "idle" /\ pc' = "apply" /\ UNCHANGED <<lost, failed, rebooting>> /\ ~rebooting
      /\ new' = DecideState(report, disk, uptime')
      /\ todo' = DecideCommands(report, disk, uptime')
      /\ streak' = IF report.level = CRITICAL THEN Saturate(streak + 1, REBOOT_AFTER) ELSE 0
  BY DEF StartCheck, Observe
<1>2. disk.consecutive \in Nat /\ streak \in 0 .. REBOOT_AFTER /\ REBOOT_AFTER \in Nat \ {0}
  BY LadderAssumption DEF TypeOK, LadderState
<1> HIDE DEF report
<1>3. CASE report.level # CRITICAL
  <2>1. new'.consecutive = 0 /\ streak' = 0
    BY <1>1, <1>3 DEF DecideState, FreshState
  <2> QED BY <1>1, <1>2, <2>1 DEF Full
<1>4. CASE report.level = CRITICAL
  <2>1. streak' = Saturate(streak + 1, REBOOT_AFTER)
    BY <1>1, <1>4
  <2>2. /\ new'.consecutive = IF RebootDue(disk.consecutive + 1, uptime') THEN 0
                              ELSE disk.consecutive + 1
        /\ RebootDue(disk.consecutive + 1, uptime') => Command("reboot", "host") \in todo'
    BY <1>1, <1>4 DEF DecideState, DecideCommands
  <2>3. ~lost /\ failed = 0 => disk.consecutive + 1 >= streak'
    BY <1>1, <1>2, <2>1 DEF Full, Saturate
  <2>4. Full'
    BY <1>1, <2>2, <2>3 DEF Full
  <2>5. ASSUME ~lost, failed = 0, REBOOT_ENABLED, streak' = REBOOT_AFTER, uptime' = MIN_UPTIME
        PROVE  Command("reboot", "host") \in todo'
    <3>1. RebootDue(disk.consecutive + 1, uptime')
      BY <1>2, <2>3, <2>5, LadderAssumption DEF RebootDue
    <3> QED BY <2>2, <3>1
  <2> QED BY <2>4, <2>5
<1> QED BY <1>3, <1>4

(* A problem that is named is one of a critical subsystem. *)
LEMMA NamedIsCritical ==
  ASSUME NEW report, NEW s, NEW message, HasMessage(report, s, message)
  PROVE  s \in CriticalSubsystems(report)
BY DEF HasMessage, CriticalSubsystems

(* A restart is due when its subsystem has just been blamed often enough. *)
LEMMA RestartInTime ==
  ASSUME IInv, Spaced, StartCheck, ~lost, NEW c \in Commands \ {Command("reboot", "host")},
         Called(Evaluate(host), c), rows[c.why] = RESTART_AFTER - 1
  PROVE  c \in todo'
<1> DEFINE report == Evaluate(host)
           critical == CriticalSubsystems(report)
           counts == AdvanceBySubsystem(disk.bySubsystem, critical)
           n == disk.bySubsystem[c.why]
<1>1. pc = "idle" /\ todo' = DecideCommands(report, disk, uptime')
  BY DEF StartCheck
<1>2. c.why \in critical /\ c.why \in Subsystem
  <2>1. c.why \in critical
    BY NamedIsCritical DEF Called
  <2> QED BY <2>1, EvaluateType
<1>3. report.level = CRITICAL
  BY <1>2, LevelOfCritical
<1>4. n = RESTART_AFTER - 1
  <2>1. n \in Nat /\ RESTART_AFTER \in Nat \ {0}
    BY <1>2, LadderAssumption DEF IInv, TypeOK, LadderState
  <2>2. n <= RESTART_AFTER - 1
    BY <1>1, <1>2, <2>1 DEF IInv, CountersBacked, Backed
  <2>3. IF n < RESTART_AFTER THEN rows[c.why] = n ELSE since[c.why] >= Place(n)
    BY <1>1, <1>2 DEF Spaced, Exact
  <2> HIDE DEF n
  <2> QED BY <2>1, <2>2, <2>3
<1>5. counts[c.why] = RESTART_AFTER
  BY <1>2, <1>4, LadderAssumption DEF AdvanceBySubsystem
<1>6. Due(counts, c.why)
  <2>1. RESTART_AFTER \in Nat \ {0} /\ 0 % (2 * RESTART_AFTER) = 0
    BY LadderAssumption
  <2> HIDE DEF counts
  <2> QED BY <1>5, <2>1 DEF Due
<1>7. c \in SubsystemRestarts(report, counts)
  BY <1>2, <1>6 DEF SubsystemRestarts, Called
<1> QED BY <1>1, <1>3, <1>7 DEF DecideCommands

(* The counter stays full, or the record is lost, or the reboot ordered. *)
LEMMA FullStep == IInv /\ Full /\ [Next]_vars => Full'
<1> SUFFICES ASSUME IInv, Full, [Next]_vars PROVE Full'
  OBVIOUS
<1>1. TypeOK /\ Control
  BY DEF IInv
<1> USE DEF hostVars, checkVars, historyVars
<1>2. CASE HostChanges \/ GatherRaises \/ UNCHANGED vars
  BY <1>2 DEF HostChanges, GatherRaises, vars, Full
<1>3. CASE StartCheck
  BY <1>1, <1>3, StartCheckFull
<1>4. ASSUME NEW c \in Commands, CommandSucceeds(c) \/ CommandFails(c) \/ CommandTimesOut(c)
      PROVE  Full'
  <2>1. /\ pc = "apply" /\ pc' = pc /\ todo' = todo \ {c} /\ UNCHANGED <<new, streak, lost>>
        /\ failed \in Nat /\ rebooting \in BOOLEAN
    BY <1>1, <1>4 DEF CommandSucceeds, CommandFails, CommandTimesOut, TypeOK
  <2>2. CASE c.why = "reboot"
    <3>1. rebooting' = TRUE \/ failed' = failed + 1
      BY <1>4, <2>1, <2>2 DEF CommandSucceeds, CommandFails, CommandTimesOut, FailsOnce
    <3>2. failed' = failed + 1 => failed' # 0
      BY <2>1
    <3> QED BY <3>1, <3>2 DEF Full
  <2>3. CASE c.why # "reboot"
    <3>1. c # Command("reboot", "host")
      BY <2>3 DEF Command
    <3>2. failed' = failed /\ rebooting' = rebooting
      BY <1>4, <2>1, <2>3 DEF CommandSucceeds, CommandFails, CommandTimesOut, FailsOnce
    <3> QED BY <2>1, <3>1, <3>2 DEF Full
  <2> QED BY <2>2, <2>3
<1>5. CASE KilledBySystemd \/ SaveFails
  BY <1>5 DEF KilledBySystemd, SaveFails, CheckEnds, Full
<1>6. CASE AllApplied
  BY <1>6 DEF AllApplied, Full
<1>7. CASE Save
  <2>1. /\ pc = "save" /\ pc' = "idle" /\ disk' = new /\ UNCHANGED <<streak, failed, rebooting>>
        /\ lost' = (lost /\ new.lastLevel = CRITICAL)
    BY <1>7 DEF Save, CheckEnds
  <2>2. todo = {} /\ (new.lastLevel # CRITICAL => streak = 0 /\ new.consecutive = 0)
    BY <1>1, <2>1 DEF Control
  <2>3. CASE new.lastLevel # CRITICAL
    <3>1. disk'.consecutive = 0 /\ streak' = 0
      BY <2>1, <2>2, <2>3
    <3> QED BY <2>1, <3>1 DEF Full
  <2>4. CASE new.lastLevel = CRITICAL
    <3>1. lost' = lost
      BY <1>1, <2>1, <2>4 DEF TypeOK
    <3> QED BY <2>1, <2>2, <3>1 DEF Full
  <2> QED BY <2>3, <2>4
<1>8. CASE RebootCompletes \/ PowerCut
  BY <1>8 DEF RebootCompletes, PowerCut, NewBoot, FreshState, Full
<1> QED BY <1>2, <1>3, <1>4, <1>5, <1>6, <1>7, <1>8 DEF Next

(***************************************************************************)
(* The ladder acts in time, whatever the thresholds and the units: the     *)
(* other half of CommandsAreJustified, and the step that RebootsUntilCured *)
(* rests on.                                                               *)
(***************************************************************************)
THEOREM LadderActsInTime == Spec => ActsInTime
<1>1. Init => Full
  BY DEF Init, FreshState, Full
<1>2. ASSUME IInv, Spaced, Full, [Next]_vars
      PROVE  [ pc = "idle" /\ pc' = "apply" /\ ~lost =>
                 /\ REBOOT_ENABLED /\ failed = 0 /\ streak' = REBOOT_AFTER /\ uptime' = MIN_UPTIME
                      => Command("reboot", "host") \in todo'
                 /\ \A c \in Commands \ {Command("reboot", "host")} :
                      Called(Evaluate(host), c) /\ rows[c.why] = RESTART_AFTER - 1
                        => c \in todo' ]_vars
  <2> SUFFICES ASSUME Next, pc = "idle", pc' = "apply", ~lost
               PROVE  /\ REBOOT_ENABLED /\ failed = 0 /\ streak' = REBOOT_AFTER
                           /\ uptime' = MIN_UPTIME
                        => Command("reboot", "host") \in todo'
                      /\ \A c \in Commands \ {Command("reboot", "host")} :
                           Called(Evaluate(host), c) /\ rows[c.why] = RESTART_AFTER - 1
                             => c \in todo'
    BY <1>2
  <2>1. StartCheck
    BY DEF Next, HostChanges, GatherRaises, CommandSucceeds, CommandFails, CommandTimesOut,
           KilledBySystemd, AllApplied, Save, SaveFails, RebootCompletes, PowerCut, NewBoot,
           checkVars
  <2>2. TypeOK
    BY <1>2 DEF IInv
  <2> QED BY <1>2, <2>1, <2>2, StartCheckFull, RestartInTime
<1> QED BY <1>1, <1>2, FullStep, Invariant, SpacedInit, SpacedStep, PTL DEF Spec, ActsInTime

=============================================================================
