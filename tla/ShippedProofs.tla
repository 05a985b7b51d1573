------------------------------ MODULE ShippedProofs ------------------------------
(***************************************************************************)
(* What config.py makes of a file, and what the demo shows, proved for     *)
(* every file.                                                             *)
(***************************************************************************)
EXTENDS Demo, FiniteSetTheorems, TLAPS

(***************************************************************************)
(* What config_from_dict() gives to get() itself is what the dataclasses   *)
(* say, and one of the values allowed.                                     *)
(***************************************************************************)
LEMMA FallbackIsDefault ==
  /\ DOMAIN Literal \subseteq Key
  /\ \A k \in DOMAIN Literal : Fallback[k] = Literal[k] /\ Fallback[k] \in Allowed[k]
  /\ \A k \in DOMAIN Words \cap DOMAIN Fallback : Fallback[k] = Words[k]
PROOF
<1>1. DOMAIN Literal \subseteq Key
  BY DEF Key
<1>2. \A k \in DOMAIN Literal : Fallback[k] = Literal[k] /\ Fallback[k] \in Allowed[k]
  BY DEF Literal, Fallback, Allowed
<1>3. \A k \in DOMAIN Words \cap DOMAIN Fallback : Fallback[k] = Words[k]
  BY DEF Words, Fallback
<1>4. QED
  BY <1>1, <1>2, <1>3

(* The kinds of settings do not overlap. *)
LEMMA KindsAreApart ==
  /\ DOMAIN Literal \cap (DOMAIN Whole \cup DOMAIN Fraction \cup DOMAIN Truth \cup DOMAIN Words) = {}
  /\ DOMAIN Fallback \cap (DOMAIN Whole \cup DOMAIN Fraction \cup DOMAIN Truth) = {}
  /\ DOMAIN Whole \cap DOMAIN Fraction = {}
  /\ DOMAIN Truth \cap (DOMAIN Whole \cup DOMAIN Fraction) = {}
BY DEF Whole, Fraction, Truth, Words, Literal, Fallback

(***************************************************************************)
(* An empty file configures a unit as no file does (load_config): the      *)
(* defaults that config_from_dict() repeats are the dataclasses' own.      *)
(***************************************************************************)
THEOREM EmptyFileIsDefault ==
  ConfigFromDict(EmptyFile) = LoadConfig(Absent)
PROOF
<1>1. \A k \in Key : EmptyFile.settings[k] = Absent
  BY DEF EmptyFile
<1>2. SectionsOk(EmptyFile)
  BY DEF SectionsOk, EmptyFile
<1>3. \A k \in DOMAIN Literal : ChoiceOk(EmptyFile.settings[k], k)
  BY <1>1, FallbackIsDefault DEF ChoiceOk, Chosen
<1>4. ASSUME NEW k \in Key
      PROVE  Setting(Absent, k) = Default[k]
  <2>1. CASE k \in DOMAIN Literal
    BY <2>1, FallbackIsDefault, KindsAreApart DEF Setting, Chosen, Default
  <2>2. CASE k \notin DOMAIN Literal /\ k \in DOMAIN Fallback
    <3>1. k \in DOMAIN Words
      BY <2>2 DEF Literal, Fallback, Words
    <3>2. Default[k] = Words[k]
      BY <3>1, <2>2, KindsAreApart DEF Default
    <3>3. Setting(Absent, k) = Fallback[k]
      BY <2>2 DEF Setting
    <3>4. QED
      BY <3>1, <3>2, <3>3, <2>2, FallbackIsDefault
  <2>3. CASE k \notin DOMAIN Literal /\ k \notin DOMAIN Fallback
    BY <2>3 DEF Setting
  <2>4. QED
    BY <2>1, <2>2, <2>3
<1>5. [k \in Key |-> Setting(EmptyFile.settings[k], k)] = Default
  <2>1. [k \in Key |-> Setting(EmptyFile.settings[k], k)] = [k \in Key |-> Default[k]]
    BY <1>1, <1>4
  <2>2. [k \in Key |-> Default[k]] = Default
    BY DEF Default
  <2>3. QED
    BY <2>1, <2>2
<1>6. QED
  BY <1>1, <1>2, <1>3, <1>5 DEF ConfigFromDict, LoadConfig

(***************************************************************************)
(* Whatever the file says, a Config that comes out of it has the types     *)
(* its dataclasses declare: a literal is one of its values, a number a     *)
(* number (inf and nan among those that are not whole), a switch a         *)
(* Boolean.  (The hostname is not converted, and no number is held against *)
(* a range.)                                                               *)
(***************************************************************************)
NumeralAssumption ==
  /\ \A t \in DOMAIN IntText : IntText[t] \in Int
  /\ \A t \in DOMAIN FloatText : FloatText[t] \in Int \cup {NotFinite}

LEMMA NumbersConvert ==
  ASSUME NumeralAssumption, NEW v \in Value
  PROVE  /\ IsInt(v) => ToInt(v) \in Int
         /\ IsFloat(v) => ToFloat(v) \in Int \cup {NotFinite}
PROOF
<1>1. CASE v.type = "integer"
  BY <1>1 DEF ToInt, ToFloat, Value
<1>2. CASE v.type = "float"
  BY <1>2 DEF ToInt, ToFloat, Value, Trunc, IsInt
<1>3. CASE v.type = "boolean"
  BY <1>3 DEF ToInt, ToFloat, Value
<1>4. CASE v.type = "string"
  BY <1>4 DEF ToInt, ToFloat, Value, IsInt, IsFloat, NumeralAssumption
<1>5. QED
  BY <1>1, <1>2, <1>3, <1>4 DEF IsInt, IsFloat

LEMMA SwitchesConvert ==
  ASSUME NEW v \in Value
  PROVE  ToBool(v) \in BOOLEAN
PROOF
<1>1. CASE v.type = "boolean"
  <2>1. v \in [type : {"boolean"}, value : BOOLEAN]
    BY <1>1 DEF Value
  <2>2. v.value \in BOOLEAN
    BY <2>1
  <2>3. QED
    BY <1>1, <2>2 DEF ToBool
<1>2. CASE v.type # "boolean"
  BY <1>2, ZenonT(30) DEF ToBool
<1>3. QED
  BY <1>1, <1>2

THEOREM LoadedTypes ==
  ASSUME NumeralAssumption, NEW data \in Data, ConfigFromDict(data).outcome = "config",
         Absent \notin Value
  PROVE  LET settings == ConfigFromDict(data).settings
         IN  /\ \A k \in DOMAIN Literal : settings[k] \in Allowed[k]
             /\ \A k \in DOMAIN Whole : settings[k] \in Int
             /\ \A k \in DOMAIN Fraction : settings[k] \in Int \cup {NotFinite}
             /\ \A k \in DOMAIN Truth : settings[k] \in BOOLEAN
PROOF
<1> DEFINE settings == ConfigFromDict(data).settings
<1>1. /\ \A k \in DOMAIN Literal : ChoiceOk(data.settings[k], k)
      /\ \A k \in Key : data.settings[k] = Absent \/ Converts(data.settings[k], k)
      /\ settings = [k \in Key |-> Setting(data.settings[k], k)]
  BY DEF ConfigFromDict
<1>2. \A k \in Key : data.settings[k] \in Value \cup {Absent}
  BY DEF Data
<1> HIDE DEF settings
<1>3. ASSUME NEW k \in DOMAIN Literal
      PROVE  settings[k] \in Allowed[k]
  BY <1>1, FallbackIsDefault DEF ChoiceOk, Setting
<1>4. ASSUME NEW k \in DOMAIN Whole
      PROVE  settings[k] \in Int
  <2>1. k \in Key /\ k \notin DOMAIN Literal /\ k \notin DOMAIN Fallback
    BY KindsAreApart DEF Key
  <2>2. CASE data.settings[k] = Absent
    <3>1. settings[k] = Whole[k]
      BY <2>1, <2>2, <1>1 DEF Setting, Default
    <3>2. Whole[k] \in Int
      BY DEF Whole
    <3>3. QED
      BY <3>1, <3>2
  <2>3. CASE data.settings[k] # Absent
    <3>1. IsInt(data.settings[k]) /\ data.settings[k] \in Value
      BY <2>1, <2>3, <1>1, <1>2 DEF Converts
    <3>2. settings[k] = ToInt(data.settings[k])
      BY <2>1, <2>3, <1>1 DEF Setting
    <3>3. QED
      BY <3>1, <3>2, NumbersConvert
  <2>4. QED
    BY <2>2, <2>3
<1>5. ASSUME NEW k \in DOMAIN Fraction
      PROVE  settings[k] \in Int \cup {NotFinite}
  <2>1. k \in Key /\ k \notin DOMAIN Literal /\ k \notin DOMAIN Fallback /\ k \notin DOMAIN Whole
    BY KindsAreApart DEF Key
  <2>2. CASE data.settings[k] = Absent
    <3>1. settings[k] = Fraction[k]
      BY <2>1, <2>2, <1>1 DEF Setting, Default
    <3>2. Fraction[k] \in Int
      BY DEF Fraction
    <3>3. QED
      BY <3>1, <3>2
  <2>3. CASE data.settings[k] # Absent
    <3>1. IsFloat(data.settings[k]) /\ data.settings[k] \in Value
      BY <2>1, <2>3, <1>1, <1>2 DEF Converts
    <3>2. settings[k] = ToFloat(data.settings[k])
      BY <2>1, <2>3, <1>1 DEF Setting
    <3>3. QED
      BY <3>1, <3>2, NumbersConvert
  <2>4. QED
    BY <2>2, <2>3
<1>6. ASSUME NEW k \in DOMAIN Truth
      PROVE  settings[k] \in BOOLEAN
  <2>1. /\ k \in Key /\ k \notin DOMAIN Literal /\ k \notin DOMAIN Fallback
        /\ k \notin DOMAIN Whole /\ k \notin DOMAIN Fraction
    BY KindsAreApart DEF Key
  <2>2. CASE data.settings[k] = Absent
    <3>1. settings[k] = Truth[k]
      BY <2>1, <2>2, <1>1 DEF Setting, Default
    <3>2. k \in {"reboot_enabled", "allow_shell", "ascii_only"}
      BY DEF Truth
    <3>3. /\ Truth["reboot_enabled"] \in BOOLEAN
          /\ Truth["allow_shell"] \in BOOLEAN
          /\ Truth["ascii_only"] \in BOOLEAN
      BY DEF Truth
    <3>4. Truth[k] \in BOOLEAN
      BY <3>2, <3>3, ZenonT(30)
    <3>5. QED
      BY <3>1, <3>4
  <2>3. CASE data.settings[k] # Absent
    <3>1. settings[k] = ToBool(data.settings[k]) /\ data.settings[k] \in Value
      BY <2>1, <2>3, <1>1, <1>2 DEF Setting
    <3>2. QED
      BY <3>1, SwitchesConvert
  <2>4. QED
    BY <2>2, <2>3
<1>7. QED
  BY <1>3, <1>4, <1>5, <1>6 DEF settings

-----------------------------------------------------------------------------
(***************************************************************************)
(* The demo shows what it is called: each state has the level of its name  *)
(* under the thresholds of a unit without a configuration file.            *)
(***************************************************************************)
DemoLevel(state) ==
  IF state = "critical" THEN Unit!CRITICAL ELSE IF state = "warning" THEN Unit!WARNING ELSE Unit!OK

THEOREM DemoLevels ==
  ASSUME NEW state \in DemoState
  PROVE  Unit!Evaluate(demo_snapshot(state)).level = DemoLevel(state)
PROOF
<1> DEFINE snapshot == demo_snapshot(state)
           pps == DemoPps(state)
           gnss == DemoGnss(state)
           tracking == DemoTracking(state)
           system == DemoSystem(state)
           report == Unit!Evaluate(snapshot)
<1>1. /\ snapshot.pps = pps /\ snapshot.gnss = gnss /\ snapshot.tracking = tracking
      /\ snapshot.system = system
      /\ snapshot.services = [u \in {"chrony", "gpsd"} |-> "active"]
  BY DEF demo_snapshot
<1> HIDE DEF snapshot
<1>2. /\ report.problems = Unit!CheckPps(pps) \cup Unit!CheckGnss(gnss)
                           \cup Unit!CheckChrony(tracking)
                           \cup Unit!CheckServices(snapshot.services) \cup Unit!CheckHost(system)
      /\ report.level = Unit!WorstLevel(report.problems)
  BY <1>1 DEF Unit!Evaluate
<1> HIDE DEF report
<1>3. /\ pps.present /\ ~pps.error
      /\ state = "critical" => ~pps.pulsing
      /\ state # "critical" => pps.pulsing
      /\ gnss.reachable /\ gnss.fix_mode = IF state = "critical" THEN 1 ELSE 3
      /\ state # "critical" => gnss.satellites_used = 9
      /\ tracking.reachable
      /\ state # "critical" => tracking.leap_status = "Normal"
      /\ tracking.stratum = IF state = "critical" THEN 0 ELSE IF state = "warning" THEN 2 ELSE 1
      /\ tracking.offset = IF state = "warning" THEN -120000 ELSE -21
      /\ system.temperature = IF state = "warning" THEN 71500 ELSE 52600
      /\ system.throttled = {}
  <2>1. pps.present /\ ~pps.error
    BY SMT DEF DemoPps
  <2>2. pps.pulsing = (state # "critical")
    BY Zenon DEF DemoPps
  <2>3. /\ gnss.reachable /\ gnss.fix_mode = IF state = "critical" THEN 1 ELSE 3
        /\ state # "critical" => gnss.satellites_used = 9
    BY SMT DEF DemoGnss
  <2>4. tracking.reachable /\ (state # "critical" => tracking.leap_status = "Normal")
    BY SMT DEF DemoTracking
  <2>5. /\ tracking.stratum = IF state = "critical" THEN 0 ELSE IF state = "warning" THEN 2 ELSE 1
        /\ tracking.offset = IF state = "warning" THEN -120000 ELSE -21
    BY SMT DEF DemoTracking
  <2>6. /\ system.temperature = IF state = "warning" THEN 71500 ELSE 52600
        /\ system.throttled = {}
    BY SMT DEF DemoSystem
  <2> HIDE DEF pps, gnss, tracking, system
  <2>7. (state = "critical" => ~pps.pulsing) /\ (state # "critical" => pps.pulsing)
    BY <2>2, Zenon
  <2>8. QED
    BY <2>1, <2>3, <2>4, <2>5, <2>6, <2>7
<1>4. /\ system.disk \in Int /\ system.disk < 85000
      /\ system.mem \in Int /\ system.mem < 90000
  BY SMT DEF DemoSystem, Unit!MemUsed
<1>5. Whole.min_satellites = 4
  BY DEF Whole
<1>6. /\ Fraction.offset_warn_s = 1 /\ Fraction.offset_crit_s = 100
      /\ Fraction.temp_warn_c = 70000 /\ Fraction.temp_crit_c = 80000
      /\ Fraction.disk_warn_pct = 85000 /\ Fraction.mem_warn_pct = 90000
  <2>1. Fraction.offset_warn_s = 1
    BY SMT DEF Fraction
  <2>2. Fraction.offset_crit_s = 100
    BY SMT DEF Fraction
  <2>3. Fraction.temp_warn_c = 70000
    BY SMT DEF Fraction
  <2>4. Fraction.temp_crit_c = 80000
    BY SMT DEF Fraction
  <2>5. Fraction.disk_warn_pct = 85000
    BY SMT DEF Fraction
  <2>6. Fraction.mem_warn_pct = 90000
    BY SMT DEF Fraction
  <2>7. QED
    BY <2>1, <2>2, <2>3, <2>4, <2>5, <2>6
<1> HIDE DEF pps, gnss, tracking, system
<1>7. CASE state = "critical"
  <2>1. Unit!Problem(Unit!CRITICAL, "pps", "not pulsing") \in Unit!CheckPps(pps)
    <3>1. pps.present /\ ~pps.error /\ ~pps.pulsing
      BY <1>3, <1>7
    <3>2. Unit!CheckPps(pps) = { Unit!Problem(Unit!CRITICAL, "pps", m) : m \in {"not pulsing"} }
      BY <3>1, SMT DEF Unit!CheckPps
    <3>3. QED
      BY <3>2
  <2>2. Unit!Problem(Unit!CRITICAL, "pps", "not pulsing") \in report.problems
    BY <2>1, <1>2
  <2>3. Unit!Problem(Unit!CRITICAL, "pps", "not pulsing").level = Unit!CRITICAL
    BY DEF Unit!Problem
  <2>4. report.level = Unit!CRITICAL
    BY <2>2, <2>3, <1>2 DEF Unit!WorstLevel
  <2>5. QED
    BY <1>7, <2>4 DEF DemoLevel, report, snapshot
<1>8. CASE state # "critical"
  <2>1. Unit!CheckPps(pps) = {}
    <3>1. pps.present /\ ~pps.error /\ pps.pulsing
      BY <1>3, <1>8, SMT
    <3>2. QED
      BY <3>1, SMT DEF Unit!CheckPps
  <2>2. Unit!CheckGnss(gnss) = {}
    <3>1. gnss.reachable /\ gnss.fix_mode = 3 /\ gnss.satellites_used = 9
      BY <1>3, <1>8, SMT
    <3>2. QED
      BY <3>1, <1>5, SMT DEF Unit!CheckGnss
  <2>3. Unit!CheckServices(snapshot.services) = {}
    BY <1>1, SMT DEF Unit!CheckServices
  <2>4. Unit!CheckChrony(tracking) =
          { Unit!Problem(Unit!WARNING, "chrony", m) : m \in
              IF state = "warning" THEN {"stratum"} ELSE {} }
    <3> DEFINE mild == { n \in {"stratum", "leap second"} :
                           \/ n = "stratum" /\ tracking.stratum > 1
                           \/ /\ n = "leap second"
                              /\ tracking.leap_status \in {"Insert second", "Delete second"} }
               offset == Unit!Magnitude(tracking.offset)
               levels == IF offset >= Nanoseconds(Fraction.offset_crit_s) THEN {Unit!CRITICAL}
                         ELSE IF offset >= Nanoseconds(Fraction.offset_warn_s) THEN {Unit!WARNING}
                         ELSE {}
    <3>1. tracking.reachable /\ tracking.leap_status = "Normal"
      BY <1>3, <1>8, SMT
    <3>2. Unit!Synchronised(tracking)
      BY <3>1, Zenon DEF Unit!Synchronised
    <3>3. levels = {}
      BY <1>3, <1>6, SMT DEF Unit!Magnitude, Nanoseconds
    <3>4. /\ state = "warning" => mild = {"stratum"}
          /\ state # "warning" => mild = {}
      <4>1. (state = "warning" => tracking.stratum = 2) /\ (state # "warning" => tracking.stratum = 1)
        BY <1>3, <1>8, SMT
      <4>2. tracking.leap_status \notin {"Insert second", "Delete second"}
        BY <3>1, SMT
      <4> HIDE DEF tracking
      <4>3. \A n : n \in mild <=> n = "stratum" /\ tracking.stratum > 1
        BY <4>2, Zenon
      <4> HIDE DEF mild
      <4>4. QED
        BY <4>1, <4>3, SMT
    <3>5. Unit!CheckChrony(tracking) =
            { Unit!Problem(Unit!WARNING, "chrony", m) : m \in mild }
            \cup { Unit!Problem(lv, "chrony", "offset") : lv \in levels }
      BY <3>1, <3>2, Zenon DEF Unit!CheckChrony
    <3> HIDE DEF mild, levels
    <3>6. QED
      BY <3>3, <3>4, <3>5, SMT
  <2>5. \A p \in Unit!CheckHost(system) : p.level = Unit!WARNING /\ state = "warning"
    <3> DEFINE levels == IF system.temperature = NoReading THEN {}
                         ELSE IF system.temperature >= Fraction.temp_crit_c THEN {Unit!CRITICAL}
                         ELSE IF system.temperature >= Fraction.temp_warn_c THEN {Unit!WARNING}
                         ELSE {}
               others == { n \in {"throttled", "disk", "memory"} :
                             \/ n = "throttled" /\ "now" \in system.throttled
                             \/ n = "disk" /\ system.disk >= Fraction.disk_warn_pct
                             \/ n = "memory" /\ system.mem >= Fraction.mem_warn_pct }
    <3>1. Unit!CheckHost(system) =
            { Unit!Problem(lv, "system", "temperature") : lv \in levels }
            \cup { Unit!Problem(Unit!WARNING, "system", m) : m \in others }
      BY Zenon DEF Unit!CheckHost
    <3>2. ~(system.disk >= Fraction.disk_warn_pct) /\ ~(system.mem >= Fraction.mem_warn_pct)
      BY <1>4, <1>6, SMT
    <3>3. "now" \notin system.throttled
      BY <1>3, SMT
    <3>4. others = {}
      BY <3>2, <3>3, Zenon
    <3>5. levels \in {{}, {Unit!WARNING}} /\ (state = "nominal" => levels = {})
      <4>1. system.temperature = IF state = "warning" THEN 71500 ELSE 52600
        BY <1>3, SMT
      <4> HIDE DEF system
      <4>2. QED
        BY <4>1, <1>6, SMT
    <3>6. \A lv, m : Unit!Problem(lv, "system", m).level = lv
      BY DEF Unit!Problem
    <3> HIDE DEF levels, others
    <3>7. QED
      <4>1. ASSUME NEW p \in Unit!CheckHost(system)
            PROVE  p.level = Unit!WARNING /\ state = "warning"
        <5>1. PICK lv \in levels : p = Unit!Problem(lv, "system", "temperature")
          BY <3>1, <3>4
        <5>2. lv = Unit!WARNING /\ state # "nominal"
          BY <5>1, <3>5
        <5>3. QED
          BY <5>1, <5>2, <3>6, <1>8 DEF DemoState
      <4>2. QED
        BY <4>1
  <2>6. CASE state = "warning"
    <3>1. Unit!Problem(Unit!WARNING, "chrony", "stratum").level = Unit!WARNING
      BY DEF Unit!Problem
    <3>2. /\ \A p \in report.problems : p.level = Unit!WARNING
          /\ Unit!Problem(Unit!WARNING, "chrony", "stratum") \in report.problems
      BY <1>2, <2>1, <2>2, <2>3, <2>4, <2>5, <2>6, <3>1
    <3>3. report.level = Unit!WARNING
      BY <1>2, <3>1, <3>2 DEF Unit!WorstLevel, Unit!WARNING, Unit!CRITICAL
    <3>4. QED
      BY <2>6, <3>3 DEF DemoLevel, report, snapshot
  <2>7. CASE state = "nominal"
    <3>1. report.problems = {}
      BY <1>2, <2>1, <2>2, <2>3, <2>4, <2>5, <2>7
    <3>2. report.level = Unit!OK
      BY <1>2, <3>1 DEF Unit!WorstLevel
    <3>3. QED
      BY <2>7, <3>2 DEF DemoLevel, report, snapshot
  <2>8. QED
    BY <1>8, <2>6, <2>7 DEF DemoState
<1>9. QED
  BY <1>7, <1>8

(***************************************************************************)
(* The demo says nothing twice in two ways: the pulse is there exactly     *)
(* when the age of its last edge would say so (collect_pps), and as many   *)
(* satellites are used as the list has used ones.                          *)
(***************************************************************************)
THEOREM DemoReadingsAgree ==
  ASSUME NEW state \in DemoState
  PROVE  /\ DemoPps(state).pulsing <=> Unit!Fresh(DemoAge(state))
         /\ DemoGnss(state).satellites_used
              = Cardinality({ i \in DOMAIN Satellites(state) : Satellites(state)[i] })
PROOF
<1> DEFINE used == { i \in DOMAIN Satellites(state) : Satellites(state)[i] }
<1>1. DemoPps(state).pulsing <=> state # "critical"
  BY Zenon DEF DemoPps
<1>2. Unit!Fresh(DemoAge(state)) <=> state # "critical"
  <2>1. Fraction.pps_stale_after_s = 3000
    BY SMT DEF Fraction
  <2>2. QED
    BY <2>1, SMT DEF Unit!Fresh, DemoAge
<1>3. used = IF state = "critical" THEN {} ELSE 1 .. 9
  <2>1. DOMAIN Satellites(state) = 1 .. 14
    BY Zenon DEF Satellites, SATS
  <2>2. ASSUME NEW i \in 1 .. 14
        PROVE  Satellites(state)[i] <=> i <= 9 /\ state # "critical"
    BY Zenon DEF Satellites, SATS
  <2>3. \A i : i \in used <=> i \in 1 .. 14 /\ i <= 9 /\ state # "critical"
    BY <2>1, <2>2, Zenon
  <2> HIDE DEF used
  <2>4. \A i : i \in used <=> i \in 1 .. 9 /\ state # "critical"
    BY <2>3, SMT
  <2>5. QED
    BY <2>4, Zenon
<1>4. Cardinality(used) = IF state = "critical" THEN 0 ELSE 9
  <2> HIDE DEF used
  <2>1. Cardinality(1 .. 9) = 9
    <3>1. 1 \in Int /\ 9 \in Int
      BY SMT
    <3>2. Cardinality(1 .. 9) = IF 1 > 9 THEN 0 ELSE 9 - 1 + 1
      BY <3>1, FS_Interval, Zenon
    <3>3. QED
      BY <3>2, SMT
  <2>2. Cardinality({}) = 0
    BY FS_EmptySet, Zenon
  <2>3. QED
    BY <1>3, <2>1, <2>2, SMT
<1>5. DemoGnss(state).satellites_used = IF state = "critical" THEN 0 ELSE 9
  BY SMT DEF DemoGnss
<1> HIDE DEF used
<1>6. DemoGnss(state).satellites_used = Cardinality(used)
  BY <1>4, <1>5
<1>7. QED
  BY <1>1, <1>2, <1>6 DEF used

=============================================================================
