------------------------------ MODULE EvaluateProofs ------------------------------
(***************************************************************************)
(* From the answers of a host to what is told of it: evaluate(), the       *)
(* metrics, the alert rules and the screens, for every answer the sources  *)
(* can give and every threshold, from ReadingsAssumption and, as to the    *)
(* rules, RulesAssumption.                                                 *)
(***************************************************************************)
EXTENDS MCHealthEvaluate, WellFoundedInduction, TLAPS

Thresholds ==
  /\ MIN_SATELLITES \in Int /\ OFFSET_WARN \in Int /\ OFFSET_CRIT \in Int
  /\ TEMP_WARN \in Int /\ TEMP_CRIT \in Int /\ DISK_WARN \in Int /\ MEM_WARN \in Int

(* The types of the dataclasses in collectors/model.py, as far as they are read. *)
IsSnapshot(s) ==
  /\ s.gnss.fix_mode \in Nat /\ s.gnss.satellites_used \in Int
  /\ s.tracking.stratum \in Int /\ s.tracking.offset \in Int
  /\ s.system.temperature \in Int \cup {NoReading}
  /\ s.system.disk \in Int /\ s.system.mem \in Int

-----------------------------------------------------------------------------
(* What each check returns, problem by problem. *)

LEMMA ProblemFields ==
  ASSUME NEW level, NEW subsystem, NEW message
  PROVE  /\ Problem(level, subsystem, message).level = level
         /\ Problem(level, subsystem, message).subsystem = subsystem
         /\ Problem(level, subsystem, message).message = message
BY DEF Problem

LEMMA PpsProblems ==
  ASSUME NEW pps
  PROVE  \A p : p \in CheckPps(pps) <=>
           \/ ~pps.present /\ p = Problem(CRITICAL, "pps", "missing")
           \/ pps.present /\ pps.error /\ p = Problem(CRITICAL, "pps", "unreadable")
           \/ pps.present /\ ~pps.error /\ ~pps.pulsing
              /\ p = Problem(CRITICAL, "pps", "not pulsing")
PROOF
<1> DEFINE messages == IF ~pps.present THEN {"missing"}
                       ELSE IF pps.error THEN {"unreadable"}
                       ELSE IF ~pps.pulsing THEN {"not pulsing"} ELSE {}
<1>1. \A p : p \in CheckPps(pps) <=> \E m \in messages : p = Problem(CRITICAL, "pps", m)
  BY Zenon DEF CheckPps
<1>2. QED
  BY <1>1, Zenon

LEMMA GnssProblems ==
  ASSUME NEW gnss
  PROVE  \A p : p \in CheckGnss(gnss) <=>
           \/ ~gnss.reachable /\ p = Problem(CRITICAL, "gnss", "unreachable")
           \/ gnss.reachable /\ gnss.fix_mode < 2 /\ p = Problem(CRITICAL, "gnss", "no fix")
           \/ /\ gnss.reachable /\ ~(gnss.fix_mode < 2) /\ gnss.fix_mode = 2
              /\ p = Problem(WARNING, "gnss", "2D fix only")
           \/ /\ gnss.reachable /\ ~(gnss.fix_mode < 2) /\ gnss.fix_mode # 2
              /\ gnss.satellites_used < MIN_SATELLITES
              /\ p = Problem(WARNING, "gnss", "few satellites")
BY Zenon DEF CheckGnss

LEMMA ChronyProblems ==
  ASSUME NEW tracking
  PROVE  \A p : p \in CheckChrony(tracking) <=>
           \/ ~tracking.reachable /\ p = Problem(CRITICAL, "chrony", "not answering")
           \/ /\ tracking.reachable /\ ~Synchronised(tracking)
              /\ p = Problem(CRITICAL, "chrony", "not synchronised")
           \/ /\ tracking.reachable /\ Synchronised(tracking)
              /\ \/ tracking.stratum > 1 /\ p = Problem(WARNING, "chrony", "stratum")
                 \/ LeapAnnounced(tracking) /\ p = Problem(WARNING, "chrony", "leap second")
                 \/ /\ Magnitude(tracking.offset) >= OFFSET_CRIT
                    /\ p = Problem(CRITICAL, "chrony", "offset")
                 \/ /\ ~(Magnitude(tracking.offset) >= OFFSET_CRIT)
                    /\ Magnitude(tracking.offset) >= OFFSET_WARN
                    /\ p = Problem(WARNING, "chrony", "offset")
PROOF
<1> DEFINE offset == Magnitude(tracking.offset)
           mild == { n \in {"stratum", "leap second"} :
                       \/ n = "stratum" /\ tracking.stratum > 1
                       \/ n = "leap second" /\ LeapAnnounced(tracking) }
           levels == IF offset >= OFFSET_CRIT THEN {CRITICAL}
                     ELSE IF offset >= OFFSET_WARN THEN {WARNING} ELSE {}
<1>1. CASE ~tracking.reachable
  BY <1>1, Zenon DEF CheckChrony
<1>2. CASE tracking.reachable /\ ~Synchronised(tracking)
  BY <1>2, Zenon DEF CheckChrony
<1>3. CASE tracking.reachable /\ Synchronised(tracking)
  <2>1. CheckChrony(tracking) = { Problem(WARNING, "chrony", m) : m \in mild }
                                \cup { Problem(lv, "chrony", "offset") : lv \in levels }
    BY <1>3, Zenon DEF CheckChrony, LeapAnnounced
  <2>2. \A p : p \in { Problem(WARNING, "chrony", m) : m \in mild } <=>
          \/ tracking.stratum > 1 /\ p = Problem(WARNING, "chrony", "stratum")
          \/ LeapAnnounced(tracking) /\ p = Problem(WARNING, "chrony", "leap second")
    BY Zenon
  <2>3. \A p : p \in { Problem(lv, "chrony", "offset") : lv \in levels } <=>
          \/ offset >= OFFSET_CRIT /\ p = Problem(CRITICAL, "chrony", "offset")
          \/ /\ ~(offset >= OFFSET_CRIT) /\ offset >= OFFSET_WARN
             /\ p = Problem(WARNING, "chrony", "offset")
    BY Zenon
  <2> HIDE DEF mild, levels
  <2>4. QED
    BY <1>3, <2>1, <2>2, <2>3, Zenon
<1>4. QED
  BY <1>1, <1>2, <1>3

LEMMA ServiceProblems ==
  ASSUME NEW services
  PROVE  \A p : p \in CheckServices(services) <=>
           \E u \in Units : services[u] # "active" /\ p = Problem(CRITICAL, "service", u)
BY Zenon DEF CheckServices

LEMMA HostProblems ==
  ASSUME NEW system
  PROVE  \A p : p \in CheckHost(system) <=>
           \/ /\ system.temperature # NoReading /\ system.temperature >= TEMP_CRIT
              /\ p = Problem(CRITICAL, "system", "temperature")
           \/ /\ system.temperature # NoReading /\ ~(system.temperature >= TEMP_CRIT)
              /\ system.temperature >= TEMP_WARN
              /\ p = Problem(WARNING, "system", "temperature")
           \/ "now" \in system.throttled /\ p = Problem(WARNING, "system", "throttled")
           \/ system.disk >= DISK_WARN /\ p = Problem(WARNING, "system", "disk")
           \/ system.mem >= MEM_WARN /\ p = Problem(WARNING, "system", "memory")
PROOF
<1> DEFINE others == { n \in {"throttled", "disk", "memory"} :
                         \/ n = "throttled" /\ "now" \in system.throttled
                         \/ n = "disk" /\ system.disk >= DISK_WARN
                         \/ n = "memory" /\ system.mem >= MEM_WARN }
           levels == IF system.temperature = NoReading THEN {}
                     ELSE IF system.temperature >= TEMP_CRIT THEN {CRITICAL}
                     ELSE IF system.temperature >= TEMP_WARN THEN {WARNING} ELSE {}
<1>1. CheckHost(system) = { Problem(lv, "system", "temperature") : lv \in levels }
                          \cup { Problem(WARNING, "system", m) : m \in others }
  BY Zenon DEF CheckHost
<1>2. \A p : p \in { Problem(lv, "system", "temperature") : lv \in levels } <=>
        \/ /\ system.temperature # NoReading /\ system.temperature >= TEMP_CRIT
           /\ p = Problem(CRITICAL, "system", "temperature")
        \/ /\ system.temperature # NoReading /\ ~(system.temperature >= TEMP_CRIT)
           /\ system.temperature >= TEMP_WARN
           /\ p = Problem(WARNING, "system", "temperature")
  BY Zenon
<1>3. \A p : p \in { Problem(WARNING, "system", m) : m \in others } <=>
        \/ "now" \in system.throttled /\ p = Problem(WARNING, "system", "throttled")
        \/ system.disk >= DISK_WARN /\ p = Problem(WARNING, "system", "disk")
        \/ system.mem >= MEM_WARN /\ p = Problem(WARNING, "system", "memory")
  BY Zenon
<1> HIDE DEF levels, others
<1>4. QED
  BY <1>1, <1>2, <1>3, Zenon

-----------------------------------------------------------------------------
(* Levels, and the report as a whole. *)

LEMMA LevelsOrdered == CRITICAL = 2 /\ WARNING = 1 /\ OK = 0
BY DEF CRITICAL, WARNING, OK

LEMMA ReportParts ==
  ASSUME NEW s
  PROVE  /\ Evaluate(s).level = WorstLevel(Evaluate(s).problems)
         /\ \A p : p \in Evaluate(s).problems <=>
              \/ p \in CheckPps(s.pps) \/ p \in CheckGnss(s.gnss)
              \/ p \in CheckChrony(s.tracking) \/ p \in CheckServices(s.services)
              \/ p \in CheckHost(s.system)
BY Zenon DEF Evaluate

(* No check finds two critical problems that differ, apart from the services'. *)
LEMMA PpsShape ==
  ASSUME NEW pps
  PROVE  \E m : \A p \in CheckPps(pps) : p = Problem(CRITICAL, "pps", m)
PROOF
<1>1. CASE ~pps.present
  BY <1>1, PpsProblems, Zenon
<1>2. CASE pps.present /\ pps.error
  BY <1>2, PpsProblems, Zenon
<1>3. CASE pps.present /\ ~pps.error
  BY <1>3, PpsProblems, Zenon
<1>4. QED
  BY <1>1, <1>2, <1>3, Zenon

LEMMA GnssShape ==
  ASSUME NEW gnss
  PROVE  \E m : \E lv \in {WARNING, CRITICAL} :
           \A p \in CheckGnss(gnss) : p = Problem(lv, "gnss", m)
PROOF
<1>1. CASE ~gnss.reachable
  BY <1>1, GnssProblems, Zenon
<1>2. CASE gnss.reachable /\ gnss.fix_mode < 2
  <2>1. \A p \in CheckGnss(gnss) : p = Problem(CRITICAL, "gnss", "no fix")
    BY <1>2, GnssProblems, Zenon
  <2>2. QED
    BY <2>1, Zenon
<1>3. CASE gnss.reachable /\ ~(gnss.fix_mode < 2) /\ gnss.fix_mode = 2
  BY <1>3, GnssProblems, Zenon
<1>4. CASE gnss.reachable /\ ~(gnss.fix_mode < 2) /\ gnss.fix_mode # 2
  BY <1>4, GnssProblems, Zenon
<1>5. QED
  BY <1>1, <1>2, <1>3, <1>4, Zenon

LEMMA ChronyShape ==
  ASSUME NEW tracking
  PROVE  \E m : \A p \in CheckChrony(tracking) :
           p = Problem(CRITICAL, "chrony", m) \/ \E n : p = Problem(WARNING, "chrony", n)
PROOF
<1>1. CASE ~tracking.reachable
  BY <1>1, ChronyProblems, Zenon
<1>2. CASE tracking.reachable /\ ~Synchronised(tracking)
  BY <1>2, ChronyProblems, Zenon
<1>3. CASE tracking.reachable /\ Synchronised(tracking)
  <2>1. \A p \in CheckChrony(tracking) :
          p = Problem(CRITICAL, "chrony", "offset") \/ \E n : p = Problem(WARNING, "chrony", n)
    BY <1>3, ChronyProblems, Zenon
  <2>2. QED
    BY <2>1, Zenon
<1>4. QED
  BY <1>1, <1>2, <1>3, Zenon

(* Each problem's subsystem is that of the check that finds it. *)
LEMMA CheckNames ==
  ASSUME NEW s
  PROVE  /\ \A p \in CheckPps(s.pps) : p.subsystem = "pps" /\ p.level = CRITICAL
         /\ \A p \in CheckGnss(s.gnss) : p.subsystem = "gnss" /\ p.level \in {WARNING, CRITICAL}
         /\ \A p \in CheckChrony(s.tracking) :
              p.subsystem = "chrony" /\ p.level \in {WARNING, CRITICAL}
         /\ \A p \in CheckServices(s.services) : p.subsystem = "service" /\ p.level = CRITICAL
         /\ \A p \in CheckHost(s.system) :
              p.subsystem = "system" /\ p.level \in {WARNING, CRITICAL}
PROOF
<1>1. \A p \in CheckPps(s.pps) : p.subsystem = "pps" /\ p.level = CRITICAL
  BY PpsShape, SMT DEF Problem
<1>2. \A p \in CheckGnss(s.gnss) : p.subsystem = "gnss" /\ p.level \in {WARNING, CRITICAL}
  BY GnssShape, SMT DEF Problem
<1>3. \A p \in CheckChrony(s.tracking) : p.subsystem = "chrony" /\ p.level \in {WARNING, CRITICAL}
  BY ChronyShape, SMT DEF Problem
<1>4. \A p \in CheckServices(s.services) : p.subsystem = "service" /\ p.level = CRITICAL
  BY ServiceProblems, SMT DEF Problem
<1>5. \A p \in CheckHost(s.system) : p.subsystem = "system" /\ p.level \in {WARNING, CRITICAL}
  BY HostProblems, SMT DEF Problem
<1>6. QED
  BY <1>1, <1>2, <1>3, <1>4, <1>5

(***************************************************************************)
(* evaluate() finds at most one critical problem per subsystem, apart from *)
(* the services: the dict of messages that the ladder builds (check.py:106)*)
(* loses nothing but services, which it takes from the list itself.        *)
(***************************************************************************)
THEOREM OneCriticalMessage ==
  ASSUME NEW s, NEW p \in Evaluate(s).problems, NEW q \in Evaluate(s).problems,
         p.level = CRITICAL, q.level = CRITICAL,
         p.subsystem = q.subsystem, p.subsystem # "service"
  PROVE  p = q
PROOF
<1>1. WARNING # CRITICAL
  BY LevelsOrdered
<1>2. CASE p.subsystem = "pps"
  <2>1. p \in CheckPps(s.pps) /\ q \in CheckPps(s.pps)
    BY <1>2, ReportParts, CheckNames
  <2>2. QED
    BY <2>1, PpsShape, SMT
<1>3. CASE p.subsystem = "gnss"
  <2>1. p \in CheckGnss(s.gnss) /\ q \in CheckGnss(s.gnss)
    BY <1>3, ReportParts, CheckNames
  <2>2. QED
    BY <2>1, GnssShape, SMT
<1>4. CASE p.subsystem = "chrony"
  <2>1. p \in CheckChrony(s.tracking) /\ q \in CheckChrony(s.tracking)
    BY <1>4, ReportParts, CheckNames
  <2>2. QED
    BY <1>1, <2>1, ChronyShape, SMT DEF Problem
<1>5. CASE p.subsystem = "system"
  <2>1. p \in CheckHost(s.system) /\ q \in CheckHost(s.system)
    BY <1>5, ReportParts, CheckNames
  <2>2. QED
    BY <1>1, <2>1, HostProblems, SMT DEF Problem
<1>6. p.subsystem \in {"pps", "gnss", "chrony", "service", "system"}
  BY ReportParts, CheckNames
<1>7. QED
  BY <1>2, <1>3, <1>4, <1>5, <1>6

-----------------------------------------------------------------------------
(* Monotonicity, check by check. *)

Covers(P, Q) == \A q \in Q : \E p \in P : p.subsystem = q.subsystem /\ p.level >= q.level

LEMMA CoveringLooksNoBetter ==
  ASSUME NEW P, NEW Q, Covers(P, Q),
         \A p \in P \cup Q : p.level \in {WARNING, CRITICAL}
  PROVE  /\ WorstLevel(P) >= WorstLevel(Q)
         /\ \A name : WorstLevel({ p \in P : p.subsystem = name })
                       >= WorstLevel({ q \in Q : q.subsystem = name })
PROOF
<1>1. ASSUME NEW A, NEW B, Covers(A, B), \A p \in A \cup B : p.level \in {1, 2}
      PROVE  WorstLevel(A) >= WorstLevel(B)
  <2>1. (\E q \in B : q.level = 2) => \E p \in A : p.level = 2
    BY <1>1 DEF Covers
  <2>2. (\E q \in B : q.level = 1) => \E p \in A : p.level = 1 \/ p.level = 2
    BY <1>1 DEF Covers
  <2>3. QED
    BY <2>1, <2>2, SMT DEF WorstLevel, OK, WARNING, CRITICAL
<1>2. ASSUME NEW name
      PROVE  Covers({ p \in P : p.subsystem = name }, { q \in Q : q.subsystem = name })
  BY DEF Covers
<1>3. QED
  BY <1>1, <1>2, LevelsOrdered

LEMMA CoveredByWorse ==
  ASSUME NEW name, NEW P, NEW Q, NEW lv \in {1, 2},
         \E m : Problem(lv, name, m) \in P,
         \A q \in Q : q.subsystem = name /\ q.level \in {1, 2} /\ (lv = 1 => q.level = 1)
  PROVE  Covers(P, Q)
PROOF
<1>1. PICK m : Problem(lv, name, m) \in P
  OBVIOUS
<1>2. Problem(lv, name, m).subsystem = name /\ Problem(lv, name, m).level = lv
  BY ProblemFields
<1>3. \A q \in Q : q.level <= lv
  OBVIOUS
<1>4. QED
  BY <1>1, <1>2, <1>3 DEF Covers

LEMMA CoveredEach ==
  ASSUME NEW P, NEW Q, \A q \in Q : Covers(P, {q})
  PROVE  Covers(P, Q)
BY DEF Covers

LEMMA CoveredByItself ==
  ASSUME NEW P, NEW q \in P, q.level \in {1, 2}
  PROVE  Covers(P, {q})
BY DEF Covers

LEMMA WorsePps ==
  ASSUME NEW p, NEW q, PpsRank(p) <= PpsRank(q)
  PROVE  Covers(CheckPps(p), CheckPps(q))
PROOF
<1>1. CASE CheckPps(q) = {}
  BY <1>1 DEF Covers
<1>2. CASE CheckPps(q) # {}
  <2>1. ~q.present \/ q.error \/ ~q.pulsing
    BY <1>2, PpsProblems, Zenon
  <2>2. PpsRank(q) \in {0, 1, 2}
    BY <2>1, SMT DEF PpsRank
  <2>3. PpsRank(p) # 3
    BY <2>2, SMT DEF PpsRank
  <2>4. ~p.present \/ p.error \/ ~p.pulsing
    BY <2>3, Zenon DEF PpsRank
  <2>5. \E m : Problem(CRITICAL, "pps", m) \in CheckPps(p)
    BY <2>4, PpsProblems, Zenon
  <2>6. \A r \in CheckPps(q) : r.subsystem = "pps" /\ r.level = CRITICAL
    BY PpsShape, SMT DEF Problem
  <2>7. QED
    BY <2>5, <2>6, ProblemFields, LevelsOrdered DEF Covers
<1>3. QED
  BY <1>1, <1>2

LEMMA WorseGnss ==
  ASSUME Thresholds, NEW g, NEW h, NoBetterGnss(g, h),
         g.fix_mode \in Nat, h.fix_mode \in Nat,
         g.satellites_used \in Int, h.satellites_used \in Int
  PROVE  Covers(CheckGnss(g), CheckGnss(h))
PROOF
<1> DEFINE few(x) == x.satellites_used < MIN_SATELLITES
<1>1. /\ h.fix_mode < 2 => g.fix_mode < 2
      /\ h.fix_mode = 2 => g.fix_mode < 2 \/ g.fix_mode = 2
      /\ few(h) => few(g)
  BY SMT DEF NoBetterGnss, Thresholds
<1>2. \A r \in CheckGnss(h) : r.subsystem = "gnss" /\ r.level \in {1, 2}
  BY GnssShape, SMT DEF Problem, WARNING, CRITICAL
<1>3. CASE ~g.reachable
  <2>1. Problem(2, "gnss", "unreachable") \in CheckGnss(g)
    BY <1>3, GnssProblems, LevelsOrdered
  <2>2. QED
    BY <1>2, <2>1, CoveredByWorse
<1>4. CASE g.reachable /\ g.fix_mode < 2
  <2>1. Problem(2, "gnss", "no fix") \in CheckGnss(g)
    BY <1>4, GnssProblems, LevelsOrdered
  <2>2. QED
    BY <1>2, <2>1, CoveredByWorse
<1>5. CASE g.reachable /\ ~(g.fix_mode < 2)
  <2>1. h.reachable /\ ~(h.fix_mode < 2)
    BY <1>1, <1>5, Zenon DEF NoBetterGnss
  <2>2. \A r \in CheckGnss(h) : r.level = 1
    <3>1. \A r \in CheckGnss(h) : \E m : r = Problem(WARNING, "gnss", m)
      BY <2>1, GnssProblems, Zenon
    <3>2. QED
      BY <3>1, ProblemFields, LevelsOrdered
  <2>3. CASE CheckGnss(h) = {}
    BY <2>3 DEF Covers
  <2>4. CASE CheckGnss(h) # {}
    <3>1. h.fix_mode = 2 \/ few(h)
      BY <2>1, <2>4, GnssProblems, Zenon
    <3>2. g.fix_mode = 2 \/ few(g)
      BY <1>1, <1>5, <3>1, Zenon
    <3>3. \E m : Problem(1, "gnss", m) \in CheckGnss(g)
      BY <1>5, <3>2, GnssProblems, LevelsOrdered, Zenon
    <3>4. QED
      BY <1>2, <2>2, <3>3, CoveredByWorse
  <2>5. QED
    BY <2>3, <2>4
<1>6. QED
  BY <1>3, <1>4, <1>5, Zenon

LEMMA WorseChrony ==
  ASSUME Thresholds, NEW c, NEW d, NoBetterChrony(c, d),
         c.stratum \in Int, d.stratum \in Int, c.offset \in Int, d.offset \in Int
  PROVE  Covers(CheckChrony(c), CheckChrony(d))
PROOF
<1> DEFINE far(x) == Magnitude(x.offset) >= OFFSET_CRIT
           off(x) == Magnitude(x.offset) >= OFFSET_WARN
<1>1. \A r \in CheckChrony(d) : r.subsystem = "chrony" /\ r.level \in {1, 2}
  BY ChronyShape, SMT DEF Problem, WARNING, CRITICAL
<1>2. CASE ~c.reachable \/ ~Synchronised(c)
  <2>1. \E m : Problem(CRITICAL, "chrony", m) \in CheckChrony(c)
    BY <1>2, ChronyProblems, Zenon
  <2>2. QED
    BY <1>1, <2>1, CoveredByWorse, LevelsOrdered
<1>3. CASE c.reachable /\ Synchronised(c)
  <2>1. d.reachable /\ Synchronised(d)
    BY <1>3, Zenon DEF NoBetterChrony
  <2>2. c.stratum >= d.stratum /\ Magnitude(c.offset) >= Magnitude(d.offset)
    BY <1>3, <2>1, Zenon DEF NoBetterChrony
  <2>3. Magnitude(c.offset) \in Int /\ Magnitude(d.offset) \in Int
    BY SMT DEF Magnitude
  <2>4. /\ d.stratum > 1 => c.stratum > 1
        /\ far(d) => far(c)
        /\ off(d) => off(c)
    BY <2>2, <2>3, SMT DEF Thresholds
  <2>5. LeapAnnounced(d) => LeapAnnounced(c)
    BY <1>3, <2>1, Zenon DEF NoBetterChrony
  <2>6. /\ c.stratum > 1 => Problem(WARNING, "chrony", "stratum") \in CheckChrony(c)
        /\ LeapAnnounced(c) => Problem(WARNING, "chrony", "leap second") \in CheckChrony(c)
        /\ far(c) => Problem(CRITICAL, "chrony", "offset") \in CheckChrony(c)
        /\ ~far(c) /\ off(c) => Problem(WARNING, "chrony", "offset") \in CheckChrony(c)
    BY <1>3, ChronyProblems, Zenon
  <2>7. ASSUME NEW r \in CheckChrony(d)
        PROVE  \/ d.stratum > 1 /\ r = Problem(WARNING, "chrony", "stratum")
               \/ LeapAnnounced(d) /\ r = Problem(WARNING, "chrony", "leap second")
               \/ far(d) /\ r = Problem(CRITICAL, "chrony", "offset")
               \/ off(d) /\ r = Problem(WARNING, "chrony", "offset")
    BY <2>1, ChronyProblems, Zenon
  <2> HIDE DEF far, off
  <2>8. ASSUME NEW r \in CheckChrony(d)
        PROVE  Covers(CheckChrony(c), {r})
    <3>1. CASE far(c)
      <4>1. Problem(2, "chrony", "offset") \in CheckChrony(c)
        BY <2>6, <3>1, LevelsOrdered
      <4>2. \A q \in {r} : q.subsystem = "chrony" /\ q.level \in {1, 2}
        BY <1>1
      <4>3. QED
        BY <4>1, <4>2, CoveredByWorse
    <3>2. CASE ~far(c)
      <4>1. r \in CheckChrony(c)
        BY <2>4, <2>5, <2>6, <2>7, <3>2, Zenon
      <4>2. QED
        BY <1>1, <4>1, CoveredByItself
    <3>3. QED
      BY <3>1, <3>2
  <2>9. QED
    BY <2>8, CoveredEach
<1>4. QED
  BY <1>2, <1>3, Zenon

LEMMA WorseServices ==
  ASSUME NEW f, NEW g, \A u \in Units : f[u] = "active" => g[u] = "active"
  PROVE  Covers(CheckServices(f), CheckServices(g))
PROOF
<1>1. CheckServices(g) \subseteq CheckServices(f)
  <2>1. ASSUME NEW p \in CheckServices(g)
        PROVE  p \in CheckServices(f)
    <3>1. PICK u \in Units : g[u] # "active" /\ p = Problem(CRITICAL, "service", u)
      BY ServiceProblems, Zenon
    <3>2. f[u] # "active"
      BY <3>1
    <3>3. QED
      BY <3>1, <3>2, ServiceProblems, Zenon
  <2>2. QED
    BY <2>1
<1>2. \A p \in CheckServices(f) : p.level \in {1, 2}
  BY ServiceProblems, SMT DEF Problem, CRITICAL
<1>3. QED
  BY <1>1, <1>2, SMT DEF Covers

LEMMA WorseHost ==
  ASSUME Thresholds, NEW x, NEW y, NoBetterSystem(x, y),
         x.temperature \in Int \cup {NoReading}, y.temperature \in Int \cup {NoReading},
         x.disk \in Int, y.disk \in Int, x.mem \in Int, y.mem \in Int
  PROVE  Covers(CheckHost(x), CheckHost(y))
PROOF
<1> DEFINE hot(z) == z.temperature >= TEMP_CRIT
           warm(z) == z.temperature >= TEMP_WARN
<1>1. x.temperature # NoReading /\ y.temperature # NoReading
  BY Zenon DEF NoBetterSystem
<1>2. /\ hot(y) => hot(x)
      /\ warm(y) => warm(x)
      /\ y.disk >= DISK_WARN => x.disk >= DISK_WARN
      /\ y.mem >= MEM_WARN => x.mem >= MEM_WARN
  BY <1>1, SMT DEF NoBetterSystem, Thresholds
<1>3. "now" \in y.throttled => "now" \in x.throttled
  BY Zenon DEF NoBetterSystem
<1>4. /\ hot(x) => Problem(CRITICAL, "system", "temperature") \in CheckHost(x)
      /\ ~hot(x) /\ warm(x) => Problem(WARNING, "system", "temperature") \in CheckHost(x)
      /\ "now" \in x.throttled => Problem(WARNING, "system", "throttled") \in CheckHost(x)
      /\ x.disk >= DISK_WARN => Problem(WARNING, "system", "disk") \in CheckHost(x)
      /\ x.mem >= MEM_WARN => Problem(WARNING, "system", "memory") \in CheckHost(x)
  BY <1>1, HostProblems, Zenon
<1>5. ASSUME NEW r \in CheckHost(y)
      PROVE  \/ hot(y) /\ r = Problem(CRITICAL, "system", "temperature")
             \/ warm(y) /\ r = Problem(WARNING, "system", "temperature")
             \/ "now" \in y.throttled /\ r = Problem(WARNING, "system", "throttled")
             \/ y.disk >= DISK_WARN /\ r = Problem(WARNING, "system", "disk")
             \/ y.mem >= MEM_WARN /\ r = Problem(WARNING, "system", "memory")
  BY HostProblems, Zenon
<1> HIDE DEF hot, warm
<1>6. ASSUME NEW r \in CheckHost(y)
      PROVE  \/ r \in CheckHost(x)
             \/ Problem(CRITICAL, "system", "temperature") \in CheckHost(x)
  BY <1>2, <1>3, <1>4, <1>5, Zenon
<1>7. \A r \in CheckHost(y) : r.subsystem = "system" /\ r.level \in {1, 2}
  BY HostProblems, SMT DEF Problem, WARNING, CRITICAL
<1>8. QED
  BY <1>6, <1>7, SMT DEF Covers, Problem, CRITICAL

(***************************************************************************)
(* A unit whose sensors all read no better never looks better, as a whole  *)
(* or for any subsystem, whatever the thresholds: the elif chains of       *)
(* evaluate.py do not let a worse reading end in a milder branch.          *)
(***************************************************************************)
THEOREM WorseLooksNoBetter ==
  ASSUME Thresholds, NEW s, NEW t, IsSnapshot(s), IsSnapshot(t), NoBetter(s, t)
  PROVE  LooksNoBetter(Evaluate(s), Evaluate(t))
PROOF
<1> DEFINE P == Evaluate(s).problems
           Q == Evaluate(t).problems
<1>1. Covers(CheckPps(s.pps), CheckPps(t.pps))
  BY WorsePps DEF NoBetter
<1>2. Covers(CheckGnss(s.gnss), CheckGnss(t.gnss))
  BY WorseGnss DEF NoBetter, IsSnapshot
<1>3. Covers(CheckChrony(s.tracking), CheckChrony(t.tracking))
  BY WorseChrony DEF NoBetter, IsSnapshot
<1>4. Covers(CheckServices(s.services), CheckServices(t.services))
  BY WorseServices DEF NoBetter
<1>5. Covers(CheckHost(s.system), CheckHost(t.system))
  BY WorseHost DEF NoBetter, IsSnapshot
<1>6. Covers(P, Q)
  BY <1>1, <1>2, <1>3, <1>4, <1>5, ReportParts DEF Covers
<1>7. \A p \in P \cup Q : p.level \in {WARNING, CRITICAL}
  BY ReportParts, CheckNames
<1>8. Evaluate(s).level = WorstLevel(P) /\ Evaluate(t).level = WorstLevel(Q)
  BY ReportParts
<1> HIDE DEF P, Q
<1>9. WorstLevel(P) >= WorstLevel(Q)
  BY <1>6, <1>7, CoveringLooksNoBetter
<1>10. ASSUME NEW name
       PROVE  WorstLevel({ p \in P : p.subsystem = name })
                >= WorstLevel({ q \in Q : q.subsystem = name })
  BY <1>6, <1>7, CoveringLooksNoBetter
<1>11. QED
  BY <1>8, <1>9, <1>10 DEF LooksNoBetter, BySubsystem, P, Q

-----------------------------------------------------------------------------
(* The dashboard. *)

LEMMA WorstBounds ==
  ASSUME NEW P, \A p \in P : p.level \in {WARNING, CRITICAL}
  PROVE  /\ WorstLevel(P) \in {0, 1, 2}
         /\ \A p \in P : p.level \in {1, 2} /\ p.level <= WorstLevel(P)
BY SMT DEF WorstLevel, OK, WARNING, CRITICAL

LEMMA PanelLevels ==
  ASSUME NEW s, NEW r
  PROVE  LET dash == Dashboard(s, r)
         IN  /\ dash.banner.problems = Headline(r)
             /\ \A n \in Panels : dash[n].level = BySubsystem(r, n)
             /\ dash["gnss"].words = GnssSummary(s.gnss)
             /\ dash["chrony"].words = ChronySummary(s.tracking)
             /\ dash["pps"].words = PpsSummary(s.pps)
PROOF
<1> DEFINE dash == Dashboard(s, r)
<1>1. dash.banner.problems = Headline(r)
  BY DEF Dashboard
<1>2. ASSUME NEW n \in Panels
      PROVE  dash[n].level = BySubsystem(r, n)
  BY DEF Dashboard, Panels, PanelOf
<1>3. /\ dash["gnss"].words = GnssSummary(s.gnss)
      /\ dash["chrony"].words = ChronySummary(s.tracking)
      /\ dash["pps"].words = PpsSummary(s.pps)
  BY DEF Dashboard, PanelOf
<1>4. QED
  BY <1>1, <1>2, <1>3

(***************************************************************************)
(* The dashboard hides no problem but those of the host that are milder    *)
(* than the banner (screens.py): for every snapshot and every threshold.   *)
(***************************************************************************)
THEOREM DashboardHidesOnlyTheHost ==
  ASSUME NEW s
  PROVE  HidesOnlyTheHost(s, Evaluate(s))
PROOF
<1> DEFINE r == Evaluate(s)
           dash == Dashboard(s, r)
<1>1. r.level = WorstLevel(r.problems)
  BY ReportParts, Zenon
<1>2. \A p \in r.problems : p.level \in {WARNING, CRITICAL}
  BY ReportParts, CheckNames
<1> HIDE DEF r
<1>3. \A p : p \in dash.banner.problems <=> p \in r.problems /\ p.level = r.level
  BY PanelLevels DEF Headline
<1>4. \A n \in Panels : dash[n].level = BySubsystem(r, n)
  BY PanelLevels
<1> HIDE DEF dash
<1>5. ASSUME NEW p \in r.problems
      PROVE  OnDashboard(dash, p) <=> ~(p.subsystem = "system" /\ p.level < r.level)
  <2>1. p.level \in {1, 2} /\ r.level \in {0, 1, 2} /\ p.level <= r.level
    <3>1. WorstLevel(r.problems) \in {0, 1, 2} /\ p.level \in {1, 2} /\ p.level <= WorstLevel(r.problems)
      BY <1>2, WorstBounds, Zenon
    <3>2. QED
      BY <1>1, <3>1
  <2>2. p.level = r.level <=> ~(p.level < r.level)
    BY <2>1
  <2>3. CASE p.subsystem \in {"gnss", "chrony", "pps"}
    <3> DEFINE own == { q \in r.problems : q.subsystem = p.subsystem }
    <3>1. p.subsystem \in Panels
      BY <2>3 DEF Panels
    <3>2. dash[p.subsystem].level = WorstLevel(own)
      BY <1>4, <3>1, Zenon DEF BySubsystem
    <3>3. p \in own /\ \A q \in own : q.level \in {WARNING, CRITICAL}
      BY <1>2, Zenon
    <3> HIDE DEF own
    <3>4. WorstLevel(own) \in {0, 1, 2} /\ p.level <= WorstLevel(own)
      BY <3>3, WorstBounds, Zenon
    <3>5. WorstLevel(own) >= p.level
      BY <2>1, <3>4
    <3>6. dash[p.subsystem].level >= p.level
      BY <3>2, <3>5, Zenon
    <3>7. p.subsystem # "system"
      BY <2>3
    <3>8. QED
      BY <3>1, <3>6, <3>7, Zenon DEF OnDashboard
  <2>4. CASE p.subsystem = "service"
    <3>1. p.level = CRITICAL
      BY <2>4, ReportParts, CheckNames DEF r
    <3>2. p.level = r.level
      BY <2>1, <3>1, LevelsOrdered
    <3>3. QED
      BY <1>3, <2>4, <3>2, Zenon DEF OnDashboard
  <2>5. CASE p.subsystem = "system"
    <3>1. p.subsystem \notin Panels
      BY <2>5 DEF Panels
    <3>2. QED
      BY <1>3, <2>2, <2>5, <3>1, Zenon DEF OnDashboard
  <2>6. p.subsystem \in {"pps", "gnss", "chrony", "service", "system"}
    BY ReportParts, CheckNames DEF r
  <2>7. QED
    BY <2>3, <2>4, <2>5, <2>6
<1>6. Hidden(s, r) = { p \in r.problems : p.subsystem = "system" /\ p.level < r.level }
  BY <1>5 DEF Hidden, dash
<1>7. QED
  BY <1>6 DEF HidesOnlyTheHost, r

(* A subsystem's problems are those of its own check. *)
LEMMA OwnProblems ==
  ASSUME NEW s
  PROVE  /\ BySubsystem(Evaluate(s), "pps") = WorstLevel(CheckPps(s.pps))
         /\ BySubsystem(Evaluate(s), "gnss") = WorstLevel(CheckGnss(s.gnss))
         /\ BySubsystem(Evaluate(s), "chrony") = WorstLevel(CheckChrony(s.tracking))
PROOF
<1> DEFINE own(n) == { p \in Evaluate(s).problems : p.subsystem = n }
<1>1. \A n : BySubsystem(Evaluate(s), n) = WorstLevel(own(n))
  BY Zenon DEF BySubsystem
<1>2. own("pps") = CheckPps(s.pps)
  BY ReportParts, CheckNames
<1>3. own("gnss") = CheckGnss(s.gnss)
  BY ReportParts, CheckNames
<1>4. own("chrony") = CheckChrony(s.tracking)
  BY ReportParts, CheckNames
<1> HIDE DEF own
<1>5. QED
  BY <1>1, <1>2, <1>3, <1>4

LEMMA WorstOf ==
  ASSUME NEW P, \A p \in P : p.level \in {WARNING, CRITICAL}
  PROVE  /\ WorstLevel(P) > OK <=> P # {}
         /\ WorstLevel(P) = CRITICAL <=> \E p \in P : p.level = CRITICAL
BY SMT DEF WorstLevel, OK, WARNING, CRITICAL

LEMMA FirstWord ==
  ASSUME NEW w, NEW x, NEW y, NEW z
  PROVE  <<w>>[1] = w /\ <<w, x>>[1] = w /\ <<w, x, y, z>>[1] = w
OBVIOUS

LEMMA FixLabels ==
  /\ FIX_LABELS[0] = "no data" /\ FIX_LABELS[1] = "no fix"
  /\ FIX_LABELS[2] = "2D fix" /\ FIX_LABELS[3] = "3D fix"
PROOF
<1> DEFINE a == "no data"
           b == "no fix"
           c == "2D fix"
           d == "3D fix"
<1>1. FIX_LABELS = [m \in 0 .. 3 |-> <<a, b, c, d>>[m + 1]]
  BY Zenon DEF FIX_LABELS
<1> HIDE DEF a, b, c, d
<1>2. FIX_LABELS[0] = a /\ FIX_LABELS[1] = b /\ FIX_LABELS[2] = c /\ FIX_LABELS[3] = d
  BY <1>1, SMT
<1>3. QED
  BY <1>2, Zenon DEF a, b, c, d

LEMMA PpsWords ==
  ASSUME NEW pps
  PROVE  PpsSummary(pps)[1] \in Alarming <=> CheckPps(pps) # {}
PROOF
<1>1. CASE ~pps.present
  <2>1. PpsSummary(pps) = <<"device MISSING">>
    BY <1>1, Zenon DEF PpsSummary
  <2>2. CheckPps(pps) # {}
    BY <1>1, PpsProblems, Zenon
  <2>3. QED
    BY <2>1, <2>2, FirstWord, Zenon DEF Alarming
<1>2. CASE pps.present /\ pps.error
  <2>1. PpsSummary(pps) = <<"unreadable">>
    BY <1>2, Zenon DEF PpsSummary
  <2>2. CheckPps(pps) # {}
    BY <1>2, PpsProblems, Zenon
  <2>3. QED
    BY <2>1, <2>2, FirstWord, Zenon DEF Alarming
<1>3. CASE pps.present /\ ~pps.error /\ ~pps.pulsing
  <2>1. PpsSummary(pps) = <<"NO PULSE">>
    BY <1>3, Zenon DEF PpsSummary
  <2>2. CheckPps(pps) # {}
    BY <1>3, PpsProblems, Zenon
  <2>3. QED
    BY <2>1, <2>2, FirstWord, Zenon DEF Alarming
<1>4. CASE pps.present /\ ~pps.error /\ pps.pulsing
  <2>1. PpsSummary(pps) = <<"pulsing">>
    BY <1>4, Zenon DEF PpsSummary
  <2>2. CheckPps(pps) = {}
    BY <1>4, PpsProblems, Zenon
  <2>3. QED
    BY <2>1, <2>2, SMT DEF Alarming
<1>5. QED
  BY <1>1, <1>2, <1>3, <1>4, Zenon

LEMMA GnssWords ==
  ASSUME NEW gnss, gnss.fix_mode \in Nat
  PROVE  LET alarming == GnssSummary(gnss)[1] \in Alarming
         IN  /\ alarming => CheckGnss(gnss) # {}
             /\ (\E p \in CheckGnss(gnss) : p.level = CRITICAL) => alarming
PROOF
<1> DEFINE words == GnssSummary(gnss)
<1>1. CASE ~gnss.reachable
  <2>1. words = <<"gpsd UNREACHABLE">>
    BY <1>1, Zenon DEF GnssSummary
  <2>2. CheckGnss(gnss) # {}
    BY <1>1, GnssProblems, Zenon
  <2>3. words[1] \in Alarming
    BY <2>1, FirstWord, Zenon DEF Alarming
  <2>4. QED
    BY <2>2, <2>3
<1>2. CASE gnss.reachable
  <2>1. words = <<FixLabel(gnss), gnss.satellites_used>>
    BY <1>2, Zenon DEF GnssSummary
  <2>2. words[1] = IF gnss.fix_mode \in 0 .. 3 THEN FIX_LABELS[gnss.fix_mode] ELSE "mode"
    <3>1. words[1] = FixLabel(gnss)
      BY <2>1
    <3>2. QED
      BY <1>2, <3>1, Zenon DEF FixLabel
  <2> HIDE DEF words
  <2>3. CASE gnss.fix_mode < 2
    <3>1. gnss.fix_mode \in {0, 1}
      BY <2>3
    <3>2. words[1] \in {"no data", "no fix"}
      <4>1. 0 \in 0 .. 3 /\ 1 \in 0 .. 3
        OBVIOUS
      <4>2. QED
        BY <2>2, <3>1, <4>1, FixLabels, Zenon
    <3>3. CheckGnss(gnss) # {}
      BY <1>2, <2>3, GnssProblems, Zenon
    <3>4. words[1] \in Alarming
      BY <3>2, Zenon DEF Alarming
    <3>5. QED
      BY <3>3, <3>4, Zenon DEF words
  <2>4. CASE ~(gnss.fix_mode < 2) /\ gnss.fix_mode = 2
    <3>1. Problem(WARNING, "gnss", "2D fix only") \in CheckGnss(gnss)
      BY <1>2, <2>4, GnssProblems, Zenon
    <3>2. \A p \in CheckGnss(gnss) : \E m : p = Problem(WARNING, "gnss", m)
      BY <1>2, <2>4, GnssProblems, Zenon
    <3>3. \A p \in CheckGnss(gnss) : p.level # CRITICAL
      BY <3>2, ProblemFields, LevelsOrdered
    <3>4. QED
      BY <3>1, <3>3
  <2>5. CASE ~(gnss.fix_mode < 2) /\ gnss.fix_mode # 2
    <3>1. \A p \in CheckGnss(gnss) : \E m : p = Problem(WARNING, "gnss", m)
      BY <1>2, <2>5, GnssProblems, Zenon
    <3>2. \A p \in CheckGnss(gnss) : p.level # CRITICAL
      BY <3>1, ProblemFields, LevelsOrdered
    <3>3. words[1] \in {"3D fix", "mode"}
      <4>1. gnss.fix_mode \in 0 .. 3 => gnss.fix_mode = 3
        BY <2>5
      <4>2. QED
        BY <2>2, <4>1, FixLabels, Zenon
    <3>4. words[1] \notin Alarming
      BY <3>3, Zenon DEF Alarming
    <3>5. QED
      BY <3>2, <3>4, Zenon DEF words
  <2>6. QED
    BY <2>3, <2>4, <2>5
<1>3. QED
  BY <1>1, <1>2

LEMMA ChronyWords ==
  ASSUME NEW tracking
  PROVE  LET alarming == ChronySummary(tracking)[1] \in Alarming
         IN  /\ alarming => CheckChrony(tracking) # {}
             /\ (\E p \in CheckChrony(tracking) : p.level = CRITICAL) =>
                  alarming \/ Magnitude(tracking.offset) >= OFFSET_CRIT
PROOF
<1> DEFINE words == ChronySummary(tracking)
<1>1. CASE ~tracking.reachable
  <2>1. words = <<"chronyd NOT ANSWERING">>
    BY <1>1, Zenon DEF ChronySummary
  <2>2. CheckChrony(tracking) # {}
    BY <1>1, ChronyProblems, Zenon
  <2>3. words[1] \in Alarming
    BY <2>1, FirstWord, Zenon DEF Alarming
  <2>4. QED
    BY <2>2, <2>3
<1>2. CASE tracking.reachable /\ ~Synchronised(tracking)
  <2>1. words = <<"NOT SYNCHRONISED">>
    BY <1>2, Zenon DEF ChronySummary
  <2>2. CheckChrony(tracking) # {}
    BY <1>2, ChronyProblems, Zenon
  <2>3. words[1] \in Alarming
    BY <2>1, FirstWord, Zenon DEF Alarming
  <2>4. QED
    BY <2>2, <2>3
<1>3. CASE tracking.reachable /\ Synchronised(tracking)
  <2>1. words = <<"stratum", tracking.stratum, tracking.offset, tracking.leap_status>>
    BY <1>3, Zenon DEF ChronySummary
  <2>2. words[1] \notin Alarming
    <3>1. words[1] = "stratum"
      <4> HIDE DEF words
      <4>1. QED
        BY <2>1, SMT
    <3>2. QED
      BY <3>1, SMT DEF Alarming
  <2>3. ASSUME NEW p \in CheckChrony(tracking), p.level = CRITICAL
        PROVE  Magnitude(tracking.offset) >= OFFSET_CRIT
    <3>1. Magnitude(tracking.offset) >= OFFSET_CRIT \/ \E m : p = Problem(WARNING, "chrony", m)
      BY <1>3, ChronyProblems, Zenon
    <3>2. \A m : p # Problem(WARNING, "chrony", m)
      BY <2>3, ProblemFields, LevelsOrdered
    <3>3. QED
      BY <3>1, <3>2, Zenon
  <2>4. QED
    BY <2>2, <2>3
<1>4. QED
  BY <1>1, <1>2, <1>3, Zenon

(***************************************************************************)
(* A panel's words and its colour agree (format.py, evaluate.py) for every *)
(* snapshot: alarming words are never on a green panel, a red panel has    *)
(* alarming words or is chrony's with an offset beyond the threshold.      *)
(***************************************************************************)
THEOREM PanelsAgree ==
  ASSUME NEW s, IsSnapshot(s)
  PROVE  WordsMatchColours(s, Evaluate(s))
PROOF
<1> DEFINE r == Evaluate(s)
           dash == Dashboard(s, r)
<1>1. \A n \in Panels : dash[n].level = BySubsystem(r, n)
  BY PanelLevels
<1>2. {"gnss", "chrony", "pps"} \subseteq Panels
  BY DEF Panels
<1>3. /\ dash["gnss"].words = GnssSummary(s.gnss)
      /\ dash["chrony"].words = ChronySummary(s.tracking)
      /\ dash["pps"].words = PpsSummary(s.pps)
  BY PanelLevels, Zenon
<1>4. /\ dash["pps"].level = WorstLevel(CheckPps(s.pps))
      /\ dash["gnss"].level = WorstLevel(CheckGnss(s.gnss))
      /\ dash["chrony"].level = WorstLevel(CheckChrony(s.tracking))
  BY <1>1, <1>2, OwnProblems
<1> HIDE DEF dash
<1>5. /\ dash["pps"].words[1] \in Alarming => dash["pps"].level > OK
      /\ dash["pps"].level = CRITICAL => dash["pps"].words[1] \in Alarming
  <2>1. /\ WorstLevel(CheckPps(s.pps)) > OK <=> CheckPps(s.pps) # {}
        /\ WorstLevel(CheckPps(s.pps)) = CRITICAL <=> \E p \in CheckPps(s.pps) : p.level = CRITICAL
    BY CheckNames, WorstOf, Zenon
  <2>2. QED
    BY <1>3, <1>4, <2>1, PpsWords, Zenon
<1>6. /\ dash["gnss"].words[1] \in Alarming => dash["gnss"].level > OK
      /\ dash["gnss"].level = CRITICAL => dash["gnss"].words[1] \in Alarming
  <2>1. /\ WorstLevel(CheckGnss(s.gnss)) > OK <=> CheckGnss(s.gnss) # {}
        /\ WorstLevel(CheckGnss(s.gnss)) = CRITICAL <=> \E p \in CheckGnss(s.gnss) : p.level = CRITICAL
    BY CheckNames, WorstOf, Zenon
  <2>2. QED
    BY <1>3, <1>4, <2>1, GnssWords, Zenon DEF IsSnapshot
<1>7. /\ dash["chrony"].words[1] \in Alarming => dash["chrony"].level > OK
      /\ dash["chrony"].level = CRITICAL =>
           \/ dash["chrony"].words[1] \in Alarming
           \/ Magnitude(s.tracking.offset) >= OFFSET_CRIT
  <2>1. /\ WorstLevel(CheckChrony(s.tracking)) > OK <=> CheckChrony(s.tracking) # {}
        /\ WorstLevel(CheckChrony(s.tracking)) = CRITICAL
             <=> \E p \in CheckChrony(s.tracking) : p.level = CRITICAL
    BY CheckNames, WorstOf, Zenon
  <2>2. QED
    BY <1>3, <1>4, <2>1, ChronyWords, Zenon
<1>8. QED
  BY <1>5, <1>6, <1>7, Zenon DEF WordsMatchColours, dash

-----------------------------------------------------------------------------
(* What makes a snapshot critical.                                         *)

(* What makes each subsystem critical. *)
Bad(s) ==
  { n \in Subsystem :
      \/ n = "pps" /\ (~s.pps.present \/ s.pps.error \/ ~s.pps.pulsing)
      \/ n = "gnss" /\ (~s.gnss.reachable \/ s.gnss.fix_mode < 2)
      \/ n = "chrony" /\ \/ ~s.tracking.reachable \/ ~Synchronised(s.tracking)
                         \/ Magnitude(s.tracking.offset) >= OFFSET_CRIT
      \/ n = "service" /\ \E u \in Units : s.services[u] # "active"
      \/ n = "system" /\ s.system.temperature # NoReading /\ s.system.temperature >= TEMP_CRIT }

LEMMA CriticalPps ==
  ASSUME NEW pps
  PROVE  (\E p \in CheckPps(pps) : p.level = CRITICAL) <=> (~pps.present \/ pps.error \/ ~pps.pulsing)
PROOF
<1>1. CheckPps(pps) # {} <=> (~pps.present \/ pps.error \/ ~pps.pulsing)
  BY PpsProblems, Zenon
<1>2. \A p \in CheckPps(pps) : p.level = CRITICAL
  BY PpsShape, ProblemFields
<1>3. QED
  BY <1>1, <1>2, Zenon

LEMMA MildLevel == \A name, m : Problem(WARNING, name, m).level # CRITICAL
BY ProblemFields, LevelsOrdered

LEMMA CriticalGnss ==
  ASSUME NEW gnss
  PROVE  (\E p \in CheckGnss(gnss) : p.level = CRITICAL) <=> (~gnss.reachable \/ gnss.fix_mode < 2)
PROOF
<1>1. CASE ~gnss.reachable
  <2>1. Problem(CRITICAL, "gnss", "unreachable") \in CheckGnss(gnss)
    BY <1>1, GnssProblems, Zenon
  <2>2. QED
    BY <1>1, <2>1, ProblemFields
<1>2. CASE gnss.reachable /\ gnss.fix_mode < 2
  <2>1. Problem(CRITICAL, "gnss", "no fix") \in CheckGnss(gnss)
    BY <1>2, GnssProblems, Zenon
  <2>2. Problem(CRITICAL, "gnss", "no fix").level = CRITICAL
    <3>1. \A m : Problem(CRITICAL, "gnss", m).level = CRITICAL
      BY ProblemFields
    <3>2. QED
      BY <3>1, Zenon
  <2>3. QED
    BY <1>2, <2>1, <2>2, Zenon
<1>3. CASE gnss.reachable /\ ~(gnss.fix_mode < 2)
  <2>1. \A p \in CheckGnss(gnss) : \E m : p = Problem(WARNING, "gnss", m)
    BY <1>3, GnssProblems, Zenon
  <2>2. QED
    BY <1>3, <2>1, MildLevel
<1>4. QED
  BY <1>1, <1>2, <1>3, Zenon

LEMMA CriticalChrony ==
  ASSUME NEW tracking
  PROVE  (\E p \in CheckChrony(tracking) : p.level = CRITICAL) <=>
           \/ ~tracking.reachable \/ ~Synchronised(tracking)
           \/ Magnitude(tracking.offset) >= OFFSET_CRIT
PROOF
<1>1. CASE ~tracking.reachable \/ ~Synchronised(tracking)
  <2>1. \E m : Problem(CRITICAL, "chrony", m) \in CheckChrony(tracking)
    BY <1>1, ChronyProblems, Zenon
  <2>2. QED
    BY <1>1, <2>1, ProblemFields
<1>2. CASE tracking.reachable /\ Synchronised(tracking) /\ Magnitude(tracking.offset) >= OFFSET_CRIT
  <2>1. Problem(CRITICAL, "chrony", "offset") \in CheckChrony(tracking)
    BY <1>2, ChronyProblems, Zenon
  <2>2. QED
    BY <1>2, <2>1, ProblemFields
<1>3. CASE tracking.reachable /\ Synchronised(tracking) /\ ~(Magnitude(tracking.offset) >= OFFSET_CRIT)
  <2>1. \A p \in CheckChrony(tracking) : \E m : p = Problem(WARNING, "chrony", m)
    BY <1>3, ChronyProblems, Zenon
  <2>2. QED
    BY <1>3, <2>1, MildLevel
<1>4. QED
  BY <1>1, <1>2, <1>3, Zenon

LEMMA CriticalServices ==
  ASSUME NEW services
  PROVE  (\E p \in CheckServices(services) : p.level = CRITICAL) <=>
           \E u \in Units : services[u] # "active"
PROOF
<1>1. ASSUME NEW u \in Units, services[u] # "active"
      PROVE  Problem(CRITICAL, "service", u) \in CheckServices(services)
  BY <1>1, ServiceProblems, Zenon
<1>2. \A p \in CheckServices(services) : \E u \in Units : services[u] # "active"
  BY ServiceProblems, Zenon
<1>3. \A u : Problem(CRITICAL, "service", u).level = CRITICAL
  BY ProblemFields
<1>4. QED
  BY <1>1, <1>2, <1>3

LEMMA CriticalHost ==
  ASSUME NEW system
  PROVE  (\E p \in CheckHost(system) : p.level = CRITICAL) <=>
           system.temperature # NoReading /\ system.temperature >= TEMP_CRIT
PROOF
<1>1. CASE system.temperature # NoReading /\ system.temperature >= TEMP_CRIT
  <2>1. Problem(CRITICAL, "system", "temperature") \in CheckHost(system)
    BY <1>1, HostProblems, Zenon
  <2>2. QED
    BY <1>1, <2>1, ProblemFields
<1>2. CASE ~(system.temperature # NoReading /\ system.temperature >= TEMP_CRIT)
  <2>1. \A p \in CheckHost(system) : \E m : p = Problem(WARNING, "system", m)
    BY <1>2, HostProblems, Zenon
  <2>2. QED
    BY <1>2, <2>1, MildLevel
<1>3. QED
  BY <1>1, <1>2, Zenon

LEMMA CriticalIsBad ==
  ASSUME NEW s
  PROVE  CriticalSubsystems(Evaluate(s)) = Bad(s)
PROOF
<1> DEFINE r == Evaluate(s)
           critical(n) == \E p \in r.problems : p.level = CRITICAL /\ p.subsystem = n
<1>1. critical("pps") <=> \E p \in CheckPps(s.pps) : p.level = CRITICAL
  BY ReportParts, CheckNames
<1>2. critical("gnss") <=> \E p \in CheckGnss(s.gnss) : p.level = CRITICAL
  BY ReportParts, CheckNames
<1>3. critical("chrony") <=> \E p \in CheckChrony(s.tracking) : p.level = CRITICAL
  BY ReportParts, CheckNames
<1>4. critical("service") <=> \E p \in CheckServices(s.services) : p.level = CRITICAL
  BY ReportParts, CheckNames
<1>5. critical("system") <=> \E p \in CheckHost(s.system) : p.level = CRITICAL
  BY ReportParts, CheckNames
<1>6. \A p \in r.problems : p.subsystem \in Subsystem
  BY ReportParts, CheckNames DEF Subsystem
<1>7. CriticalSubsystems(r) = { n \in Subsystem : critical(n) }
  BY <1>6 DEF CriticalSubsystems
<1> HIDE DEF r, critical
<1>8. ASSUME NEW n \in Subsystem
      PROVE  critical(n) <=> n \in Bad(s)
  <2>1. CASE n = "pps"
    BY <1>1, <2>1, CriticalPps DEF Bad
  <2>2. CASE n = "gnss"
    BY <1>2, <2>2, CriticalGnss DEF Bad
  <2>3. CASE n = "chrony"
    BY <1>3, <2>3, CriticalChrony DEF Bad
  <2>4. CASE n = "service"
    BY <1>4, <2>4, CriticalServices DEF Bad
  <2>5. CASE n = "system"
    BY <1>5, <2>5, CriticalHost DEF Bad
  <2>6. QED
    BY <2>1, <2>2, <2>3, <2>4, <2>5 DEF Subsystem
<1>9. QED
  BY <1>7, <1>8 DEF r, Bad

LEMMA LevelSaysCritical ==
  ASSUME NEW s
  PROVE  /\ Evaluate(s).level \in {0, 1, 2}
         /\ Evaluate(s).level = CRITICAL <=> Bad(s) # {}
         /\ Evaluate(s).level = OK <=> Evaluate(s).problems = {}
         /\ \A p \in Evaluate(s).problems : p.level \in {1, 2} /\ p.level <= Evaluate(s).level
PROOF
<1> DEFINE P == Evaluate(s).problems
<1>1. \A p \in P : p.level \in {WARNING, CRITICAL}
  BY ReportParts, CheckNames
<1>2. Evaluate(s).level = WorstLevel(P)
  BY ReportParts
<1>3. Bad(s) # {} <=> \E p \in P : p.level = CRITICAL
  <2>1. CriticalSubsystems(Evaluate(s)) # {} <=> \E p \in P : p.level = CRITICAL
    BY DEF CriticalSubsystems
  <2>2. QED
    BY <2>1, CriticalIsBad
<1> HIDE DEF P
<1>4. /\ WorstLevel(P) \in {0, 1, 2}
      /\ \A p \in P : p.level \in {1, 2} /\ p.level <= WorstLevel(P)
  BY <1>1, WorstBounds
<1>5. WorstLevel(P) = CRITICAL <=> \E p \in P : p.level = CRITICAL
  BY <1>1, WorstOf
<1>6. WorstLevel(P) = OK <=> P = {}
  BY <1>1, <1>4, WorstOf, LevelsOrdered
<1>7. QED
  BY <1>2, <1>3, <1>4, <1>5, <1>6 DEF P

LEMMA Greatest ==
  ASSUME NEW n \in Nat, NEW T \in SUBSET (1 .. n), T # {}
  PROVE  \E x \in T : \A y \in T : y <= x
PROOF
<1> DEFINE U == { n - i : i \in T }
           R == OpToRel(<, Nat)
<1>1. \A i \in T : i \in Int /\ n - i \in Nat
  OBVIOUS
<1>2. U \subseteq Nat /\ U # {}
  BY <1>1
<1>3. IsWellFoundedOn(R, Nat)
  BY NatLessThanWellFounded
<1>4. \A x, y \in Nat : <<y, x>> \in R <=> y < x
  BY DEF OpToRel
<1> HIDE DEF R
<1>5. PICK u \in U : \A v \in U : ~(<<v, u>> \in R)
  <2> HIDE DEF U
  <2>1. QED
    BY <1>2, <1>3, WFMin
<1>6. \A v \in U : ~(v < u)
  BY <1>2, <1>4, <1>5
<1>7. PICK x \in T : u = n - x
  BY <1>5
<1>8. ASSUME NEW y \in T
      PROVE  y <= x
  <2>1. ~(n - y < n - x)
    BY <1>6, <1>7
  <2>2. QED
    BY <1>1, <2>1
<1>9. QED
  BY <1>8

(* The last report of a class is the one that counts. *)
LEMMA LatestIsLast ==
  ASSUME NEW reports \in Seq(Report), NEW class, Has(reports, class)
  PROVE  \E i \in DOMAIN reports :
           /\ reports[i].class = class /\ Latest(reports, class) = reports[i]
           /\ \A j \in DOMAIN reports : reports[j].class = class => j <= i
PROOF
<1> DEFINE T == { i \in DOMAIN reports : reports[i].class = class }
           last(i) == /\ reports[i].class = class
                      /\ \A j \in DOMAIN reports : reports[j].class = class => j <= i
<1>1. T \in SUBSET (1 .. Len(reports)) /\ Len(reports) \in Nat
  OBVIOUS
<1>2. T # {}
  BY DEF Has
<1>3. \E i \in DOMAIN reports : last(i)
  <2>1. PICK i \in T : \A j \in T : j <= i
    BY <1>1, <1>2, Greatest
  <2>2. QED
    BY <2>1
<1>4. last(CHOOSE i \in DOMAIN reports : last(i))
      /\ (CHOOSE i \in DOMAIN reports : last(i)) \in DOMAIN reports
  <2> HIDE DEF last
  <2>1. QED
    BY <1>3, Zenon
<1>5. Latest(reports, class) = reports[CHOOSE i \in DOMAIN reports : last(i)]
  BY Zenon DEF Latest
<1>6. QED
  BY <1>4, <1>5, Zenon

LEMMA ReportFields ==
  ASSUME NEW x \in Report
  PROVE  /\ x.class = "TPV" => x.mode \in 0 .. 3
         /\ x.class = "SKY" => Used(x) \in Int
PROOF
<1>1. CASE x \in [class : {"VERSION"}]
  BY <1>1
<1>2. CASE x \in [class : {"TPV"}, mode : 0 .. 3]
  BY <1>2
<1>3. CASE x \in [class : {"SKY"}, used : Int]
  BY <1>3 DEF Used
<1>4. CASE x \in [class : {"SKY"}, uSat : Int, used : Int]
  BY <1>4 DEF Used
<1>5. QED
  BY <1>1, <1>2, <1>3, <1>4 DEF Report

LEMMA GnssReading ==
  ASSUME NEW gpsd \in {Refused} \cup Seq(Report)
  PROVE  LET gnss == CollectGnss(gpsd)
         IN  /\ gnss.reachable \in BOOLEAN
             /\ gnss.fix_mode \in 0 .. 3 /\ gnss.satellites_used \in Int
             /\ ~gnss.reachable <=> gpsd \in {Refused, <<>>}
             /\ gnss.fix_mode < 2 <=> gpsd = Refused \/ ~HasFix(gpsd)
             /\ ~gnss.reachable => gnss.fix_mode = 0
PROOF
<1> DEFINE gnss == CollectGnss(gpsd)
<1>1. CASE gpsd = Refused
  BY <1>1 DEF CollectGnss, Unreachable
<1>2. CASE gpsd # Refused /\ gpsd = <<>>
  <2>1. gnss = Unreachable
    BY <1>2 DEF CollectGnss, Conclude
  <2>2. ~HasFix(gpsd)
    BY <1>2 DEF HasFix
  <2>3. gnss.reachable = FALSE /\ gnss.fix_mode = 0 /\ gnss.satellites_used = 0
    BY <2>1 DEF Unreachable
  <2> HIDE DEF gnss
  <2>4. gpsd \in {Refused, <<>>}
    BY <1>2, Zenon
  <2>5. gnss.fix_mode \in 0 .. 3 /\ gnss.satellites_used \in Int /\ gnss.fix_mode < 2
    BY <2>3
  <2>6. QED
    BY <2>2, <2>3, <2>4, <2>5, Zenon DEF gnss
<1>3. CASE gpsd # Refused /\ gpsd # <<>>
  <2>1. gpsd \in Seq(Report)
    BY <1>3
  <2>2. gnss = MergeReports(gpsd)
    BY <1>3 DEF CollectGnss, Conclude
  <2>3. /\ gnss.reachable = TRUE
        /\ gnss.fix_mode = IF Has(gpsd, "TPV") THEN Latest(gpsd, "TPV").mode ELSE 0
        /\ gnss.satellites_used = IF Has(gpsd, "SKY") THEN Used(Latest(gpsd, "SKY")) ELSE 0
    BY <2>2 DEF MergeReports
  <2>4. gnss.satellites_used \in Int
    <3>1. CASE Has(gpsd, "SKY")
      <4>1. PICK i \in DOMAIN gpsd : gpsd[i].class = "SKY" /\ Latest(gpsd, "SKY") = gpsd[i]
        BY <2>1, <3>1, LatestIsLast, Zenon
      <4>2. gpsd[i] \in Report
        BY <2>1
      <4>3. QED
        BY <2>3, <3>1, <4>1, <4>2, ReportFields
    <3>2. QED
      BY <2>3, <3>1
  <2>5. gnss.fix_mode \in 0 .. 3 /\ (gnss.fix_mode < 2 <=> ~HasFix(gpsd))
    <3>1. CASE Has(gpsd, "TPV")
      <4>1. PICK i \in DOMAIN gpsd :
              /\ gpsd[i].class = "TPV" /\ Latest(gpsd, "TPV") = gpsd[i]
              /\ \A j \in DOMAIN gpsd : gpsd[j].class = "TPV" => j <= i
        BY <2>1, <3>1, LatestIsLast, Zenon
      <4>2. gpsd[i] \in Report
        BY <2>1
      <4>3. gnss.fix_mode = gpsd[i].mode /\ gpsd[i].mode \in 0 .. 3
        BY <2>3, <3>1, <4>1, <4>2, ReportFields
      <4>4. HasFix(gpsd) <=> gpsd[i].mode \in {2, 3}
        <5>1. ASSUME NEW k \in DOMAIN gpsd, gpsd[k].class = "TPV",
                     \A j \in DOMAIN gpsd : gpsd[j].class = "TPV" => j <= k
              PROVE  k = i
          <6>1. i <= k /\ k <= i
            BY <4>1, <5>1
          <6>2. i \in Nat /\ k \in Nat
            BY <2>1
          <6>3. QED
            BY <6>1, <6>2
        <5>2. QED
          BY <4>1, <5>1, Zenon DEF HasFix
      <4>5. QED
        BY <4>3, <4>4
    <3>2. CASE ~Has(gpsd, "TPV")
      BY <2>3, <3>2 DEF Has, HasFix
    <3>3. QED
      BY <3>1, <3>2
  <2> HIDE DEF gnss
  <2>6. QED
    BY <1>3, <2>3, <2>4, <2>5 DEF gnss
<1>4. QED
  BY <1>1, <1>2, <1>3

-----------------------------------------------------------------------------
(* What the collectors make of an answer.                                  *)

LEMMA NoNumber == \A x \in Int : x \notin {NoReading, NoDevice, Unreadable, Garbled}
BY ReadingsAssumption

LEMMA PpsReading ==
  ASSUME NEW a \in {NoDevice, Unreadable, Garbled} \cup Int
  PROVE  LET pps == CollectPps(a)
         IN  /\ ~pps.present \/ pps.error => ~pps.pulsing
             /\ ~pps.present => pps.error
             /\ pps.pulsing <=> a \in (1 - SECOND) .. STALE_AFTER
             /\ pps.present /\ pps.error <=> a \in {Unreadable, Garbled}
PROOF
<1> DEFINE pps == CollectPps(a)
<1>1. /\ pps.present <=> a # NoDevice
      /\ pps.error <=> a \in {NoDevice, Unreadable, Garbled}
      /\ pps.pulsing <=> a \notin {NoDevice, Unreadable, Garbled} /\ Fresh(a)
  BY DEF CollectPps
<1>2. NoDevice \notin {Unreadable, Garbled}
  BY ReadingsAssumption
<1>3. a \in Int => (Fresh(a) <=> a \in (1 - SECOND) .. STALE_AFTER)
  BY ReadingsAssumption DEF Fresh
<1>4. a \in (1 - SECOND) .. STALE_AFTER => a \in Int
  BY ReadingsAssumption
<1>5. a \in Int <=> a \notin {NoDevice, Unreadable, Garbled}
  BY NoNumber
<1> HIDE DEF pps
<1>6. QED
  BY <1>1, <1>2, <1>3, <1>4, <1>5, Zenon DEF pps

LEMMA FarOff ==
  ASSUME NEW n \in Int
  PROVE  Magnitude(n) >= OFFSET_CRIT <=> n \notin (1 - OFFSET_CRIT) .. (OFFSET_CRIT - 1)
BY ReadingsAssumption DEF Magnitude

LEMMA ChronyReading ==
  ASSUME NEW t \in {Failed} \cup Tracking, NEW o \in {"listed", Failed}
  PROVE  LET tracking == CollectChrony(t, o)
             failed == Failed \in {t, o}
         IN  /\ tracking.reachable \in BOOLEAN
             /\ tracking.stratum \in Int /\ tracking.offset \in Int
             /\ tracking.reachable <=> ~failed
             /\ failed => tracking.leap_status = "" /\ tracking.offset = 0
             /\ ~failed => /\ tracking.leap_status = t.leap_status
                           /\ tracking.offset = t.offset /\ t \in Tracking
             /\ Synchronised(tracking) <=> ~failed /\ t.leap_status # "Not synchronised"
             /\ Synchronised(tracking) => tracking.stratum > 0
PROOF
<1> DEFINE tracking == CollectChrony(t, o)
           unsynced == "Not synchronised"
           none == ""
<1>1. CASE Failed \in {t, o}
  <2>1. tracking = [reachable |-> FALSE, leap_status |-> none, stratum |-> 0, offset |-> 0]
    <3>1. tracking = NotAnswering
      BY <1>1, Zenon DEF CollectChrony
    <3>2. QED
      BY <3>1, Zenon DEF NotAnswering
  <2> HIDE DEF tracking, none
  <2>2. /\ tracking.reachable = FALSE /\ tracking.leap_status = none
        /\ tracking.stratum = 0 /\ tracking.offset = 0
    BY <2>1
  <2>3. ~Synchronised(tracking)
    BY <2>2, Zenon DEF Synchronised
  <2>4. tracking.stratum \in Int /\ tracking.offset \in Int
    BY <2>2
  <2>5. QED
    BY <1>1, <2>2, <2>3, <2>4, Zenon DEF tracking, none
<1>2. CASE Failed \notin {t, o}
  <2>1. tracking = [reachable |-> TRUE, leap_status |-> t.leap_status,
                    stratum |-> t.stratum, offset |-> t.offset]
    BY <1>2 DEF CollectChrony
  <2> HIDE DEF tracking
  <2>2. /\ tracking.reachable = TRUE /\ tracking.leap_status = t.leap_status
        /\ tracking.stratum = t.stratum /\ tracking.offset = t.offset
    BY <2>1
  <2>3. t \in Tracking
    BY <1>2
  <2>4. t.stratum \in Nat /\ t.offset \in Int
    BY <2>3 DEF Tracking
  <2>5. t.leap_status # unsynced => t.stratum > 0
    BY <2>3, Zenon DEF Tracking
  <2>6. t.leap_status # none
    BY <2>3 DEF Tracking
  <2>7. t.stratum \in Int
    BY <2>4
  <2>8. Synchronised(tracking) <=> t.leap_status # unsynced
    BY <2>2, <2>6, Zenon DEF Synchronised
  <2>9. QED
    BY <1>2, <2>2, <2>3, <2>4, <2>5, <2>7, <2>8, Zenon DEF tracking
<1>3. QED
  BY <1>1, <1>2

LEMMA ServiceReading ==
  ASSUME NEW show, NEW u \in Units
  PROVE  /\ CollectServices(show)[u] = "active" <=> show[u] = "active"
         /\ show[u] \in ActiveState \cup {Failed} =>
              (CollectServices(show)[u] = "unknown" <=> show[u] = Failed)
PROOF
<1>1. CollectServices(show)[u] = IF show[u] = Failed THEN "unknown" ELSE show[u]
  BY DEF CollectServices
<1>2. Failed # "active"
  BY ReadingsAssumption
<1>3. "unknown" \notin ActiveState
  BY DEF ActiveState
<1>4. QED
  BY <1>1, <1>2, <1>3

LEMMA SystemReading ==
  ASSUME NEW h \in Host
  PROVE  LET system == CollectSystem(h)
         IN  /\ system.temperature = h.thermal /\ h.thermal \in Int \cup {NoReading}
             /\ system.flags = h.throttled
             /\ system.disk \in Int /\ system.mem \in Int
PROOF
<1>1. /\ h.thermal \in Int \cup {NoReading} /\ h.disk \in Int
      /\ h.memory \in [total : Nat, available : Int]
  BY DEF Host
<1>2. MemUsed(h.memory) \in Int
  <2>1. h.memory.total \in Nat /\ h.memory.available \in Int
    BY <1>1
  <2>2. 100 * (h.memory.total - h.memory.available) \in Int
    BY <2>1
  <2>3. \A a \in Int, b \in Nat \ {0} : a \div b \in Int
    OBVIOUS
  <2>4. QED
    BY <2>1, <2>2, <2>3 DEF MemUsed
<1>3. QED
  BY <1>1, <1>2 DEF CollectSystem

LEMMA HostFields ==
  ASSUME NEW h \in Host
  PROVE  /\ h.pps \in {NoDevice, Unreadable, Garbled} \cup Int
         /\ h.gpsd \in {Refused} \cup Seq(Report)
         /\ h.tracking \in {Failed} \cup Tracking /\ h.sources \in {"listed", Failed}
         /\ h.show \in [Units -> ActiveState \cup {Failed}]
         /\ h.updates \in {Failed} \cup Checks
BY DEF Host

LEMMA SnapshotFields ==
  ASSUME NEW h
  PROVE  /\ Gather(h).pps = CollectPps(h.pps)
         /\ Gather(h).gnss = CollectGnss(h.gpsd)
         /\ Gather(h).tracking = CollectChrony(h.tracking, h.sources)
         /\ Gather(h).services = CollectServices(h.show)
         /\ Gather(h).system = CollectSystem(h)
         /\ Gather(h).updates = CollectUpdates(h.updates)
BY DEF Gather

LEMMA GatherMakesASnapshot ==
  ASSUME NEW h \in Host
  PROVE  IsSnapshot(Gather(h))
PROOF
<1>1. Gather(h).gnss.fix_mode \in Nat /\ Gather(h).gnss.satellites_used \in Int
  <2>1. CollectGnss(h.gpsd).fix_mode \in 0 .. 3 /\ CollectGnss(h.gpsd).satellites_used \in Int
    BY HostFields, GnssReading, Zenon
  <2>2. QED
    BY <2>1, SnapshotFields
<1>2. Gather(h).tracking.stratum \in Int /\ Gather(h).tracking.offset \in Int
  BY HostFields, SnapshotFields, ChronyReading, Zenon
<1>3. /\ Gather(h).system.temperature \in Int \cup {NoReading}
      /\ Gather(h).system.disk \in Int /\ Gather(h).system.mem \in Int
  BY SnapshotFields, SystemReading
<1>4. QED
  BY <1>1, <1>2, <1>3, Zenon DEF IsSnapshot

(* What is critical in a snapshot is what is gone from the host. *)
LEMMA BadIsGone ==
  ASSUME NEW h \in Host
  PROVE  Bad(Gather(h)) = Gone(h)
PROOF
<1> DEFINE s == Gather(h)
<1>1. (~s.pps.present \/ s.pps.error \/ ~s.pps.pulsing) <=> h.pps \notin (1 - SECOND) .. STALE_AFTER
  BY HostFields, SnapshotFields, PpsReading, Zenon
<1>2. (~s.gnss.reachable \/ s.gnss.fix_mode < 2) <=> (h.gpsd = Refused \/ ~HasFix(h.gpsd))
  <2> DEFINE gnss == CollectGnss(h.gpsd)
  <2>1. gnss.fix_mode < 2 <=> h.gpsd = Refused \/ ~HasFix(h.gpsd)
    BY HostFields, GnssReading, Zenon
  <2>2. ~gnss.reachable => gnss.fix_mode = 0
    BY HostFields, GnssReading, Zenon
  <2>3. s.gnss = gnss
    BY SnapshotFields
  <2>4. 0 < 2
    OBVIOUS
  <2> HIDE DEF gnss, s
  <2>5. QED
    BY <2>1, <2>2, <2>3, <2>4, Zenon
<1>3. (\/ ~s.tracking.reachable \/ ~Synchronised(s.tracking)
       \/ Magnitude(s.tracking.offset) >= OFFSET_CRIT) <=>
      (\/ Failed \in {h.tracking, h.sources}
       \/ h.tracking.leap_status = "Not synchronised"
       \/ h.tracking.offset \notin (1 - OFFSET_CRIT) .. (OFFSET_CRIT - 1))
  <2> DEFINE tracking == CollectChrony(h.tracking, h.sources)
             failed == Failed \in {h.tracking, h.sources}
  <2>1. /\ tracking.reachable <=> ~failed
        /\ tracking.offset \in Int
        /\ ~failed => tracking.offset = h.tracking.offset
        /\ Synchronised(tracking) <=> ~failed /\ h.tracking.leap_status # "Not synchronised"
    BY HostFields, ChronyReading, Zenon
  <2>2. s.tracking = tracking
    BY SnapshotFields
  <2> HIDE DEF tracking, failed, s
  <2>3. Magnitude(tracking.offset) >= OFFSET_CRIT
          <=> tracking.offset \notin (1 - OFFSET_CRIT) .. (OFFSET_CRIT - 1)
    BY <2>1, FarOff
  <2>4. QED
    BY <2>1, <2>2, <2>3, Zenon DEF failed
<1>4. (\E u \in Units : s.services[u] # "active") <=> (\E u \in Units : h.show[u] # "active")
  BY SnapshotFields, ServiceReading
<1>5. s.system.temperature = h.thermal
  BY SnapshotFields, SystemReading
<1> HIDE DEF s
<1>6. ASSUME NEW n \in Subsystem
      PROVE  n \in Bad(s) <=> n \in Gone(h)
  <2>1. CASE n = "pps"
    BY <1>1, <2>1, Zenon DEF Bad, Gone
  <2>2. CASE n = "gnss"
    BY <1>2, <2>2, Zenon DEF Bad, Gone
  <2>3. CASE n = "chrony"
    BY <1>3, <2>3, Zenon DEF Bad, Gone
  <2>4. CASE n = "service"
    BY <1>4, <2>4, Zenon DEF Bad, Gone
  <2>5. CASE n = "system"
    BY <1>5, <2>5, Zenon DEF Bad, Gone
  <2>6. QED
    BY <2>1, <2>2, <2>3, <2>4, <2>5 DEF Subsystem
<1>7. Bad(s) \subseteq Subsystem /\ Gone(h) \subseteq Subsystem
  BY DEF Bad, Gone
<1>8. QED
  BY <1>6, <1>7 DEF s

(***************************************************************************)
(* For every answer of the host and every threshold, evaluate.py finds     *)
(* critical exactly what Gone lists: the critical row of docs/alerts.md,   *)
(* with any monitored unit for gpsd and chronyd, and beyond it an offset   *)
(* or a temperature past its critical threshold.                           *)
(***************************************************************************)
THEOREM AlertTable ==
  ASSUME NEW h \in Host
  PROVE  MatchesAlertTable(h)
PROOF
<1> DEFINE s == Gather(h)
           r == Evaluate(s)
<1>1. CriticalSubsystems(r) = Gone(h)
  BY CriticalIsBad, BadIsGone
<1>2. \A p, q \in r.problems :
        (/\ p.level = CRITICAL /\ q.level = CRITICAL
         /\ p.subsystem = q.subsystem /\ p.subsystem # "service") => p = q
  BY OneCriticalMessage
<1>3. r.level = CRITICAL <=> Gone(h) # {}
  BY LevelSaysCritical, BadIsGone
<1>4. (r.level = OK) <=> (Headline(r) = {})
  <2>1. r.level = OK <=> r.problems = {}
    BY LevelSaysCritical
  <2>2. r.level = WorstLevel(r.problems)
    BY ReportParts
  <2>3. \A p \in r.problems : p.level \in {WARNING, CRITICAL}
    BY ReportParts, CheckNames
  <2> HIDE DEF r
  <2>4. r.problems # {} => \E p \in r.problems : p.level = r.level
    BY <2>2, <2>3, SMT DEF WorstLevel
  <2>5. QED
    BY <2>1, <2>4 DEF Headline
<1> HIDE DEF r, s
<1>5. Gone(h) # {} => { p.subsystem : p \in Headline(r) } = Gone(h)
  <2>1. r.level = CRITICAL => { p.subsystem : p \in Headline(r) } = CriticalSubsystems(r)
    BY DEF Headline, CriticalSubsystems
  <2>2. QED
    BY <1>1, <1>3, <2>1
<1>6. QED
  BY <1>1, <1>2, <1>3, <1>4, <1>5, Zenon DEF MatchesAlertTable, r, s

-----------------------------------------------------------------------------
(* The metrics.                                                            *)

LEMMA MetricFields ==
  ASSUME NEW s, NEW r
  PROVE  LET m == SnapshotToMetrics(s, r)
         IN  /\ m.health_level = r.level
             /\ m.gpsd_reachable = Bit(s.gnss.reachable)
             /\ m.gnss_fix_mode = s.gnss.fix_mode
             /\ m.pps_present = Bit(s.pps.present)
             /\ m.pps_pulsing = Bit(s.pps.pulsing)
             /\ m.chrony_synchronised = Bit(Synchronised(s.tracking))
             /\ m.chrony_stratum = s.tracking.stratum
             /\ m.chrony_system_offset_seconds = s.tracking.offset
             /\ m.soc_temperature_celsius = s.system.temperature
             /\ m.service_active = ServiceActive(s.services)
             /\ m.updates = UpdatesMetrics(s.updates)
BY DEF SnapshotToMetrics

LEMMA MessageFields ==
  ASSUME NEW s, NEW r, r.level \in {0, 1, 2}
  PROVE  LET m == SnapshotToMetrics(s, r)
         IN  /\ BuildMessage(m, r.level).body = m
             /\ BuildMessage(m, r.level).severity = 2 <=> r.level = CRITICAL
PROOF
<1> DEFINE m == SnapshotToMetrics(s, r)
<1>1. [m EXCEPT !.health_level = r.level] = m
  BY DEF SnapshotToMetrics
<1>2. SEVERITY_BY_LEVEL[r.level] = 2 <=> r.level = CRITICAL
  BY SMT DEF SEVERITY_BY_LEVEL, Level, OK, WARNING, CRITICAL
<1> HIDE DEF m
<1>3. QED
  BY <1>1, <1>2 DEF BuildMessage, m

LEMMA BitIs ==
  ASSUME NEW c
  PROVE  Bit(c) \in {0, 1} /\ (Bit(c) = 0 <=> ~c) /\ (Bit(c) = 1 <=> c)
BY DEF Bit

LEMMA Inactive ==
  ASSUME NEW services
  PROVE  (\E u \in Units : ServiceActive(services)[u] = 0) <=> \E u \in Units : services[u] # "active"
PROOF
<1>1. ASSUME NEW u \in Units
      PROVE  ServiceActive(services)[u] = 0 <=> services[u] # "active"
  BY SMT DEF ServiceActive, Bit
<1>2. QED
  BY <1>1

(***************************************************************************)
(* A critical level and its reason are in the metrics (model.py), and in   *)
(* the severity of the relay's message, for every answer of the host.      *)
(***************************************************************************)
THEOREM CriticalIsInMetrics ==
  ASSUME NEW h \in Host
  PROVE  ShowsInMetrics(Gather(h))
PROOF
<1> DEFINE s == Gather(h)
           r == Evaluate(s)
           m == SnapshotToMetrics(s, r)
           message == BuildMessage(m, r.level)
           critical == \/ m.pps_pulsing = 0
                       \/ m.gnss_fix_mode < 2
                       \/ m.chrony_synchronised = 0
                       \/ Magnitude(m.chrony_system_offset_seconds) >= OFFSET_CRIT
                       \/ /\ m.soc_temperature_celsius # NoReading
                          /\ m.soc_temperature_celsius >= TEMP_CRIT
                       \/ \E u \in Units : m.service_active[u] = 0
<1>1. message.body = m /\ (message.severity = 2 <=> r.level = CRITICAL)
  BY LevelSaysCritical, MessageFields
<1>2. /\ m.health_level = r.level
      /\ m.gnss_fix_mode = s.gnss.fix_mode
      /\ m.pps_pulsing = Bit(s.pps.pulsing)
      /\ m.chrony_synchronised = Bit(Synchronised(s.tracking))
      /\ m.chrony_system_offset_seconds = s.tracking.offset
      /\ m.soc_temperature_celsius = s.system.temperature
      /\ m.service_active = ServiceActive(s.services)
  BY MetricFields, Zenon
<1>3. r.level = CRITICAL <=> Bad(s) # {}
  BY LevelSaysCritical
<1>4. ~s.pps.present \/ s.pps.error => ~s.pps.pulsing
  BY HostFields, SnapshotFields, PpsReading, Zenon
<1>5. ~s.gnss.reachable => s.gnss.fix_mode < 2
  <2>1. ~s.gnss.reachable => s.gnss.fix_mode = 0
    BY HostFields, SnapshotFields, GnssReading, Zenon
  <2>2. 0 < 2
    OBVIOUS
  <2>3. QED
    BY <2>1, <2>2, Zenon
<1>6. ~s.tracking.reachable => ~Synchronised(s.tracking)
  BY Zenon DEF Synchronised
<1>7. m.pps_pulsing = 0 <=> ~s.pps.pulsing
  BY <1>2, BitIs
<1>8. m.chrony_synchronised = 0 <=> ~Synchronised(s.tracking)
  BY <1>2, BitIs
<1>9. (\E u \in Units : m.service_active[u] = 0) <=> \E u \in Units : s.services[u] # "active"
  BY <1>2, Inactive
<1> HIDE DEF s, r, m, message
<1>10. /\ "pps" \in Bad(s) <=> m.pps_pulsing = 0
       /\ "gnss" \in Bad(s) <=> m.gnss_fix_mode < 2
       /\ "chrony" \in Bad(s) <=>
            \/ m.chrony_synchronised = 0
            \/ Magnitude(m.chrony_system_offset_seconds) >= OFFSET_CRIT
       /\ "service" \in Bad(s) <=> \E u \in Units : m.service_active[u] = 0
       /\ "system" \in Bad(s) <=>
            /\ m.soc_temperature_celsius # NoReading
            /\ m.soc_temperature_celsius >= TEMP_CRIT
  BY <1>2, <1>4, <1>5, <1>6, <1>7, <1>8, <1>9 DEF Bad, Subsystem
<1>11. Bad(s) \subseteq {"pps", "gnss", "chrony", "service", "system"}
  BY DEF Bad, Subsystem
<1>12. Bad(s) # {} <=> critical
  <2> HIDE DEF critical
  <2>1. Bad(s) # {} <=> \/ "pps" \in Bad(s) \/ "gnss" \in Bad(s) \/ "chrony" \in Bad(s)
                        \/ "service" \in Bad(s) \/ "system" \in Bad(s)
    BY <1>11
  <2>2. QED
    BY <1>10, <2>1, Zenon DEF critical
<1>13. (m.health_level = CRITICAL <=> critical) /\ (message.severity = 2 <=> critical)
  BY <1>1, <1>2, <1>3, <1>12, Zenon
<1>14. QED
  BY <1>1, <1>13, Zenon DEF ShowsInMetrics, s, r, m, message

(* A problem of any level is a level above OK. *)
LEMMA AnyProblem ==
  ASSUME NEW s, NEW p \in Evaluate(s).problems
  PROVE  Evaluate(s).level \in {1, 2}
PROOF
<1>1. Evaluate(s).level # OK /\ Evaluate(s).level \in {0, 1, 2}
  BY LevelSaysCritical
<1>2. QED
  BY <1>1, LevelsOrdered

(* The readings a rule looks at, each with the level the unit has then. *)
LEMMA WhatRulesSee ==
  ASSUME NEW h \in Host
  PROVE  LET s == Gather(h)
             level == Evaluate(s).level
             m == SnapshotToMetrics(s, Evaluate(s))
         IN  /\ level \in {0, 1, 2} /\ m.health_level = level
             /\ m.pps_pulsing \in {0, 1} /\ m.chrony_synchronised \in {0, 1}
             /\ m.gnss_fix_mode \in 0 .. 3 /\ m.chrony_stratum \in Int
             /\ m.pps_pulsing = 0 => level = 2
             /\ m.chrony_synchronised = 0 => level = 2
             /\ m.gnss_fix_mode < 2 => level = 2
             /\ m.gnss_fix_mode = 2 => level \in {1, 2}
             /\ m.chrony_stratum < 1 => m.chrony_synchronised = 0
             /\ m.chrony_stratum > 1 => level \in {1, 2}
             /\ Magnitude(m.chrony_system_offset_seconds) > RULE_OFFSET => level \in {1, 2}
             /\ m.soc_temperature_celsius # NoReading /\ m.soc_temperature_celsius > RULE_TEMP =>
                  level \in {1, 2}
PROOF
<1> DEFINE s == Gather(h)
           r == Evaluate(s)
           m == SnapshotToMetrics(s, r)
<1>1. /\ m.health_level = r.level
      /\ m.gnss_fix_mode = s.gnss.fix_mode
      /\ m.pps_pulsing = Bit(s.pps.pulsing)
      /\ m.chrony_synchronised = Bit(Synchronised(s.tracking))
      /\ m.chrony_stratum = s.tracking.stratum
      /\ m.chrony_system_offset_seconds = s.tracking.offset
      /\ m.soc_temperature_celsius = s.system.temperature
  BY MetricFields, Zenon
<1>2. /\ r.level \in {0, 1, 2} /\ (r.level = 2 <=> Bad(s) # {})
      /\ \A p \in r.problems : r.level \in {1, 2}
  BY LevelSaysCritical, AnyProblem, LevelsOrdered
<1>3. s.gnss.fix_mode \in 0 .. 3 /\ (~s.gnss.reachable => s.gnss.fix_mode = 0)
  BY HostFields, SnapshotFields, GnssReading, Zenon
<1>4. /\ s.tracking.stratum \in Int /\ s.tracking.offset \in Int
      /\ Synchronised(s.tracking) => s.tracking.stratum > 0
  BY HostFields, SnapshotFields, ChronyReading, Zenon
<1>5. s.system.temperature \in Int \cup {NoReading}
  BY SnapshotFields, SystemReading
<1>6. /\ "pps" \in Bad(s) <=> ~s.pps.present \/ s.pps.error \/ ~s.pps.pulsing
      /\ "gnss" \in Bad(s) <=> ~s.gnss.reachable \/ s.gnss.fix_mode < 2
      /\ ~Synchronised(s.tracking) => "chrony" \in Bad(s)
  BY DEF Bad, Subsystem
<1>7. m.pps_pulsing \in {0, 1} /\ (m.pps_pulsing = 0 => r.level = 2)
  BY <1>1, <1>2, <1>6, BitIs
<1>8. m.chrony_synchronised \in {0, 1} /\ (m.chrony_synchronised = 0 => r.level = 2)
  BY <1>1, <1>2, <1>6, BitIs
<1>9. m.gnss_fix_mode < 2 => r.level = 2
  BY <1>1, <1>2, <1>6
<1>10. m.gnss_fix_mode = 2 => r.level \in {1, 2}
  <2>1. ASSUME s.gnss.fix_mode = 2
        PROVE  r.level \in {1, 2}
    <3>1. s.gnss.reachable /\ ~(s.gnss.fix_mode < 2)
      BY <1>3, <2>1
    <3>2. \E p : p \in CheckGnss(s.gnss)
      BY <2>1, <3>1, GnssProblems, Zenon
    <3>3. \E p : p \in r.problems
      BY <3>2, ReportParts, Zenon
    <3>4. QED
      BY <1>2, <3>3
  <2>2. QED
    BY <1>1, <2>1
<1>11. m.chrony_stratum < 1 => m.chrony_synchronised = 0
  BY <1>1, <1>4, BitIs
<1> DEFINE fine == s.tracking.reachable /\ Synchronised(s.tracking)
<1>12. ~fine => r.level \in {1, 2}
  BY <1>2, <1>6, Zenon DEF Synchronised
<1>13. m.chrony_stratum > 1 => r.level \in {1, 2}
  <2>1. ASSUME fine, s.tracking.stratum > 1
        PROVE  \E p : p \in CheckChrony(s.tracking)
    BY <2>1, ChronyProblems, Zenon
  <2>2. ASSUME fine, s.tracking.stratum > 1
        PROVE  \E p : p \in r.problems
    BY <2>1, <2>2, ReportParts, Zenon
  <2>3. QED
    BY <1>1, <1>2, <1>12, <2>2
<1>14. Magnitude(m.chrony_system_offset_seconds) > RULE_OFFSET => r.level \in {1, 2}
  <2>1. Magnitude(s.tracking.offset) > RULE_OFFSET => Magnitude(s.tracking.offset) >= OFFSET_WARN
    BY <1>4, ReadingsAssumption, RulesAssumption DEF Magnitude
  <2>2. ASSUME fine, Magnitude(s.tracking.offset) >= OFFSET_WARN
        PROVE  \E p : p \in CheckChrony(s.tracking)
    BY <2>2, ChronyProblems, Zenon
  <2>3. ASSUME fine, Magnitude(s.tracking.offset) >= OFFSET_WARN
        PROVE  \E p : p \in r.problems
    BY <2>2, <2>3, ReportParts, Zenon
  <2>4. QED
    BY <1>1, <1>2, <1>12, <2>1, <2>3
<1>15. m.soc_temperature_celsius # NoReading /\ m.soc_temperature_celsius > RULE_TEMP =>
         r.level \in {1, 2}
  <2>1. ASSUME s.system.temperature # NoReading, s.system.temperature > RULE_TEMP
        PROVE  s.system.temperature >= TEMP_WARN
    BY <1>5, <2>1, ReadingsAssumption, RulesAssumption
  <2>2. ASSUME s.system.temperature # NoReading, s.system.temperature >= TEMP_WARN
        PROVE  \E p : p \in CheckHost(s.system)
    BY <2>2, HostProblems, Zenon
  <2>3. ASSUME s.system.temperature # NoReading, s.system.temperature >= TEMP_WARN
        PROVE  \E p : p \in r.problems
    BY <2>2, <2>3, ReportParts, Zenon
  <2>4. QED
    BY <1>1, <1>2, <2>1, <2>3
<1> HIDE DEF s, r, m
<1>16. QED
  BY <1>1, <1>2, <1>3, <1>4, <1>7, <1>8, <1>9, <1>10, <1>11, <1>13, <1>14, <1>15 DEF s, r, m

LEMMA UpdatesReading ==
  ASSUME NEW a \in {Failed} \cup Checks
  PROVE  LET upd == CollectUpdates(a)
             u == UpdatesMetrics(upd)
         IN  /\ u.security_updates_pending \in Nat /\ u.reboot_required \in {0, 1}
             /\ u.updates_check_age \in Int \cup {NoReading}
             /\ u.security_updates_pending > 0 \/ u.reboot_required = 1 => UpdatesText(upd) # {}
             /\ upd.age = NoReading <=> a = Failed
             /\ upd.age = NoReading => upd.pending = 0
PROOF
<1> DEFINE upd == CollectUpdates(a)
           u == UpdatesMetrics(upd)
<1>1. /\ u.security_updates_pending = upd.security /\ u.updates_check_age = upd.age
      /\ u.reboot_required = Bit(upd.reboot_required)
  BY DEF UpdatesMetrics
<1>2. CASE a = Failed
  <2>1. upd = NotChecked
    BY <1>2 DEF CollectUpdates
  <2>2. /\ upd.age = NoReading /\ upd.pending = 0 /\ upd.security = 0
        /\ upd.reboot_required = FALSE
    BY <2>1 DEF NotChecked
  <2> HIDE DEF upd, u
  <2>3. u.reboot_required = 0
    BY <1>1, <2>2, BitIs
  <2>4. QED
    BY <1>1, <1>2, <2>2, <2>3 DEF upd, u
<1>3. CASE a # Failed
  <2>1. upd = a /\ a \in Checks
    BY <1>3 DEF CollectUpdates
  <2>2. /\ upd.age \in Int /\ upd.pending \in Nat /\ upd.security \in Nat
        /\ upd.security <= upd.pending
    <3> HIDE DEF upd
    <3>1. QED
      BY <2>1 DEF Checks
  <2>3. upd.age # NoReading
    BY <2>2, NoNumber
  <2> HIDE DEF upd, u
  <2>4. upd.security > 0 => upd.pending > 0
    BY <2>2
  <2>5. upd.pending > 0 \/ upd.reboot_required => UpdatesText(upd) # {}
    BY <2>3, Zenon DEF UpdatesText
  <2>6. u.reboot_required \in {0, 1} /\ (u.reboot_required = 1 <=> upd.reboot_required)
    BY <1>1, BitIs
  <2>7. u.security_updates_pending > 0 \/ u.reboot_required = 1 => UpdatesText(upd) # {}
    BY <1>1, <2>4, <2>5, <2>6, Zenon
  <2>8. QED
    BY <1>1, <1>3, <2>2, <2>3, <2>6, <2>7 DEF upd, u
<1>4. QED
  BY <1>2, <1>3

(* The rules that fire and the colours of the stats, value by value. *)
LEMMA RulesThatFire ==
  ASSUME NEW m
  PROVE  /\ "Critical" \in Fires(m) <=> m.health_level >= 2
         /\ "Warning" \in Fires(m) <=> m.health_level = 1
         /\ "PpsSilent" \in Fires(m) <=> m.pps_pulsing = 0 /\ m.pps_present = 1
         /\ "NoFix" \in Fires(m) <=> m.gnss_fix_mode < 3 /\ m.gpsd_reachable = 1
         /\ "NotStratum1" \in Fires(m) <=> m.chrony_stratum # 1 /\ m.chrony_synchronised = 1
         /\ "Offset" \in Fires(m) <=> Magnitude(m.chrony_system_offset_seconds) > RULE_OFFSET
         /\ "Hot" \in Fires(m) <=>
              m.soc_temperature_celsius # NoReading /\ m.soc_temperature_celsius > RULE_TEMP
         /\ "SecurityUpdates" \in Fires(m) <=> m.updates.security_updates_pending > 0
         /\ "RebootRequired" \in Fires(m) <=> m.updates.reboot_required = 1
         /\ "UpdateCheckStale" \in Fires(m) <=>
              m.updates.updates_check_age # NoReading /\ m.updates.updates_check_age > 3
PROOF
<1>1. \A r : r \in Fires(m) <=> r \in Rule /\ Expr(r, m)
  BY DEF Fires
<1>2. QED
  BY <1>1, SMT DEF Expr, Rule

LEMMA StatColours ==
  ASSUME NEW m, m.health_level \in {0, 1, 2}, m.chrony_stratum \in Int, m.gnss_fix_mode \in 0 .. 3
  PROVE  /\ Stats(m).health = m.health_level
         /\ Stats(m).stratum = IF m.chrony_stratum < 1 THEN 2 ELSE IF m.chrony_stratum > 1 THEN 1 ELSE 0
         /\ Stats(m).fix = IF m.gnss_fix_mode < 2 THEN 2 ELSE IF m.gnss_fix_mode = 2 THEN 1 ELSE 0
         /\ Stats(m).pps = IF m.pps_pulsing >= 1 THEN 0 ELSE 2
         /\ Stats(m).synchronised = IF m.chrony_synchronised >= 1 THEN 0 ELSE 2
PROOF
<1>1. /\ Stats(m).health = Steps(m.health_level, GREEN, 1, AMBER, 2, RED)
      /\ Stats(m).stratum = Steps(m.chrony_stratum, RED, 1, GREEN, 2, AMBER)
      /\ Stats(m).fix = Steps(m.gnss_fix_mode, RED, 2, AMBER, 3, GREEN)
      /\ Stats(m).pps = IF m.pps_pulsing >= 1 THEN GREEN ELSE RED
      /\ Stats(m).synchronised = IF m.chrony_synchronised >= 1 THEN GREEN ELSE RED
  BY DEF Stats
<1>2. Steps(m.health_level, GREEN, 1, AMBER, 2, RED) = m.health_level
  BY DEF Steps, GREEN, AMBER, RED
<1>3. Steps(m.chrony_stratum, RED, 1, GREEN, 2, AMBER) =
        IF m.chrony_stratum < 1 THEN 2 ELSE IF m.chrony_stratum > 1 THEN 1 ELSE 0
  BY DEF Steps, GREEN, AMBER, RED
<1>4. Steps(m.gnss_fix_mode, RED, 2, AMBER, 3, GREEN) =
        IF m.gnss_fix_mode < 2 THEN 2 ELSE IF m.gnss_fix_mode = 2 THEN 1 ELSE 0
  BY DEF Steps, GREEN, AMBER, RED
<1>5. QED
  BY <1>1, <1>2, <1>3, <1>4 DEF GREEN, RED

LEMMA RuleSeverity ==
  \A r \in Rule : Severity[r] = "critical" <=> r \in {"Critical", "PpsSilent"}
BY DEF Severity

(***************************************************************************)
(* The rules (rules.yml) and the Grafana dashboard follow the unit's own   *)
(* level, for every answer of the host and every threshold of the unit     *)
(* that is no later than theirs.                                           *)
(***************************************************************************)
THEOREM RulesFollowTheLevel ==
  ASSUME NEW h \in Host
  PROVE  RulesFollow(Gather(h), Evaluate(Gather(h)))
PROOF
<1> DEFINE s == Gather(h)
           r == Evaluate(s)
           m == SnapshotToMetrics(s, r)
           fires == Fires(m)
           stats == Stats(m)
           updates == UpdateStats(m.updates)
<1>1. /\ r.level \in {0, 1, 2} /\ m.health_level = r.level
      /\ m.pps_pulsing \in {0, 1} /\ m.chrony_synchronised \in {0, 1}
      /\ m.gnss_fix_mode \in 0 .. 3 /\ m.chrony_stratum \in Int
      /\ m.pps_pulsing = 0 => r.level = 2
      /\ m.chrony_synchronised = 0 => r.level = 2
      /\ m.gnss_fix_mode < 2 => r.level = 2
      /\ m.gnss_fix_mode = 2 => r.level \in {1, 2}
      /\ m.chrony_stratum < 1 => m.chrony_synchronised = 0
      /\ m.chrony_stratum > 1 => r.level \in {1, 2}
      /\ Magnitude(m.chrony_system_offset_seconds) > RULE_OFFSET => r.level \in {1, 2}
      /\ m.soc_temperature_celsius # NoReading /\ m.soc_temperature_celsius > RULE_TEMP =>
           r.level \in {1, 2}
  BY WhatRulesSee
<1>2. /\ m.updates.security_updates_pending \in Nat /\ m.updates.reboot_required \in {0, 1}
      /\ m.updates.updates_check_age \in Int \cup {NoReading}
      /\ m.updates.security_updates_pending > 0 \/ m.updates.reboot_required = 1 =>
           UpdatesText(s.updates) # {}
  <2>1. s.updates = CollectUpdates(h.updates) /\ m.updates = UpdatesMetrics(s.updates)
    BY SnapshotFields, MetricFields, Zenon
  <2> HIDE DEF s, m
  <2>2. QED
    BY <2>1, HostFields, UpdatesReading, Zenon
<1>3. /\ updates.security = IF m.updates.security_updates_pending >= 1 THEN AMBER ELSE GREEN
      /\ updates.check = IF m.updates.updates_check_age = NoReading THEN GREEN
                         ELSE Steps(m.updates.updates_check_age, GREEN, 2, AMBER, 3, RED)
  BY DEF UpdateStats
<1>4. r.level = CRITICAL => \E p \in Headline(r) : p.subsystem \in Bad(s)
  <2>1. ASSUME r.level = CRITICAL
        PROVE  \E p \in r.problems : p.level = CRITICAL /\ p.subsystem \in Bad(s)
    <3>1. Bad(s) # {}
      BY <2>1, LevelSaysCritical
    <3>2. CriticalSubsystems(r) = Bad(s)
      BY CriticalIsBad
    <3> HIDE DEF r, s
    <3>3. QED
      BY <3>1, <3>2 DEF CriticalSubsystems
  <2> HIDE DEF r, s
  <2>2. QED
    BY <2>1 DEF Headline
<1>5. /\ "pps" \in Bad(s) => m.pps_pulsing = 0
      /\ "gnss" \in Bad(s) => m.gnss_fix_mode < 2
      /\ Bad(s) \subseteq {"pps", "gnss", "chrony", "service", "system"}
  <2>1. m.gnss_fix_mode = s.gnss.fix_mode /\ m.pps_pulsing = Bit(s.pps.pulsing)
    BY MetricFields, Zenon
  <2>2. ~s.pps.present \/ s.pps.error => ~s.pps.pulsing
    BY HostFields, SnapshotFields, PpsReading, Zenon
  <2>3. ~s.gnss.reachable => s.gnss.fix_mode = 0
    BY HostFields, SnapshotFields, GnssReading, Zenon
  <2> HIDE DEF s, r, m
  <2>4. "pps" \in Bad(s) => ~s.pps.pulsing
    BY <2>2 DEF Bad
  <2>5. "gnss" \in Bad(s) => s.gnss.fix_mode < 2
    BY <2>3 DEF Bad
  <2>6. QED
    BY <2>1, <2>4, <2>5, BitIs DEF Bad, Subsystem
<1> HIDE DEF s, r, m
<1>6. fires \ AboutUpdates # {} => r.level > OK
  <2>1. "Critical" \in fires \/ "Warning" \in fires => r.level \in {1, 2}
    BY <1>1, RulesThatFire
  <2>2. "PpsSilent" \in fires => r.level \in {1, 2}
    BY <1>1, RulesThatFire
  <2>3. "NoFix" \in fires => r.level \in {1, 2}
    BY <1>1, RulesThatFire
  <2>4. "NotStratum1" \in fires => r.level \in {1, 2}
    BY <1>1, RulesThatFire
  <2>5. "Offset" \in fires \/ "Hot" \in fires => r.level \in {1, 2}
    BY <1>1, RulesThatFire
  <2>6. fires \subseteq Rule
    BY DEF Fires
  <2> HIDE DEF fires
  <2>7. ASSUME NEW x \in fires \ AboutUpdates
        PROVE  r.level \in {1, 2}
    <3>1. x \in {"Critical", "Warning", "PpsSilent", "NoFix", "NotStratum1", "Offset", "Hot"}
      BY <2>6 DEF Rule, AboutUpdates
    <3>2. QED
      BY <2>1, <2>2, <2>3, <2>4, <2>5, <3>1
  <2>8. r.level \in {1, 2} => r.level > OK
    BY LevelsOrdered
  <2>9. QED
    BY <2>7, <2>8
<1>7. (\E x \in fires : Severity[x] = "critical") <=> r.level = CRITICAL
  <2>1. "Critical" \in fires <=> r.level = CRITICAL
    BY <1>1, RulesThatFire, LevelsOrdered
  <2>2. "PpsSilent" \in fires => r.level = CRITICAL
    BY <1>1, RulesThatFire, LevelsOrdered
  <2>3. fires \subseteq Rule
    BY DEF Fires
  <2> HIDE DEF fires
  <2>4. QED
    BY <2>1, <2>2, <2>3, RuleSeverity
<1>8. {"SecurityUpdates", "RebootRequired"} \cap fires # {} => UpdatesText(s.updates) # {}
  BY <1>2, RulesThatFire, Zenon
<1>9. updates.security = AMBER <=> "SecurityUpdates" \in fires
  BY <1>2, <1>3, RulesThatFire DEF AMBER, GREEN
<1>10. "UpdateCheckStale" \in fires => updates.check = RED
  BY <1>2, <1>3, RulesThatFire DEF Steps, RED
<1>11. /\ stats.health = r.level
       /\ stats.stratum = IF m.chrony_stratum < 1 THEN 2 ELSE IF m.chrony_stratum > 1 THEN 1 ELSE 0
       /\ stats.fix = IF m.gnss_fix_mode < 2 THEN 2 ELSE IF m.gnss_fix_mode = 2 THEN 1 ELSE 0
       /\ stats.pps = IF m.pps_pulsing >= 1 THEN 0 ELSE 2
       /\ stats.synchronised = IF m.chrony_synchronised >= 1 THEN 0 ELSE 2
  BY <1>1, StatColours
<1>12. \A x \in TimeStats : stats[x] <= stats.health
  <2> HIDE DEF stats
  <2>1. stats.stratum <= r.level
    BY <1>1, <1>11
  <2>2. stats.fix <= r.level
    BY <1>1, <1>11
  <2>3. stats.pps <= r.level /\ stats.synchronised <= r.level
    BY <1>1, <1>11
  <2>4. QED
    BY <1>11, <2>1, <2>2, <2>3 DEF TimeStats
<1>13. stats.health = RED =>
         \/ RED \in { stats[x] : x \in TimeStats }
         \/ \E p \in Headline(r) : p.subsystem \in {"service", "chrony", "system"}
  <2> HIDE DEF stats
  <2> SUFFICES ASSUME stats.health = RED
               PROVE  \/ RED \in { stats[x] : x \in TimeStats }
                      \/ \E p \in Headline(r) : p.subsystem \in {"service", "chrony", "system"}
    OBVIOUS
  <2>1. PICK p \in Headline(r) : p.subsystem \in Bad(s)
    BY <1>4, <1>11, LevelsOrdered DEF RED
  <2>2. "pps" \in Bad(s) => stats.pps = RED
    BY <1>5, <1>11 DEF RED
  <2>3. "gnss" \in Bad(s) => stats.fix = RED
    BY <1>1, <1>5, <1>11 DEF RED
  <2>4. QED
    BY <1>5, <2>1, <2>2, <2>3 DEF TimeStats
<1> HIDE DEF fires, stats, updates
<1>14. QED
  BY <1>6, <1>7, <1>8, <1>9, <1>10, <1>12, <1>13, Zenon
     DEF RulesFollow, s, r, m, fires, stats, updates

-----------------------------------------------------------------------------
(* What the screens say of what is unknown.                                *)

LEMMA UpdatesScreen ==
  ASSUME NEW upd, NEW line \in UpdatesLines(upd)
  PROVE  \/ line[1] = "Updates not checked yet" /\ upd.age = NoReading
         \/ line[1] \in {"Updates", "Check err"} /\ upd.age # NoReading
PROOF
<1>1. CASE upd.age = NoReading
  <2>1. line = <<"Updates not checked yet">>
    BY <1>1, Zenon DEF UpdatesLines
  <2>2. QED
    BY <1>1, <2>1, FirstWord, Zenon
<1>2. CASE upd.age # NoReading
  <2>1. \/ line = <<"Updates", upd.pending, upd.security, upd.reboot_required, upd.age>>
        \/ line = <<"Check err">>
    BY <1>2, Zenon DEF UpdatesLines
  <2>2. line[1] = "Updates" \/ line[1] = "Check err"
    <3>1. CASE line = <<"Updates", upd.pending, upd.security, upd.reboot_required, upd.age>>
      BY <3>1
    <3>2. CASE line = <<"Check err">>
      BY <3>2, FirstWord, Zenon
    <3>3. QED
      BY <2>1, <3>1, <3>2, Zenon
  <2>3. QED
    BY <1>2, <2>2, Zenon
<1>3. QED
  BY <1>1, <1>2

LEMMA SystemScreenSays ==
  ASSUME NEW s
  PROVE  /\ <<"SoC temp unknown">> \in SystemScreen(s) <=> s.system.temperature = NoReading
         /\ <<"Throttle vcgencmd unavailable">> \in SystemScreen(s) <=> s.system.flags = NoReading
         /\ <<"Updates not checked yet">> \in SystemScreen(s) <=> s.updates.age = NoReading
PROOF
<1> DEFINE cold == "SoC temp unknown"
           blind == "Throttle vcgencmd unavailable"
           never == "Updates not checked yet"
           temp == IF s.system.temperature = NoReading THEN <<cold>>
                   ELSE <<"SoC temp", s.system.temperature>>
           throttle == IF s.system.flags = NoReading THEN <<blind>>
                       ELSE IF s.system.throttled = {} THEN <<"Throttle none">>
                       ELSE <<"Throttle", s.system.throttled>>
           memory == <<"Memory", s.system.mem>>
           disk == <<"Disk /", s.system.disk>>
<1>1. \A line : line \in SystemScreen(s) <=>
        \/ line = temp \/ line = memory \/ line = disk \/ line = throttle
        \/ line \in UpdatesLines(s.updates)
  BY Zenon DEF SystemScreen, SystemLines
<1>2. \/ s.system.temperature = NoReading /\ temp = <<cold>> /\ temp[1] = cold
      \/ s.system.temperature # NoReading /\ temp[1] = "SoC temp"
  BY FirstWord, Zenon
<1>3. \/ s.system.flags = NoReading /\ throttle = <<blind>> /\ throttle[1] = blind
      \/ s.system.flags # NoReading /\ throttle[1] \in {"Throttle none", "Throttle"}
  <2>1. CASE s.system.flags = NoReading
    BY <2>1, FirstWord, Zenon
  <2>2. CASE s.system.flags # NoReading /\ s.system.throttled = {}
    <3>1. throttle = <<"Throttle none">>
      BY <2>2, Zenon
    <3>2. QED
      BY <2>2, <3>1, FirstWord, Zenon
  <2>3. CASE s.system.flags # NoReading /\ s.system.throttled # {}
    <3>1. throttle = <<"Throttle", s.system.throttled>>
      BY <2>3, Zenon
    <3>2. QED
      BY <2>3, <3>1, FirstWord, Zenon
  <2>4. QED
    BY <2>1, <2>2, <2>3, Zenon
<1>4. memory[1] = "Memory" /\ disk[1] = "Disk /"
  BY FirstWord, Zenon
<1>5. s.updates.age = NoReading => <<never>> \in UpdatesLines(s.updates)
  BY Zenon DEF UpdatesLines
<1>6. \A line \in UpdatesLines(s.updates) :
        \/ line[1] = never /\ s.updates.age = NoReading
        \/ line[1] \in {"Updates", "Check err"} /\ s.updates.age # NoReading
  BY UpdatesScreen, Zenon
<1>7. <<cold>>[1] = cold /\ <<blind>>[1] = blind /\ <<never>>[1] = never
  BY FirstWord, Zenon
<1> HIDE DEF temp, throttle, memory, disk
<1>8. <<cold>> \in SystemScreen(s) <=> s.system.temperature = NoReading
  BY <1>1, <1>2, <1>3, <1>4, <1>6, <1>7, Zenon
<1>9. <<blind>> \in SystemScreen(s) <=> s.system.flags = NoReading
  BY <1>1, <1>2, <1>3, <1>4, <1>6, <1>7, Zenon
<1>10. <<never>> \in SystemScreen(s) <=> s.updates.age = NoReading
  BY <1>1, <1>2, <1>3, <1>4, <1>5, <1>6, <1>7, Zenon
<1>11. QED
  BY <1>8, <1>9, <1>10

LEMMA ServicesScreenSays ==
  ASSUME NEW s, NEW u \in Units
  PROVE  <<u, "unknown">> \in ServicesScreen(s) <=> s.services[u] = "unknown"
BY DEF ServicesScreen

LEMMA PpsPanelSays ==
  ASSUME NEW pps
  PROVE  PpsSummary(pps) = <<"unreadable">> <=> pps.present /\ pps.error
PROOF
<1> DEFINE words == PpsSummary(pps)
<1>1. <<"unreadable">>[1] = "unreadable"
  BY FirstWord, Zenon
<1>2. pps.present /\ pps.error => words = <<"unreadable">>
  BY Zenon DEF PpsSummary
<1>3. ~(pps.present /\ pps.error) =>
        words = <<"device MISSING">> \/ words = <<"pulsing">> \/ words = <<"NO PULSE">>
  BY Zenon DEF PpsSummary
<1> HIDE DEF words
<1>4. ~(pps.present /\ pps.error) => words[1] \in {"device MISSING", "pulsing", "NO PULSE"}
  BY <1>3, FirstWord, Zenon
<1>5. QED
  BY <1>1, <1>2, <1>4, Zenon DEF words

LEMMA ChronyPanelSays ==
  ASSUME NEW tracking
  PROVE  ChronySummary(tracking) = <<"chronyd NOT ANSWERING">> <=> ~tracking.reachable
PROOF
<1> DEFINE words == ChronySummary(tracking)
<1>1. <<"chronyd NOT ANSWERING">>[1] = "chronyd NOT ANSWERING"
  BY FirstWord, Zenon
<1>2. ~tracking.reachable => words = <<"chronyd NOT ANSWERING">>
  BY Zenon DEF ChronySummary
<1>3. tracking.reachable =>
        \/ words = <<"NOT SYNCHRONISED">>
        \/ words = <<"stratum", tracking.stratum, tracking.offset, tracking.leap_status>>
  BY Zenon DEF ChronySummary
<1> HIDE DEF words
<1>4. tracking.reachable => words[1] \in {"NOT SYNCHRONISED", "stratum"}
  <2>1. CASE words = <<"NOT SYNCHRONISED">>
    BY <2>1, FirstWord, Zenon
  <2>2. CASE words = <<"stratum", tracking.stratum, tracking.offset, tracking.leap_status>>
    <3>1. words[1] = "stratum"
      BY <2>2
    <3>2. QED
      BY <3>1, Zenon
  <2>3. QED
    BY <1>3, <2>1, <2>2, Zenon
<1>5. QED
  BY <1>1, <1>2, <1>4, Zenon DEF words

LEMMA FixLabelSays ==
  ASSUME NEW gnss, gnss.fix_mode \in 0 .. 3
  PROVE  FixLabel(gnss) = "gpsd unreachable" <=> ~gnss.reachable
PROOF
<1>1. gnss.fix_mode \in {0, 1, 2, 3}
  OBVIOUS
<1>2. FIX_LABELS[gnss.fix_mode] \in {"no data", "no fix", "2D fix", "3D fix"}
  BY <1>1, FixLabels, Zenon
<1>3. QED
  BY <1>2, Zenon DEF FixLabel

(***************************************************************************)
(* Whatever cannot be read is said to be unknown on a screen (format.py,   *)
(* screens.py, cli.py), for every answer of the host.                      *)
(***************************************************************************)
THEOREM UnknownIsNamed ==
  ASSUME host \in Host
  PROVE  UnknownIsSaid
PROOF
<1> DEFINE dash == Dashboard(snapshot, report)
           status == Status(snapshot, report)
<1>1. /\ host.thermal = NoReading <=> <<"SoC temp unknown">> \in SystemScreen(snapshot)
      /\ host.throttled = NoReading <=> <<"Throttle vcgencmd unavailable">> \in SystemScreen(snapshot)
  <2>1. snapshot.system.temperature = host.thermal /\ snapshot.system.flags = host.throttled
    BY SystemReading, SnapshotFields DEF snapshot
  <2>2. QED
    BY <2>1, SystemScreenSays, Zenon
<1>2. host.updates = Failed <=> <<"Updates not checked yet">> \in SystemScreen(snapshot)
  <2>1. snapshot.updates.age = NoReading <=> host.updates = Failed
    BY HostFields, SnapshotFields, UpdatesReading, Zenon DEF snapshot
  <2>2. QED
    BY <2>1, SystemScreenSays, Zenon
<1>3. \A u \in Units : host.show[u] = Failed <=> <<u, "unknown">> \in ServicesScreen(snapshot)
  <2>1. ASSUME NEW u \in Units
        PROVE  snapshot.services[u] = "unknown" <=> host.show[u] = Failed
    <3>1. host.show[u] \in ActiveState \cup {Failed}
      BY HostFields
    <3>2. snapshot.services = CollectServices(host.show)
      BY SnapshotFields DEF snapshot
    <3>3. CollectServices(host.show)[u] = "unknown" <=> host.show[u] = Failed
      BY <3>1, ServiceReading, Zenon
    <3>4. QED
      BY <3>2, <3>3
  <2>2. QED
    BY <2>1, ServicesScreenSays, Zenon
<1>4. dash["pps"].words = PpsSummary(snapshot.pps) /\ dash["chrony"].words = ChronySummary(snapshot.tracking)
  BY PanelLevels, Zenon
<1>5. host.pps \in {Unreadable, Garbled} <=> dash["pps"].words = <<"unreadable">>
  <2>1. snapshot.pps.present /\ snapshot.pps.error <=> host.pps \in {Unreadable, Garbled}
    BY HostFields, SnapshotFields, PpsReading, Zenon DEF snapshot
  <2>2. QED
    BY <1>4, <2>1, PpsPanelSays, Zenon
<1>6. host.gpsd \in {Refused, <<>>} <=> status.gnss = "gpsd unreachable"
  <2>1. /\ ~snapshot.gnss.reachable <=> host.gpsd \in {Refused, <<>>}
        /\ snapshot.gnss.fix_mode \in 0 .. 3
    BY HostFields, SnapshotFields, GnssReading, Zenon DEF snapshot
  <2>2. status.gnss = FixLabel(snapshot.gnss)
    BY DEF Status
  <2>3. QED
    BY <2>1, <2>2, FixLabelSays, Zenon
<1> DEFINE tracking == CollectChrony(host.tracking, host.sources)
<1>7. /\ Failed \in {host.tracking, host.sources} <=> ~tracking.reachable
      /\ Failed \in {host.tracking, host.sources} => tracking.leap_status = ""
      /\ Failed \notin {host.tracking, host.sources} =>
           host.tracking \in Tracking /\ tracking.leap_status = host.tracking.leap_status
  BY HostFields, ChronyReading, Zenon
<1>8. snapshot.tracking = tracking
  BY SnapshotFields DEF snapshot
<1> HIDE DEF tracking
<1>9. Failed \in {host.tracking, host.sources} <=> dash["chrony"].words = <<"chronyd NOT ANSWERING">>
  BY <1>4, <1>7, <1>8, ChronyPanelSays, Zenon
<1>10. Failed \in {host.tracking, host.sources} <=> status.leap = "-"
  <2> DEFINE leap == tracking.leap_status
  <2>1. status.leap = IF leap = "" THEN "-" ELSE leap
    BY <1>8, Zenon DEF Status
  <2>2. \A t \in Tracking :
          t.leap_status \in {"Normal", "Insert second", "Delete second", "Not synchronised"}
    BY DEF Tracking
  <2>3. Failed \notin {host.tracking, host.sources} =>
          leap \in {"Normal", "Insert second", "Delete second", "Not synchronised"}
    BY <1>7, <2>2, Zenon
  <2> HIDE DEF leap, status
  <2>4. Failed \in {host.tracking, host.sources} => leap = ""
    BY <1>7, Zenon DEF leap
  <2>5. QED
    BY <2>1, <2>3, <2>4, Zenon
<1>11. QED
  BY <1>1, <1>2, <1>3, <1>5, <1>6, <1>9, <1>10, Zenon DEF UnknownIsSaid

-----------------------------------------------------------------------------
(* The specification of the runs.                                          *)

(* The answers the specification enumerates are answers of a host. *)
LEMMA ReportsAre ==
  /\ Version \in Report
  /\ \A n \in Int : Sky(n) \in Report /\ OldSky(n) \in Report
  /\ \A m \in 0 .. 3 : Tpv(m) \in Report
PROOF
<1>1. Version \in Report
  BY DEF Version, Report
<1>2. \A n \in Int : Sky(n) \in Report
  BY DEF Sky, Report
<1>3. \A n \in Int : OldSky(n) \in Report
  BY DEF OldSky, Report
<1>4. \A m \in 0 .. 3 : Tpv(m) \in Report
  BY DEF Tpv, Report
<1>5. QED
  BY <1>1, <1>2, <1>3, <1>4

LEMMA SessionsAre ==
  ASSUME NEW a \in Report, NEW b \in Report, NEW c \in Report, NEW d \in Report, NEW e \in Report
  PROVE  /\ <<>> \in Seq(Report) /\ <<a>> \in Seq(Report) /\ <<a, b>> \in Seq(Report)
         /\ <<a, b, c>> \in Seq(Report) /\ <<a, b, c, d>> \in Seq(Report)
         /\ <<a, b, c, d, e>> \in Seq(Report)
OBVIOUS

LEMMA PpsAnswersAre == PpsAnswers \subseteq {NoDevice, Unreadable, Garbled} \cup Int
BY ReadingsAssumption DEF PpsAnswers

LEMMA GpsdAnswersAre == GpsdAnswers \subseteq {Refused} \cup Seq(Report)
PROOF
<1>1. MIN_SATELLITES \in Int /\ MIN_SATELLITES - 1 \in Int
  BY ReadingsAssumption
<1>2. /\ Version \in Report /\ Sky(MIN_SATELLITES) \in Report /\ Sky(MIN_SATELLITES - 1) \in Report
      /\ OldSky(MIN_SATELLITES) \in Report /\ OldSky(MIN_SATELLITES - 1) \in Report
      /\ \A m \in 0 .. 3 : Tpv(m) \in Report
  BY <1>1, ReportsAre
<1>3. \A a, b, c, d, e \in Report :
        /\ <<>> \in Seq(Report) /\ <<a>> \in Seq(Report) /\ <<a, b>> \in Seq(Report)
        /\ <<a, b, c>> \in Seq(Report) /\ <<a, b, c, d>> \in Seq(Report)
        /\ <<a, b, c, d, e>> \in Seq(Report)
  BY SessionsAre
<1>4. {1, 3} \subseteq 0 .. 3 /\ {1, 2} \subseteq 0 .. 3
  OBVIOUS
<1>5. {Refused, <<>>, <<Version>>, <<Version, Sky(MIN_SATELLITES)>>} \subseteq {Refused} \cup Seq(Report)
  BY <1>2, <1>3
<1>6. \A n \in {MIN_SATELLITES - 1, MIN_SATELLITES}, m \in 0 .. 3 : <<Version, Sky(n), Tpv(m)>> \in Seq(Report)
  BY <1>2, <1>3
<1>7. \A k, n \in {MIN_SATELLITES - 1, MIN_SATELLITES}, m \in {1, 3} :
        <<Version, OldSky(k), Tpv(m), OldSky(n), Tpv(3)>> \in Seq(Report)
  <2>1. \A k \in {MIN_SATELLITES - 1, MIN_SATELLITES} : OldSky(k) \in Report
    BY <1>2
  <2>2. Tpv(3) \in Report /\ \A m \in {1, 3} : Tpv(m) \in Report
    BY <1>2, <1>4
  <2>3. QED
    BY <1>2, <1>3, <2>1, <2>2, Zenon
<1>8. \A m \in {1, 2} : <<Version, Sky(MIN_SATELLITES), Tpv(3), Tpv(m)>> \in Seq(Report)
  <2>1. Tpv(3) \in Report /\ \A m \in {1, 2} : Tpv(m) \in Report
    BY <1>2, <1>4
  <2>2. QED
    BY <1>2, <1>3, <2>1, Zenon
<1> DEFINE few == {MIN_SATELLITES - 1, MIN_SATELLITES}
<1>9. ASSUME NEW x \in GpsdAnswers
      PROVE  x \in {Refused} \cup Seq(Report)
  <2>1. \/ x \in {Refused, <<>>, <<Version>>, <<Version, Sky(MIN_SATELLITES)>>}
        \/ \E n \in few, m \in 0 .. 3 : x = <<Version, Sky(n), Tpv(m)>>
        \/ \E k \in few, n \in few, m \in {1, 3} :
             x = <<Version, OldSky(k), Tpv(m), OldSky(n), Tpv(3)>>
        \/ \E m \in {1, 2} : x = <<Version, Sky(MIN_SATELLITES), Tpv(3), Tpv(m)>>
    BY SMT DEF GpsdAnswers
  <2>2. CASE x \in {Refused, <<>>, <<Version>>, <<Version, Sky(MIN_SATELLITES)>>}
    BY <1>5, <2>2
  <2>3. CASE \E n \in few, m \in 0 .. 3 : x = <<Version, Sky(n), Tpv(m)>>
    BY <1>6, <2>3
  <2>4. CASE \E k \in few, n \in few, m \in {1, 3} :
               x = <<Version, OldSky(k), Tpv(m), OldSky(n), Tpv(3)>>
    BY <1>7, <2>4
  <2>5. CASE \E m \in {1, 2} : x = <<Version, Sky(MIN_SATELLITES), Tpv(3), Tpv(m)>>
    BY <1>8, <2>5
  <2>6. QED
    BY <2>1, <2>2, <2>3, <2>4, <2>5, Zenon
<1>10. QED
  BY <1>9

LEMMA TrackingAnswersAre == TrackingAnswers \subseteq {Failed} \cup Tracking
PROOF
<1> DEFINE Leaps == {"Normal", "Insert second", "Delete second", "Not synchronised"}
           unsynced == "Not synchronised"
           announced == "Insert second"
           Offsets == {0, -OFFSET_WARN, OFFSET_WARN, OFFSET_CRIT, -OFFSET_CRIT}
<1>1. {"Normal", announced} \subseteq Leaps \ {unsynced} /\ unsynced \in Leaps
  BY Zenon
<1>2. Tracking = { t \in [leap_status : Leaps, stratum : Nat, offset : Int] :
                     t.leap_status # unsynced => t.stratum > 0 }
  BY Zenon DEF Tracking
<1>3. TrackingAnswers = {Failed, [leap_status |-> unsynced, stratum |-> 0, offset |-> 0]}
        \cup [leap_status : {"Normal", announced}, stratum : {1, 2}, offset : Offsets]
  BY Zenon DEF TrackingAnswers
<1>4. Offsets \subseteq Int
  BY ReadingsAssumption
<1> HIDE DEF Leaps, unsynced, announced, Offsets
<1>5. [leap_status |-> unsynced, stratum |-> 0, offset |-> 0] \in Tracking
  BY <1>1, <1>2
<1>6. [leap_status : {"Normal", announced}, stratum : {1, 2}, offset : Offsets] \subseteq Tracking
  <2>1. ASSUME NEW t \in [leap_status : {"Normal", announced}, stratum : {1, 2}, offset : Offsets]
        PROVE  t \in Tracking
    <3>1. /\ t = [leap_status |-> t.leap_status, stratum |-> t.stratum, offset |-> t.offset]
          /\ t.leap_status \in {"Normal", announced} /\ t.stratum \in {1, 2} /\ t.offset \in Offsets
      OBVIOUS
    <3>2. t.leap_status \in Leaps /\ t.leap_status # unsynced
      BY <1>1, <3>1, Zenon
    <3>3. t.stratum \in Nat /\ t.stratum > 0 /\ t.offset \in Int
      <4>1. t.stratum \in {1, 2} /\ t.offset \in Offsets
        BY <3>1
      <4>2. t.stratum = 1 \/ t.stratum = 2
        BY <4>1
      <4>3. t.offset \in Int
        BY <1>4, <4>1
      <4>4. QED
        BY <4>2, <4>3
    <3>4. QED
      BY <1>2, <3>1, <3>2, <3>3
  <2>2. QED
    BY <2>1
<1>7. QED
  BY <1>3, <1>5, <1>6

LEMMA ShowAnswersAre == ShowAnswers \subseteq [Units -> ActiveState \cup {Failed}]
BY DEF ShowAnswers, ActiveState

LEMMA UpdatesAnswersAre == UpdatesAnswers \subseteq {Failed} \cup Checks
PROOF
<1>1. /\ Checked(0, 0, FALSE, 0) \in Checks /\ Checked(0, 0, FALSE, 4) \in Checks
      /\ Checked(2, 0, FALSE, 3) \in Checks
  BY DEF Checked, Checks
<1>2. /\ Checked(2, 1, FALSE, 0) \in Checks /\ Checked(2, 2, TRUE, 0) \in Checks
      /\ Checked(0, 0, TRUE, 4) \in Checks
  BY DEF Checked, Checks
<1>3. [Checked(0, 0, FALSE, 0) EXCEPT !.error = TRUE] \in Checks
  <2> DEFINE no == FALSE
             yes == TRUE
             checked == Checked(0, 0, FALSE, 0)
  <2>1. checked = [age |-> 0, pending |-> 0, security |-> 0, reboot_required |-> no, error |-> no]
    BY Zenon DEF Checked
  <2>2. {no, yes} \subseteq BOOLEAN
    OBVIOUS
  <2> HIDE DEF no, yes, checked
  <2>3. [checked EXCEPT !.error = yes] =
          [age |-> 0, pending |-> 0, security |-> 0, reboot_required |-> no, error |-> yes]
    BY <2>1
  <2>4. [checked EXCEPT !.error = yes] \in Checks
    BY <2>2, <2>3 DEF Checks
  <2>5. QED
    BY <2>4, Zenon DEF checked, yes
<1>4. QED
  BY <1>1, <1>2, <1>3, Zenon DEF UpdatesAnswers

(***************************************************************************)
(* Every state is a host as the collectors' sources can be.                *)
(***************************************************************************)
LEMMA NominalIsAHost == Nominal \in Host
PROOF
<1>1. <<Version, Sky(MIN_SATELLITES), Tpv(3)>> \in Seq(Report)
  <2>1. Version \in Report /\ Sky(MIN_SATELLITES) \in Report /\ Tpv(3) \in Report
    <3>1. MIN_SATELLITES \in Int /\ 3 \in 0 .. 3
      BY ReadingsAssumption
    <3>2. QED
      BY <3>1, ReportsAre
  <2>2. QED
    BY <2>1, SessionsAre
<1>2. [leap_status |-> "Normal", stratum |-> 1, offset |-> 0] \in Tracking
  <2> DEFINE unsynced == "Not synchronised"
             Leaps == {"Normal", "Insert second", "Delete second", unsynced}
  <2>1. Tracking = { t \in [leap_status : Leaps, stratum : Nat, offset : Int] :
                       t.leap_status # unsynced => t.stratum > 0 }
    BY Zenon DEF Tracking
  <2>2. "Normal" \in Leaps
    BY Zenon
  <2> HIDE DEF unsynced, Leaps
  <2>3. QED
    BY <2>1, <2>2
<1>3. Checked(0, 0, FALSE, 0) \in Checks
  BY DEF Checked, Checks
<1>4. [u \in Units |-> "active"] \in [Units -> ActiveState \cup {Failed}]
  BY DEF ActiveState
<1>5. Memory(0) \in [total : Nat, available : Int]
  BY DEF Memory
<1>6. TEMP_WARN - 1 \in Int
  BY ReadingsAssumption
<1> DEFINE session == <<Version, Sky(MIN_SATELLITES), Tpv(3)>>
           tracking == [leap_status |-> "Normal", stratum |-> 1, offset |-> 0]
           show == [u \in Units |-> "active"]
<1> HIDE DEF session, tracking, show
<1>7. Nominal = [pps |-> 0, gpsd |-> session, tracking |-> tracking, sources |-> "listed",
                 show |-> show, thermal |-> TEMP_WARN - 1, throttled |-> {},
                 memory |-> Memory(0), disk |-> 0, updates |-> Checked(0, 0, FALSE, 0)]
  BY Zenon DEF Nominal, session, tracking, show
<1>8. session \in Seq(Report) /\ tracking \in Tracking /\ show \in [Units -> ActiveState \cup {Failed}]
  BY <1>1, <1>2, <1>4 DEF session, tracking, show
<1> DEFINE memory == Memory(0)
           updates == Checked(0, 0, FALSE, 0)
<1>9. memory \in [total : Nat, available : Int] /\ updates \in Checks
  BY <1>3, <1>5
<1>10. Nominal = [pps |-> 0, gpsd |-> session, tracking |-> tracking, sources |-> "listed",
                  show |-> show, thermal |-> TEMP_WARN - 1, throttled |-> {},
                  memory |-> memory, disk |-> 0, updates |-> updates]
  BY <1>7
<1> DEFINE showing == [Units -> ActiveState \cup {Failed}]
<1>11. show \in showing
  BY <1>8
<1> HIDE DEF memory, updates, showing
<1>12. Nominal \in
         [pps : {NoDevice, Unreadable, Garbled} \cup Int, gpsd : {Refused} \cup Seq(Report),
          tracking : {Failed} \cup Tracking, sources : {"listed", Failed},
          show : showing, thermal : Int \cup {NoReading}, throttled : {NoReading} \cup SUBSET Nat,
          memory : [total : Nat, available : Int], disk : Int, updates : {Failed} \cup Checks]
  BY <1>6, <1>8, <1>9, <1>10, <1>11
<1>13. QED
  BY <1>12 DEF Host, showing

LEMMA AnswersMakeAHost ==
  ASSUME host \in Host, Next
  PROVE  host' \in Host
PROOF
<1>1. CASE PpsAnswer
  BY <1>1, PpsAnswersAre DEF PpsAnswer, Host
<1>2. CASE GpsdAnswer
  BY <1>2, GpsdAnswersAre DEF GpsdAnswer, Host
<1>3. CASE ChronycAnswer
  BY <1>3, TrackingAnswersAre DEF ChronycAnswer, Host
<1>4. CASE ShowAnswer
  BY <1>4, ShowAnswersAre DEF ShowAnswer, Host
<1>5. CASE SystemAnswer
  <2>1. /\ {NoReading, TEMP_WARN - 1, TEMP_WARN, RULE_TEMP + 1, TEMP_CRIT} \subseteq Int \cup {NoReading}
        /\ {0, DISK_WARN} \subseteq Int /\ MEM_WARN - 1 \in Int /\ MEM_WARN \in Int
    BY ReadingsAssumption, RulesAssumption
  <2>2. {NoReading, {}, {16}, {0, 16}} \subseteq {NoReading} \cup SUBSET Nat
    OBVIOUS
  <2>3. {Memory(MEM_WARN - 1), Memory(MEM_WARN), [total |-> 0, available |-> 0]}
          \subseteq [total : Nat, available : Int]
    BY <2>1 DEF Memory
  <2>4. \/ \E t \in Int \cup {NoReading} : host' = [host EXCEPT !.thermal = t]
        \/ \E d \in Int : host' = [host EXCEPT !.disk = d]
        \/ \E b \in {NoReading} \cup SUBSET Nat : host' = [host EXCEPT !.throttled = b]
        \/ \E m \in [total : Nat, available : Int] : host' = [host EXCEPT !.memory = m]
    BY <1>5, <2>1, <2>2, <2>3, Zenon DEF SystemAnswer
  <2>5. QED
    BY <2>4 DEF Host
<1>6. CASE UpdatesAnswer
  BY <1>6, UpdatesAnswersAre DEF UpdatesAnswer, Host
<1>7. QED
  BY <1>1, <1>2, <1>3, <1>4, <1>5, <1>6 DEF Next

LEMMA AlwaysAHost == Spec => [](host \in Host)
PROOF
<1>1. Init => host \in Host
  BY NominalIsAHost DEF Init
<1>2. host \in Host /\ [Next]_host => (host \in Host)'
  BY AnswersMakeAHost
<1>3. QED
  BY <1>1, <1>2, PTL DEF Spec

(***************************************************************************)
(* The specification's own invariants, for all values of the constants.    *)
(* What is critical: see AlertTable.                                       *)
(***************************************************************************)
THEOREM AlertTableHolds == Spec => []CriticalMatchesAlertTable
PROOF
<1>1. host \in Host => CriticalMatchesAlertTable
  BY AlertTable DEF CriticalMatchesAlertTable
<1>2. QED
  BY <1>1, AlwaysAHost, PTL

(* Whoever sees only the metrics (model.py, syslog_export.py): see CriticalIsInMetrics. *)
THEOREM MetricsTell == Spec => []CriticalShowsInMetrics
PROOF
<1>1. host \in Host => CriticalShowsInMetrics
  BY CriticalIsInMetrics DEF CriticalShowsInMetrics, snapshot
<1>2. QED
  BY <1>1, AlwaysAHost, PTL

(* The screens and the dashboard (screens.py, format.py): all that is hidden *)
(* or unknown, from the three theorems above about them.                     *)
THEOREM ScreensDoTell == Spec => []ScreensTell
PROOF
<1>1. host \in Host => ScreensTell
  <2>1. HidesOnlyTheHost(snapshot, report)
    BY DashboardHidesOnlyTheHost DEF report
  <2>2. host \in Host => WordsMatchColours(snapshot, report)
    BY GatherMakesASnapshot, PanelsAgree DEF snapshot, report
  <2>3. QED
    BY <2>1, <2>2, UnknownIsNamed DEF ScreensTell, NothingHidden
<1>2. QED
  BY <1>1, AlwaysAHost, PTL

(* The alert rules (rules.yml) follow the level: see RulesFollowTheLevel. *)
THEOREM RulesDoAgree == Spec => []RulesAgree
PROOF
<1>1. host \in Host => RulesAgree
  BY RulesFollowTheLevel DEF RulesAgree, snapshot, report
<1>2. QED
  BY <1>1, AlwaysAHost, PTL

(* A worse sensor never makes evaluate.py's level better, along every step. *)
THEOREM NeverLooksBetter == Spec => WorseNeverLooksBetter
PROOF
<1>1. host \in Host /\ (host \in Host)' /\ [Next]_host =>
        [NoBetter(Gather(host'), snapshot) => LooksNoBetter(Evaluate(Gather(host')), report)]_host
  <2>1. Thresholds
    BY ReadingsAssumption DEF Thresholds
  <2>2. ASSUME NEW h \in Host, NEW g \in Host, NoBetter(Gather(h), Gather(g))
        PROVE  LooksNoBetter(Evaluate(Gather(h)), Evaluate(Gather(g)))
    BY <2>1, <2>2, GatherMakesASnapshot, WorseLooksNoBetter
  <2>3. QED
    BY <2>2 DEF snapshot, report
<1>2. QED
  BY <1>1, AlwaysAHost, PTL DEF Spec, WorseNeverLooksBetter

=============================================================================
