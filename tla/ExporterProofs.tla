---------------------------- MODULE ExporterProofs ----------------------------
(***************************************************************************)
(* What the alerts promise, for every set of packages and every bound of   *)
(* the counters; and that the exporter keeps these promises where the      *)
(* scraper reads its page (Alerting).                                      *)
(***************************************************************************)
EXTENDS Alerting, TLAPS

LEMMA UpType == ASSUME NEW n \in 0 .. COUNT_MAX PROVE Up(n) \in 0 .. COUNT_MAX
BY ExporterAssumption DEF Up

LEMMA AlertTypes ==
  ASSUME minLevel \in {WARNING, CRITICAL},
         NEW l \in Level, NEW last \in {None} \cup Level,
         NEW names \in SUBSET Packages, NEW known \in {None} \cup SUBSET Packages
  PROVE  /\ HealthAlert(l, last) \in {None} \cup Level
         /\ UpdatesAlert(names, known) \in SUBSET Packages
BY DEF HealthAlert, UpdatesAlert

LEMMA DownTypes ==
  ASSUME Down
  PROVE  /\ mail' \in [health : Level \cup {None}, updates : SUBSET Packages]
         /\ body' \in [level : Level \cup {None}, sent : 0 .. COUNT_MAX, failed : 0 .. COUNT_MAX]
         /\ sent' \in 0 .. COUNT_MAX /\ failed' \in 0 .. COUNT_MAX
         /\ decided' \in 0 .. COUNT_MAX
<1>1. 0 \in 0 .. COUNT_MAX
  BY ExporterAssumption
<1>2. mail' \in [health : Level \cup {None}, updates : SUBSET Packages]
  BY DEF Down, NoMail
<1>3. body' \in [level : Level \cup {None}, sent : 0 .. COUNT_MAX, failed : 0 .. COUNT_MAX]
  BY <1>1 DEF Down, NoBody
<1> QED BY <1>1, <1>2, <1>3 DEF Down

(* The initial states and every step keep the types. *)
LEMMA TypeInit == Init => TypeOK
<1> SUFFICES ASSUME Init PROVE TypeOK
  OBVIOUS
<1>1. mail \in [health : Level \cup {None}, updates : SUBSET Packages]
  BY DEF Init, NoMail
<1>2. 0 \in 0 .. COUNT_MAX
  BY ExporterAssumption
<1>3. body \in [level : Level \cup {None}, sent : 0 .. COUNT_MAX, failed : 0 .. COUNT_MAX]
  BY <1>2 DEF Init, NoBody
<1>4. announced \in [Packages -> 0 .. 2]
  BY DEF Init
<1>5. lists \in SUBSET Packages /\ file \in SUBSET Packages /\ dropped \in SUBSET Packages
  BY DEF Init
<1> QED BY <1>1, <1>2, <1>3, <1>4, <1>5 DEF Init, TypeOK

LEMMA TypeStep == TypeOK /\ [Next]_vars => TypeOK'
<1> SUFFICES ASSUME TypeOK, [Next]_vars PROVE TypeOK'
  OBVIOUS
<1> USE ExporterAssumption DEF Level, OK, WARNING, CRITICAL
<1>1. CASE LevelChanges
  BY <1>1 DEF LevelChanges, TypeOK, counters, updateHistory
<1>2. CASE Upgrade
  BY <1>2 DEF Upgrade, Forget, TypeOK, counters
<1>3. CASE CheckSucceeds
  BY <1>3 DEF CheckSucceeds, checkUntouched, Refresh, Forget, TypeOK, counters
<1>4. CASE CheckFails
  BY <1>4 DEF CheckFails, checkUntouched, Refresh, TypeOK, counters
<1>5. CASE CheckCut
  BY <1>5 DEF CheckCut, checkUntouched, Refresh, Forget, TypeOK, counters
<1>6. CASE Start
  BY <1>6 DEF Start, TypeOK, worldVars, counters, updateHistory
<1>7. CASE Collect
  <2>1. mail' \in [health : Level \cup {None}, updates : SUBSET Packages]
    BY <1>7, AlertTypes DEF Collect, AfterCollect, NoMail, TypeOK
  <2>2. decided' \in 0 .. COUNT_MAX
    BY <1>7, UpType DEF Collect, TypeOK
  <2>3. announced' \in [Packages -> 0 .. 2]
    BY <1>7 DEF Collect, TypeOK
  <2> QED BY <1>7, <2>1, <2>2, <2>3 DEF Collect, Remember, TypeOK, worldVars
<1>8. CASE CollectRaises
  BY <1>8 DEF CollectRaises, TypeOK, worldVars, counters, updateHistory
<1>9. CASE PostSucceeds
  BY <1>9, UpType DEF PostSucceeds, Sent, SendsHealth, NoMail, TypeOK, worldVars, updateHistory
<1>10. CASE PostFails
  BY <1>10, UpType
     DEF PostFails, PostLost, Sent, SendsHealth, NoMail, TypeOK, worldVars, updateHistory
<1>11. CASE PostRaises
  BY <1>11 DEF PostRaises, PostLost, NoMail, TypeOK, worldVars, counters, updateHistory
<1>12. CASE Publish
  BY <1>12 DEF Publish, TypeOK, worldVars, counters, updateHistory
<1>13. CASE Tick
  BY <1>13 DEF Tick, TypeOK, worldVars, counters, updateHistory
<1>14. CASE SigTerm
  BY <1>14 DEF SigTerm, TypeOK, worldVars, counters, updateHistory
<1>15. CASE Exit \/ Killed
  <2>1. Down
    BY <1>15 DEF Exit, Killed
  <2> QED BY <1>15, <2>1, DownTypes DEF Exit, Killed, Down, TypeOK, worldVars, updateHistory
<1>16. CASE Boot
  <2>1. Down
    BY <1>16 DEF Boot
  <2>2. announced' \in [Packages -> 0 .. 2]
    BY <1>16 DEF Boot, TypeOK
  <2> QED BY <1>16, <2>1, <2>2, DownTypes DEF Boot, Down, TypeOK
<1>17. CASE UNCHANGED vars
  BY <1>17 DEF vars, TypeOK
<1> QED
  BY <1>1, <1>2, <1>3, <1>4, <1>5, <1>6, <1>7, <1>8, <1>9, <1>10, <1>11, <1>12, <1>13,
     <1>14, <1>15, <1>16, <1>17 DEF Next

(***************************************************************************)
(* The variables keep their types, every list of packages among them.      *)
(***************************************************************************)
THEOREM ExporterTypes == Spec => []TypeOK
BY TypeInit, TypeStep, PTL DEF Spec

-----------------------------------------------------------------------------
(***************************************************************************)
(* The receiver.  Between the decision and the POST the receiver is one    *)
(* edge behind: the alert waiting is the last observation and differs from *)
(* what it was told.                                                       *)
(***************************************************************************)
Behind ==
  mail.health # None => mail.health = lastLevel /\ (told # None => mail.health # told)

(***************************************************************************)
(* The code sends more than the crossings that the documents promise: a    *)
(* move above the floor too (alerts.py:100).  So the receiver knows the    *)
(* level itself when it is above the floor.                                *)
(***************************************************************************)
LevelKnown ==
  told # None /\ mail.health = None =>
    IF lastLevel >= minLevel THEN told = lastLevel ELSE told < minLevel

ReceiverInv ==
  /\ TypeOK
  /\ told # None => lastLevel # None
  /\ ~WEBHOOK => told = None /\ mail = NoMail
  /\ Behind
  /\ LevelKnown

LEMMA ReceiverInit == Init => ReceiverInv
BY TypeInit DEF Init, ReceiverInv, Behind, LevelKnown, NoMail

LEMMA ReceiverStep == ReceiverInv /\ [Next]_vars => ReceiverInv'
<1> SUFFICES ASSUME ReceiverInv, [Next]_vars PROVE ReceiverInv'
  OBVIOUS
<1>0. TypeOK /\ TypeOK'
  BY TypeStep DEF ReceiverInv
<1> USE ExporterAssumption DEF ReceiverInv
<1>a. CASE UNCHANGED <<minLevel, mail, told, lastLevel, xpc>>
  BY <1>0, <1>a DEF Behind, LevelKnown
<1>b. CASE UNCHANGED <<minLevel, mail, told, lastLevel>> /\ mail = NoMail
  BY <1>0, <1>b DEF Behind, LevelKnown
<1>c. CASE Down
  BY <1>0, <1>c DEF Down, Behind, LevelKnown, NoMail
<1>1. CASE Collect
  <2>1. mail = NoMail /\ mail.health = None
    BY <1>0, <1>1 DEF Collect, TypeOK, NoMail
  <2>2. lastLevel' = level /\ told' = told /\ minLevel' = minLevel /\ xpc' = "send"
    BY <1>1 DEF Collect, Remember, worldVars
  <2>3. CASE WEBHOOK
    <3>1. mail'.health = HealthAlert(level, lastLevel)
      BY <1>1, <2>3 DEF Collect, AfterCollect
    <3>2. /\ minLevel \in 1 .. 2 /\ level \in 0 .. 2
          /\ lastLevel \in {None} \cup 0 .. 2 /\ told \in {None} \cup 0 .. 2
      BY <1>0 DEF TypeOK, Level, OK, WARNING, CRITICAL
    <3>3. told # None => /\ lastLevel # None
                         /\ IF lastLevel >= minLevel THEN told = lastLevel ELSE told < minLevel
      BY <2>1 DEF LevelKnown
    <3>4. mail'.health # None => mail'.health = lastLevel' /\ (told' # None => mail'.health # told')
      BY <2>2, <3>1, <3>2, <3>3 DEF HealthAlert
    <3>5. told' # None /\ mail'.health = None =>
            IF lastLevel' >= minLevel' THEN told' = lastLevel' ELSE told' < minLevel'
      BY <2>2, <3>1, <3>2, <3>3 DEF HealthAlert
    <3>6. told' # None => lastLevel' # None
      BY <2>2, <3>2
    <3> QED BY <1>0, <2>2, <2>3, <3>4, <3>5, <3>6 DEF Behind, LevelKnown
  <2>4. CASE ~WEBHOOK
    <3>1. told' = None /\ mail' = NoMail
      BY <1>1, <2>2, <2>4 DEF Collect, AfterCollect
    <3> QED BY <1>0, <2>2, <3>1 DEF Behind, LevelKnown, NoMail
  <2> QED BY <2>3, <2>4
<1>2. CASE PostSucceeds
  BY <1>0, <1>2
     DEF PostSucceeds, Sent, SendsHealth, NoMail, Behind, LevelKnown, worldVars, TypeOK,
         Level, OK, WARNING, CRITICAL
<1>3. CASE PostFails
  BY <1>0, <1>3
     DEF PostFails, PostLost, Sent, SendsHealth, NoMail, Behind, LevelKnown, worldVars, TypeOK
<1>4. CASE PostRaises
  BY <1>0, <1>4
     DEF PostRaises, PostLost, SendsHealth, NoMail, Behind, LevelKnown, worldVars, TypeOK
<1>5. CASE Start \/ CollectRaises \/ Publish \/ Tick
  <2>1. mail = NoMail
    BY <1>0, <1>5 DEF TypeOK, Start, CollectRaises, Publish, Tick
  <2> QED BY <2>1, <1>5, <1>b DEF Start, CollectRaises, Publish, Tick, worldVars
<1>6. CASE Exit \/ Killed \/ Boot
  BY <1>6, <1>c DEF Exit, Killed, Boot, worldVars
<1>7. CASE LevelChanges \/ Upgrade \/ CheckSucceeds \/ CheckFails \/ CheckCut \/ SigTerm
  BY <1>7, <1>a
     DEF LevelChanges, Upgrade, CheckSucceeds, CheckFails, CheckCut, SigTerm, checkUntouched,
         worldVars
<1>8. CASE UNCHANGED vars
  BY <1>8, <1>a DEF vars
<1> QED BY <1>1, <1>2, <1>3, <1>4, <1>5, <1>6, <1>7, <1>8 DEF Next

(***************************************************************************)
(* A receiver that missed nothing knows on which side of the floor the     *)
(* unit is, as decide() and docs/alerts.md have it.                        *)
(***************************************************************************)
THEOREM ReceiverKnows == Spec => []ReceiverInStep
<1>1. ReceiverInv => ReceiverInStep
  BY ExporterAssumption DEF ReceiverInv, LevelKnown, ReceiverInStep, TypeOK, Level, OK, WARNING,
                            CRITICAL
<1> QED BY <1>1, ReceiverInit, ReceiverStep, PTL DEF Spec

(***************************************************************************)
(* It knows more, because decide() goes beyond the documents' sentence:    *)
(* while the unit is above the floor, also which level it is at.           *)
(***************************************************************************)
THEOREM ReceiverKnowsLevel == Spec => []LevelKnown
<1>1. ReceiverInv => LevelKnown
  BY DEF ReceiverInv
<1> QED BY <1>1, ReceiverInit, ReceiverStep, PTL DEF Spec

THEOREM NoRepetition == Spec => []NeverToldTwice
<1>1. ReceiverInv => NeverToldTwice
  BY DEF ReceiverInv, Behind, NeverToldTwice
<1> QED BY <1>1, ReceiverInit, ReceiverStep, PTL DEF Spec

-----------------------------------------------------------------------------
(***************************************************************************)
(* The updates.  A package that was announced, and that no failed check    *)
(* has left out since, is still in the file while it is pending; and while *)
(* it is in the file, the process remembers it or remembers nothing.       *)
(***************************************************************************)
Known(p) ==
  announced[p] > 0 /\ p \notin dropped =>
    /\ announced[p] = 1
    /\ p \in lists => p \in file
    /\ p \in file => lastSecurity = None \/ p \in lastSecurity

UpdatesInv ==
  /\ TypeOK
  /\ file \subseteq Packages
  /\ \A p \in Packages : Known(p)

LEMMA UpdatesInit == Init => UpdatesInv
BY TypeInit DEF Init, UpdatesInv, TypeOK, Known

LEMMA UpdatesStep == UpdatesInv /\ [Next]_vars => UpdatesInv'
<1> SUFFICES ASSUME UpdatesInv, [Next]_vars, NEW p \in Packages PROVE Known(p)'
  BY TypeStep DEF UpdatesInv, TypeOK
<1>0. TypeOK /\ TypeOK' /\ Known(p)
  BY TypeStep DEF UpdatesInv
<1>a. CASE UNCHANGED <<lists, file, announced, dropped>> /\ lastSecurity' \in {lastSecurity, None}
  BY <1>0, <1>a DEF Known
<1>1. CASE Upgrade
  BY <1>0, <1>1 DEF Upgrade, Forget, Known, TypeOK
<1>2. CASE CheckSucceeds
  BY <1>0, <1>2 DEF CheckSucceeds, checkUntouched, Refresh, Forget, Known, TypeOK
<1>3. CASE CheckFails
  BY <1>0, <1>3 DEF CheckFails, checkUntouched, Refresh, Known, TypeOK
<1>4. CASE CheckCut
  BY <1>0, <1>4 DEF CheckCut, checkUntouched, Refresh, Forget, Known, TypeOK
<1>5. CASE Collect
  <2>1. /\ file' = file /\ lists' = lists /\ dropped' = dropped
        /\ lastSecurity' = file
        /\ announced'[p] = IF p \in mail'.updates /\ announced[p] < 2
                           THEN announced[p] + 1 ELSE announced[p]
    BY <1>0, <1>5 DEF Collect, Remember, worldVars, TypeOK
  <2>2. p \in mail'.updates => lastSecurity # None /\ p \in file /\ p \notin lastSecurity
    BY <1>5 DEF Collect, AfterCollect, NoMail, UpdatesAlert
  <2>3. announced[p] \in 0 .. 2
    BY <1>0 DEF TypeOK
  <2> QED BY <1>0, <2>1, <2>2, <2>3 DEF Known
<1>6. CASE Boot
  BY <1>0, <1>6 DEF Boot, Down, Known, TypeOK
<1>7. CASE LevelChanges \/ Start \/ CollectRaises \/ Tick \/ SigTerm \/ Publish
  BY <1>7, <1>a
     DEF LevelChanges, Start, CollectRaises, Tick, SigTerm, Publish, worldVars, updateHistory
<1>8. CASE PostSucceeds \/ PostFails \/ PostRaises
  BY <1>8, <1>a DEF PostSucceeds, PostFails, PostRaises, worldVars, updateHistory
<1>9. CASE Exit \/ Killed
  BY <1>9, <1>a DEF Exit, Killed, Down, worldVars, updateHistory
<1>10. CASE UNCHANGED vars
  BY <1>10, <1>a DEF vars
<1> QED
  BY <1>1, <1>2, <1>3, <1>4, <1>5, <1>6, <1>7, <1>8, <1>9, <1>10 DEF Next

(***************************************************************************)
(* A pending security package is announced once, unless a check failed     *)
(* and left it out.                                                        *)
(***************************************************************************)
THEOREM UpdatesAnnouncedOnce == Spec => []AnnouncedOnce
<1>1. UpdatesInv => AnnouncedOnce
  <2> SUFFICES ASSUME UpdatesInv, NEW p \in Packages PROVE announced[p] <= 1 \/ p \in dropped
    BY DEF AnnouncedOnce
  <2>1. announced[p] \in 0 .. 2 /\ Known(p)
    BY DEF UpdatesInv, TypeOK
  <2> QED BY <2>1 DEF Known
<1> QED BY <1>1, UpdatesInit, UpdatesStep, PTL DEF Spec

-----------------------------------------------------------------------------
(***************************************************************************)
(* The counters of the page.  What is counted as sent or failed, and what  *)
(* still waits, was decided by this process; the alerts that are in none   *)
(* of the three were raised away.                                          *)
(***************************************************************************)
Waiting == (IF mail.health # None THEN 1 ELSE 0) + (IF mail.updates # {} THEN 1 ELSE 0)

NeverOvercounted == decided < COUNT_MAX => sent + failed + Waiting <= decided

CountInv == TypeOK /\ NeverOvercounted

LEMMA CountInit == Init => CountInv
BY TypeInit DEF Init, CountInv, NeverOvercounted, Waiting, NoMail

LEMMA CountStep == CountInv /\ [Next]_vars => CountInv'
<1> SUFFICES ASSUME CountInv, [Next]_vars PROVE NeverOvercounted'
  BY TypeStep DEF CountInv
<1>0. TypeOK /\ TypeOK' /\ NeverOvercounted
  BY TypeStep DEF CountInv
<1>t. /\ sent \in 0 .. COUNT_MAX /\ failed \in 0 .. COUNT_MAX /\ decided \in 0 .. COUNT_MAX
      /\ COUNT_MAX \in Nat \ {0} /\ Waiting \in 0 .. 2
  BY <1>0, ExporterAssumption DEF TypeOK, Waiting
<1>a. CASE UNCHANGED <<mail, sent, failed, decided>>
  BY <1>0, <1>a DEF NeverOvercounted, Waiting
<1>1. CASE Collect
  <2>1. sent' = sent /\ failed' = failed /\ mail = NoMail
    BY <1>0, <1>1 DEF Collect, TypeOK
  <2>2. decided' = IF mail'.health # None /\ mail'.updates # {} THEN Up(Up(decided))
                   ELSE IF mail' # NoMail THEN Up(decided) ELSE decided
    BY <1>1 DEF Collect
  <2>3. mail' # NoMail <=> mail'.health # None \/ mail'.updates # {}
    BY <1>0 DEF TypeOK, NoMail
  <2>4. decided < COUNT_MAX => sent + failed <= decided
    BY <1>0, <1>t, <2>1 DEF NeverOvercounted, Waiting, NoMail
  <2> QED BY <1>t, <2>1, <2>2, <2>3, <2>4 DEF NeverOvercounted, Waiting, Up
<1>2. CASE PostSucceeds \/ PostFails
  <2>1. /\ mail # NoMail /\ mail' = Sent /\ decided' = decided
        /\ \/ sent' = Up(sent) /\ failed' = failed
           \/ sent' = sent /\ failed' = Up(failed)
    BY <1>2 DEF PostSucceeds, PostFails
  <2>2. Waiting' = Waiting - 1
    BY <1>0, <2>1 DEF TypeOK, Waiting, Sent, SendsHealth, NoMail
  <2> QED BY <1>0, <1>t, <2>1, <2>2 DEF NeverOvercounted, Up
<1>3. CASE PostRaises
  <2>1. Waiting' = 0 /\ UNCHANGED <<sent, failed, decided>>
    BY <1>3 DEF PostRaises, Waiting, NoMail, counters
  <2> QED BY <1>0, <1>t, <2>1 DEF NeverOvercounted
<1>4. CASE Exit \/ Killed \/ Boot
  <2>1. sent' = 0 /\ failed' = 0 /\ decided' = 0 /\ Waiting' = 0
    BY <1>4 DEF Exit, Killed, Boot, Down, Waiting, NoMail
  <2> QED BY <2>1 DEF NeverOvercounted
<1>5. CASE \/ LevelChanges \/ Upgrade \/ CheckSucceeds \/ CheckFails \/ CheckCut
           \/ Start \/ CollectRaises \/ Publish \/ Tick \/ SigTerm
  BY <1>5, <1>a
     DEF LevelChanges, Upgrade, CheckSucceeds, CheckFails, CheckCut, checkUntouched, Start,
         CollectRaises, Publish, Tick, SigTerm, counters
<1>6. CASE UNCHANGED vars
  BY <1>6, <1>a DEF vars
<1> QED BY <1>1, <1>2, <1>3, <1>4, <1>5, <1>6 DEF Next

(***************************************************************************)
(* Every alert that the counters of the page speak of was decided, and is  *)
(* counted once: an answer that is not HTTP makes them too small, never    *)
(* too large.                                                              *)
(***************************************************************************)
THEOREM CountsNothingTwice == Spec => []NeverOvercounted
<1>1. CountInv => NeverOvercounted
  BY DEF CountInv
<1> QED BY <1>1, CountInit, CountStep, PTL DEF Spec

-----------------------------------------------------------------------------
(***************************************************************************)
(* The scraper and the network leave the exporter alone, so what was       *)
(* proved of it holds where its page is read.                              *)
(***************************************************************************)
LEMMA AlertingStep == [AlertingNext]_allVars => [Next]_vars
BY DEF AlertingNext, Scrape, NetworkChanges, allVars

(* The exporter's fairness is a conjunct of AlertingSpec. *)
LEMMA ExporterInPlace == AlertingSpec => FairSpec
<1>1. AlertingInit => Init
  BY DEF AlertingInit
<1> QED BY <1>1, AlertingStep, PTL DEF AlertingSpec, FairSpec, Spec

(***************************************************************************)
(* Rules and dashboard.  A rule is pending only while its expression held  *)
(* at the last scrape, so that of the rules about the level at most one is *)
(* pending; while it is the critical one the panel is red, and while the   *)
(* unit cannot be read nothing else is.                                    *)
(***************************************************************************)
OneRule == \A r, q \in HealthRule : held[r] > 0 /\ held[q] > 0 => r = q

PanelAgrees ==
  /\ held["Critical"] > 0 => panel = CRITICAL
  /\ held["Warning"] > 0 => panel = WARNING

AlertingInv ==
  /\ AlertingTypeOK
  /\ \A r \in HealthRule : held[r] > 0 => Holds(r, up, series)
  /\ series # None => panel = series

LEMMA HeldType ==
  ASSUME AlertingTypeOK, NEW r \in HealthRule, NEW u, NEW l
  PROVE  /\ Held(r, u, l) \in 0 .. HOLDS_FOR[r]
         /\ Held(r, u, l) > 0 => Holds(r, u, l)
<1>1. held[r] \in 0 .. HOLDS_FOR[r] /\ HOLDS_FOR[r] \in Nat \ {0}
  BY AlertingAssumption DEF AlertingTypeOK
<1>2. CASE Holds(r, u, l)
  BY <1>1, <1>2 DEF Held, Firing
<1>3. CASE ~Holds(r, u, l)
  BY <1>1, <1>3 DEF Held
<1> QED BY <1>2, <1>3

LEMMA AlertingStart == AlertingInit => AlertingInv
<1> SUFFICES ASSUME AlertingInit PROVE AlertingInv
  OBVIOUS
<1>1. \A r \in HealthRule : held[r] = 0 /\ 0 \in 0 .. HOLDS_FOR[r]
  BY AlertingAssumption DEF AlertingInit
<1> QED BY <1>1 DEF AlertingInit, AlertingInv, AlertingTypeOK

LEMMA AlertingKeeps == TypeOK /\ AlertingInv /\ [AlertingNext]_allVars => AlertingInv'
<1> SUFFICES ASSUME TypeOK, AlertingInv, [AlertingNext]_allVars PROVE AlertingInv'
  OBVIOUS
<1>1. CASE Scrape
  <2>1. up' \in {0, 1} /\ (up' = 0 => series' = None)
    BY <1>1 DEF Scrape
  <2>2. series' \in Level \cup {None}
    BY <1>1 DEF Scrape, ServedLevel, TypeOK
  <2>3. panel' \in Level \cup {None} /\ (series' # None => panel' = series')
    BY <1>1, <2>2 DEF Scrape, AlertingInv, AlertingTypeOK
  <2>4. \A r \in HealthRule : held'[r] = Held(r, up', series')
    BY <1>1 DEF Scrape
  <2>5. \A r \in HealthRule : /\ held'[r] \in 0 .. HOLDS_FOR[r]
                              /\ held'[r] > 0 => Holds(r, up', series')
    BY <2>4, HeldType DEF AlertingInv
  <2>6. cut' \in BOOLEAN
    BY <1>1 DEF Scrape, AlertingInv, AlertingTypeOK
  <2> QED BY <2>1, <2>2, <2>3, <2>5, <2>6 DEF AlertingInv, AlertingTypeOK, Holds
<1>2. CASE NetworkChanges
  BY <1>2 DEF NetworkChanges, scraper, AlertingInv, AlertingTypeOK, Holds
<1>3. CASE UNCHANGED <<cut, scraper>>
  BY <1>3 DEF scraper, AlertingInv, AlertingTypeOK, Holds
<1> QED BY <1>1, <1>2, <1>3 DEF AlertingNext, allVars

LEMMA AlertingInvariant == AlertingSpec => []AlertingInv
<1>1. AlertingSpec => []TypeOK
  BY ExporterInPlace, ExporterTypes, PTL DEF FairSpec
<1> QED BY <1>1, AlertingStart, AlertingKeeps, PTL DEF AlertingSpec

(***************************************************************************)
(* The variables of the scraper keep their types: what is absent from the  *)
(* page is absent from the series, and no rule is pending for longer than  *)
(* it has to be.                                                           *)
(***************************************************************************)
THEOREM AlertingTypes == AlertingSpec => []AlertingTypeOK
<1>1. AlertingInv => AlertingTypeOK
  BY DEF AlertingInv
<1> QED BY <1>1, AlertingInvariant, PTL

(***************************************************************************)
(* Of the rules about health at most one is pending, and the health panel  *)
(* shows what it is about: rules.yml against the dashboard.                *)
(***************************************************************************)
THEOREM OneRuleAtATime == AlertingSpec => [](OneRule /\ PanelAgrees)
<1>1. ASSUME AlertingInv PROVE OneRule /\ PanelAgrees
  <2>1. \A r \in HealthRule : held[r] > 0 => Holds(r, up, series)
    BY <1>1 DEF AlertingInv
  <2>2. (up = 0 => series = None) /\ (series # None => panel = series)
        /\ series \in Level \cup {None}
    BY <1>1 DEF AlertingInv, AlertingTypeOK
  <2>3. "Critical" \in HealthRule /\ "Warning" \in HealthRule
    BY DEF HealthRule
  <2>4. OneRule
    BY <2>1, <2>2, ExporterAssumption
       DEF OneRule, HealthRule, Holds, Level, OK, WARNING, CRITICAL
  <2>5. PanelAgrees
    BY <2>1, <2>2, <2>3, ExporterAssumption
       DEF PanelAgrees, Holds, Level, OK, WARNING, CRITICAL
  <2> QED BY <2>4, <2>5
<1> QED BY <1>1, AlertingInvariant, PTL

=============================================================================
