-------------------------- MODULE GpsdSessionProofs --------------------------
(***************************************************************************)
(* How long a session of the gpsd collector can last, and what it returns, *)
(* for every timeout, interval, set of scenarios and number of cycles.     *)
(***************************************************************************)
EXTENDS GpsdSession, TLAPS

(***************************************************************************)
(* The bound is not inductive: what holds at every moment is that the      *)
(* recv() under way was entered before the deadline, so that it gives up   *)
(* before twice the timeout, and that the clock does not pass it.          *)
(***************************************************************************)
Timers ==
  /\ clock \in Nat /\ give_up \in Nat
  /\ client \in {"connects", "reads", "done"}
  /\ client = "connects" => clock <= TIMEOUT
  /\ client = "reads" => clock <= give_up /\ give_up < 2 * TIMEOUT
  /\ client = "done" => clock < 2 * TIMEOUT

(* The session starts with the clock at zero. *)
LEMMA TimersInit == Init => Timers
BY TimeAssumption DEF Init, Connecting, Timers

(* Every step of the client, the server and the network keeps the timers. *)
LEMMA TimersNext == Timers /\ [Next]_vars => Timers'
<1> SUFFICES ASSUME Timers, [Next]_vars PROVE Timers'
  OBVIOUS
<1> USE TimeAssumption DEF Timers
<1>1. CASE ReceiverChanges \/ StartWatch \/ NextCycle
  BY <1>1 DEF ReceiverChanges, StartWatch, NextCycle, clientVars
<1>2. CASE Arrive \/ ServerEnds \/ Reset
  BY <1>2 DEF Arrive, ServerEnds, Reset, clientVars
<1>3. CASE ConnectFails
  BY <1>3 DEF ConnectFails, Finish
<1>4. CASE Connect
  BY <1>4 DEF Connect
<1>5. CASE Recv
  <2> DEFINE over == Satisfied(ParseStream(arrived)) \/ clock >= TIMEOUT
  <2>1. client = "reads" /\ clock' = clock
    BY <1>5 DEF Recv
  <2>2. CASE over
    <3>1. client' = "done" /\ give_up' = give_up
      BY <1>5, <2>2 DEF Recv, Finish
    <3> QED BY <2>1, <3>1
  <2>3. CASE ~over
    <3>1. client' = client /\ give_up' = clock + TIMEOUT /\ clock < TIMEOUT
      BY <1>5, <2>3 DEF Recv
    <3> QED BY <2>1, <3>1
  <2> QED BY <2>2, <2>3
<1>6. CASE RecvTimesOut \/ RecvEnd \/ RecvReset
  BY <1>6 DEF RecvTimesOut, RecvEnd, RecvReset, Finish
<1>7. CASE NextSession
  BY <1>7 DEF NextSession
<1>8. CASE Tick
  BY <1>8 DEF Tick, clientVars
<1>9. CASE UNCHANGED vars
  BY <1>9 DEF vars, clientVars
<1> QED
  BY <1>1, <1>2, <1>3, <1>4, <1>5, <1>6, <1>7, <1>8, <1>9 DEF Next

(***************************************************************************)
(* However the replies trickle in, a session ends in less than twice the   *)
(* timeout: collect_gnss cannot hold up the refresh loop or a health check *)
(* for longer, whatever gpsd does.                                         *)
(***************************************************************************)
THEOREM SessionIsBounded == Spec => []SessionBounded
<1>1. Timers => SessionBounded
  BY TimeAssumption DEF Timers, SessionBounded
<1> QED
  BY <1>1, TimersInit, TimersNext, PTL DEF Spec

-----------------------------------------------------------------------------
(***************************************************************************)
(* What a session returns.  The server has written no more than the        *)
(* preamble and a SKY and a TPV for each cycle; the client has read no     *)
(* more than that, listens for a whole timeout, and ends for one of its    *)
(* reasons.                                                                *)
(***************************************************************************)
Stream ==
  /\ server = "listens" => written = 0 /\ cycles = <<>>
  /\ server = "idle" => written <= 2 /\ cycles = <<>>
  /\ server = "watches" => written <= 6 + 4 * Len(cycles)
  /\ client = "connects" => server = "listens"
  /\ client = "reads" => give_up >= TIMEOUT

Outcome ==
  client = "done" =>
    \/ gnss = Unreachable /\ (server = "listens" \/ link = "reset")
    \/ /\ gnss = Conclude(ParseStream(read))
       /\ clock >= TIMEOUT \/ link = "eof" \/ Satisfied(ParseStream(read))

Count(p) == p \div 2

Invariant == TypeOK /\ Stream /\ Outcome

(* The latest report of a class is the one with the highest number. *)
LEMMA LatestIs ==
  ASSUME NEW reports, NEW class, NEW l \in DOMAIN reports, DOMAIN reports \subseteq Int,
         reports[l].class = class,
         \A j \in DOMAIN reports : reports[j].class = class => j <= l
  PROVE  Has(reports, class) /\ Latest(reports, class) = reports[l]
<1> DEFINE P(i) == /\ reports[i].class = class
                   /\ \A j \in DOMAIN reports : reports[j].class = class => j <= i
<1>1. P(l)
  OBVIOUS
<1>2. ASSUME NEW i \in DOMAIN reports, P(i) PROVE i = l
  <2>1. i <= l /\ l <= i
    BY <1>2
  <2>2. i \in Int /\ l \in Int
    OBVIOUS
  <2> QED BY <2>1, <2>2
<1>3. (CHOOSE i \in DOMAIN reports : P(i)) = l
  <2> HIDE DEF P
  <2> QED BY <1>1, <1>2
<1> QED BY <1>3 DEF Has, Latest

LEMMA PreambleIs ==
  /\ Len(Preamble) = 3
  /\ \A n \in 1 .. 3 : Preamble[n].class \notin {"TPV", "SKY"}
BY DEF Preamble

(* The reports in their order: the preamble, then SKY and TPV in turn. *)
LEMMA ReportIs ==
  ASSUME NEW n \in Nat \ {0}
  PROVE  /\ n <= 3 => Report(n).class \notin {"TPV", "SKY"}
         /\ \A i \in Nat : n = 2 * i + 2 /\ i > 0 => Report(n) = SkyReport(cycles[i])
         /\ \A i \in Nat : n = 2 * i + 3 /\ i > 0 => Report(n) = TpvReport(cycles[i])
         /\ n > 3 => \E i \in Nat : i > 0 /\ (n = 2 * i + 2 \/ n = 2 * i + 3)
<1>1. n <= 3 => Report(n).class \notin {"TPV", "SKY"}
  BY PreambleIs DEF Report
<1>2. ASSUME NEW i \in Nat, i > 0, n = 2 * i + 2 PROVE Report(n) = SkyReport(cycles[i])
  <2>1. (n - 3) % 2 = 1 /\ ((n - 3) + 1) \div 2 = i /\ ~(n <= 3)
    BY <1>2
  <2> QED BY <2>1, PreambleIs DEF Report
<1>3. ASSUME NEW i \in Nat, i > 0, n = 2 * i + 3 PROVE Report(n) = TpvReport(cycles[i])
  <2>1. (n - 3) % 2 # 1 /\ (n - 3) \div 2 = i /\ ~(n <= 3)
    BY <1>3
  <2> QED BY <2>1, PreambleIs DEF Report
<1>4. ASSUME n > 3 PROVE \E i \in Nat : i > 0 /\ (n = 2 * i + 2 \/ n = 2 * i + 3)
  <2>1. (n - 2) \div 2 \in Nat /\ (n - 2) \div 2 > 0
        /\ (n = 2 * ((n - 2) \div 2) + 2 \/ n = 2 * ((n - 2) \div 2) + 3)
    BY <1>4
  <2> QED BY <2>1
<1> QED BY <1>1, <1>2, <1>3, <1>4

(* The client never has more whole reports than were sent. *)
LEMMA CountIs ==
  ASSUME TypeOK, Stream, NEW p \in 0 .. arrived
  PROVE  /\ Count(p) \in Nat /\ Len(cycles) \in Nat /\ Count(p) <= 3 + 2 * Len(cycles)
         /\ DOMAIN ParseStream(p) = 1 .. Count(p)
         /\ \A n \in 1 .. Count(p) : ParseStream(p)[n] = Report(n)
<1>1. p \in Nat /\ written \in Nat /\ p <= written
  BY DEF TypeOK
<1>2. Len(cycles) \in Nat /\ (cycles = <<>> => Len(cycles) = 0)
  BY DEF TypeOK
<1>3. written <= 6 + 4 * Len(cycles)
  BY <1>1, <1>2 DEF TypeOK, Stream
<1>4. Count(p) \in Nat /\ Count(p) <= 3 + 2 * Len(cycles)
  BY <1>1, <1>2, <1>3 DEF Count
<1> QED BY <1>2, <1>4 DEF ParseStream, Count

(* A cycle more changes none of them. *)
LEMMA StreamKept ==
  ASSUME TypeOK, Stream, read' = read,
         NEW s, cycles' = cycles \/ cycles' = Append(cycles, s)
  PROVE  ParseStream(read)' = ParseStream(read)
<1>1. \A i \in 1 .. Len(cycles) : cycles'[i] = cycles[i]
  BY DEF TypeOK
<1>2. ASSUME NEW n \in 1 .. Count(read) PROVE Report(n)' = Report(n)
  <2>1. n \in Nat \ {0} /\ n <= 3 + 2 * Len(cycles) /\ Len(cycles) \in Nat
    BY CountIs DEF TypeOK
  <2>2. CASE n <= 3
    BY <2>2, PreambleIs DEF Report, Preamble
  <2>3. CASE n > 3
    <3>1. PICK i \in Nat : i > 0 /\ (n = 2 * i + 2 \/ n = 2 * i + 3)
      BY <2>1, <2>3, ReportIs
    <3>2. i \in 1 .. Len(cycles)
      BY <2>1, <3>1
    <3>3. cycles'[i] = cycles[i]
      BY <1>1, <3>2
    <3>4. CASE n = 2 * i + 2
      <4>1. (n - 3) % 2 = 1 /\ ((n - 3) + 1) \div 2 = i /\ ~(n <= 3)
        BY <3>1, <3>4
      <4> QED BY <3>3, <4>1, PreambleIs DEF Report, Preamble, SkyReport, UsedCount
    <3>5. CASE n = 2 * i + 3
      <4>1. (n - 3) % 2 # 1 /\ (n - 3) \div 2 = i /\ ~(n <= 3)
        BY <3>1, <3>5
      <4> QED BY <3>3, <4>1, PreambleIs DEF Report, Preamble, TpvReport, FixMode
    <3> QED BY <3>1, <3>4, <3>5
  <2> QED BY <2>1, <2>2, <2>3
<1> QED BY <1>2 DEF ParseStream, Count

(***************************************************************************)
(* What the client concludes, by the number of whole reports: nothing, an  *)
(* answer without a receiver, a SKY alone, or a TPV with the SKY before it *)
(* or after it.                                                            *)
(***************************************************************************)
Pair(p, i) ==
  LET j == IF Count(p) = 2 * i + 3 THEN i ELSE i + 1
  IN  /\ i \in 1 .. Len(cycles) /\ j \in 1 .. Len(cycles)
      /\ Count(p) = 2 * i + 3 \/ Count(p) = 2 * i + 4
      /\ Conclude(ParseStream(p)) =
           [reachable |-> TRUE, fix_mode |-> FixMode(cycles[i]),
            satellites_used |-> UsedCount(cycles[j])]

LEMMA Concluded ==
  ASSUME TypeOK, Stream, NEW p \in 0 .. arrived
  PROVE  \/ Count(p) = 0 /\ Conclude(ParseStream(p)) = Unreachable
         \/ /\ Count(p) \in 1 .. 3
            /\ Conclude(ParseStream(p)) =
                 [reachable |-> TRUE, fix_mode |-> 0, satellites_used |-> 0]
         \/ /\ Count(p) = 4 /\ 1 \in 1 .. Len(cycles)
            /\ Conclude(ParseStream(p)) =
                 [reachable |-> TRUE, fix_mode |-> 0, satellites_used |-> UsedCount(cycles[1])]
         \/ \E i \in Nat : Pair(p, i)
<1> DEFINE reports == ParseStream(p)
<1>1. /\ Count(p) \in Nat /\ Len(cycles) \in Nat /\ Count(p) <= 3 + 2 * Len(cycles)
      /\ DOMAIN reports = 1 .. Count(p)
      /\ \A n \in 1 .. Count(p) : reports[n] = Report(n)
  BY CountIs
<1>2. reports = <<>> <=> Count(p) = 0
  <2>1. Count(p) = 0 => reports = <<>>
    BY <1>1 DEF ParseStream, Count
  <2>2. reports = <<>> => 1 .. Count(p) = {}
    BY <1>1
  <2> QED BY <2>1, <2>2, <1>1
<1> HIDE DEF reports
<1>3. \A n \in 1 .. Count(p) : n <= 3 => reports[n].class \notin {"TPV", "SKY"}
  BY <1>1, ReportIs
<1>4. \A i \in Nat : i > 0 /\ 2 * i + 2 <= Count(p) => reports[2 * i + 2] = SkyReport(cycles[i])
  <2> TAKE i \in Nat
  <2> HAVE i > 0 /\ 2 * i + 2 <= Count(p)
  <2> DEFINE n == 2 * i + 2
  <2>1. n \in 1 .. Count(p) /\ n \in Nat \ {0}
    BY <1>1
  <2>2. Report(n) = SkyReport(cycles[i])
    BY <2>1, ReportIs
  <2> QED BY <1>1, <2>1, <2>2
<1>5. \A i \in Nat : i > 0 /\ 2 * i + 3 <= Count(p) => reports[2 * i + 3] = TpvReport(cycles[i])
  <2> TAKE i \in Nat
  <2> HAVE i > 0 /\ 2 * i + 3 <= Count(p)
  <2> DEFINE n == 2 * i + 3
  <2>1. n \in 1 .. Count(p) /\ n \in Nat \ {0}
    BY <1>1
  <2>2. Report(n) = TpvReport(cycles[i])
    BY <2>1, ReportIs
  <2> QED BY <1>1, <2>1, <2>2
<1>6. \A n \in 1 .. Count(p) : n > 3 =>
        \E i \in Nat : i > 0 /\ (n = 2 * i + 2 \/ n = 2 * i + 3)
  <2> TAKE n \in 1 .. Count(p)
  <2>1. n \in Nat \ {0}
    BY <1>1
  <2>2. n > 3 => \E i \in Nat : i > 0 /\ (n = 2 * i + 2 \/ n = 2 * i + 3)
    BY <2>1, ReportIs
  <2> QED BY <2>2
<1>7. \A c \in {"TPV", "SKY"} : Count(p) <= 3 => ~Has(reports, c)
  BY <1>1, <1>3 DEF Has
<1>8. \A i \in Nat : SkyReport(cycles[i]).class = "SKY" /\ TpvReport(cycles[i]).class = "TPV"
                     /\ Used(SkyReport(cycles[i])) = UsedCount(cycles[i])
                     /\ TpvReport(cycles[i]).mode = FixMode(cycles[i])
  BY DEF SkyReport, TpvReport, Used
\* the last SKY and the last TPV
<1>9. ASSUME NEW i \in Nat, i > 0, Count(p) = 2 * i + 2 \/ Count(p) = 2 * i + 3
      PROVE  Has(reports, "SKY") /\ Latest(reports, "SKY") = SkyReport(cycles[i])
  <2> DEFINE l == 2 * i + 2
  <2>1. l \in 1 .. Count(p) /\ reports[l] = SkyReport(cycles[i]) /\ reports[l].class = "SKY"
    BY <1>1, <1>4, <1>8, <1>9
  <2>2. ASSUME NEW j \in 1 .. Count(p), reports[j].class = "SKY" PROVE j <= l
    <3>1. CASE j = 2 * i + 3
      <4>1. 2 * i + 3 <= Count(p)
        BY <1>1, <3>1
      <4>2. reports[j] = TpvReport(cycles[i])
        BY <1>5, <1>9, <3>1, <4>1
      <4> QED BY <1>8, <2>2, <4>2
    <3>2. CASE j # 2 * i + 3
      BY <1>1, <1>9, <3>2
    <3> QED BY <3>1, <3>2
  <2>3. l \in DOMAIN reports /\ DOMAIN reports \subseteq Int
    BY <1>1, <2>1
  <2>4. \A j \in DOMAIN reports : reports[j].class = "SKY" => j <= l
    BY <1>1, <2>2
  <2> HIDE DEF l
  <2> QED BY <2>1, <2>3, <2>4, LatestIs
<1>10. ASSUME NEW i \in Nat, i > 0, Count(p) = 2 * i + 3 \/ Count(p) = 2 * i + 4
       PROVE  Has(reports, "TPV") /\ Latest(reports, "TPV") = TpvReport(cycles[i])
  <2> DEFINE l == 2 * i + 3
  <2>0. l \in 1 .. Count(p) /\ 2 * i + 3 <= Count(p)
    BY <1>1, <1>10
  <2>1. l \in 1 .. Count(p) /\ reports[l] = TpvReport(cycles[i]) /\ reports[l].class = "TPV"
    BY <1>5, <1>8, <1>10, <2>0
  <2>2. ASSUME NEW j \in 1 .. Count(p), reports[j].class = "TPV" PROVE j <= l
    <3>1. CASE j = 2 * i + 4
      <4>1. i + 1 \in Nat /\ i + 1 > 0 /\ j = 2 * (i + 1) + 2
        BY <3>1
      <4>2. reports[j] = SkyReport(cycles[i + 1])
        BY <1>1, <1>4, <4>1
      <4> QED BY <1>8, <2>2, <4>1, <4>2
    <3>2. CASE j # 2 * i + 4
      BY <1>1, <1>10, <3>2
    <3> QED BY <3>1, <3>2
  <2>3. l \in DOMAIN reports /\ DOMAIN reports \subseteq Int
    BY <1>1, <2>1
  <2>4. \A j \in DOMAIN reports : reports[j].class = "TPV" => j <= l
    BY <1>1, <2>2
  <2> HIDE DEF l
  <2> QED BY <2>1, <2>3, <2>4, LatestIs
<1>11. CASE Count(p) = 0
  BY <1>2, <1>11 DEF Conclude, reports
<1>12. CASE Count(p) \in 1 .. 3
  <2>0. reports # <<>> /\ ~Has(reports, "TPV") /\ ~Has(reports, "SKY")
    BY <1>2, <1>7, <1>12
  <2>1. Conclude(reports) = [reachable |-> TRUE, fix_mode |-> 0, satellites_used |-> 0]
    BY <2>0 DEF Conclude, MergeReports
  <2> QED BY <1>12, <2>1 DEF reports
<1>13. CASE Count(p) = 4
  <2>1. Has(reports, "SKY") /\ Latest(reports, "SKY") = SkyReport(cycles[1])
    BY <1>9, <1>13
  <2>2. ~Has(reports, "TPV")
    <3> SUFFICES ASSUME NEW j \in 1 .. 4, reports[j].class = "TPV" PROVE FALSE
      BY <1>1, <1>13 DEF Has
    <3>1. j = 4
      BY <1>3, <1>13
    <3>2. reports[4] = SkyReport(cycles[1])
      BY <1>4, <1>13
    <3> QED BY <1>8, <3>1, <3>2
  <2>3. Conclude(reports) =
          [reachable |-> TRUE, fix_mode |-> 0, satellites_used |-> UsedCount(cycles[1])]
    <3>1. reports # <<>> /\ Used(Latest(reports, "SKY")) = UsedCount(cycles[1])
      BY <1>2, <1>8, <1>13, <2>1
    <3> QED BY <2>1, <2>2, <3>1 DEF Conclude, MergeReports
  <2> QED BY <1>1, <1>13, <2>3 DEF reports
<1>14. CASE Count(p) > 4
  <2>0. Count(p) \in 1 .. Count(p) /\ Count(p) > 3
    BY <1>1, <1>14
  <2>1. PICK k \in Nat : k > 0 /\ (Count(p) = 2 * k + 2 \/ Count(p) = 2 * k + 3)
    BY <1>6, <2>0, Zenon
  <2> DEFINE i == IF Count(p) = 2 * k + 2 THEN k - 1 ELSE k
  <2>2. i \in Nat /\ i > 0 /\ (Count(p) = 2 * i + 3 \/ Count(p) = 2 * i + 4)
    BY <1>14, <2>1
  <2>3. k = IF Count(p) = 2 * i + 3 THEN i ELSE i + 1
    BY <2>1
  <2>4. i \in 1 .. Len(cycles) /\ k \in 1 .. Len(cycles)
    BY <1>1, <2>1, <2>2
  <2> HIDE DEF i
  <2>5. Has(reports, "TPV") /\ Latest(reports, "TPV") = TpvReport(cycles[i])
    BY <1>10, <2>2
  <2>6. Has(reports, "SKY") /\ Latest(reports, "SKY") = SkyReport(cycles[k])
    BY <1>9, <2>1
  <2>7. Conclude(reports) = [reachable |-> TRUE, fix_mode |-> FixMode(cycles[i]),
                             satellites_used |-> UsedCount(cycles[k])]
    <3>1. reports # <<>> /\ Used(Latest(reports, "SKY")) = UsedCount(cycles[k])
      BY <1>2, <1>8, <1>14, <2>1, <2>6
    <3>2. Latest(reports, "TPV").mode = FixMode(cycles[i])
      BY <1>8, <2>2, <2>5
    <3> QED BY <2>5, <2>6, <3>1, <3>2 DEF Conclude, MergeReports
  <2>8. Pair(p, i)
    BY <2>2, <2>3, <2>4, <2>7 DEF Pair, reports
  <2> QED BY <2>2, <2>8
<1> QED BY <1>1, <1>11, <1>12, <1>13, <1>14

(* The type of what is concluded. *)
Status == [reachable : BOOLEAN, fix_mode : 0 .. 3, satellites_used : {0, SATELLITES}]

LEMMA CycleTypes ==
  ASSUME TypeOK, NEW i \in 1 .. Len(cycles)
  PROVE  /\ cycles[i] \in Scenarios \ {"silent"}
         /\ FixMode(cycles[i]) \in {1, 2, 3} /\ UsedCount(cycles[i]) \in {0, SATELLITES}
         /\ FixMode(cycles[i]) < 2 => cycles[i] = "nofix"
<1>1. cycles[i] \in Scenarios \ {"silent"}
  BY DEF TypeOK
<1>2. cycles[i] \in {"3dfix", "2dfix", "nofix"}
  BY <1>1, BoundAssumption DEF Scenario
<1> QED BY <1>1, <1>2 DEF FixMode, UsedCount

LEMMA ConcludedType ==
  ASSUME TypeOK, Stream, NEW p \in 0 .. arrived
  PROVE  Conclude(ParseStream(p)) \in Status
<1> DEFINE c == Conclude(ParseStream(p))
<1> SUFFICES c \in Status
  OBVIOUS
<1>0. \/ c = Unreachable
      \/ c = [reachable |-> TRUE, fix_mode |-> 0, satellites_used |-> 0]
      \/ /\ 1 \in 1 .. Len(cycles)
         /\ c = [reachable |-> TRUE, fix_mode |-> 0, satellites_used |-> UsedCount(cycles[1])]
      \/ \E i, j \in 1 .. Len(cycles) :
           c = [reachable |-> TRUE, fix_mode |-> FixMode(cycles[i]),
                satellites_used |-> UsedCount(cycles[j])]
  BY Concluded DEF Pair
<1> HIDE DEF c
<1>1. CASE c = Unreachable
  BY <1>1 DEF Unreachable, Status
<1>2. CASE c = [reachable |-> TRUE, fix_mode |-> 0, satellites_used |-> 0]
  BY <1>2 DEF Status
<1>3. CASE /\ 1 \in 1 .. Len(cycles)
           /\ c = [reachable |-> TRUE, fix_mode |-> 0, satellites_used |-> UsedCount(cycles[1])]
  <2>1. UsedCount(cycles[1]) \in {0, SATELLITES}
    BY <1>3, CycleTypes
  <2> QED BY <1>3, <2>1 DEF Status
<1>4. ASSUME NEW i \in 1 .. Len(cycles), NEW j \in 1 .. Len(cycles),
             c = [reachable |-> TRUE, fix_mode |-> FixMode(cycles[i]),
                  satellites_used |-> UsedCount(cycles[j])]
      PROVE  c \in Status
  <2>1. FixMode(cycles[i]) \in {1, 2, 3} /\ UsedCount(cycles[j]) \in {0, SATELLITES}
    BY CycleTypes
  <2> QED BY <1>4, <2>1 DEF Status
<1> QED BY <1>0, <1>1, <1>2, <1>3, <1>4

-----------------------------------------------------------------------------
(* The invariant holds, step by step. *)

LEMMA InvariantInit == Init => Invariant
<1> SUFFICES ASSUME Init PROVE Invariant
  OBVIOUS
<1>1. TypeOK
  BY BoundAssumption DEF Init, Connecting, TypeOK, NotYet
<1>2. Stream /\ Outcome
  BY DEF Init, Connecting, Stream, Outcome
<1> QED BY <1>1, <1>2 DEF Invariant

(* Nothing read changes while the cycles stay, so neither does what it means. *)
LEMMA SameStream ==
  ASSUME cycles' = cycles
  PROVE  /\ read' = read => ParseStream(read)' = ParseStream(read)
         /\ read' = arrived => ParseStream(read)' = ParseStream(arrived)
BY DEF ParseStream, Report, Preamble, SkyReport, TpvReport, UsedCount, FixMode

LEMMA SameOutcome ==
  ASSUME NEW r, ParseStream(read)' = r
  PROVE  /\ Conclude(ParseStream(read))' = Conclude(r)
         /\ Satisfied(ParseStream(read))' = Satisfied(r)
         /\ Unreachable' = Unreachable
BY DEF Conclude, MergeReports, Has, Latest, Used, Unreachable, Satisfied, Seen, Wanted

(* What a step of the server sends fits the preamble and the cycles. *)
LEMMA Sent ==
  ASSUME TypeOK, NEW n \in {0, 2}, SendReports(n)
  PROVE  /\ cycles' \in Seq(Scenarios \ {"silent"}) /\ Len(cycles') <= MAX_CYCLES
         /\ written' \in Nat /\ written' >= written
         /\ cycles' = cycles \/ cycles' = Append(cycles, scenario)
         /\ \A m \in Nat : written + 2 * n <= m + 4 * Len(cycles) =>
              written' <= m + 4 * Len(cycles')
<1> USE BoundAssumption
<1>1. written \in Nat /\ Len(cycles) \in Nat /\ scenario \in Scenarios
      /\ cycles \in Seq(Scenarios \ {"silent"}) /\ Len(cycles) <= MAX_CYCLES
  BY DEF TypeOK
<1>2. CASE scenario = "silent"
  <2>1. written' = written + 2 * n /\ cycles' = cycles
    BY <1>2 DEF SendReports
  <2> QED BY <1>1, <2>1
<1>3. CASE scenario # "silent"
  <2>1. /\ written' = written + 2 * (n + 2) /\ cycles' = Append(cycles, scenario)
        /\ Len(cycles) < MAX_CYCLES
    BY <1>3 DEF SendReports
  <2>2. cycles' \in Seq(Scenarios \ {"silent"}) /\ Len(cycles') = Len(cycles) + 1
    BY <1>1, <1>3, <2>1
  <2> QED BY <1>1, <2>1, <2>2
<1> QED BY <1>2, <1>3

LEMMA TypeStep == ASSUME TypeOK, Stream, [Next]_vars PROVE TypeOK'
<1> USE TimeAssumption, BoundAssumption
<1>1. CASE ReceiverChanges
  BY <1>1 DEF ReceiverChanges, TypeOK, networkVars, clientVars
<1>2. CASE StartWatch
  <2>1. SendReports(2)
    BY <1>2 DEF StartWatch
  <2>2. /\ cycles' \in Seq(Scenarios \ {"silent"}) /\ Len(cycles') <= MAX_CYCLES
        /\ written' \in Nat /\ written' >= written
    BY <2>1, Sent
  <2> QED BY <1>2, <2>2 DEF StartWatch, TypeOK, clientVars
<1>3. CASE NextCycle
  <2>1. SendReports(0)
    BY <1>3 DEF NextCycle
  <2>2. /\ cycles' \in Seq(Scenarios \ {"silent"}) /\ Len(cycles') <= MAX_CYCLES
        /\ written' \in Nat /\ written' >= written
    BY <2>1, Sent
  <2> QED BY <1>3, <2>2 DEF NextCycle, TypeOK, clientVars
<1>4. CASE Arrive
  BY <1>4 DEF Arrive, TypeOK, serverVars, clientVars
<1>5. CASE ServerEnds
  BY <1>5 DEF ServerEnds, TypeOK, serverVars, clientVars
<1>6. CASE Reset
  BY <1>6 DEF Reset, TypeOK, serverVars, clientVars
<1>7. ASSUME NEW st \in Status, Finish(st), UNCHANGED scenario, read' \in 0 .. arrived
      PROVE  TypeOK'
  BY <1>7 DEF Finish, Status, TypeOK, serverVars, networkVars
<1>8. Unreachable \in Status
  BY DEF Unreachable, Status
<1>9. read \in 0 .. arrived /\ arrived \in 0 .. arrived
  BY DEF TypeOK
<1>10. CASE ConnectFails
  BY <1>7, <1>8, <1>9, <1>10 DEF ConnectFails, Finish, serverVars
<1>11. CASE Connect
  BY <1>11 DEF Connect, TypeOK, Stream
<1>12. CASE RecvReset
  BY <1>7, <1>8, <1>9, <1>12 DEF RecvReset, Finish, serverVars
<1>13. CASE RecvTimesOut \/ RecvEnd
  BY <1>7, <1>9, <1>13, ConcludedType DEF RecvTimesOut, RecvEnd, Finish, serverVars
<1>14. CASE NextSession
  BY <1>14 DEF NextSession, TypeOK, NotYet
<1>15. CASE Tick
  BY <1>15 DEF Tick, TypeOK, serverVars, networkVars, clientVars
<1>16. CASE UNCHANGED vars
  BY <1>16 DEF vars, TypeOK, serverVars, networkVars, clientVars
<1>17. CASE Recv
  <2> DEFINE reports == ParseStream(arrived)
             over == Satisfied(reports) \/ clock >= TIMEOUT
  <2>1. /\ read' = arrived
        /\ UNCHANGED <<serverVars, networkVars, clock>>
        /\ IF over THEN Finish(Conclude(reports))
           ELSE give_up' = clock + TIMEOUT /\ UNCHANGED <<client, gnss>>
    BY <1>17 DEF Recv
  <2>2. CASE over
    BY <1>7, <1>9, <2>1, <2>2, ConcludedType DEF serverVars
  <2>3. CASE ~over
    BY <2>1, <2>3 DEF TypeOK, serverVars, networkVars
  <2> QED BY <2>2, <2>3
<1> QED
  BY <1>1, <1>2, <1>3, <1>4, <1>5, <1>6, <1>10, <1>11, <1>12, <1>13, <1>14, <1>15, <1>16, <1>17
     DEF Next

LEMMA StreamStep == ASSUME TypeOK, Stream, [Next]_vars PROVE Stream'
<1> USE TimeAssumption
<1>0. /\ Len(cycles) \in Nat /\ (cycles = <<>> => Len(cycles) = 0)
      /\ written \in Nat /\ arrived \in 0 .. written /\ clock \in Nat
      /\ server \in {"listens", "idle", "watches"}
  BY DEF TypeOK
<1>1. CASE ReceiverChanges \/ Arrive
  BY <1>1 DEF ReceiverChanges, Arrive, Stream, serverVars, networkVars, clientVars
<1>2. CASE StartWatch
  <2>1. SendReports(2) /\ server = "idle" /\ server' = "watches"
        /\ client' = client /\ give_up' = give_up
    BY <1>2 DEF StartWatch, clientVars
  <2>2. written + 2 * 2 <= 6 + 4 * Len(cycles)
    BY <1>0, <2>1 DEF Stream
  <2>3. written' <= 6 + 4 * Len(cycles')
    BY <2>1, <2>2, Sent
  <2> QED BY <2>1, <2>3 DEF Stream
<1>3. CASE NextCycle
  <2>1. SendReports(0) /\ server = "watches" /\ server' = "watches"
        /\ client' = client /\ give_up' = give_up
    BY <1>3 DEF NextCycle, clientVars
  <2>2. written + 2 * 0 <= 6 + 4 * Len(cycles)
    BY <1>0, <2>1 DEF Stream
  <2>3. written' <= 6 + 4 * Len(cycles')
    BY <2>1, <2>2, Sent
  <2> QED BY <2>1, <2>3 DEF Stream
<1>4. CASE ServerEnds \/ Reset
  <2>1. /\ written' \in 0 .. written /\ server # "listens" /\ client = "reads"
        /\ UNCHANGED <<serverVars, clientVars>>
    BY <1>0, <1>4 DEF ServerEnds, Reset
  <2> QED BY <1>0, <2>1 DEF Stream, serverVars, clientVars
<1>5. CASE ConnectFails \/ RecvTimesOut \/ RecvEnd \/ RecvReset
  BY <1>5 DEF ConnectFails, RecvTimesOut, RecvEnd, RecvReset, Finish, Stream, serverVars,
              networkVars
<1>6. CASE Connect
  BY <1>0, <1>6 DEF Connect, Stream
<1>7. CASE NextSession
  BY <1>7 DEF NextSession, Stream
<1>8. CASE Tick \/ UNCHANGED vars
  BY <1>8 DEF Tick, vars, Stream, serverVars, networkVars, clientVars
<1>9. CASE Recv
  <2> DEFINE over == Satisfied(ParseStream(arrived)) \/ clock >= TIMEOUT
  <2>1. UNCHANGED <<serverVars, networkVars, clock>> /\ client = "reads"
    BY <1>9 DEF Recv
  <2>2. CASE over
    <3>1. client' = "done"
      BY <1>9, <2>2 DEF Recv, Finish
    <3> QED BY <2>1, <3>1 DEF Stream, serverVars, networkVars
  <2>3. CASE ~over
    <3>1. client' = client /\ give_up' = clock + TIMEOUT
      BY <1>9, <2>3 DEF Recv
    <3>2. give_up' >= TIMEOUT
      BY <1>0, <3>1
    <3> QED BY <2>1, <3>1, <3>2 DEF Stream, serverVars, networkVars
  <2> QED BY <2>2, <2>3
<1> QED BY <1>1, <1>2, <1>3, <1>4, <1>5, <1>6, <1>7, <1>8, <1>9 DEF Next

(* What was concluded stays concluded: later reports are not read. *)
LEMMA OutcomeKept ==
  ASSUME TypeOK, Stream, Outcome, NEW s, cycles' = cycles \/ cycles' = Append(cycles, s),
         read' = read, client' = client, gnss' = gnss, clock' = clock, link' = link,
         server = "listens" => server' = "listens"
  PROVE  Outcome'
<1>1. ParseStream(read)' = ParseStream(read)
  BY StreamKept
<1>2. /\ Conclude(ParseStream(read))' = Conclude(ParseStream(read))
      /\ Satisfied(ParseStream(read))' = Satisfied(ParseStream(read))
      /\ Unreachable' = Unreachable
  BY <1>1, SameOutcome
<1>3. Outcome' =
        (client' = "done" =>
          \/ gnss' = Unreachable' /\ (server' = "listens" \/ link' = "reset")
          \/ /\ gnss' = Conclude(ParseStream(read))'
             /\ clock' >= TIMEOUT \/ link' = "eof" \/ Satisfied(ParseStream(read))')
  BY DEF Outcome
<1>4. Outcome =
        (client = "done" =>
          \/ gnss = Unreachable /\ (server = "listens" \/ link = "reset")
          \/ /\ gnss = Conclude(ParseStream(read))
             /\ clock >= TIMEOUT \/ link = "eof" \/ Satisfied(ParseStream(read)))
  BY DEF Outcome
<1> QED BY <1>2, <1>3, <1>4

(* A session that ends by itself returns what its reports say. *)
LEMMA OutcomeMade ==
  ASSUME cycles' = cycles, NEW r, ParseStream(read)' = r, gnss' = Conclude(r),
         clock' >= TIMEOUT \/ link' = "eof" \/ Satisfied(r)
  PROVE  Outcome'
<1>1. Conclude(ParseStream(read))' = Conclude(r) /\ Satisfied(ParseStream(read))' = Satisfied(r)
  BY SameOutcome
<1> QED BY <1>1 DEF Outcome

LEMMA OutcomeStep == ASSUME Invariant, [Next]_vars PROVE Outcome'
<1> USE TimeAssumption DEF Invariant
<1>1. CASE ReceiverChanges \/ Arrive
  BY <1>1, OutcomeKept DEF ReceiverChanges, Arrive, serverVars, networkVars, clientVars
<1>2. CASE StartWatch \/ NextCycle
  <2>1. /\ cycles' = cycles \/ cycles' = Append(cycles, scenario)
        /\ server # "listens"
        /\ UNCHANGED <<link, clientVars, clock>>
    BY <1>2, Sent DEF StartWatch, NextCycle
  <2> QED BY <2>1, OutcomeKept DEF clientVars
<1>3. CASE ServerEnds \/ Reset
  BY <1>3 DEF ServerEnds, Reset, Outcome, clientVars
<1>4. CASE Tick
  <2>1. client # "done" /\ client' = client
    BY <1>4 DEF Tick, clientVars
  <2> QED BY <2>1 DEF Outcome
<1>5. CASE UNCHANGED vars
  BY <1>5, OutcomeKept DEF vars, serverVars, networkVars, clientVars
<1>6. CASE ConnectFails \/ RecvReset
  <2>1. /\ gnss' = Unreachable /\ server' = server /\ link' = link
        /\ server = "listens" \/ link = "reset"
    BY <1>6 DEF ConnectFails, RecvReset, Finish, Stream, serverVars, networkVars
  <2>2. Unreachable' = Unreachable
    BY DEF Unreachable
  <2> QED BY <2>1, <2>2 DEF Outcome
<1>7. CASE Connect \/ NextSession
  BY <1>7 DEF Connect, NextSession, Outcome
<1>8. CASE RecvTimesOut \/ RecvEnd
  <2>1. /\ gnss' = Conclude(ParseStream(read)) /\ cycles' = cycles /\ read' = read
        /\ clock' = clock /\ link' = link /\ client = "reads"
        /\ clock >= give_up \/ link = "eof"
    BY <1>8 DEF RecvTimesOut, RecvEnd, Finish, serverVars, networkVars
  <2>2. clock' >= TIMEOUT \/ link' = "eof"
    <3>1. clock \in Nat /\ give_up \in Nat /\ give_up >= TIMEOUT
      BY <2>1 DEF TypeOK, Stream
    <3> QED BY <2>1, <3>1
  <2>3. ParseStream(read)' = ParseStream(read)
    BY <2>1, SameStream
  <2> QED BY <2>1, <2>2, <2>3, OutcomeMade
<1>9. CASE Recv
  <2> DEFINE reports == ParseStream(arrived)
             over == Satisfied(reports) \/ clock >= TIMEOUT
  <2>1. /\ read' = arrived /\ client = "reads" /\ clock' = clock /\ cycles' = cycles
        /\ IF over THEN Finish(Conclude(reports))
           ELSE give_up' = clock + TIMEOUT /\ UNCHANGED <<client, gnss>>
    BY <1>9 DEF Recv, serverVars
  <2>2. CASE over
    <3>1. gnss' = Conclude(reports) /\ (clock' >= TIMEOUT \/ Satisfied(reports))
      BY <2>1, <2>2 DEF Finish
    <3>2. ParseStream(read)' = reports
      BY <2>1, SameStream
    <3> HIDE DEF reports
    <3> QED BY <2>1, <3>1, <3>2, OutcomeMade
  <2>3. CASE ~over
    <3>1. client' # "done"
      BY <2>1, <2>3
    <3> QED BY <3>1 DEF Outcome
  <2> QED BY <2>2, <2>3
<1> QED BY <1>1, <1>2, <1>3, <1>4, <1>5, <1>6, <1>7, <1>8, <1>9 DEF Next

LEMMA InvariantStep == Invariant /\ [Next]_vars => Invariant'
<1> SUFFICES ASSUME Invariant, [Next]_vars PROVE Invariant'
  OBVIOUS
<1>1. TypeOK'
  BY TypeStep DEF Invariant
<1>2. Stream'
  BY StreamStep DEF Invariant
<1>3. Outcome'
  BY OutcomeStep
<1> QED BY <1>1, <1>2, <1>3 DEF Invariant

(* Together these hold at every moment of every session. *)
THEOREM AlwaysInvariant == Spec => []Invariant
BY InvariantInit, InvariantStep, PTL DEF Spec

-----------------------------------------------------------------------------
(***************************************************************************)
(* Every variable of a session keeps its type, and what collect_gnss       *)
(* returns is always a fix mode and a number of satellites.                *)
(***************************************************************************)
THEOREM TypeCorrect == Spec => []TypeOK
<1>1. Invariant => TypeOK
  BY DEF Invariant
<1> QED BY <1>1, AlwaysInvariant, PTL

(***************************************************************************)
(* A receiver with a fix is reported without one only when it had said so, *)
(* the connection failed or the deadline passed: for every timeout and any *)
(* number of cycles.                                                       *)
(***************************************************************************)
THEOREM FixIsNotMissed == Spec => []NoFixHasAReason
<1>1. ASSUME Invariant PROVE NoFixHasAReason
  <2> SUFFICES ASSUME client = "done", gnss.fix_mode < 2,
                      server # "listens", link = "up", ~(clock >= TIMEOUT)
               PROVE  \E i \in DOMAIN cycles : cycles[i] = "nofix"
    BY <1>1 DEF NoFixHasAReason, Invariant, TypeOK
  <2> USE <1>1 DEF Invariant
  <2>1. gnss = Conclude(ParseStream(read)) /\ Satisfied(ParseStream(read))
    BY DEF Outcome
  <2>2. read \in 0 .. arrived
    BY DEF TypeOK
  <2>3. /\ Count(read) \in Nat
        /\ DOMAIN ParseStream(read) = 1 .. Count(read)
        /\ \A n \in 1 .. Count(read) : ParseStream(read)[n] = Report(n)
    BY <2>2, CountIs
  <2>4. PICK n \in 1 .. Count(read) : Report(n).class = "TPV"
    BY <2>1, <2>3 DEF Satisfied, Seen, Wanted
  <2>5. n > 4
    <3>1. n \in Nat \ {0} /\ n > 3
      BY <2>3, <2>4, ReportIs
    <3>2. n # 4
      <4>1. Report(4) = SkyReport(cycles[1])
        BY ReportIs
      <4> QED BY <2>4, <4>1 DEF SkyReport
    <3> QED BY <3>1, <3>2
  <2>6. Count(read) > 4
    BY <2>3, <2>5
  <2>7. PICK i \in Nat : Pair(read, i)
    BY <2>2, <2>6, Concluded
  <2>8. i \in 1 .. Len(cycles) /\ gnss.fix_mode = FixMode(cycles[i])
    BY <2>1, <2>7 DEF Pair
  <2>9. cycles[i] = "nofix"
    BY <2>8, CycleTypes
  <2> QED BY <2>8, <2>9 DEF TypeOK
<1> QED BY <1>1, AlwaysInvariant, PTL

(***************************************************************************)
(* The fix returned is the one of the last whole TPV, and the satellites   *)
(* are those of its cycle or of the next.                                  *)
(***************************************************************************)
THEOREM FixIsOfOneMoment == Spec => []OneMoment
<1>1. ASSUME Invariant PROVE OneMoment
  <2> SUFFICES ASSUME client = "done", gnss.fix_mode # 0
               PROVE  \E i \in DOMAIN cycles :
                        /\ gnss.fix_mode = FixMode(cycles[i])
                        /\ \E j \in DOMAIN cycles \cap {i, i + 1} :
                             gnss.satellites_used = UsedCount(cycles[j])
                        /\ read \div 2 < Len(Preamble) + 2 * (i + 1)
    BY DEF OneMoment
  <2> USE <1>1 DEF Invariant
  <2>1. gnss # Unreachable
    BY DEF Unreachable
  <2>2. gnss = Conclude(ParseStream(read))
    BY <2>1 DEF Outcome
  <2>3. read \in 0 .. arrived
    BY DEF TypeOK
  <2>4. PICK i \in Nat : Pair(read, i)
    <3>1. ASSUME NEW u, gnss = [reachable |-> TRUE, fix_mode |-> 0, satellites_used |-> u]
          PROVE  FALSE
      BY <3>1
    <3> QED BY <2>1, <2>2, <2>3, <3>1, Concluded
  <2>5. PICK j \in {i, i + 1} :
          /\ j \in 1 .. Len(cycles)
          /\ Conclude(ParseStream(read)) =
               [reachable |-> TRUE, fix_mode |-> FixMode(cycles[i]),
                satellites_used |-> UsedCount(cycles[j])]
    BY <2>4 DEF Pair
  <2>6. i \in 1 .. Len(cycles) /\ Count(read) <= 2 * i + 4 /\ Count(read) \in Nat
    BY <2>3, <2>4, CountIs DEF Pair
  <2>7. gnss.fix_mode = FixMode(cycles[i]) /\ gnss.satellites_used = UsedCount(cycles[j])
    BY <2>2, <2>5
  <2>8. DOMAIN cycles = 1 .. Len(cycles)
    BY DEF TypeOK
  <2>9. read \div 2 < Len(Preamble) + 2 * (i + 1)
    <3>1. Count(read) < 3 + 2 * (i + 1)
      BY <2>6
    <3> QED BY <3>1, PreambleIs DEF Count
  <2> QED BY <2>5, <2>6, <2>7, <2>8, <2>9
<1> QED BY <1>1, AlwaysInvariant, PTL

=============================================================================
