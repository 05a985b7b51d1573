------------------------------ MODULE GpsdSession ------------------------------
(***************************************************************************)
(* One session of collect_gnss() (collectors/gpsd.py) with a gpsd, modelled *)
(* on the one of bench/fake_gpsd.py: VERSION on connect, DEVICES and WATCH *)
(* when the client asks to watch, then a SKY and a TPV at once and after   *)
(* every interval.                                                         *)
(*                                                                         *)
(* A report is two pieces, so that a read may end inside one.  The stream  *)
(* is never copied: the server has written the first `written` pieces of   *)
(* it, `arrived` of them have reached the client's socket and `read` of    *)
(* them are in its buffer.                                                 *)
(*                                                                         *)
(* Time is counted from the connection.  The client is prompt: no time     *)
(* passes while its recv() has something to return.  The server and the    *)
(* network may be as slow as they like.                                    *)
(***************************************************************************)
EXTENDS GpsdReports

CONSTANTS
  TIMEOUT,       \* gpsd.timeout_s
  INTERVAL,      \* FakeGpsd.interval_s
  Scenarios,     \* what the receiver may see: a subset of Scenario
  SATELLITES,    \* FakeGpsd.satellites_used
  MAX_CYCLES     \* bound: SKY and TPV pairs sent in a session

VARIABLES
  scenario,      \* what the receiver sees now
  cycles,        \* the scenario of each pair of reports sent
  server,        \* "listens", "idle" until the client watches, "watches"
  wake,          \* when the server's own recv() times out
  link,          \* "up", "eof" when the server has closed, "reset"
  written, arrived,
  client,        \* "connects", "reads", "done"
  read,
  give_up,       \* when the client's recv() times out
  clock,
  gnss           \* what collect_gnss returns

serverVars == <<scenario, cycles, server, wake>>
networkVars == <<link, written, arrived>>
clientVars == <<client, read, give_up, gnss>>
vars == <<serverVars, networkVars, clientVars, clock>>

-----------------------------------------------------------------------------
(* The stream. *)

Scenario == {"3dfix", "2dfix", "nofix", "silent"}

FixMode(s) == CASE s = "3dfix" -> 3 [] s = "2dfix" -> 2 [] s = "nofix" -> 1 [] s = "silent" -> 0
UsedCount(s) == IF s = "nofix" THEN 0 ELSE SATELLITES

SkyReport(s) == [class |-> "SKY", uSat |-> UsedCount(s)]
TpvReport(s) == [class |-> "TPV", mode |-> FixMode(s)]
Preamble == << [class |-> "VERSION"], [class |-> "DEVICES"], [class |-> "WATCH"] >>

(* The n-th report of the session. *)
Report(n) ==
  IF n <= Len(Preamble) THEN Preamble[n]
  ELSE LET k == n - Len(Preamble)
       IN  IF k % 2 = 1 THEN SkyReport(cycles[(k + 1) \div 2]) ELSE TpvReport(cycles[k \div 2])

(* parse_stream: whole lines only. *)
ParseStream(pieces) == [n \in 1 .. pieces \div 2 |-> Report(n)]

-----------------------------------------------------------------------------
ASSUME TimeAssumption == TIMEOUT \in Nat \ {0} /\ INTERVAL \in Nat \ {0}
ASSUME BoundAssumption ==
  MAX_CYCLES \in Nat /\ SATELLITES \in Nat /\ Scenarios \subseteq Scenario

NotYet == [reachable |-> FALSE, fix_mode |-> 0, satellites_used |-> 0]

Connecting ==
  /\ cycles = <<>> /\ server = "listens" /\ wake = 0
  /\ link = "up" /\ written = 0 /\ arrived = 0
  /\ client = "connects" /\ read = 0 /\ give_up = 0
  /\ clock = 0

Init == Connecting /\ scenario \in Scenarios /\ gnss = NotYet

-----------------------------------------------------------------------------
(* The server. *)

ReceiverChanges == \* the antenna, or the bench
  /\ \E s \in Scenarios \ {scenario} : scenario' = s
  /\ UNCHANGED <<cycles, server, wake, networkVars, clientVars, clock>>

(* _reports, sent at once to a client that watches. *)
SendReports(sent) ==
  IF scenario = "silent"
  THEN written' = written + 2 * sent /\ UNCHANGED cycles
  ELSE /\ Len(cycles) < MAX_CYCLES
       /\ cycles' = Append(cycles, scenario)
       /\ written' = written + 2 * (sent + 2)

(* _handle, on ?WATCH. *)
StartWatch ==
  /\ server = "idle" /\ link = "up"
  /\ SendReports(2)
  /\ server' = "watches" /\ wake' = clock + INTERVAL
  /\ UNCHANGED <<scenario, link, arrived, clientVars, clock>>

(* _serve_client: recv() timed out. *)
NextCycle ==
  /\ server = "watches" /\ link = "up" /\ clock >= wake
  /\ SendReports(0)
  /\ wake' = clock + INTERVAL
  /\ UNCHANGED <<scenario, server, link, arrived, clientVars, clock>>

-----------------------------------------------------------------------------
(* The network, and a gpsd that is stopped or crashes in the middle of a   *)
(* write.                                                                  *)

Arrive ==
  /\ link # "reset" /\ arrived < written
  /\ arrived' = arrived + 1
  /\ UNCHANGED <<serverVars, link, written, clientVars, clock>>

ServerEnds ==
  /\ link = "up" /\ server # "listens" /\ client = "reads"
  /\ \E n \in arrived .. written : written' = n
  /\ link' = "eof"
  /\ UNCHANGED <<serverVars, arrived, clientVars, clock>>

Reset ==
  /\ link = "up" /\ server # "listens" /\ client = "reads"
  /\ link' = "reset" /\ written' = arrived
  /\ UNCHANGED <<serverVars, arrived, clientVars, clock>>

-----------------------------------------------------------------------------
(* The client. *)

Finish(status) ==
  /\ client' = "done" /\ gnss' = status
  /\ UNCHANGED <<serverVars, networkVars, give_up, clock>>

(* create_connection: refused, or not answered within the timeout. *)
ConnectFails == client = "connects" /\ Finish(Unreachable) /\ UNCHANGED read

(* The connection stands: the server greets, the client asks to watch and  *)
(* takes its deadline.                                                     *)
Connect ==
  /\ client = "connects"
  /\ server' = "idle" /\ written' = 2
  /\ client' = "reads" /\ clock' = 0 /\ give_up' = TIMEOUT
  /\ UNCHANGED <<scenario, cycles, wake, link, arrived, read, gnss>>

Wanted == {"TPV", "SKY"}

Seen(reports) == { reports[i].class : i \in DOMAIN reports }

(* One report of what was asked for is enough. *)
Satisfied_BUG(reports) == Wanted \cap Seen(reports) # {}

Satisfied(reports) == Wanted \subseteq Seen(reports)

(* The deadline is forgotten: only a silence ends the session. *)
Recv_BUG ==
  /\ client = "reads" /\ read < arrived
  /\ read' = arrived
  /\ LET reports == ParseStream(arrived)
     IN  IF Satisfied(reports) THEN Finish(Conclude(reports))
         ELSE give_up' = clock + TIMEOUT /\ UNCHANGED <<client, gnss>>
  /\ UNCHANGED <<serverVars, networkVars, clock>>

(* recv() returns all there is; the loop ends when both classes were seen  *)
(* or the deadline has passed, and waits for a full timeout otherwise.     *)
Recv ==
  /\ client = "reads" /\ read < arrived
  /\ read' = arrived
  /\ LET reports == ParseStream(arrived)
     IN  IF Satisfied(reports) \/ clock >= TIMEOUT THEN Finish(Conclude(reports))
         ELSE give_up' = clock + TIMEOUT /\ UNCHANGED <<client, gnss>>
  /\ UNCHANGED <<serverVars, networkVars, clock>>

RecvTimesOut ==
  /\ client = "reads" /\ read = arrived /\ clock >= give_up
  /\ Finish(Conclude(ParseStream(read))) /\ UNCHANGED read

RecvEnd ==      \* an empty chunk
  /\ client = "reads" /\ link = "eof" /\ read = arrived /\ arrived = written
  /\ Finish(Conclude(ParseStream(read))) /\ UNCHANGED read

(* An OSError leaves _read_until with all that was read. *)
RecvReset ==
  /\ client = "reads" /\ link = "reset"
  /\ Finish(Unreachable) /\ UNCHANGED read

(* The next gather(), with a connection of its own. *)
NextSession ==
  /\ client = "done"
  /\ cycles' = <<>> /\ server' = "listens" /\ wake' = 0
  /\ link' = "up" /\ written' = 0 /\ arrived' = 0
  /\ client' = "connects" /\ read' = 0 /\ give_up' = 0
  /\ clock' = 0 /\ gnss' = NotYet
  /\ UNCHANGED scenario

Readable ==
  read < arrived \/ link = "reset" \/ (link = "eof" /\ arrived = written)

Tick ==
  /\ \/ client = "connects" /\ clock < TIMEOUT
     \/ client = "reads" /\ clock < give_up /\ ~Readable
  /\ clock' = clock + 1
  /\ UNCHANGED <<serverVars, networkVars, clientVars>>

Next ==
  \/ ReceiverChanges \/ StartWatch \/ NextCycle
  \/ Arrive \/ ServerEnds \/ Reset
  \/ ConnectFails \/ Connect
  \/ Recv \/ RecvTimesOut \/ RecvEnd \/ RecvReset
  \/ NextSession \/ Tick

Spec == Init /\ [][Next]_vars

-----------------------------------------------------------------------------
(***************************************************************************)
(* Properties.                                                             *)
(***************************************************************************)

TypeOK ==
  /\ scenario \in Scenarios
  /\ cycles \in Seq(Scenarios \ {"silent"}) /\ Len(cycles) <= MAX_CYCLES
  /\ server \in {"listens", "idle", "watches"} /\ wake \in Nat
  /\ link \in {"up", "eof", "reset"}
  /\ written \in Nat /\ arrived \in 0 .. written /\ read \in 0 .. arrived
  /\ client \in {"connects", "reads", "done"}
  /\ give_up \in Nat /\ clock \in Nat
  /\ gnss \in [reachable : BOOLEAN, fix_mode : 0 .. 3, satellites_used : {0, SATELLITES}]

(***************************************************************************)
(* _read_until has a deadline and a socket timeout of the same length, and *)
(* looks at the deadline only between two reads: however the replies       *)
(* trickle in, a session is over in less than twice gpsd.timeout_s.  (The  *)
(* health check, with 90 s in all, depends on it.)                         *)
(***************************************************************************)
SessionBounded == client # "connects" => clock < 2 * TIMEOUT

(***************************************************************************)
(* A receiver with a fix is not reported without one because the client    *)
(* stopped listening: only a receiver that said so, a connection that was  *)
(* refused or lost, or the deadline makes collect_gnss return no fix,      *)
(* which restarts gpsd and in the end reboots the host.                    *)
(***************************************************************************)
NoFixHasAReason ==
  client = "done" /\ gnss.fix_mode < 2 =>
    \/ server = "listens" \/ link # "up" \/ clock >= TIMEOUT
    \/ \E i \in DOMAIN cycles : cycles[i] = "nofix"

(***************************************************************************)
(* The fix returned is the one of the last TPV that was received whole,    *)
(* and the satellites are those of the same cycle or of the next: never a  *)
(* fix that the receiver had already said it lost, nor two halves of       *)
(* different moments.                                                      *)
(***************************************************************************)
OneMoment ==
  client = "done" /\ gnss.fix_mode # 0 =>
    \E i \in DOMAIN cycles :
      /\ gnss.fix_mode = FixMode(cycles[i])
      /\ \E j \in DOMAIN cycles \cap {i, i + 1} : gnss.satellites_used = UsedCount(cycles[j])
      /\ read \div 2 < Len(Preamble) + 2 * (i + 1)

=============================================================================
