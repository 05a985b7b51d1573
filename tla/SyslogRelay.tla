----------------------------- MODULE SyslogRelay -----------------------------
(***************************************************************************)
(* The exporter in syslog mode (metrics/syslog.py: run_forever,            *)
(* SyslogSender, frame): one message per interval to the relay, over TCP   *)
(* with one of two framings or over UDP, and nothing ever read back.       *)
(*                                                                         *)
(* A message is what it says about itself: its number and the count of     *)
(* failed sends it carries (mother_ticker_relay_send_failures).  On the    *)
(* wire a TCP frame is LEN pieces, because sendall() may stop inside it;   *)
(* the last piece holds the newline, the first one the octet count.  A     *)
(* connection can die without the sender knowing: sends go on succeeding   *)
(* into nothing until its kernel learns of it.                             *)
(*                                                                         *)
(* Definitions named ..._BUG are mistakes the runs must notice; nothing    *)
(* uses them.                                                              *)
(***************************************************************************)
EXTENDS Naturals, Sequences, FiniteSets

CONSTANTS
  Conns,          \* TCP connections that can exist at one time
  None,           \* Python's None
  LEN,            \* pieces of a frame
  BUFFER,         \* pieces the kernel takes before sendall() blocks
  MAX_MSG         \* bound: the later messages all have this number and leave no history

ASSUME RelayAssumption ==
  /\ Conns # {} /\ None \notin Conns
  /\ LEN \in Nat \ {0} /\ MAX_MSG \in Nat \ {0} /\ BUFFER \in Nat

VARIABLES
  mode,      \* "udp", or TCP with the framing "newline" or "octet-counted"
  pc,        \* "build", "send" or "wait"
  number,    \* messages built by this process, up to MAX_MSG
  message,   \* the message being sent
  sock,      \* SyslogSender._sock: None or a connection
  failed,    \* SyslogSender.failed, up to MAX_MSG
  conn,      \* per connection: "free", "open", "closed" (by us), "dead", "reset" (known dead)
  wire,      \* per connection: the pieces on their way
  pile,      \* per connection: the pieces the relay holds of an incomplete message
  datagrams, \* UDP messages in the network
  (* history, read by no action: *)
  received,  \* the messages the relay has read whole
  lost       \* the numbers of this process's messages whose send was counted as failed

relay == <<conn, wire, pile, datagrams, received>>
vars == <<mode, pc, number, message, sock, failed, conn, wire, pile, datagrams,
          received, lost>>

Message == [number : 1 .. MAX_MSG, failures : 0 .. MAX_MSG]

Up(n) == IF n < MAX_MSG THEN n + 1 ELSE n

Early(numbers) == numbers \ {MAX_MSG}
Read(m) == IF m.number < MAX_MSG THEN received \cup {m} ELSE received

(* frame(): the pieces of a message, in order. *)
Frame(m) == [i \in 1 .. LEN |-> [of |-> m, part |-> i]]

Init ==
  /\ mode \in {"udp", "newline", "octet-counted"}
  /\ pc = "build" /\ number = 0 /\ message = None
  /\ sock = None /\ failed = 0
  /\ conn = [c \in Conns |-> "free"]
  /\ wire = [c \in Conns |-> <<>>] /\ pile = [c \in Conns |-> <<>>]
  /\ datagrams = {}
  /\ received = {} /\ lost = {}

-----------------------------------------------------------------------------
(* The exporter's loop. *)

(* build(): the counter is read before this send. *)
Build ==
  /\ pc = "build"
  /\ number' = Up(number)
  /\ message' = [number |-> Up(number), failures |-> failed]
  /\ pc' = "send"
  /\ UNCHANGED <<mode, sock, failed, relay, lost>>

(* build() raises: nothing is sent and nothing is counted. *)
BuildRaises ==
  /\ pc = "build"
  /\ pc' = "wait"
  /\ UNCHANGED <<mode, number, message, sock, failed, relay, lost>>

(* The loop goes round with the message still in hand. *)
Done_BUG == pc' = "wait" /\ UNCHANGED message

Done == pc' = "wait" /\ message' = None

Connect ==
  /\ pc = "send" /\ sock = None
  /\ IF mode = "udp" THEN sock' = (CHOOSE c \in Conns : TRUE) /\ UNCHANGED conn
     ELSE \E c \in Conns :
            /\ conn[c] = "free"
            /\ conn' = [conn EXCEPT ![c] = "open"]
            /\ sock' = c
  /\ UNCHANGED <<mode, pc, number, message, failed, wire, pile, datagrams, received, lost>>

(* close(): what is on the wire still arrives. *)
Close(c) ==
  conn' = [conn EXCEPT ![c] = IF @ = "open" THEN "closed" ELSE "free"]

(* The socket is kept for the next message. *)
DropSocket_BUG == UNCHANGED <<conn, sock>>

DropSocket == Close(sock) /\ sock' = None

(* The send is tried again at once. *)
Failed_BUG == failed' = Up(failed) /\ lost' = lost \cup Early({message.number}) /\ UNCHANGED <<pc, message>>

(* The except branch of send(), apart from the socket. *)
Failed == failed' = Up(failed) /\ lost' = lost \cup Early({message.number}) /\ Done

(* A relay that cannot be reached is not worth counting. *)
ConnectFails_BUG ==
  /\ pc = "send" /\ sock = None
  /\ lost' = lost \cup Early({message.number}) /\ Done
  /\ UNCHANGED <<mode, number, failed, sock, relay>>

ConnectFails ==
  /\ pc = "send" /\ sock = None
  /\ Failed
  /\ UNCHANGED <<mode, number, sock, relay>>

SendSucceeds ==
  /\ pc = "send" /\ sock # None
  /\ IF mode = "udp"
     THEN datagrams' = datagrams \cup {message} /\ UNCHANGED wire
     ELSE /\ conn[sock] # "reset" /\ Len(wire[sock]) + LEN <= BUFFER
          /\ wire' = IF conn[sock] = "open"
                     THEN [wire EXCEPT ![sock] = @ \o Frame(message)] ELSE wire
          /\ UNCHANGED datagrams
  /\ Done
  /\ UNCHANGED <<mode, number, sock, failed, conn, pile, received, lost>>

(* sendall() stops after some of the pieces: a timeout, or a reset. *)
SendFails ==
  /\ pc = "send" /\ sock # None
  /\ \E n \in 0 .. LEN - 1 :
       /\ Len(wire[sock]) + n <= BUFFER
       /\ wire' = IF mode # "udp" /\ conn[sock] = "open"
                  THEN [wire EXCEPT ![sock] = @ \o SubSeq(Frame(message), 1, n)] ELSE wire
  /\ Failed
  /\ DropSocket
  /\ UNCHANGED <<mode, number, pile, datagrams, received>>

(* stop.wait(interval_s) *)
Tick ==
  /\ pc = "wait"
  /\ pc' = "build"
  /\ UNCHANGED <<mode, number, message, sock, failed, relay, lost>>

(***************************************************************************)
(* SIGTERM and the finally clause, or a kill; the kernel closes the socket *)
(* either way.  The messages still in the network are of an earlier        *)
(* process from now on and are no longer told apart.                       *)
(***************************************************************************)
Stale == [number |-> MAX_MSG, failures |-> 0]
Aged(pieces) == [i \in DOMAIN pieces |-> [pieces[i] EXCEPT !.of = Stale]]

Restart ==
  /\ pc' = "build" /\ number' = 0 /\ message' = None /\ failed' = 0 /\ lost' = {}
  /\ sock' = None
  /\ IF sock # None THEN Close(sock) ELSE UNCHANGED conn
  /\ wire' = [c \in Conns |-> Aged(wire[c])]
  /\ pile' = [c \in Conns |-> Aged(pile[c])]
  /\ datagrams' = { Stale : m \in datagrams }
  /\ received' = {}
  /\ UNCHANGED mode

-----------------------------------------------------------------------------
(* The network and the relay. *)

(* The relay's reading of a frame: up to the newline, or as long as it was announced. *)
Whole(pieces) ==
  IF mode = "newline" THEN pieces[Len(pieces)].part = LEN ELSE Len(pieces) = LEN

RelayReads(c) ==
  /\ wire[c] # <<>>
  /\ wire' = [wire EXCEPT ![c] = Tail(@)]
  /\ LET pieces == Append(pile[c], Head(wire[c]))
     IN  IF Whole(pieces)
         THEN /\ pile' = [pile EXCEPT ![c] = <<>>]
              /\ received' = Read(pieces[Len(pieces)].of)
         ELSE /\ pile' = [pile EXCEPT ![c] = pieces]
              /\ UNCHANGED received
  /\ UNCHANGED <<mode, pc, number, message, sock, failed, conn, datagrams, lost>>

(* The end of a connection we closed: the relay drops what is incomplete. *)
ConnectionEnds(c) ==
  /\ conn[c] = "closed" /\ wire[c] = <<>>
  /\ conn' = [conn EXCEPT ![c] = "free"]
  /\ pile' = [pile EXCEPT ![c] = <<>>]
  /\ UNCHANGED <<mode, pc, number, message, sock, failed, wire, datagrams, received, lost>>

(* The relay restarts or the path breaks: what was on the wire is gone. *)
ConnectionDies(c) ==
  /\ conn[c] \in {"open", "closed"}
  /\ conn' = [conn EXCEPT ![c] = IF sock = c THEN "dead" ELSE "free"]
  /\ wire' = [wire EXCEPT ![c] = <<>>]
  /\ pile' = [pile EXCEPT ![c] = <<>>]
  /\ UNCHANGED <<mode, pc, number, message, sock, failed, datagrams, received, lost>>

(* Our kernel learns of it: a reset comes back, or its retransmissions run out. *)
ResetArrives(c) ==
  /\ conn[c] = "dead"
  /\ conn' = [conn EXCEPT ![c] = "reset"]
  /\ UNCHANGED <<mode, pc, number, message, sock, failed, wire, pile, datagrams, received, lost>>

(* A datagram arrives (and may arrive again), or is lost. *)
DatagramArrives ==
  /\ \E m \in datagrams : received' = Read(m)
  /\ UNCHANGED <<mode, pc, number, message, sock, failed, conn, wire, pile, datagrams, lost>>

DatagramLost ==
  /\ \E m \in datagrams : datagrams' = datagrams \ {m}
  /\ UNCHANGED <<mode, pc, number, message, sock, failed, conn, wire, pile, received, lost>>

Next ==
  \/ Build \/ BuildRaises \/ Connect \/ ConnectFails \/ SendSucceeds \/ SendFails
  \/ Tick \/ Restart
  \/ \E c \in Conns : RelayReads(c)
  \/ \E c \in Conns : ConnectionEnds(c)
  \/ \E c \in Conns : ConnectionDies(c)
  \/ \E c \in Conns : ResetArrives(c)
  \/ DatagramArrives \/ DatagramLost

Spec == Init /\ [][Next]_vars

(***************************************************************************)
(* The loop goes on and every socket call ends within its 5 s; what is on  *)
(* a live wire arrives, and a dead connection is noticed in the end.       *)
(***************************************************************************)
Fairness ==
  /\ WF_vars(Build \/ BuildRaises) /\ WF_vars(Connect \/ ConnectFails)
  /\ WF_vars(SendSucceeds \/ SendFails) /\ WF_vars(Tick)
  /\ \A c \in Conns : WF_vars(RelayReads(c)) /\ WF_vars(ConnectionEnds(c))
                      /\ WF_vars(ResetArrives(c))

FairSpec == Spec /\ Fairness

-----------------------------------------------------------------------------
(* Properties. *)

Pieces == [of : Message, part : 1 .. LEN]

TypeOK ==
  /\ mode \in {"udp", "newline", "octet-counted"}
  /\ pc \in {"build", "send", "wait"}
  /\ number \in 0 .. MAX_MSG /\ failed \in 0 .. MAX_MSG
  /\ IF pc = "send" THEN message \in Message ELSE message = None
  /\ sock \in Conns \cup {None}
  /\ conn \in [Conns -> {"free", "open", "closed", "dead", "reset"}]
  /\ wire \in [Conns -> Seq(Pieces)] /\ pile \in [Conns -> Seq(Pieces)]
  /\ datagrams \subseteq Message /\ received \subseteq Message
  /\ lost \subseteq 1 .. MAX_MSG

(***************************************************************************)
(* Whatever sends failed half-way, a connection carries whole messages,    *)
(* one after the other, and at most one cut one, at its end: the relay     *)
(* never joins the start of one message to another.                        *)
(***************************************************************************)
Follows(x, y) ==
  IF y.part = LEN THEN x.part = 1 ELSE x.of = y.of /\ x.part = y.part + 1

NoMergedMessages ==
  \A c \in Conns :
    LET stream == pile[c] \o wire[c]
    IN  /\ stream # <<>> => stream[1].part = 1
        /\ \A i \in 2 .. Len(stream) : Follows(stream[i], stream[i - 1])

(***************************************************************************)
(* syslog.py: a failure is "surfaced as a metric on the next send".  A     *)
(* message the relay has read carries the number of all the sends of its   *)
(* process that failed before it.                                          *)
(***************************************************************************)
FailuresSurfaced ==
  \A m \in received :
      m.failures = Cardinality({ n \in lost : n < m.number })

(***************************************************************************)
(* The count never overstates: between two messages of one process, the    *)
(* relay has missed at least as many as the second reports failed since    *)
(* the first.  (It may understate: a send into a dead connection counts    *)
(* as sent.)                                                               *)
(***************************************************************************)
EveryFailureIsAGap ==
  \A m, n \in received :
    m.number < n.number =>
      /\ m.failures <= n.failures
      /\ n.failures - m.failures <= n.number - m.number - 1

(***************************************************************************)
(* Sockets, framings and restarts implement the log: a send that raises    *)
(* gives up the message in hand, which the relay then never has whole; and *)
(* whatever it does read, it reads of a message that was not given up,     *)
(* with the exact count of those before it that were.                      *)
(***************************************************************************)
Log ==
  INSTANCE RelayLog WITH
    MAX_MSG <- MAX_MSG, number <- number, lost <- lost, received <- received
LogSpec == Log!Spec

(***************************************************************************)
(* Once the relay stays reachable it hears from the unit again and again,  *)
(* however the connections died before: nobody restarts the exporter.      *)
(***************************************************************************)
Reachable ==
  /\ <>[][ ~( ConnectFails \/ BuildRaises \/ Restart \/ \E c \in Conns : ConnectionDies(c) ) ]_vars
  /\ <>[][ SendFails => conn[sock] = "reset" ]_vars

Hears == \E c \in Conns : RelayReads(c) /\ pile'[c] = <<>>

RelayHearsAgain == mode # "udp" /\ Reachable => []<><<Hears>>_vars

=============================================================================
