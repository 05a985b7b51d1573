------------------------------- MODULE RelayLog -------------------------------
(***************************************************************************)
(* What the isolated unit promises its relay (metrics/syslog.py), without  *)
(* a socket: it numbers its messages, gives one up at most while nobody    *)
(* has heard it, and each message that is heard says how many before it    *)
(* were given up.  Messages may be heard late, twice, out of order or not  *)
(* at all; a restart begins a new count.                                   *)
(*                                                                         *)
(* The numbers of messages are in the model only: the relay sees the count *)
(* of failures (mother_ticker_relay_send_failures).                        *)
(***************************************************************************)
EXTENDS Naturals, FiniteSets

CONSTANT MAX_MSG   \* bound: what has this number is no longer followed

VARIABLES
  number,    \* messages of this process
  lost,      \* those of them that were given up, and counted
  received   \* what the relay has heard of this process

vars == <<number, lost, received>>

Init == number = 0 /\ lost = {} /\ received = {}

Tell ==
  /\ number < MAX_MSG /\ number' = number + 1
  /\ UNCHANGED <<lost, received>>

(* Only the message in hand, and only one that the relay does not have. *)
GiveUp ==
  /\ number \in 1 .. MAX_MSG - 1
  /\ number \notin lost /\ \A m \in received : m.number # number
  /\ lost' = lost \cup {number}
  /\ UNCHANGED <<number, received>>

Hear ==
  /\ \E k \in (1 .. number) \ (lost \cup {MAX_MSG}) :
       received' = received \cup
         {[number |-> k, failures |-> Cardinality({ n \in lost : n < k })]}
  /\ UNCHANGED <<number, lost>>

Restart == number' = 0 /\ lost' = {} /\ received' = {}

Next == Tell \/ GiveUp \/ Hear \/ Restart

Spec == Init /\ [][Next]_vars

=============================================================================
