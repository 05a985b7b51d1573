-------------------------- MODULE SyslogRelayProofs --------------------------
(***************************************************************************)
(* The exporter in syslog mode, for every number of connections, every     *)
(* length of a frame, every buffer and every number of messages.           *)
(***************************************************************************)
EXTENDS SyslogRelay, SequenceTheorems, FiniteSetTheorems, TLAPS

-----------------------------------------------------------------------------
(* Types. *)

LEMMA UpType == ASSUME NEW n \in 0 .. MAX_MSG PROVE Up(n) \in 1 .. MAX_MSG
BY RelayAssumption DEF Up

LEMMA StaleType == Stale \in Message
BY RelayAssumption DEF Stale, Message

(* A frame is LEN pieces of its message, numbered from 1. *)
LEMMA FrameIs ==
  ASSUME NEW m \in Message
  PROVE  /\ Frame(m) \in Seq(Pieces) /\ Len(Frame(m)) = LEN
         /\ \A i \in 1 .. LEN : Frame(m)[i] = [of |-> m, part |-> i]
<1>1. LEN \in Nat /\ LEN >= 1
  BY RelayAssumption
<1>2. \A i \in 1 .. LEN : Frame(m)[i] = [of |-> m, part |-> i]
  BY DEF Frame
<1>3. \A i \in 1 .. LEN : [of |-> m, part |-> i] \in Pieces
  BY DEF Pieces
<1>4. Frame(m) \in [1 .. LEN -> Pieces]
  BY <1>3 DEF Frame
<1>5. Frame(m) \in Seq(Pieces)
  BY <1>1, <1>4, SeqDef
<1>6. Len(Frame(m)) = LEN
  BY <1>1, <1>4, <1>5, LenProperties
<1> QED BY <1>2, <1>5, <1>6

(* What a send that stops after n pieces has written. *)
LEMMA CutFrameIs ==
  ASSUME NEW m \in Message, NEW n \in 0 .. LEN
  PROVE  /\ SubSeq(Frame(m), 1, n) \in Seq(Pieces)
         /\ Len(SubSeq(Frame(m), 1, n)) = n
         /\ \A i \in 1 .. n : SubSeq(Frame(m), 1, n)[i] = [of |-> m, part |-> i]
<1>1. LEN \in Nat
  BY RelayAssumption
<1>2. \A i \in 1 .. n : Frame(m)[i] = [of |-> m, part |-> i] /\ Frame(m)[i] \in Pieces
  <2> HIDE DEF Pieces
  <2>1. Frame(m) \in Seq(Pieces) /\ Len(Frame(m)) = LEN
    BY FrameIs
  <2>2. \A i \in 1 .. LEN : Frame(m)[i] \in Pieces
    BY <2>1, ElementOfSeq
  <2> QED BY <1>1, <2>2, FrameIs
<1>3. /\ SubSeq(Frame(m), 1, n) \in Seq(Pieces)
      /\ Len(SubSeq(Frame(m), 1, n)) = IF 1 <= n THEN n - 1 + 1 ELSE 0
      /\ \A i \in 1 .. n - 1 + 1 : SubSeq(Frame(m), 1, n)[i] = Frame(m)[1 + i - 1]
  <2> HIDE DEF Pieces, Frame
  <2>1. 1 \in Int /\ n \in Int
    BY <1>1
  <2>2. \A i \in 1 .. n : Frame(m)[i] \in Pieces
    BY <1>2
  <2> QED BY <2>1, <2>2, SubSeqProperties
<1> QED BY <1>1, <1>2, <1>3

(* Ageing changes what the pieces are of, and nothing else. *)
LEMMA AgedIs ==
  ASSUME NEW s \in Seq(Pieces)
  PROVE  /\ Aged(s) \in Seq(Pieces) /\ Len(Aged(s)) = Len(s)
         /\ \A i \in 1 .. Len(s) : Aged(s)[i] = [of |-> Stale, part |-> s[i].part]
<1>1. Len(s) \in Nat /\ DOMAIN s = 1 .. Len(s)
  BY LenProperties
<1>2. \A i \in 1 .. Len(s) : s[i] \in Pieces
  BY ElementOfSeq
<1>3. ASSUME NEW i \in 1 .. Len(s)
      PROVE  Aged(s)[i] = [of |-> Stale, part |-> s[i].part] /\ Aged(s)[i] \in Pieces
  <2>1. Aged(s)[i] = [s[i] EXCEPT !.of = Stale]
    BY <1>1 DEF Aged
  <2>2. s[i] \in [of : Message, part : 1 .. LEN]
    BY <1>2 DEF Pieces
  <2> HIDE DEF Stale
  <2>3. [s[i] EXCEPT !.of = Stale] = [of |-> Stale, part |-> s[i].part]
    BY <2>2
  <2>4. [of |-> Stale, part |-> s[i].part] \in Pieces
    BY <2>2, StaleType DEF Pieces
  <2> QED BY <2>1, <2>3, <2>4
<1>4. Aged(s) \in [1 .. Len(s) -> Pieces]
  BY <1>1, <1>3 DEF Aged
<1>5. Aged(s) \in Seq(Pieces)
  BY <1>1, <1>4, SeqDef
<1>6. Len(Aged(s)) = Len(s)
  BY <1>1, <1>4, <1>5, LenProperties
<1> QED BY <1>3, <1>5, <1>6

LEMMA TypeInit == Init => TypeOK
<1> SUFFICES ASSUME Init PROVE TypeOK
  OBVIOUS
<1>1. 0 \in 0 .. MAX_MSG
  BY RelayAssumption
<1>2. wire \in [Conns -> Seq(Pieces)] /\ pile \in [Conns -> Seq(Pieces)]
  BY EmptySeq DEF Init
<1> QED BY <1>1, <1>2 DEF Init, TypeOK

(* The pieces the relay holds after it has read one more. *)
LEMMA ReadMore ==
  ASSUME NEW p \in Seq(Pieces), NEW w \in Seq(Pieces), w # <<>>
  PROVE  /\ Append(p, Head(w)) \in Seq(Pieces) /\ Tail(w) \in Seq(Pieces)
         /\ Len(Append(p, Head(w))) = Len(p) + 1
         /\ \A i \in 1 .. Len(p) : Append(p, Head(w))[i] = p[i]
         /\ Append(p, Head(w))[Len(p) + 1] = w[1]
         /\ w[1] \in Pieces
         /\ Len(Tail(w)) = Len(w) - 1
         /\ \A i \in 1 .. Len(w) - 1 : Tail(w)[i] = w[i + 1]
<1>1. Len(w) \in Nat \ {0} /\ Len(p) \in Nat
  BY EmptySeq, LenProperties
<1>2. w[1] \in Pieces
  BY <1>1, ElementOfSeq
<1>3. Head(w) = w[1]
  OBVIOUS
<1>4. /\ Tail(w) \in Seq(Pieces) /\ Len(Tail(w)) = Len(w) - 1
      /\ \A i \in 1 .. Len(Tail(w)) : Tail(w)[i] = w[i + 1]
  BY HeadTailProperties
<1>5. /\ Append(p, w[1]) \in Seq(Pieces)
      /\ Len(Append(p, w[1])) = Len(p) + 1
      /\ \A i \in 1 .. Len(p) : Append(p, w[1])[i] = p[i]
      /\ Append(p, w[1])[Len(p) + 1] = w[1]
  BY <1>2, AppendProperties
<1> QED BY <1>1, <1>2, <1>3, <1>4, <1>5

LEMMA OfType == ASSUME NEW x \in Pieces PROVE x.of \in Message /\ x.part \in 1 .. LEN
BY DEF Pieces

LEMMA CloseType ==
  ASSUME TypeOK, NEW c \in Conns, Close(c)
  PROVE  conn' \in [Conns -> {"free", "open", "closed", "dead", "reset"}]
BY DEF Close, TypeOK

LEMMA FailedType ==
  ASSUME TypeOK, pc = "send", Failed
  PROVE  failed' \in 0 .. MAX_MSG /\ lost' \subseteq 1 .. MAX_MSG
         /\ pc' = "wait" /\ message' = None
<1>1. message.number \in 1 .. MAX_MSG
  BY DEF TypeOK, Message
<1>2. Up(failed) \in 0 .. MAX_MSG
  BY UpType DEF TypeOK
<1> QED BY <1>1, <1>2 DEF Failed, Done, Early, TypeOK

LEMMA TypeStep == TypeOK /\ [Next]_vars => TypeOK'
<1> SUFFICES ASSUME TypeOK, [Next]_vars PROVE TypeOK'
  OBVIOUS
<1> USE RelayAssumption
<1>0. 0 \in 0 .. MAX_MSG
  OBVIOUS
<1>1. CASE Build
  <2>1. Up(number) \in 1 .. MAX_MSG /\ Up(number) \in 0 .. MAX_MSG
    BY UpType DEF TypeOK
  <2>2. message' \in Message
    BY <1>1, <2>1 DEF Build, Message, TypeOK
  <2> QED BY <1>1, <2>1, <2>2 DEF Build, TypeOK, relay
<1>2. CASE BuildRaises
  BY <1>2 DEF BuildRaises, TypeOK, relay
<1>3. CASE Connect
  <2>1. (CHOOSE c \in Conns : TRUE) \in Conns
    OBVIOUS
  <2>2. sock' \in Conns \cup {None}
        /\ conn' \in [Conns -> {"free", "open", "closed", "dead", "reset"}]
    BY <1>3, <2>1 DEF Connect, TypeOK
  <2> QED BY <1>3, <2>2 DEF Connect, TypeOK
<1>4. CASE ConnectFails
  BY <1>4, FailedType DEF ConnectFails, TypeOK, relay
<1>5. CASE SendSucceeds
  <2>1. sock \in Conns /\ message \in Message
    BY <1>5 DEF SendSucceeds, TypeOK
  <2>2. wire[sock] \o Frame(message) \in Seq(Pieces)
    BY <2>1, FrameIs, ConcatProperties DEF TypeOK
  <2>3. wire' \in [Conns -> Seq(Pieces)]
    BY <1>5, <2>2 DEF SendSucceeds, TypeOK
  <2>4. datagrams' \subseteq Message
    BY <1>5, <2>1 DEF SendSucceeds, TypeOK
  <2> QED BY <1>5, <2>3, <2>4 DEF SendSucceeds, Done, TypeOK
<1>6. CASE SendFails
  <2>1. sock \in Conns /\ message \in Message
    BY <1>6 DEF SendFails, TypeOK
  <2>2. ASSUME NEW n \in 0 .. LEN - 1
        PROVE  wire[sock] \o SubSeq(Frame(message), 1, n) \in Seq(Pieces)
    BY <2>1, CutFrameIs, ConcatProperties DEF TypeOK
  <2>3. wire' \in [Conns -> Seq(Pieces)]
    BY <1>6, <2>2 DEF SendFails, TypeOK
  <2>4. conn' \in [Conns -> {"free", "open", "closed", "dead", "reset"}] /\ sock' = None
    BY <1>6, <2>1, CloseType DEF SendFails, DropSocket
  <2> QED BY <1>6, <2>3, <2>4, FailedType DEF SendFails, TypeOK
<1>7. CASE Tick
  BY <1>7 DEF Tick, TypeOK, relay
<1>8. CASE Restart
  <2>1. wire' \in [Conns -> Seq(Pieces)] /\ pile' \in [Conns -> Seq(Pieces)]
    BY <1>8, AgedIs DEF Restart, TypeOK
  <2>2. conn' \in [Conns -> {"free", "open", "closed", "dead", "reset"}]
    BY <1>8, CloseType DEF Restart, TypeOK
  <2>3. datagrams' \subseteq Message
    BY <1>8, StaleType DEF Restart, TypeOK
  <2> QED BY <1>0, <1>8, <2>1, <2>2, <2>3 DEF Restart, TypeOK
<1>9. ASSUME NEW c \in Conns, RelayReads(c) PROVE TypeOK'
  <2> DEFINE pieces == Append(pile[c], Head(wire[c]))
  <2>1. pile[c] \in Seq(Pieces) /\ wire[c] \in Seq(Pieces) /\ wire[c] # <<>>
    BY <1>9 DEF RelayReads, TypeOK
  <2>2. pieces \in Seq(Pieces) /\ Tail(wire[c]) \in Seq(Pieces) /\ pieces[Len(pieces)] \in Pieces
    BY <2>1, ReadMore
  <2>3. <<>> \in Seq(Pieces)
    BY EmptySeq
  <2>4. Read(pieces[Len(pieces)].of) \subseteq Message
    BY <2>2, OfType DEF Read, TypeOK
  <2>5. wire' = [wire EXCEPT ![c] = Tail(@)]
        /\ pile' \in { [pile EXCEPT ![c] = <<>>], [pile EXCEPT ![c] = pieces] }
        /\ received' \in { Read(pieces[Len(pieces)].of), received }
    BY <1>9 DEF RelayReads
  <2> HIDE DEF pieces
  <2>6. wire' \in [Conns -> Seq(Pieces)] /\ pile' \in [Conns -> Seq(Pieces)]
    BY <2>2, <2>3, <2>5 DEF TypeOK
  <2>7. received' \subseteq Message
    BY <2>4, <2>5 DEF TypeOK
  <2> QED BY <1>9, <2>6, <2>7 DEF RelayReads, TypeOK
<1>10. ASSUME NEW c \in Conns, ConnectionEnds(c) PROVE TypeOK'
  BY <1>10, EmptySeq DEF ConnectionEnds, TypeOK
<1>11. ASSUME NEW c \in Conns, ConnectionDies(c) PROVE TypeOK'
  BY <1>11, EmptySeq DEF ConnectionDies, TypeOK
<1>12. ASSUME NEW c \in Conns, ResetArrives(c) PROVE TypeOK'
  BY <1>12 DEF ResetArrives, TypeOK
<1>13. CASE DatagramArrives
  BY <1>13 DEF DatagramArrives, Read, TypeOK
<1>14. CASE DatagramLost
  BY <1>14 DEF DatagramLost, TypeOK
<1>15. CASE UNCHANGED vars
  BY <1>15 DEF vars, TypeOK
<1> QED BY <1>1, <1>2, <1>3, <1>4, <1>5, <1>6, <1>7, <1>8, <1>9, <1>10, <1>11,
           <1>12, <1>13, <1>14, <1>15 DEF Next

(***************************************************************************)
(* Every variable keeps its type, whatever the network does.               *)
(***************************************************************************)
THEOREM TypeCorrect == Spec => []TypeOK
BY TypeInit, TypeStep, PTL DEF Spec

-----------------------------------------------------------------------------
(* No two messages are joined. *)

(***************************************************************************)
(* The strengthening of NoMergedMessages: what the relay holds of a        *)
(* message is its beginning, only a socket that is in use is open, a       *)
(* stream that may be written to ends with a whole message, and a dead     *)
(* one is empty.                                                           *)
(***************************************************************************)
Ends(s) == s # <<>> => s[Len(s)].part = LEN

Good(s) ==
  /\ s # <<>> => s[1].part = 1
  /\ \A i \in 2 .. Len(s) : Follows(s[i], s[i - 1])

Stream(c) == pile[c] \o wire[c]

Streams ==
  \A c \in Conns :
    /\ Good(Stream(c))
    /\ Len(pile[c]) < LEN /\ \A i \in 1 .. Len(pile[c]) : pile[c][i].part = i
    /\ conn[c] \in {"free", "dead", "reset"} => wire[c] = <<>> /\ pile[c] = <<>>
    /\ conn[c] = "open" => sock = c /\ Ends(Stream(c))
    /\ conn[c] = "closed" => sock # c
    /\ mode = "udp" => conn[c] = "free"

(* The lengths and the pieces of a concatenation. *)
LEMMA Joined ==
  ASSUME NEW s \in Seq(Pieces), NEW t \in Seq(Pieces)
  PROVE  /\ Len(s) \in Nat /\ Len(t) \in Nat
         /\ s \o t \in Seq(Pieces) /\ Len(s \o t) = Len(s) + Len(t)
         /\ \A i \in 1 .. Len(s) : (s \o t)[i] = s[i]
         /\ \A i \in 1 .. Len(t) : (s \o t)[Len(s) + i] = t[i]
         /\ s = <<>> <=> Len(s) = 0
         /\ t = <<>> <=> Len(t) = 0
<1>1. Len(s) \in Nat /\ Len(t) \in Nat
  BY LenProperties
<1>2. /\ s \o t \in Seq(Pieces) /\ Len(s \o t) = Len(s) + Len(t)
      /\ \A i \in 1 .. Len(s) + Len(t) : (s \o t)[i] = IF i <= Len(s) THEN s[i] ELSE t[i - Len(s)]
  BY ConcatProperties
<1>3. /\ s # <<>> => Len(s) \in Nat \ {0}
      /\ t # <<>> => Len(t) \in Nat \ {0}
      /\ Len(<<>>) = 0
  BY EmptySeq
<1>4. \A i \in 1 .. Len(s) : (s \o t)[i] = s[i]
  BY <1>1, <1>2
<1>5. \A i \in 1 .. Len(t) : (s \o t)[Len(s) + i] = t[i]
  <2> TAKE i \in 1 .. Len(t)
  <2>1. Len(s) + i \in 1 .. Len(s) + Len(t) /\ ~(Len(s) + i <= Len(s)) /\ Len(s) + i - Len(s) = i
    BY <1>1
  <2> QED BY <1>2, <2>1
<1> QED BY <1>1, <1>2, <1>3, <1>4, <1>5

(* Whole messages may be followed by the start of another. *)
LEMMA GoodJoin ==
  ASSUME NEW s \in Seq(Pieces), NEW t \in Seq(Pieces), Good(s), Good(t), Ends(s)
  PROVE  Good(s \o t)
<1> DEFINE u == s \o t
<1>1. /\ Len(s) \in Nat /\ Len(t) \in Nat /\ Len(u) = Len(s) + Len(t)
      /\ \A i \in 1 .. Len(s) : u[i] = s[i]
      /\ \A i \in 1 .. Len(t) : u[Len(s) + i] = t[i]
      /\ s = <<>> <=> Len(s) = 0
      /\ t = <<>> <=> Len(t) = 0
  BY Joined
<1>2. u = <<>> <=> Len(u) = 0
  <2>1. u \in Seq(Pieces)
    BY Joined
  <2> QED BY <2>1, Joined
<1> HIDE DEF u
<1>3. ASSUME u # <<>> PROVE u[1].part = 1
  <2>1. CASE s # <<>>
    <3>1. 1 \in 1 .. Len(s)
      BY <1>1, <2>1
    <3> QED BY <1>1, <2>1, <3>1 DEF Good
  <2>2. CASE s = <<>>
    <3>1. 1 \in 1 .. Len(t) /\ Len(s) + 1 = 1 /\ t # <<>>
      BY <1>1, <1>2, <1>3, <2>2
    <3>2. u[1] = t[1]
      BY <1>1, <3>1
    <3> QED BY <3>1, <3>2 DEF Good
  <2> QED BY <2>1, <2>2
<1>4. ASSUME NEW i \in 2 .. Len(u) PROVE Follows(u[i], u[i - 1])
  <2>1. CASE i <= Len(s)
    <3>1. i \in 2 .. Len(s) /\ i \in 1 .. Len(s) /\ i - 1 \in 1 .. Len(s)
      BY <1>1, <2>1
    <3>2. u[i] = s[i] /\ u[i - 1] = s[i - 1]
      BY <1>1, <3>1
    <3> QED BY <3>1, <3>2 DEF Good
  <2>2. CASE i = Len(s) + 1
    <3>1. Len(s) \in 1 .. Len(s) /\ i - 1 = Len(s) /\ 1 \in 1 .. Len(t) /\ s # <<>> /\ t # <<>>
      BY <1>1, <2>2
    <3>2. u[i] = t[1] /\ u[i - 1] = s[Len(s)]
      BY <1>1, <2>2, <3>1
    <3>3. t[1].part = 1 /\ s[Len(s)].part = LEN
      BY <3>1 DEF Good, Ends
    <3> QED BY <3>2, <3>3 DEF Follows
  <2>3. CASE i > Len(s) + 1
    <3> DEFINE j == i - Len(s)
    <3>1. j \in 2 .. Len(t) /\ j \in 1 .. Len(t) /\ j - 1 \in 1 .. Len(t)
          /\ i = Len(s) + j /\ i - 1 = Len(s) + (j - 1)
      BY <1>1, <2>3
    <3> HIDE DEF j
    <3>2. u[i] = t[j] /\ u[i - 1] = t[j - 1]
      BY <1>1, <3>1
    <3> QED BY <3>1, <3>2 DEF Good
  <2>4. i <= Len(s) \/ i = Len(s) + 1 \/ i > Len(s) + 1
    <3>1. i \in Int /\ Len(s) \in Int
      BY <1>1
    <3> QED BY <3>1
  <2> QED BY <2>1, <2>2, <2>3, <2>4
<1> QED BY <1>3, <1>4 DEF Good, u

(* What a send puts on the wire is in order, and a whole frame ends a message. *)
LEMMA GoodFrame ==
  ASSUME NEW m \in Message, NEW f \in Seq(Pieces), NEW n \in 0 .. LEN, Len(f) = n,
         \A i \in 1 .. n : f[i] = [of |-> m, part |-> i]
  PROVE  Good(f)
<1>1. LEN \in Nat
  BY RelayAssumption
<1>2. f # <<>> => f[1].part = 1
  <2>1. f # <<>> => 1 \in 1 .. n
    BY <1>1, EmptySeq
  <2> QED BY <2>1
<1>3. ASSUME NEW i \in 2 .. n PROVE Follows(f[i], f[i - 1])
  <2>1. i \in 1 .. n /\ i - 1 \in 1 .. n /\ i - 1 # LEN /\ i = (i - 1) + 1
    BY <1>1
  <2>2. /\ f[i].of = m /\ f[i].part = i
        /\ f[i - 1].of = m /\ f[i - 1].part = i - 1
    BY <2>1
  <2> QED BY <2>1, <2>2 DEF Follows
<1> QED BY <1>2, <1>3 DEF Good

(* After a send the stream is the old one and what was written. *)
LEMMA SentStream ==
  ASSUME NEW p \in Seq(Pieces), NEW w \in Seq(Pieces), NEW f \in Seq(Pieces),
         Good(p \o w), Ends(p \o w), Good(f)
  PROVE  Good(p \o (w \o f))
<1>1. p \o w \in Seq(Pieces) /\ (p \o w) \o f = p \o (w \o f)
  BY Joined, ConcatAssociative
<1> QED BY <1>1, GoodJoin

(* A whole frame leaves the stream at the end of a message. *)
LEMMA FrameEnds ==
  ASSUME NEW m \in Message, NEW p \in Seq(Pieces), NEW w \in Seq(Pieces)
  PROVE  Ends(p \o (w \o Frame(m)))
<1> DEFINE f == Frame(m)
<1>1. LEN \in Nat /\ LEN >= 1
  BY RelayAssumption
<1>2. f \in Seq(Pieces) /\ Len(f) = LEN /\ f[LEN].part = LEN
  <2>1. LEN \in 1 .. LEN
    BY <1>1
  <2>2. f[LEN] = [of |-> m, part |-> LEN]
    BY <2>1, FrameIs
  <2> QED BY <2>2, FrameIs
<1> HIDE DEF f
<1>3. w \o f \in Seq(Pieces) /\ Len(w \o f) = Len(w) + LEN /\ Len(w) \in Nat
      /\ (w \o f)[Len(w) + LEN] = f[LEN]
  <2>1. LEN \in 1 .. Len(f)
    BY <1>1, <1>2
  <2>2. /\ w \o f \in Seq(Pieces) /\ Len(w \o f) = Len(w) + Len(f) /\ Len(w) \in Nat
        /\ \A i \in 1 .. Len(f) : (w \o f)[Len(w) + i] = f[i]
    BY <1>2, Joined
  <2> QED BY <1>2, <2>1, <2>2
<1>4. Len(p \o (w \o f)) = Len(p) + (Len(w) + LEN) /\ Len(p) \in Nat
      /\ (p \o (w \o f))[Len(p) + (Len(w) + LEN)] = (w \o f)[Len(w) + LEN]
  <2>1. Len(w) + LEN \in 1 .. Len(w \o f)
    BY <1>1, <1>3
  <2> QED BY <1>3, <2>1, Joined
<1>5. (p \o (w \o f))[Len(p \o (w \o f))].part = LEN
  BY <1>2, <1>3, <1>4
<1> QED BY <1>5 DEF Ends, f

(* Reading a piece leaves the stream as it is. *)
LEMMA ReadStream ==
  ASSUME NEW p \in Seq(Pieces), NEW w \in Seq(Pieces), w # <<>>
  PROVE  Append(p, Head(w)) \o Tail(w) = p \o w
<1> DEFINE q == Append(p, Head(w))
           v == Tail(w)
<1>1. /\ q \in Seq(Pieces) /\ v \in Seq(Pieces)
      /\ Len(q) = Len(p) + 1 /\ Len(v) = Len(w) - 1
      /\ \A i \in 1 .. Len(p) : q[i] = p[i]
      /\ q[Len(p) + 1] = w[1]
      /\ \A i \in 1 .. Len(w) - 1 : v[i] = w[i + 1]
  BY ReadMore
<1>2. /\ p \o w \in Seq(Pieces) /\ Len(p \o w) = Len(p) + Len(w)
      /\ \A i \in 1 .. Len(p) : (p \o w)[i] = p[i]
      /\ \A i \in 1 .. Len(w) : (p \o w)[Len(p) + i] = w[i]
      /\ Len(p) \in Nat /\ Len(w) \in Nat /\ Len(w) # 0
  BY Joined
<1> HIDE DEF q, v
<1>3. /\ q \o v \in Seq(Pieces) /\ Len(q \o v) = Len(q) + Len(v)
      /\ \A i \in 1 .. Len(q) : (q \o v)[i] = q[i]
      /\ \A i \in 1 .. Len(v) : (q \o v)[Len(q) + i] = v[i]
  BY <1>1, Joined
<1>4. Len(q \o v) = Len(p \o w)
  BY <1>1, <1>2, <1>3
<1>5. ASSUME NEW i \in 1 .. Len(q \o v) PROVE (q \o v)[i] = (p \o w)[i]
  <2>1. CASE i <= Len(p)
    <3>1. i \in 1 .. Len(p) /\ i \in 1 .. Len(q)
      BY <1>1, <1>2, <2>1
    <3> QED BY <1>1, <1>2, <1>3, <3>1
  <2>2. CASE i = Len(p) + 1
    <3>1. i \in 1 .. Len(q) /\ 1 \in 1 .. Len(w)
      BY <1>1, <1>2, <2>2
    <3>2. (q \o v)[i] = w[1]
      BY <1>1, <1>3, <2>2, <3>1
    <3>3. (p \o w)[i] = w[1]
      BY <1>2, <2>2, <3>1
    <3> QED BY <3>2, <3>3
  <2>3. CASE i > Len(p) + 1
    <3> DEFINE j == i - (Len(p) + 1)
    <3>1. j \in 1 .. Len(w) - 1 /\ j + 1 \in 1 .. Len(w) /\ i = Len(q) + j /\ i = Len(p) + (j + 1)
      BY <1>1, <1>2, <1>3, <2>3
    <3> HIDE DEF j
    <3>2. (q \o v)[i] = w[j + 1]
      BY <1>1, <1>3, <3>1
    <3>3. (p \o w)[i] = w[j + 1]
      BY <1>2, <3>1
    <3> QED BY <3>2, <3>3
  <2> QED BY <1>1, <1>2, <1>3, <2>1, <2>2, <2>3
<1>6. q \o v = p \o w
  BY <1>2, <1>3, <1>4, <1>5, SeqEqual
<1> QED BY <1>6 DEF q, v

(* The next piece is the one the relay waits for. *)
LEMMA NextPart ==
  ASSUME NEW p \in Seq(Pieces), NEW w \in Seq(Pieces), w # <<>>, Good(p \o w),
         Len(p) < LEN, \A i \in 1 .. Len(p) : p[i].part = i
  PROVE  w[1].part = Len(p) + 1
<1>1. /\ Len(p \o w) = Len(p) + Len(w) /\ Len(p) \in Nat /\ Len(w) \in Nat /\ Len(w) # 0
      /\ \A i \in 1 .. Len(p) : (p \o w)[i] = p[i]
      /\ \A i \in 1 .. Len(w) : (p \o w)[Len(p) + i] = w[i]
  BY Joined
<1>2. (p \o w)[Len(p) + 1] = w[1]
  BY <1>1
<1>3. CASE Len(p) = 0
  <2>1. p \o w # <<>>
    BY <1>1, <1>3, Joined
  <2> QED BY <1>2, <1>3, <2>1 DEF Good
<1>4. CASE Len(p) > 0
  <2>1. Len(p) + 1 \in 2 .. Len(p \o w) /\ (Len(p) + 1) - 1 = Len(p) /\ Len(p) \in 1 .. Len(p)
    BY <1>1, <1>4
  <2>2. Follows(w[1], p[Len(p)])
    BY <1>1, <1>2, <2>1 DEF Good
  <2>3. p[Len(p)].part = Len(p)
    BY <2>1
  <2>4. Len(p) # LEN
    BY <1>1, RelayAssumption
  <2> QED BY <2>2, <2>3, <2>4 DEF Follows
<1> QED BY <1>1, <1>3, <1>4

(* What follows a whole message is in order by itself. *)
LEMMA AfterWhole ==
  ASSUME NEW p \in Seq(Pieces), NEW w \in Seq(Pieces), w # <<>>, Good(p \o w), w[1].part = LEN
  PROVE  Good(Tail(w)) /\ (Ends(p \o w) => Ends(Tail(w)))
<1> DEFINE v == Tail(w)
<1>1. /\ Len(p \o w) = Len(p) + Len(w) /\ Len(p) \in Nat /\ Len(w) \in Nat /\ Len(w) # 0
      /\ \A i \in 1 .. Len(w) : (p \o w)[Len(p) + i] = w[i]
  BY Joined
<1>2. v \in Seq(Pieces) /\ Len(v) = Len(w) - 1 /\ \A i \in 1 .. Len(w) - 1 : v[i] = w[i + 1]
  BY ReadMore
<1>3. v = <<>> <=> Len(v) = 0
  BY <1>2, Joined
<1> HIDE DEF v
<1>4. ASSUME NEW i \in 2 .. Len(w) PROVE Follows(w[i], w[i - 1])
  <2>1. i \in 1 .. Len(w) /\ i - 1 \in 1 .. Len(w) /\ Len(p) + i \in 2 .. Len(p \o w)
        /\ (Len(p) + i) - 1 = Len(p) + (i - 1)
    BY <1>1
  <2>2. (p \o w)[Len(p) + i] = w[i] /\ (p \o w)[(Len(p) + i) - 1] = w[i - 1]
    BY <1>1, <2>1
  <2> QED BY <2>1, <2>2 DEF Good
<1>5. ASSUME v # <<>> PROVE v[1].part = 1
  <2>1. 2 \in 2 .. Len(w) /\ 1 \in 1 .. Len(w) - 1 /\ 1 + 1 = 2 /\ 2 - 1 = 1
    BY <1>1, <1>2, <1>3, <1>5
  <2>2. Follows(w[2], w[1]) /\ v[1] = w[2]
    BY <1>2, <1>4, <2>1
  <2> QED BY <2>2 DEF Follows
<1>6. ASSUME NEW i \in 2 .. Len(v) PROVE Follows(v[i], v[i - 1])
  <2>1. i + 1 \in 2 .. Len(w) /\ i \in 1 .. Len(w) - 1 /\ i - 1 \in 1 .. Len(w) - 1
        /\ (i - 1) + 1 = (i + 1) - 1
    BY <1>1, <1>2
  <2>2. v[i] = w[i + 1] /\ v[i - 1] = w[(i + 1) - 1]
    BY <1>2, <2>1
  <2> QED BY <1>4, <2>1, <2>2
<1>7. ASSUME Ends(p \o w), v # <<>> PROVE v[Len(v)].part = LEN
  <2>1. Len(w) \in 1 .. Len(w) /\ Len(w) - 1 \in 1 .. Len(w) - 1 /\ (Len(w) - 1) + 1 = Len(w)
    BY <1>1, <1>2, <1>3, <1>7
  <2>2. v[Len(v)] = w[Len(w)] /\ (p \o w)[Len(p \o w)] = w[Len(w)]
    BY <1>1, <1>2, <2>1
  <2>3. p \o w # <<>>
    BY <1>1, Joined
  <2> QED BY <1>7, <2>2, <2>3 DEF Ends
<1> QED BY <1>5, <1>6, <1>7 DEF Good, Ends, v

(* Ageing keeps the order. *)
LEMMA AgedGood ==
  ASSUME NEW p \in Seq(Pieces), NEW w \in Seq(Pieces), Good(p \o w)
  PROVE  Good(Aged(p) \o Aged(w))
<1> DEFINE a == Aged(p)
           b == Aged(w)
           s == p \o w
           u == a \o b
<1>1. /\ a \in Seq(Pieces) /\ Len(a) = Len(p)
      /\ \A i \in 1 .. Len(p) : a[i] = [of |-> Stale, part |-> p[i].part]
  BY AgedIs
<1>2. /\ b \in Seq(Pieces) /\ Len(b) = Len(w)
      /\ \A i \in 1 .. Len(w) : b[i] = [of |-> Stale, part |-> w[i].part]
  BY AgedIs
<1>3. /\ Len(s) = Len(p) + Len(w) /\ Len(p) \in Nat /\ Len(w) \in Nat
      /\ \A i \in 1 .. Len(p) : s[i] = p[i]
      /\ \A i \in 1 .. Len(w) : s[Len(p) + i] = w[i]
      /\ s \in Seq(Pieces)
  BY Joined
<1> HIDE DEF a, b, s
<1>4. /\ Len(u) = Len(a) + Len(b)
      /\ \A i \in 1 .. Len(a) : u[i] = a[i]
      /\ \A i \in 1 .. Len(b) : u[Len(a) + i] = b[i]
      /\ u \in Seq(Pieces)
  BY <1>1, <1>2, Joined
<1>5. (s = <<>> <=> Len(s) = 0) /\ (u = <<>> <=> Len(u) = 0)
  BY <1>3, <1>4, Joined
<1> HIDE DEF u
<1>6. Len(u) = Len(s)
  BY <1>1, <1>2, <1>3, <1>4
<1>7. ASSUME NEW i \in 1 .. Len(s) PROVE u[i].of = Stale /\ u[i].part = s[i].part
  <2>1. CASE i <= Len(p)
    <3>1. i \in 1 .. Len(p)
      BY <1>3, <2>1
    <3>2. u[i] = [of |-> Stale, part |-> p[i].part] /\ s[i] = p[i]
      BY <1>1, <1>3, <1>4, <3>1
    <3> HIDE DEF Stale
    <3> QED BY <3>2
  <2>2. CASE i > Len(p)
    <3> DEFINE j == i - Len(p)
    <3>1. j \in 1 .. Len(w) /\ i = Len(p) + j
      BY <1>3, <2>2
    <3> HIDE DEF j
    <3>2. u[i] = [of |-> Stale, part |-> w[j].part] /\ s[i] = w[j]
      BY <1>1, <1>2, <1>3, <1>4, <3>1
    <3> HIDE DEF Stale
    <3> QED BY <3>2
  <2> QED BY <1>3, <2>1, <2>2
<1>8. u # <<>> => u[1].part = 1
  <2>1. ASSUME u # <<>> PROVE 1 \in 1 .. Len(s) /\ s # <<>>
    BY <1>3, <1>5, <1>6, <2>1
  <2> QED BY <1>7, <2>1 DEF Good, s
<1>9. ASSUME NEW i \in 2 .. Len(u) PROVE Follows(u[i], u[i - 1])
  <2>1. i \in 2 .. Len(s) /\ i \in 1 .. Len(s) /\ i - 1 \in 1 .. Len(s)
    BY <1>3, <1>6
  <2>2. Follows(s[i], s[i - 1])
    BY <2>1 DEF Good, s
  <2>3. /\ u[i].of = Stale /\ u[i].part = s[i].part
        /\ u[i - 1].of = Stale /\ u[i - 1].part = s[i - 1].part
    BY <1>7, <2>1
  <2> HIDE DEF Stale
  <2> QED BY <2>2, <2>3 DEF Follows
<1> QED BY <1>8, <1>9 DEF Good, u, a, b

LEMMA NothingIsGood == Good(<<>> \o <<>>) /\ Ends(<<>> \o <<>>)
<1>1. <<>> \in Seq(Pieces) /\ <<>> \o <<>> = <<>> /\ Len(<<>>) = 0
  BY EmptySeq, ConcatEmptySeq
<1> QED BY <1>1 DEF Good, Ends

LEMMA StreamsInit == Init => Streams
<1> SUFFICES ASSUME Init, NEW c \in Conns
             PROVE  /\ Good(Stream(c))
                    /\ Len(pile[c]) < LEN /\ \A i \in 1 .. Len(pile[c]) : pile[c][i].part = i
                    /\ conn[c] = "free" /\ wire[c] = <<>> /\ pile[c] = <<>>
  BY DEF Streams
<1>1. conn[c] = "free" /\ wire[c] = <<>> /\ pile[c] = <<>>
  BY DEF Init
<1>2. Len(<<>>) = 0 /\ LEN \in Nat \ {0}
  BY RelayAssumption, EmptySeq
<1> QED BY <1>1, <1>2, NothingIsGood DEF Stream

(* A connection whose stream does not change and that does not become open keeps its part. *)
LEMMA SameStream ==
  ASSUME Streams, NEW c \in Conns, wire'[c] = wire[c], pile'[c] = pile[c],
         conn'[c] = conn[c], sock' = sock, mode' = mode
  PROVE  /\ Good(Stream(c)')
         /\ Len(pile'[c]) < LEN /\ \A i \in 1 .. Len(pile'[c]) : pile'[c][i].part = i
         /\ conn'[c] \in {"free", "dead", "reset"} => wire'[c] = <<>> /\ pile'[c] = <<>>
         /\ conn'[c] = "open" => sock' = c /\ Ends(Stream(c)')
         /\ conn'[c] = "closed" => sock' # c
         /\ mode' = "udp" => conn'[c] = "free"
<1>1. Stream(c)' = Stream(c)
  BY DEF Stream
<1> HIDE DEF Stream
<1> QED BY <1>1 DEF Streams

LEMMA StreamsStep == TypeOK /\ Streams /\ [Next]_vars => Streams'
<1> SUFFICES ASSUME TypeOK, Streams, [Next]_vars PROVE Streams'
  OBVIOUS
<1> USE RelayAssumption
<1>0. ASSUME UNCHANGED <<mode, sock, conn, wire, pile>> PROVE Streams'
  BY <1>0 DEF Streams, Stream
<1>1. CASE Build
  BY <1>0, <1>1 DEF Build, relay
<1>2. CASE BuildRaises
  BY <1>0, <1>2 DEF BuildRaises, relay
<1>3. CASE Connect
  <2>1. CASE mode = "udp"
    BY <1>3, <2>1 DEF Connect, Streams, Stream
  <2>2. CASE mode # "udp"
    <3>1. PICK d \in Conns : conn[d] = "free" /\ conn' = [conn EXCEPT ![d] = "open"] /\ sock' = d
      BY <1>3, <2>2 DEF Connect
    <3>2. wire[d] = <<>> /\ pile[d] = <<>> /\ Ends(Stream(d))
      BY <3>1, NothingIsGood DEF Streams, Stream
    <3>3. \A c \in Conns : conn[c] # "open"
      BY <1>3 DEF Connect, Streams
    <3>4. UNCHANGED <<mode, wire, pile>> /\ sock = None
      BY <1>3 DEF Connect
    <3>5. \A c \in Conns : c # d => conn'[c] = conn[c]
      BY <3>1 DEF TypeOK
    <3>6. conn'[d] = "open"
      BY <3>1 DEF TypeOK
    <3> QED BY <2>2, <3>1, <3>2, <3>3, <3>4, <3>5, <3>6 DEF Streams, Stream
  <2> QED BY <2>1, <2>2
<1>4. CASE ConnectFails
  BY <1>0, <1>4 DEF ConnectFails, relay
<1>5. CASE SendSucceeds
  <2>1. UNCHANGED <<mode, sock, conn, pile>> /\ sock \in Conns /\ message \in Message
    BY <1>5 DEF SendSucceeds, TypeOK
  <2>2. CASE mode # "udp" /\ conn[sock] = "open"
    <3>1. wire' = [wire EXCEPT ![sock] = @ \o Frame(message)]
      BY <1>5, <2>2 DEF SendSucceeds
    <3>2. Good(Stream(sock)) /\ Ends(Stream(sock)) /\ pile[sock] \in Seq(Pieces)
          /\ wire[sock] \in Seq(Pieces)
      BY <2>1, <2>2 DEF Streams, TypeOK
    <3>3. Frame(message) \in Seq(Pieces) /\ Good(Frame(message))
      <4>1. LEN \in 0 .. LEN
        OBVIOUS
      <4> QED BY <2>1, <4>1, FrameIs, GoodFrame
    <3>4. Stream(sock)' = pile[sock] \o (wire[sock] \o Frame(message))
      BY <2>1, <3>1 DEF Stream, TypeOK
    <3>5. Good(Stream(sock)') /\ Ends(Stream(sock)')
      BY <2>1, <3>2, <3>3, <3>4, SentStream, FrameEnds DEF Stream
    <3>6. ASSUME NEW c \in Conns, c # sock PROVE Stream(c)' = Stream(c) /\ wire'[c] = wire[c]
      BY <2>1, <3>1, <3>6 DEF Stream, TypeOK
    <3> HIDE DEF Stream
    <3> QED BY <2>1, <2>2, <3>5, <3>6 DEF Streams
  <2>3. CASE ~(mode # "udp" /\ conn[sock] = "open")
    BY <1>0, <1>5, <2>1, <2>3 DEF SendSucceeds
  <2> QED BY <2>2, <2>3
<1>6. CASE SendFails
  <2>1. UNCHANGED <<mode, pile>> /\ sock \in Conns /\ sock' = None /\ message \in Message /\ Close(sock)
        /\ None \notin Conns
    BY <1>6 DEF SendFails, DropSocket, TypeOK
  <2>2. conn'[sock] = (IF conn[sock] = "open" THEN "closed" ELSE "free")
        /\ \A c \in Conns : c # sock => conn'[c] = conn[c] /\ conn[c] # "open"
    BY <2>1 DEF Close, TypeOK, Streams
  <2>3. CASE mode # "udp" /\ conn[sock] = "open"
    <3>0. PICK d \in Conns : d = sock
      BY <2>1
    <3>1. PICK n \in 0 .. LEN - 1 :
            wire' = [wire EXCEPT ![d] = @ \o SubSeq(Frame(message), 1, n)]
      BY <1>6, <2>3, <3>0 DEF SendFails
    <3> DEFINE f == SubSeq(Frame(message), 1, n)
    <3>2. f \in Seq(Pieces) /\ Good(f)
      <4>1. n \in 0 .. LEN
        OBVIOUS
      <4> QED BY <2>1, <4>1, CutFrameIs, GoodFrame
    <3>3. Good(Stream(d)) /\ Ends(Stream(d)) /\ pile[d] \in Seq(Pieces)
          /\ wire[d] \in Seq(Pieces)
      BY <2>1, <2>3, <3>0 DEF Streams, TypeOK
    <3>4. wire' = [wire EXCEPT ![d] = @ \o f]
      BY <3>1
    <3> HIDE DEF f
    <3>5. Stream(d)' = pile[d] \o (wire[d] \o f)
      BY <2>1, <3>4 DEF Stream, TypeOK
    <3>6. Good(Stream(d)')
      BY <3>2, <3>3, <3>5, SentStream DEF Stream
    <3>7. ASSUME NEW c \in Conns, c # d PROVE Stream(c)' = Stream(c) /\ wire'[c] = wire[c]
      BY <2>1, <3>4, <3>7 DEF Stream, TypeOK
    <3> HIDE DEF Stream
    <3> QED BY <2>1, <2>2, <2>3, <3>0, <3>6, <3>7 DEF Streams
  <2>4. CASE ~(mode # "udp" /\ conn[sock] = "open")
    <3>1. wire' = wire
      BY <1>6, <2>4 DEF SendFails
    <3>2. conn[sock] # "open" /\ conn[sock] # "closed"
      BY <2>1, <2>4 DEF Streams
    <3>3. wire[sock] = <<>> /\ pile[sock] = <<>> /\ conn'[sock] = "free"
      BY <2>1, <2>2, <3>2 DEF Streams, TypeOK
    <3>4. \A c \in Conns : Stream(c)' = Stream(c)
      BY <2>1, <3>1 DEF Stream
    <3> HIDE DEF Stream
    <3> QED BY <2>1, <2>2, <3>1, <3>3, <3>4 DEF Streams
  <2> QED BY <2>3, <2>4
<1>7. CASE Tick
  BY <1>0, <1>7 DEF Tick, relay
<1>8. CASE Restart
  <2>1. \A c \in Conns : wire'[c] = Aged(wire[c]) /\ pile'[c] = Aged(pile[c])
    BY <1>8 DEF Restart
  <2>2. mode' = mode /\ sock' = None /\ None \notin Conns
    BY <1>8 DEF Restart
  <2>3. ASSUME NEW c \in Conns
        PROVE  /\ conn'[c] # "open"
               /\ conn'[c] \in {"free", "dead", "reset"} => conn[c] \in {"free", "dead", "reset"}
               /\ conn[c] = "free" => conn'[c] = "free"
    <3>1. CASE sock # None
      BY <1>8, <3>1 DEF Restart, Close, Streams, TypeOK
    <3>2. CASE sock = None
      BY <1>8, <2>2, <3>2 DEF Restart, Streams, TypeOK
    <3> QED BY <3>1, <3>2
  <2> SUFFICES ASSUME NEW c \in Conns
        PROVE  /\ Good(Stream(c)')
               /\ Len(pile'[c]) < LEN /\ \A i \in 1 .. Len(pile'[c]) : pile'[c][i].part = i
               /\ conn'[c] \in {"free", "dead", "reset"} => wire'[c] = <<>> /\ pile'[c] = <<>>
               /\ conn'[c] # "open" /\ sock' # c
               /\ mode' = "udp" => conn'[c] = "free"
    BY DEF Streams
  <2>4. pile[c] \in Seq(Pieces) /\ wire[c] \in Seq(Pieces) /\ Good(pile[c] \o wire[c])
    BY DEF TypeOK, Streams, Stream
  <2>5. Good(Stream(c)')
    BY <2>1, <2>4, AgedGood DEF Stream
  <2>6. Len(pile'[c]) = Len(pile[c]) /\ \A i \in 1 .. Len(pile[c]) : pile'[c][i].part = pile[c][i].part
    <3>1. /\ Len(Aged(pile[c])) = Len(pile[c])
          /\ \A i \in 1 .. Len(pile[c]) :
               Aged(pile[c])[i] = [of |-> Stale, part |-> pile[c][i].part]
      BY <2>4, AgedIs
    <3> HIDE DEF Stale, Aged
    <3>2. \A i \in 1 .. Len(pile[c]) : Aged(pile[c])[i].part = pile[c][i].part
      <4> TAKE i \in 1 .. Len(pile[c])
      <4> DEFINE aged == Aged(pile[c])[i]
                 part == pile[c][i].part
                 stale == Stale
      <4>1. aged = [of |-> stale, part |-> part]
        BY <3>1
      <4> HIDE DEF aged, part, stale
      <4>2. aged.part = part
        BY <4>1
      <4> QED BY <4>2 DEF aged, part
    <3> QED BY <2>1, <3>1, <3>2
  <2>7. wire[c] = <<>> /\ pile[c] = <<>> => wire'[c] = <<>> /\ pile'[c] = <<>>
    BY <2>1, <2>4, AgedIs, EmptySeq
  <2>8. Len(pile'[c]) < LEN /\ \A i \in 1 .. Len(pile'[c]) : pile'[c][i].part = i
    BY <2>6 DEF Streams
  <2>9. conn'[c] \in {"free", "dead", "reset"} => wire'[c] = <<>> /\ pile'[c] = <<>>
    BY <2>3, <2>7 DEF Streams
  <2> QED BY <2>2, <2>3, <2>5, <2>8, <2>9 DEF Streams
<1>9. ASSUME NEW c \in Conns, RelayReads(c) PROVE Streams'
  <2> DEFINE pieces == Append(pile[c], Head(wire[c]))
  <2>1. pile[c] \in Seq(Pieces) /\ wire[c] \in Seq(Pieces) /\ wire[c] # <<>>
        /\ Good(pile[c] \o wire[c])
    BY <1>9 DEF RelayReads, TypeOK, Streams, Stream
  <2>2. /\ Len(pile[c]) < LEN /\ Len(pile[c]) \in Nat
        /\ \A i \in 1 .. Len(pile[c]) : pile[c][i].part = i
    BY <2>1, LenProperties DEF Streams
  <2>3. wire[c][1].part = Len(pile[c]) + 1
    BY <2>1, <2>2, NextPart
  <2>4. /\ Len(pieces) = Len(pile[c]) + 1
        /\ \A i \in 1 .. Len(pieces) : pieces[i].part = i
        /\ pieces[Len(pieces)] = wire[c][1]
    <3>1. /\ Len(pieces) = Len(pile[c]) + 1
          /\ \A i \in 1 .. Len(pile[c]) : pieces[i] = pile[c][i]
          /\ pieces[Len(pile[c]) + 1] = wire[c][1]
      BY <2>1, ReadMore
    <3> HIDE DEF pieces
    <3> QED BY <2>2, <2>3, <3>1
  <2>5. pieces \o Tail(wire[c]) = Stream(c)
    BY <2>1, ReadStream DEF Stream
  <2>6. wire' = [wire EXCEPT ![c] = Tail(@)] /\ UNCHANGED <<mode, sock, conn>>
        /\ pile' = [pile EXCEPT ![c] = IF Whole(pieces) THEN <<>> ELSE pieces]
    BY <1>9 DEF RelayReads
  <2> HIDE DEF pieces
  <2>7. Whole(pieces) <=> Len(pieces) = LEN
    <3>1. Len(pieces) \in 1 .. Len(pieces)
      BY <2>2, <2>4
    <3>2. pieces[Len(pieces)].part = Len(pieces)
      BY <2>4, <3>1
    <3> QED BY <3>2 DEF Whole
  <2>8. conn[c] \in {"open", "closed"}
    BY <2>1 DEF Streams, TypeOK
  <2>9. wire'[c] = Tail(wire[c]) /\ pile'[c] = IF Whole(pieces) THEN <<>> ELSE pieces
    BY <2>6 DEF TypeOK
  <2>10. /\ Good(Stream(c)') /\ (Ends(Stream(c)) => Ends(Stream(c)'))
         /\ Len(pile'[c]) < LEN /\ \A i \in 1 .. Len(pile'[c]) : pile'[c][i].part = i
    <3>1. CASE Whole(pieces)
      <4>1. wire[c][1].part = LEN
        BY <2>3, <2>4, <2>7, <3>1
      <4>2. Good(Tail(wire[c])) /\ (Ends(Stream(c)) => Ends(Tail(wire[c])))
        BY <2>1, <4>1, AfterWhole DEF Stream
      <4>3. Tail(wire[c]) \in Seq(Pieces)
        BY <2>1, ReadMore
      <4>4. Stream(c)' = Tail(wire[c])
        BY <2>9, <3>1, <4>3, ConcatEmptySeq DEF Stream
      <4>5. pile'[c] = <<>> /\ Len(<<>>) = 0
        BY <2>9, <3>1, EmptySeq
      <4> QED BY <4>2, <4>4, <4>5
    <3>2. CASE ~Whole(pieces)
      <4>1. pile'[c] = pieces /\ Len(pieces) < LEN
        BY <2>2, <2>4, <2>7, <2>9, <3>2
      <4>2. Stream(c)' = Stream(c)
        BY <2>5, <2>9, <4>1 DEF Stream
      <4>3. Good(Stream(c))
        BY DEF Streams
      <4> HIDE DEF Stream
      <4> QED BY <2>4, <4>1, <4>2, <4>3
    <3> QED BY <3>1, <3>2
  <2>11. ASSUME NEW d \in Conns, d # c
         PROVE  Stream(d)' = Stream(d) /\ wire'[d] = wire[d] /\ pile'[d] = pile[d]
    BY <2>6, <2>11 DEF Stream, TypeOK
  <2> HIDE DEF Stream
  <2> QED BY <2>6, <2>8, <2>10, <2>11 DEF Streams
<1>10. ASSUME NEW c \in Conns, ConnectionEnds(c) PROVE Streams'
  <2>1. conn[c] = "closed" /\ wire[c] = <<>> /\ conn' = [conn EXCEPT ![c] = "free"]
        /\ pile' = [pile EXCEPT ![c] = <<>>] /\ UNCHANGED <<mode, sock, wire>>
    BY <1>10 DEF ConnectionEnds
  <2>2. conn'[c] = "free" /\ pile'[c] = <<>> /\ wire'[c] = <<>> /\ mode # "udp"
    BY <2>1 DEF TypeOK, Streams
  <2>3. Stream(c)' = <<>> \o <<>>
    BY <2>2 DEF Stream
  <2>4. Good(Stream(c)') /\ Len(<<>>) = 0
    BY <2>3, NothingIsGood, EmptySeq
  <2>5. ASSUME NEW d \in Conns, d # c
        PROVE  Stream(d)' = Stream(d) /\ wire'[d] = wire[d] /\ pile'[d] = pile[d] /\ conn'[d] = conn[d]
    BY <2>1, <2>5 DEF Stream, TypeOK
  <2> HIDE DEF Stream
  <2> QED BY <2>1, <2>2, <2>4, <2>5 DEF Streams
<1>11. ASSUME NEW c \in Conns, ConnectionDies(c) PROVE Streams'
  <2>1. conn[c] \in {"open", "closed"} /\ conn' = [conn EXCEPT ![c] = IF sock = c THEN "dead" ELSE "free"]
        /\ wire' = [wire EXCEPT ![c] = <<>>]
        /\ pile' = [pile EXCEPT ![c] = <<>>] /\ UNCHANGED <<mode, sock>>
    BY <1>11 DEF ConnectionDies
  <2>2. conn'[c] \in {"dead", "free"} /\ pile'[c] = <<>> /\ wire'[c] = <<>> /\ mode # "udp"
    BY <2>1 DEF TypeOK, Streams
  <2>3. Stream(c)' = <<>> \o <<>>
    BY <2>2 DEF Stream
  <2>4. Good(Stream(c)') /\ Len(<<>>) = 0
    BY <2>3, NothingIsGood, EmptySeq
  <2>5. ASSUME NEW d \in Conns, d # c
        PROVE  Stream(d)' = Stream(d) /\ wire'[d] = wire[d] /\ pile'[d] = pile[d] /\ conn'[d] = conn[d]
    BY <2>1, <2>5 DEF Stream, TypeOK
  <2> HIDE DEF Stream
  <2> QED BY <2>1, <2>2, <2>4, <2>5 DEF Streams
<1>12. ASSUME NEW c \in Conns, ResetArrives(c) PROVE Streams'
  <2>1. conn[c] = "dead" /\ conn' = [conn EXCEPT ![c] = "reset"]
        /\ UNCHANGED <<mode, sock, wire, pile>>
    BY <1>12 DEF ResetArrives
  <2>2. conn'[c] = "reset" /\ mode # "udp"
    BY <2>1 DEF TypeOK, Streams
  <2>3. ASSUME NEW d \in Conns, d # c PROVE conn'[d] = conn[d]
    BY <2>1, <2>3 DEF TypeOK
  <2>4. \A d \in Conns : Stream(d)' = Stream(d)
    BY <2>1 DEF Stream
  <2> HIDE DEF Stream
  <2> QED BY <2>1, <2>2, <2>3, <2>4 DEF Streams
<1>13. CASE DatagramArrives
  BY <1>0, <1>13 DEF DatagramArrives
<1>14. CASE DatagramLost
  BY <1>0, <1>14 DEF DatagramLost
<1>15. CASE UNCHANGED vars
  BY <1>0, <1>15 DEF vars, relay
<1> QED BY <1>1, <1>2, <1>3, <1>4, <1>5, <1>6, <1>7, <1>8, <1>9, <1>10, <1>11,
           <1>12, <1>13, <1>14, <1>15 DEF Next

(***************************************************************************)
(* Whatever sends fail half-way and whatever connections die, the relay    *)
(* never joins the start of one message to another.                        *)
(***************************************************************************)
THEOREM MessagesStayApart == Spec => []NoMergedMessages
<1>1. Init => Streams
  BY StreamsInit
<1>2. TypeOK /\ Streams /\ [Next]_vars => Streams'
  BY StreamsStep
<1>3. Streams => NoMergedMessages
  BY DEF Streams, Stream, Good, NoMergedMessages
<1> QED BY <1>1, <1>2, <1>3, TypeCorrect, PTL DEF Spec

-----------------------------------------------------------------------------
(* The failures are told, and never too many of them. *)

(***************************************************************************)
(* The strengthening of FailuresSurfaced and EveryFailureIsAGap, for the   *)
(* messages before the bound: each one, wherever it is, carries the number *)
(* of failures before it; one that may be read whole is not among them;    *)
(* and while a message is being sent all the others are earlier ones.      *)
(***************************************************************************)
OnWire ==
  { x \in Pieces : \E c \in Conns :
      \/ \E i \in 1 .. Len(wire[c]) : wire[c][i] = x
      \/ \E i \in 1 .. Len(pile[c]) : pile[c][i] = x }

Told == { m \in Message :
            /\ m.number < MAX_MSG
            /\ m \in datagrams \cup received \/ \E x \in OnWire : x.of = m }

Readable == { m \in Message :
            /\ m.number < MAX_MSG
            /\ m \in datagrams \cup received \/ \E x \in OnWire : x.of = m /\ x.part = LEN }

FailedBefore(k) == Cardinality({ n \in lost : n < k })

Counts ==
  /\ \A m \in Told : m.number <= number /\ m.failures = FailedBefore(m.number)
  /\ \A m \in Readable : m.number \notin lost
  /\ pc = "send" =>
       /\ message.number = number /\ number \notin lost
       /\ number < MAX_MSG => message.failures = FailedBefore(number)
       /\ \A m \in Told : m.number < number
  /\ lost \subseteq 1 .. number /\ MAX_MSG \notin lost
  /\ number < MAX_MSG => failed = Cardinality(lost)
  /\ \A m \in received : m.number < MAX_MSG

LEMMA MessageType == ASSUME NEW m \in Message PROVE m.number \in 1 .. MAX_MSG /\ m.failures \in 0 .. MAX_MSG
BY DEF Message

(* Where nothing is sent, nothing new can be read. *)
LEMMA NothingNew ==
  ASSUME OnWire' \subseteq OnWire, datagrams' \subseteq datagrams,
         received' \subseteq received \cup datagrams
  PROVE  Told' \subseteq Told /\ Readable' \subseteq Readable
<1> HIDE DEF OnWire
<1>1. ASSUME NEW m \in Told' PROVE m \in Told
  BY <1>1 DEF Told
<1>2. ASSUME NEW m \in Readable' PROVE m \in Readable
  BY <1>2 DEF Readable
<1> QED BY <1>1, <1>2

(* A step that counts nothing and sends nothing. *)
LEMMA NothingCounted ==
  ASSUME Counts, Told' \subseteq Told, Readable' \subseteq Readable,
         UNCHANGED <<number, failed, lost>>,
         pc' = "send" => pc = "send" /\ message' = message,
         \A m \in received' : m.number < MAX_MSG
  PROVE  Counts'
<1>1. \A k : FailedBefore(k)' = FailedBefore(k)
  BY DEF FailedBefore
<1> HIDE DEF FailedBefore, Told, Readable
<1> QED BY <1>1 DEF Counts

(* A failed send is counted once, and no count of an earlier message changes. *)
LEMMA CountedOnce ==
  ASSUME TypeOK, Counts, pc = "send", Failed, number' = number
  PROVE  /\ lost' \subseteq 1 .. number /\ MAX_MSG \notin lost' /\ lost' \subseteq lost \cup {number}
         /\ number < MAX_MSG => failed' = Cardinality(lost')
         /\ \A k \in 1 .. number : FailedBefore(k)' = FailedBefore(k)
         /\ pc' = "wait"
<1> USE RelayAssumption
<1>1. message.number = number /\ number \in 1 .. MAX_MSG /\ number \notin lost
  BY MessageType DEF Counts, TypeOK
<1>2. lost' = (IF number < MAX_MSG THEN lost \cup {number} ELSE lost) /\ failed' = Up(failed) /\ pc' = "wait"
  <2>1. lost' = lost \cup Early({number}) /\ failed' = Up(failed) /\ pc' = "wait"
    BY <1>1 DEF Failed, Done
  <2>2. Early({number}) = IF number < MAX_MSG THEN {number} ELSE {}
    BY <1>1 DEF Early
  <2> QED BY <2>1, <2>2
<1>3. lost' \subseteq 1 .. number /\ MAX_MSG \notin lost' /\ lost' \subseteq lost \cup {number}
  BY <1>1, <1>2 DEF Counts
<1>4. \A k \in 1 .. number : FailedBefore(k)' = FailedBefore(k)
  <2> TAKE k \in 1 .. number
  <2>1. ~(number < k)
    BY <1>1
  <2>2. { n \in lost' : n < k } = { n \in lost : n < k }
    BY <1>2, <2>1
  <2> QED BY <2>2 DEF FailedBefore
<1>5. ASSUME number < MAX_MSG PROVE failed' = Cardinality(lost')
  <2>1. lost \in SUBSET (1 .. number - 1)
    BY <1>1 DEF Counts
  <2>2. /\ IsFiniteSet(1 .. number - 1)
        /\ Cardinality(1 .. number - 1) = IF 1 > number - 1 THEN 0 ELSE (number - 1) - 1 + 1
    <3>1. 1 \in Int /\ number - 1 \in Int
      BY <1>1
    <3> QED BY <3>1, FS_Interval
  <2>3. IsFiniteSet(lost) /\ Cardinality(lost) <= Cardinality(1 .. number - 1)
    BY <2>1, <2>2, FS_Subset
  <2>4. Cardinality(lost) \in Nat
    BY <2>3, FS_CardinalityType
  <2>5. Cardinality(lost \cup {number}) = Cardinality(lost) + 1
    BY <1>1, <2>3, FS_AddElement
  <2>6. failed = Cardinality(lost) /\ failed < MAX_MSG
    BY <1>1, <1>5, <2>2, <2>3, <2>4 DEF Counts
  <2> QED BY <1>2, <1>5, <2>5, <2>6 DEF Up
<1> QED BY <1>2, <1>3, <1>4, <1>5

(* After a failed send, whether or not pieces of it were written. *)
LEMMA FailureCounted ==
  ASSUME TypeOK, Counts, pc = "send", Failed, number' = number,
         Told' \subseteq Told \cup {message}, Readable' \subseteq Readable,
         received' = received
  PROVE  Counts'
<1>1. /\ lost' \subseteq 1 .. number /\ MAX_MSG \notin lost' /\ lost' \subseteq lost \cup {number}
      /\ number < MAX_MSG => failed' = Cardinality(lost')
      /\ \A k \in 1 .. number : FailedBefore(k)' = FailedBefore(k)
      /\ pc' = "wait"
  BY CountedOnce
<1>2. /\ message.number = number /\ number \in 1 .. MAX_MSG
      /\ number < MAX_MSG => message.failures = FailedBefore(number)
  BY MessageType DEF Counts, TypeOK
<1>3. \A m \in Told' : m \in Message /\ m.number < MAX_MSG
  BY DEF Told
<1>4. \A m \in Readable : m \in Told
  BY DEF Readable, Told
<1> HIDE DEF FailedBefore, Told, Readable
<1>5. ASSUME NEW m \in Told'
      PROVE  m.number <= number' /\ m.failures = FailedBefore(m.number)'
  <2>0. m.number \in 1 .. MAX_MSG /\ m.number < MAX_MSG
    BY <1>3, <1>5, MessageType
  <2>1. CASE m \in Told
    <3>1. m.number <= number /\ m.failures = FailedBefore(m.number)
      BY <2>1 DEF Counts
    <3>2. m.number \in 1 .. number
      BY <1>2, <2>0, <3>1
    <3> QED BY <1>1, <3>1, <3>2
  <2>2. CASE m = message
    <3>1. number \in 1 .. number /\ number < MAX_MSG
      BY <1>2, <2>0, <2>2
    <3> QED BY <1>1, <1>2, <2>2, <3>1
  <2> QED BY <1>5, <2>1, <2>2
<1>6. ASSUME NEW m \in Readable' PROVE m.number \notin lost'
  <2>1. m \in Readable /\ m \in Told
    BY <1>4, <1>6
  <2>2. m.number \notin lost /\ m.number < number
    BY <2>1 DEF Counts
  <2>3. m.number # number
    BY <1>2, <2>2
  <2> QED BY <1>1, <2>2, <2>3
<1> QED BY <1>1, <1>5, <1>6 DEF Counts

LEMMA CountsInit == Init => Counts
<1> SUFFICES ASSUME Init PROVE Counts
  OBVIOUS
<1>1. \A c \in Conns : Len(wire[c]) = 0 /\ Len(pile[c]) = 0
  BY EmptySeq DEF Init
<1>2. OnWire = {}
  BY <1>1 DEF OnWire
<1>3. Told = {} /\ Readable = {}
  BY <1>2 DEF Told, Readable, Init
<1>4. number = 0 /\ failed = 0 /\ lost = {} /\ pc = "build" /\ received = {}
  BY DEF Init
<1>5. Cardinality({}) = 0
  BY FS_EmptySet
<1> HIDE DEF Told, Readable
<1> QED BY <1>3, <1>4, <1>5 DEF Counts

(* A new message tells of all the failures so far. *)
LEMMA BuildCounts == TypeOK /\ Counts /\ Build => Counts'
<1> SUFFICES ASSUME TypeOK, Counts, Build PROVE Counts'
  OBVIOUS
<1> USE RelayAssumption
<1>1. /\ number' = Up(number) /\ pc' = "send"
      /\ message' = [number |-> Up(number), failures |-> failed]
      /\ UNCHANGED <<failed, lost, conn, wire, pile, datagrams, received>>
  BY DEF Build, relay
<1>2. number \in 0 .. MAX_MSG
  BY DEF TypeOK
<1>3. Told' = Told /\ Readable' = Readable
  BY <1>1 DEF Told, Readable, OnWire
<1>4. \A k : FailedBefore(k)' = FailedBefore(k)
  BY <1>1 DEF FailedBefore
<1>5. \A m \in Told : m.number \in 1 .. MAX_MSG /\ m.number < MAX_MSG
  BY MessageType DEF Told
<1>6. message'.number = number' /\ message'.failures = failed
  <2> DEFINE n == Up(number)
             f == failed
  <2>1. message' = [number |-> n, failures |-> f]
    BY <1>1
  <2> HIDE DEF n, f
  <2>2. message'.number = n /\ message'.failures = f
    BY <2>1
  <2> QED BY <1>1, <2>2 DEF n, f
<1> HIDE DEF Told, Readable, FailedBefore
<1>7. CASE number < MAX_MSG
  <2>1. number' = number + 1
    BY <1>1, <1>7 DEF Up
  <2>2. lost \subseteq 1 .. number /\ failed = Cardinality(lost)
    BY <1>7 DEF Counts
  <2>3. { n \in lost : n < number' } = lost
    <3>1. \A n \in lost : n < number + 1
      BY <1>2, <2>2, RelayAssumption
    <3> QED BY <2>1, <3>1
  <2>4. FailedBefore(number') = Cardinality(lost)
    BY <2>3 DEF FailedBefore
  <2>5. number' \notin lost /\ lost' \subseteq 1 .. number'
    BY <1>1, <1>2, <2>1, <2>2
  <2>6. FailedBefore(number)' = Cardinality(lost)
    BY <1>1, <2>4 DEF FailedBefore
  <2>7. \A m \in Told : m.number < number' /\ m.number <= number'
    BY <1>2, <1>5, <2>1 DEF Counts
  <2> QED BY <1>1, <1>3, <1>4, <1>6, <2>2, <2>5, <2>6, <2>7 DEF Counts
<1>8. CASE number = MAX_MSG
  <2>1. number' = MAX_MSG
    BY <1>1, <1>8 DEF Up
  <2>2. \A m \in Told : m.number < number' /\ m.number <= number'
    BY <1>5, <2>1
  <2>3. number' \notin lost /\ lost' \subseteq 1 .. number'
    BY <1>1, <1>8, <2>1 DEF Counts
  <2> QED BY <1>1, <1>3, <1>4, <1>6, <1>8, <2>1, <2>2, <2>3 DEF Counts
<1> QED BY <1>2, <1>7, <1>8

(* What a send puts on its way is of its message, and whole only if all of it is. *)
LEMMA SentPieces ==
  ASSUME TypeOK, NEW d \in Conns, NEW f \in Seq(Pieces), NEW n \in 0 .. LEN, message \in Message,
         Len(f) = n, \A i \in 1 .. n : f[i] = [of |-> message, part |-> i],
         wire' = [wire EXCEPT ![d] = @ \o f], pile' = pile
  PROVE  \A x \in OnWire' : x \in OnWire \/ (x.of = message /\ x.part \in 1 .. n)
<1>1. /\ wire[d] \in Seq(Pieces) /\ Len(wire[d]) \in Nat
      /\ Len(wire[d] \o f) = Len(wire[d]) + n
      /\ \A i \in 1 .. Len(wire[d]) : (wire[d] \o f)[i] = wire[d][i]
      /\ \A i \in 1 .. n : (wire[d] \o f)[Len(wire[d]) + i] = f[i]
  <2>1. wire[d] \in Seq(Pieces)
    BY DEF TypeOK
  <2> QED BY <2>1, Joined
<1>2. \A c \in Conns : wire'[c] = IF c = d THEN wire[d] \o f ELSE wire[c]
  BY DEF TypeOK
<1>3. LEN \in Nat
  BY RelayAssumption
<1> SUFFICES ASSUME NEW x \in OnWire', x \notin OnWire PROVE x.of = message /\ x.part \in 1 .. n
  OBVIOUS
<1>4. x \in Pieces /\ \A c \in Conns : /\ \A i \in 1 .. Len(wire[c]) : wire[c][i] # x
                                       /\ \A i \in 1 .. Len(pile[c]) : pile[c][i] # x
  BY DEF OnWire
<1>5. PICK c \in Conns : \/ \E i \in 1 .. Len(wire'[c]) : wire'[c][i] = x
                         \/ \E i \in 1 .. Len(pile'[c]) : pile'[c][i] = x
  BY DEF OnWire
<1>6. c = d /\ \E i \in 1 .. Len(wire[d]) + n : (wire[d] \o f)[i] = x
  BY <1>1, <1>2, <1>4, <1>5
<1>7. PICK i \in 1 .. Len(wire[d]) + n : (wire[d] \o f)[i] = x
  BY <1>6
<1>8. ~(i <= Len(wire[d]))
  <2>1. ASSUME i <= Len(wire[d]) PROVE FALSE
    <3>1. i \in 1 .. Len(wire[d])
      BY <1>1, <2>1
    <3> QED BY <1>1, <1>4, <1>7, <3>1
  <2> QED BY <2>1
<1> DEFINE j == i - Len(wire[d])
<1>9. j \in 1 .. n /\ i = Len(wire[d]) + j
  BY <1>1, <1>3, <1>8
<1> HIDE DEF j
<1>10. x = f[j]
  BY <1>1, <1>7, <1>9
<1>11. x = [of |-> message, part |-> j]
  BY <1>9, <1>10
<1> QED BY <1>9, <1>11

LEMMA SendSucceedsCounts == TypeOK /\ Counts /\ SendSucceeds => Counts'
<1> SUFFICES ASSUME TypeOK, Counts, SendSucceeds PROVE Counts'
  OBVIOUS
<1>1. /\ pc = "send" /\ pc' = "wait" /\ sock \in Conns /\ message \in Message
      /\ UNCHANGED <<number, failed, lost, pile, received>>
      /\ datagrams' \subseteq datagrams \cup {message}
  BY DEF SendSucceeds, Done, TypeOK
<1>2. \A x \in OnWire' : x \in OnWire \/ x.of = message
  <2>1. CASE wire' = wire
    BY <1>1, <2>1 DEF OnWire
  <2>2. CASE wire' # wire
    <3>1. wire' = [wire EXCEPT ![sock] = @ \o Frame(message)]
      BY <2>2 DEF SendSucceeds
    <3>2. LEN \in 0 .. LEN
      BY RelayAssumption
    <3> QED BY <1>1, <3>1, <3>2, FrameIs, SentPieces
  <2> QED BY <2>1, <2>2
<1> HIDE DEF OnWire
<1>3. Told' \subseteq Told \cup {message} /\ Readable' \subseteq Readable \cup {message}
  <2>1. ASSUME NEW m \in Told' PROVE m \in Told \cup {message}
    BY <1>1, <1>2, <2>1 DEF Told
  <2>2. ASSUME NEW m \in Readable' PROVE m \in Readable \cup {message}
    BY <1>1, <1>2, <2>2 DEF Readable
  <2> QED BY <2>1, <2>2
<1>4. \A k : FailedBefore(k)' = FailedBefore(k)
  BY <1>1 DEF FailedBefore
<1>5. message.number = number /\ number \in 1 .. MAX_MSG /\ number \notin lost
      /\ (number < MAX_MSG => message.failures = FailedBefore(number))
  BY <1>1, MessageType DEF Counts
<1>6. \A m \in Told' : m.number < MAX_MSG
  BY DEF Told
<1> HIDE DEF Told, Readable, FailedBefore
<1>7. \A m \in Told' : m.number <= number' /\ m.failures = FailedBefore(m.number)'
  <2>1. ASSUME message \in Told'
        PROVE  message.number <= number' /\ message.failures = FailedBefore(message.number)
    <3>1. number < MAX_MSG
      BY <1>5, <1>6, <2>1
    <3> QED BY <1>1, <1>5, <3>1
  <2>2. ASSUME NEW m \in Told' PROVE m.number <= number' /\ m.failures = FailedBefore(m.number)'
    <3>1. CASE m \in Told
      BY <1>1, <1>4, <3>1 DEF Counts
    <3>2. CASE m = message
      <4>1. m.number <= number' /\ m.failures = FailedBefore(m.number)
        BY <2>1, <2>2, <3>2
      <4> QED BY <1>4, <4>1
    <3> QED BY <1>3, <2>2, <3>1, <3>2
  <2> QED BY <2>2
<1>8. \A m \in Readable' : m.number \notin lost'
  BY <1>1, <1>3, <1>5 DEF Counts
<1> QED BY <1>1, <1>7, <1>8 DEF Counts

LEMMA SendFailsCounts == TypeOK /\ Counts /\ SendFails => Counts'
<1> SUFFICES ASSUME TypeOK, Counts, SendFails PROVE Counts'
  OBVIOUS
<1>1. /\ pc = "send" /\ Failed /\ sock \in Conns /\ message \in Message
      /\ UNCHANGED <<number, pile, datagrams, received>>
  BY DEF SendFails, TypeOK
<1>2. \A x \in OnWire' : x \in OnWire \/ (x.of = message /\ x.part # LEN)
  <2>1. CASE wire' = wire
    BY <1>1, <2>1 DEF OnWire
  <2>2. CASE wire' # wire
    <3>1. PICK n \in 0 .. LEN - 1 :
            wire' = [wire EXCEPT ![sock] = @ \o SubSeq(Frame(message), 1, n)]
      BY <2>2 DEF SendFails
    <3>2. n \in 0 .. LEN /\ LEN \notin 1 .. n
      BY RelayAssumption
    <3>3. /\ SubSeq(Frame(message), 1, n) \in Seq(Pieces)
          /\ Len(SubSeq(Frame(message), 1, n)) = n
          /\ \A i \in 1 .. n : SubSeq(Frame(message), 1, n)[i] = [of |-> message, part |-> i]
      BY <1>1, <3>2, CutFrameIs
    <3>4. \A x \in OnWire' : x \in OnWire \/ (x.of = message /\ x.part \in 1 .. n)
      BY <1>1, <3>1, <3>2, <3>3, SentPieces
    <3> HIDE DEF OnWire
    <3> QED BY <3>2, <3>4
  <2> QED BY <2>1, <2>2
<1> HIDE DEF OnWire
<1>3. Told' \subseteq Told \cup {message} /\ Readable' \subseteq Readable
  <2>1. ASSUME NEW m \in Told' PROVE m \in Told \cup {message}
    BY <1>1, <1>2, <2>1 DEF Told
  <2>2. ASSUME NEW m \in Readable' PROVE m \in Readable
    BY <1>1, <1>2, <2>2 DEF Readable
  <2> QED BY <2>1, <2>2
<1> QED BY <1>1, <1>3, FailureCounted

(* The messages of an earlier process are not told apart any more. *)
LEMMA RestartCounts == TypeOK /\ Restart => Counts'
<1> SUFFICES ASSUME TypeOK, Restart PROVE Counts'
  OBVIOUS
<1>1. /\ pc' = "build" /\ number' = 0 /\ failed' = 0 /\ lost' = {} /\ received' = {}
      /\ datagrams' \subseteq {Stale}
      /\ \A c \in Conns : wire'[c] = Aged(wire[c]) /\ pile'[c] = Aged(pile[c])
  BY DEF Restart
<1>2. Stale.number = MAX_MSG /\ ~(MAX_MSG < MAX_MSG)
  BY RelayAssumption DEF Stale
<1> HIDE DEF Stale
<1>3. ASSUME NEW x \in OnWire' PROVE x.of = Stale
  <2>1. PICK c \in Conns : \/ \E i \in 1 .. Len(wire'[c]) : wire'[c][i] = x
                           \/ \E i \in 1 .. Len(pile'[c]) : pile'[c][i] = x
    BY <1>3 DEF OnWire
  <2>2. PICK s \in Seq(Pieces) : \E i \in 1 .. Len(Aged(s)) : Aged(s)[i] = x
    BY <1>1, <2>1 DEF TypeOK
  <2>3. PICK i \in 1 .. Len(s) : Aged(s)[i] = x
    BY <2>2, AgedIs
  <2> DEFINE part == s[i].part
  <2>4. x = [of |-> Stale, part |-> part]
    BY <2>3, AgedIs
  <2> HIDE DEF part
  <2> QED BY <2>4
<1> HIDE DEF OnWire
<1>4. Told' = {} /\ Readable' = {}
  BY <1>1, <1>2, <1>3 DEF Told, Readable
<1>5. Cardinality({}) = 0
  BY FS_EmptySet
<1> HIDE DEF Told, Readable
<1> QED BY <1>1, <1>4, <1>5 DEF Counts

(* The relay reads a message of which it has got the last piece. *)
LEMMA ReadCounts ==
  ASSUME TypeOK, Streams, Counts, NEW c \in Conns, RelayReads(c)
  PROVE  Counts'
<1> DEFINE p == pile[c]
           w == wire[c]
           pieces == Append(p, Head(w))
<1>1. /\ p \in Seq(Pieces) /\ w \in Seq(Pieces) /\ w # <<>> /\ Good(p \o w)
      /\ Len(p) < LEN /\ \A i \in 1 .. Len(p) : p[i].part = i
  BY DEF RelayReads, TypeOK, Streams, Stream
<1>2. /\ wire' = [wire EXCEPT ![c] = Tail(w)]
      /\ pile' = [pile EXCEPT ![c] = IF Whole(pieces) THEN <<>> ELSE pieces]
      /\ received' = IF Whole(pieces) THEN Read(pieces[Len(pieces)].of) ELSE received
      /\ UNCHANGED <<pc, number, message, failed, datagrams, lost>>
  BY DEF RelayReads
<1>3. /\ Len(pieces) = Len(p) + 1
      /\ \A i \in 1 .. Len(p) : pieces[i] = p[i]
      /\ pieces[Len(p) + 1] = w[1] /\ w[1] \in Pieces
      /\ Len(Tail(w)) = Len(w) - 1
      /\ \A i \in 1 .. Len(w) - 1 : Tail(w)[i] = w[i + 1]
      /\ Len(p) \in Nat /\ Len(w) \in Nat \ {0}
  BY <1>1, ReadMore, LenProperties, EmptySeq
<1>4. w[1].part = Len(p) + 1
  BY <1>1, NextPart
<1> HIDE DEF pieces
<1>5. w[1] \in OnWire
  BY <1>3 DEF OnWire
<1>6. OnWire' \subseteq OnWire
  <2> SUFFICES ASSUME NEW x \in OnWire', x \notin OnWire PROVE FALSE
    OBVIOUS
  <2>1. x \in Pieces /\ \A d \in Conns : /\ \A i \in 1 .. Len(wire[d]) : wire[d][i] # x
                                         /\ \A i \in 1 .. Len(pile[d]) : pile[d][i] # x
    BY DEF OnWire
  <2>2. PICK d \in Conns : \/ \E i \in 1 .. Len(wire'[d]) : wire'[d][i] = x
                           \/ \E i \in 1 .. Len(pile'[d]) : pile'[d][i] = x
    BY DEF OnWire
  <2>3. d = c
    BY <1>2, <2>1, <2>2 DEF TypeOK
  <2>4. wire'[c] = Tail(w) /\ pile'[c] \in {<<>>, pieces}
    BY <1>2 DEF TypeOK
  <2>5. \A i \in 1 .. Len(Tail(w)) : Tail(w)[i] # x
    <3> TAKE i \in 1 .. Len(Tail(w))
    <3>1. i \in 1 .. Len(w) - 1 /\ i + 1 \in 1 .. Len(w)
      BY <1>3
    <3>2. Tail(w)[i] = w[i + 1]
      BY <1>3, <3>1
    <3> QED BY <2>1, <3>1, <3>2
  <2>6. \A i \in 1 .. Len(pieces) : pieces[i] # x
    <3> TAKE i \in 1 .. Len(pieces)
    <3>1. i \in 1 .. Len(p) \/ i = Len(p) + 1
      BY <1>3
    <3>2. w[1] # x
      BY <1>5
    <3> QED BY <1>3, <2>1, <3>1, <3>2
  <2>7. Len(<<>>) = 0
    BY EmptySeq
  <2> QED BY <2>2, <2>3, <2>4, <2>5, <2>6, <2>7
<1> DEFINE m == w[1].of
<1>7. m \in Message
  BY <1>3, OfType
<1>8. Whole(pieces) => w[1].part = LEN /\ pieces[Len(pieces)].of = m
  BY <1>3, <1>4 DEF Whole
<1>9. received' \subseteq received \cup {m} /\ (m \in received' => m \in received \/ m.number < MAX_MSG)
      /\ (m \in received' => m \in received \/ w[1].part = LEN)
  BY <1>2, <1>8 DEF Read
<1> HIDE DEF OnWire, m, w, p
<1>10. Told' \subseteq Told /\ Readable' \subseteq Readable
  <2>0. w[1].of = m
    BY DEF m
  <2>1. ASSUME NEW k \in Told' PROVE k \in Told
    BY <1>2, <1>5, <1>6, <1>9, <2>0, <2>1 DEF Told
  <2>2. ASSUME NEW k \in Readable' PROVE k \in Readable
    BY <1>2, <1>5, <1>6, <1>9, <2>0, <2>2 DEF Readable
  <2> QED BY <2>1, <2>2
<1>11. \A k \in received' : k.number < MAX_MSG
  BY <1>9 DEF Counts
<1> QED BY <1>2, <1>10, <1>11, NothingCounted

LEMMA CountsStep == TypeOK /\ Streams /\ Counts /\ [Next]_vars => Counts'
<1> SUFFICES ASSUME TypeOK, Streams, Counts, [Next]_vars PROVE Counts'
  OBVIOUS
<1>0. ASSUME OnWire' \subseteq OnWire, datagrams' \subseteq datagrams, received' = received,
             UNCHANGED <<number, failed, lost>>, pc' = "send" => pc = "send" /\ message' = message
      PROVE  Counts'
  <2>1. Told' \subseteq Told /\ Readable' \subseteq Readable
    BY <1>0, NothingNew
  <2>2. \A m \in received' : m.number < MAX_MSG
    BY <1>0 DEF Counts
  <2> QED BY <1>0, <2>1, <2>2, NothingCounted
<1>1. CASE Build
  BY <1>1, BuildCounts
<1>2. ASSUME UNCHANGED <<wire, pile>> PROVE OnWire' \subseteq OnWire
  BY <1>2 DEF OnWire
<1>3. CASE BuildRaises \/ Tick \/ Connect \/ UNCHANGED vars
  BY <1>0, <1>2, <1>3 DEF BuildRaises, Tick, Connect, vars, relay
<1>4. CASE ConnectFails
  <2>1. pc = "send" /\ Failed /\ UNCHANGED <<number, wire, pile, datagrams, received>>
    BY <1>4 DEF ConnectFails, relay
  <2>2. Told' \subseteq Told /\ Readable' \subseteq Readable
    BY <1>2, <2>1, NothingNew
  <2> QED BY <2>1, <2>2, FailureCounted
<1>5. CASE SendSucceeds
  BY <1>5, SendSucceedsCounts
<1>6. CASE SendFails
  BY <1>6, SendFailsCounts
<1>7. CASE Restart
  BY <1>7, RestartCounts
<1>8. ASSUME NEW c \in Conns, RelayReads(c) PROVE Counts'
  BY <1>8, ReadCounts
<1>9. ASSUME NEW c \in Conns, ConnectionEnds(c) \/ ConnectionDies(c) \/ ResetArrives(c) PROVE Counts'
  <2>1. \A d \in Conns : wire'[d] \in {wire[d], <<>>} /\ pile'[d] \in {pile[d], <<>>}
    BY <1>9 DEF ConnectionEnds, ConnectionDies, ResetArrives, TypeOK
  <2>2. Len(<<>>) = 0
    BY EmptySeq
  <2>3. OnWire' \subseteq OnWire
    <3> SUFFICES ASSUME NEW x \in OnWire' PROVE x \in OnWire
      OBVIOUS
    <3>1. PICK d \in Conns : \/ \E i \in 1 .. Len(wire'[d]) : wire'[d][i] = x
                             \/ \E i \in 1 .. Len(pile'[d]) : pile'[d][i] = x
      BY DEF OnWire
    <3>2. x \in Pieces
      BY DEF OnWire
    <3>3. \/ \E i \in 1 .. Len(wire[d]) : wire[d][i] = x
          \/ \E i \in 1 .. Len(pile[d]) : pile[d][i] = x
      BY <2>1, <2>2, <3>1
    <3> QED BY <3>2, <3>3 DEF OnWire
  <2>4. UNCHANGED <<pc, message, number, failed, lost, datagrams, received>>
    BY <1>9 DEF ConnectionEnds, ConnectionDies, ResetArrives
  <2> QED BY <1>0, <2>3, <2>4
<1>10. CASE DatagramArrives
  <2>1. PICK m \in datagrams : received' = Read(m)
    BY <1>10 DEF DatagramArrives
  <2>2. received' \subseteq received \cup datagrams /\ \A k \in received' : k.number < MAX_MSG
    BY <2>1 DEF Read, Counts
  <2>3. UNCHANGED <<pc, message, number, failed, lost, datagrams, wire, pile>>
    BY <1>10 DEF DatagramArrives
  <2>4. Told' \subseteq Told /\ Readable' \subseteq Readable
    BY <1>2, <2>2, <2>3, NothingNew
  <2> QED BY <2>2, <2>3, <2>4, NothingCounted
<1>11. CASE DatagramLost
  <2>1. UNCHANGED <<pc, message, number, failed, lost, received, wire, pile>>
        /\ datagrams' \subseteq datagrams
    BY <1>11 DEF DatagramLost
  <2> QED BY <1>0, <1>2, <2>1
<1> QED BY <1>1, <1>3, <1>4, <1>5, <1>6, <1>7, <1>8, <1>9, <1>10, <1>11 DEF Next

LEMMA CountsHold == Spec => [](TypeOK /\ Counts)
<1>1. Init => TypeOK /\ Streams /\ Counts
  BY TypeInit, StreamsInit, CountsInit
<1>2. TypeOK /\ Streams /\ Counts /\ [Next]_vars => (TypeOK /\ Streams /\ Counts)'
  BY TypeStep, StreamsStep, CountsStep
<1> QED BY <1>1, <1>2, PTL DEF Spec

(***************************************************************************)
(* A message the relay has read carries the number of all the sends of its *)
(* process that failed before it.                                          *)
(***************************************************************************)
THEOREM FailuresAreSurfaced == Spec => []FailuresSurfaced
<1>1. TypeOK /\ Counts => FailuresSurfaced
  <2> SUFFICES ASSUME TypeOK, Counts, NEW m \in received
               PROVE  m.failures = Cardinality({ n \in lost : n < m.number })
    BY DEF FailuresSurfaced
  <2>1. m \in Told
    BY DEF Told, TypeOK, Counts
  <2>2. m.failures = FailedBefore(m.number)
    BY <2>1 DEF Counts
  <2> QED BY <2>2 DEF FailedBefore
<1> QED BY <1>1, CountsHold, PTL

(***************************************************************************)
(* Between two messages of one process the relay has missed at least as    *)
(* many as the second reports failed since the first.                      *)
(***************************************************************************)
THEOREM NoFailureInvented == Spec => []EveryFailureIsAGap
<1>1. TypeOK /\ Counts => EveryFailureIsAGap
  <2> SUFFICES ASSUME TypeOK, Counts, NEW m \in received, NEW n \in received, m.number < n.number
               PROVE  /\ m.failures <= n.failures
                      /\ n.failures - m.failures <= n.number - m.number - 1
    BY DEF EveryFailureIsAGap
  <2> DEFINE a == m.number
             b == n.number
             A == { k \in lost : k < a }
             B == { k \in lost : k < b }
             C == a + 1 .. b - 1
  <2>1. m \in Told /\ n \in Told /\ m \in Readable
    BY DEF Told, Readable, TypeOK, Counts
  <2>2. m.failures = Cardinality(A) /\ n.failures = Cardinality(B) /\ a \notin lost
    BY <2>1 DEF Counts, FailedBefore
  <2>3. a \in 1 .. MAX_MSG /\ b \in 1 .. MAX_MSG /\ a < b /\ MAX_MSG \in Nat
    BY MessageType, RelayAssumption DEF TypeOK
  <2>4. lost \in SUBSET (1 .. MAX_MSG)
    BY DEF TypeOK
  <2> HIDE DEF a, b
  <2>5. IsFiniteSet(lost)
    <3>1. 1 \in Int /\ MAX_MSG \in Int
      BY <2>3
    <3> QED BY <2>4, <3>1, FS_Interval, FS_Subset
  <2>6. A \in SUBSET lost /\ B \in SUBSET lost /\ A \in SUBSET B
    <3>1. ASSUME NEW k \in lost, k < a PROVE k < b
      BY <2>3, <2>4, <3>1
    <3>2. A \subseteq lost /\ B \subseteq lost
      OBVIOUS
    <3>3. A \subseteq B
      BY <3>1
    <3> QED BY <3>2, <3>3
  <2>7. IsFiniteSet(C) /\ Cardinality(C) = b - a - 1
    <3>1. a + 1 \in Int /\ b - 1 \in Int
      BY <2>3
    <3>2. IsFiniteSet(C) /\ Cardinality(C) = IF a + 1 > b - 1 THEN 0 ELSE (b - 1) - (a + 1) + 1
      BY <3>1, FS_Interval
    <3> QED BY <2>3, <3>2
  <2>8. B \in SUBSET (A \cup C)
    <3>1. ASSUME NEW k \in lost, k < b, ~(k < a) PROVE k \in a + 1 .. b - 1
      <4>1. k # a
        BY <2>2
      <4> QED BY <2>3, <2>4, <3>1, <4>1
    <3>2. B \subseteq A \cup C
      BY <3>1
    <3> QED BY <3>2
  <2> HIDE DEF A, B, C
  <2>9. IsFiniteSet(A) /\ IsFiniteSet(B) /\ Cardinality(A) <= Cardinality(B)
    BY <2>5, <2>6, FS_Subset
  <2>10. IsFiniteSet(A \cup C)
         /\ Cardinality(A \cup C) = Cardinality(A) + Cardinality(C) - Cardinality(A \cap C)
    BY <2>7, <2>9, FS_Union
  <2>11. Cardinality(B) <= Cardinality(A \cup C)
    BY <2>8, <2>10, FS_Subset
  <2>12. IsFiniteSet(A \cap C)
    <3>1. A \cap C \in SUBSET A
      OBVIOUS
    <3> QED BY <2>9, <3>1, FS_Subset
  <2>13. Cardinality(A) \in Nat /\ Cardinality(B) \in Nat /\ Cardinality(A \cap C) \in Nat
         /\ Cardinality(A \cup C) \in Int
    BY <2>9, <2>10, <2>12, FS_CardinalityType
  <2>14. Cardinality(B) - Cardinality(A) <= b - a - 1
    BY <2>3, <2>7, <2>10, <2>11, <2>13
  <2> QED BY <2>2, <2>9, <2>14 DEF a, b
<1> QED BY <1>1, CountsHold, PTL

-----------------------------------------------------------------------------
(***************************************************************************)
(* The refinement.  A step of the exporter tells a message, gives one up,  *)
(* lets the relay hear one, starts again, or changes nothing of the log.   *)
(***************************************************************************)
LEMMA GivesUp ==
  ASSUME TypeOK, Counts, pc = "send", Failed, UNCHANGED <<number, received>>
  PROVE  [Log!GiveUp]_(Log!vars)
<1>1. message.number = number /\ number \in 1 .. MAX_MSG /\ number \notin lost
  BY MessageType DEF Counts, TypeOK
<1>2. lost' = lost \cup Early({number})
  BY <1>1 DEF Failed
<1>3. CASE number = MAX_MSG
  BY <1>2, <1>3 DEF Early, Log!vars
<1>4. CASE number # MAX_MSG
  <2>1. number \in 1 .. MAX_MSG - 1
    BY <1>1, <1>4, RelayAssumption
  <2>2. Early({number}) = {number}
    BY <1>4 DEF Early
  <2>3. \A m \in received : m \in Told /\ m.number \in Nat
    BY MessageType DEF Told, Counts, TypeOK
  <2>4. \A m \in received : m.number # number
    BY <1>1, <2>3 DEF Counts
  <2> QED BY <1>1, <1>2, <2>1, <2>2, <2>4 DEF Log!GiveUp
<1> QED BY <1>3, <1>4

(* What the relay has read is a message of the log, and was not given up. *)
LEMMA HeardIs ==
  ASSUME TypeOK', Counts', UNCHANGED <<number, lost>>, NEW m \in received'
  PROVE  /\ m.number \in (1 .. number) \ (lost \cup {MAX_MSG})
         /\ m = [number |-> m.number,
                 failures |-> Cardinality({ n \in lost : n < m.number })]
<1>1. m \in Message /\ m.number \in 1 .. MAX_MSG /\ m.number < MAX_MSG
  BY MessageType DEF Counts, TypeOK
<1>2. m \in Told' /\ m \in Readable'
  BY <1>1 DEF Told, Readable
<1>3. m.number <= number /\ m.number \notin lost /\ m.failures = FailedBefore(m.number)'
  BY <1>2 DEF Counts
<1>4. m.number \in (1 .. number) \ (lost \cup {MAX_MSG})
  BY <1>1, <1>3, RelayAssumption DEF TypeOK
<1>5. m = [number |-> m.number, failures |-> m.failures]
  BY <1>1 DEF Message
<1> QED BY <1>3, <1>4, <1>5 DEF FailedBefore

LEMMA HearsOne ==
  ASSUME TypeOK', Counts', NEW m, received' = Read(m), UNCHANGED <<number, lost>>
  PROVE  [Log!Hear]_(Log!vars)
<1>1. CASE received' = received
  BY <1>1 DEF Log!vars
<1>2. CASE received' # received
  <2>1. received' = received \cup {m} /\ m \in received'
    BY <1>2 DEF Read
  <2>2. /\ m.number \in (1 .. number) \ (lost \cup {MAX_MSG})
        /\ m = [number |-> m.number,
                failures |-> Cardinality({ n \in lost : n < m.number })]
    BY <2>1, HeardIs
  <2> DEFINE told(k) == [number |-> k, failures |-> Cardinality({ n \in lost : n < k })]
  <2>3. m.number \in (1 .. number) \ (lost \cup {MAX_MSG}) /\ m = told(m.number)
    BY <2>2
  \* the two Cardinality are one definition, under two names
  <2>4. Log!Hear <=> /\ \E k \in (1 .. number) \ (lost \cup {MAX_MSG}) :
                          received' = received \cup {told(k)}
                     /\ UNCHANGED <<number, lost>>
    BY DEF Log!Hear, Log!Cardinality, Cardinality
  <2> HIDE DEF told
  <2>5. received' = received \cup {told(m.number)}
    BY <2>1, <2>3
  <2>6. UNCHANGED <<number, lost>>
    OBVIOUS
  <2>7. Log!Hear
    <3>1. \E k \in (1 .. number) \ (lost \cup {MAX_MSG}) : received' = received \cup {told(k)}
      BY <2>3, <2>5, Zenon
    <3> QED BY <2>4, <2>6, <3>1
  <2> QED BY <2>7
<1> QED BY <1>1, <1>2

LEMMA LogStep ==
  TypeOK /\ Counts /\ [Next]_vars /\ TypeOK' /\ Counts' => [Log!Next]_(Log!vars)
<1> SUFFICES ASSUME TypeOK, Counts, [Next]_vars, TypeOK', Counts' PROVE [Log!Next]_(Log!vars)
  OBVIOUS
<1>0. CASE UNCHANGED <<number, lost, received>>
  BY <1>0 DEF Log!vars
<1>1. CASE Build
  <2>1. number' = Up(number) /\ UNCHANGED <<lost, received>> /\ number \in 0 .. MAX_MSG
    BY <1>1 DEF Build, relay, TypeOK
  <2>2. CASE number < MAX_MSG
    <3>1. Log!Tell
      BY <2>1, <2>2 DEF Up, Log!Tell
    <3> QED BY <3>1 DEF Log!Next
  <2>3. CASE ~(number < MAX_MSG)
    BY <1>0, <2>1, <2>3 DEF Up
  <2> QED BY <2>2, <2>3
<1>2. CASE ConnectFails \/ SendFails
  <2>1. pc = "send" /\ Failed /\ UNCHANGED <<number, received>>
    BY <1>2 DEF ConnectFails, SendFails, relay
  <2> QED BY <2>1, GivesUp DEF Log!Next
<1>3. ASSUME NEW c \in Conns, RelayReads(c) PROVE [Log!Next]_(Log!vars)
  <2>1. /\ UNCHANGED <<number, lost>>
        /\ received' = received \/ \E m : received' = Read(m)
    BY <1>3 DEF RelayReads
  <2> QED BY <1>0, <2>1, HearsOne DEF Log!Next
<1>4. CASE DatagramArrives
  <2>1. UNCHANGED <<number, lost>> /\ \E m : received' = Read(m)
    BY <1>4 DEF DatagramArrives
  <2> QED BY <2>1, HearsOne DEF Log!Next
<1>5. CASE Restart
  BY <1>5 DEF Restart, Log!Restart, Log!Next
<1>6. CASE \/ BuildRaises \/ Connect \/ SendSucceeds \/ Tick
           \/ \E c \in Conns : ConnectionEnds(c) \/ ConnectionDies(c) \/ ResetArrives(c)
           \/ DatagramLost
  BY <1>0, <1>6
     DEF BuildRaises, Connect, SendSucceeds, Tick, ConnectionEnds, ConnectionDies, ResetArrives,
         DatagramLost, relay
<1>7. CASE UNCHANGED vars
  BY <1>0, <1>7 DEF vars
<1> QED BY <1>1, <1>2, <1>3, <1>4, <1>5, <1>6, <1>7 DEF Next

(***************************************************************************)
(* The exporter in syslog mode implements the log: whatever happens to     *)
(* sends, connections and datagrams, the relay hears only messages that    *)
(* were not given up, with the exact count of those before them that were. *)
(***************************************************************************)
THEOREM ImplementsLog == Spec => LogSpec
<1>1. Init => Log!Init
  BY DEF Init, Log!Init
<1> QED BY <1>1, CountsHold, LogStep, PTL DEF Spec, LogSpec, Log!Spec

=============================================================================
