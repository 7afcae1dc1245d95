-------------------------- MODULE TcpClientProofs ---------------------------
(***************************************************************************)
(* TcpClient for any number of sockets, slots, connections and polls, any  *)
(* sizes of windows, buffers and segments, any answers, and a network that *)
(* loses, repeats and swaps as often as it likes: its types, that recv     *)
(* gives the stream that was sent, that its end is the end, and that slots *)
(* are not lost.                                                           *)
(*                                                                         *)
(* The argument: ports are never used twice, so a slot in use belongs to   *)
(* the one socket whose connection has its port.  What that socket read    *)
(* and what is in rx_buf are the answer's first units, one after the       *)
(* other, because a segment is taken only where rcv_seq stands and stands  *)
(* in its sequence numbers where its units stand in the answer.            *)
(***************************************************************************)
EXTENDS TcpClient, SequenceTheorems, BasicTheorems

Flags == {"SYN", "ACK", "PSH", "FIN", "RST"}
UpSegment == [port : Port, flags : SUBSET Flags, seq : Nat, len : Nat, ack : Nat]
Frame == [port : Port \cup {NoPort}, flags : SUBSET Flags, seq : Nat, len : Nat]

\* What the remote host or the network may have sent: data and the FIN stand
\* where they stand in the answer.
Genuine(m) ==
  m # ArpReply =>
    /\ m.port \in Port
    /\ m.len > 0 => m.seq > 0 /\ m.seq + m.len <= Units(m.port) + 1
    /\ "FIN" \in m.flags => m.seq > 0 /\ m.seq + m.len = Units(m.port) + 1
    /\ "SYN" \in m.flags => m.seq = 0

Arrival == {m \in Frame : Genuine(m)}
Host == [state : {"listen", "syn", "open", "gone"}, expects : Nat, una : Nat, nxt : Nat]

Net == up \in Seq(UpSegment) /\ down \in Seq(Arrival) /\ server \in [Port -> Host]

\* A slot in use has a port, and after a FIN expects nothing that exists.
SlotSound(t) ==
  IF t.in_use
  THEN /\ t.port # NoPort /\ t.state # "CLOSED"
       /\ t.state = "SYN_SENT" => t.rx = <<>> /\ ~t.fin
       /\ t.fin => t.rcv = Units(t.port) + 2
  ELSE t = Unused

\* The parts of the invariant that a poll disturbs are about the slots ss.
Slots(ss) ==
  /\ \A fd \in Fd : SlotSound(ss[fd]) /\ ss[fd].port < nextPort
  /\ \A fd, g \in Fd : ss[fd].port = ss[g].port /\ ss[fd].port # NoPort => fd = g

Holds(s, fd, p) == Connected(s) /\ sockets[s].fd = fd /\ link[s] = p

\* A slot in use is that of the socket that made its connection, or of the
\* connect under way, the only one that waits for its SYN-ACK.
Owned(ss) ==
  /\ \A fd \in Fd : ss[fd].in_use =>
       (\E s \in Socket : Holds(s, fd, ss[fd].port)) \/ (In("connect") /\ call.fd = fd)
  /\ \A fd \in Fd : ss[fd].state = "SYN_SENT" => In("connect") /\ call.fd = fd

\* What was read and what is in rx_buf are the answer's first units; the next
\* one is expected, until the FIN is taken.
Follows(p, rd, t, late) ==
  LET n == Len(rd) + Len(t.rx)
  IN /\ \A k \in 1 .. Len(rd) : rd[k] = <<p, k>>
     /\ \A k \in 1 .. Len(t.rx) : t.rx[k] = <<p, Len(rd) + k>>
     /\ n <= Units(p)
     /\ IF t.fin THEN late \/ n = Units(p) ELSE t.rcv = n + 1

Streams(ss, ct, ov) ==
  \A s \in Socket : Connected(s) /\ ss[sockets[s].fd].port = link[s] =>
    /\ link[s] \notin ct \cup taken => Follows(link[s], read[s], ss[sockets[s].fd], link[s] \in ov)
    /\ ended[s] => ss[sockets[s].fd].fin /\ ss[sockets[s].fd].rx = <<>>

Links ==
  /\ \A s \in Socket : /\ Connected(s) <=> link[s] # NoPort
                       /\ Connected(s) => sockets[s].fd \in Fd /\ link[s] < nextPort
                       /\ ~Connected(s) => read[s] = <<>> /\ ~ended[s]
  /\ \A s, x \in Socket : link[s] = link[x] /\ link[s] # NoPort => s = x

Caller ==
  /\ In("connect") => /\ sockets[call.sock].state = "CREATED" /\ call.fd \in Fd
                      /\ socks[call.fd].state = "SYN_SENT" /\ socks[call.fd].port = nextPort - 1
                      /\ \A s \in Socket : link[s] < nextPort - 1
  /\ call.op \in {"send", "recv", "close"} =>
       Connected(call.sock) /\ call.fd = sockets[call.sock].fd

TInv == /\ TypeOK /\ Net /\ Links /\ Caller
        /\ Slots(socks) /\ Owned(socks) /\ Streams(socks, cut, overtaken)

-----------------------------------------------------------------------------
LEMMA NetFacts ==
  /\ MaxSockets \in Nat /\ MaxTcpSockets \in Nat /\ RxSize \in Nat /\ MaxQueue \in Nat /\ MaxQueue > 1
  /\ MaxPort \in Nat /\ MaxFaults \in Nat
  /\ ConnectPolls \in Nat /\ SendPolls \in Nat /\ RecvPolls \in Nat /\ ClosePolls \in Nat
  /\ \A p \in Port : Units(p) \in Nat
  /\ Fd \subseteq Nat /\ Socket \subseteq Nat /\ Port \subseteq Nat \ {0} /\ NoPort \notin Port
  /\ NoFd \notin Fd
  BY NetAssumption DEF NetAssumption, Fd, Socket, Port, NoPort, NoFd


-----------------------------------------------------------------------------
LEMMA ArrivalFacts ==
  ASSUME NEW m \in Arrival, m # ArpReply
  PROVE  /\ m.port \in Port /\ m.flags \subseteq Flags /\ m.seq \in Nat /\ m.len \in Nat
         /\ m.len > 0 => m.seq > 0 /\ m.seq + m.len <= Units(m.port) + 1
         /\ "FIN" \in m.flags => m.seq > 0 /\ m.seq + m.len = Units(m.port) + 1
         /\ "SYN" \in m.flags => m.seq = 0
  BY DEF Arrival, Frame, Genuine

LEMMA ArpIsArrival == ArpReply \in Arrival
  BY DEF Arrival, Frame, Genuine, ArpReply, FromServer

LEMMA UnusedFacts ==
  /\ Unused \in Conn /\ Len(Unused.rx) = 0 /\ Unused.rx = <<>> /\ ~Unused.in_use /\ ~Unused.fin
  /\ Unused.port = NoPort /\ Unused.state = "CLOSED"
<1>1. <<>> \in Seq(Port \X Nat) /\ Len(<<>>) = 0
  BY EmptySeq
<1>. QED  BY <1>1 DEF Unused, Conn

LEMMA PortNumbers == \A p \in Port \cup {NoPort} : p \in Nat
  BY DEF Port, NoPort

\* What a segment adds to rx_buf.
LEMMA DataIsCopied ==
  ASSUME NEW t \in Conn, Len(t.rx) <= RxSize, NEW m \in Arrival, m # ArpReply
  PROVE  LET d == WithData(t, m)
         IN /\ d = [t EXCEPT !.rx = d.rx, !.rcv = d.rcv] /\ d \in Conn /\ Len(d.rx) <= RxSize
            /\ ~InOrder(t, m) => d = t
            /\ InOrder(t, m) =>
                 /\ Copied(t, m) \in 0 .. m.len /\ d.rcv = t.rcv + m.len
                 /\ Len(d.rx) = Len(t.rx) + Copied(t, m)
                 /\ \A k \in 1 .. Len(d.rx) :
                      d.rx[k] = IF k <= Len(t.rx) THEN t.rx[k]
                                ELSE <<m.port, m.seq + (k - Len(t.rx)) - 1>>
<1> DEFINE c == Copied(t, m)
           new == [k \in 1 .. c |-> <<m.port, m.seq + k - 1>>]
           d == WithData(t, m)
<1>1. t.rx \in Seq(Port \X Nat) /\ Len(t.rx) \in Nat /\ t.rcv \in Nat
  BY LenProperties DEF Conn
<1>2. CASE ~InOrder(t, m)
  <2>1. d = t
    BY <1>2 DEF WithData
  <2>2. t = [t EXCEPT !.rx = t.rx, !.rcv = t.rcv]
    BY DEF Conn
  <2>. QED  BY <1>2, <2>1, <2>2
<1>3. CASE InOrder(t, m)
  <2>1. m.port \in Port /\ m.seq \in Nat /\ m.len \in Nat /\ m.seq > 0
    BY <1>3, ArrivalFacts DEF InOrder
  <2>2. c \in 0 .. m.len /\ c \in Nat /\ Len(t.rx) + c <= RxSize
    BY <1>1, <2>1, NetFacts DEF Copied, LeastOf
  <2>3. new \in Seq(Port \X Nat) /\ Len(new) = c /\ \A k \in 1 .. c : new[k] = <<m.port, m.seq + k - 1>>
    <3>1. new \in [1 .. c -> Port \X Nat]
      BY <2>1, <2>2
    <3>2. new \in Seq(Port \X Nat)
      <4>. HIDE DEF new, c
      <4>1. \A S : c \in Nat /\ new \in [1 .. c -> S] => new \in Seq(S)
        BY SeqDef
      <4>. QED  BY <2>2, <3>1, <4>1
    <3>3. DOMAIN new = 1 .. c
      OBVIOUS
    <3>4. Len(new) = c
      <4>1. Len(new) \in Nat /\ DOMAIN new = 1 .. Len(new)
        BY <3>2, LenProperties
      <4>. HIDE DEF new, c
      <4>. QED  BY <2>2, <3>3, <4>1
    <3>. QED  BY <3>2, <3>4
  <2>. HIDE DEF new
  <2>4. /\ t.rx \o new \in Seq(Port \X Nat) /\ Len(t.rx \o new) = Len(t.rx) + c
        /\ \A k \in 1 .. Len(t.rx) + c :
             (t.rx \o new)[k] = IF k <= Len(t.rx) THEN t.rx[k] ELSE new[k - Len(t.rx)]
    <3>1. \A S : t.rx \in Seq(S) /\ new \in Seq(S) =>
            /\ t.rx \o new \in Seq(S) /\ Len(t.rx \o new) = Len(t.rx) + Len(new)
            /\ \A k \in 1 .. Len(t.rx) + Len(new) :
                 (t.rx \o new)[k] = IF k <= Len(t.rx) THEN t.rx[k] ELSE new[k - Len(t.rx)]
      BY ConcatProperties
    <3>. QED  BY <1>1, <2>3, <3>1
  <2>5. d = [t EXCEPT !.rx = t.rx \o new, !.rcv = t.rcv + m.len]
    BY <1>3 DEF WithData, Conn, new
  <2>6. d.rx = t.rx \o new /\ d.rcv = t.rcv + m.len
    BY <2>5 DEF Conn
  <2>7. d = [t EXCEPT !.rx = d.rx, !.rcv = d.rcv] /\ d \in Conn
    <3>1. t.rcv + m.len \in Nat
      BY <1>1, <2>1
    <3>2. d \in Conn
      BY <2>4, <2>5, <3>1 DEF Conn
    <3>. QED  BY <2>5, <2>6, <3>2
  <2>8. \A k \in 1 .. Len(d.rx) : d.rx[k] = IF k <= Len(t.rx) THEN t.rx[k]
                                            ELSE <<m.port, m.seq + (k - Len(t.rx)) - 1>>
    <3>1. SUFFICES ASSUME NEW k \in 1 .. Len(d.rx), ~ (k <= Len(t.rx))
                   PROVE  d.rx[k] = <<m.port, m.seq + (k - Len(t.rx)) - 1>>
      BY <2>4, <2>6
    <3>2. k - Len(t.rx) \in 1 .. c
      BY <1>1, <2>2, <2>4, <2>6, <3>1
    <3>. QED  BY <2>3, <2>4, <2>6, <3>1, <3>2
  <2>. QED  BY <1>3, <2>2, <2>4, <2>6, <2>7, <2>8
<1>. QED  BY <1>2, <1>3

\* What a segment does to a slot in use.
LEMMA ReceivedSound ==
  ASSUME NEW t \in Conn, t.in_use, SlotSound(t), Len(t.rx) <= RxSize,
         NEW m \in Arrival, m # ArpReply, m.port = t.port
  PROVE  LET r == Received(t, m)
         IN /\ r \in Conn /\ Len(r.rx) <= RxSize /\ SlotSound(r)
            /\ r.in_use => r.port = t.port
            /\ r.state = "SYN_SENT" => r = t
            /\ t.state = "SYN_SENT" =>
                 \/ r = t \/ r = Unused
                 \/ r.in_use /\ r.state = "ESTABLISHED" /\ r.rcv = 1 /\ r.rx = <<>> /\ ~r.fin
            /\ t.fin /\ r.in_use => r.fin /\ r.rx = t.rx
<1> DEFINE d == WithData(t, m)
           r == Received(t, m)
           Goal(x) == /\ x \in Conn /\ Len(x.rx) <= RxSize /\ SlotSound(x)
                      /\ x.in_use => x.port = t.port
                      /\ x.state = "SYN_SENT" => x = t
                      /\ t.state = "SYN_SENT" =>
                           \/ x = t \/ x = Unused
                           \/ x.in_use /\ x.state = "ESTABLISHED" /\ x.rcv = 1 /\ x.rx = <<>> /\ ~x.fin
                      /\ t.fin /\ x.in_use => x.fin /\ x.rx = t.rx
<1>1. /\ m.port \in Port /\ m.seq \in Nat /\ m.len \in Nat /\ Units(m.port) \in Nat /\ t.rcv \in Nat
      /\ m.len > 0 => m.seq > 0 /\ m.seq + m.len <= Units(m.port) + 1
      /\ "FIN" \in m.flags => m.seq > 0 /\ m.seq + m.len = Units(m.port) + 1
      /\ "SYN" \in m.flags => m.seq = 0
  BY ArrivalFacts, NetFacts DEF Conn
<1>2. Goal(t)
  OBVIOUS
<1>3. Goal(Unused)
  BY UnusedFacts, NetFacts DEF SlotSound
<1>4. CASE t.state = "SYN_SENT" /\ {"SYN", "ACK"} \subseteq m.flags /\ "RST" \notin m.flags
  <2>1. r = [t EXCEPT !.rcv = m.seq + 1, !.state = "ESTABLISHED"]
    BY <1>4 DEF Received, Open
  <2>2. r = [t EXCEPT !.rcv = 1, !.state = "ESTABLISHED"]
    <3>1. m.seq + 1 = 1
      BY <1>1, <1>4
    <3>. QED  BY <2>1, <3>1
  <2>. HIDE DEF r
  <2>3. /\ r \in Conn /\ r.rx = t.rx /\ r.fin = t.fin /\ r.in_use /\ r.port = t.port /\ r.rcv = 1
        /\ r.state = "ESTABLISHED"
    BY <2>2 DEF Conn
  <2>4. t.rx = <<>> /\ ~t.fin
    BY <1>4 DEF SlotSound
  <2>5. SlotSound(r)
    BY <2>3, <2>4 DEF SlotSound
  <2>6. Goal(r)
    BY <1>4, <2>3, <2>4, <2>5
  <2>. QED  BY <2>6 DEF r
<1>5. CASE "RST" \notin m.flags /\ Open(t)
  <2>1. /\ d = [t EXCEPT !.rx = d.rx, !.rcv = d.rcv] /\ d \in Conn /\ Len(d.rx) <= RxSize
        /\ ~InOrder(t, m) => d = t
    BY DataIsCopied
  <2>2. t.fin => d = t
    BY <1>1, <2>1 DEF SlotSound, InOrder
  <2>3. /\ d.in_use /\ d.port = t.port /\ d.state = t.state /\ d.fin = t.fin
    BY <2>1 DEF Conn
  <2>4. Goal(d)
    BY <1>5, <2>1, <2>2, <2>3 DEF SlotSound, Open
  <2>5. r = WithFin(d, m)
    BY <1>5 DEF Received, Open
  <2>6. CASE "FIN" \in m.flags
    <3>1. r = [d EXCEPT !.rcv = m.seq + m.len + 1, !.fin = TRUE, !.state = "CLOSE_WAIT"]
      BY <2>5, <2>6 DEF WithFin
    <3>2. m.seq + m.len + 1 = Units(t.port) + 2 /\ Units(t.port) + 2 \in Nat
      BY <1>1, <2>6
    <3>3. r = [d EXCEPT !.rcv = Units(t.port) + 2, !.fin = TRUE, !.state = "CLOSE_WAIT"]
      BY <3>1, <3>2
    <3>. HIDE DEF d, r
    <3>4. /\ r \in Conn /\ r.rx = d.rx /\ r.fin /\ r.in_use /\ r.port = t.port
          /\ r.rcv = Units(t.port) + 2 /\ r.state = "CLOSE_WAIT"
      BY <2>1, <2>3, <3>2, <3>3 DEF Conn
    <3>5. SlotSound(r)
      BY <3>4 DEF SlotSound
    <3>6. Goal(r)
      BY <1>5, <2>1, <2>2, <3>4, <3>5 DEF Open
    <3>. QED  BY <3>6 DEF r
  <2>7. CASE "FIN" \notin m.flags
    BY <2>4, <2>5, <2>7 DEF WithFin
  <2>. QED  BY <2>6, <2>7
<1>6. CASE ~ (t.state = "SYN_SENT" /\ {"SYN", "ACK"} \subseteq m.flags /\ "RST" \notin m.flags)
            /\ ~ ("RST" \notin m.flags /\ Open(t))
  <2>1. r = Unused \/ r = t
    BY <1>6 DEF Received
  <2>. QED  BY <1>2, <1>3, <2>1
<1>. QED  BY <1>4, <1>5, <1>6

\* A segment taken in order adds the units that come next; a FIN taken with all
\* the data in front of it comes after the last one.
LEMMA ReceivedFollows ==
  ASSUME NEW t \in Conn, t.in_use, SlotSound(t), Len(t.rx) <= RxSize, t.state # "SYN_SENT",
         NEW m \in Arrival, m # ArpReply, m.port = t.port,
         NEW rd \in Seq(Port \X Nat), NEW late \in BOOLEAN, Follows(t.port, rd, t, late),
         ~ (Open(t) /\ "RST" \notin m.flags /\ InOrder(t, m) /\ Copied(t, m) < m.len),
         Received(t, m).in_use
  PROVE  Follows(t.port, rd, Received(t, m),
                 late \/ (Open(t) /\ "FIN" \in m.flags /\ m.seq + m.len > WithData(t, m).rcv))
<1> DEFINE d == WithData(t, m)
           r == Received(t, m)
           p == t.port
           late2 == late \/ (Open(t) /\ "FIN" \in m.flags /\ m.seq + m.len > d.rcv)
<1>1. /\ m.port \in Port /\ m.seq \in Nat /\ m.len \in Nat /\ Units(p) \in Nat /\ t.rcv \in Nat
      /\ m.len > 0 => m.seq > 0 /\ m.seq + m.len <= Units(p) + 1
      /\ "FIN" \in m.flags => m.seq > 0 /\ m.seq + m.len = Units(p) + 1
      /\ t.rx \in Seq(Port \X Nat) /\ Len(t.rx) \in Nat /\ Len(rd) \in Nat
  BY ArrivalFacts, NetFacts, LenProperties DEF Conn
<1>2. Follows(p, rd, t, late2)
  BY DEF Follows
<1>3. CASE "RST" \notin m.flags /\ Open(t)
  <2>1. /\ d = [t EXCEPT !.rx = d.rx, !.rcv = d.rcv] /\ d \in Conn
        /\ ~InOrder(t, m) => d = t
        /\ InOrder(t, m) =>
             /\ Copied(t, m) \in 0 .. m.len /\ d.rcv = t.rcv + m.len
             /\ Len(d.rx) = Len(t.rx) + Copied(t, m)
             /\ \A k \in 1 .. Len(d.rx) :
                  d.rx[k] = IF k <= Len(t.rx) THEN t.rx[k]
                            ELSE <<m.port, m.seq + (k - Len(t.rx)) - 1>>
    BY DataIsCopied
  <2>2. d.fin = t.fin
    BY <2>1 DEF Conn
  <2>3. Follows(p, rd, d, late)
    <3>1. CASE ~InOrder(t, m)
      BY <2>1, <3>1
    <3>2. CASE InOrder(t, m)
      <4>1. Copied(t, m) = m.len /\ m.seq = t.rcv /\ m.len > 0
        BY <1>1, <1>3, <2>1, <3>2 DEF InOrder
      <4>2. ~t.fin
        BY <1>1, <4>1 DEF SlotSound
      <4>3. t.rcv = Len(rd) + Len(t.rx) + 1
        BY <4>2 DEF Follows
      <4>. HIDE DEF d
      <4>4. d.rcv = Len(rd) + Len(d.rx) + 1 /\ Len(d.rx) = Len(t.rx) + m.len
        <5>1. d.rcv = t.rcv + m.len /\ Len(d.rx) = Len(t.rx) + m.len
          BY <2>1, <3>2, <4>1
        <5>. QED  BY <1>1, <4>3, <5>1
      <4>5. Len(rd) + Len(d.rx) <= Units(p)
        BY <1>1, <4>1, <4>3, <4>4
      <4>6. ASSUME NEW k \in 1 .. Len(d.rx) PROVE d.rx[k] = <<p, Len(rd) + k>>
        <5>1. CASE k <= Len(t.rx)
          <6>1. k \in 1 .. Len(t.rx)
            BY <1>1, <4>4, <5>1
          <6>2. d.rx[k] = t.rx[k]
            BY <2>1, <3>2, <5>1
          <6>. QED  BY <6>1, <6>2 DEF Follows
        <5>2. CASE ~ (k <= Len(t.rx))
          <6>1. d.rx[k] = <<m.port, m.seq + (k - Len(t.rx)) - 1>>
            BY <2>1, <3>2, <4>6, <5>2
          <6>2. m.seq + (k - Len(t.rx)) - 1 = Len(rd) + k
            <7>1. k \in Int /\ m.seq = Len(rd) + Len(t.rx) + 1
              BY <1>1, <4>1, <4>3, <4>4
            <7>2. \A a, b \in Nat, q \in Int : (b + a + 1) + (q - a) - 1 = b + q
              OBVIOUS
            <7>3. Len(t.rx) \in Nat /\ Len(rd) \in Nat
              BY <1>1
            <7>4. (Len(rd) + Len(t.rx) + 1) + (k - Len(t.rx)) - 1 = Len(rd) + k
              BY <7>1, <7>2, <7>3
            <7>. QED  BY <7>1, <7>4
          <6>. QED  BY <6>1, <6>2
        <5>. QED  BY <5>1, <5>2
      <4>. QED  BY <2>2, <4>2, <4>4, <4>5, <4>6 DEF Follows
    <3>. QED  BY <3>1, <3>2
  <2>4. r = WithFin(d, m)
    BY <1>3 DEF Received, Open
  <2>5. CASE "FIN" \in m.flags
    <3>1. r = [d EXCEPT !.rcv = m.seq + m.len + 1, !.fin = TRUE, !.state = "CLOSE_WAIT"]
      BY <2>4, <2>5 DEF WithFin
    <3>. HIDE DEF d
    <3>2. r.rx = d.rx /\ r.fin
      BY <2>1, <3>1 DEF Conn
    <3>3. d.rx \in Seq(Port \X Nat) /\ Len(d.rx) \in Nat
      BY <2>1, LenProperties DEF Conn
    <3>4. late2 \/ Len(rd) + Len(d.rx) = Units(p)
      <4>1. SUFFICES ASSUME ~late2 PROVE Len(rd) + Len(d.rx) = Units(p)
        OBVIOUS
      <4>2. CASE d.fin
        BY <2>3, <4>1, <4>2 DEF Follows
      <4>3. CASE ~d.fin
        <5>1. d.rcv = Len(rd) + Len(d.rx) + 1 /\ Len(rd) + Len(d.rx) <= Units(p)
          BY <2>3, <4>3 DEF Follows
        <5>2. ~ (Units(p) + 1 > d.rcv)
          BY <1>1, <1>3, <2>5, <4>1
        <5>3. d.rcv \in Nat /\ Units(p) \in Nat /\ Len(rd) \in Nat
          BY <1>1, <2>1 DEF Conn
        <5>4. \A a, b, u \in Nat : a + b <= u /\ ~ (u + 1 > a + b + 1) => a + b = u
          OBVIOUS
        <5>5. ~ (Units(p) + 1 > Len(rd) + Len(d.rx) + 1)
          BY <5>1, <5>2
        <5>. QED  BY <3>3, <5>1, <5>3, <5>4, <5>5
      <4>. QED  BY <4>2, <4>3
    <3>. HIDE DEF r, late2
    <3>5. Follows(p, rd, r, late2)
      BY <2>3, <3>2, <3>4 DEF Follows
    <3>. QED  BY <3>5 DEF r, late2, d
  <2>6. CASE "FIN" \notin m.flags
    <3>1. r = d
      BY <2>4, <2>6 DEF WithFin
    <3>. QED  BY <2>3, <3>1 DEF Follows
  <2>. QED  BY <2>5, <2>6
<1>4. CASE ~ ("RST" \notin m.flags /\ Open(t))
  <2>1. r = Unused \/ r = t
    BY <1>4 DEF Received
  <2>2. r = t
    BY <2>1, UnusedFacts
  <2>. QED  BY <1>2, <2>2
<1>. QED  BY <1>3, <1>4

-----------------------------------------------------------------------------
LEMMA OneSegment ==
  ASSUME NEW t \in Conn, t.port \in Port, NEW flags, flags \subseteq Flags, NEW len \in Nat
  PROVE  <<Segment(t, flags, len)>> \in Seq(UpSegment) /\ Len(<<Segment(t, flags, len)>>) = 1
<1>1. Segment(t, flags, len) \in UpSegment
  BY DEF Segment, UpSegment, Conn
<1>. HIDE DEF Segment
<1>. QED  BY <1>1

\* A segment is answered with at most two.
LEMMA AnswersAreSegments ==
  ASSUME NEW t \in Conn, t.in_use, SlotSound(t), Len(t.rx) <= RxSize,
         NEW m \in Arrival, m # ArpReply, m.port = t.port
  PROVE  Answers(t, m) \in Seq(UpSegment) /\ Len(Answers(t, m)) \in Nat /\ Len(Answers(t, m)) <= 2
<1> DEFINE d == WithData(t, m)
           r == Received(t, m)
<1>1. t.port \in Port
  BY ArrivalFacts
<1>2. <<>> \in Seq(UpSegment) /\ Len(<<>>) = 0
  BY EmptySeq
<1>3. ASSUME NEW x \in Conn, x.port = t.port PROVE Ack(x) \in Seq(UpSegment) /\ Len(Ack(x)) = 1
  BY <1>1, <1>3, OneSegment DEF Ack, Flags
<1>4. d \in Conn /\ d.port = t.port
  <2>1. d = [t EXCEPT !.rx = d.rx, !.rcv = d.rcv] /\ d \in Conn
    BY DataIsCopied
  <2>. HIDE DEF d
  <2>. QED  BY <2>1 DEF Conn
<1>5. r \in Conn
  BY ReceivedSound
<1>6. CASE "RST" \notin m.flags /\ t.state = "SYN_SENT" /\ {"SYN", "ACK"} \subseteq m.flags
  <2>1. r.port = t.port
    BY <1>6 DEF Received, Open, Conn
  <2>2. Answers(t, m) = Ack(r)
    BY <1>6 DEF Answers
  <2>. HIDE DEF r
  <2>3. Ack(r) \in Seq(UpSegment) /\ Len(Ack(r)) = 1
    BY <1>3, <1>5, <2>1
  <2>. QED  BY <2>2, <2>3
<1>7. CASE "RST" \notin m.flags /\ Open(t)
  <2> DEFINE a == IF m.len > 0 THEN Ack(d) ELSE <<>>
             b == IF "FIN" \in m.flags THEN Ack(r) ELSE <<>>
  <2>1. r = WithFin(d, m)
    BY <1>7 DEF Received, Open
  <2>2. r.port = t.port
    BY <1>4, <2>1 DEF WithFin, Conn
  <2>3. a \in Seq(UpSegment) /\ Len(a) \in {0, 1}
    BY <1>2, <1>3, <1>4
  <2>4. b \in Seq(UpSegment) /\ Len(b) \in {0, 1}
    BY <1>2, <1>3, <1>5, <2>2
  <2>5. Answers(t, m) = a \o b
    BY <1>7 DEF Answers, Open
  <2>. HIDE DEF a, b
  <2>6. a \o b \in Seq(UpSegment) /\ Len(a \o b) = Len(a) + Len(b)
    BY <2>3, <2>4, ConcatProperties
  <2>. QED  BY <2>3, <2>4, <2>5, <2>6
<1>8. CASE ~ ("RST" \notin m.flags /\ t.state = "SYN_SENT" /\ {"SYN", "ACK"} \subseteq m.flags)
           /\ ~ ("RST" \notin m.flags /\ Open(t))
  <2>1. Answers(t, m) = <<>>
    BY <1>8 DEF Answers
  <2>. QED  BY <1>2, <2>1
<1>. QED  BY <1>6, <1>7, <1>8

LEMMA EmitsKeeps ==
  ASSUME up \in Seq(UpSegment), NEW segments \in Seq(UpSegment), NEW rest \in Seq(Arrival),
         Emits(segments, rest)
  PROVE  /\ up' \in Seq(UpSegment) /\ down' \in Seq(Arrival)
         /\ Len(up') <= Len(up) + Len(segments) /\ Len(down') <= Len(rest) + 1
<1>1. Len(up) \in Nat /\ Len(segments) \in Nat /\ Len(rest) \in Nat
  BY LenProperties
<1>2. up \o segments \in Seq(UpSegment) /\ Len(up \o segments) = Len(up) + Len(segments)
  BY ConcatProperties
<1>3. Append(rest, ArpReply) \in Seq(Arrival) /\ Len(Append(rest, ArpReply)) = Len(rest) + 1
  BY AppendProperties, ArpIsArrival
<1>4. CASE up' = up \o segments /\ down' = rest
  BY <1>1, <1>2, <1>4
<1>5. CASE up' = up /\ down' = Append(rest, ArpReply)
  BY <1>1, <1>3, <1>5
<1>. QED  BY <1>4, <1>5 DEF Emits

-----------------------------------------------------------------------------
\* What a poll leaves of the invariant, whatever call it is made from: it looks
\* at one frame, which changes the slot of one connection.
LEMMA PollKeeps ==
  ASSUME TInv, Poll
  PROVE  /\ up' \in Seq(UpSegment) /\ down' \in Seq(Arrival) /\ resolved' \in BOOLEAN
         /\ Len(up') <= MaxQueue /\ Len(down') <= MaxQueue
         /\ socks' \in [Fd -> Conn] /\ \A fd \in Fd : Len(socks'[fd].rx) <= RxSize
         /\ taken' = taken
         /\ Slots(socks') /\ Owned(socks') /\ Streams(socks', cut', overtaken')
         /\ \A fd \in Fd : socks[fd].state = "SYN_SENT" =>
              \/ socks'[fd] = socks[fd] \/ socks'[fd] = Unused
              \/ /\ socks'[fd].in_use /\ socks'[fd].state = "ESTABLISHED" /\ socks'[fd].rcv = 1
                 /\ socks'[fd].rx = <<>> /\ ~socks'[fd].fin /\ socks'[fd].port = socks[fd].port
<1> USE DEF TInv
<1>1. /\ up \in Seq(UpSegment) /\ down \in Seq(Arrival) /\ resolved \in BOOLEAN
      /\ Len(up) \in Nat /\ Len(down) \in Nat /\ Len(up) + 2 <= MaxQueue /\ Len(down) <= MaxQueue
      /\ socks \in [Fd -> Conn] /\ \A fd \in Fd : Len(socks[fd].rx) <= RxSize
      /\ nextPort \in Nat /\ nextPort > 0 /\ MaxQueue \in Nat
  BY LenProperties, NetFacts DEF TypeOK, Net, Poll, Room
<1>2. CASE ~ (down # <<>> /\ Head(down) # ArpReply /\ Matching(Head(down)) # {})
  <2>1. down # <<>> => Tail(down) \in Seq(Arrival) /\ Len(Tail(down)) = Len(down) - 1
    BY <1>1, HeadTailProperties
  <2>2. down' \in Seq(Arrival) /\ Len(down') <= MaxQueue /\ resolved' \in BOOLEAN
    <3>1. (down' = down \/ (down # <<>> /\ down' = Tail(down))) /\ (resolved' = resolved \/ resolved' = TRUE)
      BY <1>2 DEF Poll
    <3>2. down' \in Seq(Arrival) /\ Len(down') <= MaxQueue
      <4>1. CASE down' = down
        BY <1>1, <4>1
      <4>2. CASE down # <<>> /\ down' = Tail(down)
        BY <1>1, <2>1, <4>2
      <4>. QED  BY <3>1, <4>1, <4>2
    <3>3. resolved' \in BOOLEAN
      BY <1>1, <3>1, Zenon
    <3>. QED  BY <3>2, <3>3
  <2>3. socks' = socks /\ up' = up /\ cut' = cut /\ overtaken' = overtaken /\ taken' = taken
    BY <1>2 DEF Poll, mishaps
  <2>. QED  BY <1>1, <2>2, <2>3
<1>3. ASSUME NEW m, m = Head(down), down # <<>>, m # ArpReply, NEW fd \in Matching(m),
             socks' = [socks EXCEPT ![fd] = Received(@, m)],
             Emits(Answers(socks[fd], m), Tail(down)), Notes(socks[fd], m), resolved' = resolved
      PROVE  /\ up' \in Seq(UpSegment) /\ down' \in Seq(Arrival) /\ resolved' \in BOOLEAN
             /\ Len(up') <= MaxQueue /\ Len(down') <= MaxQueue
             /\ socks' \in [Fd -> Conn] /\ \A x \in Fd : Len(socks'[x].rx) <= RxSize
             /\ taken' = taken
             /\ Slots(socks') /\ Owned(socks') /\ Streams(socks', cut', overtaken')
             /\ \A x \in Fd : socks[x].state = "SYN_SENT" =>
                  \/ socks'[x] = socks[x] \/ socks'[x] = Unused
                  \/ /\ socks'[x].in_use /\ socks'[x].state = "ESTABLISHED" /\ socks'[x].rcv = 1
                     /\ socks'[x].rx = <<>> /\ ~socks'[x].fin /\ socks'[x].port = socks[x].port
  <2> DEFINE t == socks[fd]
             r == Received(t, m)
  <2>1. /\ fd \in Fd /\ t \in Conn /\ t.in_use /\ SlotSound(t) /\ Len(t.rx) <= RxSize
        /\ m \in Arrival /\ m.port = t.port
        /\ Tail(down) \in Seq(Arrival) /\ Len(Tail(down)) = Len(down) - 1
    BY <1>1, <1>3, HeadTailProperties DEF Matching, Slots
  <2>2. m.port \in Port
    BY <1>3, <2>1, ArrivalFacts
  <2>3. /\ r \in Conn /\ Len(r.rx) <= RxSize /\ SlotSound(r)
        /\ r.in_use => r.port = t.port
        /\ r.state = "SYN_SENT" => r = t
        /\ t.state = "SYN_SENT" =>
             \/ r = t \/ r = Unused
             \/ r.in_use /\ r.state = "ESTABLISHED" /\ r.rcv = 1 /\ r.rx = <<>> /\ ~r.fin
        /\ t.fin /\ r.in_use => r.fin /\ r.rx = t.rx
    BY <1>3, <2>1, ReceivedSound
  <2>4. socks' = [socks EXCEPT ![fd] = r]
    BY <1>3
  <2>. HIDE DEF r
  <2>5. socks' \in [Fd -> Conn] /\ socks'[fd] = r /\ \A x \in Fd : x # fd => socks'[x] = socks[x]
    BY <1>1, <2>1, <2>3, <2>4
  <2>6. up' \in Seq(UpSegment) /\ down' \in Seq(Arrival) /\ Len(up') <= MaxQueue /\ Len(down') <= MaxQueue
    <3> DEFINE a == Answers(t, m)
    <3>1. a \in Seq(UpSegment) /\ Len(a) \in Nat /\ Len(a) <= 2
      BY <1>3, <2>1, AnswersAreSegments
    <3>2. Emits(a, Tail(down))
      BY <1>3
    <3>. HIDE DEF a
    <3>3. /\ up' \in Seq(UpSegment) /\ down' \in Seq(Arrival)
          /\ Len(up') <= Len(up) + Len(a) /\ Len(down') <= Len(Tail(down)) + 1
      BY <1>1, <2>1, <3>1, <3>2, EmitsKeeps
    <3>4. Len(up') \in Nat /\ Len(down') \in Nat
      BY <3>3, LenProperties
    <3>. QED  BY <1>1, <2>1, <3>1, <3>3, <3>4
  <2>7. ~r.in_use => r = Unused /\ r.port = NoPort
    BY <2>3, UnusedFacts DEF SlotSound
  <2>8. r.port = t.port \/ r.port = NoPort
    BY <2>3, <2>7
  <2>9. Slots(socks')
    <3>1. \A x \in Fd : SlotSound(socks'[x]) /\ socks'[x].port < nextPort
      <4>1. r.port < nextPort
        BY <1>1, <2>1, <2>8 DEF Slots, NoPort
      <4>. QED  BY <2>3, <2>5, <4>1 DEF Slots
    <3>2. \A x, g \in Fd : socks'[x].port = socks'[g].port /\ socks'[x].port # NoPort => x = g
      BY <2>1, <2>5, <2>8 DEF Slots
    <3>. QED  BY <3>1, <3>2 DEF Slots
  <2>10. Owned(socks')
    <3>1. ASSUME NEW x \in Fd, socks'[x].in_use PROVE socks[x].in_use /\ socks'[x].port = socks[x].port
      BY <2>1, <2>3, <2>5, <3>1
    <3>2. ASSUME NEW x \in Fd, socks'[x].state = "SYN_SENT" PROVE socks[x].state = "SYN_SENT"
      BY <2>3, <2>5, <3>2
    <3>. QED  BY <3>1, <3>2, Zenon DEF Owned
  <2>11. Streams(socks', cut', overtaken')
    <3>. SUFFICES ASSUME NEW s \in Socket, Connected(s), socks'[sockets[s].fd].port = link[s]
                  PROVE  /\ link[s] \notin cut' \cup taken =>
                              Follows(link[s], read[s], socks'[sockets[s].fd], link[s] \in overtaken')
                         /\ ended[s] => socks'[sockets[s].fd].fin /\ socks'[sockets[s].fd].rx = <<>>
      BY DEF Streams
    <3> DEFINE g == sockets[s].fd
    <3>1. g \in Fd /\ link[s] # NoPort /\ link[s] < nextPort
      BY DEF Links
    <3>2. cut \subseteq cut' /\ overtaken \subseteq overtaken' /\ overtaken' \subseteq overtaken \cup {m.port}
      BY <1>3 DEF Notes
    <3>3. CASE g # fd
      <4>1. socks'[g] = socks[g] /\ socks[g].port = link[s]
        BY <2>5, <3>1, <3>3
      <4>2. link[s] # m.port
        BY <2>1, <3>1, <3>3, <4>1 DEF Slots
      <4>3. link[s] \in overtaken' <=> link[s] \in overtaken
        BY <3>2, <4>2
      <4>4. /\ link[s] \notin cut \cup taken => Follows(link[s], read[s], socks[g], link[s] \in overtaken)
            /\ ended[s] => socks[g].fin /\ socks[g].rx = <<>>
        BY <4>1 DEF Streams
      <4>5. link[s] \notin cut' \cup taken => link[s] \notin cut \cup taken
        BY <3>2
      <4>6. (link[s] \in overtaken') = (link[s] \in overtaken)
        BY <4>3
      <4>. QED  BY <4>1, <4>4, <4>5, <4>6
    <3>4. CASE g = fd
      <4>1. socks'[g] = r /\ r.port = link[s]
        BY <2>5, <3>4
      <4>2. r.in_use /\ t.port = link[s] /\ m.port = link[s]
        BY <2>1, <2>3, <2>7, <3>1, <4>1
      <4>3. /\ link[s] \notin cut \cup taken => Follows(link[s], read[s], t, link[s] \in overtaken)
            /\ ended[s] => t.fin /\ t.rx = <<>>
        BY <3>4, <4>2 DEF Streams
      <4>4. ASSUME link[s] \notin cut' \cup taken
            PROVE  Follows(link[s], read[s], r, link[s] \in overtaken')
        <5> DEFINE over == Open(t) /\ "FIN" \in m.flags /\ m.seq + m.len > WithData(t, m).rcv
        <5>1. Follows(t.port, read[s], t, link[s] \in overtaken)
          BY <3>2, <4>2, <4>3, <4>4
        <5>2. t.state # "SYN_SENT"
          <6>1. SUFFICES ASSUME t.state = "SYN_SENT" PROVE FALSE
            OBVIOUS
          <6>2. In("connect") /\ call.fd = fd
            BY <2>1, <6>1 DEF Owned
          <6>3. t.port = nextPort - 1 /\ link[s] < nextPort - 1
            BY <6>2 DEF Caller
          <6>4. nextPort - 1 \in Int
            BY <1>1
          <6>. QED  BY <4>2, <6>3, <6>4
        <5>3. ~ (Open(t) /\ "RST" \notin m.flags /\ InOrder(t, m) /\ Copied(t, m) < m.len)
          BY <1>3, <4>2, <4>4 DEF Notes
        <5>4. read[s] \in Seq(Port \X Nat)
          BY DEF TypeOK
        <5>5. Follows(t.port, read[s], Received(t, m), (link[s] \in overtaken) \/ over)
          <6>1. PICK late \in BOOLEAN : late = (link[s] \in overtaken)
            <7>1. (link[s] \in overtaken) \in BOOLEAN
              OBVIOUS
            <7>. QED  BY <7>1, Zenon
          <6>2. Follows(t.port, read[s], t, late) /\ Received(t, m).in_use
            BY <4>2, <5>1, <6>1 DEF r
          <6>. HIDE DEF t
          <6>3. Follows(t.port, read[s], Received(t, m), late \/ over)
            BY <1>3, <2>1, <5>2, <5>3, <5>4, <6>2, ReceivedFollows
          <6>. QED  BY <6>1, <6>3
        <5>6. (link[s] \in overtaken') = ((link[s] \in overtaken) \/ over)
          BY <1>3, <4>2 DEF Notes
        <5>. HIDE DEF over
        <5>. QED  BY <4>2, <5>5, <5>6 DEF r
      <4>5. ended[s] => r.fin /\ r.rx = <<>>
        BY <2>3, <4>2, <4>3
      <4>. QED  BY <4>1, <4>4, <4>5
    <3>. QED  BY <3>3, <3>4
  <2>12. \A x \in Fd : socks[x].state = "SYN_SENT" =>
            \/ socks'[x] = socks[x] \/ socks'[x] = Unused
            \/ /\ socks'[x].in_use /\ socks'[x].state = "ESTABLISHED" /\ socks'[x].rcv = 1
               /\ socks'[x].rx = <<>> /\ ~socks'[x].fin /\ socks'[x].port = socks[x].port
    BY <2>3, <2>5
  <2>13. taken' = taken /\ resolved' \in BOOLEAN /\ \A x \in Fd : Len(socks'[x].rx) <= RxSize
    BY <1>1, <1>3, <2>3, <2>5 DEF Notes
  <2>. QED  BY <2>5, <2>6, <2>9, <2>10, <2>11, <2>12, <2>13
<1>4. CASE down # <<>> /\ Head(down) # ArpReply /\ Matching(Head(down)) # {}
  <2> DEFINE m == Head(down)
             fd == CHOOSE x \in Matching(m) : TRUE
  <2>1. /\ down # <<>> /\ m # ArpReply /\ Matching(m) # {} /\ resolved' = resolved
        /\ socks' = [socks EXCEPT ![fd] = Received(@, m)]
        /\ Emits(Answers(socks[fd], m), Tail(down)) /\ Notes(socks[fd], m)
    BY <1>4, Zenon DEF Poll
  <2>2. fd \in Matching(m)
    BY <2>1
  <2>. HIDE DEF m, fd
  <2>3. m = Head(down)
    BY DEF m
  <2>. QED  BY <1>3, <2>1, <2>2, <2>3
<1>. QED  BY <1>2, <1>4

-----------------------------------------------------------------------------
\* The remote host and the network touch only what is under way.
LEMMA OutsideKeeps ==
  ASSUME TInv, UNCHANGED <<tables, call, resolved, reading, mishaps>>,
         up' \in Seq(UpSegment), down' \in Seq(Arrival), server' \in [Port -> Host],
         Len(up') <= MaxQueue, Len(down') <= MaxQueue, faults' \in 0 .. MaxFaults
  PROVE  TInv'
<1>1. /\ sockets' = sockets /\ socks' = socks /\ nextPort' = nextPort /\ call' = call
      /\ resolved' = resolved /\ link' = link /\ read' = read /\ ended' = ended
      /\ cut' = cut /\ overtaken' = overtaken /\ taken' = taken
  BY DEF tables, reading, mishaps
<1>2. TypeOK' /\ Net'
  BY <1>1 DEF TInv, TypeOK, Net
<1>3. Links' /\ Caller'
  BY <1>1 DEF TInv, Links, Caller, Connected, In
<1>4. Slots(socks)' /\ Owned(socks)'
  BY <1>1 DEF TInv, Slots, Owned, Holds, Connected, In
<1>5. Streams(socks, cut, overtaken)'
  BY <1>1 DEF TInv, Streams, Connected
<1>. QED  BY <1>2, <1>3, <1>4, <1>5 DEF TInv

LEMMA QueueFacts ==
  ASSUME TInv
  PROVE  /\ up \in Seq(UpSegment) /\ down \in Seq(Arrival) /\ server \in [Port -> Host]
         /\ Len(up) \in Nat /\ Len(down) \in Nat /\ Len(up) <= MaxQueue /\ Len(down) <= MaxQueue
         /\ faults \in 0 .. MaxFaults
  BY LenProperties DEF TInv, TypeOK, Net

LEMMA HeardIsHost ==
  ASSUME NEW v \in Host, NEW m \in UpSegment
  PROVE  Heard(v, m) \in Host
<1>1. m.seq \in Nat /\ m.len \in Nat /\ m.ack \in Nat /\ v.expects \in Nat /\ v.una \in Nat /\ v.nxt \in Nat
  BY DEF Host, UpSegment
<1>2. CASE "SYN" \in m.flags
  BY <1>2 DEF Heard, Host
<1>3. CASE "SYN" \notin m.flags /\ v.state \in {"syn", "open"}
  <2> DEFINE a == IF m.ack > v.una THEN m.ack ELSE v.una
             e == IF m.seq = v.expects THEN v.expects + m.len + (IF "FIN" \in m.flags THEN 1 ELSE 0)
                  ELSE v.expects
  <2>1. a \in Nat /\ e \in Nat
    BY <1>1
  <2>2. Heard(v, m) = [v EXCEPT !.state = "open", !.una = a, !.expects = e]
    BY <1>3 DEF Heard, Host
  <2>. HIDE DEF a, e
  <2>. QED  BY <2>1, <2>2 DEF Host
<1>4. CASE "SYN" \notin m.flags /\ v.state \notin {"syn", "open"}
  BY <1>4 DEF Heard
<1>. QED  BY <1>2, <1>3, <1>4

LEMMA AppendArrival ==
  ASSUME TInv, NEW m \in Arrival, Len(down) < MaxQueue
  PROVE  Append(down, m) \in Seq(Arrival) /\ Len(Append(down, m)) <= MaxQueue
  BY QueueFacts, AppendProperties, NetFacts

\* What the remote host sends stands where it stands in the answer.
LEMMA SendableArrives ==
  ASSUME NEW p \in Port, NEW n \in Nat, NEW m \in Sendable(p, n), Fitting(p, m),
         server \in [Port -> Host]
  PROVE  m \in Arrival /\ Behind(m) \in Nat
<1>1. Units(p) \in Nat /\ server[p].una \in Nat /\ p # NoPort /\ Window \in Nat /\ MaxSegment \in Nat
  BY NetFacts, NetAssumption DEF Host, NetAssumption
<1>2. CASE n = 0
  <2>1. m = FromServer(p, {"SYN", "ACK"}, 0, 0)
    BY <1>2 DEF Sendable
  <2>. QED  BY <1>1, <2>1 DEF FromServer, Arrival, Frame, Genuine, Flags, Behind
<1>3. CASE n \in 1 .. Units(p)
  <2>1. PICK f \in {{"ACK"}, {"ACK", "FIN"}}, len \in 1 .. MaxSegment : m = FromServer(p, f, n, len)
    BY <1>1, <1>3 DEF Sendable
  <2>2. m.port = p /\ m.flags = f /\ m.seq = n /\ m.len = len /\ len \in Nat /\ len > 0
    BY <2>1, <1>1 DEF FromServer
  <2>3. n + len - 1 <= Units(p) /\ ("FIN" \in f => n + len - 1 = Units(p))
    BY <1>1, <2>2 DEF Fitting, LeastOf
  <2>4. m \in Frame
    BY <2>1, <2>2 DEF FromServer, Frame, Flags
  <2>5. "SYN" \notin f
    BY <2>1
  <2>6. Genuine(m)
    BY <1>1, <1>3, <2>2, <2>3, <2>5 DEF Genuine
  <2>. QED  BY <2>2, <2>4, <2>6 DEF Arrival, Behind
<1>4. CASE n # 0 /\ n \notin 1 .. Units(p)
  <2>1. m = FromServer(p, {"ACK", "FIN"}, Units(p) + 1, 0)
    BY <1>4 DEF Sendable
  <2>. QED  BY <1>1, <2>1 DEF FromServer, Arrival, Frame, Genuine, Flags, Behind
<1>. QED  BY <1>2, <1>3, <1>4

LEMMA ServerHearsKeeps == TInv /\ ServerHears => TInv'
<1>. SUFFICES ASSUME TInv, ServerHears PROVE TInv'
  OBVIOUS
<1> DEFINE m == Head(up)
           v == server[m.port]
<1>1. m \in UpSegment /\ Tail(up) \in Seq(UpSegment) /\ Len(Tail(up)) = Len(up) - 1
  BY QueueFacts, HeadTailProperties DEF ServerHears
<1>2. m.port \in Port /\ v \in Host
  BY <1>1, QueueFacts DEF UpSegment
<1>3. Heard(v, m) \in Host
  BY <1>1, <1>2, HeardIsHost
<1>4. FromServer(m.port, {"ACK"}, v.nxt, 0) \in Arrival
  <2>1. v.nxt \in Nat
    BY <1>2 DEF Host
  <2>. QED  BY <1>2, <2>1 DEF FromServer, Arrival, Frame, Genuine, Flags
<1>5. server' = [server EXCEPT ![m.port] = Heard(v, m)]
  BY DEF ServerHears
<1>6. server' \in [Port -> Host]
  BY <1>2, <1>3, <1>5, QueueFacts
<1>7. down' \in Seq(Arrival) /\ Len(down') <= MaxQueue
  <2>1. down' = down \/ (Len(down) < MaxQueue /\ down' = Append(down, FromServer(m.port, {"ACK"}, v.nxt, 0)))
    BY DEF ServerHears
  <2>. HIDE DEF m, v
  <2>. QED  BY <1>4, <2>1, QueueFacts, AppendArrival
<1>8. up' \in Seq(UpSegment) /\ Len(up') <= MaxQueue
  BY <1>1, QueueFacts, NetFacts DEF ServerHears
<1>. QED  BY <1>6, <1>7, <1>8, QueueFacts, OutsideKeeps DEF ServerHears

LEMMA ServerKeeps ==
  ASSUME TInv, NEW p \in Port, ServerSends(p) \/ ServerResends(p) \/ ServerResets(p)
  PROVE  TInv'
<1>1. server[p] \in Host /\ server[p].nxt \in Nat /\ server[p].una \in Nat
  BY QueueFacts DEF Host
<1>2. CASE ServerSends(p)
  <2>1. PICK m \in Sendable(p, server[p].nxt) :
          /\ Fitting(p, m) /\ down' = Append(down, m) /\ server' = [server EXCEPT ![p].nxt = Behind(m)]
    BY <1>2 DEF ServerSends
  <2>2. m \in Arrival /\ Behind(m) \in Nat
    BY <1>1, <2>1, QueueFacts, SendableArrives
  <2>3. server' \in [Port -> Host]
    BY <1>1, <2>1, <2>2, QueueFacts DEF Host
  <2>4. down' \in Seq(Arrival) /\ Len(down') <= MaxQueue
    BY <1>2, <2>1, <2>2, AppendArrival DEF ServerSends
  <2>5. up' = up /\ faults' = faults /\ UNCHANGED <<tables, call, resolved, reading, mishaps>>
    BY <1>2 DEF ServerSends
  <2>. QED  BY <2>3, <2>4, <2>5, QueueFacts, OutsideKeeps
<1>3. CASE ServerResends(p)
  <2>1. PICK m \in Sendable(p, server[p].una) : Fitting(p, m) /\ down' = <<m>>
    BY <1>3 DEF ServerResends
  <2>2. m \in Arrival
    BY <1>1, <2>1, QueueFacts, SendableArrives
  <2>3. down' \in Seq(Arrival) /\ Len(down') <= MaxQueue
    BY <2>1, <2>2, NetFacts
  <2>4. up' = up /\ server' = server /\ faults' = faults /\ UNCHANGED <<tables, call, resolved, reading, mishaps>>
    BY <1>3 DEF ServerResends
  <2>. QED  BY <2>3, <2>4, QueueFacts, OutsideKeeps
<1>4. CASE ServerResets(p)
  <2> DEFINE m == FromServer(p, {"RST"}, server[p].nxt, 0)
  <2>1. m \in Arrival
    BY <1>1, NetFacts DEF FromServer, Arrival, Frame, Genuine, Flags
  <2>2. Len(down) < MaxQueue /\ down' = Append(down, m)
    BY <1>4 DEF ServerResets
  <2>. HIDE DEF m
  <2>3. down' \in Seq(Arrival) /\ Len(down') <= MaxQueue
    BY <2>1, <2>2, AppendArrival
  <2>4. server' \in [Port -> Host]
    BY <1>1, <1>4, QueueFacts DEF ServerResets, Host
  <2>5. up' = up /\ faults' \in 0 .. MaxFaults /\ UNCHANGED <<tables, call, resolved, reading, mishaps>>
    BY <1>4, QueueFacts, NetFacts DEF ServerResets
  <2>. QED  BY <2>3, <2>4, <2>5, QueueFacts, OutsideKeeps
<1>. QED  BY <1>2, <1>3, <1>4

\* A queue that lost, repeated or moved a segment holds no others.
LEMMA DamagedQueue ==
  ASSUME NEW S, NEW q \in Seq(S), Len(q) <= MaxQueue, NEW r \in Damaged(q)
  PROVE  r \in Seq(S) /\ Len(r) <= MaxQueue
<1>1. Len(q) \in Nat /\ \A k \in 1 .. Len(q) : q[k] \in S
  BY LenProperties, ElementOfSeq
<1>2. ASSUME NEW k \in 1 .. Len(q) PROVE RemoveAt(q, k) \in Seq(S) /\ Len(RemoveAt(q, k)) = Len(q) - 1
  <2> DEFINE a == SubSeq(q, 1, k - 1)
             b == SubSeq(q, k + 1, Len(q))
  <2>1. a \in Seq(S) /\ Len(a) = k - 1
    BY <1>1, SubSeqProperties
  <2>2. b \in Seq(S) /\ Len(b) = Len(q) - k
    BY <1>1, SubSeqProperties
  <2>3. RemoveAt(q, k) = a \o b
    BY DEF RemoveAt
  <2>. HIDE DEF a, b
  <2>. QED  BY <1>1, <2>1, <2>2, <2>3, ConcatProperties
<1>3. CASE \E k \in 1 .. Len(q) : r = RemoveAt(q, k)
  BY <1>1, <1>2, <1>3, NetFacts
<1>4. CASE \E k \in 1 .. Len(q) : Len(q) < MaxQueue /\ r = Append(q, q[k])
  <2>1. PICK k \in 1 .. Len(q) : Len(q) < MaxQueue /\ r = Append(q, q[k])
    BY <1>4
  <2>2. Append(q, q[k]) \in Seq(S) /\ Len(Append(q, q[k])) = Len(q) + 1
    BY <1>1, AppendProperties
  <2>. QED  BY <1>1, <2>1, <2>2, NetFacts
<1>5. CASE \E k \in 2 .. Len(q) : r = InsertAt(RemoveAt(q, 1), k, q[1])
  <2>1. PICK k \in 2 .. Len(q) : r = InsertAt(RemoveAt(q, 1), k, q[1])
    BY <1>5
  <2> DEFINE s == RemoveAt(q, 1)
             a == SubSeq(s, 1, k - 1)
             b == SubSeq(s, k, Len(s))
  <2>2. 1 \in 1 .. Len(q) /\ k - 1 <= Len(q) - 1
    BY <1>1, <2>1
  <2>3. s \in Seq(S) /\ Len(s) = Len(q) - 1 /\ Len(s) \in Nat
    BY <1>1, <1>2, <2>2
  <2>. HIDE DEF s
  <2>4. \A j \in 1 .. Len(s) : s[j] \in S
    BY <2>3, ElementOfSeq
  <2>5. a \in Seq(S) /\ Len(a) = k - 1
    BY <1>1, <2>2, <2>3, <2>4, SubSeqProperties
  <2>6. b \in Seq(S) /\ Len(b) = Len(q) - k
    BY <1>1, <2>2, <2>3, <2>4, SubSeqProperties
  <2>7. r = a \o <<q[1]>> \o b
    BY <2>1 DEF InsertAt, s
  <2>. HIDE DEF a, b
  <2>8. <<q[1]>> \in Seq(S) /\ Len(<<q[1]>>) = 1
    BY <1>1, <2>2
  <2>9. a \o <<q[1]>> \in Seq(S) /\ Len(a \o <<q[1]>>) = k
    BY <1>1, <2>5, <2>8, ConcatProperties
  <2>10. r \in Seq(S) /\ Len(r) = Len(q)
    <3> DEFINE c == a \o <<q[1]>>
    <3>1. r = c \o b /\ c \in Seq(S) /\ Len(c) = k
      BY <2>7, <2>9
    <3>. HIDE DEF c
    <3>2. c \o b \in Seq(S) /\ Len(c \o b) = Len(c) + Len(b)
      BY <2>6, <3>1, ConcatProperties
    <3>3. \A i, j \in Int : i + (j - i) = j
      OBVIOUS
    <3>4. k + (Len(q) - k) = Len(q)
      BY <1>1, <2>1, <3>3
    <3>5. Len(c \o b) = Len(q)
      BY <2>6, <3>1, <3>2, <3>4
    <3>. QED  BY <3>1, <3>2, <3>5, Zenon
  <2>. QED  BY <2>10
<1>6. r \in {RemoveAt(q, k) : k \in 1 .. Len(q)} \/ r \in {InsertAt(RemoveAt(q, 1), k, q[1]) : k \in 2 .. Len(q)}
      \/ r \in {Append(q, q[k]) : k \in 1 .. IF Len(q) < MaxQueue THEN Len(q) ELSE 0}
  BY DEF Damaged
<1>7. ASSUME NEW k \in 1 .. IF Len(q) < MaxQueue THEN Len(q) ELSE 0
      PROVE  k \in 1 .. Len(q) /\ Len(q) < MaxQueue
  BY <1>1
<1>. QED  BY <1>3, <1>4, <1>5, <1>6, <1>7

LEMMA FaultKeeps == TInv /\ Fault => TInv'
<1>. SUFFICES ASSUME TInv, Fault PROVE TInv'
  OBVIOUS
<1>1. up' \in Seq(UpSegment) /\ Len(up') <= MaxQueue
  BY QueueFacts, DamagedQueue DEF Fault
<1>2. down' \in Seq(Arrival) /\ Len(down') <= MaxQueue
  BY QueueFacts, DamagedQueue DEF Fault
<1>3. faults' \in 0 .. MaxFaults
  BY QueueFacts, NetFacts DEF Fault
<1>. QED  BY <1>1, <1>2, <1>3, QueueFacts, OutsideKeeps DEF Fault

-----------------------------------------------------------------------------
LEMMA StateFacts ==
  ASSUME TInv
  PROVE  /\ sockets \in [Socket -> [state : {"FREE", "CREATED", "CONNECTED"}, fd : Fd \cup {NoFd}]]
         /\ socks \in [Fd -> Conn] /\ \A fd \in Fd : Len(socks[fd].rx) <= RxSize
         /\ nextPort \in 1 .. MaxPort + 1
         /\ call \in [op : {"none", "connect", "send", "recv", "close"}, sock : Socket,
                      fd : Fd \cup {NoFd}, polls : Nat]
         /\ resolved \in BOOLEAN
         /\ link \in [Socket -> Port \cup {NoPort}] /\ read \in [Socket -> Seq(Port \X Nat)]
         /\ ended \in [Socket -> BOOLEAN]
         /\ Links /\ Caller /\ Slots(socks) /\ Owned(socks) /\ Streams(socks, cut, overtaken)
  BY DEF TInv, TypeOK

\* A slot given back.
LEMMA DropKeeps ==
  ASSUME TInv, NEW fd \in Fd, NEW ss, ss = [socks EXCEPT ![fd] = Unused]
  PROVE  /\ ss \in [Fd -> Conn] /\ \A x \in Fd : Len(ss[x].rx) <= RxSize
         /\ Slots(ss) /\ Owned(ss) /\ Streams(ss, cut, overtaken)
<1>1. ss \in [Fd -> Conn] /\ ss[fd] = Unused /\ \A x \in Fd : x # fd => ss[x] = socks[x]
  BY StateFacts, UnusedFacts
<1>2. nextPort \in Nat /\ NoPort < nextPort /\ 0 <= RxSize
  BY StateFacts, NetFacts DEF NoPort
<1>3. \A x \in Fd : Len(ss[x].rx) <= RxSize
  BY <1>1, <1>2, StateFacts, UnusedFacts
<1>4. Slots(ss)
  <2>1. SlotSound(Unused)
    BY UnusedFacts DEF SlotSound
  <2>. QED  BY <1>1, <1>2, <2>1, StateFacts, UnusedFacts DEF Slots
<1>5. Owned(ss)
  <2>1. ASSUME NEW x \in Fd, ss[x].in_use \/ ss[x].state = "SYN_SENT" PROVE ss[x] = socks[x]
    BY <1>1, <2>1, UnusedFacts
  <2>. QED  BY <2>1, StateFacts, Zenon DEF Owned
<1>6. Streams(ss, cut, overtaken)
  <2>1. ASSUME NEW s \in Socket, Connected(s), ss[sockets[s].fd].port = link[s]
        PROVE  ss[sockets[s].fd] = socks[sockets[s].fd]
    BY <1>1, <2>1, StateFacts, UnusedFacts DEF Links
  <2>. QED  BY <2>1, StateFacts, Zenon DEF Streams
<1>. QED  BY <1>1, <1>3, <1>4, <1>5, <1>6

\* A slot whose numbers for sending and whose state of an open connection change.
LEMMA SendKeeps ==
  ASSUME TInv, NEW fd \in Fd, socks[fd].in_use, NEW t \in Conn, NEW ss, ss = [socks EXCEPT ![fd] = t],
         t.in_use, t.port = socks[fd].port, t.rx = socks[fd].rx, t.rcv = socks[fd].rcv,
         t.fin = socks[fd].fin, t.state \notin {"SYN_SENT", "CLOSED"}
  PROVE  /\ ss \in [Fd -> Conn] /\ \A x \in Fd : Len(ss[x].rx) <= RxSize
         /\ Slots(ss) /\ Owned(ss) /\ Streams(ss, cut, overtaken)
<1>1. ss \in [Fd -> Conn] /\ ss[fd] = t /\ \A x \in Fd : x # fd => ss[x] = socks[x]
  BY StateFacts
<1>2. \A x \in Fd : Len(ss[x].rx) <= RxSize
  BY <1>1, StateFacts
<1>3. Slots(ss)
  <2>1. SlotSound(t)
    BY StateFacts DEF Slots, SlotSound
  <2>. QED  BY <1>1, <2>1, StateFacts DEF Slots
<1>4. Owned(ss)
  <2>1. \A x \in Fd : (ss[x].in_use <=> socks[x].in_use) /\ ss[x].port = socks[x].port
    BY <1>1
  <2>2. \A x \in Fd : ss[x].state = "SYN_SENT" => socks[x].state = "SYN_SENT"
    BY <1>1
  <2>. QED  BY <2>1, <2>2, StateFacts, Zenon DEF Owned
<1>5. Streams(ss, cut, overtaken)
  <2>1. \A x \in Fd : /\ ss[x].port = socks[x].port /\ ss[x].rx = socks[x].rx
                      /\ ss[x].rcv = socks[x].rcv /\ ss[x].fin = socks[x].fin
    BY <1>1
  <2>2. \A s \in Socket : Connected(s) => sockets[s].fd \in Fd
    BY StateFacts DEF Links
  <2>3. ASSUME NEW p, NEW rd, NEW late, NEW x \in Fd, Follows(p, rd, socks[x], late)
        PROVE  Follows(p, rd, ss[x], late)
    BY <2>1, <2>3 DEF Follows
  <2>4. ASSUME NEW s \in Socket, Connected(s), ss[sockets[s].fd].port = link[s]
        PROVE  /\ link[s] \notin cut \cup taken =>
                    Follows(link[s], read[s], ss[sockets[s].fd], link[s] \in overtaken)
               /\ ended[s] => ss[sockets[s].fd].fin /\ ss[sockets[s].fd].rx = <<>>
    <3> DEFINE g == sockets[s].fd
    <3>1. g \in Fd /\ socks[g].port = link[s]
      BY <2>1, <2>2, <2>4
    <3>2. /\ link[s] \notin cut \cup taken => Follows(link[s], read[s], socks[g], link[s] \in overtaken)
          /\ ended[s] => socks[g].fin /\ socks[g].rx = <<>>
      BY <2>4, <3>1, StateFacts DEF Streams
    <3>3. link[s] \notin cut \cup taken => Follows(link[s], read[s], ss[g], link[s] \in overtaken)
      BY <2>3, <3>1, <3>2
    <3>. QED  BY <2>1, <3>1, <3>2, <3>3
  <2>. QED  BY <2>4 DEF Streams
<1>. QED  BY <1>1, <1>2, <1>3, <1>4, <1>5

\* A step of a call that leaves the sockets and what they read alone.
LEMMA SlotsKeep ==
  ASSUME TInv, UNCHANGED <<sockets, nextPort, reading, server, faults, taken>>, ~In("connect"),
         up' \in Seq(UpSegment), down' \in Seq(Arrival), resolved' \in BOOLEAN,
         Len(up') <= MaxQueue, Len(down') <= MaxQueue,
         socks' \in [Fd -> Conn], \A fd \in Fd : Len(socks'[fd].rx) <= RxSize,
         Slots(socks'), Owned(socks'), Streams(socks', cut', overtaken'),
         call' \in [op : {"none", "send", "recv", "close"}, sock : Socket,
                    fd : Fd \cup {NoFd}, polls : Nat],
         call'.op # "none" => Connected(call'.sock) /\ call'.fd = sockets[call'.sock].fd
  PROVE  TInv'
<1>1. /\ sockets' = sockets /\ nextPort' = nextPort /\ server' = server /\ faults' = faults
      /\ link' = link /\ read' = read /\ ended' = ended /\ taken' = taken
  BY DEF reading
<1>2. call'.op # "connect"
  OBVIOUS
<1>3. TypeOK' /\ Net'
  <2>1. call' \in [op : {"none", "connect", "send", "recv", "close"}, sock : Socket,
                   fd : Fd \cup {NoFd}, polls : Nat]
    OBVIOUS
  <2>. QED  BY <1>1, <2>1, StateFacts, QueueFacts DEF TypeOK, Net
<1>4. Links'
  BY <1>1, StateFacts DEF Links, Connected
<1>5. Caller'
  BY <1>1, <1>2 DEF Caller, Connected, In
<1>6. Slots(socks)'
  BY <1>1 DEF Slots
<1>7. Owned(socks)'
  BY <1>1, <1>2 DEF Owned, Holds, Connected, In
<1>8. Streams(socks, cut, overtaken)'
  BY <1>1 DEF Streams, Connected
<1>. QED  BY <1>3, <1>4, <1>5, <1>6, <1>7, <1>8 DEF TInv

-----------------------------------------------------------------------------
LEMMA RecvsKeeps ==
  ASSUME TInv, NEW s \in Socket, Recvs(s)
  PROVE  TInv'
<1>1. call' = [op |-> "recv", sock |-> s, fd |-> sockets[s].fd, polls |-> RecvPolls] /\ Connected(s)
  BY DEF Recvs, Calls
<1>2. sockets[s].fd \in Fd \cup {NoFd} /\ RecvPolls \in Nat
  BY StateFacts, NetFacts
<1>3. call' \in [op : {"none", "send", "recv", "close"}, sock : Socket, fd : Fd \cup {NoFd}, polls : Nat]
  BY <1>1, <1>2
<1>4. call'.sock = s /\ call'.fd = sockets[s].fd
  BY <1>1
<1>5. ~In("connect")
  BY DEF Recvs, Calls, Idle, NoCall, In
<1>6. /\ UNCHANGED <<sockets, nextPort, reading, server, faults, taken>>
      /\ socks' = socks /\ up' = up /\ down' = down /\ resolved' = resolved
      /\ cut' = cut /\ overtaken' = overtaken
  BY DEF Recvs, tables, network, mishaps
<1>. QED  BY <1>1, <1>3, <1>4, <1>5, <1>6, StateFacts, QueueFacts, SlotsKeep

LEMMA NoCallFacts ==
  NoCall \in [op : {"none", "send", "recv", "close"}, sock : Socket, fd : Fd \cup {NoFd}, polls : Nat]
  /\ NoCall.op = "none"
  BY NetAssumption DEF NetAssumption, NoCall, Socket

LEMMA RecvTimesOutKeeps == TInv /\ RecvTimesOut => TInv'
<1>. SUFFICES ASSUME TInv, RecvTimesOut PROVE TInv'
  OBVIOUS
<1>1. call' = NoCall /\ ~In("connect")
  BY DEF RecvTimesOut, Done, In
<1>2. /\ UNCHANGED <<sockets, nextPort, reading, server, faults, taken>>
      /\ socks' = socks /\ up' = up /\ down' = down /\ resolved' = resolved
      /\ cut' = cut /\ overtaken' = overtaken
  BY DEF RecvTimesOut, tables, network, mishaps
<1>. QED  BY <1>1, <1>2, NoCallFacts, StateFacts, QueueFacts, SlotsKeep

\* What a call that sends puts under way.
LEMMA CallEmits ==
  ASSUME TInv, RoomForCall, NEW m \in UpSegment, Emits(<<m>>, down)
  PROVE  /\ up' \in Seq(UpSegment) /\ down' \in Seq(Arrival)
         /\ Len(up') <= MaxQueue /\ Len(down') <= MaxQueue
<1>1. <<m>> \in Seq(UpSegment) /\ Len(<<m>>) = 1
  OBVIOUS
<1>2. /\ up' \in Seq(UpSegment) /\ down' \in Seq(Arrival)
      /\ Len(up') <= Len(up) + 1 /\ Len(down') <= Len(down) + 1
  BY <1>1, QueueFacts, EmitsKeeps
<1>3. Len(up') \in Nat /\ Len(down') \in Nat
  BY <1>2, LenProperties
<1>. QED  BY <1>2, <1>3, QueueFacts, NetFacts DEF RoomForCall

LEMMA SendsKeeps ==
  ASSUME TInv, NEW s \in Socket, Sends(s) \/ ClosesOpen(s)
  PROVE  TInv'
<1> DEFINE fd == sockets[s].fd
           t == socks[fd]
<1>1. /\ Connected(s) /\ fd \in Fd /\ t.in_use /\ Open(t) /\ RoomForCall /\ ~In("connect")
      /\ UNCHANGED <<sockets, nextPort, reading, server, faults, taken>>
      /\ resolved' = resolved /\ cut' = cut /\ overtaken' = overtaken
  BY StateFacts DEF Sends, ClosesOpen, Calls, Idle, NoCall, In, Open, mishaps, Links
<1>2. t \in Conn /\ t.snd \in Nat /\ t.port \in Port
  <2>1. t \in Conn /\ SlotSound(t)
    BY <1>1, StateFacts DEF Slots
  <2>. QED  BY <1>1, <2>1 DEF SlotSound, Conn
<1>3. PICK op \in {"send", "close"}, polls \in Nat :
        call' = [op |-> op, sock |-> s, fd |-> fd, polls |-> polls]
  BY NetFacts DEF Sends, ClosesOpen, Calls
<1>4. call' \in [op : {"none", "send", "recv", "close"}, sock : Socket, fd : Fd \cup {NoFd}, polls : Nat]
      /\ call'.sock = s /\ call'.fd = fd
  BY <1>1, <1>3
<1>5. PICK m \in UpSegment, u \in Conn :
        /\ Emits(<<m>>, down) /\ socks' = [socks EXCEPT ![fd] = u]
        /\ u.in_use /\ u.port = t.port /\ u.rx = t.rx /\ u.rcv = t.rcv /\ u.fin = t.fin
        /\ u.state \notin {"SYN_SENT", "CLOSED"}
  <2>1. CASE Sends(s)
    <3> DEFINE m == Segment(t, {"PSH", "ACK"}, 1)
               u == Sent(t, {"PSH", "ACK"}, 1)
    <3>1. m \in UpSegment
      BY <1>2 DEF Segment, UpSegment, Flags, Conn
    <3>2. u = [t EXCEPT !.snd = t.snd + 1]
      <4>1. {"PSH", "ACK"} \cap {"SYN", "FIN"} = {}
        OBVIOUS
      <4>2. u = [t EXCEPT !.snd = t.snd + 1 + 0]
        BY <1>2, <4>1 DEF Sent
      <4>3. t.snd + 1 + 0 = t.snd + 1
        BY <1>2
      <4>. QED  BY <4>2, <4>3
    <3>. HIDE DEF u, t
    <3>3. u \in Conn /\ u.in_use = t.in_use /\ u.port = t.port /\ u.rx = t.rx /\ u.rcv = t.rcv
          /\ u.fin = t.fin /\ u.state = t.state
      BY <1>2, <3>2 DEF Conn
    <3>4. Emits(<<m>>, down) /\ socks' = [socks EXCEPT ![fd] = u]
      BY <2>1 DEF Sends, u, t
    <3>. HIDE DEF m
    <3>. QED  BY <1>1, <3>1, <3>3, <3>4 DEF Open
  <2>2. CASE ClosesOpen(s)
    <3> DEFINE m == Segment(t, {"FIN", "ACK"}, 0)
               u == [Sent(t, {"FIN", "ACK"}, 0) EXCEPT !.state = "LAST_ACK"]
    <3>1. m \in UpSegment
      BY <1>2 DEF Segment, UpSegment, Flags, Conn
    <3>2. u = [t EXCEPT !.snd = t.snd + 1, !.state = "LAST_ACK"]
      <4>1. "FIN" \in {"FIN", "ACK"} \cap {"SYN", "FIN"}
        OBVIOUS
      <4>2. Sent(t, {"FIN", "ACK"}, 0) = [t EXCEPT !.snd = t.snd + 0 + 1]
        BY <1>2, <4>1 DEF Sent
      <4>3. t.snd + 0 + 1 = t.snd + 1
        BY <1>2
      <4>4. Sent(t, {"FIN", "ACK"}, 0) = [t EXCEPT !.snd = t.snd + 1]
        BY <4>2, <4>3
      <4>. HIDE DEF t
      <4>. QED  BY <1>2, <4>4 DEF Conn
    <3>. HIDE DEF u, t
    <3>3. u \in Conn /\ u.in_use = t.in_use /\ u.port = t.port /\ u.rx = t.rx /\ u.rcv = t.rcv
          /\ u.fin = t.fin /\ u.state = "LAST_ACK"
      <4>1. t.snd + 1 \in Nat
        BY <1>2
      <4>2. u \in Conn
        BY <1>2, <3>2, <4>1 DEF Conn
      <4>. QED  BY <1>2, <3>2, <4>2 DEF Conn
    <3>4. Emits(<<m>>, down) /\ socks' = [socks EXCEPT ![fd] = u]
      BY <2>2 DEF ClosesOpen, u, t
    <3>. HIDE DEF m
    <3>. QED  BY <1>1, <3>1, <3>3, <3>4
  <2>. QED  BY <2>1, <2>2
<1>6. /\ socks' \in [Fd -> Conn] /\ \A x \in Fd : Len(socks'[x].rx) <= RxSize
      /\ Slots(socks') /\ Owned(socks') /\ Streams(socks', cut, overtaken)
  BY <1>1, <1>5, SendKeeps
<1>7. /\ up' \in Seq(UpSegment) /\ down' \in Seq(Arrival)
      /\ Len(up') <= MaxQueue /\ Len(down') <= MaxQueue
  BY <1>1, <1>5, CallEmits
<1>. QED  BY <1>1, <1>4, <1>6, <1>7, StateFacts, SlotsKeep

\* The turns of send and recv, and those of close that are not the last.
LEMMA PollsKeep == TInv /\ (SendPoll \/ RecvPoll) => TInv'
<1>. SUFFICES ASSUME TInv, SendPoll \/ RecvPoll PROVE TInv'
  OBVIOUS
<1>1. /\ Poll /\ call.op \in {"send", "recv"} /\ ~In("connect") /\ call.polls \in Nat
      /\ call' = NoCall \/ (call.polls > 0 /\ call' = [call EXCEPT !.polls = @ - 1])
      /\ UNCHANGED <<sockets, nextPort, reading, server, faults>>
  BY StateFacts DEF SendPoll, RecvPoll, In, Done, Turn
<1>2. call' \in [op : {"none", "send", "recv", "close"}, sock : Socket, fd : Fd \cup {NoFd}, polls : Nat]
      /\ (call'.op # "none" => Connected(call'.sock) /\ call'.fd = sockets[call'.sock].fd)
  <2>1. CASE call' = NoCall
    BY <2>1, NoCallFacts
  <2>2. CASE call.polls > 0 /\ call' = [call EXCEPT !.polls = @ - 1]
    <3> DEFINE left == call.polls - 1
    <3>1. left \in Nat /\ call' = [call EXCEPT !.polls = left]
      BY <1>1, <2>2
    <3>. HIDE DEF left
    <3>2. call \in [op : {"none", "send", "recv", "close"}, sock : Socket, fd : Fd \cup {NoFd}, polls : Nat]
      BY <1>1, StateFacts
    <3>3. /\ call'.op = call.op /\ call'.sock = call.sock /\ call'.fd = call.fd
          /\ call' \in [op : {"none", "send", "recv", "close"}, sock : Socket, fd : Fd \cup {NoFd}, polls : Nat]
      BY <3>1, <3>2
    <3>4. Connected(call.sock) /\ call.fd = sockets[call.sock].fd
      BY <1>1, StateFacts DEF Caller
    <3>. QED  BY <3>3, <3>4
  <2>. QED  BY <1>1, <2>1, <2>2
<1>. QED  BY <1>1, <1>2, PollKeeps, SlotsKeep

-----------------------------------------------------------------------------
\* The slot and the socket of a call that reads.
LEMMA RecvFacts ==
  ASSUME TInv, In("recv")
  PROVE  /\ call.sock \in Socket /\ Connected(call.sock) /\ call.fd = sockets[call.sock].fd
         /\ call.fd \in Fd /\ Slot \in Conn /\ SlotSound(Slot) /\ ~In("connect")
         /\ Slot.rx \in Seq(Port \X Nat) /\ Len(Slot.rx) \in Nat /\ Len(Slot.rx) <= RxSize
         /\ link[call.sock] # NoPort /\ read[call.sock] \in Seq(Port \X Nat)
<1>1. call.sock \in Socket /\ Connected(call.sock) /\ call.fd = sockets[call.sock].fd
  BY StateFacts DEF Caller, In
<1>2. call.fd \in Fd /\ link[call.sock] # NoPort
  BY <1>1, StateFacts DEF Links
<1>3. Slot \in Conn /\ SlotSound(Slot) /\ Len(Slot.rx) <= RxSize
  BY <1>2, StateFacts DEF Slot, Slots
<1>4. Slot.rx \in Seq(Port \X Nat)
  BY <1>3 DEF Conn
<1>. QED  BY <1>1, <1>2, <1>3, <1>4, LenProperties, StateFacts DEF In

LEMMA RecvEndsKeeps == TInv /\ RecvEnds => TInv'
<1>. SUFFICES ASSUME TInv, RecvEnds PROVE TInv'
  OBVIOUS
<1> DEFINE c == call.sock
<1>1. /\ sockets' = sockets /\ socks' = socks /\ nextPort' = nextPort /\ server' = server
      /\ faults' = faults /\ up' = up /\ down' = down /\ resolved' = resolved /\ link' = link
      /\ read' = read /\ cut' = cut /\ overtaken' = overtaken /\ taken' = taken
      /\ call' = NoCall /\ ended' = [ended EXCEPT ![c] = TRUE] /\ In("recv")
      /\ Slot.rx = <<>> /\ Slot.fin
  BY DEF RecvEnds, tables, network, mishaps, Done
<1>2. c \in Socket /\ Connected(c) /\ call.fd = sockets[c].fd
  BY <1>1, RecvFacts
<1>3. /\ ended' \in [Socket -> BOOLEAN]
      /\ \A s \in Socket : ended'[s] => ended[s] \/ s = c
  BY <1>1, <1>2, StateFacts
<1>4. TypeOK' /\ Net'
  <2>1. call' \in [op : {"none", "connect", "send", "recv", "close"}, sock : Socket,
                   fd : Fd \cup {NoFd}, polls : Nat]
    BY <1>1, NoCallFacts
  <2>. QED  BY <1>1, <1>3, <2>1, StateFacts, QueueFacts DEF TypeOK, Net
<1>5. Links'
  BY <1>1, <1>2, <1>3, StateFacts DEF Links, Connected
<1>6. Caller'
  BY <1>1 DEF Caller, In, NoCall
<1>7. Slots(socks)'
  BY <1>1, StateFacts DEF Slots
<1>8. Owned(socks)'
  BY <1>1, StateFacts DEF Owned, Holds, Connected, In
<1>9. Streams(socks, cut, overtaken)'
  BY <1>1, <1>2, <1>3, StateFacts DEF Streams, Connected, Slot
<1>. QED  BY <1>4, <1>5, <1>6, <1>7, <1>8, <1>9 DEF TInv

\* Units that go from rx_buf to the program follow those it had.
LEMMA TakeFollows ==
  ASSUME NEW t \in Conn, NEW p, NEW rd \in Seq(Port \X Nat), NEW late, Follows(p, rd, t, late),
         NEW n \in 1 .. Len(t.rx), NEW u, u.rx = SubSeq(t.rx, n + 1, Len(t.rx)),
         u.fin = t.fin, u.rcv = t.rcv
  PROVE  Follows(p, rd \o SubSeq(t.rx, 1, n), u, late)
<1> DEFINE a == SubSeq(t.rx, 1, n)
           b == SubSeq(t.rx, n + 1, Len(t.rx))
           rd2 == rd \o a
<1>1. t.rx \in Seq(Port \X Nat) /\ Len(t.rx) \in Nat /\ Len(rd) \in Nat
  BY LenProperties DEF Conn
<1>2. \A k \in 1 .. Len(t.rx) : t.rx[k] \in Port \X Nat
  BY <1>1, ElementOfSeq
<1>3. a \in Seq(Port \X Nat) /\ Len(a) = n /\ \A k \in 1 .. n : a[k] = t.rx[k]
  <2>1. \A k \in 1 .. n : t.rx[k] \in Port \X Nat
    BY <1>1, <1>2
  <2>2. /\ a \in Seq(Port \X Nat) /\ Len(a) = IF 1 <= n THEN n - 1 + 1 ELSE 0
        /\ \A k \in 1 .. n - 1 + 1 : a[k] = t.rx[1 + k - 1]
    BY <2>1, SubSeqProperties
  <2>. QED  BY <2>2
<1>4. Len(b) = Len(t.rx) - n /\ \A k \in 1 .. Len(t.rx) - n : b[k] = t.rx[n + k]
  <2>1. \A k \in n + 1 .. Len(t.rx) : t.rx[k] \in Port \X Nat
    BY <1>1, <1>2
  <2>2. /\ Len(b) = IF n + 1 <= Len(t.rx) THEN Len(t.rx) - (n + 1) + 1 ELSE 0
        /\ \A k \in 1 .. Len(t.rx) - (n + 1) + 1 : b[k] = t.rx[(n + 1) + k - 1]
    BY <1>1, <2>1, SubSeqProperties
  <2>3. \A k \in Int : (n + 1) + k - 1 = n + k
    OBVIOUS
  <2>. QED  BY <1>1, <2>2, <2>3
<1>. HIDE DEF a, b
<1>5. /\ Len(rd2) = Len(rd) + n
      /\ \A k \in 1 .. Len(rd) + n : rd2[k] = IF k <= Len(rd) THEN rd[k] ELSE a[k - Len(rd)]
  BY <1>3, ConcatProperties
<1>. HIDE DEF rd2
<1>6. \A k \in 1 .. Len(rd2) : rd2[k] = <<p, k>>
  <2>. SUFFICES ASSUME NEW k \in 1 .. Len(rd2) PROVE rd2[k] = <<p, k>>
    OBVIOUS
  <2>1. CASE k <= Len(rd)
    <3>1. k \in 1 .. Len(rd) /\ rd2[k] = rd[k]
      BY <1>1, <1>5, <2>1
    <3>. QED  BY <3>1 DEF Follows
  <2>2. CASE ~ (k <= Len(rd))
    <3> DEFINE j == k - Len(rd)
    <3>1. j \in 1 .. n /\ j \in 1 .. Len(t.rx) /\ Len(rd) + j = k
      BY <1>1, <1>5, <2>2
    <3>2. rd2[k] = a[j]
      BY <1>5, <2>2
    <3>. HIDE DEF j
    <3>. QED  BY <1>3, <3>1, <3>2 DEF Follows
  <2>. QED  BY <2>1, <2>2
<1>7. \A k \in 1 .. Len(b) : b[k] = <<p, Len(rd2) + k>>
  <2>. SUFFICES ASSUME NEW k \in 1 .. Len(b) PROVE b[k] = <<p, Len(rd2) + k>>
    OBVIOUS
  <2>1. n + k \in 1 .. Len(t.rx) /\ b[k] = t.rx[n + k] /\ Len(rd) + (n + k) = Len(rd2) + k
    BY <1>1, <1>4, <1>5
  <2>. QED  BY <2>1 DEF Follows
<1>8. Len(rd2) + Len(b) = Len(rd) + Len(t.rx)
  <2>1. \A i, j, k \in Int : (i + k) + (j - k) = i + j
    OBVIOUS
  <2>2. Len(rd) \in Int /\ n \in Int /\ Len(t.rx) \in Int
    BY <1>1
  <2>3. (Len(rd) + n) + (Len(t.rx) - n) = Len(rd) + Len(t.rx)
    BY <2>1, <2>2, Zenon
  <2>. QED  BY <1>4, <1>5, <2>3
<1>9. u.rx = b
  BY DEF b
<1>10. Follows(p, rd2, u, late)
  BY <1>6, <1>7, <1>8, <1>9 DEF Follows
<1>. QED  BY <1>10 DEF rd2, a

LEMMA RecvTakesKeeps == TInv /\ RecvTakes => TInv'
<1>. SUFFICES ASSUME TInv, RecvTakes PROVE TInv'
  OBVIOUS
<1> DEFINE c == call.sock
           fd == call.fd
           t == socks[fd]
<1>1. PICK n \in 1 .. Len(t.rx) :
        /\ read' = [read EXCEPT ![c] = @ \o SubSeq(t.rx, 1, n)]
        /\ socks' = [socks EXCEPT ![fd].rx = SubSeq(@, n + 1, Len(@))]
  BY DEF RecvTakes, Slot
<1>2. /\ sockets' = sockets /\ nextPort' = nextPort /\ server' = server
      /\ faults' = faults /\ up' = up /\ down' = down /\ resolved' = resolved /\ link' = link
      /\ ended' = ended /\ cut' = cut /\ overtaken' = overtaken
      /\ call' = NoCall /\ In("recv") /\ t.rx # <<>>
      /\ taken' = IF t.port = link[c] THEN taken ELSE taken \cup {t.port}
  BY DEF RecvTakes, network, Done, Slot
<1>3. /\ c \in Socket /\ Connected(c) /\ fd = sockets[c].fd /\ fd \in Fd /\ t \in Conn /\ SlotSound(t)
      /\ t.rx \in Seq(Port \X Nat) /\ Len(t.rx) \in Nat /\ Len(t.rx) <= RxSize
      /\ link[c] # NoPort /\ read[c] \in Seq(Port \X Nat)
  BY <1>2, RecvFacts DEF Slot
<1>4. t.in_use
  BY <1>2, <1>3, UnusedFacts DEF SlotSound
<1> DEFINE a == SubSeq(t.rx, 1, n)
           b == SubSeq(t.rx, n + 1, Len(t.rx))
           u == [t EXCEPT !.rx = b]
<1>5. a \in Seq(Port \X Nat) /\ b \in Seq(Port \X Nat) /\ Len(b) <= RxSize /\ Len(b) \in Nat
  <2>1. \A k \in 1 .. Len(t.rx) : t.rx[k] \in Port \X Nat
    BY <1>3, ElementOfSeq
  <2>2. \A k \in 1 .. n : t.rx[k] \in Port \X Nat
    BY <1>3, <2>1
  <2>3. \A k \in n + 1 .. Len(t.rx) : t.rx[k] \in Port \X Nat
    BY <1>3, <2>1
  <2>4. a \in Seq(Port \X Nat)
    BY <2>2, SubSeqProperties
  <2>5. b \in Seq(Port \X Nat) /\ Len(b) = IF n + 1 <= Len(t.rx) THEN Len(t.rx) - (n + 1) + 1 ELSE 0
    BY <1>3, <2>3, SubSeqProperties
  <2>. QED  BY <1>3, <2>4, <2>5, NetFacts
<1>6. socks' = [socks EXCEPT ![fd] = u]
  BY <1>1, <1>3, StateFacts
<1>. HIDE DEF a, b
<1>7. /\ u \in Conn /\ u.in_use = t.in_use /\ u.port = t.port /\ u.state = t.state
      /\ u.rcv = t.rcv /\ u.fin = t.fin /\ u.rx = b
  BY <1>3, <1>5 DEF Conn
<1>. HIDE DEF u
<1>8. /\ socks' \in [Fd -> Conn] /\ socks'[fd] = u /\ \A x \in Fd : x # fd => socks'[x] = socks[x]
      /\ \A x \in Fd : Len(socks'[x].rx) <= RxSize
  BY <1>3, <1>5, <1>6, <1>7, StateFacts
<1>9. /\ read[c] \o a \in Seq(Port \X Nat)
      /\ read' = [read EXCEPT ![c] = read[c] \o a]
  BY <1>1, <1>3, <1>5, ConcatProperties DEF a
<1>10. read' \in [Socket -> Seq(Port \X Nat)] /\ \A s \in Socket : s # c => read'[s] = read[s]
  BY <1>3, <1>9, StateFacts
<1>11. TypeOK' /\ Net'
  <2>1. call' \in [op : {"none", "connect", "send", "recv", "close"}, sock : Socket,
                   fd : Fd \cup {NoFd}, polls : Nat]
    BY <1>2, NoCallFacts
  <2>. QED  BY <1>2, <1>8, <1>10, <2>1, StateFacts, QueueFacts DEF TypeOK, Net
<1>12. Links'
  BY <1>2, <1>3, <1>10, StateFacts DEF Links, Connected
<1>13. Caller'
  BY <1>2 DEF Caller, In, NoCall
<1>14. Slots(socks)'
  <2>1. SlotSound(u)
    <3>1. t.state # "SYN_SENT"
      BY <1>2, <1>3, <1>4 DEF SlotSound
    <3>. QED  BY <1>3, <1>4, <1>7, <3>1 DEF SlotSound
  <2>2. \A x \in Fd : socks'[x].port = socks[x].port
    BY <1>7, <1>8
  <2>3. \A x \in Fd : SlotSound(socks'[x]) /\ socks'[x].port < nextPort
    BY <1>8, <2>1, <2>2, StateFacts DEF Slots
  <2>4. \A x, g \in Fd : socks'[x].port = socks'[g].port /\ socks'[x].port # NoPort => x = g
    BY <2>2, StateFacts DEF Slots
  <2>. QED  BY <1>2, <2>3, <2>4 DEF Slots
<1>15. Owned(socks)'
  <2>1. \A x \in Fd : /\ socks'[x].in_use => socks[x].in_use
                      /\ socks'[x].port = socks[x].port /\ socks'[x].state = socks[x].state
    BY <1>4, <1>7, <1>8
  <2>2. ~In("connect")
    BY <1>2 DEF In
  <2>3. \A x \in Fd : /\ socks'[x].in_use => \E s \in Socket : Holds(s, x, socks'[x].port)
                      /\ socks'[x].state # "SYN_SENT"
    BY <2>1, <2>2, StateFacts, Zenon DEF Owned
  <2>4. \A s, x, p : Holds(s, x, p) => Holds(s, x, p)'
    BY <1>2 DEF Holds, Connected
  <2>. QED  BY <2>3, <2>4, Zenon DEF Owned
<1>16. Streams(socks, cut, overtaken)'
  <2>. SUFFICES ASSUME NEW s \in Socket, Connected(s), socks'[sockets[s].fd].port = link[s]
                PROVE  /\ link[s] \notin cut \cup taken' =>
                            Follows(link[s], read'[s], socks'[sockets[s].fd], link[s] \in overtaken)
                       /\ ended[s] => socks'[sockets[s].fd].fin /\ socks'[sockets[s].fd].rx = <<>>
    BY <1>2 DEF Streams, Connected
  <2> DEFINE g == sockets[s].fd
  <2>1. g \in Fd /\ link[s] # NoPort /\ taken \subseteq taken'
    BY <1>2, StateFacts DEF Links
  <2>2. socks[g].port = link[s]
    BY <1>7, <1>8, <2>1
  <2>3. /\ link[s] \notin cut \cup taken => Follows(link[s], read[s], socks[g], link[s] \in overtaken)
        /\ ended[s] => socks[g].fin /\ socks[g].rx = <<>>
    BY <2>2, StateFacts DEF Streams
  <2>4. CASE g # fd
    <3>1. s # c /\ read'[s] = read[s] /\ socks'[g] = socks[g]
      BY <1>3, <1>8, <1>10, <2>1, <2>4
    <3>. QED  BY <2>1, <2>3, <3>1
  <2>5. CASE g = fd /\ s # c
    <3>1. link[s] # link[c]
      BY <1>3, <2>1, <2>5, StateFacts DEF Links
    <3>2. link[s] \in taken'
      BY <1>2, <2>2, <2>5, <3>1
    <3>. QED  BY <1>2, <2>3, <2>5, <3>2
  <2>6. CASE s = c
    <3>1. g = fd /\ read'[s] = read[s] \o a /\ socks'[g] = u
      BY <1>3, <1>8, <1>9, <2>6, StateFacts
    <3>2. ASSUME link[s] \notin cut \cup taken'
          PROVE  Follows(link[s], read[s] \o a, u, link[s] \in overtaken)
      <4>1. Follows(link[s], read[s], t, link[s] \in overtaken)
        BY <2>1, <2>3, <3>1, <3>2
      <4>. QED  BY <1>3, <1>7, <2>6, <4>1, TakeFollows DEF a, b
    <3>. QED  BY <1>2, <2>3, <3>1, <3>2
  <2>. QED  BY <1>3, <2>4, <2>5, <2>6
<1>. QED  BY <1>11, <1>12, <1>13, <1>14, <1>15, <1>16 DEF TInv

-----------------------------------------------------------------------------
\* A socket is given back, and its slot, if it had one, is out of use.
LEMMA FreedKeeps ==
  ASSUME TInv, NEW s \in Socket, Freed(s), call' = NoCall, ~In("connect"),
         Connected(s) => ~socks'[sockets[s].fd].in_use,
         UNCHANGED <<nextPort, server, faults, taken>>,
         up' \in Seq(UpSegment), down' \in Seq(Arrival), resolved' \in BOOLEAN,
         Len(up') <= MaxQueue, Len(down') <= MaxQueue,
         socks' \in [Fd -> Conn], \A fd \in Fd : Len(socks'[fd].rx) <= RxSize,
         Slots(socks'), Owned(socks'), Streams(socks', cut', overtaken')
  PROVE  TInv'
<1>1. nextPort' = nextPort /\ server' = server /\ faults' = faults /\ taken' = taken
  OBVIOUS
<1>2. /\ sockets' \in [Socket -> [state : {"FREE", "CREATED", "CONNECTED"}, fd : Fd \cup {NoFd}]]
      /\ link' \in [Socket -> Port \cup {NoPort}] /\ read' \in [Socket -> Seq(Port \X Nat)]
      /\ ended' \in [Socket -> BOOLEAN]
  <2>1. <<>> \in Seq(Port \X Nat)
    BY EmptySeq
  <2>. QED  BY <2>1, StateFacts DEF Freed
<1>3. /\ \A x \in Socket : x # s => /\ sockets'[x] = sockets[x] /\ link'[x] = link[x]
                                    /\ read'[x] = read[x] /\ ended'[x] = ended[x]
      /\ sockets'[s].state = "FREE" /\ link'[s] = NoPort /\ read'[s] = <<>> /\ ~ended'[s]
  BY StateFacts DEF Freed
<1>4. TypeOK' /\ Net'
  <2>1. call' \in [op : {"none", "connect", "send", "recv", "close"}, sock : Socket,
                   fd : Fd \cup {NoFd}, polls : Nat]
    BY NoCallFacts
  <2>. QED  BY <1>1, <1>2, <2>1, StateFacts, QueueFacts DEF TypeOK, Net
<1>5. Links'
  <2>1. \A x \in Socket : (x # s => (Connected(x)' <=> Connected(x))) /\ ~Connected(s)'
    BY <1>3 DEF Connected
  <2>2. ASSUME NEW x \in Socket
        PROVE  /\ Connected(x)' <=> link'[x] # NoPort
               /\ Connected(x)' => sockets'[x].fd \in Fd /\ link'[x] < nextPort
               /\ ~Connected(x)' => read'[x] = <<>> /\ ~ended'[x]
    <3>1. CASE x = s
      BY <1>3, <2>1, <3>1
    <3>2. CASE x # s
      BY <1>3, <2>1, <3>2, StateFacts DEF Links
    <3>. QED  BY <3>1, <3>2
  <2>3. \A x, y \in Socket : link'[x] = link'[y] /\ link'[x] # NoPort => x = y
    <3>. SUFFICES ASSUME NEW x \in Socket, NEW y \in Socket, link'[x] = link'[y], link'[x] # NoPort
                  PROVE  x = y
      OBVIOUS
    <3>1. x # s /\ y # s
      BY <1>3
    <3>2. link[x] = link[y] /\ link[x] # NoPort
      BY <1>3, <3>1
    <3>. QED  BY <3>2, StateFacts DEF Links
  <2>. QED  BY <1>1, <2>2, <2>3 DEF Links
<1>6. Caller' /\ Slots(socks)'
  BY <1>1 DEF Caller, In, NoCall, Slots
<1>7. Owned(socks)'
  <2>1. \A x \in Fd : /\ socks'[x].in_use => \E y \in Socket : Holds(y, x, socks'[x].port)
                      /\ socks'[x].state # "SYN_SENT"
    BY Zenon DEF Owned
  <2>2. ASSUME NEW x \in Fd, socks'[x].in_use, NEW y \in Socket, NEW p, Holds(y, x, p) PROVE Holds(y, x, p)'
    <3>1. y # s
      BY <2>2 DEF Holds
    <3>. QED  BY <1>3, <2>2, <3>1 DEF Holds, Connected
  <2>. QED  BY <2>1, <2>2, Zenon DEF Owned
<1>8. Streams(socks, cut, overtaken)'
  BY <1>1, <1>3 DEF Streams, Connected
<1>. QED  BY <1>4, <1>5, <1>6, <1>7, <1>8 DEF TInv

LEMMA ClosesIdleKeeps ==
  ASSUME TInv, NEW s \in Socket, ClosesIdle(s)
  PROVE  TInv'
<1>1. /\ Freed(s) /\ call = NoCall /\ call' = call /\ (Connected(s) => ~socks[sockets[s].fd].in_use)
      /\ nextPort' = nextPort /\ server' = server /\ faults' = faults /\ taken' = taken
      /\ socks' = socks /\ up' = up /\ down' = down /\ resolved' = resolved /\ cut' = cut
      /\ overtaken' = overtaken
  BY DEF ClosesIdle, Idle, network, mishaps
<1>2. ~In("connect")
  BY <1>1 DEF In, NoCall
<1>. QED  BY <1>1, <1>2, StateFacts, QueueFacts, FreedKeeps

LEMMA CloseFacts ==
  ASSUME TInv, In("close")
  PROVE  /\ call.sock \in Socket /\ Connected(call.sock) /\ call.fd = sockets[call.sock].fd
         /\ call.fd \in Fd /\ ~In("connect")
<1>1. call.sock \in Socket /\ Connected(call.sock) /\ call.fd = sockets[call.sock].fd
  BY StateFacts DEF Caller, In
<1>. QED  BY <1>1, StateFacts DEF Links, In

LEMMA CloseTimesOutKeeps == TInv /\ CloseTimesOut => TInv'
<1>. SUFFICES ASSUME TInv, CloseTimesOut PROVE TInv'
  OBVIOUS
<1>1. /\ Freed(call.sock) /\ In("close") /\ call' = NoCall /\ socks' = [socks EXCEPT ![call.fd] = Unused]
      /\ nextPort' = nextPort /\ server' = server /\ faults' = faults /\ taken' = taken
      /\ up' = up /\ down' = down /\ resolved' = resolved /\ cut' = cut
      /\ overtaken' = overtaken
  BY DEF CloseTimesOut, Done, network, mishaps
<1>2. /\ call.sock \in Socket /\ call.fd = sockets[call.sock].fd /\ call.fd \in Fd /\ ~In("connect")
  BY <1>1, CloseFacts
<1>3. /\ socks' \in [Fd -> Conn] /\ \A x \in Fd : Len(socks'[x].rx) <= RxSize
      /\ Slots(socks') /\ Owned(socks') /\ Streams(socks', cut, overtaken)
  BY <1>1, <1>2, DropKeeps
<1>4. ~socks'[call.fd].in_use
  BY <1>1, <1>2, StateFacts, UnusedFacts
<1>. QED  BY <1>1, <1>2, <1>3, <1>4, StateFacts, QueueFacts, FreedKeeps

LEMMA ClosePollKeeps == TInv /\ ClosePoll => TInv'
<1>. SUFFICES ASSUME TInv, ClosePoll PROVE TInv'
  OBVIOUS
<1>1. /\ Poll /\ In("close") /\ call.polls > 0 /\ call.polls \in Nat
      /\ nextPort' = nextPort /\ server' = server /\ faults' = faults
  BY StateFacts DEF ClosePoll
<1>2. /\ call.sock \in Socket /\ Connected(call.sock) /\ call.fd = sockets[call.sock].fd
      /\ call.fd \in Fd /\ ~In("connect")
  BY <1>1, CloseFacts
<1>3. CASE socks'[call.fd].in_use
  <2> DEFINE left == call.polls - 1
  <2>1. left \in Nat /\ call' = [call EXCEPT !.polls = left] /\ sockets' = sockets /\ UNCHANGED reading
    BY <1>1, <1>3 DEF ClosePoll, Turn
  <2>. HIDE DEF left
  <2>2. call \in [op : {"none", "send", "recv", "close"}, sock : Socket, fd : Fd \cup {NoFd}, polls : Nat]
    BY <1>1, StateFacts DEF In
  <2>3. /\ call'.op = call.op /\ call'.sock = call.sock /\ call'.fd = call.fd
        /\ call' \in [op : {"none", "send", "recv", "close"}, sock : Socket, fd : Fd \cup {NoFd}, polls : Nat]
    BY <2>1, <2>2
  <2>. QED  BY <1>1, <1>2, <2>1, <2>3, PollKeeps, SlotsKeep
<1>4. CASE ~socks'[call.fd].in_use
  <2>1. call' = NoCall /\ Freed(call.sock)
    BY <1>4 DEF ClosePoll, Done
  <2>. QED  BY <1>1, <1>2, <1>4, <2>1, PollKeeps, FreedKeeps
<1>. QED  BY <1>3, <1>4

LEMMA CreatesKeeps ==
  ASSUME TInv, NEW s \in Socket, Creates(s)
  PROVE  TInv'
<1>1. /\ sockets' = [sockets EXCEPT ![s] = [state |-> "CREATED", fd |-> NoFd]]
      /\ sockets[s].state = "FREE" /\ call = NoCall
      /\ nextPort' = nextPort /\ server' = server /\ faults' = faults /\ taken' = taken
      /\ socks' = socks /\ up' = up /\ down' = down /\ resolved' = resolved /\ cut' = cut
      /\ overtaken' = overtaken /\ call' = call /\ link' = link /\ read' = read /\ ended' = ended
  BY DEF Creates, Idle, network, mishaps, reading
<1>2. sockets' \in [Socket -> [state : {"FREE", "CREATED", "CONNECTED"}, fd : Fd \cup {NoFd}]]
  BY <1>1, StateFacts
<1>3. \A x \in Socket : /\ Connected(x)' <=> Connected(x)
                        /\ Connected(x) => sockets'[x] = sockets[x]
  BY <1>1, StateFacts DEF Connected
<1>4. TypeOK' /\ Net'
  BY <1>1, <1>2, StateFacts, QueueFacts DEF TypeOK, Net
<1>5. Links'
  BY <1>1, <1>3, StateFacts DEF Links
<1>6. Caller'
  BY <1>1 DEF Caller, In, NoCall
<1>7. Slots(socks)'
  BY <1>1, StateFacts DEF Slots
<1>8. Owned(socks)'
  <2>1. \A x \in Socket : \A fd, p : Holds(x, fd, p) => Holds(x, fd, p)'
    BY <1>1, <1>3 DEF Holds
  <2>2. In("connect")' <=> In("connect")
    BY <1>1 DEF In
  <2>. QED  BY <1>1, <2>1, <2>2, StateFacts, Zenon DEF Owned
<1>9. Streams(socks, cut, overtaken)'
  BY <1>1, <1>3, StateFacts DEF Streams
<1>. QED  BY <1>4, <1>5, <1>6, <1>7, <1>8, <1>9 DEF TInv

LEMMA ConnectsKeeps ==
  ASSUME TInv, NEW s \in Socket, Connects(s)
  PROVE  TInv'
<1> DEFINE fd == CHOOSE x \in FreeFd : \A y \in FreeFd : x <= y
           t == [Unused EXCEPT !.in_use = TRUE, !.port = nextPort, !.state = "SYN_SENT"]
           u == Sent(t, {"SYN"}, 0)
           m == Segment(t, {"SYN"}, 0)
<1>1. /\ socks' = [socks EXCEPT ![fd] = u] /\ Emits(<<m>>, down)
      /\ call' = [op |-> "connect", sock |-> s, fd |-> fd, polls |-> ConnectPolls]
      /\ call = NoCall /\ RoomForCall /\ sockets[s].state = "CREATED" /\ nextPort \in Port /\ FreeFd # {}
      /\ nextPort' = nextPort + 1
      /\ sockets' = sockets /\ server' = server /\ faults' = faults /\ taken' = taken
      /\ resolved' = resolved /\ cut' = cut /\ overtaken' = overtaken
      /\ link' = link /\ read' = read /\ ended' = ended
  BY DEF Connects, Idle, mishaps, reading
<1>2. fd \in FreeFd
  <2>1. FreeFd \subseteq Nat
    BY NetFacts DEF FreeFd
  <2>2. \E x \in FreeFd : \A y \in FreeFd : x <= y
    BY <1>1, <2>1, Least
  <2>. QED  BY <2>2
<1>. HIDE DEF fd
<1>3. fd \in Fd /\ ~socks[fd].in_use
  BY <1>2 DEF FreeFd
<1>4. t \in Conn /\ t.in_use /\ t.port = nextPort /\ t.state = "SYN_SENT" /\ t.rx = <<>> /\ ~t.fin /\ t.snd = 0
  BY <1>1, UnusedFacts DEF Conn, Unused
<1>5. u \in Conn /\ u.in_use /\ u.port = nextPort /\ u.state = "SYN_SENT" /\ u.rx = <<>> /\ ~u.fin
  <2>1. "SYN" \in {"SYN"} \cap {"SYN", "FIN"}
    OBVIOUS
  <2>2. u = [t EXCEPT !.snd = t.snd + 0 + 1]
    BY <1>4, <2>1 DEF Sent
  <2>3. t.snd + 0 + 1 = 1
    BY <1>4
  <2>4. u = [t EXCEPT !.snd = 1]
    BY <2>2, <2>3
  <2>. HIDE DEF t, u
  <2>. QED  BY <1>4, <2>4 DEF Conn
<1>6. m \in UpSegment
  BY <1>1, <1>4 DEF Segment, UpSegment, Flags, Conn
<1>. HIDE DEF u, m, t
<1>7. /\ up' \in Seq(UpSegment) /\ down' \in Seq(Arrival)
      /\ Len(up') <= MaxQueue /\ Len(down') <= MaxQueue
  BY <1>1, <1>6, CallEmits
<1>8. /\ socks' \in [Fd -> Conn] /\ socks'[fd] = u /\ \A x \in Fd : x # fd => socks'[x] = socks[x]
      /\ \A x \in Fd : Len(socks'[x].rx) <= RxSize
  <2>1. Len(<<>>) = 0 /\ 0 <= RxSize
    BY NetFacts
  <2>. QED  BY <1>1, <1>3, <1>5, <2>1, StateFacts
<1>9. nextPort \in Nat /\ nextPort > 0 /\ nextPort' \in 1 .. MaxPort + 1 /\ nextPort' - 1 = nextPort
      /\ nextPort # NoPort /\ NoPort < nextPort
  BY <1>1, NetFacts DEF Port, NoPort
<1>10. TypeOK' /\ Net'
  <2>1. call' \in [op : {"none", "connect", "send", "recv", "close"}, sock : Socket,
                   fd : Fd \cup {NoFd}, polls : Nat]
    BY <1>1, <1>3, NetFacts
  <2>. QED  BY <1>1, <1>7, <1>8, <1>9, <2>1, StateFacts, QueueFacts DEF TypeOK, Net
<1>11. \A x \in Socket : link[x] < nextPort /\ link[x] \in Nat
  <2>1. \A x \in Socket : link[x] = NoPort \/ link[x] < nextPort
    BY StateFacts DEF Links
  <2>2. \A x \in Socket : link[x] \in Nat
    BY StateFacts, PortNumbers
  <2>. QED  BY <1>9, <2>1, <2>2
<1>12. Links'
  <2>1. ASSUME NEW x \in Socket PROVE link[x] < nextPort'
    BY <1>1, <1>9, <1>11
  <2>. QED  BY <1>1, <2>1, StateFacts DEF Links, Connected
<1>13. Caller'
  <2>1. call'.op = "connect" /\ call'.sock = s /\ call'.fd = fd
    BY <1>1
  <2>. QED  BY <1>1, <1>3, <1>5, <1>8, <1>9, <1>11, <2>1 DEF Caller, In
<1>14. Slots(socks)'
  <2>1. SlotSound(u)
    BY <1>5, <1>9 DEF SlotSound
  <2>2. \A x \in Fd : socks[x].port < nextPort /\ socks[x].port \in Nat
    <3>1. \A x \in Fd : socks[x].port \in Port \cup {NoPort}
      BY StateFacts DEF Conn
    <3>. QED  BY <3>1, StateFacts, PortNumbers DEF Slots
  <2>3. \A x \in Fd : SlotSound(socks'[x]) /\ socks'[x].port < nextPort'
    BY <1>1, <1>5, <1>8, <1>9, <2>1, <2>2, StateFacts DEF Slots
  <2>4. \A x \in Fd : x # fd => socks'[x].port # socks'[fd].port
    BY <1>3, <1>5, <1>8, <1>9, <2>2
  <2>5. \A x, g \in Fd : socks'[x].port = socks'[g].port /\ socks'[x].port # NoPort => x = g
    BY <1>8, <2>4, StateFacts DEF Slots
  <2>. QED  BY <2>3, <2>5 DEF Slots
<1>15. Owned(socks)'
  <2>1. ~In("connect") /\ In("connect")' /\ call'.fd = fd
    BY <1>1 DEF In, NoCall
  <2>2. \A x \in Fd : /\ socks[x].in_use => \E y \in Socket : Holds(y, x, socks[x].port)
                      /\ socks[x].state # "SYN_SENT"
    BY <2>1, StateFacts, Zenon DEF Owned
  <2>3. \A y, x, p : Holds(y, x, p) => Holds(y, x, p)'
    BY <1>1 DEF Holds, Connected
  <2>4. ASSUME NEW x \in Fd
        PROVE  /\ socks'[x].in_use => (\E y \in Socket : Holds(y, x, socks[x].port)') \/ x = fd
               /\ x # fd => socks'[x] = socks[x]
               /\ socks'[x].state = "SYN_SENT" => x = fd
    <3>1. CASE x = fd
      BY <3>1
    <3>2. CASE x # fd
      <4>1. socks'[x] = socks[x]
        BY <1>8, <3>2
      <4>. QED  BY <2>2, <2>3, <4>1, Zenon
    <3>. QED  BY <3>1, <3>2
  <2>5. \A x \in Fd : x = fd => In("connect")' /\ call'.fd = x
    BY <2>1
  <2>. QED  BY <2>4, <2>5, Zenon DEF Owned
<1>16. Streams(socks, cut, overtaken)'
  <2>1. ASSUME NEW x \in Socket, Connected(x), socks'[sockets[x].fd].port = link[x]
        PROVE  socks'[sockets[x].fd] = socks[sockets[x].fd]
    <3>1. sockets[x].fd \in Fd
      BY <2>1, StateFacts DEF Links
    <3>2. sockets[x].fd # fd
      BY <1>5, <1>8, <1>9, <1>11, <2>1
    <3>. QED  BY <1>8, <3>1, <3>2
  <2>2. Streams(socks', cut, overtaken)
    BY <2>1, StateFacts, Zenon DEF Streams
  <2>. QED  BY <1>1, <2>2 DEF Streams, Connected
<1>. QED  BY <1>10, <1>12, <1>13, <1>14, <1>15, <1>16 DEF TInv

\* What is known while a connect waits.
LEMMA ConnectFacts ==
  ASSUME TInv, In("connect")
  PROVE  /\ call.sock \in Socket /\ call.fd \in Fd /\ call.polls \in Nat
         /\ sockets[call.sock].state = "CREATED" /\ ~Connected(call.sock)
         /\ read[call.sock] = <<>> /\ ~ended[call.sock] /\ link[call.sock] = NoPort
         /\ socks[call.fd].state = "SYN_SENT" /\ socks[call.fd].port = nextPort - 1
         /\ \A s \in Socket : link[s] < nextPort - 1 /\ link[s] \in Nat
         /\ nextPort \in Nat
<1>1. call.sock \in Socket /\ call.polls \in Nat /\ nextPort \in Nat
  BY StateFacts, NetFacts
<1>2. \A s \in Socket : link[s] \in Nat
  BY StateFacts, PortNumbers
<1>3. sockets[call.sock].state = "CREATED"
  BY StateFacts DEF Caller
<1>4. ~Connected(call.sock)
  BY <1>3 DEF Connected
<1>. QED  BY <1>1, <1>2, <1>3, <1>4, StateFacts DEF Caller, Links

LEMMA ConnectGivesUpKeeps == TInv /\ ConnectTimesOut => TInv'
<1>. SUFFICES ASSUME TInv, ConnectTimesOut PROVE TInv'
  OBVIOUS
<1>1. /\ In("connect") /\ call' = NoCall /\ socks' = [socks EXCEPT ![call.fd] = Unused]
      /\ sockets' = sockets /\ nextPort' = nextPort /\ server' = server /\ faults' = faults
      /\ up' = up /\ down' = down /\ resolved' = resolved /\ cut' = cut /\ taken' = taken
      /\ overtaken' = overtaken /\ link' = link /\ read' = read /\ ended' = ended
  BY DEF ConnectTimesOut, Done, network, mishaps, reading
<1>2. call.fd \in Fd
  BY <1>1, ConnectFacts
<1>3. /\ socks' \in [Fd -> Conn] /\ \A x \in Fd : Len(socks'[x].rx) <= RxSize
      /\ Slots(socks') /\ Owned(socks') /\ Streams(socks', cut, overtaken)
  BY <1>1, <1>2, DropKeeps
<1>4. socks'[call.fd] = Unused
  BY <1>1, <1>2, StateFacts
<1>5. TypeOK' /\ Net'
  <2>1. call' \in [op : {"none", "connect", "send", "recv", "close"}, sock : Socket,
                   fd : Fd \cup {NoFd}, polls : Nat]
    BY <1>1, NoCallFacts
  <2>. QED  BY <1>1, <1>3, <2>1, StateFacts, QueueFacts DEF TypeOK, Net
<1>6. Links'
  BY <1>1, StateFacts DEF Links, Connected
<1>7. Caller'
  BY <1>1 DEF Caller, In, NoCall
<1>8. Slots(socks)'
  BY <1>1, <1>3 DEF Slots
<1>9. Owned(socks)'
  <2>1. \A x \in Fd : /\ socks'[x].in_use => \E y \in Socket : Holds(y, x, socks'[x].port)
                      /\ socks'[x].state # "SYN_SENT"
    BY <1>3, <1>4, UnusedFacts DEF Owned
  <2>2. \A y, x, p : Holds(y, x, p) => Holds(y, x, p)'
    BY <1>1 DEF Holds, Connected
  <2>. QED  BY <2>1, <2>2, Zenon DEF Owned
<1>10. Streams(socks, cut, overtaken)'
  BY <1>1, <1>3 DEF Streams, Connected
<1>. QED  BY <1>5, <1>6, <1>7, <1>8, <1>9, <1>10 DEF TInv


\* Once the SYN-ACK is taken the slot is the socket's, whose stream is empty.
LEMMA ConnectedKeeps ==
  ASSUME TInv, In("connect"), Poll, NEW c \in Socket, c = call.sock, NEW g \in Fd, g = call.fd,
         socks'[g].state = "ESTABLISHED", call' = NoCall,
         sockets' = [sockets EXCEPT ![c] = [state |-> "CONNECTED", fd |-> g]],
         link' = [link EXCEPT ![c] = socks'[g].port],
         UNCHANGED <<read, ended, nextPort, faults, server>>
  PROVE  TInv'
<1> DEFINE p == socks'[g].port
<1>1. /\ read' = read /\ ended' = ended /\ nextPort' = nextPort /\ faults' = faults
      /\ server' = server /\ taken' = taken
  BY PollKeeps
<1>2. /\ c \in Socket /\ g \in Fd /\ nextPort \in Nat /\ ~Connected(c)
      /\ read[c] = <<>> /\ ~ended[c] /\ socks[g].port = nextPort - 1
      /\ \A x \in Socket : link[x] < nextPort - 1
  BY ConnectFacts
<1>3. /\ socks'[g].in_use /\ socks'[g].rcv = 1 /\ socks'[g].rx = <<>> /\ ~socks'[g].fin
      /\ p = nextPort - 1
  <2>1. socks[g].state = "SYN_SENT"
    BY ConnectFacts
  <2>. QED  BY <1>2, <2>1, PollKeeps, UnusedFacts
<1>4. p \in Port /\ p # NoPort /\ p < nextPort
  <2>1. socks'[g] \in Conn /\ SlotSound(socks'[g])
    BY <1>2, PollKeeps DEF Slots
  <2>. QED  BY <1>2, <1>3, <2>1 DEF Conn, SlotSound
<1>5. /\ sockets'[c].state = "CONNECTED" /\ sockets'[c].fd = g /\ link'[c] = p
      /\ \A x \in Socket : x # c => sockets'[x] = sockets[x] /\ link'[x] = link[x]
  BY <1>2, StateFacts
<1>. HIDE DEF p
<1>6. TypeOK' /\ Net'
  <2>1. call' \in [op : {"none", "connect", "send", "recv", "close"}, sock : Socket,
                   fd : Fd \cup {NoFd}, polls : Nat]
    BY NoCallFacts
  <2>2. /\ sockets' \in [Socket -> [state : {"FREE", "CREATED", "CONNECTED"}, fd : Fd \cup {NoFd}]]
        /\ link' \in [Socket -> Port \cup {NoPort}]
    BY <1>2, <1>4, StateFacts DEF p
  <2>. QED  BY <1>1, <2>1, <2>2, StateFacts, QueueFacts, PollKeeps DEF TypeOK, Net
<1>7. Links'
  <2>1. ASSUME NEW x \in Socket
        PROVE  /\ Connected(x)' <=> link'[x] # NoPort
               /\ Connected(x)' => sockets'[x].fd \in Fd /\ link'[x] < nextPort
               /\ ~Connected(x)' => read[x] = <<>> /\ ~ended[x]
    <3>1. CASE x = c
      BY <1>2, <1>4, <1>5, <3>1 DEF Connected
    <3>2. CASE x # c
      BY <1>5, <3>2, StateFacts DEF Links, Connected
    <3>. QED  BY <3>1, <3>2
  <2>2. ASSUME NEW x \in Socket, NEW y \in Socket, link'[x] = link'[y], link'[x] # NoPort PROVE x = y
    <3>1. \A z \in Socket : link[z] # p
      BY <1>2, <1>3
    <3>2. CASE x = c \/ y = c
      BY <1>5, <2>2, <3>1, <3>2
    <3>3. CASE x # c /\ y # c
      BY <1>5, <2>2, <3>3, StateFacts DEF Links
    <3>. QED  BY <3>2, <3>3
  <2>. QED  BY <1>1, <2>1, <2>2 DEF Links
<1>8. Caller' /\ Slots(socks)'
  BY <1>1, PollKeeps DEF Caller, In, NoCall, Slots
<1>9. Owned(socks)'
  <2>1. \A y \in Socket : Connected(y) => Connected(y)' /\ y # c
    BY <1>2, <1>5 DEF Connected
  <2>2. Connected(c)'
    BY <1>5 DEF Connected
  <2>3. ASSUME NEW x \in Fd, socks'[x].in_use
        PROVE  \E y \in Socket : Connected(y)' /\ sockets'[y].fd = x /\ link'[y] = socks'[x].port
    <3>1. CASE x = g
      BY <1>2, <1>5, <2>2, <3>1 DEF p
    <3>2. CASE x # g
      <4>1. PICK y \in Socket : Connected(y) /\ sockets[y].fd = x /\ link[y] = socks'[x].port
        BY <2>3, <3>2, PollKeeps, Zenon DEF Owned, Holds
      <4>. QED  BY <1>5, <2>1, <4>1
    <3>. QED  BY <3>1, <3>2
  <2>4. \A x \in Fd : socks'[x].state # "SYN_SENT"
    <3>1. \A x \in Fd : socks'[x].state = "SYN_SENT" => x = g
      BY PollKeeps DEF Owned
    <3>. QED  BY <3>1
  <2>. QED  BY <2>3, <2>4, Zenon DEF Owned, Holds
<1>10. Streams(socks, cut, overtaken)'
  <2>1. Follows(p, read[c], socks'[g], p \in overtaken')
    <3>1. Units(p) \in Nat /\ Len(<<>>) = 0
      BY <1>4, NetFacts
    <3>. QED  BY <1>2, <1>3, <3>1 DEF Follows
  <2>2. ASSUME NEW x \in Socket, Connected(x)', socks'[sockets'[x].fd].port = link'[x]
        PROVE  /\ link'[x] \notin cut' \cup taken =>
                    Follows(link'[x], read[x], socks'[sockets'[x].fd], link'[x] \in overtaken')
               /\ ended[x] => socks'[sockets'[x].fd].fin /\ socks'[sockets'[x].fd].rx = <<>>
    <3>1. CASE x = c
      BY <1>2, <1>5, <2>1, <3>1
    <3>2. CASE x # c
      BY <1>5, <2>2, <3>2, PollKeeps DEF Streams, Connected
    <3>. QED  BY <3>1, <3>2
  <2>. QED  BY <1>1, <2>2 DEF Streams
<1>. QED  BY <1>6, <1>7, <1>8, <1>9, <1>10 DEF TInv

\* What a connect that goes on or was refused leaves.
LEMMA UnansweredKeeps ==
  ASSUME TInv, In("connect"), Poll, UNCHANGED <<sockets, reading, nextPort, faults, server>>,
         \/ call' = NoCall /\ socks'[call.fd].state = "CLOSED"
         \/ /\ socks'[call.fd] = socks[call.fd] /\ call'.op = call.op /\ call'.sock = call.sock
            /\ call'.fd = call.fd /\ call' \in [op : {"connect"}, sock : Socket, fd : Fd, polls : Nat]
  PROVE  TInv'
<1>1. /\ sockets' = sockets /\ nextPort' = nextPort /\ faults' = faults /\ server' = server
      /\ link' = link /\ read' = read /\ ended' = ended /\ taken' = taken
  BY PollKeeps DEF reading
<1>2. /\ call.sock \in Socket /\ call.fd \in Fd /\ sockets[call.sock].state = "CREATED"
      /\ socks[call.fd].state = "SYN_SENT" /\ socks[call.fd].port = nextPort - 1
      /\ \A s \in Socket : link[s] < nextPort - 1
  BY ConnectFacts
<1>3. TypeOK' /\ Net'
  <2>1. call' \in [op : {"none", "connect", "send", "recv", "close"}, sock : Socket,
                   fd : Fd \cup {NoFd}, polls : Nat]
    BY NoCallFacts
  <2>. QED  BY <1>1, <2>1, StateFacts, QueueFacts, PollKeeps DEF TypeOK, Net
<1>4. Links'
  BY <1>1, StateFacts DEF Links, Connected
<1>5. Caller'
  <2>1. CASE call' = NoCall
    BY <2>1 DEF Caller, In, NoCall
  <2>2. CASE /\ socks'[call.fd] = socks[call.fd] /\ call'.op = call.op /\ call'.sock = call.sock
             /\ call'.fd = call.fd
    BY <1>1, <1>2, <2>2 DEF Caller, In
  <2>. QED  BY <2>1, <2>2
<1>6. Slots(socks)'
  BY <1>1, PollKeeps DEF Slots
<1>7. Owned(socks)'
  <2>1. \A y, x, q : Holds(y, x, q) => Holds(y, x, q)'
    BY <1>1 DEF Holds, Connected
  <2>2. CASE call' = NoCall /\ socks'[call.fd].state = "CLOSED"
    <3>1. ~socks'[call.fd].in_use
      BY <1>2, <2>2, PollKeeps DEF Slots, SlotSound
    <3>2. \A x \in Fd : /\ socks'[x].in_use => \E y \in Socket : Holds(y, x, socks'[x].port)
                        /\ socks'[x].state # "SYN_SENT"
      BY <2>2, <3>1, PollKeeps, Zenon DEF Owned
    <3>. QED  BY <2>1, <3>2, Zenon DEF Owned
  <2>3. CASE call'.op = call.op /\ call'.fd = call.fd
    <3>1. In("connect") <=> In("connect")'
      BY <2>3 DEF In
    <3>2. Owned(socks')
      BY PollKeeps
    <3>. QED  BY <2>1, <2>3, <3>1, <3>2, Zenon DEF Owned
  <2>. QED  BY <2>2, <2>3
<1>8. Streams(socks, cut, overtaken)'
  BY <1>1, PollKeeps DEF Streams, Connected
<1>. QED  BY <1>3, <1>4, <1>5, <1>6, <1>7, <1>8 DEF TInv

LEMMA ConnectPollKeeps == TInv /\ ConnectPoll => TInv'
<1>. SUFFICES ASSUME TInv, ConnectPoll PROVE TInv'
  OBVIOUS
<1>1. /\ In("connect") /\ call.polls > 0 /\ Poll /\ UNCHANGED <<nextPort, faults, server>>
  BY DEF ConnectPoll
<1>2. call.sock \in Socket /\ call.fd \in Fd /\ call.polls \in Nat /\ socks[call.fd].state = "SYN_SENT"
  BY <1>1, ConnectFacts
<1>3. CASE socks'[call.fd].state = "ESTABLISHED"
  <2>1. /\ call' = NoCall /\ read' = read /\ ended' = ended
        /\ sockets' = [sockets EXCEPT ![call.sock] = [state |-> "CONNECTED", fd |-> call.fd]]
        /\ link' = [link EXCEPT ![call.sock] = socks'[call.fd].port]
    BY <1>3 DEF ConnectPoll, Done
  <2>2. PICK c \in Socket, g \in Fd : c = call.sock /\ g = call.fd
    BY <1>2
  <2>3. /\ socks'[g].state = "ESTABLISHED"
        /\ sockets' = [sockets EXCEPT ![c] = [state |-> "CONNECTED", fd |-> g]]
        /\ link' = [link EXCEPT ![c] = socks'[g].port]
    BY <1>3, <2>1, <2>2
  <2>. QED  BY <1>1, <2>1, <2>2, <2>3, ConnectedKeeps
<1>4. CASE socks'[call.fd].state = "CLOSED"
  <2>1. call' = NoCall /\ UNCHANGED <<sockets, reading>>
    BY <1>4 DEF ConnectPoll, Done
  <2>. QED  BY <1>1, <1>4, <2>1, UnansweredKeeps
<1>5. CASE socks'[call.fd].state \notin {"ESTABLISHED", "CLOSED"}
  <2> DEFINE left == call.polls - 1
  <2>1. left \in Nat /\ call' = [call EXCEPT !.polls = left] /\ UNCHANGED <<sockets, reading>>
    BY <1>1, <1>2, <1>5 DEF ConnectPoll, Turn
  <2>. HIDE DEF left
  <2>2. socks'[call.fd] = socks[call.fd]
    BY <1>1, <1>2, <1>5, PollKeeps, UnusedFacts
  <2>3. call \in [op : {"connect"}, sock : Socket, fd : Fd, polls : Nat]
    BY <1>1, <1>2, StateFacts DEF In
  <2>4. /\ call'.op = call.op /\ call'.sock = call.sock /\ call'.fd = call.fd
        /\ call' \in [op : {"connect"}, sock : Socket, fd : Fd, polls : Nat]
    BY <2>1, <2>3
  <2>. QED  BY <1>1, <2>1, <2>2, <2>4, UnansweredKeeps
<1>. QED  BY <1>3, <1>4, <1>5


-----------------------------------------------------------------------------
LEMMA NextKeeps == TInv /\ [Next]_vars => TInv'
<1>. SUFFICES ASSUME TInv, [Next]_vars PROVE TInv'
  OBVIOUS
<1>1. ASSUME NEW s \in Socket, Call(s) PROVE TInv'
  BY <1>1, CreatesKeeps, ConnectsKeeps, SendsKeeps, RecvsKeeps, ClosesIdleKeeps DEF Call
<1>2. CASE Step
  BY <1>2, ConnectPollKeeps, ConnectGivesUpKeeps, PollsKeep, RecvTimesOutKeeps, RecvEndsKeeps,
     RecvTakesKeeps, ClosePollKeeps, CloseTimesOutKeeps DEF Step
<1>3. ASSUME NEW p \in Port, Server(p) \/ ServerResets(p) PROVE TInv'
  BY <1>3, ServerKeeps DEF Server
<1>4. CASE ServerHears \/ Fault
  BY <1>4, ServerHearsKeeps, FaultKeeps
<1>5. CASE UNCHANGED vars
  <2>1. /\ UNCHANGED <<tables, call, resolved, reading, mishaps>>
        /\ up' = up /\ down' = down /\ faults' = faults /\ server' = server
    BY <1>5 DEF vars, network
  <2>2. faults \in 0 .. MaxFaults
    BY DEF TInv, TypeOK
  <2>. QED  BY <2>1, <2>2, QueueFacts, OutsideKeeps
<1>. QED  BY <1>1, <1>2, <1>3, <1>4, <1>5 DEF Next

LEMMA InitHolds == Init => TInv
<1>. SUFFICES ASSUME Init PROVE TInv
  OBVIOUS
<1>1. /\ \A S : <<>> \in Seq(S)
      /\ Len(<<>>) = 0
  BY EmptySeq
<1>2. TypeOK
  <2>1. sockets \in [Socket -> [state : {"FREE", "CREATED", "CONNECTED"}, fd : Fd \cup {NoFd}]]
    BY DEF Init
  <2>2. socks \in [Fd -> Conn] /\ \A fd \in Fd : Len(socks[fd].rx) <= RxSize
    BY UnusedFacts, NetFacts DEF Init
  <2>3. nextPort \in 1 .. MaxPort + 1 /\ faults \in 0 .. MaxFaults
    BY NetFacts DEF Init
  <2>4. call \in [op : {"none", "connect", "send", "recv", "close"}, sock : Socket,
                  fd : Fd \cup {NoFd}, polls : Nat]
    BY NoCallFacts DEF Init
  <2>5. Len(up) <= MaxQueue /\ Len(down) <= MaxQueue
    BY <1>1, NetFacts DEF Init
  <2>6. /\ link \in [Socket -> Port \cup {NoPort}] /\ read \in [Socket -> Seq(Port \X Nat)]
        /\ ended \in [Socket -> BOOLEAN] /\ resolved \in BOOLEAN
    BY <1>1 DEF Init
  <2>. QED  BY <2>1, <2>2, <2>3, <2>4, <2>5, <2>6 DEF TypeOK
<1>3. Net
  BY <1>1 DEF Init, Net, Host, Deaf
<1>4. Links /\ Caller
  BY DEF Init, Links, Caller, Connected, In, NoCall
<1>5. Slots(socks) /\ Owned(socks)
  <2>1. \A fd \in Fd : socks[fd] = Unused
    BY DEF Init
  <2>2. SlotSound(Unused) /\ NoPort < nextPort
    BY UnusedFacts DEF SlotSound, Init, NoPort
  <2>. QED  BY <2>1, <2>2, UnusedFacts DEF Slots, Owned
<1>6. Streams(socks, cut, overtaken)
  BY DEF Init, Streams, Connected
<1>. QED  BY <1>2, <1>3, <1>4, <1>5, <1>6 DEF TInv

-----------------------------------------------------------------------------
\* At every moment the queues hold nothing but what was sent, each slot in use
\* is that of the one socket whose connection has its port, and the answer's
\* first units are what its socket read and rx_buf holds (tcp.c, socket.c).
THEOREM TcpInvariant == Spec => []TInv
  BY InitHolds, NextKeeps, PTL DEF Spec

\* The socket table, the connection table with its buffers, the counter of local
\* ports and the calls keep their types and ranges (tcp.c, socket.c).
THEOREM TcpTypeCorrect == Spec => []TypeOK
<1>1. TInv => TypeOK
  BY DEF TInv
<1>. QED  BY <1>1, TcpInvariant, PTL

\* What a socket that is not stale follows.
LEMMA StreamFacts ==
  ASSUME TInv, NEW s \in Socket, link[s] # NoPort, ~Stale(s)
  PROVE  /\ link[s] \in Port /\ Units(link[s]) \in Nat /\ read[s] \in Seq(Port \X Nat)
         /\ link[s] \notin cut \cup taken =>
              Follows(link[s], read[s], socks[sockets[s].fd], link[s] \in overtaken)
         /\ ended[s] => socks[sockets[s].fd].fin /\ socks[sockets[s].fd].rx = <<>>
<1>1. Connected(s)
  BY StateFacts DEF Links
<1>2. link[s] \in Port /\ read[s] \in Seq(Port \X Nat)
  BY StateFacts
<1>3. socks[sockets[s].fd].port = link[s]
  BY <1>1 DEF Stale
<1>. QED  BY <1>1, <1>2, <1>3, StateFacts, NetFacts DEF Streams

LEMMA AnswerFacts ==
  ASSUME NEW p \in Port
  PROVE  /\ Answer(p) \in Seq(Port \X Nat) /\ Len(Answer(p)) = Units(p)
         /\ \A k \in 1 .. Units(p) : Answer(p)[k] = <<p, k>>
<1> DEFINE n == Units(p)
           a == Answer(p)
<1>1. n \in Nat
  BY NetFacts
<1>2. a \in [1 .. n -> Port \X Nat] /\ DOMAIN a = 1 .. n
  BY <1>1 DEF Answer
<1>3. \A k \in 1 .. n : a[k] = <<p, k>>
  BY DEF Answer
<1>. HIDE DEF n, a
<1>4. a \in Seq(Port \X Nat)
  BY <1>1, <1>2, SeqDef
<1>5. Len(a) \in Nat /\ DOMAIN a = 1 .. Len(a)
  BY <1>4, LenProperties
<1>6. Len(a) = n
  BY <1>1, <1>2, <1>5
<1>. QED  BY <1>3, <1>4, <1>6 DEF n, a

LEMMA FirstUnits ==
  ASSUME NEW S, NEW q \in Seq(S), NEW n \in Nat, n <= Len(q)
  PROVE  /\ SubSeq(q, 1, n) \in Seq(S) /\ Len(SubSeq(q, 1, n)) = n
         /\ \A k \in 1 .. n : SubSeq(q, 1, n)[k] = q[k]
<1>1. Len(q) \in Nat
  BY LenProperties
<1>2. \A k \in 1 .. n : k \in 1 .. Len(q)
  BY <1>1
<1>. QED  BY <1>1, <1>2, SubSeqProperties

\* What recv gave a socket's owner is the beginning of what the remote host sent
\* on its connection, each unit once and in order, whatever is lost, repeated or
\* late (tcp_process_packet and tcp_recv).
THEOREM StreamsAreExact == Spec => []StreamExact
<1>1. ASSUME TInv, NEW s \in Socket, link[s] # NoPort, ~Stale(s), link[s] \notin cut \cup taken
      PROVE  IsPrefix(read[s], Answer(link[s]))
  <2> DEFINE p == link[s]
             rd == read[s]
             t == socks[sockets[s].fd]
  <2>1. p \in Port /\ Units(p) \in Nat /\ rd \in Seq(Port \X Nat) /\ Follows(p, rd, t, p \in overtaken)
    BY <1>1, StreamFacts
  <2>2. Len(t.rx) \in Nat /\ Len(rd) \in Nat
    <3>1. Connected(s)
      BY <1>1, StateFacts DEF Links
    <3>2. t \in Conn
      BY <1>1, <3>1, StateFacts DEF Links
    <3>. QED  BY <2>1, <3>2, LenProperties DEF Conn
  <2>. HIDE DEF t, rd, p
  <2>3. Len(rd) <= Units(p) /\ \A k \in 1 .. Len(rd) : rd[k] = <<p, k>>
    BY <2>1, <2>2 DEF Follows
  <2>4. Answer(p) \in Seq(Port \X Nat) /\ Len(Answer(p)) = Units(p)
        /\ \A k \in 1 .. Units(p) : Answer(p)[k] = <<p, k>>
    BY <2>1, AnswerFacts
  <2>5. SubSeq(Answer(p), 1, Len(rd)) = rd
    <3>1. /\ SubSeq(Answer(p), 1, Len(rd)) \in Seq(Port \X Nat)
          /\ Len(SubSeq(Answer(p), 1, Len(rd))) = Len(rd)
          /\ \A k \in 1 .. Len(rd) : SubSeq(Answer(p), 1, Len(rd))[k] = Answer(p)[k]
      BY <2>2, <2>3, <2>4, FirstUnits
    <3>2. \A k \in 1 .. Len(rd) : SubSeq(Answer(p), 1, Len(rd))[k] = rd[k]
      BY <2>1, <2>2, <2>3, <2>4, <3>1
    <3>. QED  BY <2>1, <3>1, <3>2, SeqEqual
  <2>. QED  BY <2>1, <2>2, <2>3, <2>4, <2>5 DEF IsPrefix, p, rd
<1>2. TInv => StreamExact
  BY <1>1 DEF StreamExact
<1>. QED  BY <1>2, TcpInvariant, PTL

\* recv answers 0 only to an owner who has the whole answer, unless the FIN was
\* taken without the data in front of it (tcp_recv and tcp_process_packet).
THEOREM TheEndIsTheEnd == Spec => []EndIsEnd
<1>1. ASSUME TInv, NEW s \in Socket, ended[s], ~Stale(s), link[s] \notin cut \cup taken \cup overtaken
      PROVE  read[s] = Answer(link[s])
  <2> DEFINE p == link[s]
             rd == read[s]
             t == socks[sockets[s].fd]
  <2>1. p # NoPort
    BY <1>1, StateFacts DEF Links
  <2>2. /\ p \in Port /\ Units(p) \in Nat /\ rd \in Seq(Port \X Nat) /\ Follows(p, rd, t, FALSE)
        /\ t.fin /\ t.rx = <<>>
    <3>1. link[s] \in overtaken <=> FALSE
      BY <1>1
    <3>. QED  BY <1>1, <2>1, <3>1, StreamFacts DEF Follows
  <2>3. Len(<<>>) = 0 /\ Len(rd) \in Nat
    BY <2>2, LenProperties
  <2>. HIDE DEF t, rd, p
  <2>4. Len(rd) = Units(p) /\ \A k \in 1 .. Len(rd) : rd[k] = <<p, k>>
    BY <2>2, <2>3 DEF Follows
  <2>5. Answer(p) \in Seq(Port \X Nat) /\ Len(Answer(p)) = Units(p)
        /\ \A k \in 1 .. Units(p) : Answer(p)[k] = <<p, k>>
    BY <2>2, AnswerFacts
  <2>6. rd = Answer(p)
    <3>1. Len(rd) = Len(Answer(p)) /\ \A k \in 1 .. Len(rd) : rd[k] = Answer(p)[k]
      BY <2>4, <2>5
    <3>. QED  BY <2>2, <2>5, <3>1, SeqEqual
  <2>. QED  BY <2>6 DEF p, rd
<1>2. TInv => EndIsEnd
  BY <1>1 DEF EndIsEnd
<1>. QED  BY <1>2, TcpInvariant, PTL

\* No slot is lost: one in use is that of a socket with a connection or of the
\* connect under way (tcp_connect, tcp_close and the resets).
THEOREM SlotsAreNotLost == Spec => []SlotsFreed
<1>1. ASSUME TInv, NEW fd \in Fd, socks[fd].in_use
      PROVE  (\E s \in Socket : Connected(s) /\ sockets[s].fd = fd) \/ (In("connect") /\ call.fd = fd)
  BY <1>1, StateFacts, Zenon DEF Owned, Holds
<1>2. TInv => SlotsFreed
  BY <1>1 DEF SlotsFreed
<1>. QED  BY <1>2, TcpInvariant, PTL

=============================================================================
