------------------------------ MODULE TcpClient ------------------------------
(***************************************************************************)
(* The network stack of ring 3 as a program sees it: socket.c over tcp.c,  *)
(* ip.c, arp.c and net_poll.c.  It is linked into every program and runs   *)
(* in the program's own calls: a frame is only looked at when a call polls,*)
(* one frame for each poll, for whatever connection it is.                 *)
(*                                                                         *)
(* Outside are the gateway, one remote host whose port the program         *)
(* connects to, and the network, which loses, repeats and reorders.  The   *)
(* remote host is a correct TCP: it keeps within the window, sends again   *)
(* what is not acknowledged, and may reset a connection.                   *)
(*                                                                         *)
(* Data is counted in units; a unit is the name of its connection (the     *)
(* local port) and its sequence number.  Loops of polls keep their counter,*)
(* with fewer turns than the code's 200, 20, 2 and 50.                     *)
(***************************************************************************)
EXTENDS Integers, SequencesExt

CONSTANTS MaxSockets,      \* MAX_SOCKETS
          MaxTcpSockets,   \* MAX_TCP_SOCKETS
          RxSize,          \* TCP_RX_BUF_SIZE, in units
          Window,          \* TCP_WINDOW_SIZE, in units
          MaxSegment,      \* units of a segment of the remote host
          Units(_),        \* what the remote host answers on each connection
          ConnectPolls, SendPolls, RecvPolls, ClosePolls,
          MaxPort,         \* bound: connections
          MaxQueue,        \* bound: segments under way
          MaxFaults        \* bound: losses, repetitions, swaps and resets

ASSUME NetAssumption ==
  /\ MaxSockets \in Nat \ {0} /\ MaxTcpSockets \in Nat \ {0}
  /\ RxSize \in Nat \ {0} /\ Window \in Nat \ {0} /\ MaxSegment \in Nat \ {0}
  /\ MaxPort \in Nat \ {0} /\ MaxQueue \in Nat /\ MaxQueue > 1
  /\ MaxFaults \in Nat /\ \A p \in 1 .. MaxPort : Units(p) \in Nat
  /\ {ConnectPolls, SendPolls, RecvPolls, ClosePolls} \subseteq Nat \ {0}

Socket == 0 .. MaxSockets - 1
Fd == 0 .. MaxTcpSockets - 1
NoFd == -1
Port == 1 .. MaxPort
NoPort == 0

VARIABLES sockets,    \* g_sockets: state, tcp_fd
          socks,      \* g_tcp_socks
          nextPort,   \* g_next_port
          call,       \* the call the program is in
          resolved,   \* the ARP table has the gateway
          up, down,   \* segments to the remote host, and from it
          server,     \* the remote host's end of each connection
          faults,     \* of the network so far
          link, read, ended,     \* of a socket: its connection, what recv gave, recv gave 0
          cut, overtaken, taken  \* ports whose data was cut, whose FIN came early, whose
                                 \* data went to another socket

tables == <<sockets, socks, nextPort>>
network == <<up, down, faults>>
reading == <<link, read, ended>>
mishaps == <<cut, overtaken, taken>>
vars == <<tables, call, resolved, network, server, reading, mishaps>>

\* A slot out of use: the next connect wipes it, and nothing looks at it before.
Unused == [in_use |-> FALSE, port |-> NoPort, state |-> "CLOSED", snd |-> 0, rcv |-> 0,
           rx |-> <<>>, fin |-> FALSE]
NoCall == [op |-> "none", sock |-> 0, fd |-> NoFd, polls |-> 0]
Deaf == [state |-> "listen", expects |-> 0, una |-> 0, nxt |-> 0]

Init == /\ sockets = [s \in Socket |-> [state |-> "FREE", fd |-> NoFd]]
        /\ socks = [fd \in Fd |-> Unused] /\ nextPort = 1
        /\ call = NoCall /\ resolved \in BOOLEAN
        /\ up = <<>> /\ down = <<>> /\ faults = 0
        /\ server = [p \in Port |-> Deaf]
        /\ link = [s \in Socket |-> NoPort] /\ read = [s \in Socket |-> <<>>]
        /\ ended = [s \in Socket |-> FALSE]
        /\ cut = {} /\ overtaken = {} /\ taken = {}

(******************************** segments *********************************)
\* tcp_send_segment: SYN and FIN take a number of their own.
Segment(t, flags, len) ==
  [port |-> t.port, flags |-> flags, seq |-> t.snd, len |-> len, ack |-> t.rcv]
Sent(t, flags, len) ==
  [t EXCEPT !.snd = @ + len + IF flags \cap {"SYN", "FIN"} # {} THEN 1 ELSE 0]

FromServer(p, flags, seq, len) == [port |-> p, flags |-> flags, seq |-> seq, len |-> len]
ArpReply == FromServer(NoPort, {}, 0, 0)

\* Bounds: there is room for what a poll sends, and for what a call does.
Room == Len(up) + 2 <= MaxQueue
RoomForCall == Len(up) < MaxQueue /\ Len(down) < MaxQueue

\* ip_send_packet: without the gateway's address the packet is dropped and an
\* ARP request sent; the callers do not look at its result.
Emits(segments, rest) ==
  IF resolved \/ segments = <<>>
  THEN up' = up \o segments /\ down' = rest
  ELSE UNCHANGED up /\ down' = Append(rest, ArpReply)

(*********************** tcp_process_packet, tcp.c *************************)
\* Mutant of InOrder: any segment that is not older is taken.
NotOlder(t, m) == m.len > 0 /\ m.seq >= t.rcv

InOrder(t, m) == m.len > 0 /\ m.seq = t.rcv

LeastOf(a, b) == IF a < b THEN a ELSE b

\* Mutant of Copied: the room in the buffer is not looked at.
CopiedAll(t, m) == m.len

\* What the buffer has no room for is dropped, and acknowledged all the same.
Copied(t, m) == LeastOf(m.len, RxSize - Len(t.rx))

WithData(t, m) ==
  IF InOrder(t, m)
  THEN [t EXCEPT !.rx = @ \o [k \in 1 .. Copied(t, m) |-> <<m.port, m.seq + k - 1>>],
                 !.rcv = @ + m.len]
  ELSE t

\* A FIN is taken wherever it stands.
WithFin(t, m) ==
  IF "FIN" \in m.flags
  THEN [t EXCEPT !.rcv = m.seq + m.len + 1, !.fin = TRUE, !.state = "CLOSE_WAIT"] ELSE t

Open(t) == t.state \in {"ESTABLISHED", "CLOSE_WAIT"}

\* The number acknowledged is not compared with what was sent.
Received(t, m) ==
  CASE "RST" \in m.flags -> Unused
    [] "RST" \notin m.flags /\ t.state = "SYN_SENT" /\ {"SYN", "ACK"} \subseteq m.flags ->
         [t EXCEPT !.rcv = m.seq + 1, !.state = "ESTABLISHED"]
    [] "RST" \notin m.flags /\ Open(t) -> WithFin(WithData(t, m), m)
    [] "RST" \notin m.flags /\ t.state = "LAST_ACK" /\ "ACK" \in m.flags -> Unused
    [] OTHER -> t

Ack(t) == <<Segment(t, {"ACK"}, 0)>>

\* Mutant of Answers: only data that is new is acknowledged.
AnswersNew(t, m) ==
  IF "RST" \in m.flags THEN <<>>
  ELSE IF t.state = "SYN_SENT" /\ {"SYN", "ACK"} \subseteq m.flags THEN Ack(Received(t, m))
  ELSE IF Open(t)
  THEN (IF InOrder(t, m) THEN Ack(WithData(t, m)) ELSE <<>>)
         \o (IF "FIN" \in m.flags THEN Ack(Received(t, m)) ELSE <<>>)
  ELSE <<>>

\* Data that is not in order is acknowledged again with what is expected.
Answers(t, m) ==
  IF "RST" \in m.flags THEN <<>>
  ELSE IF t.state = "SYN_SENT" /\ {"SYN", "ACK"} \subseteq m.flags THEN Ack(Received(t, m))
  ELSE IF Open(t)
  THEN (IF m.len > 0 THEN Ack(WithData(t, m)) ELSE <<>>)
         \o (IF "FIN" \in m.flags THEN Ack(Received(t, m)) ELSE <<>>)
  ELSE <<>>

\* The connection of a segment, if there is one.
Matching(m) == {fd \in Fd : socks[fd].in_use /\ socks[fd].port = m.port}

Notes(t, m) ==
  /\ cut' = IF Open(t) /\ "RST" \notin m.flags /\ InOrder(t, m) /\ Copied(t, m) < m.len
            THEN cut \cup {m.port} ELSE cut
  /\ overtaken' = IF Open(t) /\ "FIN" \in m.flags /\ m.seq + m.len > WithData(t, m).rcv
                  THEN overtaken \cup {m.port} ELSE overtaken
  /\ UNCHANGED taken

\* net_poll: one frame, if there is one.
Poll ==
  /\ Room
  /\ IF down = <<>> THEN UNCHANGED <<socks, resolved, up, down, mishaps>>
     ELSE LET m == Head(down) IN
       IF m = ArpReply
       THEN resolved' = TRUE /\ down' = Tail(down) /\ UNCHANGED <<socks, up, mishaps>>
       ELSE IF Matching(m) = {} THEN down' = Tail(down) /\ UNCHANGED <<socks, resolved, up, mishaps>>
       ELSE LET fd == CHOOSE x \in Matching(m) : TRUE
            IN /\ socks' = [socks EXCEPT ![fd] = Received(@, m)]
               /\ Emits(Answers(socks[fd], m), Tail(down))
               /\ Notes(socks[fd], m)
               /\ UNCHANGED resolved

(******************************* the calls *********************************)
Idle == call = NoCall
Done == call' = NoCall
Turn == call' = [call EXCEPT !.polls = @ - 1]
In(op) == call.op = op
Slot == socks[call.fd]

\* socket
Creates(s) ==
  /\ Idle /\ sockets[s].state = "FREE"
  /\ \A x \in Socket : x < s => sockets[x].state # "FREE"
  /\ sockets' = [sockets EXCEPT ![s] = [state |-> "CREATED", fd |-> NoFd]]
  /\ UNCHANGED <<socks, nextPort, call, resolved, network, server, reading, mishaps>>

FreeFd == {fd \in Fd : ~socks[fd].in_use}

\* tcp_connect, up to its loop. Without a free slot it fails at once.
Connects(s) ==
  /\ Idle /\ RoomForCall /\ sockets[s].state = "CREATED" /\ nextPort \in Port /\ FreeFd # {}
  /\ LET fd == CHOOSE x \in FreeFd : \A y \in FreeFd : x <= y
         t == [Unused EXCEPT !.in_use = TRUE, !.port = nextPort, !.state = "SYN_SENT"]
     IN /\ socks' = [socks EXCEPT ![fd] = Sent(t, {"SYN"}, 0)]
        /\ Emits(<<Segment(t, {"SYN"}, 0)>>, down)
        /\ call' = [op |-> "connect", sock |-> s, fd |-> fd, polls |-> ConnectPolls]
  /\ nextPort' = nextPort + 1
  /\ UNCHANGED <<sockets, resolved, faults, server, reading, mishaps>>

ConnectPoll ==
  /\ In("connect") /\ call.polls > 0 /\ Poll
  /\ LET t == socks'[call.fd] IN
       \/ /\ t.state = "ESTABLISHED" /\ Done
          /\ sockets' = [sockets EXCEPT ![call.sock] = [state |-> "CONNECTED", fd |-> call.fd]]
          /\ link' = [link EXCEPT ![call.sock] = t.port] /\ UNCHANGED <<read, ended>>
       \/ t.state = "CLOSED" /\ Done /\ UNCHANGED <<sockets, reading>>
       \/ t.state \notin {"ESTABLISHED", "CLOSED"} /\ Turn /\ UNCHANGED <<sockets, reading>>
  /\ UNCHANGED <<nextPort, faults, server>>

\* Mutant of ConnectTimesOut: the slot is not given back.
ConnectTimesOutKeeps ==
  /\ In("connect") /\ call.polls = 0 /\ Done
  /\ UNCHANGED <<tables, resolved, network, server, reading, mishaps>>

ConnectTimesOut ==
  /\ In("connect") /\ call.polls = 0 /\ Done
  /\ socks' = [socks EXCEPT ![call.fd] = Unused]
  /\ UNCHANGED <<sockets, nextPort, resolved, network, server, reading, mishaps>>

Connected(s) == sockets[s].state = "CONNECTED"
Calls(s, op, polls) ==
  Idle /\ Connected(s) /\ call' = [op |-> op, sock |-> s, fd |-> sockets[s].fd, polls |-> polls]

\* tcp_send of a request of one segment (bound: one for each connection). It
\* answers the whole length whatever becomes of the segment.
Sends(s) ==
  /\ Calls(s, "send", SendPolls) /\ RoomForCall
  /\ LET t == socks[sockets[s].fd]
     IN /\ t.in_use /\ t.state = "ESTABLISHED" /\ t.snd = 1
        /\ socks' = [socks EXCEPT ![sockets[s].fd] = Sent(t, {"PSH", "ACK"}, 1)]
        /\ Emits(<<Segment(t, {"PSH", "ACK"}, 1)>>, down)
  /\ UNCHANGED <<sockets, nextPort, resolved, faults, server, reading, mishaps>>

SendPoll ==
  /\ In("send") /\ Poll
  /\ IF call.polls > 1 THEN Turn ELSE Done
  /\ UNCHANGED <<sockets, nextPort, faults, server, reading>>

\* tcp_recv
Recvs(s) ==
  /\ Calls(s, "recv", RecvPolls) /\ socks[sockets[s].fd].in_use
  /\ UNCHANGED <<tables, resolved, network, server, reading, mishaps>>

RecvPoll ==
  /\ In("recv") /\ Slot.rx = <<>> /\ ~Slot.fin /\ call.polls > 0
  /\ Poll /\ Turn
  /\ UNCHANGED <<sockets, nextPort, faults, server, reading>>

\* It gives up, with -1.
RecvTimesOut ==
  /\ In("recv") /\ Slot.rx = <<>> /\ ~Slot.fin /\ call.polls = 0
  /\ Done
  /\ UNCHANGED <<tables, resolved, network, server, reading, mishaps>>

\* Mutant of RecvEnds: the end is told before the buffer is empty.
RecvEndsEarly ==
  /\ In("recv") /\ Slot.fin /\ Done
  /\ ended' = [ended EXCEPT ![call.sock] = TRUE]
  /\ UNCHANGED <<tables, resolved, network, server, link, read, mishaps>>

\* It answers 0.
RecvEnds ==
  /\ In("recv") /\ Slot.rx = <<>> /\ Slot.fin /\ Done
  /\ ended' = [ended EXCEPT ![call.sock] = TRUE]
  /\ UNCHANGED <<tables, resolved, network, server, link, read, mishaps>>

RecvTakes ==
  /\ In("recv") /\ Slot.rx # <<>> /\ Done
  /\ \E n \in 1 .. Len(Slot.rx) :
       /\ read' = [read EXCEPT ![call.sock] = @ \o SubSeq(Slot.rx, 1, n)]
       /\ socks' = [socks EXCEPT ![call.fd].rx = SubSeq(@, n + 1, Len(@))]
  /\ taken' = IF Slot.port = link[call.sock] THEN taken ELSE taken \cup {Slot.port}
  /\ UNCHANGED <<sockets, nextPort, resolved, network, server, link, ended, cut, overtaken>>

\* tcp_close of an open connection, up to its loop.
ClosesOpen(s) ==
  /\ Calls(s, "close", ClosePolls) /\ RoomForCall
  /\ LET t == socks[sockets[s].fd]
     IN /\ t.in_use /\ Open(t)
        /\ socks' = [socks EXCEPT ![sockets[s].fd] =
                       [Sent(t, {"FIN", "ACK"}, 0) EXCEPT !.state = "LAST_ACK"]]
        /\ Emits(<<Segment(t, {"FIN", "ACK"}, 0)>>, down)
  /\ UNCHANGED <<sockets, nextPort, resolved, faults, server, reading, mishaps>>

Freed(s) == /\ sockets' = [sockets EXCEPT ![s] = [state |-> "FREE", fd |-> NoFd]]
            /\ link' = [link EXCEPT ![s] = NoPort] /\ read' = [read EXCEPT ![s] = <<>>]
            /\ ended' = [ended EXCEPT ![s] = FALSE]

ClosePoll ==
  /\ In("close") /\ call.polls > 0 /\ Poll
  /\ IF socks'[call.fd].in_use THEN Turn /\ UNCHANGED <<sockets, reading>>
     ELSE Done /\ Freed(call.sock)
  /\ UNCHANGED <<nextPort, faults, server>>

CloseTimesOut ==
  /\ In("close") /\ call.polls = 0 /\ Done /\ Freed(call.sock)
  /\ socks' = [socks EXCEPT ![call.fd] = Unused]
  /\ UNCHANGED <<nextPort, resolved, network, server, mishaps>>

\* close of a socket that has no connection, or no more.
ClosesIdle(s) ==
  /\ Idle /\ sockets[s].state # "FREE"
  /\ Connected(s) => ~socks[sockets[s].fd].in_use
  /\ Freed(s)
  /\ UNCHANGED <<socks, nextPort, call, resolved, network, server, mishaps>>

(***************************** the remote host *****************************)
Heard(v, m) ==
  IF "SYN" \in m.flags
  THEN IF v.state = "listen" THEN [v EXCEPT !.state = "syn", !.expects = 1] ELSE v
  ELSE IF v.state \in {"syn", "open"}
  THEN [v EXCEPT !.state = "open",
                 !.una = IF m.ack > @ THEN m.ack ELSE @,
                 !.expects = IF m.seq = @ THEN @ + m.len + (IF "FIN" \in m.flags THEN 1 ELSE 0)
                             ELSE @]
  ELSE v

ServerHears ==
  /\ up # <<>>
  /\ LET m == Head(up)
         v == server[m.port]
     IN /\ server' = [server EXCEPT ![m.port] = Heard(v, m)]
        /\ down' = IF "FIN" \in m.flags /\ v.state \in {"syn", "open"} /\ Len(down) < MaxQueue
                   THEN Append(down, FromServer(m.port, {"ACK"}, v.nxt, 0)) ELSE down
  /\ up' = Tail(up)
  /\ UNCHANGED <<tables, call, resolved, faults, reading, mishaps>>

\* From number n on: the SYN, data with or without the FIN behind it, the FIN.
Sendable(p, n) ==
  CASE n = 0 -> {FromServer(p, {"SYN", "ACK"}, 0, 0)}
    [] n \in 1 .. Units(p) ->
         {FromServer(p, f, n, len) : f \in {{"ACK"}, {"ACK", "FIN"}}, len \in 1 .. MaxSegment}
    [] OTHER -> {FromServer(p, {"ACK", "FIN"}, Units(p) + 1, 0)}

Behind(m) == m.seq + m.len + IF m.flags \cap {"SYN", "FIN"} # {} THEN 1 ELSE 0

Fitting(p, m) ==
  /\ m.len > 0 => m.seq + m.len - 1 <= LeastOf(Units(p), server[p].una + Window - 1)
  /\ m.len > 0 /\ "FIN" \in m.flags => m.seq + m.len - 1 = Units(p)

\* The program has not left the connection (bound: what the remote host goes on
\* sending to one it has, Matching drops).
Live(p) == \E fd \in Fd : socks[fd].in_use /\ socks[fd].port = p

\* It answers when it has the request.
Talks(p) == \/ server[p].state = "syn" /\ server[p].nxt = 0
            \/ server[p].state = "open" /\ server[p].expects >= 2 /\ server[p].nxt <= Units(p) + 1

ServerSends(p) ==
  /\ Talks(p) /\ Live(p) /\ Len(down) < MaxQueue
  /\ \E m \in Sendable(p, server[p].nxt) :
       /\ Fitting(p, m)
       /\ down' = Append(down, m)
       /\ server' = [server EXCEPT ![p].nxt = Behind(m)]
  /\ UNCHANGED <<tables, call, resolved, up, faults, reading, mishaps>>

\* Its timer goes off when nothing is under way any more (it runs much longer
\* than a call).
ServerResends(p) ==
  /\ up = <<>> /\ down = <<>> /\ Live(p)
  /\ server[p].state \in {"syn", "open"} /\ server[p].una < server[p].nxt
  /\ \E m \in Sendable(p, server[p].una) :
       Fitting(p, m) /\ Behind(m) <= server[p].nxt /\ down' = <<m>>
  /\ UNCHANGED <<tables, call, resolved, up, server, faults, reading, mishaps>>

ServerResets(p) ==
  /\ faults < MaxFaults /\ Len(down) < MaxQueue /\ Live(p) /\ server[p].state \in {"syn", "open"}
  /\ server' = [server EXCEPT ![p].state = "gone"]
  /\ down' = Append(down, FromServer(p, {"RST"}, server[p].nxt, 0)) /\ faults' = faults + 1
  /\ UNCHANGED <<tables, call, resolved, up, reading, mishaps>>

(******************************* the network *******************************)
Damaged(q) == {RemoveAt(q, k) : k \in 1 .. Len(q)}
                \cup {Append(q, q[k]) : k \in 1 .. IF Len(q) < MaxQueue THEN Len(q) ELSE 0}
                \cup {InsertAt(RemoveAt(q, 1), k, q[1]) : k \in 2 .. Len(q)}

Fault ==
  /\ faults < MaxFaults /\ faults' = faults + 1
  /\ \/ up' \in Damaged(up) /\ UNCHANGED down
     \/ down' \in Damaged(down) /\ UNCHANGED up
  /\ UNCHANGED <<tables, call, resolved, server, reading, mishaps>>

(******************************** the system *******************************)
Call(s) == Creates(s) \/ Connects(s) \/ Sends(s) \/ Recvs(s) \/ ClosesOpen(s) \/ ClosesIdle(s)

Step == \/ ConnectPoll \/ ConnectTimesOut \/ SendPoll
        \/ RecvPoll \/ RecvTimesOut \/ RecvEnds \/ RecvTakes
        \/ ClosePoll \/ CloseTimesOut

Server(p) == ServerSends(p) \/ ServerResends(p)

Next == \/ \E s \in Socket : Call(s)
        \/ Step \/ ServerHears
        \/ \E p \in Port : Server(p) \/ ServerResets(p)
        \/ Fault

\* A call goes on, the remote host works (on each connection, whatever it sends
\* again on another), and a program that has a socket with something to read
\* comes back to it; nothing makes it call anything else.
Fairness == /\ WF_vars(Step) /\ WF_vars(ServerHears)
            /\ \A p \in Port : SF_vars(Server(p))
            /\ \A s \in Socket : SF_vars(Recvs(s))

Spec == Init /\ [][Next]_vars /\ Fairness

(******************************** properties *******************************)
Conn == [in_use : BOOLEAN, port : Port \cup {NoPort},
         state : {"CLOSED", "SYN_SENT", "ESTABLISHED", "CLOSE_WAIT", "LAST_ACK"},
         snd : Nat, rcv : Nat, rx : Seq(Port \X Nat), fin : BOOLEAN]

TypeOK ==
  /\ sockets \in [Socket -> [state : {"FREE", "CREATED", "CONNECTED"}, fd : Fd \cup {NoFd}]]
  /\ socks \in [Fd -> Conn] /\ \A fd \in Fd : Len(socks[fd].rx) <= RxSize
  /\ nextPort \in 1 .. MaxPort + 1
  /\ call \in [op : {"none", "connect", "send", "recv", "close"}, sock : Socket,
               fd : Fd \cup {NoFd}, polls : Nat]
  /\ resolved \in BOOLEAN /\ faults \in 0 .. MaxFaults
  /\ Len(up) <= MaxQueue /\ Len(down) <= MaxQueue
  /\ link \in [Socket -> Port \cup {NoPort}] /\ read \in [Socket -> Seq(Port \X Nat)]
  /\ ended \in [Socket -> BOOLEAN]

\* A socket whose connection was reset still holds the number of its slot, which
\* the next connect takes.
Stale(s) == Connected(s) /\ socks[sockets[s].fd].port # link[s]

\* The answer the remote host gave on a connection.
Answer(p) == [k \in 1 .. Units(p) |-> <<p, k>>]

\* What recv gave a socket's owner is the beginning of what the remote host sent
\* on the connection that socket made, each unit once and in order, whatever is
\* lost, repeated or late, and whatever slot the connection had before. Two ways
\* out are known: data cut for want of room in rx_buf, and a socket whose
\* connection was reset, which keeps the number of a slot that is given away.
StreamExact ==
  \A s \in Socket : link[s] # NoPort /\ ~Stale(s) /\ link[s] \notin cut \cup taken =>
    IsPrefix(read[s], Answer(link[s]))

\* recv tells the end (0) only when the owner has read the whole answer, unless
\* the FIN was taken without the data in front of it: out of order, or in a
\* segment sent again whose first part was there already.
EndIsEnd ==
  \A s \in Socket : ended[s] /\ ~Stale(s) /\ link[s] \notin cut \cup taken \cup overtaken =>
    read[s] = Answer(link[s])

\* Slots are not lost: one that is in use is some socket's, or that of the
\* connect under way; so MAX_TCP_SOCKETS bounds open connections only.
SlotsFreed ==
  \A fd \in Fd : socks[fd].in_use =>
    \/ \E s \in Socket : Connected(s) /\ sockets[s].fd = fd
    \/ In("connect") /\ call.fd = fd

\* Once the remote host has the request, a program that goes on reading gets
\* the whole answer and its end, however often segments were lost before, unless
\* it closes or the remote host resets the connection.
Asked(s) == link[s] # NoPort /\ server[link[s]].expects >= 2
Finished(s) == \/ ended[s] \/ ~Connected(s) \/ Stale(s) \/ In("close")
               \/ server[link[s]].state = "gone"
               \/ link[s] \in cut \cup taken \cup overtaken

Answered == \A s \in Socket : Asked(s) ~> Finished(s)
=============================================================================
