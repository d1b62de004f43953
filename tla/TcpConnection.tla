---------------------------- MODULE TcpConnection ----------------------------
(***************************************************************************)
(* One TCP connection between two hosts that both run the daemon of        *)
(* src/test/tcp_protocol_stack.c: the client connects, the server accepts, *)
(* both applications write, read and close, the network loses segments,    *)
(* and each socket's TCPTimeout thread ticks.                              *)
(*                                                                         *)
(* A daemon handles segments, requests and timer ticks under socket_mutex, *)
(* so each is one step.  Segments between the hosts arrive in order or not *)
(* at all.  An application makes one call at a time.  Byte k of its stream *)
(* is the number k, so that what arrives tells which byte it is.           *)
(***************************************************************************)
EXTENDS TcpSocket

CONSTANTS
    Client, Server,
    StreamLength,       \* bytes each application writes before it is done
    WriteLen, ReadLen,  \* the length applications pass to write and read
    Readers,            \* the hosts whose application reads
    Closers,            \* the hosts whose application closes at the end
    Losses,             \* bound: segments the network may lose
    LossScope,          \* which segments: "data", "synchronized" or "any"
    PatientTimers       \* TRUE: timers tick in turn, only when nothing is under way

Hosts == {Client, Server}

ASSUME ConnectionAssumption ==
    /\ Client # Server
    /\ StreamLength \in [Hosts -> Nat]
    /\ {WriteLen, ReadLen} \subseteq Nat \ {0}
    /\ Readers \subseteq Hosts /\ Closers \subseteq Hosts
    /\ Losses \in Nat
    /\ LossScope \in {"data", "synchronized", "any"}
    /\ PatientTimers \in BOOLEAN

VARIABLES
    sock,       \* the data socket of each host, FreeSocket when there is none
    net,        \* the segments on their way to each host
    listener,   \* the server's listening socket: who waits, is accept blocked
    app,        \* where each application is in its use of the connection
    call,       \* the call each application is blocked in, or "none"
    written,    \* bytes of each application's stream its daemon has taken
    got,        \* the bytes each application has read
    linger,     \* sleeping freeSocket_pthread threads of each host
    down,       \* hosts whose daemon "crashed" or "blocked" for ever, or "no"
    lost,       \* segments lost so far
    ticked      \* the hosts whose timer ticked last, when they take turns

vars == <<sock, net, listener, app, call, written, got, linger, down, lost, ticked>>

Peer(h) == IF h = Client THEN Server ELSE Client

-----------------------------------------------------------------------------
(***************************************************************************)
(* What a routine of host h with effect e does to the world, the call of   *)
(* the application being c.  The first answer ends that call.  For an      *)
(* answer nobody waits for, the daemon blocks in open(response_pipe,       *)
(* O_WRONLY) with socket_mutex held.                                       *)
(***************************************************************************)
AppAfter(h, c, answer) ==
    IF c = "close" THEN "closed"
    ELSE IF answer < 0 THEN "error"
    ELSE IF c \in {"connect", "accept"} THEN "open"
    ELSE IF c = "read" /\ answer = 0 THEN "eof"
    ELSE app[h]

Apply(h, e, c) ==
    LET answered == c # "none" /\ e.rep # <<>> IN
    /\ sock' = [sock EXCEPT ![h] = e.s]
    /\ written' = [written EXCEPT ![h] = @ + e.took]
    /\ got' = [got EXCEPT ![h] = @ \o e.gave]
    /\ linger' = [linger EXCEPT ![h] = @ + e.frees]
    /\ call' = [call EXCEPT ![h] = IF answered THEN "none" ELSE c]
    /\ app' = [app EXCEPT ![h] =
                   IF answered THEN AppAfter(h, c, Head(e.rep)) ELSE @]
    /\ down' = [down EXCEPT ![h] =
                   IF Len(e.rep) > (IF c = "none" THEN 0 ELSE 1)
                   THEN "blocked" ELSE @]

\* What host h sends joins the segments on their way to the peer.
Sends(h, e) == [net EXCEPT ![Peer(h)] = @ \o e.sent]

Running(h) == down[h] = "no"

-----------------------------------------------------------------------------
\* A bound and listening socket of the server, a fresh one of the client.
Init ==
    /\ sock = [h \in Hosts |-> FreeSocket]
    /\ net = [h \in Hosts |-> <<>>]
    /\ listener = [waiting |-> <<>>, accepting |-> FALSE]
    /\ app = [h \in Hosts |-> "new"]
    /\ call = [h \in Hosts |-> "none"]
    /\ written = [h \in Hosts |-> 0]
    /\ got = [h \in Hosts |-> <<>>]
    /\ linger = [h \in Hosts |-> 0]
    /\ down = [h \in Hosts |-> "no"]
    /\ lost = 0
    /\ ticked = {}

\* An application of h that is free to make its next call.
Ready(h, states) == Running(h) /\ call[h] = "none" /\ app[h] \in states

CanWriteNow(h) == Ready(h, {"open"}) /\ written[h] < StreamLength[h]
CanReadNow(h) == h \in Readers /\ Ready(h, {"open"})
CanCloseNow(h) == /\ h \in Closers
                  /\ \/ Ready(h, {"eof", "error"})
                     \/ Ready(h, {"open"}) /\ written[h] = StreamLength[h]

AppConnect ==
    /\ Ready(Client, {"new"})
    /\ Apply(Client, Connect, "connect")
    /\ net' = Sends(Client, Connect)
    /\ UNCHANGED <<listener, lost, ticked>>

\* TCPAccept for the connection at the head of the waiting list; every other
\* entry of the same client, from a repeated SYN, goes with it.
Accept(rcv_nxt, inbound) ==
    /\ Apply(Server, TCPAccept(rcv_nxt), "accept")
    /\ net' = [net EXCEPT ![Server] = inbound,
                          ![Client] = @ \o TCPAccept(rcv_nxt).sent]
    /\ listener' = [waiting |-> <<>>, accepting |-> FALSE]

\* OPT_ACCEPT
AppAccept ==
    /\ Ready(Server, {"new"})
    /\ IF listener.waiting # <<>>
       THEN Accept(Head(listener.waiting), net[Server])
       ELSE /\ listener' = [listener EXCEPT !.accepting = TRUE]
            /\ call' = [call EXCEPT ![Server] = "accept"]
            /\ UNCHANGED <<sock, net, app, written, got, linger, down>>
    /\ UNCHANGED <<lost, ticked>>

AppCall(h, effect, c) ==
    /\ \E e \in {effect} : Apply(h, e, c) /\ net' = Sends(h, e)
    /\ UNCHANGED <<listener, lost, ticked>>

AppWrite(h) ==
    /\ CanWriteNow(h)
    /\ LET n == AtMost(WriteLen, StreamLength[h] - written[h])
           data == [k \in 1 .. n |-> written[h] + k]
       IN  AppCall(h, Write(sock[h], data), "write")

AppRead(h) ==
    /\ CanReadNow(h)
    /\ AppCall(h, Read(sock[h], ReadLen), "read")

AppClose(h) ==
    /\ CanCloseNow(h)
    /\ AppCall(h, Close(sock[h]), "close")

-----------------------------------------------------------------------------
\* IPCallback hands a segment to TCPCallback, which finds the data socket.
DeliverToSocket(h) ==
    /\ net[h] # <<>> /\ Running(h) /\ sock[h].valid
    /\ \E e \in {TCPCallback(sock[h], Head(net[h]))} :
           /\ Apply(h, e, call[h])
           /\ net' = [net EXCEPT ![h] = Tail(@), ![Peer(h)] = @ \o e.sent]
    /\ UNCHANGED <<listener, lost, ticked>>

\* A SYN for the listening socket: the connection waits, or is accepted at
\* once when the application is blocked in accept (WaitTCPAccept).
DeliverToListener ==
    /\ net[Server] # <<>> /\ Running(Server) /\ ~sock[Server].valid
    /\ LET seg == Head(net[Server]) IN
       /\ seg.syn
       /\ IF listener.accepting
          THEN Accept(seg.seq + 1, Tail(net[Server]))
          ELSE /\ listener' = [listener EXCEPT !.waiting = <<seg.seq + 1>>]
               /\ net' = [net EXCEPT ![Server] = Tail(@)]
               /\ UNCHANGED <<sock, app, call, written, got, linger, down>>
    /\ UNCHANGED <<lost, ticked>>

\* A SYNACK for a client socket that was freed: nothing is bound to the port
\* any more, and the segment is written to sockets[0 - MAX_PORT_NUM].
DeliverToNobody ==
    /\ net[Client] # <<>> /\ Running(Client) /\ ~sock[Client].valid
    /\ Head(net[Client]).syn
    /\ net' = [net EXCEPT ![Client] = Tail(@)]
    /\ down' = [down EXCEPT ![Client] = "crashed"]
    /\ UNCHANGED <<sock, listener, app, call, written, got, linger, lost, ticked>>

\* Anything else is dropped.
DeliverInVain(h) ==
    /\ net[h] # <<>>
    /\ ~Running(h) \/ (~sock[h].valid /\ ~Head(net[h]).syn)
    /\ net' = [net EXCEPT ![h] = Tail(@)]
    /\ UNCHANGED <<sock, listener, app, call, written, got, linger, down, lost, ticked>>

Deliver(h) ==
    \/ DeliverToSocket(h)
    \/ h = Server /\ DeliverToListener
    \/ h = Client /\ DeliverToNobody
    \/ DeliverInVain(h)

\* The link drops a segment: only ones with data, any but the ACK that ends
\* the handshake, or any.
Losable(h, seg) ==
    CASE LossScope = "data" -> seg.data # <<>>
      [] LossScope = "synchronized" -> sock[h].state # "SYN_RECV"
      [] LossScope = "any" -> TRUE

Lose(h) ==
    /\ net[h] # <<>> /\ lost < Losses
    /\ Losable(h, Head(net[h]))
    /\ net' = [net EXCEPT ![h] = Tail(@)]
    /\ lost' = lost + 1
    /\ UNCHANGED <<sock, listener, app, call, written, got, linger, down, ticked>>

\* Nothing is under way: the network is empty and no application is about to
\* make a call.
Quiet ==
    \A h \in Hosts :
        /\ net[h] = <<>>
        /\ ~Ready(h, {"new"}) /\ ~CanWriteNow(h)
        /\ ~CanReadNow(h) /\ ~CanCloseNow(h)

TimerRuns(h) == Running(h) /\ sock[h].timer

\* An iteration of the TCPTimeout thread.  Patient timers keep the pace of
\* the clock: the hosts take turns.
Tick(h) ==
    /\ TimerRuns(h)
    /\ PatientTimers => Quiet /\ (h \in ticked => ~TimerRuns(Peer(h)))
    /\ ticked' = IF PatientTimers THEN {h} ELSE {}
    /\ \E e \in {TCPTimeout(sock[h])} :
           Apply(h, e, call[h]) /\ net' = Sends(h, e)
    /\ UNCHANGED <<listener, lost>>

\* freeSocket_pthread wakes up.  When the slot has been freed already its
\* sock_id is 0 and free_socket writes outside of sockets.
LingerEnds(h) ==
    /\ Running(h) /\ linger[h] > 0
    /\ linger' = [linger EXCEPT ![h] = @ - 1]
    /\ sock' = [sock EXCEPT ![h] = FreeSocket]
    /\ down' = [down EXCEPT ![h] = IF sock[h].valid THEN @ ELSE "crashed"]
    /\ UNCHANGED <<net, listener, app, call, written, got, lost, ticked>>

\* The connection is over: nothing is left to do on either side.
Done ==
    /\ \A h \in Hosts :
           /\ net[h] = <<>> /\ linger[h] = 0
           /\ ~Ready(h, {"new"}) /\ ~CanWriteNow(h)
           /\ ~CanReadNow(h) /\ ~CanCloseNow(h)
           /\ ~TimerRuns(h)
    /\ UNCHANGED vars

\* The application of h makes its next call.
AppCalls(h) ==
    \/ h = Client /\ AppConnect
    \/ h = Server /\ AppAccept
    \/ AppWrite(h) \/ AppRead(h) \/ AppClose(h)

Next ==
    \/ \E h \in Hosts :
           AppCalls(h) \/ Deliver(h) \/ Lose(h) \/ Tick(h) \/ LingerEnds(h)
    \/ Done

Spec == Init /\ [][Next]_vars

\* The applications, the links and the threads of the daemons keep going.
\* Losing a segment is never required.
Fairness ==
    \A h \in Hosts : /\ WF_vars(AppCalls(h)) /\ WF_vars(Deliver(h))
                     /\ WF_vars(Tick(h)) /\ WF_vars(LingerEnds(h))

FairSpec == Spec /\ Fairness

-----------------------------------------------------------------------------
(***************************************************************************)
(* Properties.                                                             *)
(***************************************************************************)
Calls == {"none", "connect", "accept", "read", "write", "close"}

Byte == 1 .. (StreamLength[Client] + StreamLength[Server])

SocketType ==
    [valid : BOOLEAN, state : States, fin_state : FinStates,
     snd_una : Nat, snd_nxt : Nat, rcv_nxt : Nat, peer_window_size : Nat,
     input : Seq(Byte), output : Seq(Byte),
     read_flag : BOOLEAN, read_len : Nat,
     write_flag : BOOLEAN, write_pipe : Seq(Byte),
     fin_tag : BOOLEAN, callback : BOOLEAN,
     timer : BOOLEAN, timeout : Nat, reset_time : Nat]

SegmentType ==
    [syn : BOOLEAN, ack : BOOLEAN, fin : BOOLEAN, seq : Nat, ack_seq : Nat,
     window : 0 .. InCapacity, data : Seq(Byte)]

\* The variables keep their types; in particular the window a segment
\* advertises and the two ring buffers stay within their capacities
\* (push_ring_buffer never refuses, ring_buffer.c:28-39).
TypeOK ==
    /\ sock \in [Hosts -> SocketType]
    /\ \A h \in Hosts : /\ Len(sock[h].input) <= InCapacity
                        /\ Len(sock[h].output) <= OutCapacity
    /\ net \in [Hosts -> Seq(SegmentType)]
    /\ listener \in [waiting : Seq(Nat), accepting : BOOLEAN]
    /\ app \in [Hosts -> {"new", "open", "eof", "error", "closed"}]
    /\ call \in [Hosts -> Calls]
    /\ written \in [Hosts -> Nat] /\ got \in [Hosts -> Seq(Byte)]
    /\ linger \in [Hosts -> Nat]
    /\ down \in [Hosts -> {"no", "blocked", "crashed"}]
    /\ lost \in 0 .. Losses
    /\ ticked \subseteq Hosts

\* The two applications see a reliable byte stream in each direction: the
\* daemons, the rings, the retransmissions and the resets implement it.
Stream == INSTANCE ByteStream
ImplementsStream == Stream!Spec

Established(h) == sock[h].valid /\ sock[h].state = "ESTABLISHED"

\* The first byte of a stream has this sequence number.
First == ISS + 1

\* What an application has read is the beginning of what its peer has
\* written: no byte is lost, repeated or out of place, whatever is lost and
\* sent again below (TCPCallback, processSend, TCPTimeout).
StreamIntegrity ==
    \A h \in Hosts :
        /\ Len(got[Peer(h)]) <= written[h]
        /\ \A k \in 1 .. Len(got[Peer(h)]) : got[Peer(h)][k] = k

\* Every byte is accounted for on both sides of a socket: written is
\* acknowledged plus held for sending; received is read plus held for
\* reading, up to rcv_nxt.  The sender keeps what its peer's socket has not
\* taken yet, and never counts on more than it sent.
BytesAccounted ==
    \A h \in Hosts : Established(h) =>
        LET s == sock[h]  p == sock[Peer(h)] IN
        /\ written[h] = (s.snd_una - First) + Len(s.output)
        /\ s.rcv_nxt = First + Len(got[h]) + Len(s.input)
        /\ Established(Peer(h)) =>
               s.snd_una <= p.rcv_nxt /\ p.rcv_nxt <= First + written[h]

\* Flow control: whatever is on its way and next in sequence fits into the
\* receiver's input buffer, so that TCPCallback never has to cut a payload.
NothingSentTooMuch ==
    \A h \in Hosts : Established(h) =>
        \A i \in DOMAIN net[h] :
            LET seg == net[h][i] IN
            seg.data # <<>> =>
                seg.seq + Len(seg.data) <= sock[h].rcv_nxt + InFree(sock[h])

\* close sends its FIN only when the peer's stack has taken the whole stream
\* (processWriteSend waits for the output buffer to drain).
CloseFlushes ==
    \A h \in Hosts :
        sock[h].fin_state \in {"FIN_WAIT1", "FIN_WAIT2"} /\ Established(Peer(h))
        => /\ sock[h].output = <<>>
           /\ sock[Peer(h)].rcv_nxt = First + written[h]

\* The daemon answers a call exactly when there is one: it never blocks on a
\* response pipe nobody reads, and a blocked connect, read or write always
\* leaves its mark in a live socket, so that something can still answer it.
CallsTracked ==
    \A h \in Hosts :
        /\ down[h] # "blocked"
        /\ Running(h) =>
            /\ (call[h] = "read") = sock[h].read_flag
            /\ (call[h] = "write") = sock[h].write_flag
            /\ call[h] = "connect" => sock[h].state = "SYN_SENT" /\ sock[h].callback
            /\ sock[h].fin_tag => call[h] = "close"

\* The thread that frees a socket three seconds after the last FIN finds the
\* socket it was started for, and is the only one (freeSocket_pthread).
OneDeferredFree ==
    \A h \in Hosts :
        /\ linger[h] <= 1
        /\ linger[h] = 1 => sock[h].valid /\ sock[h].fin_state = "FIN_WAIT2"

\* While a connection lives its numbers only move forward: nothing that was
\* acknowledged is sent again, nothing that was received is taken twice.
NumbersMoveForward ==
    [][\A h \in Hosts : Established(h) /\ sock[h]'.valid =>
           /\ sock[h]'.snd_una >= sock[h].snd_una
           /\ sock[h]'.rcv_nxt >= sock[h].rcv_nxt
           /\ sock[h]'.snd_nxt >= sock[h]'.snd_una]_vars

-----------------------------------------------------------------------------
\* Every byte an application wants to write reaches the socket of the reader
\* on the other side, although segments with data are lost (TCPTimeout sends
\* them again).
Arrival ==
    \A h \in Hosts : Peer(h) \in Readers =>
        <>(Len(got[Peer(h)]) + Len(sock[Peer(h)].input) = StreamLength[h])

\* A blocked connect, read or write is answered.
CallsAnswered ==
    \A h \in Hosts :
        call[h] \in {"connect", "read", "write"} ~> call[h] = "none"

\* After the close both sockets are freed and stay free.
SocketsReleased == <>[](\A h \in Hosts : sock[h] = FreeSocket)

\* The end of the stream is reported to a reader that has read all of it.
EofAfterEverything ==
    \A h \in Hosts : app[h] = "eof" => Len(got[h]) = written[Peer(h)]

\* A socket that sends the last FIN has nothing left to send.
LastFinAfterEverything ==
    \A h \in Hosts : sock[h].fin_state = "LAST_ACK" => sock[h].output = <<>>
=============================================================================
