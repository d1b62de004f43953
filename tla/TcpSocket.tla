------------------------------ MODULE TcpSocket ------------------------------
(***************************************************************************)
(* The data socket of the TCP daemon, src/test/tcp_protocol_stack.c: what  *)
(* each routine does to a struct socket_info_t, and what it sends and      *)
(* answers on the way.  A routine is an operator on an effect record e:    *)
(*                                                                         *)
(*   e.s     the socket_info_t                                             *)
(*   e.sent  the segments handed to sendIPPacket so far, in order          *)
(*   e.rep   the numbers written to the socket's response pipe             *)
(*   e.took  the bytes taken from the write pipe                           *)
(*   e.gave  the bytes written to the read pipe                            *)
(*   e.frees freeSocket_pthread threads started                            *)
(*                                                                         *)
(* All of these run under socket_mutex, so one operator is one atomic      *)
(* step.  The ring buffers are the bounded queues RingBuffer implements.   *)
(* Sequence numbers are naturals: the wrap of uint32_t is not modelled.    *)
(***************************************************************************)
EXTENDS Integers, Sequences

CONSTANTS
    InCapacity,     \* RING_BUFFER_SIZE - 1
    OutCapacity,    \* WRITE_RING_BUFFER_SIZE - 1
    MSS,            \* MAX_SEGMENT_LENGTH
    TimeoutTicks,   \* iterations of TCPTimeout before it resends (15)
    MaxResets       \* timeouts in a row before it gives up (3)

ASSUME SocketAssumption ==
    {InCapacity, OutCapacity, MSS, TimeoutTicks, MaxResets} \subseteq Nat \ {0}

\* enum of socket_info_t.state reached by a data socket, and fin_state
States == {"CLOSE", "SYN_SENT", "SYN_RECV", "ESTABLISHED"}
FinStates == {"NONE", "FIN_WAIT1", "FIN_WAIT2", "TIME_WAIT", "CLOSE_WAIT",
              "LAST_ACK"}

\* -errno values
ENOTSOCK == -1
EINVAL == -2
ECONNRESET == -3

ISS == 1    \* iss is the constant 1 in the code

AtMost(a, b) == IF a < b THEN a ELSE b

\* memset(s, 0, sizeof(struct socket_info_t)): the freed slot.
FreeSocket ==
    [valid |-> FALSE, state |-> "CLOSE", fin_state |-> "NONE",
     snd_una |-> 0, snd_nxt |-> 0, rcv_nxt |-> 0, peer_window_size |-> 0,
     input |-> <<>>, output |-> <<>>,
     read_flag |-> FALSE, read_len |-> 0,
     write_flag |-> FALSE, write_pipe |-> <<>>,
     fin_tag |-> FALSE, callback |-> FALSE,
     timer |-> FALSE, timeout |-> 0, reset_time |-> 0]

\* The socket OPT_CONNECT and TCPAccept set up, resend thread included.
OpenSocket(state, rcv_nxt) ==
    [FreeSocket EXCEPT !.valid = TRUE, !.state = state, !.rcv_nxt = rcv_nxt,
                       !.snd_una = ISS, !.snd_nxt = ISS + 1,
                       !.callback = TRUE, !.timer = TRUE]

Effect(s) ==
    [s |-> s, sent |-> <<>>, rep |-> <<>>, took |-> 0, gave |-> <<>>, frees |-> 0]

InFree(s) == InCapacity - Len(s.input)
OutFree(s) == OutCapacity - Len(s.output)

-----------------------------------------------------------------------------
(***************************************************************************)
(* Segments.  rst is left out: sendTCPControlSegment drops its argument,   *)
(* so no stack of this kind ever sends one.                                *)
(***************************************************************************)
Segment(s, flags, seq, ack_seq, data) ==
    [syn |-> "syn" \in flags, ack |-> "ack" \in flags, fin |-> "fin" \in flags,
     seq |-> seq, ack_seq |-> ack_seq, window |-> InFree(s), data |-> data]

\* sendTCPControlSegment
Control(e, flags, seq, ack_seq) ==
    [e EXCEPT !.sent = Append(@, Segment(e.s, flags, seq, ack_seq, <<>>))]

Reply(e, n) == [e EXCEPT !.rep = Append(@, n)]

\* sendTCPSegment with the bytes of the output buffer from seq to end, at
\* most MSS of them
DataSegment(s, seq, end) ==
    Segment(s, {"ack"}, seq, s.rcv_nxt,
            SubSeq(s.output, seq - s.snd_una + 1,
                   AtMost(seq + MSS, end) - s.snd_una))

\* Mutant: everything in the output buffer may be sent.
SendEndNoWindow(s) == s.snd_una + Len(s.output)

\* processSend: send_end
SendEnd(s) == s.snd_una + AtMost(Len(s.output), s.peer_window_size)

\* processSend: everything between snd_nxt and send_end goes out, in
\* segments of MSS bytes.
ProcessSend(e) ==
    LET s == e.s
        end == SendEnd(s)
        count == (end - s.snd_nxt + MSS - 1) \div MSS
    IN  IF s.snd_nxt < end
        THEN [e EXCEPT !.sent = @ \o [j \in 1 .. count |->
                           DataSegment(s, s.snd_nxt + (j - 1) * MSS, end)],
                       !.s.snd_nxt = end]
        ELSE e

\* Mutant: canWriteSize does not look at the free size.
ProcessWriteUncapped(e) ==
    [Reply(e, Len(e.s.write_pipe)) EXCEPT
        !.s.output = @ \o e.s.write_pipe,
        !.s.write_flag = FALSE,
        !.s.write_pipe = <<>>,
        !.took = @ + Len(e.s.write_pipe)]

\* canWriteSize, TCPWriteCallback, processWrite: a pending write is answered
\* with what fits and that much is moved from the write pipe to the output
\* buffer.
ProcessWrite(e) ==
    LET n == AtMost(Len(e.s.write_pipe), OutFree(e.s)) IN
    [Reply(e, n) EXCEPT
        !.s.output = @ \o SubSeq(e.s.write_pipe, 1, n),
        !.s.write_flag = FALSE,
        !.s.write_pipe = <<>>,
        !.took = @ + n]

\* Mutant: the FIN does not wait for the output buffer.
ProcessFinEager(e) ==
    IF e.s.fin_tag
    THEN Control(Reply([e EXCEPT !.s.fin_state = "FIN_WAIT1",
                                 !.s.fin_tag = FALSE], 0),
                 {"ack", "fin"}, e.s.snd_nxt, e.s.rcv_nxt)
    ELSE e

\* The last part of processWriteSend: a close that waited for the output
\* buffer to drain sends its FIN and is answered (TCPFinCallback).
ProcessFin(e) ==
    IF e.s.output = <<>> /\ e.s.fin_tag
    THEN Control(Reply([e EXCEPT !.s.fin_state = "FIN_WAIT1",
                                 !.s.fin_tag = FALSE], 0),
                 {"ack", "fin"}, e.s.snd_nxt, e.s.rcv_nxt)
    ELSE e

\* processWriteSend
ProcessWriteSend(e) ==
    LET sent == ProcessSend(e)
        canWrite == /\ sent.s.write_flag
                    /\ OutFree(sent.s) > 0
                    /\ sent.s.write_pipe # <<>>
    IN  ProcessFin(IF canWrite THEN ProcessSend(ProcessWrite(sent)) ELSE sent)

\* Mutant: get_ring_buffer in the place of consume_ring_buffer.
ProcessReadKeepsInput(e) ==
    LET n == AtMost(e.s.read_len, Len(e.s.input)) IN
    IF e.s.read_flag /\ n > 0
    THEN [Reply(e, n) EXCEPT
             !.s.timeout = 0, !.s.reset_time = 0, !.s.read_flag = FALSE,
             !.gave = @ \o SubSeq(e.s.input, 1, n)]
    ELSE e

\* processReadWithoutAck: a pending read is answered with what is there.
ProcessReadWithoutAck(e) ==
    LET n == AtMost(e.s.read_len, Len(e.s.input)) IN
    IF e.s.read_flag /\ n > 0
    THEN [Reply(e, n) EXCEPT
             !.s.timeout = 0, !.s.reset_time = 0, !.s.read_flag = FALSE,
             !.s.input = SubSeq(@, n + 1, Len(@)),
             !.gave = @ \o SubSeq(e.s.input, 1, n)]
    ELSE e

\* processRead
ProcessRead(e) ==
    LET r == ProcessReadWithoutAck(e) IN
    Control(r, {"ack"}, r.s.snd_nxt, r.s.rcv_nxt)

\* free_socket, with the memset that ends it
Free(e) == [e EXCEPT !.s = FreeSocket]

\* Mutant: a blocked read is not told.
ShutdownSocketSilent(e) ==
    IF \/ e.s.state = "SYN_SENT" /\ e.s.callback
       \/ e.s.state = "ESTABLISHED" /\ e.s.write_flag
    THEN Free(Reply(e, ECONNRESET))
    ELSE Free(e)

\* shutdownSocket: a blocked connect, write or read fails, then free_socket.
\* A socket in SYN_RECV answers nobody.
ShutdownSocket(e) ==
    LET established == e.s.state = "ESTABLISHED"
        failed == \/ e.s.state = "SYN_SENT" /\ e.s.callback
                  \/ established /\ e.s.write_flag
        first == IF failed THEN Reply(e, ECONNRESET) ELSE e
    IN  Free(IF established /\ e.s.read_flag THEN Reply(first, ECONNRESET)
             ELSE first)

-----------------------------------------------------------------------------
(***************************************************************************)
(* TCPCallback for a segment that belongs to an existing data socket.      *)
(***************************************************************************)

\* The acknowledgement: new data acknowledged, a window update, or the
\* acknowledgement of our FIN, which lies beyond snd_nxt because sending a
\* FIN does not advance snd_nxt.
ReceiveAck(e, seg) ==
    LET s == e.s IN
    IF seg.ack /\ seg.ack_seq > s.snd_una /\ seg.ack_seq <= s.snd_nxt
    THEN ProcessWriteSend(
            [e EXCEPT !.s.timeout = 0, !.s.reset_time = 0,
                      !.s.output = SubSeq(@, seg.ack_seq - s.snd_una + 1, Len(@)),
                      !.s.snd_una = seg.ack_seq,
                      !.s.peer_window_size = seg.window])
    ELSE IF seg.ack /\ seg.ack_seq = s.snd_una
    THEN ProcessWriteSend([e EXCEPT !.s.reset_time = 0,
                                    !.s.peer_window_size = seg.window])
    ELSE IF seg.ack /\ seg.ack_seq > s.snd_nxt /\ s.fin_state = "FIN_WAIT1"
    THEN [e EXCEPT !.s.fin_state = "FIN_WAIT2"]
    ELSE e

\* Mutant: any payload is kept, and what it ends with is expected next.
ReceiveDataFromSegment(e, seg) ==
    LET n == AtMost(Len(seg.data), InFree(e.s)) IN
    IF seg.data # <<>>
    THEN ProcessRead([e EXCEPT !.s.input = @ \o SubSeq(seg.data, 1, n),
                               !.s.rcv_nxt = seg.seq + n])
    ELSE e

\* The payload is kept only when it is the next one expected; what does not
\* fit is cut off.  Anything else is dropped without an acknowledgement.
ReceiveData(e, seg) ==
    LET n == AtMost(Len(seg.data), InFree(e.s)) IN
    IF seg.data # <<>> /\ seg.seq = e.s.rcv_nxt
    THEN ProcessRead([e EXCEPT !.s.input = @ \o SubSeq(seg.data, 1, n),
                               !.s.rcv_nxt = @ + n])
    ELSE e

\* A FIN sent in answer to the peer's, in state LAST_ACK.
SendLastFin(e) ==
    Control([e EXCEPT !.s.fin_state = "LAST_ACK"],
            {"ack", "fin"}, e.s.snd_nxt, e.s.rcv_nxt + 1)

\* Mutant: the peer's FIN ends the connection in FIN_WAIT1 already.
ReceiveFinEarly(e, seg, finAcked) ==
    IF seg.fin /\ seg.ack /\ e.s.fin_state \in {"FIN_WAIT1", "FIN_WAIT2"}
    THEN [Control([e EXCEPT !.s.reset_time = 0],
                  {"ack"}, e.s.snd_nxt + 1, seg.seq + 1)
             EXCEPT !.frees = @ + 1]
    ELSE e

\* Mutant: the acknowledgement of the last FIN frees nothing.
ReceiveFinKeeps(e, seg, finAcked) ==
    IF seg.fin /\ e.s.fin_state = "NONE"
    THEN LET waiting == Control([e EXCEPT !.s.reset_time = 0,
                                          !.s.fin_state = "CLOSE_WAIT"],
                                {"ack"}, e.s.snd_nxt, e.s.rcv_nxt + 1)
         IN  IF e.s.read_flag
             THEN [Reply(SendLastFin(waiting), 0) EXCEPT !.s.read_flag = FALSE]
             ELSE waiting
    ELSE e

\* The FIN: end of the peer's stream, the answer to our own FIN, or the
\* acknowledgement of the answer.  finAcked: this segment moved the socket to
\* FIN_WAIT2 (fin_flag in the code).
ReceiveFin(e, seg, finAcked) ==
    IF seg.fin /\ e.s.fin_state = "NONE"
    THEN LET waiting == Control([e EXCEPT !.s.reset_time = 0,
                                          !.s.fin_state = "CLOSE_WAIT"],
                                {"ack"}, e.s.snd_nxt, e.s.rcv_nxt + 1)
             last == Reply(SendLastFin(waiting), 0)
         IN  IF e.s.read_flag THEN [last EXCEPT !.s.read_flag = FALSE]
             ELSE waiting
    ELSE IF seg.fin /\ seg.ack /\ e.s.fin_state = "FIN_WAIT2" /\ ~finAcked
    THEN [Control([e EXCEPT !.s.reset_time = 0],
                  {"ack"}, e.s.snd_nxt + 1, seg.seq + 1)
             EXCEPT !.frees = @ + 1]
    ELSE IF seg.ack /\ e.s.fin_state = "LAST_ACK"
    THEN Free(e)
    ELSE e

ReceiveEstablished(e, seg) ==
    LET acked == ReceiveAck(e, seg)
        finAcked == /\ e.s.fin_state = "FIN_WAIT1"
                    /\ acked.s.fin_state = "FIN_WAIT2"
    IN  ReceiveFin(ReceiveData(acked, seg), seg, finAcked)

\* Mutant: the blocked connect is forgotten.
ReceiveSynSentSilent(e, seg) ==
    IF seg.syn /\ seg.ack /\ seg.ack_seq = e.s.snd_nxt
    THEN [Control(e, {"ack"}, e.s.snd_nxt, seg.seq + 1) EXCEPT
             !.s.rcv_nxt = seg.seq + 1, !.s.snd_una = e.s.snd_nxt,
             !.s.peer_window_size = seg.window, !.s.state = "ESTABLISHED",
             !.s.timeout = 0, !.s.reset_time = 0, !.s.callback = FALSE]
    ELSE e

\* The answer to our SYN: TCPConnectCallback answers the blocked connect.
\* A bare SYN makes the socket answer with a SYNACK and wait for its own.
ReceiveSynSent(e, seg) ==
    LET s == e.s IN
    IF seg.syn /\ seg.ack /\ seg.ack_seq = s.snd_nxt
    THEN LET open == Control([e EXCEPT !.s.rcv_nxt = seg.seq + 1,
                                       !.s.snd_una = s.snd_nxt,
                                       !.s.peer_window_size = seg.window],
                             {"ack"}, s.snd_nxt, seg.seq + 1)
             up == [open EXCEPT !.s.state = "ESTABLISHED", !.s.timeout = 0,
                                !.s.reset_time = 0, !.s.callback = FALSE]
         IN  IF s.callback THEN Reply(up, 0) ELSE up
    ELSE IF seg.syn
    THEN [Control([e EXCEPT !.s.rcv_nxt = seg.seq + 1, !.s.snd_una = ISS],
                  {"syn", "ack"}, ISS, seg.seq + 1)
             EXCEPT !.s.snd_nxt = ISS + 2, !.s.state = "SYN_RECV"]
    ELSE e

\* The end of the handshake: TCPAcceptCallback answers the blocked accept.
\* The segment may already carry data: rcv_nxt moves past it, but the data is
\* not put into the input buffer.
ReceiveSynRecv(e, seg) ==
    IF seg.ack /\ seg.ack_seq = e.s.snd_nxt
    THEN [(IF e.s.callback THEN Reply(e, 0) ELSE e) EXCEPT
             !.s.rcv_nxt = seg.seq + Len(seg.data),
             !.s.snd_una = e.s.snd_nxt,
             !.s.peer_window_size = seg.window,
             !.s.state = "ESTABLISHED", !.s.timeout = 0, !.s.reset_time = 0,
             !.s.callback = FALSE]
    ELSE e

TCPCallback(s, seg) ==
    LET e == Effect(s) IN
    CASE s.state = "ESTABLISHED" -> ReceiveEstablished(e, seg)
      [] s.state = "SYN_SENT" -> ReceiveSynSent(e, seg)
      [] s.state = "SYN_RECV" -> ReceiveSynRecv(e, seg)
      [] OTHER -> e

-----------------------------------------------------------------------------
(***************************************************************************)
(* One iteration of TCPTimeout.                                            *)
(***************************************************************************)
TimerEnds(s) ==
    ~s.valid \/ s.fin_state \in {"FIN_WAIT1", "FIN_WAIT2", "TIME_WAIT", "LAST_ACK"}

\* Mutant: a timeout goes on from snd_nxt.
ResendFromNext(e) ==
    CASE e.s.state = "SYN_SENT" -> Control(e, {"syn"}, ISS, 0)
      [] e.s.state = "SYN_RECV" -> Control(e, {"syn", "ack"}, ISS, e.s.rcv_nxt)
      [] OTHER -> ProcessWriteSend(e)

\* What a timeout sends again: the SYN, the SYNACK, or everything not yet
\* acknowledged.
Resend(e) ==
    CASE e.s.state = "SYN_SENT" -> Control(e, {"syn"}, ISS, 0)
      [] e.s.state = "SYN_RECV" -> Control(e, {"syn", "ack"}, ISS, e.s.rcv_nxt)
      [] OTHER -> ProcessWriteSend([e EXCEPT !.s.snd_nxt = e.s.snd_una])

TCPTimeout(s) ==
    LET e == Effect([s EXCEPT !.timeout = @ + 1])
        resent == [Resend(e) EXCEPT !.s.timeout = 0, !.s.reset_time = @ + 1]
        \* the RST that is sent here carries no RST bit
        final == Control(resent, {"ack"}, resent.s.snd_nxt, resent.s.rcv_nxt)
    IN  IF TimerEnds(s) THEN [Effect(s) EXCEPT !.s.timer = FALSE]
        ELSE IF s.timeout + 1 # TimeoutTicks THEN e
        ELSE IF resent.s.reset_time # MaxResets THEN resent
        ELSE ShutdownSocket(final)

-----------------------------------------------------------------------------
(***************************************************************************)
(* Requests of the application: OPT_CONNECT, TCPAccept, OPT_READ,          *)
(* OPT_WRITE and OPT_CLOSE of request_routine, for a socket whose type is  *)
(* SOCKET_TYPE_DATA and whose device exists.                               *)
(***************************************************************************)
Connect ==
    Control(Effect(OpenSocket("SYN_SENT", 0)), {"syn"}, ISS, 0)

TCPAccept(rcv_nxt) ==
    Control(Effect(OpenSocket("SYN_RECV", rcv_nxt)), {"syn", "ack"}, ISS, rcv_nxt)

\* can_read and can_write
CanRead(s) ==
    IF ~s.valid THEN ENOTSOCK
    ELSE IF s.state # "ESTABLISHED" \/ s.fin_state \in {"TIME_WAIT", "LAST_ACK"}
    THEN EINVAL ELSE 0

CanWrite(s) ==
    IF ~s.valid THEN ENOTSOCK
    ELSE IF s.state # "ESTABLISHED" \/ s.fin_state # "NONE" THEN EINVAL ELSE 0

\* OPT_READ: in CLOSE_WAIT a read is the end of the stream.
Read(s, len) ==
    LET e == Effect(s)
        reading == [e EXCEPT !.s.read_flag = TRUE, !.s.read_len = len]
    IN  IF CanRead(s) # 0 THEN Reply(e, CanRead(s))
        ELSE IF s.fin_state = "CLOSE_WAIT" THEN Reply(SendLastFin(e), 0)
        ELSE IF s.input # <<>> THEN ProcessRead(reading)
        ELSE reading

\* OPT_WRITE of the bytes data
Write(s, data) ==
    LET e == Effect(s)
        writing == [e EXCEPT !.s.write_flag = TRUE, !.s.write_pipe = data]
    IN  IF CanWrite(s) # 0 THEN Reply(e, CanWrite(s))
        ELSE IF OutFree(s) > 0 THEN ProcessWriteSend(writing)
        ELSE writing

\* OPT_CLOSE; a socket that is closing already is left as it is.
Close(s) ==
    LET e == Effect(s) IN
    IF ~s.valid \/ s.fin_state # "NONE" THEN Reply(e, 0)
    ELSE IF s.state \in {"ESTABLISHED", "SYN_RECV"}
    THEN ProcessWriteSend([e EXCEPT !.s.fin_tag = TRUE])
    ELSE Reply(Free(e), 0)

=============================================================================
