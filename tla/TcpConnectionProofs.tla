------------------------ MODULE TcpConnectionProofs ------------------------
(***************************************************************************)
(* Type correctness of TcpConnection, and that its sequence numbers only   *)
(* move forward.  The invariant IInv adds to TypeOK that snd_una is at     *)
(* most snd_nxt in every socket (without it processSend would cut pieces   *)
(* out of the output buffer that are not there, and a segment would not    *)
(* have its type) and that an application that has not called connect or   *)
(* accept has no socket (without it connect would replace a live one).     *)
(***************************************************************************)
EXTENDS TcpConnection, SequenceTheorems, TLAPS

-----------------------------------------------------------------------------
(***************************************************************************)
(* The routines of TcpSocket: what each does to the type of a socket, to   *)
(* the bounds of its ring buffers and to its sequence numbers.  There is   *)
(* one lemma per routine: EffectOK says that the effect is well typed and  *)
(* that the rings hold what fits into them; Keeps and Forward say what     *)
(* happens to the numbers.  A nested EXCEPT is first brought into the form *)
(* [e EXCEPT !.s = w], so that w and the effect are typed one at a time.   *)
(***************************************************************************)
\* The effect records of TcpSocket.
EffectType ==
    [s : SocketType, sent : Seq(SegmentType), rep : Seq(Int), took : Nat,
     gave : Seq(Byte), frees : Nat]

\* The rings hold what fits into them, and what is acknowledged was sent.
SocketOK(s) ==
    /\ s \in SocketType
    /\ Len(s.input) <= InCapacity
    /\ Len(s.output) <= OutCapacity
    /\ s.snd_una <= s.snd_nxt

EffectOK(e) == e \in EffectType /\ SocketOK(e.s)

\* The smaller of two naturals.
LEMMA AtMostProperties ==
  ASSUME NEW a \in Nat, NEW b \in Nat
  PROVE  /\ AtMost(a, b) \in Nat
         /\ AtMost(a, b) <= a
         /\ AtMost(a, b) <= b
BY DEF AtMost

\* The parameters are naturals.
LEMMA CapacityType ==
  /\ InCapacity \in Nat /\ OutCapacity \in Nat /\ MSS \in Nat \ {0}
  /\ TimeoutTicks \in Nat /\ MaxResets \in Nat
BY SocketAssumption

\* Free sizes of the two rings (get_ring_buffer_free_size).
LEMMA FreeSizes ==
  ASSUME NEW s, SocketOK(s)
  PROVE  /\ InFree(s) \in 0 .. InCapacity
         /\ OutFree(s) \in 0 .. OutCapacity
<1>1. s.input \in Seq(Byte) /\ s.output \in Seq(Byte)
  BY DEF SocketType, SocketOK
<1>2. Len(s.input) \in Nat /\ Len(s.output) \in Nat
  BY <1>1
<1> QED
  BY <1>2, CapacityType DEF InFree, OutFree, SocketOK

\* Append to a typed sequence.
LEMMA AppendTyped ==
  ASSUME NEW S, NEW q \in Seq(S), NEW x \in S
  PROVE  Append(q, x) \in Seq(S)
OBVIOUS

\* An answer changes nothing of the socket.
LEMMA ReplyOK ==
  ASSUME NEW e, EffectOK(e), NEW n \in Int
  PROVE  /\ EffectOK(Reply(e, n))
         /\ Reply(e, n).s = e.s
<1>1. e.rep \in Seq(Int)
  BY DEF EffectOK, EffectType
<1>2. Append(e.rep, n) \in Seq(Int)
  BY <1>1, AppendTyped
<1> DEFINE R == Append(e.rep, n)
<1>3. Reply(e, n) = [e EXCEPT !.rep = R]
  BY DEF Reply
<1> HIDE DEF R
<1>4. Reply(e, n) \in EffectType /\ Reply(e, n).s = e.s
  BY <1>2, <1>3 DEF EffectOK, EffectType, R
<1> QED
  BY <1>4 DEF EffectOK

\* A segment of typed numbers advertises a window within the capacity.
LEMMA SegmentOK ==
  ASSUME NEW s \in SocketType, Len(s.input) <= InCapacity, NEW flags,
         NEW seq \in Nat, NEW ack_seq \in Nat, NEW data \in Seq(Byte)
  PROVE  Segment(s, flags, seq, ack_seq, data) \in SegmentType
<1>1. s.input \in Seq(Byte)
  BY DEF SocketType
<1>2. Len(s.input) \in Nat
  BY <1>1
<1>3. InFree(s) \in 0 .. InCapacity
  BY <1>2, CapacityType DEF InFree
<1> QED
  BY <1>3 DEF Segment, SegmentType

\* sendTCPControlSegment, for a socket whose numbers are being changed.
LEMMA ControlTyped ==
  ASSUME NEW e \in EffectType, Len(e.s.input) <= InCapacity,
         NEW flags, NEW seq \in Nat, NEW ack_seq \in Nat
  PROVE  /\ Control(e, flags, seq, ack_seq) \in EffectType
         /\ Control(e, flags, seq, ack_seq).s = e.s
<1> DEFINE seg == Segment(e.s, flags, seq, ack_seq, <<>>)
           all == Append(e.sent, seg)
<1>1. <<>> \in Seq(Byte)
  BY EmptySeq
<1>2. e.s \in SocketType /\ e.sent \in Seq(SegmentType)
  BY DEF EffectType
<1>3. seg \in SegmentType
  BY <1>1, <1>2, SegmentOK
<1>4. all \in Seq(SegmentType)
  BY <1>2, <1>3, AppendTyped
<1>5. Control(e, flags, seq, ack_seq) = [e EXCEPT !.sent = all]
  BY DEF Control
<1> HIDE DEF seg, all
<1> QED
  BY <1>4, <1>5 DEF EffectType

\* sendTCPControlSegment changes nothing of the socket.
LEMMA ControlOK ==
  ASSUME NEW e, EffectOK(e), NEW flags, NEW seq \in Nat, NEW ack_seq \in Nat
  PROVE  /\ EffectOK(Control(e, flags, seq, ack_seq))
         /\ Control(e, flags, seq, ack_seq).s = e.s
BY ControlTyped DEF EffectOK, SocketOK

\* A piece of a typed sequence, empty when it ends before it begins.
LEMMA SubSeqOK ==
  ASSUME NEW S, NEW q \in Seq(S), NEW m \in Nat \ {0}, NEW n \in Nat, n <= Len(q)
  PROVE  /\ SubSeq(q, m, n) \in Seq(S)
         /\ Len(SubSeq(q, m, n)) = IF m <= n THEN n - m + 1 ELSE 0
BY SubSeqProperties, EmptySeq

\* Concatenation of typed sequences.
LEMMA ConcatOK ==
  ASSUME NEW S, NEW q \in Seq(S), NEW p \in Seq(S)
  PROVE  q \o p \in Seq(S) /\ Len(q \o p) = Len(q) + Len(p)
BY ConcatProperties

\* A function on 1..n is a sequence.
LEMMA FunctionOK ==
  ASSUME NEW S, NEW n \in Nat, NEW f, f \in [1 .. n -> S]
  PROVE  f \in Seq(S)
OBVIOUS

-----------------------------------------------------------------------------
\* What a routine that only sends, writes or reads leaves alone.
Keeps(s, t) ==
    /\ t.valid = s.valid /\ t.state = s.state
    /\ t.snd_una = s.snd_una /\ t.rcv_nxt = s.rcv_nxt

\* sendTCPSegment of bytes that are in the output buffer.
LEMMA DataSegmentOK ==
  ASSUME NEW s, SocketOK(s), NEW seq \in Nat, NEW end \in Nat,
         s.snd_una <= seq, s.snd_una <= end, end <= s.snd_una + Len(s.output)
  PROVE  DataSegment(s, seq, end) \in SegmentType
<1>1. /\ s.snd_una \in Nat /\ s.rcv_nxt \in Nat /\ s.output \in Seq(Byte)
      /\ Len(s.output) \in Nat
  BY DEF SocketOK, SocketType
<1> DEFINE m == seq - s.snd_una + 1
           n == AtMost(seq + MSS, end) - s.snd_una
<1>2. m \in Nat \ {0}
  BY <1>1
<1>3. n \in Nat /\ n <= Len(s.output)
  BY <1>1, CapacityType DEF AtMost
<1>4. DataSegment(s, seq, end)
        = Segment(s, {"ack"}, seq, s.rcv_nxt, SubSeq(s.output, m, n))
  BY DEF DataSegment
<1> HIDE DEF m, n
<1>5. SubSeq(s.output, m, n) \in Seq(Byte)
  BY <1>1, <1>2, <1>3, SubSeqOK
<1> QED
  BY <1>1, <1>4, <1>5, SegmentOK DEF SocketOK

\* Products and quotients of naturals, apart from everything else.
LEMMA ProductOK ==
  ASSUME NEW j \in Nat, NEW m \in Nat
  PROVE  j * m \in Nat
OBVIOUS

\* A quotient of naturals.
LEMMA QuotientOK ==
  ASSUME NEW a \in Nat, NEW m \in Nat \ {0}
  PROVE  a \div m \in Nat
OBVIOUS

\* processSend only moves snd_nxt forward, and sends what the buffer holds.
LEMMA ProcessSendOK ==
  ASSUME NEW e, EffectOK(e)
  PROVE  /\ EffectOK(ProcessSend(e))
         /\ Keeps(e.s, ProcessSend(e).s)
<1> DEFINE s == e.s
           end == SendEnd(s)
           count == (end - s.snd_nxt + MSS - 1) \div MSS
           segments == [j \in 1 .. count |->
                            DataSegment(s, s.snd_nxt + (j - 1) * MSS, end)]
<1>1. SocketOK(s)
  BY DEF EffectOK
<1>2. /\ s.snd_una \in Nat /\ s.snd_nxt \in Nat /\ s.peer_window_size \in Nat
      /\ s.output \in Seq(Byte) /\ Len(s.output) \in Nat /\ s.snd_una <= s.snd_nxt
  BY <1>1 DEF SocketOK, SocketType
<1>3. /\ end \in Nat /\ s.snd_una <= end /\ end <= s.snd_una + Len(s.output)
  <2> DEFINE n == AtMost(Len(s.output), s.peer_window_size)
  <2>1. n \in Nat /\ n <= Len(s.output)
    BY <1>2, AtMostProperties
  <2>2. end = s.snd_una + n
    BY DEF SendEnd
  <2> HIDE DEF n, end, s
  <2> QED
    BY <1>2, <2>1, <2>2
<1>4. CASE ~(s.snd_nxt < end)
  <2>1. ProcessSend(e) = e
    BY <1>4 DEF ProcessSend
  <2> QED
    BY <2>1 DEF Keeps
<1>5. CASE s.snd_nxt < end
  <2>1. count \in Nat
    <3>1. end - s.snd_nxt + MSS - 1 \in Nat
      BY <1>2, <1>3, <1>5, CapacityType
    <3> QED
      BY <3>1, QuotientOK, CapacityType
  <2>2. ASSUME NEW j \in 1 .. count
        PROVE  DataSegment(s, s.snd_nxt + (j - 1) * MSS, end) \in SegmentType
    <3>1. (j - 1) * MSS \in Nat
      <4>1. j - 1 \in Nat
        BY <2>1
      <4> QED
        BY <4>1, ProductOK, CapacityType
    <3> DEFINE seq == s.snd_nxt + (j - 1) * MSS
    <3>2. seq \in Nat /\ s.snd_una <= seq
      BY <1>2, <3>1
    <3> HIDE DEF seq, end, s
    <3>3. DataSegment(s, seq, end) \in SegmentType
      BY <1>1, <1>3, <3>2, DataSegmentOK
    <3> QED
      BY <3>3 DEF seq
  <2>3. segments \in [1 .. count -> SegmentType]
    <3> HIDE DEF count
    <3> QED
      BY <2>2
  <2>4. ProcessSend(e) = [e EXCEPT !.sent = @ \o segments, !.s.snd_nxt = end]
    BY <1>5 DEF ProcessSend
  <2> HIDE DEF segments, count
  <2>5. segments \in Seq(SegmentType)
    BY <2>1, <2>3, FunctionOK
  <2>6. e.sent \o segments \in Seq(SegmentType)
    BY <2>5, ConcatOK DEF EffectOK, EffectType
  <2> DEFINE all == e.sent \o segments
  <2>7. ProcessSend(e) = [e EXCEPT !.sent = all, !.s.snd_nxt = end]
    BY <2>4
  <2> HIDE DEF all, end
  <2>8. all \in Seq(SegmentType)
    BY <2>6 DEF all
  <2> DEFINE w == [s EXCEPT !.snd_nxt = end]
  <2>9. SocketOK(w) /\ Keeps(s, w)
    <3> HIDE DEF s
    <3> QED
      BY <1>1, <1>2, <1>3, <1>5 DEF SocketOK, SocketType, Keeps
  <2>10. ProcessSend(e) = [e EXCEPT !.sent = all, !.s = w]
    BY <2>7 DEF EffectOK, EffectType
  <2> HIDE DEF w
  <2>11. e \in EffectType /\ w \in SocketType
    BY <2>9 DEF EffectOK, SocketOK
  <2>12. ProcessSend(e) \in EffectType
    BY <2>8, <2>10, <2>11 DEF EffectType
  <2>13. ProcessSend(e).s = w
    BY <2>10, <2>11 DEF EffectType
  <2> QED
    BY <2>9, <2>12, <2>13 DEF EffectOK
<1> QED
  BY <1>4, <1>5

\* processWrite never puts more into the output buffer than fits.
LEMMA ProcessWriteOK ==
  ASSUME NEW e, EffectOK(e)
  PROVE  /\ EffectOK(ProcessWrite(e))
         /\ Keeps(e.s, ProcessWrite(e).s)
<1> DEFINE n == AtMost(Len(e.s.write_pipe), OutFree(e.s))
           moved == e.s.output \o SubSeq(e.s.write_pipe, 1, n)
           r == Reply(e, n)
<1>1. /\ e.s.write_pipe \in Seq(Byte) /\ Len(e.s.write_pipe) \in Nat
      /\ e.s.output \in Seq(Byte) /\ Len(e.s.output) \in Nat
      /\ e.took \in Nat
  BY DEF EffectOK, EffectType, SocketOK, SocketType
<1>2. OutFree(e.s) \in Nat /\ Len(e.s.output) + OutFree(e.s) = OutCapacity
  BY <1>1, FreeSizes, CapacityType DEF EffectOK, OutFree
<1>3. n \in Nat /\ n <= Len(e.s.write_pipe) /\ n <= OutFree(e.s)
  BY <1>1, <1>2, AtMostProperties
<1>4. /\ SubSeq(e.s.write_pipe, 1, n) \in Seq(Byte)
      /\ Len(SubSeq(e.s.write_pipe, 1, n)) = n
  BY <1>1, <1>3, SubSeqOK
<1>5. moved \in Seq(Byte) /\ Len(moved) <= OutCapacity
  BY <1>1, <1>2, <1>3, <1>4, ConcatOK
<1>6. EffectOK(r) /\ r.s = e.s
  BY <1>3, ReplyOK
<1>7. r.took = e.took
  BY DEF Reply, EffectOK, EffectType
<1>8. ProcessWrite(e) = [r EXCEPT !.s.output = moved, !.s.write_flag = FALSE,
                                  !.s.write_pipe = <<>>, !.took = e.took + n]
  BY <1>6, <1>7 DEF ProcessWrite
<1> HIDE DEF moved, r
<1>9. e.took + n \in Nat
  BY <1>1, <1>3
<1> DEFINE m == e.took + n
           w == [e.s EXCEPT !.output = moved, !.write_flag = FALSE,
                            !.write_pipe = <<>>]
<1> HIDE DEF n
<1>10. SocketOK(w) /\ Keeps(e.s, w)
  BY <1>5, EmptySeq DEF EffectOK, SocketOK, SocketType, Keeps
<1>11. ProcessWrite(e) = [r EXCEPT !.s = w, !.took = m]
  BY <1>6, <1>8 DEF EffectOK, EffectType
<1>12. m \in Nat
  BY <1>9
<1> HIDE DEF w, m
<1>13. r \in EffectType /\ w \in SocketType
  BY <1>6, <1>10 DEF EffectOK, SocketOK
<1>14. ProcessWrite(e) \in EffectType
  BY <1>11, <1>12, <1>13 DEF EffectType
<1>15. ProcessWrite(e).s = w
  BY <1>11, <1>13 DEF EffectType
<1> QED
  BY <1>10, <1>14, <1>15 DEF EffectOK

\* The FIN of a waiting close.
LEMMA ProcessFinOK ==
  ASSUME NEW e, EffectOK(e)
  PROVE  /\ EffectOK(ProcessFin(e))
         /\ Keeps(e.s, ProcessFin(e).s)
<1> DEFINE w == [e EXCEPT !.s.fin_state = "FIN_WAIT1", !.s.fin_tag = FALSE]
<1>1. EffectOK(w) /\ Keeps(e.s, w.s)
  BY DEF EffectOK, EffectType, SocketOK, SocketType, Keeps, FinStates
<1>2. e.s.snd_nxt \in Nat /\ e.s.rcv_nxt \in Nat
  BY DEF EffectOK, SocketOK, SocketType
<1>3. ProcessFin(e) \in {e, Control(Reply(w, 0), {"ack", "fin"}, e.s.snd_nxt, e.s.rcv_nxt)}
  BY DEF ProcessFin
<1> HIDE DEF w
<1>4. EffectOK(Reply(w, 0)) /\ Reply(w, 0).s = w.s
  BY <1>1, ReplyOK
<1>5. LET c == Control(Reply(w, 0), {"ack", "fin"}, e.s.snd_nxt, e.s.rcv_nxt)
      IN  EffectOK(c) /\ c.s = w.s
  BY <1>2, <1>4, ControlOK
<1> QED
  BY <1>1, <1>3, <1>5 DEF Keeps

\* processWriteSend
LEMMA ProcessWriteSendOK ==
  ASSUME NEW e, EffectOK(e)
  PROVE  /\ EffectOK(ProcessWriteSend(e))
         /\ Keeps(e.s, ProcessWriteSend(e).s)
<1> DEFINE sent == ProcessSend(e)
           written2 == ProcessSend(ProcessWrite(sent))
<1>1. EffectOK(sent) /\ Keeps(e.s, sent.s)
  BY ProcessSendOK
<1>2. EffectOK(written2) /\ Keeps(e.s, written2.s)
  <2>1. EffectOK(ProcessWrite(sent)) /\ Keeps(sent.s, ProcessWrite(sent).s)
    BY <1>1, ProcessWriteOK
  <2>2. EffectOK(written2) /\ Keeps(ProcessWrite(sent).s, written2.s)
    BY <2>1, ProcessSendOK
  <2> QED
    BY <1>1, <2>1, <2>2 DEF Keeps
<1>3. ProcessWriteSend(e) \in {ProcessFin(sent), ProcessFin(written2)}
  BY DEF ProcessWriteSend
<1> HIDE DEF sent, written2
<1> QED
  BY <1>1, <1>2, <1>3, ProcessFinOK DEF Keeps

\* processReadWithoutAck
LEMMA ProcessReadWithoutAckOK ==
  ASSUME NEW e, EffectOK(e)
  PROVE  /\ EffectOK(ProcessReadWithoutAck(e))
         /\ Keeps(e.s, ProcessReadWithoutAck(e).s)
<1> DEFINE n == AtMost(e.s.read_len, Len(e.s.input))
           rest == SubSeq(e.s.input, n + 1, Len(e.s.input))
           r == Reply(e, n)
           out == e.gave \o SubSeq(e.s.input, 1, n)
           w == [e.s EXCEPT !.timeout = 0, !.reset_time = 0,
                            !.read_flag = FALSE, !.input = rest]
<1>1. /\ e.s.input \in Seq(Byte) /\ Len(e.s.input) \in Nat
      /\ e.s.read_len \in Nat /\ e.gave \in Seq(Byte)
      /\ Len(e.s.input) <= InCapacity
  BY DEF EffectOK, EffectType, SocketOK, SocketType
<1>2. n \in Nat /\ n <= Len(e.s.input)
  BY <1>1, AtMostProperties
<1>3. rest \in Seq(Byte) /\ Len(rest) <= InCapacity
  BY <1>1, <1>2, SubSeqOK, CapacityType
<1>4. SubSeq(e.s.input, 1, n) \in Seq(Byte)
  BY <1>1, <1>2, SubSeqOK
<1>5. out \in Seq(Byte)
  BY <1>1, <1>4, ConcatOK
<1>6. EffectOK(r) /\ r.s = e.s
  BY <1>2, ReplyOK
<1>7. r.gave = e.gave
  BY DEF Reply, EffectOK, EffectType
<1>8. ProcessReadWithoutAck(e)
        \in {e, [r EXCEPT !.s.timeout = 0, !.s.reset_time = 0,
                          !.s.read_flag = FALSE, !.s.input = rest, !.gave = out]}
  BY <1>6, <1>7 DEF ProcessReadWithoutAck, EffectOK, EffectType
<1> HIDE DEF rest, r, out, n
<1>9. SocketOK(w) /\ Keeps(e.s, w)
  BY <1>3 DEF EffectOK, SocketOK, SocketType, Keeps
<1>10. ProcessReadWithoutAck(e) \in {e, [r EXCEPT !.s = w, !.gave = out]}
  BY <1>6, <1>8 DEF EffectOK, EffectType
<1> HIDE DEF w
<1>11. r \in EffectType /\ w \in SocketType
  BY <1>6, <1>9 DEF EffectOK, SocketOK
<1> DEFINE f == [r EXCEPT !.s = w, !.gave = out]
<1>12. f \in EffectType
  BY <1>5, <1>11 DEF EffectType
<1>13. f.s = w
  BY <1>11 DEF EffectType
<1> HIDE DEF f
<1> QED
  BY <1>9, <1>10, <1>12, <1>13 DEF EffectOK, Keeps, f

\* The numbers of a socket are naturals in order.
LEMMA Numbers ==
  ASSUME NEW e, EffectOK(e)
  PROVE  /\ e.s.snd_una \in Nat /\ e.s.snd_nxt \in Nat /\ e.s.rcv_nxt \in Nat
         /\ e.s.snd_una <= e.s.snd_nxt
BY DEF EffectOK, SocketOK, SocketType

\* processRead
LEMMA ProcessReadOK ==
  ASSUME NEW e, EffectOK(e)
  PROVE  /\ EffectOK(ProcessRead(e))
         /\ Keeps(e.s, ProcessRead(e).s)
<1> DEFINE r == ProcessReadWithoutAck(e)
<1>1. EffectOK(r) /\ Keeps(e.s, r.s)
  BY ProcessReadWithoutAckOK
<1>2. ProcessRead(e) = Control(r, {"ack"}, r.s.snd_nxt, r.s.rcv_nxt)
  BY DEF ProcessRead
<1> HIDE DEF r
<1> QED
  BY <1>1, <1>2, Numbers, ControlOK

\* The slot after the memset of free_socket.
LEMMA FreeSocketOK ==
  SocketOK(FreeSocket)
BY EmptySeq, CapacityType DEF SocketOK, SocketType, FreeSocket, States, FinStates

\* free_socket
LEMMA FreeOK ==
  ASSUME NEW e, EffectOK(e)
  PROVE  EffectOK(Free(e)) /\ ~Free(e).s.valid
<1>1. FreeSocket \in SocketType /\ ~FreeSocket.valid
  BY FreeSocketOK DEF SocketOK, FreeSocket
<1>2. Free(e) \in EffectType
  BY <1>1 DEF Free, EffectOK, EffectType
<1>3. Free(e).s = FreeSocket
  BY DEF Free, EffectOK, EffectType
<1> QED
  BY <1>1, <1>2, <1>3, FreeSocketOK DEF EffectOK

\* shutdownSocket always ends in free_socket.
LEMMA ShutdownSocketOK ==
  ASSUME NEW e, EffectOK(e)
  PROVE  EffectOK(ShutdownSocket(e)) /\ ~ShutdownSocket(e).s.valid
<1> DEFINE r == Reply(e, ECONNRESET)
<1>1. ECONNRESET \in Int
  BY DEF ECONNRESET
<1>2. EffectOK(r) /\ EffectOK(Reply(r, ECONNRESET))
  BY <1>1, ReplyOK
<1>3. ShutdownSocket(e) \in {Free(e), Free(r), Free(Reply(r, ECONNRESET))}
  BY DEF ShutdownSocket
<1> HIDE DEF r
<1> QED
  BY <1>2, <1>3, FreeOK

-----------------------------------------------------------------------------
\* The numbers of a socket that is not freed do not go back.
Forward(s, t) ==
    t.valid => /\ s.valid
               /\ t.snd_una >= s.snd_una
               /\ t.rcv_nxt >= s.rcv_nxt

\* An acknowledgement moves snd_una forward, up to snd_nxt at most.
LEMMA ReceiveAckOK ==
  ASSUME NEW e, EffectOK(e), NEW seg \in SegmentType
  PROVE  /\ EffectOK(ReceiveAck(e, seg))
         /\ Forward(e.s, ReceiveAck(e, seg).s)
         /\ ReceiveAck(e, seg).s.valid = e.s.valid
<1>1. /\ seg.ack_seq \in Nat /\ seg.window \in Nat
  BY CapacityType DEF SegmentType
<1> DEFINE out == SubSeq(e.s.output, seg.ack_seq - e.s.snd_una + 1, Len(e.s.output))
           n == seg.ack_seq
           win == seg.window
           a == [e EXCEPT !.s.timeout = 0, !.s.reset_time = 0, !.s.output = out,
                          !.s.snd_una = n, !.s.peer_window_size = win]
           b == [e EXCEPT !.s.reset_time = 0, !.s.peer_window_size = win]
           c == [e EXCEPT !.s.fin_state = "FIN_WAIT2"]
<1>2. CASE n > e.s.snd_una /\ n <= e.s.snd_nxt
                 /\ ReceiveAck(e, seg) = ProcessWriteSend(a)
  <2>1. e.s.output \in Seq(Byte) /\ Len(e.s.output) \in Nat
    BY DEF EffectOK, SocketOK, SocketType
  <2>2. n - e.s.snd_una + 1 \in Nat \ {0}
    BY <1>1, <1>2, Numbers
  <2>3. out \in Seq(Byte) /\ Len(out) <= OutCapacity
    <3>1. Len(e.s.output) <= OutCapacity
      BY DEF EffectOK, SocketOK
    <3>2. out \in Seq(Byte) /\ Len(out) <= Len(e.s.output) /\ Len(out) \in Nat
      BY <2>1, <2>2, SubSeqOK
    <3> HIDE DEF out
    <3> QED
      BY <2>1, <3>1, <3>2, CapacityType
  <2> HIDE DEF out, n, win
  <2>4. EffectOK(a) /\ Forward(e.s, a.s) /\ a.s.valid = e.s.valid
    <3> DEFINE w == [e.s EXCEPT !.timeout = 0, !.reset_time = 0, !.output = out,
                                !.snd_una = n, !.peer_window_size = win]
    <3>0. n \in Nat /\ win \in Nat /\ n > e.s.snd_una /\ n <= e.s.snd_nxt
      BY <1>1, <1>2 DEF n, win
    <3>1. SocketOK(w) /\ Forward(e.s, w) /\ w.valid = e.s.valid
      <4>1. SocketOK(e.s)
        BY DEF EffectOK
      <4>2. SocketOK(w)
        BY <2>3, <3>0, <4>1 DEF SocketOK, SocketType
      <4>3. w.valid = e.s.valid /\ w.snd_una = n /\ w.rcv_nxt = e.s.rcv_nxt
        BY <4>1 DEF SocketOK, SocketType
      <4> HIDE DEF w
      <4> QED
        BY <3>0, <4>2, <4>3, Numbers DEF Forward
    <3>2. a = [e EXCEPT !.s = w]
      BY DEF EffectOK, EffectType
    <3> HIDE DEF w, a
    <3>3. a \in EffectType /\ a.s = w
      BY <3>1, <3>2 DEF EffectOK, EffectType, SocketOK
    <3> QED
      BY <3>1, <3>3 DEF EffectOK
  <2> HIDE DEF a
  <2> QED
    BY <1>2, <2>4, ProcessWriteSendOK DEF Forward, Keeps
<1>3. CASE ReceiveAck(e, seg) = ProcessWriteSend(b)
  <2> HIDE DEF win
  <2>1. EffectOK(b) /\ Keeps(e.s, b.s)
    BY <1>1 DEF EffectOK, EffectType, SocketOK, SocketType, Keeps, win
  <2> HIDE DEF b
  <2> QED
    BY <1>3, <2>1, Numbers, ProcessWriteSendOK DEF Forward, Keeps
<1>4. CASE ReceiveAck(e, seg) = c
  <2>1. EffectOK(c) /\ Keeps(e.s, c.s)
    BY DEF EffectOK, EffectType, SocketOK, SocketType, Keeps, FinStates
  <2> HIDE DEF c
  <2> QED
    BY <1>4, <2>1, Numbers DEF Forward, Keeps
<1>5. CASE ReceiveAck(e, seg) = e
  BY <1>5, Numbers DEF Forward
<1> QED
  BY <1>2, <1>3, <1>4, <1>5 DEF ReceiveAck

\* Leaving the numbers alone is not moving them back.
LEMMA KeepsIsForward ==
  ASSUME NEW e, EffectOK(e), NEW t, Keeps(e.s, t)
  PROVE  Forward(e.s, t) /\ t.valid = e.s.valid
BY Numbers DEF Keeps, Forward

\* Moving forward twice.
LEMMA ForwardTransitive ==
  ASSUME NEW d, EffectOK(d), NEW e, EffectOK(e), NEW f, EffectOK(f),
         Forward(d.s, e.s), Forward(e.s, f.s)
  PROVE  Forward(d.s, f.s)
<1>1. /\ d.s.snd_una \in Nat /\ d.s.rcv_nxt \in Nat
      /\ e.s.snd_una \in Nat /\ e.s.rcv_nxt \in Nat
      /\ f.s.snd_una \in Nat /\ f.s.rcv_nxt \in Nat
  BY Numbers
<1> QED
  BY <1>1 DEF Forward

\* A payload moves rcv_nxt forward by what fits into the input buffer.
LEMMA ReceiveDataOK ==
  ASSUME NEW e, EffectOK(e), NEW seg \in SegmentType
  PROVE  /\ EffectOK(ReceiveData(e, seg))
         /\ Forward(e.s, ReceiveData(e, seg).s)
         /\ ReceiveData(e, seg).s.valid = e.s.valid
<1> DEFINE n == AtMost(Len(seg.data), InFree(e.s))
           inp == e.s.input \o SubSeq(seg.data, 1, n)
           next == e.s.rcv_nxt + n
           w == [e.s EXCEPT !.input = inp, !.rcv_nxt = next]
           d == [e EXCEPT !.s.input = inp, !.s.rcv_nxt = next]
<1>1. /\ e.s.input \in Seq(Byte) /\ Len(e.s.input) \in Nat
      /\ seg.data \in Seq(Byte) /\ Len(seg.data) \in Nat
  BY DEF EffectOK, SocketOK, SocketType, SegmentType
<1>2. InFree(e.s) \in Nat /\ Len(e.s.input) + InFree(e.s) = InCapacity
  BY <1>1, FreeSizes, CapacityType DEF EffectOK, InFree
<1>3. n \in Nat /\ n <= Len(seg.data) /\ n <= InFree(e.s)
  BY <1>1, <1>2, AtMostProperties
<1>4. /\ SubSeq(seg.data, 1, n) \in Seq(Byte)
      /\ Len(SubSeq(seg.data, 1, n)) = n
  BY <1>1, <1>3, SubSeqOK
<1>5. inp \in Seq(Byte) /\ Len(inp) <= InCapacity
  BY <1>1, <1>2, <1>3, <1>4, ConcatOK
<1>6. next \in Nat /\ next >= e.s.rcv_nxt
  BY <1>3, Numbers
<1>7. ReceiveData(e, seg) \in {e, ProcessRead(d)}
  BY DEF ReceiveData, EffectOK, EffectType, SocketOK, SocketType
<1> HIDE DEF inp, next
<1>8. SocketOK(w)
  BY <1>5, <1>6 DEF EffectOK, SocketOK, SocketType
<1>9. w.valid = e.s.valid /\ w.snd_una = e.s.snd_una /\ w.rcv_nxt = next
  BY DEF EffectOK, SocketOK, SocketType
<1>10. d = [e EXCEPT !.s = w]
  BY DEF EffectOK, EffectType
<1> HIDE DEF w, d
<1>11. d \in EffectType /\ d.s = w
  BY <1>8, <1>10 DEF EffectOK, EffectType, SocketOK
<1>12. EffectOK(d) /\ Forward(e.s, d.s) /\ d.s.valid = e.s.valid
  BY <1>6, <1>8, <1>9, <1>11, Numbers DEF EffectOK, Forward
<1>13. /\ EffectOK(ProcessRead(d)) /\ Keeps(d.s, ProcessRead(d).s)
  BY <1>12, ProcessReadOK
<1>14. /\ Forward(e.s, ProcessRead(d).s) /\ ProcessRead(d).s.valid = e.s.valid
  BY <1>12, <1>13 DEF Keeps, Forward
<1>15. CASE ReceiveData(e, seg) = e
  BY <1>15, Numbers DEF Forward
<1>16. CASE ReceiveData(e, seg) = ProcessRead(d)
  BY <1>13, <1>14, <1>16
<1> QED
  BY <1>7, <1>15, <1>16

\* The last FIN
LEMMA SendLastFinOK ==
  ASSUME NEW e, EffectOK(e)
  PROVE  /\ EffectOK(SendLastFin(e))
         /\ Keeps(e.s, SendLastFin(e).s)
<1> DEFINE f == [e EXCEPT !.s.fin_state = "LAST_ACK"]
<1>1. EffectOK(f) /\ Keeps(e.s, f.s)
  BY DEF EffectOK, EffectType, SocketOK, SocketType, Keeps, FinStates
<1>2. SendLastFin(e) = Control(f, {"ack", "fin"}, e.s.snd_nxt, e.s.rcv_nxt + 1)
  BY DEF SendLastFin
<1>3. e.s.snd_nxt \in Nat /\ e.s.rcv_nxt + 1 \in Nat
  BY Numbers
<1> HIDE DEF f
<1> QED
  BY <1>1, <1>2, <1>3, ControlOK

\* A FIN, or the acknowledgement of the last one.
LEMMA ReceiveFinOK ==
  ASSUME NEW e, EffectOK(e), NEW seg \in SegmentType, NEW finAcked
  PROVE  /\ EffectOK(ReceiveFin(e, seg, finAcked))
         /\ Forward(e.s, ReceiveFin(e, seg, finAcked).s)
<1> DEFINE c == [e EXCEPT !.s.reset_time = 0, !.s.fin_state = "CLOSE_WAIT"]
           waiting == Control(c, {"ack"}, e.s.snd_nxt, e.s.rcv_nxt + 1)
           last == Reply(SendLastFin(waiting), 0)
           l == [last EXCEPT !.s.read_flag = FALSE]
           f == [e EXCEPT !.s.reset_time = 0]
           g == Control(f, {"ack"}, e.s.snd_nxt + 1, seg.seq + 1)
           h == [g EXCEPT !.frees = @ + 1]
<1>1. EffectOK(c) /\ Keeps(e.s, c.s)
  BY DEF EffectOK, EffectType, SocketOK, SocketType, Keeps, FinStates
<1>2. EffectOK(f) /\ Keeps(e.s, f.s)
  BY DEF EffectOK, EffectType, SocketOK, SocketType, Keeps
<1>3. /\ e.s.snd_nxt \in Nat /\ e.s.rcv_nxt + 1 \in Nat
      /\ e.s.snd_nxt + 1 \in Nat /\ seg.seq + 1 \in Nat
  BY Numbers DEF SegmentType
<1>4. ReceiveFin(e, seg, finAcked) \in {waiting, l, h, Free(e), e}
  BY DEF ReceiveFin
<1> HIDE DEF c, f
<1>5. EffectOK(waiting) /\ Keeps(e.s, waiting.s)
  BY <1>1, <1>3, ControlOK
<1>6. EffectOK(g) /\ Keeps(e.s, g.s)
  BY <1>2, <1>3, ControlOK
<1> HIDE DEF waiting, g
<1>7. EffectOK(last) /\ Keeps(e.s, last.s)
  <2>1. EffectOK(SendLastFin(waiting)) /\ Keeps(waiting.s, SendLastFin(waiting).s)
    BY <1>5, SendLastFinOK
  <2> QED
    BY <1>5, <2>1, ReplyOK DEF Keeps
<1> HIDE DEF last
<1>8. EffectOK(l) /\ Keeps(e.s, l.s)
  BY <1>7 DEF EffectOK, EffectType, SocketOK, SocketType, Keeps
<1>9. EffectOK(h) /\ Keeps(e.s, h.s)
  <2> DEFINE k == g.frees + 1
  <2>1. k \in Nat
    BY <1>6 DEF EffectOK, EffectType
  <2> HIDE DEF k
  <2>2. h = [g EXCEPT !.frees = k]
    BY DEF k
  <2> HIDE DEF h
  <2>3. h \in EffectType /\ h.s = g.s
    BY <1>6, <2>1, <2>2 DEF EffectOK, EffectType
  <2> QED
    BY <1>6, <2>3 DEF EffectOK
<1>10. EffectOK(Free(e)) /\ Forward(e.s, Free(e).s)
  BY FreeOK DEF Forward
<1>11. Forward(e.s, e.s)
  BY Numbers DEF Forward
<1> HIDE DEF l, h
<1> QED
  BY <1>4, <1>5, <1>8, <1>9, <1>10, <1>11, KeepsIsForward

\* TCPCallback in ESTABLISHED: acknowledgement, payload, FIN.
LEMMA ReceiveEstablishedOK ==
  ASSUME NEW e, EffectOK(e), NEW seg \in SegmentType
  PROVE  /\ EffectOK(ReceiveEstablished(e, seg))
         /\ Forward(e.s, ReceiveEstablished(e, seg).s)
<1> DEFINE acked == ReceiveAck(e, seg)
           taken == ReceiveData(acked, seg)
           finAcked == /\ e.s.fin_state = "FIN_WAIT1"
                       /\ acked.s.fin_state = "FIN_WAIT2"
           f == ReceiveFin(taken, seg, finAcked)
<1>1. EffectOK(acked) /\ Forward(e.s, acked.s)
  BY ReceiveAckOK
<1>2. ReceiveEstablished(e, seg) = f
  BY DEF ReceiveEstablished
<1> HIDE DEF finAcked, acked
<1>3. EffectOK(taken) /\ Forward(acked.s, taken.s)
  BY <1>1, ReceiveDataOK
<1> HIDE DEF taken
<1>4. EffectOK(f) /\ Forward(taken.s, f.s)
  BY <1>3, ReceiveFinOK
<1> HIDE DEF f
<1> QED
  BY <1>1, <1>2, <1>3, <1>4, ForwardTransitive

\* TCPCallback in SYN_SENT. For a bare SYN snd_una is set to ISS before
\* snd_nxt is, so that the SYNACK leaves with the numbers out of order.
LEMMA ReceiveSynSentOK ==
  ASSUME NEW e, EffectOK(e), NEW seg \in SegmentType
  PROVE  /\ EffectOK(ReceiveSynSent(e, seg))
         /\ ReceiveSynSent(e, seg).s.valid = e.s.valid
<1> DEFINE n == seg.seq + 1
           win == seg.window
           nxt == e.s.snd_nxt
           a == [e EXCEPT !.s.rcv_nxt = n, !.s.snd_una = nxt,
                          !.s.peer_window_size = win]
           open == Control(a, {"ack"}, nxt, n)
           up == [open EXCEPT !.s.state = "ESTABLISHED", !.s.timeout = 0,
                              !.s.reset_time = 0, !.s.callback = FALSE]
           b == [e EXCEPT !.s.rcv_nxt = n, !.s.snd_una = ISS]
           bs == Control(b, {"syn", "ack"}, ISS, n)
           wait == [bs EXCEPT !.s.snd_nxt = ISS + 2, !.s.state = "SYN_RECV"]
<1>1. n \in Nat /\ win \in Nat /\ nxt \in Nat
  BY Numbers, CapacityType DEF SegmentType
<1>2. ReceiveSynSent(e, seg) \in {up, Reply(up, 0), wait, e}
  BY DEF ReceiveSynSent
<1>3. nxt = e.s.snd_nxt
  OBVIOUS
<1> HIDE DEF n, win, nxt
<1>4. EffectOK(a) /\ a.s.valid = e.s.valid
  <2> DEFINE w == [e.s EXCEPT !.rcv_nxt = n, !.snd_una = nxt,
                              !.peer_window_size = win]
  <2>0. SocketOK(e.s) /\ nxt <= e.s.snd_nxt
    BY <1>1, <1>3 DEF EffectOK
  <2>1. SocketOK(w) /\ w.valid = e.s.valid
    BY <1>1, <2>0 DEF SocketOK, SocketType
  <2>2. a = [e EXCEPT !.s = w]
    BY DEF EffectOK, EffectType
  <2> HIDE DEF w, a
  <2>3. a \in EffectType /\ a.s = w
    BY <2>1, <2>2 DEF EffectOK, EffectType, SocketOK
  <2> QED
    BY <2>1, <2>3 DEF EffectOK
<1>5. EffectOK(open) /\ open.s.valid = e.s.valid
  <2> HIDE DEF a
  <2> QED
    BY <1>1, <1>4, ControlOK
<1>6. EffectOK(up) /\ up.s.valid = e.s.valid
  <2> HIDE DEF open
  <2> QED
    BY <1>5 DEF EffectOK, EffectType, SocketOK, SocketType, States
<1>7. EffectOK(Reply(up, 0)) /\ Reply(up, 0).s.valid = e.s.valid
  <2> HIDE DEF up
  <2> QED
    BY <1>6, ReplyOK
<1>8. EffectOK(wait) /\ wait.s.valid = e.s.valid
  <2> DEFINE u == [e.s EXCEPT !.rcv_nxt = n, !.snd_una = ISS]
             w == [u EXCEPT !.snd_nxt = ISS + 2, !.state = "SYN_RECV"]
  <2>1. SocketOK(e.s) /\ ISS \in Nat /\ ISS + 2 \in Nat /\ ISS <= ISS + 2
    BY DEF EffectOK, ISS
  <2>2. u \in SocketType /\ Len(u.input) <= InCapacity /\ u.valid = e.s.valid
    BY <1>1, <2>1 DEF SocketOK, SocketType
  <2>3. SocketOK(w) /\ w.valid = e.s.valid
    BY <1>1, <2>1 DEF SocketOK, SocketType, States
  <2>4. b = [e EXCEPT !.s = u]
    BY DEF EffectOK, EffectType
  <2> HIDE DEF b, u
  <2>5. b \in EffectType /\ b.s = u
    BY <2>2, <2>4 DEF EffectOK, EffectType
  <2>6. bs \in EffectType /\ bs.s = u
    BY <1>1, <2>1, <2>2, <2>5, ControlTyped
  <2> HIDE DEF bs
  <2>7. wait = [bs EXCEPT !.s = w]
    BY <2>6 DEF EffectType
  <2> HIDE DEF w, wait
  <2>8. wait \in EffectType /\ wait.s = w
    BY <2>3, <2>6, <2>7 DEF EffectType, SocketOK
  <2> QED
    BY <2>3, <2>8 DEF EffectOK
<1> HIDE DEF up, wait
<1> QED
  BY <1>2, <1>6, <1>7, <1>8
\* TCPCallback in SYN_RECV
LEMMA ReceiveSynRecvOK ==
  ASSUME NEW e, EffectOK(e), NEW seg \in SegmentType
  PROVE  /\ EffectOK(ReceiveSynRecv(e, seg))
         /\ ReceiveSynRecv(e, seg).s.valid = e.s.valid
<1> DEFINE n == seg.seq + Len(seg.data)
           win == seg.window
           nxt == e.s.snd_nxt
           f == IF e.s.callback THEN Reply(e, 0) ELSE e
           w == [e.s EXCEPT !.rcv_nxt = n, !.snd_una = nxt,
                            !.peer_window_size = win, !.state = "ESTABLISHED",
                            !.timeout = 0, !.reset_time = 0, !.callback = FALSE]
           a == [f EXCEPT !.s.rcv_nxt = n, !.s.snd_una = nxt,
                          !.s.peer_window_size = win,
                          !.s.state = "ESTABLISHED", !.s.timeout = 0,
                          !.s.reset_time = 0, !.s.callback = FALSE]
<1>1. n \in Nat /\ win \in Nat /\ nxt \in Nat
  <2>1. seg.data \in Seq(Byte) /\ seg.seq \in Nat /\ seg.window \in Nat
    BY CapacityType DEF SegmentType
  <2>2. Len(seg.data) \in Nat
    BY <2>1
  <2> QED
    BY <2>1, <2>2, Numbers
<1>2. ReceiveSynRecv(e, seg) \in {a, e}
  BY DEF ReceiveSynRecv
<1>3. nxt <= e.s.snd_nxt
  BY <1>1
<1>4. EffectOK(f) /\ f.s = e.s
  BY ReplyOK
<1> HIDE DEF n, win, nxt, f
<1>5. SocketOK(e.s)
  BY DEF EffectOK
<1>6. SocketOK(w) /\ w.valid = e.s.valid
  BY <1>1, <1>3, <1>5 DEF SocketOK, SocketType, States
<1>7. a = [f EXCEPT !.s = w]
  BY <1>4 DEF EffectOK, EffectType
<1> HIDE DEF w, a
<1>8. a \in EffectType /\ a.s = w
  BY <1>4, <1>6, <1>7 DEF EffectOK, EffectType, SocketOK
<1> QED
  BY <1>2, <1>6, <1>8 DEF EffectOK

\* Effects start from the socket as it is.
LEMMA EffectOfSocketOK ==
  ASSUME NEW s, SocketOK(s)
  PROVE  EffectOK(Effect(s)) /\ Effect(s).s = s
<1>1. <<>> \in Seq(SegmentType) /\ <<>> \in Seq(Int) /\ <<>> \in Seq(Byte)
  BY EmptySeq
<1>2. Effect(s) \in EffectType /\ Effect(s).s = s
  BY <1>1 DEF Effect, EffectType, SocketOK
<1> QED
  BY <1>2 DEF EffectOK

\* TCPCallback in any state.
LEMMA TCPCallbackOK ==
  ASSUME NEW s, SocketOK(s), NEW seg \in SegmentType
  PROVE  /\ EffectOK(TCPCallback(s, seg))
         /\ TCPCallback(s, seg).s.valid => s.valid
         /\ s.state = "ESTABLISHED" => Forward(s, TCPCallback(s, seg).s)
<1> DEFINE e == Effect(s)
<1>1. EffectOK(e) /\ e.s = s
  BY EffectOfSocketOK
<1>2. /\ EffectOK(ReceiveEstablished(e, seg))
      /\ Forward(s, ReceiveEstablished(e, seg).s)
  BY <1>1, ReceiveEstablishedOK
<1>3. /\ EffectOK(ReceiveSynSent(e, seg))
      /\ ReceiveSynSent(e, seg).s.valid = s.valid
  BY <1>1, ReceiveSynSentOK
<1>4. /\ EffectOK(ReceiveSynRecv(e, seg))
      /\ ReceiveSynRecv(e, seg).s.valid = s.valid
  BY <1>1, ReceiveSynRecvOK
<1> DEFINE c == TCPCallback(s, seg)
<1>5. /\ s.state = "ESTABLISHED" => c = ReceiveEstablished(e, seg)
      /\ s.state = "SYN_SENT" => c = ReceiveSynSent(e, seg)
      /\ s.state = "SYN_RECV" => c = ReceiveSynRecv(e, seg)
      /\ s.state \notin {"ESTABLISHED", "SYN_SENT", "SYN_RECV"} => c = e
  BY DEF TCPCallback
<1> HIDE DEF c, e
<1>6. EffectOK(c) /\ (c.s.valid => s.valid)
             /\ (s.state = "ESTABLISHED" => Forward(s, c.s))
  BY <1>1, <1>2, <1>3, <1>4, <1>5 DEF Forward
<1> QED
  BY <1>6 DEF c

-----------------------------------------------------------------------------
\* A timeout rewinds snd_nxt to snd_una and not further.
LEMMA ResendOK ==
  ASSUME NEW e, EffectOK(e)
  PROVE  /\ EffectOK(Resend(e))
         /\ Keeps(e.s, Resend(e).s)
<1> DEFINE una == e.s.snd_una
           r == [e EXCEPT !.s.snd_nxt = una]
<1>1. una \in Nat /\ e.s.rcv_nxt \in Nat /\ ISS \in Nat /\ una = e.s.snd_una
  BY Numbers DEF ISS
<1>2. Resend(e) \in {Control(e, {"syn"}, ISS, 0),
                     Control(e, {"syn", "ack"}, ISS, e.s.rcv_nxt),
                     ProcessWriteSend(r)}
  BY DEF Resend
<1>3. EffectOK(r) /\ Keeps(e.s, r.s)
  <2> DEFINE w == [e.s EXCEPT !.snd_nxt = una]
  <2>0. SocketOK(e.s) /\ e.s.snd_una <= una
    BY <1>1 DEF EffectOK
  <2> HIDE DEF una
  <2>1. SocketOK(w) /\ Keeps(e.s, w)
    BY <1>1, <2>0 DEF SocketOK, SocketType, Keeps
  <2>2. r = [e EXCEPT !.s = w]
    BY DEF EffectOK, EffectType
  <2> HIDE DEF w, r
  <2>3. r \in EffectType /\ r.s = w
    BY <2>1, <2>2 DEF EffectOK, EffectType, SocketOK
  <2> QED
    BY <2>1, <2>3 DEF EffectOK
<1> HIDE DEF r
<1>4. EffectOK(ProcessWriteSend(r)) /\ Keeps(e.s, ProcessWriteSend(r).s)
  BY <1>3, ProcessWriteSendOK DEF Keeps
<1>5. /\ EffectOK(Control(e, {"syn"}, ISS, 0))
      /\ Keeps(e.s, Control(e, {"syn"}, ISS, 0).s)
  BY <1>1, ControlOK DEF Keeps
<1>6. /\ EffectOK(Control(e, {"syn", "ack"}, ISS, e.s.rcv_nxt))
      /\ Keeps(e.s, Control(e, {"syn", "ack"}, ISS, e.s.rcv_nxt).s)
  BY <1>1, ControlOK DEF Keeps
<1> QED
  BY <1>2, <1>4, <1>5, <1>6

\* An iteration of TCPTimeout: nothing, a resend, or the reset.
LEMMA TCPTimeoutOK ==
  ASSUME NEW s, SocketOK(s)
  PROVE  /\ EffectOK(TCPTimeout(s))
         /\ Forward(s, TCPTimeout(s).s)
<1> DEFINE t == [s EXCEPT !.timeout = @ + 1]
           e == Effect(t)
           o == [s EXCEPT !.timer = FALSE]
           over == [Effect(s) EXCEPT !.s.timer = FALSE]
           again == Resend(e)
           resent == [again EXCEPT !.s.timeout = 0, !.s.reset_time = @ + 1]
           final == Control(resent, {"ack"}, resent.s.snd_nxt, resent.s.rcv_nxt)
<1>1. TCPTimeout(s) \in {over, e, resent, ShutdownSocket(final)}
  BY DEF TCPTimeout
<1>2. SocketOK(t) /\ Keeps(s, t)
  <2> DEFINE k == s.timeout + 1
  <2>1. s.timeout \in Nat
    BY DEF SocketOK, SocketType
  <2>2. k \in Nat
    BY <2>1
  <2>3. t = [s EXCEPT !.timeout = k]
    BY DEF SocketOK, SocketType
  <2> HIDE DEF k, t
  <2> QED
    BY <2>2, <2>3 DEF SocketOK, SocketType, Keeps
<1>3. SocketOK(o) /\ Keeps(s, o)
  BY DEF SocketOK, SocketType, Keeps
<1>4. EffectOK(Effect(s)) /\ Effect(s).s = s
  BY EffectOfSocketOK
<1>5. EffectOK(over) /\ Keeps(s, over.s)
  <2>1. over = [Effect(s) EXCEPT !.s = o]
    BY <1>4 DEF EffectOK, EffectType
  <2> HIDE DEF over, o
  <2>2. over \in EffectType /\ over.s = o
    BY <1>3, <1>4, <2>1 DEF EffectOK, EffectType, SocketOK
  <2> QED
    BY <1>3, <2>2 DEF EffectOK
<1> HIDE DEF over, o, t
<1>6. EffectOK(e) /\ Keeps(s, e.s)
  BY <1>2, EffectOfSocketOK
<1> HIDE DEF e
<1>7. EffectOK(again) /\ Keeps(s, again.s)
  BY <1>6, ResendOK DEF Keeps
<1> HIDE DEF again
<1>8. EffectOK(resent) /\ Keeps(s, resent.s)
  <2> DEFINE k == again.s.reset_time + 1
             w == [again.s EXCEPT !.timeout = 0, !.reset_time = k]
  <2>1. k \in Nat
    <3>1. again.s.reset_time \in Nat
      BY <1>7 DEF EffectOK, SocketOK, SocketType
    <3> QED
      BY <3>1
  <2>2. resent = [again EXCEPT !.s.timeout = 0, !.s.reset_time = k]
    BY <1>7 DEF EffectOK, EffectType, SocketOK, SocketType
  <2> HIDE DEF k
  <2>3. SocketOK(w) /\ Keeps(again.s, w)
    BY <1>7, <2>1 DEF EffectOK, SocketOK, SocketType, Keeps
  <2>4. resent = [again EXCEPT !.s = w]
    BY <1>7, <2>2 DEF EffectOK, EffectType
  <2> HIDE DEF resent, w
  <2>5. resent \in EffectType /\ resent.s = w
    BY <1>7, <2>3, <2>4 DEF EffectOK, EffectType, SocketOK
  <2> QED
    BY <1>7, <2>3, <2>5 DEF EffectOK, Keeps
<1> HIDE DEF resent
<1>9. EffectOK(final)
  BY <1>8, Numbers, ControlOK
<1> HIDE DEF final
<1>10. EffectOK(ShutdownSocket(final)) /\ ~ShutdownSocket(final).s.valid
  BY <1>9, ShutdownSocketOK
<1>11. \A u : Keeps(s, u) => Forward(s, u)
  BY <1>4, KeepsIsForward
<1> QED
  BY <1>1, <1>5, <1>6, <1>8, <1>10, <1>11 DEF Forward

-----------------------------------------------------------------------------
\* The sockets connect and accept set up.
LEMMA OpenSocketOK ==
  ASSUME NEW state \in States, NEW rcv_nxt \in Nat
  PROVE  SocketOK(OpenSocket(state, rcv_nxt))
<1>1. SocketOK(FreeSocket) /\ ISS \in Nat /\ ISS + 1 \in Nat /\ ISS <= ISS + 1
  BY FreeSocketOK DEF ISS
<1> QED
  BY <1>1 DEF OpenSocket, SocketOK, SocketType

\* OPT_CONNECT
LEMMA ConnectOK ==
  EffectOK(Connect)
<1> DEFINE e == Effect(OpenSocket("SYN_SENT", 0))
<1>1. EffectOK(e)
  BY OpenSocketOK, EffectOfSocketOK DEF States
<1> HIDE DEF e
<1>2. EffectOK(Control(e, {"syn"}, ISS, 0))
  BY <1>1, ControlOK DEF ISS
<1> QED
  BY <1>2 DEF Connect, e

\* TCPAccept
LEMMA TCPAcceptOK ==
  ASSUME NEW rcv_nxt \in Nat
  PROVE  EffectOK(TCPAccept(rcv_nxt))
<1> DEFINE e == Effect(OpenSocket("SYN_RECV", rcv_nxt))
<1>1. EffectOK(e)
  BY OpenSocketOK, EffectOfSocketOK DEF States
<1> HIDE DEF e
<1>2. EffectOK(Control(e, {"syn", "ack"}, ISS, rcv_nxt))
  BY <1>1, ControlOK DEF ISS
<1> QED
  BY <1>2 DEF TCPAccept, e

\* OPT_READ
LEMMA ReadOK ==
  ASSUME NEW s, SocketOK(s), NEW len \in Nat
  PROVE  /\ EffectOK(Read(s, len))
         /\ Keeps(s, Read(s, len).s)
<1> DEFINE e == Effect(s)
           reading == [e EXCEPT !.s.read_flag = TRUE, !.s.read_len = len]
           refused == Reply(e, CanRead(s))
           last == Reply(SendLastFin(e), 0)
<1>1. EffectOK(e) /\ e.s = s
  BY EffectOfSocketOK
<1>2. CanRead(s) \in Int
  BY DEF CanRead, ENOTSOCK, EINVAL
<1>3. Read(s, len) \in {refused, last, ProcessRead(reading), reading}
  BY DEF Read
<1> HIDE DEF e
<1>4. EffectOK(refused) /\ Keeps(s, refused.s)
  BY <1>1, <1>2, ReplyOK DEF Keeps
<1>5. EffectOK(last) /\ Keeps(s, last.s)
  BY <1>1, SendLastFinOK, ReplyOK
<1>6. EffectOK(reading) /\ Keeps(s, reading.s)
  BY <1>1 DEF EffectOK, EffectType, SocketOK, SocketType, Keeps
<1> HIDE DEF refused, last, reading
<1>7. EffectOK(ProcessRead(reading)) /\ Keeps(s, ProcessRead(reading).s)
  BY <1>6, ProcessReadOK DEF Keeps
<1> QED
  BY <1>3, <1>4, <1>5, <1>6, <1>7

\* OPT_WRITE
LEMMA WriteOK ==
  ASSUME NEW s, SocketOK(s), NEW data \in Seq(Byte)
  PROVE  /\ EffectOK(Write(s, data))
         /\ Keeps(s, Write(s, data).s)
<1> DEFINE e == Effect(s)
           writing == [e EXCEPT !.s.write_flag = TRUE, !.s.write_pipe = data]
           refused == Reply(e, CanWrite(s))
<1>1. EffectOK(e) /\ e.s = s
  BY EffectOfSocketOK
<1>2. CanWrite(s) \in Int
  BY DEF CanWrite, ENOTSOCK, EINVAL
<1>3. Write(s, data) \in {refused, ProcessWriteSend(writing), writing}
  BY DEF Write
<1> HIDE DEF e
<1>4. EffectOK(refused) /\ Keeps(s, refused.s)
  BY <1>1, <1>2, ReplyOK DEF Keeps
<1>5. EffectOK(writing) /\ Keeps(s, writing.s)
  BY <1>1 DEF EffectOK, EffectType, SocketOK, SocketType, Keeps
<1> HIDE DEF refused, writing
<1>6. EffectOK(ProcessWriteSend(writing)) /\ Keeps(s, ProcessWriteSend(writing).s)
  BY <1>5, ProcessWriteSendOK DEF Keeps
<1> QED
  BY <1>3, <1>4, <1>5, <1>6

\* OPT_CLOSE
LEMMA CloseOK ==
  ASSUME NEW s, SocketOK(s)
  PROVE  /\ EffectOK(Close(s))
         /\ Forward(s, Close(s).s)
<1> DEFINE e == Effect(s)
           closing == [e EXCEPT !.s.fin_tag = TRUE]
           gone == Reply(Free(e), 0)
<1>1. EffectOK(e) /\ e.s = s
  BY EffectOfSocketOK
<1>2. Close(s) \in {Reply(e, 0), ProcessWriteSend(closing), gone}
  BY DEF Close
<1> HIDE DEF e
<1>3. EffectOK(Reply(e, 0)) /\ Keeps(s, Reply(e, 0).s)
  BY <1>1, ReplyOK DEF Keeps
<1>4. EffectOK(gone) /\ ~gone.s.valid
  BY <1>1, FreeOK, ReplyOK
<1>5. EffectOK(closing) /\ Keeps(s, closing.s)
  BY <1>1 DEF EffectOK, EffectType, SocketOK, SocketType, Keeps
<1> HIDE DEF closing, gone
<1>6. EffectOK(ProcessWriteSend(closing)) /\ Keeps(s, ProcessWriteSend(closing).s)
  BY <1>5, ProcessWriteSendOK DEF Keeps
<1>7. \A u : Keeps(s, u) => Forward(s, u)
  BY <1>1, KeepsIsForward
<1> QED
  BY <1>2, <1>3, <1>4, <1>6, <1>7 DEF Forward

-----------------------------------------------------------------------------
(***************************************************************************)
(* The connection                                                          *)
(***************************************************************************)
\* What was acknowledged was sent.
SocketsOrdered == \A h \in Hosts : sock[h].snd_una <= sock[h].snd_nxt

\* An application that has not opened its socket is blocked in connect or
\* accept, or its host has no socket.
FreshHasNoSocket ==
    \A h \in Hosts : app[h] = "new" =>
        /\ call[h] \in {"none", "connect", "accept"}
        /\ call[h] = "none" => ~sock[h].valid

IInv == TypeOK /\ SocketsOrdered /\ FreshHasNoSocket

\* The variables Apply changes, and what it leaves of the invariant.
HostsTyped ==
    /\ sock \in [Hosts -> SocketType]
    /\ \A h \in Hosts : SocketOK(sock[h])
    /\ app \in [Hosts -> {"new", "open", "eof", "error", "closed"}]
    /\ call \in [Hosts -> Calls]
    /\ written \in [Hosts -> Nat] /\ got \in [Hosts -> Seq(Byte)]
    /\ linger \in [Hosts -> Nat]
    /\ down \in [Hosts -> {"no", "blocked", "crashed"}]
    /\ FreshHasNoSocket

WorldTyped ==
    /\ net \in [Hosts -> Seq(SegmentType)]
    /\ listener \in [waiting : Seq(Nat), accepting : BOOLEAN]
    /\ lost \in 0 .. Losses
    /\ ticked \subseteq Hosts

\* The invariant in two halves.
LEMMA InvariantParts ==
  IInv <=> HostsTyped /\ WorldTyped
BY DEF IInv, TypeOK, SocketsOrdered, HostsTyped, WorldTyped, SocketOK

\* The peer of a host is a host.
LEMMA PeerIsHost ==
  ASSUME NEW h \in Hosts
  PROVE  Peer(h) \in Hosts
BY DEF Peer, Hosts

\* The effect of a routine on its host keeps the invariant, and an answer to
\* connect or accept ends the first phase of the application.
LEMMA ApplyOK ==
  ASSUME HostsTyped, NEW h \in Hosts, NEW e, EffectOK(e), NEW c \in Calls,
         Apply(h, e, c),
         app[h] = "new" => /\ c \in {"none", "connect", "accept"}
                           /\ c = "none" => ~e.s.valid
  PROVE  HostsTyped'
<1> DEFINE answered == c # "none" /\ e.rep # <<>>
<1>1. /\ e.s \in SocketType /\ SocketOK(e.s)
      /\ e.took \in Nat /\ e.gave \in Seq(Byte) /\ e.frees \in Nat
      /\ e.rep \in Seq(Int)
  BY DEF EffectOK, EffectType
<1>2. sock' = [sock EXCEPT ![h] = e.s]
  BY DEF Apply
<1>3. sock' \in [Hosts -> SocketType] /\ \A g \in Hosts : SocketOK(sock'[g])
  BY <1>1, <1>2 DEF HostsTyped
<1>4. written' \in [Hosts -> Nat]
  <2>1. written[h] + e.took \in Nat
    BY <1>1 DEF HostsTyped
  <2> QED
    BY <2>1 DEF HostsTyped, Apply
<1>5. got' \in [Hosts -> Seq(Byte)]
  <2>1. got[h] \o e.gave \in Seq(Byte)
    BY <1>1, ConcatOK DEF HostsTyped
  <2> QED
    BY <2>1 DEF HostsTyped, Apply
<1>6. linger' \in [Hosts -> Nat]
  <2>1. linger[h] + e.frees \in Nat
    BY <1>1 DEF HostsTyped
  <2> QED
    BY <2>1 DEF HostsTyped, Apply
<1>7. call' \in [Hosts -> Calls]
  BY DEF HostsTyped, Apply, Calls
<1>8. down' \in [Hosts -> {"no", "blocked", "crashed"}]
  BY DEF HostsTyped, Apply
<1>9. AppAfter(h, c, Head(e.rep)) \in {"new", "open", "eof", "error", "closed"}
  BY DEF HostsTyped, AppAfter
<1>10. app' \in [Hosts -> {"new", "open", "eof", "error", "closed"}]
  BY <1>9 DEF HostsTyped, Apply
<1>11. FreshHasNoSocket'
  <2> SUFFICES ASSUME NEW g \in Hosts, app'[g] = "new"
               PROVE  /\ call'[g] \in {"none", "connect", "accept"}
                      /\ call'[g] = "none" => ~sock'[g].valid
    BY DEF FreshHasNoSocket
  <2>1. CASE g # h
    BY <2>1, <1>2 DEF HostsTyped, FreshHasNoSocket, Apply
  <2>2. CASE g = h /\ answered
    <3>1. app'[h] = AppAfter(h, c, Head(e.rep))
      BY <2>2 DEF HostsTyped, Apply
    <3> QED
      BY <2>2, <3>1 DEF AppAfter, Calls
  <2>3. CASE g = h /\ ~answered
    <3>1. app'[h] = app[h] /\ call'[h] = c /\ sock'[h] = e.s
      BY <2>3 DEF HostsTyped, Apply
    <3> QED
      BY <2>3, <3>1
  <2> QED
    BY <2>1, <2>2, <2>3
<1> QED
  BY <1>3, <1>4, <1>5, <1>6, <1>7, <1>8, <1>10, <1>11 DEF HostsTyped

\* What a host sends are segments.
LEMMA SendsOK ==
  ASSUME net \in [Hosts -> Seq(SegmentType)], NEW h \in Hosts, NEW e, EffectOK(e)
  PROVE  Sends(h, e) \in [Hosts -> Seq(SegmentType)]
<1>1. net[Peer(h)] \in Seq(SegmentType) /\ e.sent \in Seq(SegmentType)
  BY PeerIsHost DEF EffectOK, EffectType
<1>2. net[Peer(h)] \o e.sent \in Seq(SegmentType)
  BY <1>1, ConcatOK
<1> QED
  BY <1>2 DEF Sends

\* A segment is taken from the front of net[h], others join net[Peer(h)].
LEMMA TakesOK ==
  ASSUME net \in [Hosts -> Seq(SegmentType)], NEW h \in Hosts, net[h] # <<>>
  PROVE  /\ Head(net[h]) \in SegmentType
         /\ Tail(net[h]) \in Seq(SegmentType)
         /\ [net EXCEPT ![h] = Tail(@)] \in [Hosts -> Seq(SegmentType)]
<1>1. net[h] \in Seq(SegmentType)
  OBVIOUS
<1>2. Head(net[h]) \in SegmentType /\ Tail(net[h]) \in Seq(SegmentType)
  BY <1>1
<1> QED
  BY <1>2

-----------------------------------------------------------------------------
\* The initial states satisfy the invariant.
LEMMA InitOK == Init => IInv
<1> SUFFICES ASSUME Init PROVE IInv
  OBVIOUS
<1>1. FreeSocket \in SocketType /\ SocketOK(FreeSocket) /\ ~FreeSocket.valid
  BY FreeSocketOK DEF SocketOK, FreeSocket
<1>2. <<>> \in Seq(SegmentType) /\ <<>> \in Seq(Nat) /\ <<>> \in Seq(Byte)
  BY EmptySeq
<1>3. HostsTyped
  BY <1>1, <1>2 DEF Init, HostsTyped, FreshHasNoSocket, Calls
<1>4. WorldTyped
  BY <1>2, ConnectionAssumption DEF Init, WorldTyped
<1> QED
  BY <1>3, <1>4, InvariantParts

\* One lemma for each action of Next.
LEMMA AppConnectOK ==
  ASSUME HostsTyped, WorldTyped, AppConnect
  PROVE  HostsTyped' /\ WorldTyped'
<1>1. Client \in Hosts /\ "connect" \in Calls
  BY DEF Hosts, Calls
<1>2. EffectOK(Connect)
  BY ConnectOK
<1>3. HostsTyped'
  BY <1>1, <1>2, ApplyOK DEF AppConnect
<1>4. net' \in [Hosts -> Seq(SegmentType)]
  BY <1>1, <1>2, SendsOK DEF AppConnect, WorldTyped
<1> QED
  BY <1>3, <1>4 DEF WorldTyped, AppConnect

\* TCPAccept for a waiting or an arriving SYN.
LEMMA AcceptOK ==
  ASSUME HostsTyped, WorldTyped, NEW rcv_nxt \in Nat,
         NEW inbound \in Seq(SegmentType), Accept(rcv_nxt, inbound)
  PROVE  /\ HostsTyped'
         /\ net' \in [Hosts -> Seq(SegmentType)]
         /\ listener' \in [waiting : Seq(Nat), accepting : BOOLEAN]
<1>1. Client \in Hosts /\ Server \in Hosts /\ "accept" \in Calls
  BY DEF Hosts, Calls
<1>2. EffectOK(TCPAccept(rcv_nxt))
  BY TCPAcceptOK
<1>3. HostsTyped'
  BY <1>1, <1>2, ApplyOK DEF Accept
<1>4. TCPAccept(rcv_nxt).sent \in Seq(SegmentType)
  BY <1>2 DEF EffectOK, EffectType
<1>5. net[Client] \o TCPAccept(rcv_nxt).sent \in Seq(SegmentType)
  BY <1>1, <1>4, ConcatOK DEF WorldTyped
<1>6. net' \in [Hosts -> Seq(SegmentType)]
  BY <1>1, <1>5, ConnectionAssumption DEF WorldTyped, Accept
<1>7. <<>> \in Seq(Nat)
  BY EmptySeq
<1> QED
  BY <1>3, <1>6, <1>7 DEF Accept

\* OPT_ACCEPT
LEMMA AppAcceptOK ==
  ASSUME HostsTyped, WorldTyped, AppAccept
  PROVE  HostsTyped' /\ WorldTyped'
<1>1. Server \in Hosts /\ "accept" \in Calls
  BY DEF Hosts, Calls
<1>2. CASE listener.waiting # <<>>
  <2>1. Head(listener.waiting) \in Nat
    <3>1. listener.waiting \in Seq(Nat)
      BY DEF WorldTyped
    <3> QED
      BY <1>2, <3>1
  <2>2. net[Server] \in Seq(SegmentType)
    BY <1>1 DEF WorldTyped
  <2>3. Accept(Head(listener.waiting), net[Server])
    BY <1>2 DEF AppAccept
  <2> QED
    BY <2>1, <2>2, <2>3, AcceptOK DEF AppAccept, WorldTyped
<1>3. CASE listener.waiting = <<>>
  <2>1. HostsTyped'
    BY <1>1, <1>3 DEF AppAccept, HostsTyped, FreshHasNoSocket
  <2> QED
    BY <1>3, <2>1 DEF AppAccept, WorldTyped
<1> QED
  BY <1>2, <1>3

\* A call of an application that has its socket.
LEMMA AppCallOK ==
  ASSUME HostsTyped, WorldTyped, NEW h \in Hosts, NEW e, EffectOK(e),
         NEW c \in Calls, app[h] # "new", AppCall(h, e, c)
  PROVE  HostsTyped' /\ WorldTyped'
<1>1. Apply(h, e, c) /\ net' = Sends(h, e)
  BY DEF AppCall
<1>2. HostsTyped'
  BY <1>1, ApplyOK
<1>3. net' \in [Hosts -> Seq(SegmentType)]
  BY <1>1, SendsOK DEF WorldTyped
<1> QED
  BY <1>2, <1>3 DEF AppCall, WorldTyped

\* The bytes an application writes are bytes of its stream.
LEMMA DataOK ==
  ASSUME HostsTyped, NEW h \in Hosts, CanWriteNow(h), NEW n,
         n = AtMost(WriteLen, StreamLength[h] - written[h])
  PROVE  [k \in 1 .. n |-> written[h] + k] \in Seq(Byte)
<1>1. /\ StreamLength[Client] \in Nat /\ StreamLength[Server] \in Nat
      /\ StreamLength[h] \in Nat /\ h \in {Client, Server}
      /\ WriteLen \in Nat /\ written[h] \in Nat
  BY ConnectionAssumption DEF Hosts, HostsTyped
<1>2. StreamLength[h] - written[h] \in Nat
  BY <1>1 DEF CanWriteNow
<1>3. n \in Nat /\ n <= StreamLength[h] - written[h]
  BY <1>1, <1>2, AtMostProperties
<1>4. StreamLength[h] <= StreamLength[Client] + StreamLength[Server]
  BY <1>1
<1>5. ASSUME NEW k \in 1 .. n PROVE written[h] + k \in Byte
  BY <1>1, <1>3, <1>4 DEF Byte
<1> DEFINE f == [k \in 1 .. n |-> written[h] + k]
<1>6. f \in [1 .. n -> Byte]
  BY <1>5
<1> HIDE DEF f
<1>7. f \in Seq(Byte)
  BY <1>3, <1>6, FunctionOK
<1> QED
  BY <1>7 DEF f

\* AppWrite keeps the invariant.
LEMMA AppWriteOK ==
  ASSUME HostsTyped, WorldTyped, NEW h \in Hosts, AppWrite(h)
  PROVE  HostsTyped' /\ WorldTyped'
<1> DEFINE n == AtMost(WriteLen, StreamLength[h] - written[h])
           data == [k \in 1 .. n |-> written[h] + k]
           e == Write(sock[h], data)
<1>1. CanWriteNow(h) /\ AppCall(h, e, "write")
  BY DEF AppWrite
<1>2. data \in Seq(Byte)
  BY <1>1, DataOK
<1> HIDE DEF data
<1>3. EffectOK(e)
  BY <1>2, WriteOK DEF HostsTyped
<1>4. app[h] # "new" /\ "write" \in Calls
  BY <1>1 DEF CanWriteNow, Ready, Calls
<1> HIDE DEF e
<1> QED
  BY <1>1, <1>3, <1>4, AppCallOK

\* AppRead keeps the invariant.
LEMMA AppReadOK ==
  ASSUME HostsTyped, WorldTyped, NEW h \in Hosts, AppRead(h)
  PROVE  HostsTyped' /\ WorldTyped'
<1> DEFINE e == Read(sock[h], ReadLen)
<1>1. CanReadNow(h) /\ AppCall(h, e, "read")
  BY DEF AppRead
<1>2. ReadLen \in Nat
  BY ConnectionAssumption
<1>3. EffectOK(e)
  BY <1>2, ReadOK DEF HostsTyped
<1>4. app[h] # "new" /\ "read" \in Calls
  BY <1>1 DEF CanReadNow, Ready, Calls
<1> HIDE DEF e
<1> QED
  BY <1>1, <1>3, <1>4, AppCallOK

\* AppClose keeps the invariant.
LEMMA AppCloseOK ==
  ASSUME HostsTyped, WorldTyped, NEW h \in Hosts, AppClose(h)
  PROVE  HostsTyped' /\ WorldTyped'
<1> DEFINE e == Close(sock[h])
<1>1. CanCloseNow(h) /\ AppCall(h, e, "close")
  BY DEF AppClose
<1>2. EffectOK(e)
  BY CloseOK DEF HostsTyped
<1>3. app[h] # "new" /\ "close" \in Calls
  BY <1>1 DEF CanCloseNow, Ready, Calls
<1> HIDE DEF e
<1> QED
  BY <1>1, <1>2, <1>3, AppCallOK

\* DeliverToSocket keeps the invariant.
LEMMA DeliverToSocketOK ==
  ASSUME HostsTyped, WorldTyped, NEW h \in Hosts, DeliverToSocket(h)
  PROVE  HostsTyped' /\ WorldTyped'
<1> DEFINE e == TCPCallback(sock[h], Head(net[h]))
<1>1. /\ net[h] # <<>> /\ sock[h].valid
      /\ Apply(h, e, call[h])
      /\ net' = [net EXCEPT ![h] = Tail(@), ![Peer(h)] = @ \o e.sent]
  BY DEF DeliverToSocket
<1>2. /\ Head(net[h]) \in SegmentType /\ Tail(net[h]) \in Seq(SegmentType)
      /\ net \in [Hosts -> Seq(SegmentType)]
  BY <1>1, TakesOK DEF WorldTyped
<1>3. EffectOK(e)
  BY <1>2, TCPCallbackOK DEF HostsTyped
<1> HIDE DEF e
<1>4. call[h] \in Calls
  BY DEF HostsTyped
<1>5. app[h] = "new" => call[h] \in {"connect", "accept"}
  BY <1>1 DEF HostsTyped, FreshHasNoSocket
<1>6. HostsTyped'
  BY <1>1, <1>3, <1>4, <1>5, ApplyOK
<1>7. Peer(h) \in Hosts /\ Peer(h) # h
  BY ConnectionAssumption DEF Peer, Hosts
<1>8. net[Peer(h)] \o e.sent \in Seq(SegmentType)
  BY <1>2, <1>3, <1>7, ConcatOK DEF EffectOK, EffectType
<1>9. net' \in [Hosts -> Seq(SegmentType)]
  BY <1>1, <1>2, <1>7, <1>8
<1> QED
  BY <1>6, <1>9 DEF DeliverToSocket, WorldTyped

\* DeliverToListener keeps the invariant.
LEMMA DeliverToListenerOK ==
  ASSUME HostsTyped, WorldTyped, DeliverToListener
  PROVE  HostsTyped' /\ WorldTyped'
<1>1. Server \in Hosts
  BY DEF Hosts
<1>2. net[Server] # <<>> /\ net \in [Hosts -> Seq(SegmentType)]
  BY DEF DeliverToListener, WorldTyped
<1>3. /\ Head(net[Server]) \in SegmentType
      /\ Tail(net[Server]) \in Seq(SegmentType)
      /\ [net EXCEPT ![Server] = Tail(@)] \in [Hosts -> Seq(SegmentType)]
  BY <1>1, <1>2, TakesOK
<1>4. Head(net[Server]).seq + 1 \in Nat
  <2>1. Head(net[Server]).seq \in Nat
    BY <1>3 DEF SegmentType
  <2> QED
    BY <2>1
<1>5. CASE listener.accepting
  <2>1. Accept(Head(net[Server]).seq + 1, Tail(net[Server]))
    BY <1>5 DEF DeliverToListener
  <2> QED
    BY <1>3, <1>4, <2>1, AcceptOK DEF DeliverToListener, WorldTyped
<1>6. CASE ~listener.accepting
  <2>1. <<Head(net[Server]).seq + 1>> \in Seq(Nat)
    BY <1>4
  <2>2. HostsTyped'
    BY <1>6 DEF DeliverToListener, HostsTyped, FreshHasNoSocket
  <2> QED
    BY <1>3, <1>6, <2>1, <2>2 DEF DeliverToListener, WorldTyped
<1> QED
  BY <1>5, <1>6

\* DeliverToNobody keeps the invariant.
LEMMA DeliverToNobodyOK ==
  ASSUME HostsTyped, WorldTyped, DeliverToNobody
  PROVE  HostsTyped' /\ WorldTyped'
<1>1. Client \in Hosts
  BY DEF Hosts
<1>2. net[Client] # <<>> /\ net \in [Hosts -> Seq(SegmentType)]
  BY DEF DeliverToNobody, WorldTyped
<1>3. net' \in [Hosts -> Seq(SegmentType)]
  BY <1>1, <1>2, TakesOK DEF DeliverToNobody
<1>4. HostsTyped'
  BY DEF DeliverToNobody, HostsTyped, FreshHasNoSocket
<1> QED
  BY <1>3, <1>4 DEF DeliverToNobody, WorldTyped

\* A segment that is dropped or lost.
LEMMA DropOK ==
  ASSUME HostsTyped, WorldTyped, NEW h \in Hosts,
         DeliverInVain(h) \/ Lose(h)
  PROVE  HostsTyped' /\ WorldTyped'
<1>1. /\ net[h] # <<>> /\ net \in [Hosts -> Seq(SegmentType)]
      /\ net' = [net EXCEPT ![h] = Tail(@)]
  BY DEF DeliverInVain, Lose, WorldTyped
<1>2. net' \in [Hosts -> Seq(SegmentType)]
  BY <1>1, TakesOK
<1>3. HostsTyped'
  BY DEF DeliverInVain, Lose, HostsTyped, FreshHasNoSocket
<1>4. lost' \in 0 .. Losses
  BY ConnectionAssumption DEF DeliverInVain, Lose, WorldTyped
<1> QED
  BY <1>2, <1>3, <1>4 DEF DeliverInVain, Lose, WorldTyped

\* Tick keeps the invariant.
LEMMA TickOK ==
  ASSUME HostsTyped, WorldTyped, NEW h \in Hosts, Tick(h)
  PROVE  HostsTyped' /\ WorldTyped'
<1> DEFINE e == TCPTimeout(sock[h])
<1>1. Apply(h, e, call[h]) /\ net' = Sends(h, e)
  BY DEF Tick
<1>2. EffectOK(e) /\ Forward(sock[h], e.s)
  BY TCPTimeoutOK DEF HostsTyped
<1> HIDE DEF e
<1>3. call[h] \in Calls
  BY DEF HostsTyped
<1>4. app[h] = "new" => /\ call[h] \in {"none", "connect", "accept"}
                        /\ call[h] = "none" => ~e.s.valid
  BY <1>2 DEF HostsTyped, FreshHasNoSocket, Forward
<1>5. HostsTyped'
  BY <1>1, <1>2, <1>3, <1>4, ApplyOK
<1>6. net' \in [Hosts -> Seq(SegmentType)]
  BY <1>1, <1>2, SendsOK DEF WorldTyped
<1>7. ticked' \subseteq Hosts
  BY DEF Tick
<1> QED
  BY <1>5, <1>6, <1>7 DEF Tick, WorldTyped

\* LingerEnds keeps the invariant.
LEMMA LingerEndsOK ==
  ASSUME HostsTyped, WorldTyped, NEW h \in Hosts, LingerEnds(h)
  PROVE  HostsTyped' /\ WorldTyped'
<1>1. FreeSocket \in SocketType /\ SocketOK(FreeSocket) /\ ~FreeSocket.valid
  BY FreeSocketOK DEF SocketOK, FreeSocket
<1>2. linger[h] \in Nat /\ linger[h] > 0
  BY DEF HostsTyped, LingerEnds
<1>3. linger[h] - 1 \in Nat
  BY <1>2
<1>4. linger' \in [Hosts -> Nat]
  BY <1>3 DEF HostsTyped, LingerEnds
<1>5. /\ sock' \in [Hosts -> SocketType] /\ \A g \in Hosts : SocketOK(sock'[g])
      /\ FreshHasNoSocket'
  BY <1>1 DEF HostsTyped, LingerEnds, FreshHasNoSocket
<1>6. down' \in [Hosts -> {"no", "blocked", "crashed"}]
  BY DEF HostsTyped, LingerEnds
<1>7. HostsTyped'
  BY <1>4, <1>5, <1>6 DEF HostsTyped, LingerEnds
<1> QED
  BY <1>7 DEF LingerEnds, WorldTyped

\* The invariant is inductive.
LEMMA StepOK == IInv /\ [Next]_vars => IInv'
<1> SUFFICES ASSUME HostsTyped, WorldTyped, [Next]_vars
             PROVE  HostsTyped' /\ WorldTyped'
  BY InvariantParts, PTL
<1>1. CASE UNCHANGED vars
  BY <1>1 DEF vars, HostsTyped, WorldTyped, FreshHasNoSocket
<1>2. ASSUME NEW h \in Hosts, AppCalls(h)
      PROVE  HostsTyped' /\ WorldTyped'
  BY <1>2, AppConnectOK, AppAcceptOK, AppWriteOK, AppReadOK, AppCloseOK
  DEF AppCalls
<1>3. ASSUME NEW h \in Hosts, Deliver(h)
      PROVE  HostsTyped' /\ WorldTyped'
  BY <1>3, DeliverToSocketOK, DeliverToListenerOK, DeliverToNobodyOK, DropOK
  DEF Deliver
<1>4. ASSUME NEW h \in Hosts, Lose(h) \/ Tick(h) \/ LingerEnds(h)
      PROVE  HostsTyped' /\ WorldTyped'
  BY <1>4, DropOK, TickOK, LingerEndsOK
<1> QED
  BY <1>1, <1>2, <1>3, <1>4 DEF Next, Done

\* The window a segment advertises, both ring buffers and every number keep
\* their types for all buffer sizes, stream lengths and losses.
THEOREM TypeCorrect == Spec => []TypeOK
<1>1. Spec => []IInv
  BY InitOK, StepOK, PTL DEF Spec
<1>2. IInv => TypeOK
  BY DEF IInv
<1> QED
  BY <1>1, <1>2, PTL

-----------------------------------------------------------------------------
\* What NumbersMoveForward says of a step.
StepForward ==
    \A h \in Hosts : Established(h) /\ sock[h]'.valid =>
        /\ sock[h]'.snd_una >= sock[h].snd_una
        /\ sock[h]'.rcv_nxt >= sock[h].rcv_nxt
        /\ sock[h]'.snd_nxt >= sock[h]'.snd_una

\* A step that changes no socket.
LEMMA SameSockets ==
  ASSUME HostsTyped, UNCHANGED sock
  PROVE  StepForward
<1>1. \A g \in Hosts : /\ sock[g].snd_una \in Nat /\ sock[g].rcv_nxt \in Nat
                       /\ sock[g].snd_nxt \in Nat
                       /\ sock[g].snd_una <= sock[g].snd_nxt
  BY DEF HostsTyped, SocketOK, SocketType
<1> QED
  BY <1>1 DEF StepForward

\* A step that changes one socket.
LEMMA OneSocketForward ==
  ASSUME HostsTyped, NEW h \in Hosts, NEW t, SocketOK(t),
         sock' = [sock EXCEPT ![h] = t],
         Established(h) => Forward(sock[h], t)
  PROVE  StepForward
<1>1. \A g \in Hosts : /\ sock[g].snd_una \in Nat /\ sock[g].rcv_nxt \in Nat
                       /\ sock[g].snd_nxt \in Nat
                       /\ sock[g].snd_una <= sock[g].snd_nxt
  BY DEF HostsTyped, SocketOK, SocketType
<1>2. t.snd_una \in Nat /\ t.snd_nxt \in Nat /\ t.snd_una <= t.snd_nxt
  BY DEF SocketOK, SocketType
<1>3. \A g \in Hosts : sock[g]' = IF g = h THEN t ELSE sock[g]
  BY DEF HostsTyped
<1> SUFFICES ASSUME NEW g \in Hosts, Established(g), sock[g]'.valid
             PROVE  /\ sock[g]'.snd_una >= sock[g].snd_una
                    /\ sock[g]'.rcv_nxt >= sock[g].rcv_nxt
                    /\ sock[g]'.snd_nxt >= sock[g]'.snd_una
  BY DEF StepForward
<1>4. CASE g = h
  <2>1. sock[g]' = t /\ Forward(sock[h], t)
    BY <1>3, <1>4
  <2> QED
    BY <1>2, <1>4, <2>1 DEF Forward
<1>5. CASE g # h
  <2>1. sock[g]' = sock[g]
    BY <1>3, <1>5
  <2> QED
    BY <1>1, <2>1
<1> QED
  BY <1>4, <1>5

\* A routine that applies e to host h.
LEMMA ApplyForward ==
  ASSUME HostsTyped, NEW h \in Hosts, NEW e, EffectOK(e), NEW c,
         Apply(h, e, c), Established(h) => Forward(sock[h], e.s)
  PROVE  StepForward
<1>1. sock' = [sock EXCEPT ![h] = e.s] /\ SocketOK(e.s)
  BY DEF Apply, EffectOK
<1> QED
  BY <1>1, OneSocketForward

\* Connecting and accepting need a host without a socket.
LEMMA OpensFresh ==
  ASSUME HostsTyped, WorldTyped, AppConnect \/ AppAccept \/ DeliverToListener
  PROVE  StepForward
<1>1. Client \in Hosts /\ Server \in Hosts
  BY DEF Hosts
<1>2. CASE AppConnect
  <2>1. ~Established(Client)
    BY <1>1, <1>2 DEF AppConnect, Ready, HostsTyped, FreshHasNoSocket, Established
  <2> QED
    BY <1>1, <1>2, <2>1, ConnectOK, ApplyForward DEF AppConnect
<1>3. ASSUME NEW n \in Nat, NEW inbound, Accept(n, inbound), ~Established(Server)
      PROVE  StepForward
  BY <1>1, <1>3, TCPAcceptOK, ApplyForward DEF Accept
<1>4. CASE AppAccept
  <2>1. ~Established(Server)
    BY <1>1, <1>4 DEF AppAccept, Ready, HostsTyped, FreshHasNoSocket, Established
  <2>2. CASE listener.waiting # <<>>
    <3>1. listener.waiting \in Seq(Nat)
      BY DEF WorldTyped
    <3>2. Head(listener.waiting) \in Nat
      BY <2>2, <3>1
    <3> QED
      BY <1>4, <2>1, <2>2, <3>2, <1>3 DEF AppAccept
  <2>3. CASE listener.waiting = <<>>
    BY <1>4, <2>3, SameSockets DEF AppAccept
  <2> QED
    BY <2>2, <2>3
<1>5. CASE DeliverToListener
  <2>1. ~Established(Server)
    BY <1>5 DEF DeliverToListener, Established
  <2>2. CASE listener.accepting
    <3>1. net[Server] \in Seq(SegmentType) /\ net[Server] # <<>>
      BY <1>1, <1>5 DEF DeliverToListener, WorldTyped
    <3>2. Head(net[Server]) \in SegmentType
      BY <3>1
    <3>3. Head(net[Server]).seq \in Nat
      BY <3>2 DEF SegmentType
    <3>4. Head(net[Server]).seq + 1 \in Nat
      BY <3>3
    <3> QED
      BY <1>5, <2>1, <2>2, <3>4, <1>3 DEF DeliverToListener
  <2>3. CASE ~listener.accepting
    BY <1>5, <2>3, SameSockets DEF DeliverToListener
  <2> QED
    BY <2>2, <2>3
<1> QED
  BY <1>2, <1>4, <1>5

\* Reading, writing and closing do not touch snd_una and rcv_nxt.
LEMMA CallsForward ==
  ASSUME HostsTyped, NEW h \in Hosts, AppWrite(h) \/ AppRead(h) \/ AppClose(h)
  PROVE  StepForward
<1>1. SocketOK(sock[h])
  BY DEF HostsTyped
<1>2. /\ sock[h].snd_una \in Nat /\ sock[h].rcv_nxt \in Nat
  BY <1>1 DEF SocketOK, SocketType
<1>3. \A u : Keeps(sock[h], u) => Forward(sock[h], u)
  BY <1>2 DEF Keeps, Forward
<1>4. CASE AppWrite(h)
  <2> DEFINE n == AtMost(WriteLen, StreamLength[h] - written[h])
             data == [k \in 1 .. n |-> written[h] + k]
             e == Write(sock[h], data)
  <2>1. CanWriteNow(h) /\ Apply(h, e, "write")
    BY <1>4 DEF AppWrite, AppCall
  <2>2. data \in Seq(Byte)
    BY <2>1, DataOK
  <2> HIDE DEF data
  <2>3. EffectOK(e) /\ Keeps(sock[h], e.s)
    BY <1>1, <2>2, WriteOK
  <2> HIDE DEF e
  <2> QED
    BY <1>3, <2>1, <2>3, ApplyForward
<1>5. CASE AppRead(h)
  <2> DEFINE e == Read(sock[h], ReadLen)
  <2>1. Apply(h, e, "read")
    BY <1>5 DEF AppRead, AppCall
  <2>2. EffectOK(e) /\ Keeps(sock[h], e.s)
    BY <1>1, ConnectionAssumption, ReadOK
  <2> HIDE DEF e
  <2> QED
    BY <1>3, <2>1, <2>2, ApplyForward
<1>6. CASE AppClose(h)
  <2> DEFINE e == Close(sock[h])
  <2>1. Apply(h, e, "close")
    BY <1>6 DEF AppClose, AppCall
  <2>2. EffectOK(e) /\ Forward(sock[h], e.s)
    BY <1>1, CloseOK
  <2> HIDE DEF e
  <2> QED
    BY <2>1, <2>2, ApplyForward
<1> QED
  BY <1>4, <1>5, <1>6

\* A segment or a tick: TCPCallback and TCPTimeout.
LEMMA ThreadsForward ==
  ASSUME HostsTyped, WorldTyped, NEW h \in Hosts,
         DeliverToSocket(h) \/ Tick(h) \/ LingerEnds(h)
  PROVE  StepForward
<1>1. SocketOK(sock[h])
  BY DEF HostsTyped
<1>2. CASE DeliverToSocket(h)
  <2> DEFINE e == TCPCallback(sock[h], Head(net[h]))
  <2>1. Apply(h, e, call[h]) /\ net[h] # <<>>
    BY <1>2 DEF DeliverToSocket
  <2>2. Head(net[h]) \in SegmentType
    BY <2>1, TakesOK DEF WorldTyped
  <2>3. EffectOK(e) /\ (Established(h) => Forward(sock[h], e.s))
    BY <1>1, <2>2, TCPCallbackOK DEF Established
  <2> HIDE DEF e
  <2> QED
    BY <2>1, <2>3, ApplyForward
<1>3. CASE Tick(h)
  <2> DEFINE e == TCPTimeout(sock[h])
  <2>1. Apply(h, e, call[h])
    BY <1>3 DEF Tick
  <2>2. EffectOK(e) /\ Forward(sock[h], e.s)
    BY <1>1, TCPTimeoutOK
  <2> HIDE DEF e
  <2> QED
    BY <2>1, <2>2, ApplyForward
<1>4. CASE LingerEnds(h)
  <2>1. /\ sock' = [sock EXCEPT ![h] = FreeSocket]
        /\ SocketOK(FreeSocket) /\ Forward(sock[h], FreeSocket)
    BY <1>4, FreeSocketOK DEF LingerEnds, Forward, FreeSocket
  <2> QED
    BY <2>1, OneSocketForward
<1> QED
  BY <1>2, <1>3, <1>4

\* Every step from a state of the invariant.
LEMMA StepsGoForward == IInv /\ [Next]_vars => StepForward
<1> SUFFICES ASSUME HostsTyped, WorldTyped, [Next]_vars
             PROVE  StepForward
  BY InvariantParts
<1>1. CASE UNCHANGED vars
  BY <1>1, SameSockets DEF vars
<1>2. ASSUME NEW h \in Hosts, AppCalls(h)
      PROVE  StepForward
  BY <1>2, OpensFresh, CallsForward DEF AppCalls
<1>3. ASSUME NEW h \in Hosts, DeliverInVain(h) \/ Lose(h)
      PROVE  StepForward
  BY <1>3, SameSockets DEF DeliverInVain, Lose
<1>4. CASE DeliverToNobody
  BY <1>4, SameSockets DEF DeliverToNobody
<1>5. ASSUME NEW h \in Hosts, Deliver(h)
      PROVE  StepForward
  BY <1>3, <1>4, <1>5, OpensFresh, ThreadsForward DEF Deliver
<1>6. ASSUME NEW h \in Hosts, Tick(h) \/ LingerEnds(h)
      PROVE  StepForward
  BY <1>6, ThreadsForward
<1> QED
  BY <1>1, <1>2, <1>3, <1>5, <1>6 DEF Next, Done

\* Whatever is lost, sent again, cut into other pieces or reset, the numbers
\* of a living connection never go back (TCPCallback, TCPTimeout), for all
\* buffer sizes, stream lengths and numbers of losses.
THEOREM NumbersOnlyMoveForward == Spec => NumbersMoveForward
<1>1. Spec => []IInv
  BY InitOK, StepOK, PTL DEF Spec
<1>2. IInv /\ [Next]_vars => StepForward
  BY StepsGoForward
<1>3. StepForward =>
        \A h \in Hosts : Established(h) /\ sock[h]'.valid =>
            /\ sock[h]'.snd_una >= sock[h].snd_una
            /\ sock[h]'.rcv_nxt >= sock[h].rcv_nxt
            /\ sock[h]'.snd_nxt >= sock[h]'.snd_una
  BY DEF StepForward
<1> QED
  BY <1>1, <1>2, <1>3, PTL DEF Spec, NumbersMoveForward
=============================================================================
