---------------------------- MODULE TcpCallsProofs ----------------------------
(***************************************************************************)
(* Every call of an application is answered by a live socket, once, and    *)
(* the deferred free of a socket finds the socket it was started for.      *)
(*                                                                         *)
(* The invariant CallsInv says, of each host, which fields of its socket a *)
(* pending call leaves (Marks) and what a socket looks like before the end *)
(* of the handshake (Shape); of each direction, that a host that has sent  *)
(* its FIN sends no other, so that FIN_WAIT2 hears one FIN only (FinOK).   *)
(* The routines of TcpSocket are taken apart one by one first: each lemma  *)
(* ...Is says what a routine changes, each ...Calls or ...Done that it     *)
(* answers the call it is about and moves the close forward.               *)
(***************************************************************************)
EXTENDS TcpConnectionProofs

-----------------------------------------------------------------------------
(***************************************************************************)
(* What each routine leaves of a socket and of an effect.                  *)
(***************************************************************************)

\* The fields that say whom the socket answers and how far its close is.
SameCall(s, t) ==
    /\ t.valid = s.valid /\ t.state = s.state /\ t.callback = s.callback
    /\ t.fin_state = s.fin_state /\ t.fin_tag = s.fin_tag
    /\ t.read_flag = s.read_flag /\ t.write_flag = s.write_flag

\* The receiving side, and the sending side but for snd_nxt.
SameIn(s, t) == t.input = s.input /\ t.rcv_nxt = s.rcv_nxt
SameOut(s, t) ==
    /\ t.output = s.output /\ t.snd_una = s.snd_una
    /\ t.peer_window_size = s.peer_window_size /\ t.write_pipe = s.write_pipe

\* What the application sees.
SameTalk(e, f) ==
    f.rep = e.rep /\ f.took = e.took /\ f.gave = e.gave /\ f.frees = e.frees

\* A segment processSend cuts out of the output buffer.
PieceOf(seg, s) ==
    /\ seg.ack /\ ~seg.syn /\ ~seg.fin
    /\ seg.ack_seq = s.rcv_nxt /\ seg.window = InFree(s)
    /\ seg.data # <<>> =>
          /\ s.snd_una <= seg.seq /\ seg.seq + Len(seg.data) <= SendEnd(s)
          /\ \A k \in 1 .. Len(seg.data) :
                 seg.data[k] = s.output[seg.seq - s.snd_una + k]

\* The answer joins the answers.
LEMMA ReplyIs ==
  ASSUME NEW e, EffectOK(e), NEW n \in Int
  PROVE  /\ EffectOK(Reply(e, n)) /\ Reply(e, n).s = e.s
         /\ Reply(e, n).sent = e.sent /\ Reply(e, n).rep = Append(e.rep, n)
         /\ Reply(e, n).took = e.took /\ Reply(e, n).gave = e.gave
         /\ Reply(e, n).frees = e.frees
<1>1. EffectOK(Reply(e, n)) /\ Reply(e, n).s = e.s
  BY ReplyOK
<1> QED
  BY <1>1 DEF Reply, EffectOK, EffectType

\* The control segment joins the segments.
LEMMA ControlIs ==
  ASSUME NEW e \in EffectType, NEW flags, NEW seq \in Nat, NEW ack_seq \in Nat
  PROVE  LET f == Control(e, flags, seq, ack_seq) IN
         /\ f.s = e.s /\ SameTalk(e, f)
         /\ f.sent = Append(e.sent, Segment(e.s, flags, seq, ack_seq, <<>>))
BY DEF Control, EffectType, SameTalk

\* The fields of a segment.
LEMMA SegmentIs ==
  ASSUME NEW s, NEW flags, NEW seq, NEW ack_seq, NEW data
  PROVE  LET g == Segment(s, flags, seq, ack_seq, data) IN
         /\ g.syn <=> "syn" \in flags
         /\ g.ack <=> "ack" \in flags
         /\ g.fin <=> "fin" \in flags
         /\ g.seq = seq /\ g.ack_seq = ack_seq /\ g.data = data
         /\ g.window = InFree(s)
BY DEF Segment

\* Element k of a piece of a sequence.
LEMMA SubSeqElement ==
  ASSUME NEW S, NEW q \in Seq(S), NEW m \in Nat \ {0}, NEW n \in Nat, n <= Len(q),
         NEW k \in 1 .. Len(SubSeq(q, m, n))
  PROVE  SubSeq(q, m, n)[k] = q[m + k - 1]
<1>1. m <= n /\ Len(SubSeq(q, m, n)) = n - m + 1
  BY SubSeqOK
<1> QED
  BY <1>1, SubSeqProperties

\* sendTCPSegment of a piece of the output buffer.
LEMMA DataSegmentIs ==
  ASSUME NEW s, SocketOK(s), NEW seq \in Nat, NEW end \in Nat,
         s.snd_una <= seq, s.snd_una <= end, end <= s.snd_una + Len(s.output),
         end = SendEnd(s)
  PROVE  PieceOf(DataSegment(s, seq, end), s)
<1>1. /\ s.snd_una \in Nat /\ s.rcv_nxt \in Nat /\ s.output \in Seq(Byte)
      /\ Len(s.output) \in Nat
  BY DEF SocketOK, SocketType
<1> DEFINE m == seq - s.snd_una + 1
           n == AtMost(seq + MSS, end) - s.snd_una
           data == SubSeq(s.output, m, n)
           g == DataSegment(s, seq, end)
<1>2. m \in Nat \ {0}
  BY <1>1
<1>3. n \in Nat /\ n <= Len(s.output) /\ n <= end - s.snd_una
  BY <1>1, CapacityType DEF AtMost
<1>4. g = Segment(s, {"ack"}, seq, s.rcv_nxt, data)
  BY DEF DataSegment
<1>5. m = seq - s.snd_una + 1
  OBVIOUS
<1> HIDE DEF m, n, g
<1>6. data \in Seq(Byte) /\ Len(data) \in Nat /\ Len(data) = IF m <= n THEN n - m + 1 ELSE 0
  BY <1>1, <1>2, <1>3, SubSeqOK
<1>7. \A k \in 1 .. Len(data) : data[k] = s.output[m + k - 1]
  BY <1>1, <1>2, <1>3, SubSeqElement
<1>8. /\ g.ack /\ ~g.syn /\ ~g.fin /\ g.ack_seq = s.rcv_nxt
      /\ g.window = InFree(s) /\ g.seq = seq /\ g.data = data
  BY <1>4 DEF Segment
<1>9. data # <<>> => Len(data) > 0
  BY <1>6, EmptySeq
<1> HIDE DEF data
<1>10. ASSUME data # <<>>
       PROVE  /\ seq + Len(data) <= end
              /\ \A k \in 1 .. Len(data) : data[k] = s.output[seq - s.snd_una + k]
  <2>1. seq + Len(data) <= end
    <3>1. Len(data) = n - m + 1
      BY ONLY <1>2, <1>3, <1>6, <1>9, <1>10
    <3>2. s.snd_una \in Nat /\ n \in Nat /\ n <= end - s.snd_una
      BY ONLY <1>1, <1>3
    <3>3. Len(data) = n - (seq - s.snd_una)
      BY ONLY <1>5, <3>1, <3>2, seq \in Nat
    <3> QED
      BY ONLY <1>6, <3>2, <3>3, seq \in Nat, end \in Nat
  <2>2. ASSUME NEW k \in 1 .. Len(data)
        PROVE  data[k] = s.output[seq - s.snd_una + k]
    <3>1. m + k - 1 = seq - s.snd_una + k
      BY <1>1, <1>5, <1>6
    <3> QED
      BY <1>7, <3>1
  <2> QED
    BY <2>1, <2>2
<1> QED
  BY <1>8, <1>10 DEF PieceOf, g

\* processSend appends pieces of the output buffer and moves snd_nxt.
LEMMA ProcessSendIs ==
  ASSUME NEW e, EffectOK(e)
  PROVE  LET f == ProcessSend(e) IN
         /\ SameCall(e.s, f.s) /\ SameIn(e.s, f.s) /\ SameOut(e.s, f.s)
         /\ SameTalk(e, f)
         /\ \/ f.sent = e.sent /\ f.s.snd_nxt = e.s.snd_nxt
            \/ /\ e.s.snd_nxt < SendEnd(e.s) /\ f.s.snd_nxt = SendEnd(e.s)
               /\ \E new \in Seq(SegmentType) :
                      /\ f.sent = e.sent \o new
                      /\ \A i \in DOMAIN new : PieceOf(new[i], e.s)
<1> DEFINE s == e.s
           end == SendEnd(s)
           count == (end - s.snd_nxt + MSS - 1) \div MSS
           segments == [j \in 1 .. count |->
                            DataSegment(s, s.snd_nxt + (j - 1) * MSS, end)]
<1>1. SocketOK(s)
  BY DEF EffectOK
<1>2. /\ s.snd_una \in Nat /\ s.snd_nxt \in Nat /\ s.peer_window_size \in Nat
      /\ s.output \in Seq(Byte) /\ Len(s.output) \in Nat /\ s.snd_una <= s.snd_nxt
  BY <1>1 DEF SocketOK, SocketType
<1>3. /\ end \in Nat /\ s.snd_una <= end /\ end <= s.snd_una + Len(s.output)
  <2> DEFINE n == AtMost(Len(s.output), s.peer_window_size)
  <2>1. n \in Nat /\ n <= Len(s.output)
    BY <1>2, AtMostProperties
  <2>2. end = s.snd_una + n
    BY DEF SendEnd
  <2> HIDE DEF n, end, s
  <2> QED
    BY <1>2, <2>1, <2>2
<1>4. CASE ~(s.snd_nxt < end)
  <2>1. ProcessSend(e) = e
    BY <1>4 DEF ProcessSend
  <2> QED
    BY <2>1 DEF SameCall, SameIn, SameOut, SameTalk
<1>5. CASE s.snd_nxt < end
  <2>1. count \in Nat
    <3>1. end - s.snd_nxt + MSS - 1 \in Nat
      BY <1>2, <1>3, <1>5, CapacityType
    <3> QED
      BY <3>1, QuotientOK, CapacityType
  <2>2. ASSUME NEW j \in 1 .. count
        PROVE  LET g == DataSegment(s, s.snd_nxt + (j - 1) * MSS, end) IN
               g \in SegmentType /\ PieceOf(g, s)
    <3>1. (j - 1) * MSS \in Nat
      <4>1. j - 1 \in Nat
        BY <2>1
      <4> QED
        BY <4>1, ProductOK, CapacityType
    <3> DEFINE seq == s.snd_nxt + (j - 1) * MSS
    <3>2. seq \in Nat /\ s.snd_una <= seq
      BY <1>2, <3>1
    <3>3. end = SendEnd(s)
      OBVIOUS
    <3> HIDE DEF seq, end, s
    <3>4. DataSegment(s, seq, end) \in SegmentType /\ PieceOf(DataSegment(s, seq, end), s)
      BY <1>1, <1>3, <3>2, <3>3, DataSegmentOK, DataSegmentIs
    <3> QED
      BY <3>4 DEF seq
  <2>3. segments \in [1 .. count -> SegmentType]
    <3> HIDE DEF count
    <3> QED
      BY <2>2
  <2>4. ProcessSend(e) = [e EXCEPT !.sent = @ \o segments, !.s.snd_nxt = end]
    BY <1>5 DEF ProcessSend
  <2>5. \A i \in 1 .. count : PieceOf(segments[i], s)
    <3> HIDE DEF count
    <3> QED
      BY <2>2
  <2> HIDE DEF segments, count
  <2>6. segments \in Seq(SegmentType)
    BY <2>1, <2>3, FunctionOK
  <2>7. DOMAIN segments = 1 .. count
    BY <2>3
  <2> DEFINE f == ProcessSend(e)
             all == e.sent \o segments
  <2>8. f = [e EXCEPT !.sent = all, !.s.snd_nxt = end]
    BY <2>4
  <2>9. end = SendEnd(s)
    OBVIOUS
  <2> HIDE DEF all, end, f
  <2>10. /\ SameCall(e.s, f.s) /\ SameIn(e.s, f.s) /\ SameOut(e.s, f.s)
         /\ SameTalk(e, f) /\ f.sent = all /\ f.s.snd_nxt = end
    BY <2>8 DEF EffectOK, EffectType, SocketOK, SocketType, SameCall, SameIn,
       SameOut, SameTalk
  <2> QED
    BY <1>5, <2>5, <2>6, <2>7, <2>9, <2>10 DEF all, f
<1> QED
  BY <1>4, <1>5

\* processWrite moves what fits from the write pipe to the output buffer and
\* answers the write.
LEMMA ProcessWriteIs ==
  ASSUME NEW e, EffectOK(e)
  PROVE  LET f == ProcessWrite(e)
             n == AtMost(Len(e.s.write_pipe), OutFree(e.s))
         IN
         /\ f.s.valid = e.s.valid /\ f.s.state = e.s.state
         /\ f.s.callback = e.s.callback /\ f.s.fin_state = e.s.fin_state
         /\ f.s.fin_tag = e.s.fin_tag /\ f.s.read_flag = e.s.read_flag
         /\ f.s.write_flag = FALSE /\ f.s.write_pipe = <<>>
         /\ f.s.output = e.s.output \o SubSeq(e.s.write_pipe, 1, n)
         /\ f.s.snd_una = e.s.snd_una /\ f.s.snd_nxt = e.s.snd_nxt
         /\ f.s.peer_window_size = e.s.peer_window_size
         /\ SameIn(e.s, f.s)
         /\ f.sent = e.sent /\ f.rep = Append(e.rep, n)
         /\ f.took = e.took + n /\ f.gave = e.gave /\ f.frees = e.frees
<1> DEFINE n == AtMost(Len(e.s.write_pipe), OutFree(e.s))
           moved == e.s.output \o SubSeq(e.s.write_pipe, 1, n)
           r == Reply(e, n)
           m == e.took + n
           f == ProcessWrite(e)
<1>1. e.s.write_pipe \in Seq(Byte) /\ Len(e.s.write_pipe) \in Nat
  BY DEF EffectOK, EffectType, SocketOK, SocketType
<1>2. OutFree(e.s) \in Nat
  BY FreeSizes, CapacityType DEF EffectOK
<1>3. n \in Nat
  BY <1>1, <1>2, AtMostProperties
<1>4. /\ EffectOK(r) /\ r.s = e.s /\ r.sent = e.sent /\ r.rep = Append(e.rep, n)
      /\ r.took = e.took /\ r.gave = e.gave /\ r.frees = e.frees
  <2>1. n \in Int
    BY <1>3
  <2> HIDE DEF n
  <2> QED
    BY <2>1, ReplyIs
<1>5. f = [r EXCEPT !.s.output = moved, !.s.write_flag = FALSE,
                    !.s.write_pipe = <<>>, !.took = m]
  BY <1>4 DEF ProcessWrite
<1>6. m = e.took + n /\ moved = e.s.output \o SubSeq(e.s.write_pipe, 1, n)
  OBVIOUS
<1> HIDE DEF moved, r, m, n, f
<1>7. /\ f.s.valid = r.s.valid /\ f.s.state = r.s.state
      /\ f.s.callback = r.s.callback /\ f.s.fin_state = r.s.fin_state
      /\ f.s.fin_tag = r.s.fin_tag /\ f.s.read_flag = r.s.read_flag
      /\ f.s.write_flag = FALSE /\ f.s.write_pipe = <<>>
      /\ f.s.output = moved
      /\ f.s.snd_una = r.s.snd_una /\ f.s.snd_nxt = r.s.snd_nxt
      /\ f.s.peer_window_size = r.s.peer_window_size
      /\ f.s.input = r.s.input /\ f.s.rcv_nxt = r.s.rcv_nxt
      /\ f.sent = r.sent /\ f.rep = r.rep
      /\ f.took = m /\ f.gave = r.gave /\ f.frees = r.frees
  BY <1>4, <1>5 DEF EffectOK, EffectType, SocketOK, SocketType
<1> QED
  BY <1>4, <1>6, <1>7 DEF f, n, SameIn

\* A control segment with the flag ack and perhaps fin.
ControlSegment(seg, s, fin, seq, ack_seq) ==
    /\ seg \in SegmentType
    /\ seg.ack /\ ~seg.syn /\ (seg.fin <=> fin) /\ seg.data = <<>>
    /\ seg.seq = seq /\ seg.ack_seq = ack_seq /\ seg.window = InFree(s)

\* The two kinds of control segment an established socket sends.
LEMMA ControlSegments ==
  ASSUME NEW s \in SocketType, Len(s.input) <= InCapacity,
         NEW seq \in Nat, NEW ack_seq \in Nat
  PROVE  /\ ControlSegment(Segment(s, {"ack"}, seq, ack_seq, <<>>), s, FALSE,
                           seq, ack_seq)
         /\ ControlSegment(Segment(s, {"ack", "fin"}, seq, ack_seq, <<>>), s, TRUE,
                           seq, ack_seq)
<1>1. <<>> \in Seq(Byte)
  BY EmptySeq
<1> DEFINE a == Segment(s, {"ack"}, seq, ack_seq, <<>>)
           b == Segment(s, {"ack", "fin"}, seq, ack_seq, <<>>)
<1>2. a \in SegmentType /\ b \in SegmentType
  BY <1>1, SegmentOK
<1>3. /\ a.ack /\ ~a.syn /\ ~a.fin /\ a.data = <<>>
      /\ a.seq = seq /\ a.ack_seq = ack_seq /\ a.window = InFree(s)
  BY DEF Segment
<1>4. /\ b.ack /\ ~b.syn /\ b.fin /\ b.data = <<>>
      /\ b.seq = seq /\ b.ack_seq = ack_seq /\ b.window = InFree(s)
  BY DEF Segment
<1> HIDE DEF a, b
<1>5. ControlSegment(a, s, FALSE, seq, ack_seq) /\ ControlSegment(b, s, TRUE, seq, ack_seq)
  BY <1>2, <1>3, <1>4 DEF ControlSegment
<1> QED
  BY <1>5 DEF a, b

\* The FIN of a close leaves when the output buffer is empty, and answers.
LEMMA ProcessFinIs ==
  ASSUME NEW e, EffectOK(e)
  PROVE  LET f == ProcessFin(e) IN
         IF e.s.output = <<>> /\ e.s.fin_tag
         THEN /\ f.s.valid = e.s.valid /\ f.s.state = e.s.state
              /\ f.s.callback = e.s.callback /\ f.s.fin_state = "FIN_WAIT1"
              /\ f.s.fin_tag = FALSE /\ f.s.read_flag = e.s.read_flag
              /\ f.s.write_flag = e.s.write_flag /\ f.s.snd_nxt = e.s.snd_nxt
              /\ SameIn(e.s, f.s) /\ SameOut(e.s, f.s)
              /\ f.rep = Append(e.rep, 0)
              /\ f.took = e.took /\ f.gave = e.gave /\ f.frees = e.frees
              /\ \E seg : /\ f.sent = Append(e.sent, seg)
                          /\ ControlSegment(seg, e.s, TRUE, e.s.snd_nxt, e.s.rcv_nxt)
         ELSE f = e
<1>1. CASE ~(e.s.output = <<>> /\ e.s.fin_tag)
  BY <1>1 DEF ProcessFin
<1>2. CASE e.s.output = <<>> /\ e.s.fin_tag
  <2> DEFINE w == [e EXCEPT !.s.fin_state = "FIN_WAIT1", !.s.fin_tag = FALSE]
             r == Reply(w, 0)
             f == ProcessFin(e)
             seg == Segment(r.s, {"ack", "fin"}, e.s.snd_nxt, e.s.rcv_nxt, <<>>)
  <2>1. EffectOK(w)
    BY DEF EffectOK, EffectType, SocketOK, SocketType, FinStates
  <2>2. /\ w.s.valid = e.s.valid /\ w.s.state = e.s.state
        /\ w.s.callback = e.s.callback /\ w.s.fin_state = "FIN_WAIT1"
        /\ w.s.fin_tag = FALSE /\ w.s.read_flag = e.s.read_flag
        /\ w.s.write_flag = e.s.write_flag /\ w.s.snd_nxt = e.s.snd_nxt
        /\ SameIn(e.s, w.s) /\ SameOut(e.s, w.s) /\ SameTalk(e, w)
        /\ w.sent = e.sent
    BY DEF EffectOK, EffectType, SocketOK, SocketType, SameIn, SameOut, SameTalk
  <2>3. f = Control(r, {"ack", "fin"}, e.s.snd_nxt, e.s.rcv_nxt)
    BY <1>2 DEF ProcessFin
  <2> HIDE DEF w
  <2>4. /\ EffectOK(r) /\ r.s = w.s /\ r.sent = w.sent /\ r.rep = Append(w.rep, 0)
        /\ r.took = w.took /\ r.gave = w.gave /\ r.frees = w.frees
    <3>1. 0 \in Int
      OBVIOUS
    <3> QED
      BY <2>1, <3>1, ReplyIs
  <2>5. e.s.snd_nxt \in Nat /\ e.s.rcv_nxt \in Nat
    BY Numbers
  <2> HIDE DEF r, f
  <2>6. f.s = r.s /\ SameTalk(r, f) /\ f.sent = Append(r.sent, seg)
    BY <2>3, <2>4, <2>5, ControlIs DEF EffectOK
  <2>7. ControlSegment(seg, r.s, TRUE, e.s.snd_nxt, e.s.rcv_nxt)
    BY <2>4, <2>5, ControlSegments DEF EffectOK, SocketOK
  <2>8. InFree(r.s) = InFree(e.s)
    BY <2>2, <2>4 DEF SameIn, InFree
  <2> HIDE DEF seg
  <2>9. ControlSegment(seg, e.s, TRUE, e.s.snd_nxt, e.s.rcv_nxt)
    BY <2>7, <2>8 DEF ControlSegment
  <2>10. /\ f.s = w.s /\ f.rep = Append(e.rep, 0) /\ f.took = e.took
         /\ f.gave = e.gave /\ f.frees = e.frees /\ f.sent = Append(e.sent, seg)
    BY <2>2, <2>4, <2>6 DEF SameTalk
  <2>11. \E g : /\ f.sent = Append(e.sent, g)
                /\ ControlSegment(g, e.s, TRUE, e.s.snd_nxt, e.s.rcv_nxt)
    BY <2>9, <2>10
  <2> QED
    BY <1>2, <2>2, <2>10, <2>11 DEF f
<1> QED
  BY <1>1, <1>2

\* A pending read is answered with what is there.
LEMMA ProcessReadWithoutAckIs ==
  ASSUME NEW e, EffectOK(e)
  PROVE  LET f == ProcessReadWithoutAck(e)
             n == AtMost(e.s.read_len, Len(e.s.input))
         IN
         IF e.s.read_flag /\ n > 0
         THEN /\ f.s.valid = e.s.valid /\ f.s.state = e.s.state
              /\ f.s.callback = e.s.callback /\ f.s.fin_state = e.s.fin_state
              /\ f.s.fin_tag = e.s.fin_tag /\ f.s.read_flag = FALSE
              /\ f.s.write_flag = e.s.write_flag /\ f.s.snd_nxt = e.s.snd_nxt
              /\ SameOut(e.s, f.s) /\ f.s.rcv_nxt = e.s.rcv_nxt
              /\ f.s.input = SubSeq(e.s.input, n + 1, Len(e.s.input))
              /\ f.gave = e.gave \o SubSeq(e.s.input, 1, n)
              /\ f.rep = Append(e.rep, n)
              /\ f.sent = e.sent /\ f.took = e.took /\ f.frees = e.frees
         ELSE f = e
<1> DEFINE n == AtMost(e.s.read_len, Len(e.s.input))
           rest == SubSeq(e.s.input, n + 1, Len(e.s.input))
           out == e.gave \o SubSeq(e.s.input, 1, n)
           r == Reply(e, n)
           f == ProcessReadWithoutAck(e)
<1>1. CASE ~(e.s.read_flag /\ n > 0)
  BY <1>1 DEF ProcessReadWithoutAck
<1>2. CASE e.s.read_flag /\ n > 0
  <2>1. /\ e.s.input \in Seq(Byte) /\ Len(e.s.input) \in Nat
        /\ e.s.read_len \in Nat
    BY DEF EffectOK, EffectType, SocketOK, SocketType
  <2>2. n \in Nat
    BY <2>1, AtMostProperties
  <2>3. /\ EffectOK(r) /\ r.s = e.s /\ r.sent = e.sent /\ r.rep = Append(e.rep, n)
        /\ r.took = e.took /\ r.gave = e.gave /\ r.frees = e.frees
    <3>1. n \in Int
      BY <2>2
    <3> HIDE DEF n
    <3> QED
      BY <3>1, ReplyIs
  <2>4. f = [r EXCEPT !.s.timeout = 0, !.s.reset_time = 0, !.s.read_flag = FALSE,
                      !.s.input = rest, !.gave = out]
    <3>1. r = Reply(e, n)
      OBVIOUS
    <3> HIDE DEF r
    <3> QED
      BY <1>2, <2>3, <3>1 DEF ProcessReadWithoutAck
  <2>5. /\ rest = SubSeq(e.s.input, n + 1, Len(e.s.input))
        /\ out = e.gave \o SubSeq(e.s.input, 1, n)
    OBVIOUS
  <2> HIDE DEF rest, out, r, n, f
  <2>6. /\ f.s.valid = r.s.valid /\ f.s.state = r.s.state
        /\ f.s.callback = r.s.callback /\ f.s.fin_state = r.s.fin_state
        /\ f.s.fin_tag = r.s.fin_tag /\ f.s.read_flag = FALSE
        /\ f.s.write_flag = r.s.write_flag /\ f.s.snd_nxt = r.s.snd_nxt
        /\ SameOut(r.s, f.s) /\ f.s.rcv_nxt = r.s.rcv_nxt
        /\ f.s.input = rest /\ f.gave = out
        /\ f.rep = r.rep /\ f.sent = r.sent /\ f.took = r.took /\ f.frees = r.frees
    BY <2>3, <2>4 DEF EffectOK, EffectType, SocketOK, SocketType, SameOut
  <2> QED
    BY <1>2, <2>3, <2>5, <2>6 DEF f, n
<1> QED
  BY <1>1, <1>2

\* free_socket leaves the freed slot.
LEMMA FreeIs ==
  ASSUME NEW e, EffectOK(e)
  PROVE  /\ EffectOK(Free(e)) /\ Free(e).s = FreeSocket
         /\ Free(e).sent = e.sent /\ SameTalk(e, Free(e))
<1>1. EffectOK(Free(e))
  BY FreeOK
<1> QED
  BY <1>1 DEF Free, EffectOK, EffectType, SameTalk

-----------------------------------------------------------------------------
(***************************************************************************)
(* Calls and answers.  A pending call leaves exactly one mark in its       *)
(* socket; a routine answers the call at most once, and takes the mark     *)
(* away when it does.  A socket sends at most one FIN.                     *)
(***************************************************************************)
FinSent == {"FIN_WAIT1", "FIN_WAIT2", "LAST_ACK"}
FinWait == {"FIN_WAIT1", "FIN_WAIT2"}
FinHeard == {"CLOSE_WAIT", "LAST_ACK"}

\* The marks the call c of the application leaves in its socket.
Marks(s, c) ==
    /\ c = "read" <=> s.read_flag
    /\ c = "write" <=> s.write_flag
    /\ c = "connect" <=> s.state = "SYN_SENT"
    /\ s.state = "SYN_RECV" => c = "accept"
    /\ s.fin_tag => c = "close" /\ s.fin_state \in {"NONE", "CLOSE_WAIT"}
    /\ s.fin_state \in FinSent => c = "none"
    /\ s.write_pipe # <<>> => s.write_flag

\* What is left of the call c after the effect.
Current(e, c) == IF e.rep = <<>> THEN c ELSE "none"

\* One answer for a call, none for no call.
Answered(e, c) == Len(e.rep) <= 1 /\ (c = "none" => e.rep = <<>>)

\* At most one FIN, by a socket that had sent none; f is the fin_state the
\* routine started from.
Fins(e, c, f) ==
    /\ \A i \in DOMAIN e.sent : e.sent[i].fin =>
           f \notin FinSent /\ (e.s.valid => e.s.fin_state \in FinSent)
    /\ \A i, j \in DOMAIN e.sent : e.sent[i].fin /\ e.sent[j].fin => i = j
    /\ f \in FinSent /\ e.s.valid => e.s.fin_state \in FinSent
    /\ e.s.fin_state \in FinWait => f \in FinWait \/ (c = "close" /\ e.rep # <<>>)
    /\ f = "FIN_WAIT2" => e.s.fin_state = "FIN_WAIT2"

CallOK(e, c, f) ==
    EffectOK(e) /\ Marks(e.s, Current(e, c)) /\ Answered(e, c) /\ Fins(e, c, f)

\* An established socket sends acknowledgements, never a SYN.
Live(s) == s.valid /\ s.state = "ESTABLISHED" /\ ~s.callback
Acks(q) == \A i \in DOMAIN q : q[i].ack /\ ~q[i].syn
LiveOK(e, c, f) ==
    /\ CallOK(e, c, f) /\ Live(e.s) /\ Acks(e.sent) /\ e.frees = 0
    /\ e.s.fin_state \in FinHeard => f \in FinHeard
    /\ e.s.fin_state = "FIN_WAIT2" => f \in FinWait

\* Segments that are neither SYN nor FIN.
Plain(q) == \A i \in DOMAIN q : q[i].ack /\ ~q[i].syn /\ ~q[i].fin

\* The elements of a concatenation.
LEMMA ConcatElements ==
  ASSUME NEW S, NEW q \in Seq(S), NEW p \in Seq(S), NEW i \in DOMAIN (q \o p)
  PROVE  \/ i \in DOMAIN q /\ (q \o p)[i] = q[i]
         \/ i - Len(q) \in DOMAIN p /\ (q \o p)[i] = p[i - Len(q)]
<1>1. /\ Len(q) \in Nat /\ Len(p) \in Nat
      /\ DOMAIN q = 1 .. Len(q) /\ DOMAIN p = 1 .. Len(p)
  OBVIOUS
<1>2. /\ DOMAIN (q \o p) = 1 .. Len(q) + Len(p)
      /\ \A k \in 1 .. Len(q) + Len(p) :
             (q \o p)[k] = IF k <= Len(q) THEN q[k] ELSE p[k - Len(q)]
  BY ConcatProperties
<1> QED
  BY <1>1, <1>2

\* Append is a concatenation.
LEMMA AppendedOne ==
  ASSUME NEW S, NEW q \in Seq(S), NEW x \in S
  PROVE  /\ <<x>> \in Seq(S) /\ Append(q, x) = q \o <<x>>
         /\ DOMAIN <<x>> = {1} /\ <<x>>[1] = x
OBVIOUS

\* Appending nothing.
LEMMA ConcatNothing ==
  ASSUME NEW S, NEW q \in Seq(S)
  PROVE  <<>> \in Seq(S) /\ q \o <<>> = q /\ DOMAIN <<>> = {}
BY ConcatEmptySeq, EmptySeq

\* More segments without SYN and FIN change nothing of the above.
LEMMA PlainKeeps ==
  ASSUME NEW e, NEW c, NEW f, LiveOK(e, c, f), NEW d, EffectOK(d),
         SameCall(e.s, d.s), d.s.write_pipe = e.s.write_pipe, d.rep = e.rep,
         d.frees = e.frees,
         NEW new \in Seq(SegmentType), d.sent = e.sent \o new, Plain(new)
  PROVE  LiveOK(d, c, f)
<1>1. e.sent \in Seq(SegmentType)
  BY DEF LiveOK, CallOK, EffectOK, EffectType
<1>2. \A i \in DOMAIN d.sent :
         \/ i \in DOMAIN e.sent /\ d.sent[i] = e.sent[i]
         \/ d.sent[i].ack /\ ~d.sent[i].syn /\ ~d.sent[i].fin
  BY <1>1, ConcatElements DEF Plain
<1>3. /\ Live(d.s) /\ Acks(d.sent) /\ d.frees = 0
      /\ d.s.fin_state \in FinHeard => f \in FinHeard
      /\ d.s.fin_state = "FIN_WAIT2" => f \in FinWait
  BY <1>2 DEF LiveOK, Live, Acks, SameCall
<1>4. Marks(d.s, Current(d, c)) /\ Answered(d, c)
  BY DEF LiveOK, CallOK, Marks, Current, Answered, SameCall
<1>5. Fins(d, c, f)
  BY <1>2 DEF LiveOK, CallOK, Fins, SameCall
<1> QED
  BY <1>3, <1>4, <1>5 DEF LiveOK, CallOK

\* Nothing sent at all.
LEMMA QuietKeeps ==
  ASSUME NEW e, NEW c, NEW f, LiveOK(e, c, f), NEW d, EffectOK(d),
         SameCall(e.s, d.s), d.s.write_pipe = e.s.write_pipe, d.rep = e.rep,
         d.frees = e.frees,
         d.sent = e.sent
  PROVE  LiveOK(d, c, f)
<1>1. e.sent \in Seq(SegmentType)
  BY DEF LiveOK, CallOK, EffectOK, EffectType
<1>2. <<>> \in Seq(SegmentType) /\ e.sent \o <<>> = e.sent /\ Plain(<<>>)
  BY <1>1, ConcatNothing DEF Plain
<1> QED
  BY <1>2, PlainKeeps

\* An acknowledgement is sent.
LEMMA AckKeeps ==
  ASSUME NEW e, NEW c, NEW f, LiveOK(e, c, f), NEW seq \in Nat, NEW ack_seq \in Nat
  PROVE  LiveOK(Control(e, {"ack"}, seq, ack_seq), c, f)
<1> DEFINE d == Control(e, {"ack"}, seq, ack_seq)
           seg == Segment(e.s, {"ack"}, seq, ack_seq, <<>>)
<1>1. EffectOK(e) /\ e \in EffectType /\ SocketOK(e.s) /\ e.s \in SocketType
      /\ e.sent \in Seq(SegmentType)
  BY DEF LiveOK, CallOK, EffectOK, EffectType, SocketOK
<1>2. EffectOK(d) /\ d.s = e.s
  BY <1>1, ControlOK
<1>3. d.sent = Append(e.sent, seg) /\ d.rep = e.rep /\ d.frees = e.frees
  <2>1. d.sent = Append(e.sent, seg) /\ SameTalk(e, d)
    BY <1>1, ControlIs
  <2> HIDE DEF d, seg
  <2> QED
    BY <2>1 DEF SameTalk
<1>4. ControlSegment(seg, e.s, FALSE, seq, ack_seq)
  BY <1>1, ControlSegments DEF SocketOK
<1> HIDE DEF d, seg
<1>5. seg \in SegmentType /\ seg.ack /\ ~seg.syn /\ ~seg.fin
  BY <1>4 DEF ControlSegment
<1>6. <<seg>> \in Seq(SegmentType) /\ d.sent = e.sent \o <<seg>> /\ Plain(<<seg>>)
  BY <1>1, <1>3, <1>5, AppendedOne DEF Plain
<1>7. SameCall(e.s, d.s) /\ d.s.write_pipe = e.s.write_pipe
  BY <1>2 DEF SameCall
<1>8. LiveOK(d, c, f)
  BY <1>2, <1>3, <1>6, <1>7, PlainKeeps
<1> QED
  BY <1>8 DEF d

\* processSend
LEMMA ProcessSendCalls ==
  ASSUME NEW e, NEW c, NEW f, LiveOK(e, c, f)
  PROVE  LiveOK(ProcessSend(e), c, f)
<1> DEFINE d == ProcessSend(e)
<1>1. EffectOK(e) /\ EffectOK(d)
  BY ProcessSendOK DEF LiveOK, CallOK
<1>2. /\ SameCall(e.s, d.s) /\ d.s.write_pipe = e.s.write_pipe
      /\ d.rep = e.rep /\ d.frees = e.frees
      /\ \/ d.sent = e.sent
         \/ \E new \in Seq(SegmentType) : d.sent = e.sent \o new /\ Plain(new)
  BY <1>1, ProcessSendIs DEF SameOut, SameTalk, PieceOf, Plain
<1> HIDE DEF d
<1>3. LiveOK(d, c, f)
  BY <1>1, <1>2, QuietKeeps, PlainKeeps
<1> QED
  BY <1>3 DEF d

\* processWrite answers the write.
LEMMA ProcessWriteCalls ==
  ASSUME NEW e, NEW c, NEW f, LiveOK(e, c, f), e.s.write_flag
  PROVE  LiveOK(ProcessWrite(e), c, f)
<1> DEFINE d == ProcessWrite(e)
<1>1. EffectOK(e) /\ EffectOK(d) /\ e.rep \in Seq(Int)
  BY ProcessWriteOK DEF LiveOK, CallOK, EffectOK, EffectType
<1>2. c = "write" /\ e.rep = <<>>
  BY DEF LiveOK, CallOK, Marks, Current
<1>3. \E n : /\ d.rep = Append(e.rep, n) /\ d.sent = e.sent /\ d.frees = e.frees
              /\ d.s.write_flag = FALSE /\ d.s.write_pipe = <<>>
              /\ d.s.valid = e.s.valid /\ d.s.state = e.s.state
              /\ d.s.callback = e.s.callback /\ d.s.fin_state = e.s.fin_state
              /\ d.s.fin_tag = e.s.fin_tag /\ d.s.read_flag = e.s.read_flag
  BY <1>1, ProcessWriteIs
<1> HIDE DEF d
<1>4. d.rep # <<>> /\ Len(d.rep) = 1
  BY <1>1, <1>2, <1>3
<1>5. Marks(d.s, Current(d, c)) /\ Answered(d, c)
  BY <1>2, <1>3, <1>4 DEF LiveOK, CallOK, Marks, Current, Answered
<1>6. Fins(d, c, f) /\ Live(d.s) /\ Acks(d.sent) /\ d.frees = 0
  BY <1>2, <1>3, <1>4 DEF LiveOK, CallOK, Fins, Live, Acks
<1>7. LiveOK(d, c, f)
  BY <1>1, <1>3, <1>5, <1>6 DEF LiveOK, CallOK
<1> QED
  BY <1>7 DEF d

\* The FIN of a close is the first one, and answers it.
LEMMA ProcessFinCalls ==
  ASSUME NEW e, NEW c, NEW f, LiveOK(e, c, f)
  PROVE  LiveOK(ProcessFin(e), c, f)
<1> DEFINE d == ProcessFin(e)
<1>1. EffectOK(e) /\ EffectOK(d) /\ e.rep \in Seq(Int) /\ e.sent \in Seq(SegmentType)
  BY ProcessFinOK DEF LiveOK, CallOK, EffectOK, EffectType
<1>2. CASE ~(e.s.output = <<>> /\ e.s.fin_tag)
  BY <1>1, <1>2, ProcessFinIs
<1>3. CASE e.s.output = <<>> /\ e.s.fin_tag
  <2>1. c = "close" /\ e.rep = <<>> /\ e.s.fin_state \in {"NONE", "CLOSE_WAIT"}
    BY <1>3 DEF LiveOK, CallOK, Marks, Current
  <2>2. /\ f \notin FinSent /\ \A i \in DOMAIN e.sent : ~e.sent[i].fin
    BY <2>1 DEF LiveOK, CallOK, Fins, Live, FinSent
  <2>3. /\ d.s.valid = e.s.valid /\ d.s.state = e.s.state
        /\ d.s.callback = e.s.callback /\ d.s.fin_state = "FIN_WAIT1"
        /\ d.s.fin_tag = FALSE /\ d.s.read_flag = e.s.read_flag
        /\ d.s.write_flag = e.s.write_flag /\ d.s.write_pipe = e.s.write_pipe
        /\ d.rep = Append(e.rep, 0) /\ d.frees = e.frees
        /\ \E seg : /\ d.sent = Append(e.sent, seg) /\ seg \in SegmentType
                    /\ seg.ack /\ ~seg.syn /\ seg.fin
    BY <1>1, <1>3, ProcessFinIs DEF SameOut, ControlSegment
  <2> HIDE DEF d
  <2>4. PICK seg \in SegmentType : /\ d.sent = Append(e.sent, seg)
                                   /\ seg.ack /\ ~seg.syn /\ seg.fin
    BY <2>3
  <2>5. /\ <<seg>> \in Seq(SegmentType) /\ d.sent = e.sent \o <<seg>>
        /\ DOMAIN <<seg>> = {1} /\ <<seg>>[1] = seg
    BY <1>1, <2>4, AppendedOne
  <2>6. \A i \in DOMAIN d.sent :
           \/ i \in DOMAIN e.sent /\ d.sent[i] = e.sent[i]
           \/ i - Len(e.sent) = 1 /\ d.sent[i] = seg
    BY <1>1, <2>5, ConcatElements
  <2>7. d.rep # <<>> /\ Len(d.rep) = 1
    BY <1>1, <2>1, <2>3
  <2>8. Marks(d.s, Current(d, c)) /\ Answered(d, c)
    BY <2>1, <2>3, <2>7 DEF LiveOK, CallOK, Marks, Current, Answered, FinSent
  <2>9. Live(d.s) /\ Acks(d.sent) /\ d.frees = 0
    BY <2>3, <2>4, <2>6 DEF LiveOK, Live, Acks
  <2>10. \A i, j \in DOMAIN d.sent : d.sent[i].fin /\ d.sent[j].fin => i = j
    <3>1. Len(e.sent) \in Nat /\ DOMAIN d.sent \subseteq Nat
      BY <1>1, <2>4, AppendTyped
    <3> SUFFICES ASSUME NEW i \in DOMAIN d.sent, NEW j \in DOMAIN d.sent,
                        d.sent[i].fin, d.sent[j].fin
                 PROVE  i = j
      OBVIOUS
    <3>2. i - Len(e.sent) = 1 /\ j - Len(e.sent) = 1
      BY <2>2, <2>6
    <3>3. i \in Nat /\ j \in Nat
      BY <3>1
    <3> QED
      BY <3>1, <3>2, <3>3
  <2>11. Fins(d, c, f)
    BY <2>1, <2>2, <2>3, <2>7, <2>10
    DEF LiveOK, CallOK, Fins, FinSent, FinWait
  <2>12. LiveOK(d, c, f)
    BY <1>1, <2>3, <2>8, <2>9, <2>11 DEF LiveOK, CallOK, FinHeard
  <2> QED
    BY <2>12 DEF d
<1> QED
  BY <1>2, <1>3

\* processWriteSend
LEMMA ProcessWriteSendCalls ==
  ASSUME NEW e, NEW c, NEW f, LiveOK(e, c, f)
  PROVE  LiveOK(ProcessWriteSend(e), c, f)
<1> DEFINE sent == ProcessSend(e)
           more == ProcessSend(ProcessWrite(sent))
<1>1. LiveOK(sent, c, f)
  BY ProcessSendCalls
<1>2. \/ ProcessWriteSend(e) = ProcessFin(sent)
      \/ sent.s.write_flag /\ ProcessWriteSend(e) = ProcessFin(more)
  BY DEF ProcessWriteSend
<1>3. sent.s.write_flag => LiveOK(more, c, f)
  BY <1>1, ProcessWriteCalls, ProcessSendCalls
<1> HIDE DEF sent, more
<1> QED
  BY <1>1, <1>2, <1>3, ProcessFinCalls

\* A pending read is answered once.
LEMMA ProcessReadCalls ==
  ASSUME NEW e, NEW c, NEW f, LiveOK(e, c, f)
  PROVE  LiveOK(ProcessRead(e), c, f)
<1> DEFINE d == ProcessReadWithoutAck(e)
<1>1. EffectOK(e) /\ EffectOK(d) /\ e.rep \in Seq(Int)
  BY ProcessReadWithoutAckOK DEF LiveOK, CallOK, EffectOK, EffectType
<1>2. \/ d = e
      \/ /\ e.s.read_flag
         /\ \E n : /\ d.rep = Append(e.rep, n) /\ d.sent = e.sent /\ d.frees = e.frees
                   /\ d.s.read_flag = FALSE /\ d.s.write_pipe = e.s.write_pipe
                   /\ d.s.valid = e.s.valid /\ d.s.state = e.s.state
                   /\ d.s.callback = e.s.callback /\ d.s.fin_state = e.s.fin_state
                   /\ d.s.fin_tag = e.s.fin_tag /\ d.s.write_flag = e.s.write_flag
  BY <1>1, ProcessReadWithoutAckIs DEF SameOut
<1>3. ProcessRead(e) = Control(d, {"ack"}, d.s.snd_nxt, d.s.rcv_nxt)
  BY DEF ProcessRead
<1> HIDE DEF d
<1>4. CASE d = e
  BY <1>1, <1>3, <1>4, Numbers, AckKeeps
<1>5. CASE d # e
  <2>1. c = "read" /\ e.rep = <<>>
    BY <1>2, <1>5 DEF LiveOK, CallOK, Marks, Current
  <2>2. d.rep # <<>> /\ Len(d.rep) = 1
    <3>1. PICK n : d.rep = Append(e.rep, n)
      BY <1>2, <1>5
    <3> QED
      BY <2>1, <3>1
  <2>3. Marks(d.s, Current(d, c)) /\ Answered(d, c)
    BY <1>2, <1>5, <2>1, <2>2 DEF LiveOK, CallOK, Marks, Current, Answered
  <2>4. Fins(d, c, f) /\ Live(d.s) /\ Acks(d.sent) /\ d.frees = 0
    BY <1>2, <1>5, <2>1, <2>2 DEF LiveOK, CallOK, Fins, Live, Acks
  <2>5. LiveOK(d, c, f)
    BY <1>1, <1>2, <1>5, <2>3, <2>4 DEF LiveOK, CallOK
  <2> QED
    BY <1>1, <1>3, <2>5, Numbers, AckKeeps
<1> QED
  BY <1>4, <1>5

\* What an acknowledgement does before more is sent: it moves snd_una up to
\* snd_nxt at most, or only the window, or tells that the FIN has arrived.
Acked(e, a, una, window, output) ==
    /\ EffectOK(a) /\ SameCall(e.s, a.s) /\ SameIn(e.s, a.s) /\ SameTalk(e, a)
    /\ a.sent = e.sent /\ a.s.write_pipe = e.s.write_pipe
    /\ a.s.snd_nxt = e.s.snd_nxt
    /\ a.s.snd_una = una /\ a.s.peer_window_size = window /\ a.s.output = output

\* The three ways an acknowledgement counts, or it is old.
LEMMA ReceiveAckIs ==
  ASSUME NEW e, EffectOK(e), NEW seg \in SegmentType
  PROVE  LET n == seg.ack_seq
             out == SubSeq(e.s.output, n - e.s.snd_una + 1, Len(e.s.output))
             d == ReceiveAck(e, seg)
         IN
         \/ /\ seg.ack /\ e.s.snd_una < n /\ n <= e.s.snd_nxt
            /\ \E a : Acked(e, a, n, seg.window, out) /\ d = ProcessWriteSend(a)
         \/ /\ seg.ack /\ e.s.snd_una = n
            /\ \E a : /\ Acked(e, a, e.s.snd_una, seg.window, e.s.output)
                      /\ d = ProcessWriteSend(a)
         \/ /\ seg.ack /\ n > e.s.snd_nxt /\ e.s.fin_state = "FIN_WAIT1"
            /\ d = [e EXCEPT !.s.fin_state = "FIN_WAIT2"]
         \/ d = e
<1>1. /\ seg.ack_seq \in Nat /\ seg.window \in Nat
  BY CapacityType DEF SegmentType
<1> DEFINE out == SubSeq(e.s.output, seg.ack_seq - e.s.snd_una + 1, Len(e.s.output))
           n == seg.ack_seq
           win == seg.window
           a == [e EXCEPT !.s.timeout = 0, !.s.reset_time = 0, !.s.output = out,
                          !.s.snd_una = n, !.s.peer_window_size = win]
           b == [e EXCEPT !.s.reset_time = 0, !.s.peer_window_size = win]
<1>2. ASSUME n > e.s.snd_una, n <= e.s.snd_nxt
      PROVE  Acked(e, a, n, win, out)
  <2>1. e.s.output \in Seq(Byte) /\ Len(e.s.output) \in Nat
    BY DEF EffectOK, SocketOK, SocketType
  <2>2. n - e.s.snd_una + 1 \in Nat \ {0}
    BY <1>1, <1>2, Numbers
  <2>3. out \in Seq(Byte) /\ Len(out) <= OutCapacity
    <3>1. Len(e.s.output) <= OutCapacity
      BY DEF EffectOK, SocketOK
    <3>2. out \in Seq(Byte) /\ Len(out) <= Len(e.s.output) /\ Len(out) \in Nat
      BY <2>1, <2>2, SubSeqOK
    <3> HIDE DEF out
    <3> QED
      BY <2>1, <3>1, <3>2, CapacityType
  <2>4. n \in Nat /\ win \in Nat
    BY <1>1
  <2> HIDE DEF out, n, win
  <2> DEFINE w == [e.s EXCEPT !.timeout = 0, !.reset_time = 0, !.output = out,
                              !.snd_una = n, !.peer_window_size = win]
  <2>5. SocketOK(e.s)
    BY DEF EffectOK
  <2>6. SocketOK(w)
    BY <1>2, <2>3, <2>4, <2>5 DEF SocketOK, SocketType
  <2>7. /\ SameCall(e.s, w) /\ SameIn(e.s, w) /\ w.write_pipe = e.s.write_pipe
        /\ w.snd_nxt = e.s.snd_nxt
        /\ w.snd_una = n /\ w.peer_window_size = win /\ w.output = out
    BY <2>5 DEF SocketOK, SocketType, SameCall, SameIn
  <2>8. a = [e EXCEPT !.s = w]
    BY DEF EffectOK, EffectType
  <2> HIDE DEF w, a
  <2>9. a \in EffectType /\ a.s = w /\ SameTalk(e, a) /\ a.sent = e.sent
    BY <2>6, <2>8 DEF EffectOK, EffectType, SocketOK, SameTalk
  <2> QED
    BY <2>6, <2>7, <2>9 DEF EffectOK, Acked
<1>3. Acked(e, b, e.s.snd_una, win, e.s.output)
  <2>1. win \in Nat
    BY <1>1
  <2> HIDE DEF win
  <2>2. EffectOK(b)
    BY <2>1 DEF EffectOK, EffectType, SocketOK, SocketType
  <2>3. /\ SameCall(e.s, b.s) /\ SameIn(e.s, b.s) /\ SameTalk(e, b)
        /\ b.sent = e.sent /\ b.s.write_pipe = e.s.write_pipe
        /\ b.s.snd_nxt = e.s.snd_nxt /\ b.s.snd_una = e.s.snd_una
        /\ b.s.peer_window_size = win /\ b.s.output = e.s.output
    BY DEF EffectOK, EffectType, SocketOK, SocketType, SameCall, SameIn, SameTalk
  <2> HIDE DEF b
  <2> QED
    BY <2>2, <2>3 DEF Acked
<1>4. CASE seg.ack /\ n > e.s.snd_una /\ n <= e.s.snd_nxt
  <2>1. ReceiveAck(e, seg) = ProcessWriteSend(a)
    BY <1>4 DEF ReceiveAck
  <2> HIDE DEF a
  <2> QED
    BY <1>2, <1>4, <2>1
<1>5. CASE seg.ack /\ n = e.s.snd_una
  <2>1. ReceiveAck(e, seg) = ProcessWriteSend(b)
    BY <1>1, <1>5 DEF ReceiveAck
  <2> HIDE DEF b
  <2> QED
    BY <1>3, <1>5, <2>1
<1>6. CASE ~(seg.ack /\ n > e.s.snd_una /\ n <= e.s.snd_nxt)
           /\ ~(seg.ack /\ n = e.s.snd_una)
  <2>1. \/ /\ seg.ack /\ n > e.s.snd_nxt /\ e.s.fin_state = "FIN_WAIT1"
           /\ ReceiveAck(e, seg) = [e EXCEPT !.s.fin_state = "FIN_WAIT2"]
        \/ ReceiveAck(e, seg) = e
    BY <1>6 DEF ReceiveAck
  <2> QED
    BY <2>1
<1> QED
  BY <1>4, <1>5, <1>6

\* A payload that is the next one expected joins the input buffer, as much as
\* fits, before a pending read is answered and an acknowledgement sent.
LEMMA ReceiveDataIs ==
  ASSUME NEW e, EffectOK(e), NEW seg \in SegmentType
  PROVE  LET n == AtMost(Len(seg.data), InFree(e.s))
             d == ReceiveData(e, seg)
         IN
         \/ d = e
         \/ /\ seg.data # <<>> /\ seg.seq = e.s.rcv_nxt
            /\ \E a : /\ EffectOK(a) /\ SameCall(e.s, a.s) /\ SameOut(e.s, a.s)
                      /\ a.s.snd_nxt = e.s.snd_nxt
                      /\ SameTalk(e, a) /\ a.sent = e.sent
                      /\ a.s.rcv_nxt = e.s.rcv_nxt + n
                      /\ a.s.input = e.s.input \o SubSeq(seg.data, 1, n)
                      /\ d = ProcessRead(a)
<1> DEFINE n == AtMost(Len(seg.data), InFree(e.s))
           inp == e.s.input \o SubSeq(seg.data, 1, n)
           next == e.s.rcv_nxt + n
           w == [e.s EXCEPT !.input = inp, !.rcv_nxt = next]
           a == [e EXCEPT !.s.input = inp, !.s.rcv_nxt = next]
<1>1. /\ e.s.input \in Seq(Byte) /\ Len(e.s.input) \in Nat
      /\ seg.data \in Seq(Byte) /\ Len(seg.data) \in Nat
  <2>1. SocketOK(e.s) /\ e.s.input \in Seq(Byte)
    BY DEF EffectOK, SocketOK, SocketType
  <2>2. seg.data \in Seq(Byte)
    BY DEF SegmentType
  <2> QED
    BY ONLY <2>1, <2>2, LenProperties
<1>2. InFree(e.s) \in Nat /\ Len(e.s.input) + InFree(e.s) = InCapacity
  BY <1>1, FreeSizes, CapacityType DEF EffectOK, InFree
<1>3. n \in Nat /\ n <= Len(seg.data) /\ n <= InFree(e.s)
  BY <1>1, <1>2, AtMostProperties
<1>4. /\ SubSeq(seg.data, 1, n) \in Seq(Byte)
      /\ Len(SubSeq(seg.data, 1, n)) = n
  BY <1>1, <1>3, SubSeqOK
<1>5. inp \in Seq(Byte) /\ Len(inp) <= InCapacity
  BY <1>1, <1>2, <1>3, <1>4, ConcatOK
<1>6. next \in Nat
  BY <1>3, Numbers
<1>7. \/ ReceiveData(e, seg) = e
      \/ /\ seg.data # <<>> /\ seg.seq = e.s.rcv_nxt
         /\ ReceiveData(e, seg) = ProcessRead(a)
  BY DEF ReceiveData, EffectOK, EffectType, SocketOK, SocketType
<1>8. inp = e.s.input \o SubSeq(seg.data, 1, n) /\ next = e.s.rcv_nxt + n
  OBVIOUS
<1> HIDE DEF inp, next
<1>9. SocketOK(w)
  BY <1>5, <1>6 DEF EffectOK, SocketOK, SocketType
<1>10. /\ SameCall(e.s, w) /\ SameOut(e.s, w) /\ w.snd_nxt = e.s.snd_nxt
       /\ w.rcv_nxt = next /\ w.input = inp
  BY DEF EffectOK, SocketOK, SocketType, SameCall, SameOut
<1>11. a = [e EXCEPT !.s = w]
  BY DEF EffectOK, EffectType
<1> HIDE DEF w, a
<1>12. a \in EffectType /\ a.s = w /\ SameTalk(e, a) /\ a.sent = e.sent
  BY <1>9, <1>11 DEF EffectOK, EffectType, SocketOK, SameTalk
<1>13. EffectOK(a)
  BY <1>9, <1>12 DEF EffectOK
<1> QED
  BY <1>7, <1>8, <1>10, <1>12, <1>13 DEF n

\* TCPCallback in ESTABLISHED: the acknowledgement and the payload.
LEMMA ReceiveAckCalls ==
  ASSUME NEW e, NEW c, NEW f, LiveOK(e, c, f), NEW seg \in SegmentType,
         f = e.s.fin_state
  PROVE  LiveOK(ReceiveAck(e, seg), c, f)
<1> DEFINE d == ReceiveAck(e, seg)
<1>1. EffectOK(e) /\ EffectOK(d)
  BY ReceiveAckOK DEF LiveOK, CallOK
<1>2. ASSUME NEW a, NEW una, NEW window, NEW output, Acked(e, a, una, window, output)
      PROVE  LiveOK(ProcessWriteSend(a), c, f)
  <2>1. LiveOK(a, c, f)
    BY <1>2, QuietKeeps DEF Acked, SameTalk
  <2> QED
    BY <2>1, ProcessWriteSendCalls
<1>3. CASE /\ e.s.fin_state = "FIN_WAIT1"
           /\ d = [e EXCEPT !.s.fin_state = "FIN_WAIT2"]
  <2> HIDE DEF d
  <2>1. /\ d.s.valid = e.s.valid /\ d.s.state = e.s.state
        /\ d.s.callback = e.s.callback /\ d.s.fin_state = "FIN_WAIT2"
        /\ d.s.fin_tag = e.s.fin_tag /\ d.s.read_flag = e.s.read_flag
        /\ d.s.write_flag = e.s.write_flag /\ d.s.write_pipe = e.s.write_pipe
        /\ d.rep = e.rep /\ d.sent = e.sent /\ d.frees = e.frees
    <3>1. EffectOK(e) /\ d = [e EXCEPT !.s.fin_state = "FIN_WAIT2"]
      BY <1>1, <1>3
    <3> QED
      BY <3>1 DEF EffectOK, EffectType, SocketOK, SocketType
  <2>2. Marks(d.s, Current(d, c)) /\ Answered(d, c)
    BY <1>3, <2>1 DEF LiveOK, CallOK, Marks, Current, Answered, FinSent
  <2>3. Fins(d, c, f)
    BY <1>3, <2>1 DEF LiveOK, CallOK, Fins, FinSent, FinWait
  <2>4. LiveOK(d, c, f)
    BY <1>1, <1>3, <2>1, <2>2, <2>3
    DEF LiveOK, CallOK, Live, Acks, FinHeard, FinWait
  <2> QED
    BY <2>4 DEF d
<1> HIDE DEF d
<1> QED
  BY <1>1, <1>2, <1>3, ReceiveAckIs DEF d

\* TCPCallback in ESTABLISHED: the payload.
LEMMA ReceiveDataCalls ==
  ASSUME NEW e, NEW c, NEW f, LiveOK(e, c, f), NEW seg \in SegmentType
  PROVE  LiveOK(ReceiveData(e, seg), c, f)
<1>1. EffectOK(e)
  BY DEF LiveOK, CallOK
<1>2. ASSUME NEW a, EffectOK(a), SameCall(e.s, a.s), SameOut(e.s, a.s),
             SameTalk(e, a), a.sent = e.sent
      PROVE  LiveOK(ProcessRead(a), c, f)
  <2>1. LiveOK(a, c, f)
    BY <1>2, QuietKeeps DEF SameTalk, SameOut
  <2> QED
    BY <2>1, ProcessReadCalls
<1> QED
  BY <1>1, <1>2, ReceiveDataIs

\* Everything but fin_state, and who is answered, is as it was.
ButFin(s, t) ==
    /\ t.valid = s.valid /\ t.state = s.state /\ t.callback = s.callback
    /\ t.fin_tag = s.fin_tag /\ t.write_flag = s.write_flag
    /\ SameIn(s, t) /\ SameOut(s, t) /\ t.snd_nxt = s.snd_nxt

\* The last FIN joins the segments.
LEMMA SendLastFinIs ==
  ASSUME NEW e, EffectOK(e)
  PROVE  LET d == SendLastFin(e) IN
         /\ ButFin(e.s, d.s) /\ d.s.fin_state = "LAST_ACK"
         /\ d.s.read_flag = e.s.read_flag /\ SameTalk(e, d)
         /\ \E seg : /\ d.sent = Append(e.sent, seg)
                     /\ ControlSegment(seg, e.s, TRUE, e.s.snd_nxt, e.s.rcv_nxt + 1)
<1> DEFINE d == SendLastFin(e)
           w == [e EXCEPT !.s.fin_state = "LAST_ACK"]
           n == e.s.rcv_nxt + 1
           seg == Segment(w.s, {"ack", "fin"}, e.s.snd_nxt, n, <<>>)
<1>1. EffectOK(w)
  BY DEF EffectOK, EffectType, SocketOK, SocketType, FinStates
<1>2. /\ ButFin(e.s, w.s) /\ w.s.fin_state = "LAST_ACK"
      /\ w.s.read_flag = e.s.read_flag /\ SameTalk(e, w) /\ w.sent = e.sent
  BY DEF EffectOK, EffectType, SocketOK, SocketType, ButFin, SameIn, SameOut, SameTalk
<1>3. d = Control(w, {"ack", "fin"}, e.s.snd_nxt, n)
  BY DEF SendLastFin
<1>4. e.s.snd_nxt \in Nat /\ n \in Nat
  BY Numbers
<1> HIDE DEF w, n, d
<1>5. d.s = w.s /\ SameTalk(w, d) /\ d.sent = Append(w.sent, seg)
  BY <1>1, <1>3, <1>4, ControlIs DEF EffectOK
<1>6. ControlSegment(seg, w.s, TRUE, e.s.snd_nxt, n)
  BY <1>1, <1>4, ControlSegments DEF EffectOK, SocketOK
<1>7. InFree(w.s) = InFree(e.s)
  BY <1>2 DEF ButFin, SameIn, InFree
<1> HIDE DEF seg
<1>8. ControlSegment(seg, e.s, TRUE, e.s.snd_nxt, n)
  BY <1>6, <1>7 DEF ControlSegment
<1>9. SameTalk(e, d) /\ d.sent = Append(e.sent, seg)
  BY <1>2, <1>5 DEF SameTalk
<1> QED
  BY <1>2, <1>5, <1>8, <1>9 DEF d, n

\* What a segment does after its acknowledgement and its payload: the peer's
\* FIN is acknowledged; it is also answered with the last FIN when it ends a
\* read; the last FIN is acknowledged and a thread started to free the socket.
HearsFin(e, d, seg) ==
    /\ seg.fin /\ e.s.fin_state = "NONE" /\ ~e.s.read_flag
    /\ ButFin(e.s, d.s) /\ d.s.fin_state = "CLOSE_WAIT"
    /\ d.s.read_flag = e.s.read_flag /\ SameTalk(e, d)
    /\ \E a : /\ ControlSegment(a, e.s, FALSE, e.s.snd_nxt, e.s.rcv_nxt + 1)
              /\ d.sent = Append(e.sent, a)

AnswersFin(e, d, seg) ==
    /\ seg.fin /\ e.s.fin_state = "NONE" /\ e.s.read_flag
    /\ ButFin(e.s, d.s) /\ d.s.fin_state = "LAST_ACK"
    /\ d.s.read_flag = FALSE /\ d.rep = Append(e.rep, 0)
    /\ d.took = e.took /\ d.gave = e.gave /\ d.frees = e.frees
    /\ \E a, b : /\ ControlSegment(a, e.s, FALSE, e.s.snd_nxt, e.s.rcv_nxt + 1)
                 /\ ControlSegment(b, e.s, TRUE, e.s.snd_nxt, e.s.rcv_nxt + 1)
                 /\ d.sent = Append(Append(e.sent, a), b)

LingersAfterFin(e, d, seg) ==
    /\ seg.fin /\ e.s.fin_state = "FIN_WAIT2"
    /\ ButFin(e.s, d.s) /\ d.s.fin_state = "FIN_WAIT2"
    /\ d.s.read_flag = e.s.read_flag /\ d.rep = e.rep
    /\ d.took = e.took /\ d.gave = e.gave /\ d.frees = e.frees + 1
    /\ \E a : /\ ControlSegment(a, e.s, FALSE, e.s.snd_nxt + 1, seg.seq + 1)
              /\ d.sent = Append(e.sent, a)

\* The four things a FIN or the last acknowledgement can do.
LEMMA ReceiveFinIs ==
  ASSUME NEW e, EffectOK(e), NEW seg \in SegmentType, NEW finAcked
  PROVE  LET d == ReceiveFin(e, seg, finAcked) IN
         \/ HearsFin(e, d, seg)
         \/ AnswersFin(e, d, seg)
         \/ LingersAfterFin(e, d, seg) /\ ~finAcked
         \/ seg.ack /\ e.s.fin_state = "LAST_ACK" /\ d = Free(e)
         \/ d = e
<1> DEFINE d == ReceiveFin(e, seg, finAcked)
           c == [e EXCEPT !.s.reset_time = 0, !.s.fin_state = "CLOSE_WAIT"]
           n == e.s.rcv_nxt + 1
           nxt == e.s.snd_nxt
           a == Segment(c.s, {"ack"}, nxt, n, <<>>)
           waiting == Control(c, {"ack"}, nxt, n)
           last == Reply(SendLastFin(waiting), 0)
           l == [last EXCEPT !.s.read_flag = FALSE]
           f == [e EXCEPT !.s.reset_time = 0]
           g == Control(f, {"ack"}, nxt + 1, seg.seq + 1)
           h == [g EXCEPT !.frees = @ + 1]
<1>1. EffectOK(c)
  BY DEF EffectOK, EffectType, SocketOK, SocketType, FinStates
<1>2. EffectOK(f)
  BY DEF EffectOK, EffectType, SocketOK, SocketType
<1>3. /\ nxt \in Nat /\ n \in Nat /\ nxt + 1 \in Nat /\ seg.seq + 1 \in Nat
  BY Numbers DEF SegmentType
<1>4. /\ ButFin(e.s, c.s) /\ c.s.fin_state = "CLOSE_WAIT"
      /\ c.s.read_flag = e.s.read_flag /\ SameTalk(e, c) /\ c.sent = e.sent
  BY DEF EffectOK, EffectType, SocketOK, SocketType, ButFin, SameIn, SameOut, SameTalk
<1>5. /\ ButFin(e.s, f.s) /\ f.s.fin_state = e.s.fin_state
      /\ f.s.read_flag = e.s.read_flag /\ SameTalk(e, f) /\ f.sent = e.sent
  BY DEF EffectOK, EffectType, SocketOK, SocketType, ButFin, SameIn, SameOut, SameTalk
<1>6. nxt = e.s.snd_nxt /\ n = e.s.rcv_nxt + 1
  OBVIOUS
<1>7. \/ seg.fin /\ e.s.fin_state = "NONE" /\ ~e.s.read_flag /\ d = waiting
      \/ seg.fin /\ e.s.fin_state = "NONE" /\ e.s.read_flag /\ d = l
      \/ seg.fin /\ e.s.fin_state = "FIN_WAIT2" /\ ~finAcked /\ d = h
      \/ seg.ack /\ e.s.fin_state = "LAST_ACK" /\ d = Free(e)
      \/ d = e
  BY DEF ReceiveFin
<1>8. InFree(c.s) = InFree(e.s) /\ InFree(f.s) = InFree(e.s)
  BY <1>4, <1>5 DEF ButFin, SameIn, InFree
<1> HIDE DEF c, f, n, nxt
<1>9. EffectOK(waiting) /\ waiting.s = c.s
  BY <1>1, <1>3, ControlOK
<1>10. SameTalk(c, waiting) /\ waiting.sent = Append(c.sent, a)
  BY <1>1, <1>3, ControlIs DEF EffectOK
<1>11. ControlSegment(a, e.s, FALSE, nxt, n)
  <2>1. ControlSegment(a, c.s, FALSE, nxt, n)
    BY <1>1, <1>3, ControlSegments DEF EffectOK, SocketOK
  <2> HIDE DEF a
  <2> QED
    BY <1>8, <2>1 DEF ControlSegment
<1> HIDE DEF a, waiting, d
<1>12. CASE d = waiting /\ seg.fin /\ e.s.fin_state = "NONE" /\ ~e.s.read_flag
  <2>1. /\ ButFin(e.s, d.s) /\ d.s.fin_state = "CLOSE_WAIT"
        /\ d.s.read_flag = e.s.read_flag /\ SameTalk(e, d)
        /\ d.sent = Append(e.sent, a)
    BY <1>4, <1>9, <1>10, <1>12 DEF SameTalk
  <2> QED
    BY <1>6, <1>11, <1>12, <2>1 DEF HearsFin, d
<1>13. CASE d = l /\ seg.fin /\ e.s.fin_state = "NONE" /\ e.s.read_flag
  <2> DEFINE s == SendLastFin(waiting)
  <2>1. EffectOK(s)
    BY <1>9, SendLastFinOK
  <2>2. /\ ButFin(waiting.s, s.s) /\ s.s.fin_state = "LAST_ACK" /\ SameTalk(waiting, s)
        /\ \E b : /\ s.sent = Append(waiting.sent, b)
                  /\ ControlSegment(b, waiting.s, TRUE, waiting.s.snd_nxt,
                                    waiting.s.rcv_nxt + 1)
    BY <1>9, SendLastFinIs
  <2> HIDE DEF s
  <2>3. /\ EffectOK(last) /\ last.s = s.s /\ last.sent = s.sent
        /\ last.rep = Append(s.rep, 0) /\ last.took = s.took
        /\ last.gave = s.gave /\ last.frees = s.frees
    <3>1. 0 \in Int
      OBVIOUS
    <3> QED
      BY <2>1, <3>1, ReplyIs DEF s
  <2> HIDE DEF last
  <2>4. /\ ButFin(last.s, l.s) /\ l.s.fin_state = last.s.fin_state
        /\ l.s.read_flag = FALSE /\ l.sent = last.sent
        /\ l.rep = last.rep /\ l.took = last.took /\ l.gave = last.gave
        /\ l.frees = last.frees
    BY <2>3 DEF EffectOK, EffectType, SocketOK, SocketType, ButFin, SameIn, SameOut
  <2> HIDE DEF l
  <2>5. PICK b : /\ s.sent = Append(waiting.sent, b)
                 /\ ControlSegment(b, waiting.s, TRUE, waiting.s.snd_nxt,
                                   waiting.s.rcv_nxt + 1)
    BY <2>2
  <2>6. ControlSegment(b, e.s, TRUE, nxt, n)
    <3>1. waiting.s.snd_nxt = nxt /\ waiting.s.rcv_nxt + 1 = n
      BY <1>4, <1>6, <1>9 DEF ButFin, SameIn
    <3> QED
      BY <1>8, <1>9, <2>5, <3>1 DEF ControlSegment
  <2>7. ButFin(e.s, d.s) /\ d.s.fin_state = "LAST_ACK" /\ d.s.read_flag = FALSE
    BY <1>4, <1>9, <1>13, <2>2, <2>3, <2>4 DEF ButFin, SameIn, SameOut
  <2>8. /\ d.rep = Append(e.rep, 0) /\ d.took = e.took /\ d.gave = e.gave
        /\ d.frees = e.frees /\ d.sent = Append(Append(e.sent, a), b)
    BY <1>4, <1>10, <1>13, <2>2, <2>3, <2>4, <2>5 DEF SameTalk
  <2> QED
    BY <1>6, <1>11, <1>13, <2>6, <2>7, <2>8 DEF AnswersFin, d
<1>14. CASE d = h /\ seg.fin /\ e.s.fin_state = "FIN_WAIT2" /\ ~finAcked
  <2> DEFINE x == Segment(f.s, {"ack"}, nxt + 1, seg.seq + 1, <<>>)
  <2>1. EffectOK(g) /\ g.s = f.s
    BY <1>2, <1>3, ControlOK
  <2>2. SameTalk(f, g) /\ g.sent = Append(f.sent, x)
    BY <1>2, <1>3, ControlIs DEF EffectOK
  <2>3. ControlSegment(x, e.s, FALSE, nxt + 1, seg.seq + 1)
    <3>1. ControlSegment(x, f.s, FALSE, nxt + 1, seg.seq + 1)
      BY <1>2, <1>3, ControlSegments DEF EffectOK, SocketOK
    <3> HIDE DEF x
    <3> QED
      BY <1>8, <3>1 DEF ControlSegment
  <2> HIDE DEF g, x
  <2>4. /\ h.s = g.s /\ h.sent = g.sent /\ h.rep = g.rep /\ h.took = g.took
        /\ h.gave = g.gave /\ h.frees = g.frees + 1
    BY <2>1 DEF EffectOK, EffectType
  <2> HIDE DEF h
  <2>5. /\ ButFin(e.s, d.s) /\ d.s.fin_state = "FIN_WAIT2"
        /\ d.s.read_flag = e.s.read_flag /\ d.rep = e.rep
        /\ d.took = e.took /\ d.gave = e.gave /\ d.frees = e.frees + 1
        /\ d.sent = Append(e.sent, x)
    BY <1>5, <1>14, <2>1, <2>2, <2>4 DEF SameTalk
  <2> QED
    BY <1>6, <1>14, <2>3, <2>5 DEF LingersAfterFin, d
<1>15. CASE seg.ack /\ e.s.fin_state = "LAST_ACK" /\ d = Free(e)
  BY <1>15 DEF d
<1>16. CASE d = e
  BY <1>16 DEF d
<1> HIDE DEF last, l, h
<1> QED
  BY <1>7, <1>12, <1>13, <1>14, <1>15, <1>16

\* A thread that frees the socket later is started for a FIN in FIN_WAIT2
\* only, and the peer's FIN is heard of in a FIN only.
EndOK(e, c, f, seg) ==
    /\ CallOK(e, c, f) /\ Acks(e.sent)
    /\ Live(e.s) \/ (e.s = FreeSocket /\ f \notin FinWait)
    /\ e.frees = 0 \/ (e.frees = 1 /\ seg.fin /\ f = "FIN_WAIT2")
    /\ e.s.fin_state \in FinHeard => f \in FinHeard \/ seg.fin

\* Appending one segment that is neither SYN nor FIN.
LEMMA AppendPlain ==
  ASSUME NEW q \in Seq(SegmentType), NEW s, NEW seq, NEW ack_seq,
         NEW a, ControlSegment(a, s, FALSE, seq, ack_seq)
  PROVE  /\ Append(q, a) \in Seq(SegmentType)
         /\ Len(Append(q, a)) = Len(q) + 1
         /\ \A i \in DOMAIN Append(q, a) :
                \/ i \in DOMAIN q /\ Append(q, a)[i] = q[i]
                \/ /\ Append(q, a)[i].ack /\ ~Append(q, a)[i].syn
                   /\ ~Append(q, a)[i].fin
<1>1. a \in SegmentType /\ a.ack /\ ~a.syn /\ ~a.fin
  BY DEF ControlSegment
<1>2. <<a>> \in Seq(SegmentType) /\ Append(q, a) = q \o <<a>> /\ DOMAIN <<a>> = {1}
      /\ <<a>>[1] = a
  BY <1>1, AppendedOne
<1>3. \A i \in DOMAIN Append(q, a) :
         \/ i \in DOMAIN q /\ Append(q, a)[i] = q[i]
         \/ Append(q, a)[i] = a
  BY <1>2, ConcatElements
<1> QED
  BY <1>1, <1>3

\* A FIN or the last acknowledgement.
LEMMA ReceiveFinCalls ==
  ASSUME NEW e, NEW c, NEW f, LiveOK(e, c, f), NEW seg \in SegmentType,
         NEW finAcked,
         e.s.fin_state = "FIN_WAIT2" /\ ~finAcked => f = "FIN_WAIT2"
  PROVE  EndOK(ReceiveFin(e, seg, finAcked), c, f, seg)
<1> DEFINE d == ReceiveFin(e, seg, finAcked)
<1>1. EffectOK(e) /\ EffectOK(d)
  BY ReceiveFinOK DEF LiveOK, CallOK
<1>2. e.sent \in Seq(SegmentType) /\ e.rep \in Seq(Int) /\ e.frees = 0
  BY <1>1 DEF EffectOK, EffectType, LiveOK
<1> HIDE DEF d
<1>3. CASE d = e
  <2>1. EndOK(e, c, f, seg)
    BY DEF LiveOK, EndOK
  <2> QED
    BY <1>3, <2>1 DEF d
<1>4. CASE seg.ack /\ e.s.fin_state = "LAST_ACK" /\ d = Free(e)
  <2>1. /\ d.s = FreeSocket /\ d.sent = e.sent /\ d.rep = e.rep /\ d.frees = 0
    BY <1>1, <1>2, <1>4, FreeIs DEF SameTalk
  <2>2. /\ e.s.read_flag = FALSE /\ e.s.write_flag = FALSE /\ ~e.s.fin_tag
        /\ Current(e, c) = "none" /\ e.s.state # "SYN_SENT"
    <3>1. /\ Marks(e.s, Current(e, c)) /\ Live(e.s) /\ EffectOK(e)
      BY DEF LiveOK, CallOK
    <3>2. /\ e.s.read_flag \in BOOLEAN /\ e.s.write_flag \in BOOLEAN
          /\ e.s.fin_tag \in BOOLEAN
      BY <1>1 DEF EffectOK, EffectType, SocketType
    <3> QED
      BY <1>4, <3>1, <3>2 DEF Marks, FinSent, Live
  <2>3. Marks(d.s, Current(d, c)) /\ Answered(d, c)
    BY <2>1, <2>2 DEF LiveOK, CallOK, Marks, Current, Answered, FreeSocket, FinSent
  <2>4. Fins(d, c, f)
    BY <1>4, <2>1 DEF LiveOK, CallOK, Fins, FreeSocket, FinSent, FinWait
  <2>5. Acks(d.sent) /\ f \notin FinWait /\ d.s.fin_state \notin FinHeard
    <3>1. f # "FIN_WAIT2"
      BY <1>4 DEF LiveOK, CallOK, Fins
    <3>2. f \in FinHeard
      BY <1>4 DEF LiveOK, FinHeard
    <3> QED
      BY <2>1, <3>2 DEF LiveOK, FinHeard, FinWait, FreeSocket
  <2> QED
    BY <1>1, <2>1, <2>3, <2>4, <2>5 DEF EndOK, CallOK, d
<1>5. CASE HearsFin(e, d, seg)
  <2> USE DEF HearsFin
  <2>1. \A i \in DOMAIN d.sent :
           \/ i \in DOMAIN e.sent /\ d.sent[i] = e.sent[i]
           \/ d.sent[i].ack /\ ~d.sent[i].syn /\ ~d.sent[i].fin
    <3>1. PICK a : /\ ControlSegment(a, e.s, FALSE, e.s.snd_nxt, e.s.rcv_nxt + 1)
                   /\ d.sent = Append(e.sent, a)
      BY <1>5
    <3>2. \A i \in DOMAIN Append(e.sent, a) :
             \/ i \in DOMAIN e.sent /\ Append(e.sent, a)[i] = e.sent[i]
             \/ /\ Append(e.sent, a)[i].ack /\ ~Append(e.sent, a)[i].syn
                /\ ~Append(e.sent, a)[i].fin
      BY ONLY <1>2, <3>1, AppendPlain, Zenon
    <3> QED
      BY ONLY <3>1, <3>2
  <2>2. Marks(d.s, Current(d, c)) /\ Answered(d, c)
    BY <1>5 DEF LiveOK, CallOK, Marks, Current, Answered, ButFin, SameTalk, SameOut, FinSent
  <2>3. Fins(d, c, f)
    BY <1>5, <2>1 DEF LiveOK, CallOK, Fins, ButFin, FinSent, FinWait
  <2>4. Live(d.s) /\ Acks(d.sent)
    BY <1>5, <2>1 DEF LiveOK, Live, Acks, ButFin
  <2> QED
    BY <1>1, <1>2, <1>5, <2>2, <2>3, <2>4 DEF EndOK, CallOK, SameTalk, d
<1>6. CASE AnswersFin(e, d, seg)
  <2> USE DEF AnswersFin
  <2>1. PICK a, b : /\ ControlSegment(a, e.s, FALSE, e.s.snd_nxt, e.s.rcv_nxt + 1)
                    /\ ControlSegment(b, e.s, TRUE, e.s.snd_nxt, e.s.rcv_nxt + 1)
                    /\ d.sent = Append(Append(e.sent, a), b)
    BY <1>6
  <2> DEFINE p == Append(e.sent, a)
  <2>2. /\ p \in Seq(SegmentType) /\ Len(p) \in Nat
        /\ \A i \in DOMAIN p : \/ i \in DOMAIN e.sent /\ p[i] = e.sent[i]
                               \/ p[i].ack /\ ~p[i].syn /\ ~p[i].fin
    <3>1. /\ p \in Seq(SegmentType)
          /\ \A i \in DOMAIN p : \/ i \in DOMAIN e.sent /\ p[i] = e.sent[i]
                                 \/ p[i].ack /\ ~p[i].syn /\ ~p[i].fin
      BY <1>2, <2>1, AppendPlain
    <3> QED
      BY <3>1
  <2> HIDE DEF p
  <2>3. b \in SegmentType /\ b.ack /\ ~b.syn /\ b.fin
    BY <2>1 DEF ControlSegment
  <2>4. /\ <<b>> \in Seq(SegmentType) /\ d.sent = p \o <<b>>
        /\ DOMAIN <<b>> = {1} /\ <<b>>[1] = b
    BY <2>1, <2>2, <2>3, AppendedOne DEF p
  <2>5. \A i \in DOMAIN d.sent :
           \/ i \in DOMAIN p /\ d.sent[i] = p[i]
           \/ i - Len(p) = 1 /\ d.sent[i] = b
    BY <2>2, <2>4, ConcatElements
  <2>6. c = "read" /\ e.rep = <<>> /\ ~e.s.write_flag /\ ~e.s.fin_tag
        /\ e.s.write_pipe = <<>> /\ e.s.state = "ESTABLISHED"
    BY <1>6 DEF LiveOK, CallOK, Marks, Current, Live
  <2>7. f \notin FinSent /\ \A i \in DOMAIN e.sent : ~e.sent[i].fin
    BY <1>6 DEF LiveOK, CallOK, Fins, Live, FinSent
  <2>8. \A i \in DOMAIN p : ~p[i].fin
    BY <2>2, <2>7
  <2>9. d.rep # <<>> /\ Len(d.rep) = 1
    BY <1>6, <2>6
  <2>10. Marks(d.s, Current(d, c)) /\ Answered(d, c)
    BY <1>6, <2>6, <2>9 DEF Marks, Current, Answered, ButFin, SameOut
  <2>11. Live(d.s) /\ Acks(d.sent)
    BY <1>6, <2>2, <2>3, <2>5 DEF LiveOK, Live, Acks, ButFin
  <2>12. \A i, j \in DOMAIN d.sent : d.sent[i].fin /\ d.sent[j].fin => i = j
    <3>1. DOMAIN d.sent \subseteq Nat
      BY <1>1 DEF EffectOK, EffectType
    <3> SUFFICES ASSUME NEW i \in DOMAIN d.sent, NEW j \in DOMAIN d.sent,
                        d.sent[i].fin, d.sent[j].fin
                 PROVE  i = j
      OBVIOUS
    <3>2. i - Len(p) = 1 /\ j - Len(p) = 1
      BY <2>5, <2>8
    <3>3. i \in Nat /\ j \in Nat
      BY <3>1
    <3> QED
      BY <2>2, <3>2, <3>3
  <2>13. Fins(d, c, f)
    BY <1>6, <2>6, <2>7, <2>12 DEF Fins, FinSent, FinWait
  <2> QED
    BY <1>1, <1>2, <1>6, <2>10, <2>11, <2>13 DEF EndOK, CallOK, d
<1>7. CASE LingersAfterFin(e, d, seg) /\ ~finAcked
  <2> USE DEF LingersAfterFin
  <2>1. \A i \in DOMAIN d.sent :
           \/ i \in DOMAIN e.sent /\ d.sent[i] = e.sent[i]
           \/ d.sent[i].ack /\ ~d.sent[i].syn /\ ~d.sent[i].fin
    <3> DEFINE n1 == e.s.snd_nxt + 1
               n2 == seg.seq + 1
    <3>1. PICK a : /\ ControlSegment(a, e.s, FALSE, n1, n2)
                   /\ d.sent = Append(e.sent, a)
      BY <1>7
    <3> HIDE DEF n1, n2
    <3> QED
      BY <1>2, <3>1, AppendPlain
  <2>2. Marks(d.s, Current(d, c)) /\ Answered(d, c)
    BY <1>7 DEF LiveOK, CallOK, Marks, Current, Answered, ButFin, SameOut, FinSent
  <2>3. Fins(d, c, f)
    BY <1>7, <2>1 DEF LiveOK, CallOK, Fins, ButFin, FinSent, FinWait
  <2>4. Live(d.s) /\ Acks(d.sent) /\ d.frees = 1 /\ f = "FIN_WAIT2"
    BY <1>2, <1>7, <2>1 DEF LiveOK, Live, Acks, ButFin
  <2>5. d.s.fin_state \notin FinHeard
    BY <1>7 DEF FinHeard
  <2> QED
    BY <1>1, <1>7, <2>2, <2>3, <2>4, <2>5 DEF EndOK, CallOK, d
<1> QED
  BY <1>1, <1>3, <1>4, <1>5, <1>6, <1>7, ReceiveFinIs DEF d

\* The effect a routine starts from.
LEMMA StartLive ==
  ASSUME NEW s, SocketOK(s), Live(s), NEW c, Marks(s, c)
  PROVE  LiveOK(Effect(s), c, s.fin_state)
<1> DEFINE e == Effect(s)
<1>1. EffectOK(e) /\ e.s = s
  BY EffectOfSocketOK
<1>2. e.sent = <<>> /\ e.rep = <<>> /\ e.frees = 0
  BY DEF Effect
<1> HIDE DEF e
<1>3. Marks(e.s, Current(e, c)) /\ Answered(e, c)
  BY <1>1, <1>2 DEF Current, Answered
<1>4. Fins(e, c, s.fin_state) /\ Acks(e.sent)
  BY <1>1, <1>2 DEF Fins, Acks
<1>5. LiveOK(e, c, s.fin_state)
  BY <1>1, <1>2, <1>3, <1>4 DEF LiveOK, CallOK, FinWait
<1> QED
  BY <1>5 DEF e

\* A payload does not touch fin_state.
LEMMA ReceiveDataKeepsFin ==
  ASSUME NEW e, EffectOK(e), NEW seg \in SegmentType
  PROVE  ReceiveData(e, seg).s.fin_state = e.s.fin_state
<1>1. ASSUME NEW a, EffectOK(a)
      PROVE  ProcessRead(a).s.fin_state = a.s.fin_state
  <2> DEFINE r == ProcessReadWithoutAck(a)
  <2>1. EffectOK(r) /\ r.s.fin_state = a.s.fin_state
    BY <1>1, ProcessReadWithoutAckOK, ProcessReadWithoutAckIs
  <2>2. ProcessRead(a) = Control(r, {"ack"}, r.s.snd_nxt, r.s.rcv_nxt)
    BY DEF ProcessRead
  <2> HIDE DEF r
  <2> QED
    BY <2>1, <2>2, Numbers, ControlOK
<1> QED
  BY <1>1, ReceiveDataIs DEF SameCall

\* TCPCallback in ESTABLISHED
LEMMA ReceiveEstablishedCalls ==
  ASSUME NEW s, SocketOK(s), Live(s), NEW c, Marks(s, c), NEW seg \in SegmentType
  PROVE  EndOK(ReceiveEstablished(Effect(s), seg), c, s.fin_state, seg)
<1> DEFINE e == Effect(s)
           f == s.fin_state
           acked == ReceiveAck(e, seg)
           taken == ReceiveData(acked, seg)
           finAcked == /\ e.s.fin_state = "FIN_WAIT1"
                       /\ acked.s.fin_state = "FIN_WAIT2"
<1>1. LiveOK(e, c, f) /\ e.s = s
  BY StartLive, EffectOfSocketOK
<1>2. ReceiveEstablished(e, seg) = ReceiveFin(taken, seg, finAcked)
  BY DEF ReceiveEstablished
<1>3. finAcked <=> f = "FIN_WAIT1" /\ acked.s.fin_state = "FIN_WAIT2"
  BY <1>1
<1>4. f = e.s.fin_state
  BY <1>1
<1> HIDE DEF e, f, finAcked
<1>5. LiveOK(acked, c, f)
  BY <1>1, <1>4, ReceiveAckCalls
<1> HIDE DEF acked
<1>6. EffectOK(acked)
  BY <1>5 DEF LiveOK, CallOK
<1>7. LiveOK(taken, c, f) /\ taken.s.fin_state = acked.s.fin_state
  BY <1>5, <1>6, ReceiveDataCalls, ReceiveDataKeepsFin
<1> HIDE DEF taken
<1>8. taken.s.fin_state = "FIN_WAIT2" /\ ~finAcked => f = "FIN_WAIT2"
  BY <1>3, <1>5, <1>7 DEF LiveOK, FinWait
<1>9. EndOK(ReceiveFin(taken, seg, finAcked), c, f, seg)
  BY <1>7, <1>8, ReceiveFinCalls
<1> QED
  BY <1>2, <1>9 DEF e, f

\* shutdownSocket tells whoever still waits, except in accept or close, and
\* frees the socket.
LEMMA ShutdownCalls ==
  ASSUME NEW e, EffectOK(e), NEW c, Marks(e.s, Current(e, c)),
         e.s.state # "CLOSE", e.s.state = "SYN_SENT" => e.s.callback
  PROVE  LET d == ShutdownSocket(e)
             waits == Current(e, c) \in {"read", "write", "connect"}
         IN
         /\ EffectOK(d) /\ d.s = FreeSocket /\ d.sent = e.sent
         /\ d.took = e.took /\ d.gave = e.gave /\ d.frees = e.frees
         /\ ~waits => d.rep = e.rep
         /\ waits => e.rep = <<>> /\ d.rep = <<ECONNRESET>>
<1> DEFINE r == Reply(e, ECONNRESET)
           k == Current(e, c)
           failed == \/ e.s.state = "SYN_SENT" /\ e.s.callback
                     \/ e.s.state = "ESTABLISHED" /\ e.s.write_flag
           asked == e.s.state = "ESTABLISHED" /\ e.s.read_flag
           d == ShutdownSocket(e)
<1>1. ECONNRESET \in Int
  BY DEF ECONNRESET
<1>2. /\ EffectOK(r) /\ r.s = e.s /\ r.sent = e.sent
      /\ r.rep = Append(e.rep, ECONNRESET)
      /\ r.took = e.took /\ r.gave = e.gave /\ r.frees = e.frees
  BY <1>1, ReplyIs
<1>3. d = Free(IF asked THEN Reply(IF failed THEN r ELSE e, ECONNRESET)
               ELSE IF failed THEN r ELSE e)
  BY DEF ShutdownSocket
<1>4. e.s.read_flag \in BOOLEAN /\ e.s.write_flag \in BOOLEAN /\ e.s.state \in States
  BY DEF EffectOK, EffectType, SocketType
<1>5. /\ asked <=> k = "read"
      /\ failed <=> k \in {"write", "connect"}
  <2> HIDE DEF k
  <2>1. Marks(e.s, k)
    BY DEF k
  <2> QED
    BY <1>4, <2>1 DEF Marks, States
<1>6. k # "none" => e.rep = <<>>
  BY DEF Current
<1> HIDE DEF asked, failed, r, d, k
<1>7. d = Free(IF k \in {"read", "write", "connect"} THEN r ELSE e)
  BY <1>3, <1>5 DEF r
<1>8. CASE k \in {"read", "write", "connect"}
  <2>1. d = Free(r) /\ e.rep = <<>>
    BY <1>6, <1>7, <1>8
  <2>2. r.rep = <<ECONNRESET>>
    BY <1>2, <2>1
  <2> QED
    BY <1>2, <1>8, <2>1, <2>2, FreeIs DEF SameTalk, d, k
<1>9. CASE k \notin {"read", "write", "connect"}
  <2>1. d = Free(e)
    BY <1>7, <1>9
  <2> QED
    BY <1>9, <2>1, FreeIs DEF SameTalk, d, k
<1> QED
  BY <1>8, <1>9

-----------------------------------------------------------------------------
\* What a socket looks like in each state: freed all over, nothing buffered
\* before the handshake is over, and nobody to call back after it.
Shape(s) ==
    /\ ~s.valid => s = FreeSocket
    /\ s.valid => s.state # "CLOSE"
    /\ s.state \in {"SYN_SENT", "SYN_RECV"} =>
          /\ s.callback /\ s.fin_state = "NONE"
          /\ s.input = <<>> /\ s.output = <<>> /\ s.write_pipe = <<>>
          /\ s.snd_una = ISS /\ s.snd_nxt = ISS + 1
    /\ s.state = "SYN_RECV" => s.rcv_nxt = ISS + 1
    /\ s.state = "ESTABLISHED" => ~s.callback

\* The segments with SYN, sent before the handshake is over.
Syns(q, state) ==
    \A i \in DOMAIN q :
        /\ q[i].syn => /\ q[i].seq = ISS /\ q[i].data = <<>>
                       /\ state \in {"SYN_SENT", "SYN_RECV"}
                       /\ state = "SYN_RECV" => q[i].ack /\ q[i].ack_seq = ISS + 1
        /\ q[i].ack \/ (q[i].syn /\ state = "SYN_SENT")

\* What one step does to a socket s whose application is in the call c: heard
\* says that a FIN has come.
StepDone(e, s, c, heard) ==
    /\ CallOK(e, c, s.fin_state)
    /\ Shape(e.s)
    /\ Syns(e.sent, s.state)
    /\ \/ e.s.state = s.state
       \/ e.s = FreeSocket /\ s.fin_state \notin FinWait
       \/ e.s.state = "ESTABLISHED" /\ c \in {"connect", "accept"} /\ e.rep # <<>>
    /\ e.frees = 0 \/ (e.frees = 1 /\ heard /\ s.fin_state = "FIN_WAIT2")
    /\ e.s.fin_state \in FinHeard => s.fin_state \in FinHeard \/ heard

\* A routine of an established socket.
LEMMA LiveDone ==
  ASSUME NEW s, Live(s), NEW e, NEW c, LiveOK(e, c, s.fin_state), NEW heard
  PROVE  StepDone(e, s, c, heard)
<1>1. Shape(e.s) /\ Syns(e.sent, s.state)
  BY DEF LiveOK, Live, Shape, Syns, Acks
<1> QED
  BY <1>1 DEF StepDone, LiveOK, Live

\* What ends the handling of a segment is a finished step.
LEMMA EndDone ==
  ASSUME NEW s, Live(s), NEW e, NEW c, NEW seg, EndOK(e, c, s.fin_state, seg)
  PROVE  StepDone(e, s, c, seg.fin)
<1>1. Shape(e.s)
  BY DEF EndOK, Live, Shape, FreeSocket
<1>2. Syns(e.sent, s.state)
  BY DEF EndOK, Live, Syns, Acks
<1> QED
  BY <1>1, <1>2 DEF StepDone, EndOK, Live

\* The handshake of a socket is over: what it knows of its peer comes from
\* the segment that ended it.
Opened(s, t, rcv_nxt, window) ==
    /\ t.valid = s.valid /\ t.state = "ESTABLISHED" /\ t.callback = FALSE
    /\ t.fin_state = s.fin_state /\ t.fin_tag = s.fin_tag
    /\ t.read_flag = s.read_flag /\ t.write_flag = s.write_flag
    /\ t.write_pipe = s.write_pipe /\ t.input = s.input /\ t.output = s.output
    /\ t.snd_una = s.snd_nxt /\ t.snd_nxt = s.snd_nxt
    /\ t.rcv_nxt = rcv_nxt /\ t.peer_window_size = window

\* TCPCallback in SYN_SENT, for a peer that never sends a bare SYN.
LEMMA ReceiveSynSentIs ==
  ASSUME NEW e, EffectOK(e), NEW seg \in SegmentType,
         e.s.callback, seg.syn => seg.ack /\ seg.ack_seq = e.s.snd_nxt
  PROVE  LET d == ReceiveSynSent(e, seg)
             n == seg.seq + 1
         IN
         IF seg.syn
         THEN /\ Opened(e.s, d.s, n, seg.window)
              /\ d.rep = Append(e.rep, 0)
              /\ d.took = e.took /\ d.gave = e.gave /\ d.frees = e.frees
              /\ \E a : /\ ControlSegment(a, e.s, FALSE, e.s.snd_nxt, n)
                        /\ d.sent = Append(e.sent, a)
         ELSE d = e
<1> DEFINE n == seg.seq + 1
           win == seg.window
           nxt == e.s.snd_nxt
           a == [e EXCEPT !.s.rcv_nxt = n, !.s.snd_una = nxt,
                          !.s.peer_window_size = win]
           g == Segment(a.s, {"ack"}, nxt, n, <<>>)
           open == Control(a, {"ack"}, nxt, n)
           up == [open EXCEPT !.s.state = "ESTABLISHED", !.s.timeout = 0,
                              !.s.reset_time = 0, !.s.callback = FALSE]
           d == ReceiveSynSent(e, seg)
<1>1. n \in Nat /\ win \in Nat /\ nxt \in Nat
  BY Numbers, CapacityType DEF SegmentType
<1>2. CASE ~seg.syn
  BY <1>2 DEF ReceiveSynSent
<1>3. CASE seg.syn
  <2>1. d = Reply(up, 0)
    BY <1>3 DEF ReceiveSynSent
  <2>2. nxt = e.s.snd_nxt /\ n = seg.seq + 1 /\ win = seg.window
    OBVIOUS
  <2> HIDE DEF n, win, nxt, d
  <2>3. EffectOK(a)
    <3> DEFINE w == [e.s EXCEPT !.rcv_nxt = n, !.snd_una = nxt,
                                !.peer_window_size = win]
    <3>1. SocketOK(e.s) /\ nxt <= e.s.snd_nxt
      BY <1>1, <2>2 DEF EffectOK
    <3>2. SocketOK(w)
      BY <1>1, <3>1 DEF SocketOK, SocketType
    <3>3. a = [e EXCEPT !.s = w]
      BY DEF EffectOK, EffectType
    <3> HIDE DEF w, a
    <3>4. a \in EffectType /\ a.s = w
      BY <3>2, <3>3 DEF EffectOK, EffectType, SocketOK
    <3> QED
      BY <3>2, <3>4 DEF EffectOK
  <2>4. /\ a.s.valid = e.s.valid /\ a.s.fin_state = e.s.fin_state
        /\ a.s.fin_tag = e.s.fin_tag /\ a.s.read_flag = e.s.read_flag
        /\ a.s.write_flag = e.s.write_flag /\ a.s.write_pipe = e.s.write_pipe
        /\ a.s.input = e.s.input /\ a.s.output = e.s.output
        /\ a.s.snd_una = nxt /\ a.s.snd_nxt = nxt
        /\ a.s.rcv_nxt = n /\ a.s.peer_window_size = win
        /\ SameTalk(e, a) /\ a.sent = e.sent
    BY <2>2 DEF EffectOK, EffectType, SocketOK, SocketType, SameTalk
  <2>5. InFree(a.s) = InFree(e.s)
    BY <2>4 DEF InFree
  <2> HIDE DEF a
  <2>6. /\ EffectOK(open) /\ open.s = a.s /\ SameTalk(a, open)
        /\ open.sent = Append(a.sent, g)
    BY <1>1, <2>3, ControlOK, ControlIs DEF EffectOK
  <2>7. ControlSegment(g, e.s, FALSE, nxt, n)
    <3>1. ControlSegment(g, a.s, FALSE, nxt, n)
      BY <1>1, <2>3, ControlSegments DEF EffectOK, SocketOK
    <3> HIDE DEF g
    <3> QED
      BY <2>5, <3>1 DEF ControlSegment
  <2> HIDE DEF open, g
  <2>8. /\ EffectOK(up) /\ SameTalk(open, up) /\ up.sent = open.sent
    <3> DEFINE w == [open.s EXCEPT !.state = "ESTABLISHED", !.timeout = 0,
                                   !.reset_time = 0, !.callback = FALSE]
    <3>1. open \in EffectType /\ SocketOK(open.s)
      BY <2>6 DEF EffectOK
    <3>2. SocketOK(w)
      BY <3>1 DEF SocketOK, SocketType, States
    <3>3. up = [open EXCEPT !.s = w]
      BY <3>1 DEF EffectType
    <3> HIDE DEF w, up
    <3>4. up \in EffectType /\ up.s = w /\ SameTalk(open, up) /\ up.sent = open.sent
      BY <3>1, <3>2, <3>3 DEF EffectType, SocketOK, SameTalk
    <3> QED
      BY <3>2, <3>4 DEF EffectOK
  <2>9. Opened(e.s, up.s, n, win)
    <3>1. /\ up.s.valid = open.s.valid /\ up.s.fin_state = open.s.fin_state
          /\ up.s.state = "ESTABLISHED" /\ up.s.callback = FALSE
          /\ up.s.fin_tag = open.s.fin_tag /\ up.s.read_flag = open.s.read_flag
          /\ up.s.write_flag = open.s.write_flag
          /\ up.s.write_pipe = open.s.write_pipe
          /\ up.s.input = open.s.input /\ up.s.output = open.s.output
          /\ up.s.snd_una = open.s.snd_una /\ up.s.snd_nxt = open.s.snd_nxt
          /\ up.s.rcv_nxt = open.s.rcv_nxt
          /\ up.s.peer_window_size = open.s.peer_window_size
      BY <2>6 DEF EffectOK, EffectType, SocketOK, SocketType
    <3> QED
      BY <2>2, <2>4, <2>6, <3>1 DEF Opened
  <2> HIDE DEF up
  <2>10. /\ d.s = up.s /\ d.sent = up.sent /\ d.rep = Append(up.rep, 0)
         /\ d.took = up.took /\ d.gave = up.gave /\ d.frees = up.frees
    <3>1. 0 \in Int
      OBVIOUS
    <3> QED
      BY <2>1, <2>8, <3>1, ReplyIs
  <2>11. /\ Opened(e.s, d.s, n, win) /\ d.rep = Append(e.rep, 0)
         /\ d.took = e.took /\ d.gave = e.gave /\ d.frees = e.frees
         /\ d.sent = Append(e.sent, g)
    BY <2>4, <2>6, <2>8, <2>9, <2>10 DEF SameTalk
  <2> QED
    BY <1>3, <2>2, <2>7, <2>11 DEF d
<1> QED
  BY <1>2, <1>3

\* TCPCallback in SYN_RECV
LEMMA ReceiveSynRecvIs ==
  ASSUME NEW e, EffectOK(e), NEW seg \in SegmentType, e.s.callback
  PROVE  LET d == ReceiveSynRecv(e, seg)
             n == seg.seq + Len(seg.data)
         IN
         IF seg.ack /\ seg.ack_seq = e.s.snd_nxt
         THEN /\ Opened(e.s, d.s, n, seg.window)
              /\ d.rep = Append(e.rep, 0) /\ d.sent = e.sent
              /\ d.took = e.took /\ d.gave = e.gave /\ d.frees = e.frees
         ELSE d = e
<1> DEFINE n == seg.seq + Len(seg.data)
           win == seg.window
           nxt == e.s.snd_nxt
           f == Reply(e, 0)
           d == ReceiveSynRecv(e, seg)
<1>1. CASE ~(seg.ack /\ seg.ack_seq = e.s.snd_nxt)
  BY <1>1 DEF ReceiveSynRecv
<1>2. CASE seg.ack /\ seg.ack_seq = e.s.snd_nxt
  <2>1. d = [f EXCEPT !.s.rcv_nxt = n, !.s.snd_una = nxt,
                      !.s.peer_window_size = win,
                      !.s.state = "ESTABLISHED", !.s.timeout = 0,
                      !.s.reset_time = 0, !.s.callback = FALSE]
    BY <1>2 DEF ReceiveSynRecv
  <2>2. nxt = e.s.snd_nxt /\ n = seg.seq + Len(seg.data) /\ win = seg.window
    OBVIOUS
  <2>3. /\ EffectOK(f) /\ f.s = e.s /\ f.sent = e.sent /\ f.rep = Append(e.rep, 0)
        /\ f.took = e.took /\ f.gave = e.gave /\ f.frees = e.frees
    <3>1. 0 \in Int
      OBVIOUS
    <3> QED
      BY <3>1, ReplyIs
  <2> HIDE DEF n, win, nxt, d, f
  <2>4. /\ d.s.valid = f.s.valid /\ d.s.fin_state = f.s.fin_state
        /\ d.s.state = "ESTABLISHED" /\ d.s.callback = FALSE
        /\ d.s.fin_tag = f.s.fin_tag /\ d.s.read_flag = f.s.read_flag
        /\ d.s.write_flag = f.s.write_flag
        /\ d.s.write_pipe = f.s.write_pipe
        /\ d.s.input = f.s.input /\ d.s.output = f.s.output
        /\ d.s.snd_una = nxt /\ d.s.snd_nxt = f.s.snd_nxt
        /\ d.s.rcv_nxt = n /\ d.s.peer_window_size = win
        /\ d.sent = f.sent /\ d.rep = f.rep
        /\ d.took = f.took /\ d.gave = f.gave /\ d.frees = f.frees
    <3>1. f \in EffectType /\ f.s \in SocketType
      BY <2>3 DEF EffectOK, EffectType
    <3> DEFINE w == [f.s EXCEPT !.rcv_nxt = n, !.snd_una = nxt,
                                !.peer_window_size = win,
                                !.state = "ESTABLISHED", !.timeout = 0,
                                !.reset_time = 0, !.callback = FALSE]
    <3>2. /\ w.valid = f.s.valid /\ w.fin_state = f.s.fin_state
          /\ w.state = "ESTABLISHED" /\ w.callback = FALSE
          /\ w.fin_tag = f.s.fin_tag /\ w.read_flag = f.s.read_flag
          /\ w.write_flag = f.s.write_flag
          /\ w.write_pipe = f.s.write_pipe
          /\ w.input = f.s.input /\ w.output = f.s.output
          /\ w.snd_una = nxt /\ w.snd_nxt = f.s.snd_nxt
          /\ w.rcv_nxt = n /\ w.peer_window_size = win
      BY <3>1 DEF SocketType
    <3>3. d = [f EXCEPT !.s = w]
      BY <2>1, <3>1 DEF EffectType
    <3> HIDE DEF w
    <3>4. /\ d.s = w /\ d.sent = f.sent /\ d.rep = f.rep
          /\ d.took = f.took /\ d.gave = f.gave /\ d.frees = f.frees
      BY <3>1, <3>3 DEF EffectType
    <3> QED
      BY <3>2, <3>4
  <2>5. /\ Opened(e.s, d.s, n, win)
        /\ d.rep = Append(e.rep, 0) /\ d.sent = e.sent
        /\ d.took = e.took /\ d.gave = e.gave /\ d.frees = e.frees
    BY <2>2, <2>3, <2>4 DEF Opened
  <2> QED
    BY <1>2, <2>2, <2>5 DEF d
<1> QED
  BY <1>1, <1>2

\* Nothing happens.
LEMMA NothingDone ==
  ASSUME NEW s, SocketOK(s), Shape(s), NEW c, Marks(s, c), NEW heard
  PROVE  StepDone(Effect(s), s, c, heard)
<1> DEFINE e == Effect(s)
<1>1. EffectOK(e) /\ e.s = s
  BY EffectOfSocketOK
<1>2. e.sent = <<>> /\ e.rep = <<>> /\ e.frees = 0
  BY DEF Effect
<1> HIDE DEF e
<1>3. Marks(e.s, Current(e, c)) /\ Answered(e, c)
  BY <1>1, <1>2 DEF Current, Answered
<1>4. Fins(e, c, s.fin_state) /\ Syns(e.sent, s.state)
  BY <1>1, <1>2 DEF Fins, Syns
<1>5. StepDone(e, s, c, heard)
  BY <1>1, <1>2, <1>3, <1>4 DEF StepDone, CallOK
<1> QED
  BY <1>5 DEF e

\* The end of the handshake answers connect or accept.
LEMMA OpenedDone ==
  ASSUME NEW s, SocketOK(s), s.valid, Shape(s), s.state \in {"SYN_SENT", "SYN_RECV"},
         NEW c, Marks(s, c), NEW e, EffectOK(e), NEW rcv_nxt, NEW window,
         Opened(s, e.s, rcv_nxt, window), e.rep = << 0 >>, e.frees = 0,
         \A i \in DOMAIN e.sent : e.sent[i].ack /\ ~e.sent[i].syn /\ ~e.sent[i].fin,
         NEW heard
  PROVE  StepDone(e, s, c, heard) /\ Live(e.s)
<1>1. c \in {"connect", "accept"} /\ s.fin_state = "NONE" /\ s.write_pipe = <<>>
  BY DEF Marks, Shape
<1>2. Len(e.rep) = 1 /\ e.rep # <<>> /\ Current(e, c) = "none"
  BY DEF Current
<1>3. Marks(e.s, Current(e, c)) /\ Answered(e, c)
  BY <1>1, <1>2 DEF Marks, Answered, Opened, FinSent
<1>4. Fins(e, c, s.fin_state) /\ Syns(e.sent, s.state)
  BY <1>1 DEF Fins, Syns, Opened, FinSent, FinWait
<1>5. Live(e.s) /\ Shape(e.s)
  BY DEF Live, Shape, Opened
<1>6. e.s.state = "ESTABLISHED" /\ e.s.fin_state \notin FinHeard
  BY <1>1 DEF Opened, FinHeard
<1> QED
  BY <1>1, <1>2, <1>3, <1>4, <1>5, <1>6 DEF StepDone, CallOK

\* TCPCallback in any state.
LEMMA TCPCallbackDone ==
  ASSUME NEW s, SocketOK(s), s.valid, Shape(s), NEW c, Marks(s, c),
         NEW seg \in SegmentType,
         s.state = "SYN_SENT" /\ seg.syn => seg.ack /\ seg.ack_seq = ISS + 1
  PROVE  StepDone(TCPCallback(s, seg), s, c, seg.fin)
<1> DEFINE e == Effect(s)
           d == TCPCallback(s, seg)
<1>1. EffectOK(e) /\ e.s = s
  BY EffectOfSocketOK
<1>2. e.sent = <<>> /\ e.rep = <<>> /\ e.frees = 0
  BY DEF Effect
<1>3. s.state \in States
  BY DEF SocketOK, SocketType
<1>4. CASE s.state = "ESTABLISHED"
  <2>1. d = ReceiveEstablished(e, seg)
    BY <1>4 DEF TCPCallback
  <2>2. Live(s)
    BY <1>4 DEF Live, Shape
  <2> HIDE DEF d
  <2>3. EndOK(d, c, s.fin_state, seg)
    BY <2>1, <2>2, ReceiveEstablishedCalls
  <2>4. StepDone(d, s, c, seg.fin)
    BY <2>2, <2>3, EndDone
  <2> QED
    BY <2>4 DEF d
<1>5. CASE s.state = "SYN_SENT"
  <2>1. d = ReceiveSynSent(e, seg)
    BY <1>5 DEF TCPCallback
  <2> HIDE DEF d, e
  <2>2. e.s.callback /\ (seg.syn => seg.ack /\ seg.ack_seq = e.s.snd_nxt)
    BY <1>1, <1>5 DEF Shape
  <2>3. EffectOK(d)
    BY <1>1, <2>1, ReceiveSynSentOK
  <2> DEFINE n == seg.seq + 1
  <2>4. IF seg.syn
        THEN /\ Opened(e.s, d.s, n, seg.window)
             /\ d.rep = Append(e.rep, 0) /\ d.frees = e.frees
             /\ \E a : /\ ControlSegment(a, e.s, FALSE, e.s.snd_nxt, n)
                       /\ d.sent = Append(e.sent, a)
        ELSE d = e
    BY <1>1, <2>1, <2>2, ReceiveSynSentIs
  <2> HIDE DEF n
  <2>5. CASE seg.syn
    <3>1. Append(e.rep, 0) = << 0 >>
      BY <1>2
    <3>2. PICK a : /\ ControlSegment(a, e.s, FALSE, e.s.snd_nxt, n)
                   /\ d.sent = Append(e.sent, a)
      BY <2>4, <2>5
    <3>3. d.sent = <<a>> /\ a.ack /\ ~a.syn /\ ~a.fin
      BY <1>2, <3>2 DEF ControlSegment
    <3>4. \A i \in DOMAIN d.sent : d.sent[i].ack /\ ~d.sent[i].syn /\ ~d.sent[i].fin
      BY <3>3
    <3>5. /\ d.rep = << 0 >> /\ d.frees = 0 /\ Opened(s, d.s, n, seg.window)
          /\ s.state \in {"SYN_SENT", "SYN_RECV"}
      BY <1>1, <1>2, <1>5, <2>4, <2>5, <3>1
    <3>6. StepDone(d, s, c, seg.fin)
      BY <2>3, <3>4, <3>5, OpenedDone
    <3> QED
      BY <3>6 DEF d
  <2>6. CASE ~seg.syn
    BY <2>4, <2>6, NothingDone DEF d, e
  <2> QED
    BY <2>5, <2>6
<1>6. CASE s.state = "SYN_RECV"
  <2>1. d = ReceiveSynRecv(e, seg)
    BY <1>6 DEF TCPCallback
  <2> HIDE DEF d, e
  <2>2. e.s.callback
    BY <1>1, <1>6 DEF Shape
  <2>3. EffectOK(d)
    BY <1>1, <2>1, ReceiveSynRecvOK
  <2> DEFINE n == seg.seq + Len(seg.data)
  <2>4. IF seg.ack /\ seg.ack_seq = e.s.snd_nxt
        THEN /\ Opened(e.s, d.s, n, seg.window)
             /\ d.rep = Append(e.rep, 0) /\ d.sent = e.sent /\ d.frees = e.frees
        ELSE d = e
    BY <1>1, <2>1, <2>2, ReceiveSynRecvIs
  <2> HIDE DEF n
  <2>5. CASE seg.ack /\ seg.ack_seq = e.s.snd_nxt
    <3>1. Append(e.rep, 0) = << 0 >>
      BY <1>2
    <3>2. \A i \in DOMAIN d.sent : d.sent[i].ack /\ ~d.sent[i].syn /\ ~d.sent[i].fin
      BY <1>2, <2>4, <2>5
    <3>3. /\ d.rep = << 0 >> /\ d.frees = 0 /\ Opened(s, d.s, n, seg.window)
          /\ s.state \in {"SYN_SENT", "SYN_RECV"}
      BY <1>1, <1>2, <1>6, <2>4, <2>5, <3>1
    <3>4. StepDone(d, s, c, seg.fin)
      BY <2>3, <3>2, <3>3, OpenedDone
    <3> QED
      BY <3>4 DEF d
  <2>6. CASE ~(seg.ack /\ seg.ack_seq = e.s.snd_nxt)
    BY <2>4, <2>6, NothingDone DEF d, e
  <2> QED
    BY <2>5, <2>6
<1> QED
  BY <1>3, <1>4, <1>5, <1>6 DEF States, Shape

\* Only the timer of the socket has changed.
Timed(s, t) ==
    SameCall(s, t) /\ SameIn(s, t) /\ SameOut(s, t) /\ t.snd_nxt = s.snd_nxt

\* An iteration of TCPTimeout: the time goes on, or a timeout sends again and
\* perhaps gives up.
TimesOut(s, t, r) ==
    LET again == Resend(Effect(t)) IN
    /\ s.fin_state \notin FinSent
    /\ SocketOK(t) /\ Timed(s, t)
    /\ EffectOK(r) /\ Timed(again.s, r.s) /\ SameTalk(again, r)
    /\ r.sent = again.sent

\* An iteration of the timer ends, counts, sends again or gives up.
LEMMA TCPTimeoutIs ==
  ASSUME NEW s, SocketOK(s), s.valid
  PROVE  LET d == TCPTimeout(s) IN
         \/ \E t : SocketOK(t) /\ Timed(s, t) /\ d = Effect(t)
         \/ \E t, r : /\ TimesOut(s, t, r)
                      /\ \/ d = r
                         \/ d = ShutdownSocket(Control(r, {"ack"}, r.s.snd_nxt,
                                                       r.s.rcv_nxt))
<1> DEFINE t == [s EXCEPT !.timeout = @ + 1]
           o == [s EXCEPT !.timer = FALSE]
           again == Resend(Effect(t))
           r == [again EXCEPT !.s.timeout = 0, !.s.reset_time = @ + 1]
           final == Control(r, {"ack"}, r.s.snd_nxt, r.s.rcv_nxt)
           d == TCPTimeout(s)
<1>1. SocketOK(t) /\ Timed(s, t)
  <2> DEFINE k == s.timeout + 1
  <2>1. s.timeout \in Nat
    BY DEF SocketOK, SocketType
  <2>2. k \in Nat
    BY <2>1
  <2>3. t = [s EXCEPT !.timeout = k]
    BY DEF SocketOK, SocketType
  <2> HIDE DEF k, t
  <2> QED
    BY <2>2, <2>3 DEF SocketOK, SocketType, Timed, SameCall, SameIn, SameOut
<1>2. SocketOK(o) /\ Timed(s, o)
  BY DEF SocketOK, SocketType, Timed, SameCall, SameIn, SameOut
<1>3. \/ d = [Effect(s) EXCEPT !.s.timer = FALSE]
      \/ d = Effect(t)
      \/ ~TimerEnds(s) /\ (d = r \/ d = ShutdownSocket(final))
  BY DEF TCPTimeout
<1>4. [Effect(s) EXCEPT !.s.timer = FALSE] = Effect(o)
  <2>1. [Effect(s) EXCEPT !.s.timer = FALSE] = [Effect(s) EXCEPT !.s = o]
    BY DEF Effect
  <2> HIDE DEF o
  <2> QED
    BY <2>1 DEF Effect
<1> HIDE DEF d, t, o
<1>5. EffectOK(again)
  BY <1>1, EffectOfSocketOK, ResendOK
<1> HIDE DEF again
<1>6. EffectOK(r) /\ Timed(again.s, r.s) /\ SameTalk(again, r) /\ r.sent = again.sent
  <2> DEFINE k == again.s.reset_time + 1
             w == [again.s EXCEPT !.timeout = 0, !.reset_time = k]
  <2>1. k \in Nat
    <3>1. again.s.reset_time \in Nat
      BY <1>5 DEF EffectOK, SocketOK, SocketType
    <3> QED
      BY <3>1
  <2>2. r = [again EXCEPT !.s.timeout = 0, !.s.reset_time = k]
    BY <1>5 DEF EffectOK, EffectType, SocketOK, SocketType
  <2> HIDE DEF k
  <2>3. SocketOK(w) /\ Timed(again.s, w)
    BY <1>5, <2>1
    DEF EffectOK, SocketOK, SocketType, Timed, SameCall, SameIn, SameOut
  <2>4. r = [again EXCEPT !.s = w]
    BY <1>5, <2>2 DEF EffectOK, EffectType
  <2> HIDE DEF r, w
  <2>5. r \in EffectType /\ r.s = w /\ SameTalk(again, r) /\ r.sent = again.sent
    BY <1>5, <2>3, <2>4 DEF EffectOK, EffectType, SocketOK, SameTalk
  <2> QED
    BY <2>3, <2>5 DEF EffectOK
<1>7. ASSUME ~TimerEnds(s) PROVE TimesOut(s, t, r)
  BY <1>1, <1>6, <1>7 DEF TimesOut, TimerEnds, FinSent, again
<1> HIDE DEF r
<1> QED
  BY <1>1, <1>2, <1>3, <1>4, <1>7 DEF d

\* The socket is as good as it was.
LEMMA TimedKeeps ==
  ASSUME NEW s, s.valid, Shape(s), NEW t, Timed(s, t)
  PROVE  /\ Shape(t) /\ t.valid
         /\ \A c : Marks(s, c) => Marks(t, c)
BY DEF Shape, Marks, Timed, SameCall, SameIn, SameOut

\* A socket that gives up.
LEMMA GivesUp ==
  ASSUME NEW s, s.fin_state \notin FinSent, NEW c, NEW e, CallOK(e, c, s.fin_state),
         e.s.state # "CLOSE", e.s.state = "SYN_SENT" => e.s.callback,
         e.frees = 0, Syns(e.sent, s.state), NEW heard
  PROVE  StepDone(ShutdownSocket(e), s, c, heard)
<1> DEFINE d == ShutdownSocket(e)
           waits == Current(e, c) \in {"read", "write", "connect"}
<1>1. EffectOK(e) /\ Marks(e.s, Current(e, c)) /\ e.rep \in Seq(Int)
  BY DEF CallOK, EffectOK, EffectType
<1>2. /\ EffectOK(d) /\ d.s = FreeSocket /\ d.sent = e.sent /\ d.frees = e.frees
      /\ ~waits => d.rep = e.rep
      /\ waits => e.rep = <<>> /\ d.rep = <<ECONNRESET>>
  BY <1>1, ShutdownCalls
<1> HIDE DEF d
<1>3. Current(d, c) \notin {"read", "write", "connect"} /\ Answered(d, c)
  <2>1. CASE waits
    <3>1. d.rep # <<>> /\ Len(d.rep) = 1
      <4>1. d.rep = <<ECONNRESET>>
        BY <1>2, <2>1
      <4> QED
        BY <4>1
    <3>2. c # "none"
      BY <2>1 DEF Current
    <3> QED
      BY <3>1, <3>2 DEF Current, Answered
  <2>2. CASE ~waits
    BY <1>2, <2>2 DEF Current, Answered, CallOK
  <2> QED
    BY <2>1, <2>2
<1>4. Marks(d.s, Current(d, c)) /\ Shape(d.s)
  BY <1>2, <1>3 DEF Marks, FreeSocket, Shape, FinSent
<1>5. Fins(d, c, s.fin_state)
  BY <1>2 DEF CallOK, Fins, FreeSocket, FinSent, FinWait
<1>6. d.s.fin_state \notin FinHeard /\ s.fin_state \notin FinWait
  BY <1>2 DEF FreeSocket, FinHeard, FinSent, FinWait
<1>7. StepDone(d, s, c, heard)
  BY <1>2, <1>3, <1>4, <1>5, <1>6 DEF StepDone, CallOK
<1> QED
  BY <1>7 DEF d

\* A SYN or SYNACK that is sent again.
LEMMA ResendsSyn ==
  ASSUME NEW s, SocketOK(s), s.valid, Shape(s), s.state \in {"SYN_SENT", "SYN_RECV"},
         NEW c, Marks(s, c), NEW t, NEW r, TimesOut(s, t, r)
  PROVE  /\ CallOK(r, c, s.fin_state) /\ Syns(r.sent, s.state)
         /\ Timed(s, r.s) /\ r.rep = <<>> /\ r.frees = 0
         /\ r.took = 0 /\ r.gave = <<>>
         /\ \E g : /\ r.sent = <<g>> /\ g.syn /\ ~g.fin /\ g.data = <<>>
                   /\ g.ack => /\ s.state = "SYN_RECV" /\ g.ack_seq = s.rcv_nxt
                               /\ g.window = InFree(s)
<1> DEFINE e == Effect(t)
           again == Resend(e)
           flags == IF s.state = "SYN_SENT" THEN {"syn"} ELSE {"syn", "ack"}
           n == IF s.state = "SYN_SENT" THEN 0 ELSE s.rcv_nxt
           g == Segment(t, flags, ISS, n, <<>>)
<1>1. /\ SocketOK(t) /\ Timed(s, t) /\ s.fin_state \notin FinSent
      /\ EffectOK(r) /\ Timed(again.s, r.s) /\ SameTalk(again, r) /\ r.sent = again.sent
  BY DEF TimesOut
<1>2. /\ EffectOK(e) /\ e.s = t /\ e.sent = <<>> /\ e.rep = <<>> /\ e.frees = 0
      /\ e.took = 0 /\ e.gave = <<>>
  BY <1>1, EffectOfSocketOK DEF Effect
<1> HIDE DEF e
<1>3. again = Control(e, flags, ISS, n)
  BY <1>1, <1>2 DEF Resend, Timed, SameCall, SameIn
<1>4. n \in Nat /\ ISS \in Nat
  BY DEF SocketOK, SocketType, ISS
<1>5. g.seq = ISS /\ g.data = <<>> /\ ~g.fin /\ g.syn /\ g.ack_seq = n
      /\ (s.state = "SYN_RECV" => g.ack) /\ g.window = InFree(t)
      /\ (s.state = "SYN_SENT" => ~g.ack)
  BY DEF Segment
<1>6. s.state = "SYN_RECV" => n = s.rcv_nxt
  OBVIOUS
<1>7. InFree(t) = InFree(s)
  BY <1>1 DEF InFree, Timed, SameIn
<1>8. s.state = "SYN_RECV" => n = ISS + 1
  BY DEF Shape
<1> HIDE DEF flags, n
<1>9. again.s = t /\ SameTalk(e, again) /\ again.sent = Append(e.sent, g)
  BY <1>2, <1>3, <1>4, ControlIs DEF EffectOK
<1> HIDE DEF again, g
<1>10. /\ r.sent = <<g>> /\ r.rep = <<>> /\ r.frees = 0 /\ r.took = 0 /\ r.gave = <<>>
  BY <1>1, <1>2, <1>9 DEF SameTalk
<1>11. Timed(s, r.s)
  BY <1>1, <1>9 DEF Timed, SameCall, SameIn, SameOut
<1>12. Marks(r.s, Current(r, c)) /\ Answered(r, c)
  BY <1>10, <1>11, TimedKeeps DEF Current, Answered
<1>13. Fins(r, c, s.fin_state)
  BY <1>5, <1>10, <1>11 DEF Fins, Timed, SameCall
<1>14. Syns(r.sent, s.state)
  BY <1>5, <1>8, <1>10 DEF Syns
<1> QED
  BY <1>1, <1>5, <1>6, <1>7, <1>10, <1>11, <1>12, <1>13, <1>14 DEF CallOK

\* A timeout of an established socket.
LEMMA ResendsLive ==
  ASSUME NEW s, SocketOK(s), Live(s), NEW c, Marks(s, c),
         NEW t, NEW r, TimesOut(s, t, r)
  PROVE  LiveOK(r, c, s.fin_state)
<1> DEFINE e == Effect(t)
           again == Resend(e)
           f == s.fin_state
           una == e.s.snd_una
           b == [e EXCEPT !.s.snd_nxt = una]
<1>1. /\ SocketOK(t) /\ Timed(s, t)
      /\ EffectOK(r) /\ Timed(again.s, r.s) /\ SameTalk(again, r) /\ r.sent = again.sent
  BY DEF TimesOut
<1>2. Live(t) /\ Marks(t, c) /\ f = t.fin_state
  BY <1>1 DEF Live, Marks, Timed, SameCall, SameOut
<1>3. LiveOK(e, c, f) /\ e.s = t
  BY <1>1, <1>2, StartLive, EffectOfSocketOK
<1>4. again = ProcessWriteSend(b)
  BY <1>2, <1>3 DEF Resend, Live
<1>5. EffectOK(e) /\ una \in Nat /\ una = e.s.snd_una
  BY <1>3, Numbers DEF LiveOK, CallOK
<1> HIDE DEF e, una, again, f
<1>6. EffectOK(b)
  <2> DEFINE w == [e.s EXCEPT !.snd_nxt = una]
  <2>1. SocketOK(e.s) /\ e.s.snd_una <= una
    BY <1>5 DEF EffectOK
  <2>2. SocketOK(w)
    BY <1>5, <2>1 DEF SocketOK, SocketType
  <2>3. b = [e EXCEPT !.s = w]
    BY <1>5 DEF EffectOK, EffectType
  <2> HIDE DEF w, b
  <2>4. b \in EffectType /\ b.s = w
    BY <1>5, <2>2, <2>3 DEF EffectOK, EffectType, SocketOK
  <2> QED
    BY <2>2, <2>4 DEF EffectOK
<1>7. /\ SameCall(e.s, b.s) /\ b.s.write_pipe = e.s.write_pipe /\ b.rep = e.rep
      /\ b.frees = e.frees /\ b.sent = e.sent
  BY <1>5 DEF EffectOK, EffectType, SocketOK, SocketType, SameCall
<1> HIDE DEF b
<1>8. LiveOK(b, c, f)
  BY <1>3, <1>6, <1>7, QuietKeeps
<1>9. LiveOK(again, c, f)
  BY <1>4, <1>8, ProcessWriteSendCalls
<1>10. LiveOK(r, c, f)
  BY <1>1, <1>9, QuietKeeps DEF Timed, SameTalk, SameOut, again, e
<1> QED
  BY <1>10 DEF f

\* TCPTimeout
LEMMA TCPTimeoutDone ==
  ASSUME NEW s, SocketOK(s), s.valid, Shape(s), NEW c, Marks(s, c), NEW heard
  PROVE  StepDone(TCPTimeout(s), s, c, heard)
<1> DEFINE d == TCPTimeout(s)
<1>1. s.state \in {"SYN_SENT", "SYN_RECV", "ESTABLISHED"}
  BY DEF SocketOK, SocketType, States, Shape
<1>2. ASSUME NEW t, SocketOK(t), Timed(s, t), d = Effect(t)
      PROVE  StepDone(d, s, c, heard)
  <2>1. Shape(t) /\ Marks(t, c)
    BY <1>2, TimedKeeps
  <2>2. StepDone(d, t, c, heard)
    BY <1>2, <2>1, NothingDone
  <2>3. t.state = s.state /\ t.fin_state = s.fin_state
    BY <1>2 DEF Timed, SameCall
  <2> QED
    BY <2>2, <2>3 DEF StepDone
<1>3. ASSUME NEW t, NEW r, TimesOut(s, t, r),
             \/ d = r
             \/ d = ShutdownSocket(Control(r, {"ack"}, r.s.snd_nxt, r.s.rcv_nxt))
      PROVE  StepDone(d, s, c, heard)
  <2> DEFINE final == Control(r, {"ack"}, r.s.snd_nxt, r.s.rcv_nxt)
             a == Segment(r.s, {"ack"}, r.s.snd_nxt, r.s.rcv_nxt, <<>>)
  <2>1. EffectOK(r) /\ s.fin_state \notin FinSent
    BY <1>3 DEF TimesOut
  <2>2. r.s.snd_nxt \in Nat /\ r.s.rcv_nxt \in Nat
    BY <2>1, Numbers
  <2>3. EffectOK(final) /\ final.s = r.s
    BY <2>1, <2>2, ControlOK
  <2>4. CASE s.state = "ESTABLISHED"
    <3>1. Live(s)
      BY <2>4 DEF Live, Shape
    <3>2. LiveOK(r, c, s.fin_state)
      BY <1>3, <3>1, ResendsLive
    <3>3. LiveOK(final, c, s.fin_state)
      BY <2>2, <3>2, AckKeeps
    <3> HIDE DEF final
    <3>4. /\ CallOK(final, c, s.fin_state) /\ final.s.state = "ESTABLISHED"
          /\ final.frees = 0 /\ Syns(final.sent, s.state)
      BY <3>3 DEF LiveOK, Live, Syns, Acks
    <3>5. StepDone(ShutdownSocket(final), s, c, heard)
      BY <2>1, <3>4, GivesUp
    <3> QED
      BY <1>3, <3>1, <3>2, <3>5, LiveDone DEF final
  <2>5. CASE s.state \in {"SYN_SENT", "SYN_RECV"}
    <3>1. /\ CallOK(r, c, s.fin_state) /\ Syns(r.sent, s.state)
          /\ Timed(s, r.s) /\ r.rep = <<>> /\ r.frees = 0
          /\ \E g : r.sent = <<g>> /\ g.syn /\ ~g.fin
      BY <1>3, <2>5, ResendsSyn
    <3>2. Shape(r.s) /\ r.s.valid
      BY <3>1, TimedKeeps
    <3>3. r.s.state = s.state /\ r.s.fin_state = s.fin_state /\ r.s.callback
      BY <2>5, <3>1 DEF Timed, SameCall, Shape
    <3>4. StepDone(r, s, c, heard)
      BY <3>1, <3>2, <3>3 DEF StepDone
    <3>5. final.sent = Append(r.sent, a) /\ SameTalk(r, final)
      BY <2>1, <2>2, ControlIs DEF EffectOK
    <3>6. ControlSegment(a, r.s, FALSE, r.s.snd_nxt, r.s.rcv_nxt)
      BY <2>1, <2>2, ControlSegments DEF EffectOK, SocketOK
    <3> HIDE DEF final, a
    <3>7. \A i \in DOMAIN final.sent :
             \/ i \in DOMAIN r.sent /\ final.sent[i] = r.sent[i]
             \/ final.sent[i].ack /\ ~final.sent[i].syn /\ ~final.sent[i].fin
      <4>1. r.sent \in Seq(SegmentType)
        BY <2>1 DEF EffectOK, EffectType
      <4> QED
        BY <3>5, <3>6, <4>1, AppendPlain
    <3>8. Marks(final.s, Current(final, c)) /\ Answered(final, c)
      BY <2>3, <3>1, <3>5 DEF CallOK, Current, Answered, SameTalk
    <3>9. Fins(final, c, s.fin_state)
      BY <2>3, <3>1, <3>5, <3>7 DEF CallOK, Fins, SameTalk
    <3>10. Syns(final.sent, s.state) /\ final.frees = 0
      BY <3>1, <3>5, <3>7 DEF Syns, SameTalk
    <3>11. StepDone(ShutdownSocket(final), s, c, heard)
      <4>1. CallOK(final, c, s.fin_state)
        BY <2>3, <3>8, <3>9 DEF CallOK
      <4>2. final.s.state # "CLOSE" /\ final.s.callback
        BY <2>3, <2>5, <3>3
      <4> QED
        BY <2>1, <3>10, <4>1, <4>2, GivesUp
    <3> QED
      BY <1>3, <3>4, <3>11 DEF final
  <2> QED
    BY <1>1, <2>4, <2>5
<1> HIDE DEF d
<1>4. StepDone(d, s, c, heard)
  BY <1>2, <1>3, TCPTimeoutIs DEF d
<1> QED
  BY <1>4 DEF d

-----------------------------------------------------------------------------
(***************************************************************************)
(* The calls of an application that is in no other call.                   *)
(***************************************************************************)

\* A socket whose application is in no call and has not closed it.
Idle(s) ==
    /\ SocketOK(s) /\ Shape(s) /\ Marks(s, "none")
    /\ s.state \notin {"SYN_SENT", "SYN_RECV"} /\ s.fin_state \notin FinWait

\* It is established or gone.
LEMMA IdleIs ==
  ASSUME NEW s, Idle(s)
  PROVE  /\ s.valid => Live(s)
         /\ ~s.valid => s = FreeSocket
         /\ s.valid \in BOOLEAN /\ s.fin_tag \in BOOLEAN
         /\ s.read_flag = FALSE /\ s.write_flag = FALSE /\ ~s.fin_tag
         /\ s.write_pipe = <<>> /\ s.fin_state \in FinStates
<1>1. /\ s.state \in States /\ s.valid \in BOOLEAN /\ s.callback \in BOOLEAN
      /\ s.read_flag \in BOOLEAN /\ s.write_flag \in BOOLEAN
      /\ s.fin_tag \in BOOLEAN /\ s.fin_state \in FinStates
  BY DEF Idle, SocketOK, SocketType
<1> QED
  BY <1>1 DEF Idle, Live, Shape, Marks, States

\* A call answered at once.
LEMMA AnswersAtOnce ==
  ASSUME NEW s, Idle(s), NEW n \in Int, NEW c \in Calls \ {"none"}
  PROVE  /\ StepDone(Reply(Effect(s), n), s, c, FALSE)
         /\ Reply(Effect(s), n).sent = <<>>
<1> DEFINE e == Effect(s)
           d == Reply(e, n)
<1>1. EffectOK(e) /\ e.s = s
  BY EffectOfSocketOK DEF Idle
<1>2. e.sent = <<>> /\ e.rep = <<>> /\ e.frees = 0
  BY DEF Effect
<1> HIDE DEF e
<1>3. /\ EffectOK(d) /\ d.s = s /\ d.sent = <<>> /\ d.rep = Append(<<>>, n)
      /\ d.frees = 0
  BY <1>1, <1>2, ReplyIs
<1>4. d.rep # <<>> /\ Len(d.rep) = 1
  BY <1>3
<1> HIDE DEF d
<1>5. Marks(d.s, Current(d, c)) /\ Answered(d, c)
  BY <1>3, <1>4 DEF Current, Answered, Idle
<1>6. Fins(d, c, s.fin_state) /\ Syns(d.sent, s.state)
  BY <1>3 DEF Fins, Syns
<1>7. StepDone(d, s, c, FALSE)
  BY <1>3, <1>5, <1>6 DEF StepDone, CallOK, Idle
<1> QED
  BY <1>3, <1>7 DEF d, e

\* A call that leaves its mark.
LEMMA CallStarts ==
  ASSUME NEW s, Live(s), NEW c, NEW e, EffectOK(e), Live(e.s),
         e.s.fin_state = s.fin_state, Marks(e.s, c),
         e.sent = <<>>, e.rep = <<>>, e.frees = 0
  PROVE  LiveOK(e, c, s.fin_state)
<1>1. Marks(e.s, Current(e, c)) /\ Answered(e, c)
  BY DEF Current, Answered
<1>2. Fins(e, c, s.fin_state) /\ Acks(e.sent)
  BY DEF Fins, Acks
<1> QED
  BY <1>1, <1>2 DEF LiveOK, CallOK, FinWait

\* OPT_READ
LEMMA ReadDone ==
  ASSUME NEW s, Idle(s), NEW len \in Nat
  PROVE  /\ StepDone(Read(s, len), s, "read", FALSE)
         /\ ~s.valid => Read(s, len).sent = <<>>
<1> DEFINE e == Effect(s)
           reading == [e EXCEPT !.s.read_flag = TRUE, !.s.read_len = len]
           last == Reply(SendLastFin(e), 0)
           d == Read(s, len)
           f == s.fin_state
<1>1. EffectOK(e) /\ e.s = s
  BY EffectOfSocketOK DEF Idle
<1>2. e.sent = <<>> /\ e.rep = <<>> /\ e.frees = 0
  BY DEF Effect
<1>3. \/ d = Reply(e, CanRead(s))
      \/ s.valid /\ f \notin {"LAST_ACK"} /\ f = "CLOSE_WAIT" /\ d = last
      \/ s.valid /\ f \notin {"LAST_ACK"} /\ (d = ProcessRead(reading) \/ d = reading)
  BY DEF Read, CanRead, ENOTSOCK, EINVAL
<1>4. CASE d = Reply(e, CanRead(s))
  <2>1. CanRead(s) \in Int /\ "read" \in Calls \ {"none"}
    BY DEF CanRead, ENOTSOCK, EINVAL, Calls
  <2> HIDE DEF d
  <2>2. /\ StepDone(Reply(Effect(s), CanRead(s)), s, "read", FALSE)
        /\ Reply(Effect(s), CanRead(s)).sent = <<>>
    BY <2>1, AnswersAtOnce
  <2> QED
    BY <1>4, <2>2 DEF d
<1>5. CASE s.valid /\ f = "CLOSE_WAIT" /\ d = last
  <2> DEFINE l == SendLastFin(e)
  <2> HIDE DEF e, d
  <2>1. /\ ButFin(e.s, l.s) /\ l.s.fin_state = "LAST_ACK"
        /\ l.s.read_flag = e.s.read_flag /\ SameTalk(e, l)
        /\ \E seg : /\ l.sent = Append(e.sent, seg)
                    /\ ControlSegment(seg, e.s, TRUE, e.s.snd_nxt, e.s.rcv_nxt + 1)
    BY <1>1, SendLastFinIs
  <2>2. EffectOK(l)
    BY <1>1, SendLastFinOK
  <2> HIDE DEF l
  <2>3. /\ EffectOK(last) /\ last.s = l.s /\ last.sent = l.sent
        /\ last.rep = Append(l.rep, 0) /\ last.frees = l.frees
    <3>1. 0 \in Int
      OBVIOUS
    <3> QED
      BY <2>2, <3>1, ReplyIs DEF l
  <2>4. d = last
    BY <1>5
  <2> HIDE DEF last
  <2>5. PICK g : /\ l.sent = Append(e.sent, g) /\ g.ack /\ ~g.syn
    BY <2>1 DEF ControlSegment
  <2>6. d.sent = <<g>> /\ d.frees = 0 /\ EffectOK(d) /\ d.s = l.s
    BY <1>2, <2>1, <2>3, <2>4, <2>5 DEF SameTalk
  <2>7. d.rep # <<>> /\ Len(d.rep) = 1
    <3>1. d.rep = Append(<<>>, 0)
      BY <1>2, <2>1, <2>3, <2>4 DEF SameTalk
    <3> QED
      BY <3>1
  <2>13. Live(s) /\ ButFin(s, d.s) /\ d.s.fin_state = "LAST_ACK"
        /\ (d.s.read_flag <=> s.read_flag)
    BY <1>1, <1>5, <2>1, <2>6, IdleIs
  <2>8. Live(d.s) /\ Acks(d.sent)
    <3>1. Live(d.s)
      BY <2>13 DEF Live, ButFin
    <3> QED
      BY <2>5, <2>6, <3>1 DEF Acks
  <2>9. Marks(d.s, Current(d, "read")) /\ Answered(d, "read")
    <3>1. /\ ~d.s.read_flag /\ ~d.s.write_flag /\ ~d.s.fin_tag
          /\ d.s.write_pipe = <<>> /\ d.s.state = "ESTABLISHED"
      BY <2>13, IdleIs DEF ButFin, SameOut, Live
    <3> QED
      BY <2>7, <3>1 DEF Marks, Current, Answered
  <2>10. Fins(d, "read", f)
    BY <1>5, <2>1, <2>6 DEF Fins, FinSent, FinWait
  <2>11. LiveOK(d, "read", f)
    BY <1>5, <2>1, <2>6, <2>8, <2>9, <2>10 DEF LiveOK, CallOK, FinHeard
  <2>12. StepDone(d, s, "read", FALSE)
    BY <1>5, <2>11, IdleIs, LiveDone
  <2> QED
    BY <1>5, <2>12 DEF d
<1>6. CASE s.valid /\ f # "LAST_ACK" /\ (d = ProcessRead(reading) \/ d = reading)
  <2> HIDE DEF e, d
  <2>1. EffectOK(reading)
    BY <1>1 DEF EffectOK, EffectType, SocketOK, SocketType
  <2>2. /\ reading.s.valid = s.valid /\ reading.s.state = s.state
        /\ reading.s.callback = s.callback /\ reading.s.fin_state = f
        /\ reading.s.fin_tag = s.fin_tag /\ reading.s.read_flag = TRUE
        /\ reading.s.write_flag = s.write_flag
        /\ reading.s.write_pipe = s.write_pipe
        /\ reading.sent = <<>> /\ reading.rep = <<>> /\ reading.frees = 0
    BY <1>1, <1>2 DEF EffectOK, EffectType, SocketOK, SocketType
  <2> HIDE DEF reading
  <2>3. Live(s) /\ Live(reading.s)
    BY <1>6, <2>2, IdleIs DEF Live
  <2>4. Marks(reading.s, "read")
    BY <1>6, <2>2, <2>3, IdleIs DEF Idle, Marks, Live, FinSent, FinWait
  <2>5. LiveOK(reading, "read", f)
    BY <2>1, <2>2, <2>3, <2>4, CallStarts
  <2>6. LiveOK(d, "read", f)
    BY <1>6, <2>5, ProcessReadCalls
  <2>7. StepDone(d, s, "read", FALSE)
    BY <2>3, <2>6, LiveDone
  <2> QED
    BY <1>6, <2>7 DEF d
<1> HIDE DEF d, last, reading
<1> QED
  BY <1>3, <1>4, <1>5, <1>6 DEF d

\* OPT_WRITE
LEMMA WriteDone ==
  ASSUME NEW s, Idle(s), NEW data \in Seq(Byte)
  PROVE  /\ StepDone(Write(s, data), s, "write", FALSE)
         /\ ~s.valid => Write(s, data).sent = <<>>
<1> DEFINE e == Effect(s)
           writing == [e EXCEPT !.s.write_flag = TRUE, !.s.write_pipe = data]
           d == Write(s, data)
           f == s.fin_state
<1>1. EffectOK(e) /\ e.s = s
  BY EffectOfSocketOK DEF Idle
<1>2. e.sent = <<>> /\ e.rep = <<>> /\ e.frees = 0
  BY DEF Effect
<1>3. \/ d = Reply(e, CanWrite(s))
      \/ s.valid /\ f = "NONE" /\ (d = ProcessWriteSend(writing) \/ d = writing)
  BY DEF Write, CanWrite, ENOTSOCK, EINVAL
<1>4. CASE d = Reply(e, CanWrite(s))
  <2>1. CanWrite(s) \in Int /\ "write" \in Calls \ {"none"}
    BY DEF CanWrite, ENOTSOCK, EINVAL, Calls
  <2> HIDE DEF d
  <2>2. /\ StepDone(Reply(Effect(s), CanWrite(s)), s, "write", FALSE)
        /\ Reply(Effect(s), CanWrite(s)).sent = <<>>
    BY <2>1, AnswersAtOnce
  <2> QED
    BY <1>4, <2>2 DEF d
<1>5. CASE s.valid /\ f = "NONE" /\ (d = ProcessWriteSend(writing) \/ d = writing)
  <2> HIDE DEF e, d
  <2>1. EffectOK(writing)
    BY <1>1 DEF EffectOK, EffectType, SocketOK, SocketType
  <2>2. /\ writing.s.valid = s.valid /\ writing.s.state = s.state
        /\ writing.s.callback = s.callback /\ writing.s.fin_state = f
        /\ writing.s.fin_tag = s.fin_tag /\ writing.s.read_flag = s.read_flag
        /\ writing.s.write_flag = TRUE
        /\ writing.sent = <<>> /\ writing.rep = <<>> /\ writing.frees = 0
    BY <1>1, <1>2 DEF EffectOK, EffectType, SocketOK, SocketType
  <2> HIDE DEF writing
  <2>3. Live(s) /\ Live(writing.s)
    BY <1>5, <2>2, IdleIs DEF Live
  <2>4. Marks(writing.s, "write")
    BY <1>5, <2>2, <2>3, IdleIs DEF Idle, Marks, Live, FinSent, FinWait
  <2>5. LiveOK(writing, "write", f)
    BY <2>1, <2>2, <2>3, <2>4, CallStarts
  <2>6. LiveOK(d, "write", f)
    BY <1>5, <2>5, ProcessWriteSendCalls
  <2>7. StepDone(d, s, "write", FALSE)
    BY <2>3, <2>6, LiveDone
  <2> QED
    BY <1>5, <2>7 DEF d
<1> HIDE DEF d, writing
<1> QED
  BY <1>3, <1>4, <1>5 DEF d

\* OPT_CLOSE
LEMMA CloseDone ==
  ASSUME NEW s, Idle(s)
  PROVE  /\ StepDone(Close(s), s, "close", FALSE)
         /\ ~s.valid => Close(s).sent = <<>>
<1> DEFINE e == Effect(s)
           closing == [e EXCEPT !.s.fin_tag = TRUE]
           d == Close(s)
           f == s.fin_state
<1>1. EffectOK(e) /\ e.s = s
  BY EffectOfSocketOK DEF Idle
<1>2. e.sent = <<>> /\ e.rep = <<>> /\ e.frees = 0
  BY DEF Effect
<1>3. \/ d = Reply(e, 0)
      \/ s.valid /\ f = "NONE" /\ d = ProcessWriteSend(closing)
  BY IdleIs DEF Close, Live
<1>4. CASE d = Reply(e, 0)
  <2>1. 0 \in Int /\ "close" \in Calls \ {"none"}
    BY DEF Calls
  <2> HIDE DEF d
  <2>2. /\ StepDone(Reply(Effect(s), 0), s, "close", FALSE)
        /\ Reply(Effect(s), 0).sent = <<>>
    BY <2>1, AnswersAtOnce
  <2> QED
    BY <1>4, <2>2 DEF d
<1>5. CASE s.valid /\ f = "NONE" /\ d = ProcessWriteSend(closing)
  <2> HIDE DEF e, d
  <2>1. EffectOK(closing)
    BY <1>1 DEF EffectOK, EffectType, SocketOK, SocketType
  <2>2. /\ closing.s.valid = s.valid /\ closing.s.state = s.state
        /\ closing.s.callback = s.callback /\ closing.s.fin_state = f
        /\ closing.s.fin_tag = TRUE /\ closing.s.read_flag = s.read_flag
        /\ closing.s.write_flag = s.write_flag
        /\ closing.s.write_pipe = s.write_pipe
        /\ closing.sent = <<>> /\ closing.rep = <<>> /\ closing.frees = 0
    BY <1>1, <1>2 DEF EffectOK, EffectType, SocketOK, SocketType
  <2> HIDE DEF closing
  <2>3. Live(s) /\ Live(closing.s)
    BY <1>5, <2>2, IdleIs DEF Live
  <2>4. Marks(closing.s, "close")
    BY <1>5, <2>2, <2>3, IdleIs DEF Idle, Marks, Live, FinSent, FinWait
  <2>5. LiveOK(closing, "close", f)
    BY <2>1, <2>2, <2>3, <2>4, CallStarts
  <2>6. LiveOK(d, "close", f)
    BY <1>5, <2>5, ProcessWriteSendCalls
  <2>7. StepDone(d, s, "close", FALSE)
    BY <2>3, <2>6, LiveDone
  <2> QED
    BY <1>5, <2>7 DEF d
<1> HIDE DEF d, closing
<1> QED
  BY <1>3, <1>4, <1>5 DEF d

\* OPT_CONNECT
LEMMA ConnectIs ==
  /\ EffectOK(Connect) /\ Connect.s = OpenSocket("SYN_SENT", 0)
  /\ Shape(Connect.s) /\ Marks(Connect.s, "connect")
  /\ Connect.rep = <<>> /\ Connect.frees = 0 /\ Connect.took = 0
  /\ Connect.gave = <<>>
  /\ \E g \in SegmentType : /\ Connect.sent = <<g>> /\ g.syn /\ ~g.ack /\ ~g.fin
                            /\ g.seq = ISS /\ g.data = <<>>
<1> DEFINE s == OpenSocket("SYN_SENT", 0)
           e == Effect(s)
           g == Segment(s, {"syn"}, ISS, 0, <<>>)
<1>1. EffectOK(Connect)
  BY ConnectOK
<1>2. SocketOK(s)
  BY OpenSocketOK DEF States
<1>3. Connect = Control(e, {"syn"}, ISS, 0)
  BY DEF Connect
<1>4. /\ EffectOK(e) /\ e.s = s /\ e.sent = <<>> /\ e.rep = <<>> /\ e.frees = 0
      /\ e.took = 0 /\ e.gave = <<>>
  BY <1>2, EffectOfSocketOK DEF Effect
<1>5. Shape(s) /\ Marks(s, "connect")
  BY DEF OpenSocket, FreeSocket, Shape, Marks, FinSent
<1>6. ISS \in Nat /\ 0 \in Nat
  BY DEF ISS
<1>7. g \in SegmentType
  BY <1>2, <1>6, SegmentOK, EmptySeq DEF SocketOK
<1>8. g.syn /\ ~g.ack /\ ~g.fin /\ g.seq = ISS /\ g.data = <<>>
  BY DEF Segment
<1> HIDE DEF s, e, g
<1>9. Connect.s = e.s /\ SameTalk(e, Connect) /\ Connect.sent = Append(e.sent, g)
  <2>1. e \in EffectType
    BY <1>4 DEF EffectOK
  <2>2. g = Segment(e.s, {"syn"}, ISS, 0, <<>>)
    BY <1>4 DEF g
  <2> QED
    BY ONLY <1>3, <1>6, <2>1, <2>2, ControlIs
<1>10. /\ Connect.sent = <<g>> /\ Connect.rep = <<>> /\ Connect.frees = 0
       /\ Connect.took = 0 /\ Connect.gave = <<>> /\ Connect.s = s
  BY <1>4, <1>9 DEF SameTalk
<1> QED
  BY <1>1, <1>5, <1>7, <1>8, <1>10 DEF s

\* TCPAccept of the SYN of a client, whose sequence number is ISS.
LEMMA TCPAcceptIs ==
  ASSUME NEW n, n = ISS + 1
  PROVE  LET d == TCPAccept(n) IN
         /\ EffectOK(d) /\ d.s = OpenSocket("SYN_RECV", n)
         /\ Shape(d.s) /\ Marks(d.s, "accept")
         /\ d.rep = <<>> /\ d.frees = 0 /\ d.took = 0 /\ d.gave = <<>>
         /\ \E g \in SegmentType :
                /\ d.sent = <<g>> /\ g.syn /\ g.ack /\ ~g.fin
                /\ g.seq = ISS /\ g.ack_seq = ISS + 1 /\ g.data = <<>>
<1> DEFINE s == OpenSocket("SYN_RECV", n)
           e == Effect(s)
           g == Segment(s, {"syn", "ack"}, ISS, n, <<>>)
           d == TCPAccept(n)
<1>1. n \in Nat /\ ISS \in Nat
  BY DEF ISS
<1>2. SocketOK(s)
  BY <1>1, OpenSocketOK DEF States
<1>3. d = Control(e, {"syn", "ack"}, ISS, n)
  BY DEF TCPAccept
<1>4. /\ EffectOK(e) /\ e.s = s /\ e.sent = <<>> /\ e.rep = <<>> /\ e.frees = 0
      /\ e.took = 0 /\ e.gave = <<>>
  BY <1>2, EffectOfSocketOK DEF Effect
<1>5. Shape(s) /\ Marks(s, "accept")
  BY DEF OpenSocket, FreeSocket, Shape, Marks, FinSent
<1>6. EffectOK(d)
  BY <1>1, TCPAcceptOK
<1>7. g \in SegmentType
  BY <1>1, <1>2, SegmentOK, EmptySeq DEF SocketOK
<1>8. g.syn /\ g.ack /\ ~g.fin /\ g.seq = ISS /\ g.ack_seq = n /\ g.data = <<>>
  BY DEF Segment
<1> HIDE DEF s, e, g, d
<1>9. d.s = e.s /\ SameTalk(e, d) /\ d.sent = Append(e.sent, g)
  <2> DEFINE flags == {"syn", "ack"}
             f == Control(e, flags, ISS, n)
  <2>1. e \in EffectType /\ n \in Nat /\ ISS \in Nat
    BY <1>1, <1>4 DEF EffectOK
  <2> HIDE DEF flags
  <2>2. f.s = e.s /\ SameTalk(e, f) /\ f.sent = Append(e.sent, Segment(e.s, flags, ISS, n, <<>>))
    BY <2>1, ControlIs
  <2> QED
    BY <1>3, <1>4, <2>2 DEF flags, g
<1>10. /\ d.sent = <<g>> /\ d.rep = <<>> /\ d.frees = 0
       /\ d.took = 0 /\ d.gave = <<>> /\ d.s = s
  BY <1>4, <1>9 DEF SameTalk
<1> QED
  BY <1>5, <1>6, <1>7, <1>8, <1>10 DEF s, d

-----------------------------------------------------------------------------
(***************************************************************************)
(* The invariant: the calls, and who has sent and who has heard a FIN.     *)
(***************************************************************************)

\* The connection of h is still to be opened.
Openable(h) ==
    app[h] = "new" /\ (call[h] = "none" \/ (h = Server /\ listener.accepting))

\* Host h has sent the one FIN it sends, or its socket is gone.
FinDone(h) == ~Openable(h) /\ (sock[h].valid => sock[h].fin_state \in FinSent)

\* A FIN for h is on its way or has arrived.
FinSeen(h) ==
    \/ \E i \in DOMAIN net[h] : net[h][i].fin
    \/ linger[h] = 1
    \/ sock[h].fin_state \in FinHeard

HostOK(h) ==
    /\ Shape(sock[h]) /\ Marks(sock[h], call[h])
    /\ down[h] # "blocked"
    /\ app[h] = "new" => sock[h].state # "ESTABLISHED"
    /\ sock[h].state \in {"SYN_SENT", "SYN_RECV"} => app[h] = "new"
    /\ sock[h].fin_state \in FinWait => app[h] = "closed"
    /\ linger[h] <= 1
    /\ linger[h] = 1 => sock[h].fin_state = "FIN_WAIT2"
    /\ app[h] = "closed" => call[h] = "none"

\* accept blocks a server without a data socket; a SYN always has the
\* sequence number ISS.
ListenerOK ==
    /\ listener.accepting => /\ ~sock[Server].valid /\ call[Server] = "accept"
                             /\ app[Server] = "new"
    /\ \A i \in DOMAIN listener.waiting : listener.waiting[i] = ISS + 1
    /\ sock[Client].state # "SYN_RECV" /\ sock[Server].state # "SYN_SENT"

\* What is on its way to host h when the handshake is not over.
SynOK(h, seg) ==
    /\ seg.syn => seg.seq = ISS /\ seg.data = <<>>
    /\ seg.syn /\ h = Client => seg.ack /\ seg.ack_seq = ISS + 1
    /\ ~seg.ack => seg.syn
SynsOK == \A h \in Hosts : \A i \in DOMAIN net[h] : SynOK(h, net[h][i])

\* Whoever hears a FIN hears one only, from a peer that sends no more.
FinOK(h) ==
    /\ FinSeen(h) => FinDone(Peer(h))
    /\ \A i, j \in DOMAIN net[h] : net[h][i].fin /\ net[h][j].fin => i = j
    /\ linger[h] = 1 => \A i \in DOMAIN net[h] : ~net[h][i].fin

CallsInv ==
    (\A h \in Hosts : HostOK(h)) /\ ListenerOK /\ SynsOK /\ \A h \in Hosts : FinOK(h)

\* The elements of a tail.
LEMMA TailElements ==
  ASSUME NEW S, NEW q \in Seq(S), q # <<>>
  PROVE  /\ Tail(q) \in Seq(S) /\ Head(q) = q[1] /\ 1 \in DOMAIN q
         /\ \A i \in DOMAIN Tail(q) : i \in Nat /\ i + 1 \in DOMAIN q /\ i + 1 # 1
                                      /\ Tail(q)[i] = q[i + 1]
<1>1. Len(q) \in Nat /\ DOMAIN q = 1 .. Len(q) /\ Len(q) # 0
  OBVIOUS
<1>2. /\ Tail(q) \in Seq(S) /\ Len(Tail(q)) = Len(q) - 1
      /\ \A i \in 1 .. Len(Tail(q)) : Tail(q)[i] = q[i + 1]
  BY HeadTailProperties
<1>3. DOMAIN Tail(q) = 1 .. Len(Tail(q))
  BY <1>2
<1> QED
  BY <1>1, <1>2, <1>3

\* The two hosts.
LEMMA TwoHosts ==
  /\ Client \in Hosts /\ Server \in Hosts /\ Client # Server
  /\ Peer(Client) = Server /\ Peer(Server) = Client
  /\ \A h \in Hosts : Peer(h) \in Hosts /\ Peer(h) # h /\ Peer(Peer(h)) = h
  /\ \A h, g \in Hosts : g = h \/ g = Peer(h)
BY ConnectionAssumption DEF Hosts, Peer

-----------------------------------------------------------------------------
\* What is left of the segments on their way to a host: all, or all but the
\* first.
Rest(h, q) == q = net[h] \/ (net[h] # <<>> /\ q = Tail(net[h]))

\* A routine with effect e serves the call c of host h, which has its socket
\* or whose application makes the call.
Serves(h, e, c) ==
    /\ sock[h].valid \/ e.sent = <<>>
    /\ \/ c = call[h] /\ sock[h].valid
       \/ /\ call[h] = "none" /\ c \in {"read", "write", "close"}
          /\ app[h] \in {"open", "eof", "error"}

\* A step of host h that only appends to the segments of its peer.
Moves(h, e, c, q, heard) ==
    /\ h \in Hosts /\ c \in Calls /\ StepDone(e, sock[h], c, heard)
    /\ Apply(h, e, c) /\ Serves(h, e, c)
    /\ Rest(h, q) /\ UNCHANGED listener
    /\ net' = [net EXCEPT ![h] = q, ![Peer(h)] = @ \o e.sent]
    /\ heard => net[h] # <<>> /\ q = Tail(net[h]) /\ Head(net[h]).fin

\* What such a step changes.
Moved(h, e, c, q) ==
    /\ sock'[h] = e.s /\ call'[h] = Current(e, c)
    /\ linger'[h] = linger[h] + e.frees /\ down'[h] = down[h]
    /\ e.rep = <<>> => app'[h] = app[h]
    /\ e.rep # <<>> /\ c = "close" => app'[h] = "closed"
    /\ e.rep # <<>> /\ app'[h] = "closed" => c = "close" \/ app[h] = "closed"
    /\ e.rep # <<>> /\ app'[h] = "new" =>
           app[h] = "new" /\ c \notin {"connect", "accept"}
    /\ written'[h] = written[h] + e.took /\ got'[h] = got[h] \o e.gave
    /\ net'[h] = q /\ net'[Peer(h)] = net[Peer(h)] \o e.sent
    /\ c = "none" => e.rep = <<>>
    /\ listener' = listener

Unmoved(p) ==
    /\ sock'[p] = sock[p] /\ call'[p] = call[p] /\ app'[p] = app[p]
    /\ linger'[p] = linger[p] /\ down'[p] = down[p]
    /\ written'[p] = written[p] /\ got'[p] = got[p]

\* Apply, read at the two hosts.
LEMMA MovesIs ==
  ASSUME HostsTyped, WorldTyped, NEW h, NEW e, NEW c, NEW q, NEW heard,
         Moves(h, e, c, q, heard)
  PROVE  h \in Hosts /\ EffectOK(e) /\ Moved(h, e, c, q) /\ Unmoved(Peer(h))
<1>1. h \in Hosts /\ Peer(h) \in Hosts /\ Peer(h) # h
  BY TwoHosts DEF Moves
<1>2. EffectOK(e) /\ e.rep \in Seq(Int) /\ e.frees \in Nat
  BY DEF Moves, StepDone, CallOK, EffectOK, EffectType
<1>3. Answered(e, c) /\ Apply(h, e, c) /\ listener' = listener
  BY DEF Moves, StepDone, CallOK
<1>4. /\ sock'[h] = e.s /\ linger'[h] = linger[h] + e.frees
      /\ written'[h] = written[h] + e.took /\ got'[h] = got[h] \o e.gave
  BY <1>1, <1>3 DEF Apply, HostsTyped
<1>5. /\ call'[h] = Current(e, c)
      /\ e.rep = <<>> => app'[h] = app[h]
      /\ e.rep # <<>> => app'[h] = AppAfter(h, c, Head(e.rep))
  BY <1>1, <1>3 DEF Apply, HostsTyped, Current, Answered
<1>9. /\ e.rep # <<>> /\ c = "close" => app'[h] = "closed"
      /\ e.rep # <<>> /\ app'[h] = "closed" => c = "close" \/ app[h] = "closed"
      /\ e.rep # <<>> /\ app'[h] = "new" =>
             app[h] = "new" /\ c \notin {"connect", "accept"}
  BY <1>5 DEF AppAfter
<1>6. down'[h] = down[h]
  <2>1. ~(Len(e.rep) > (IF c = "none" THEN 0 ELSE 1))
    BY <1>2, <1>3 DEF Answered
  <2> QED
    BY <1>1, <1>3, <2>1 DEF Apply, HostsTyped
<1>7. net'[h] = q /\ net'[Peer(h)] = net[Peer(h)] \o e.sent
  BY <1>1 DEF Moves, WorldTyped
<1>8. Unmoved(Peer(h))
  BY <1>1, <1>3 DEF Apply, HostsTyped, Unmoved
<1> QED
  BY <1>1, <1>2, <1>3, <1>4, <1>5, <1>6, <1>7, <1>8, <1>9 DEF Answered, Moved

\* What the step does to the application.
LEMMA MovesApp ==
  ASSUME HostsTyped, WorldTyped, CallsInv, NEW h, NEW e, NEW c, NEW q, NEW heard,
         Moves(h, e, c, q, heard)
  PROVE  /\ app[h] # "new" => app'[h] # "new"
         /\ app'[h] = "new" => app[h] = "new" /\ e.rep = <<>>
                               /\ c = call[h] /\ c # "none"
         /\ app[h] = "closed" => e.rep = <<>> /\ c = "none" /\ c = call[h]
         /\ c = "close" /\ e.rep # <<>> => app'[h] = "closed"
         /\ app'[h] = "closed" => app[h] = "closed" \/ (c = "close" /\ e.rep # <<>>)
         /\ ~Openable(h)
<1>1. h \in Hosts /\ Moved(h, e, c, q)
  BY MovesIs
<1>2. Serves(h, e, c)
  BY DEF Moves
<1>3. /\ app[h] = "new" => call[h] \in {"none", "connect", "accept"}
      /\ app[h] = "new" /\ call[h] = "none" => ~sock[h].valid
      /\ app[h] = "closed" => call[h] = "none"
      /\ listener.accepting => ~sock[Server].valid
  BY <1>1 DEF HostsTyped, FreshHasNoSocket, CallsInv, HostOK, ListenerOK
<1>4. app[h] = "new" => c = call[h] /\ c \in {"connect", "accept"} /\ sock[h].valid
  BY <1>2, <1>3 DEF Serves
<1>5. app[h] = "closed" => c = "none" /\ c = call[h]
  BY <1>2, <1>3 DEF Serves
<1>6. ~Openable(h)
  BY <1>3, <1>4 DEF Openable
<1> QED
  BY <1>1, <1>4, <1>5, <1>6 DEF Moved

\* The host that moves.
LEMMA MovesHost ==
  ASSUME HostsTyped, WorldTyped, CallsInv, NEW h, NEW e, NEW c, NEW q, NEW heard,
         Moves(h, e, c, q, heard)
  PROVE  HostOK(h)'
<1> DEFINE s == sock[h]
<1>1. h \in Hosts /\ HostOK(h) /\ FinOK(h) /\ linger[h] \in Nat
  BY MovesIs DEF CallsInv, HostsTyped
<1>10. Moved(h, e, c, q)
  BY MovesIs
<1>2. /\ sock'[h] = e.s /\ call'[h] = Current(e, c)
      /\ linger'[h] = linger[h] + e.frees /\ down'[h] = down[h]
      /\ e.rep = <<>> => app'[h] = app[h]
  BY <1>10 DEF Moved
<1>3. StepDone(e, s, c, heard) /\ CallOK(e, c, s.fin_state)
  BY DEF Moves, StepDone
<1>4. Shape(e.s) /\ Marks(e.s, Current(e, c)) /\ down'[h] # "blocked"
  BY <1>1, <1>2, <1>3 DEF StepDone, CallOK, HostOK
<1>5. app'[h] = "new" => e.s.state # "ESTABLISHED"
  <2>1. SUFFICES ASSUME app'[h] = "new" PROVE e.s.state # "ESTABLISHED"
    OBVIOUS
  <2>2. app[h] = "new" /\ e.rep = <<>>
    BY <2>1, MovesApp
  <2> QED
    BY <1>1, <1>3, <2>2 DEF StepDone, FreeSocket, HostOK
<1>6. e.s.state \in {"SYN_SENT", "SYN_RECV"} => app'[h] = "new"
  <2>1. SUFFICES ASSUME e.s.state \in {"SYN_SENT", "SYN_RECV"} PROVE app'[h] = "new"
    OBVIOUS
  <2>2. e.s.state = s.state
    BY <1>3, <2>1 DEF StepDone, FreeSocket
  <2>3. e.rep = <<>>
    BY <1>4, <2>1 DEF Marks, Current
  <2> QED
    BY <1>1, <1>2, <2>1, <2>2, <2>3 DEF HostOK
<1>7. e.s.fin_state \in FinWait => app'[h] = "closed"
  <2>1. SUFFICES ASSUME e.s.fin_state \in FinWait PROVE app'[h] = "closed"
    OBVIOUS
  <2>2. s.fin_state \in FinWait \/ (c = "close" /\ e.rep # <<>>)
    BY <1>3, <2>1 DEF CallOK, Fins
  <2>3. CASE s.fin_state \in FinWait
    <3>1. app[h] = "closed"
      BY <1>1, <2>3 DEF HostOK
    <3> QED
      BY <1>2, <3>1, MovesApp
  <2> QED
    BY <2>2, <2>3, MovesApp
<1>8. linger'[h] <= 1 /\ (linger'[h] = 1 => e.s.fin_state = "FIN_WAIT2")
  <2>1. e.frees = 0 \/ (e.frees = 1 /\ heard /\ s.fin_state = "FIN_WAIT2")
    BY <1>3 DEF StepDone
  <2>2. s.fin_state = "FIN_WAIT2" => e.s.fin_state = "FIN_WAIT2"
    BY <1>3 DEF CallOK, Fins
  <2>3. linger[h] <= 1 /\ (linger[h] = 1 => s.fin_state = "FIN_WAIT2")
    BY <1>1 DEF HostOK
  <2>4. heard => linger[h] # 1
    <3>1. heard => net[h] # <<>> /\ Head(net[h]).fin
      BY DEF Moves
    <3>2. net[h] \in Seq(SegmentType)
      BY <1>1 DEF WorldTyped
    <3>3. heard => 1 \in DOMAIN net[h] /\ net[h][1].fin
      BY <3>1, <3>2, TailElements
    <3> QED
      BY <1>1, <3>3 DEF FinOK
  <2> HIDE DEF s
  <2> QED
    BY <1>1, <1>2, <2>1, <2>2, <2>3, <2>4
<1>9. app'[h] = "closed" => call'[h] = "none"
  BY <1>2, MovesApp DEF Current
<1> QED
  BY <1>2, <1>4, <1>5, <1>6, <1>7, <1>8, <1>9 DEF HostOK

\* Its peer does not notice.
LEMMA MovesPeer ==
  ASSUME HostsTyped, WorldTyped, CallsInv, NEW h, NEW e, NEW c, NEW q, NEW heard,
         Moves(h, e, c, q, heard)
  PROVE  HostOK(Peer(h))' /\ ListenerOK'
<1>1. h \in Hosts /\ Peer(h) \in Hosts /\ HostOK(Peer(h)) /\ ListenerOK
  BY MovesIs, TwoHosts DEF CallsInv
<1> DEFINE p == Peer(h)
<1>2. /\ sock'[p] = sock[p] /\ call'[p] = call[p] /\ app'[p] = app[p]
      /\ linger'[p] = linger[p] /\ down'[p] = down[p] /\ listener' = listener
      /\ sock'[h] = e.s
  <2>1. Moved(h, e, c, q) /\ Unmoved(p)
    BY MovesIs
  <2> QED
    BY <2>1 DEF Moved, Unmoved
<1> HIDE DEF p
<1>3. HostOK(p)'
  BY <1>1, <1>2 DEF HostOK, p
<1>4. StepDone(e, sock[h], c, heard)
  BY DEF Moves
<1>5. \/ e.s.state = sock[h].state
      \/ e.s.state \in {"CLOSE", "ESTABLISHED"}
  BY <1>4 DEF StepDone, FreeSocket
<1>6. listener.accepting => h # Server
  BY <1>1 DEF ListenerOK, Moves, Serves
<1>7. ListenerOK'
  BY <1>1, <1>2, <1>5, <1>6, TwoHosts DEF ListenerOK, p
<1> QED
  BY <1>3, <1>7 DEF p

\* The segments that stay on their way.
LEMMA RestIs ==
  ASSUME WorldTyped, NEW h \in Hosts, NEW q, Rest(h, q)
  PROVE  /\ q \in Seq(SegmentType)
         /\ \A i \in DOMAIN q : \E k \in DOMAIN net[h] : q[i] = net[h][k]
         /\ \A i, j \in DOMAIN q : i # j =>
                \E k, l \in DOMAIN net[h] :
                    k # l /\ q[i] = net[h][k] /\ q[j] = net[h][l]
<1>1. net[h] \in Seq(SegmentType)
  BY DEF WorldTyped
<1>2. CASE q = net[h]
  BY <1>1, <1>2
<1>3. CASE net[h] # <<>> /\ q = Tail(net[h])
  <2>1. /\ q \in Seq(SegmentType)
        /\ \A i \in DOMAIN q : i \in Nat /\ i + 1 \in DOMAIN net[h]
                               /\ q[i] = net[h][i + 1]
    BY <1>1, <1>3, TailElements
  <2>2. ASSUME NEW i \in DOMAIN q, NEW j \in DOMAIN q, i # j
        PROVE  \E k, l \in DOMAIN net[h] :
                   k # l /\ q[i] = net[h][k] /\ q[j] = net[h][l]
    <3>1. i + 1 # j + 1
      BY <2>1, <2>2
    <3> QED
      BY <2>1, <3>1
  <2> QED
    BY <2>1, <2>2
<1> QED
  BY <1>2, <1>3 DEF Rest

\* No SYN of another kind joins the segments.
LEMMA MovesSyns ==
  ASSUME HostsTyped, WorldTyped, CallsInv, NEW h, NEW e, NEW c, NEW q, NEW heard,
         Moves(h, e, c, q, heard)
  PROVE  SynsOK'
<1> DEFINE p == Peer(h)
<1>1. /\ h \in Hosts /\ EffectOK(e) /\ Moved(h, e, c, q)
      /\ p \in Hosts /\ \A g \in Hosts : g = h \/ g = p
  BY MovesIs, TwoHosts
<1>2. net'[h] = q /\ net'[p] = net[p] \o e.sent
  BY <1>1 DEF Moved
<1>3. /\ \A i \in DOMAIN net[h] : SynOK(h, net[h][i])
      /\ \A i \in DOMAIN net[p] : SynOK(p, net[p][i])
  BY <1>1 DEF CallsInv, SynsOK
<1>4. \A i \in DOMAIN q : SynOK(h, q[i])
  <2>1. Rest(h, q)
    BY DEF Moves
  <2>2. \A i \in DOMAIN q : \E k \in DOMAIN net[h] : q[i] = net[h][k]
    BY <1>1, <2>1, RestIs
  <2> QED
    BY <1>3, <2>2
<1>5. \A i \in DOMAIN e.sent : SynOK(p, e.sent[i])
  <2>1. Syns(e.sent, sock[h].state)
    BY DEF Moves, StepDone
  <2>2. p = Client => sock[h].state # "SYN_SENT"
    BY <1>1, TwoHosts DEF CallsInv, ListenerOK
  <2> QED
    BY <2>1, <2>2 DEF Syns, SynOK
<1>6. \A i \in DOMAIN (net[p] \o e.sent) : SynOK(p, (net[p] \o e.sent)[i])
  <2>1. net[p] \in Seq(SegmentType) /\ e.sent \in Seq(SegmentType)
    BY <1>1 DEF WorldTyped, EffectOK, EffectType
  <2> HIDE DEF p
  <2> DEFINE all == net[p] \o e.sent
  <2>2. \A i \in DOMAIN all :
           \/ i \in DOMAIN net[p] /\ all[i] = net[p][i]
           \/ i - Len(net[p]) \in DOMAIN e.sent /\ all[i] = e.sent[i - Len(net[p])]
    BY <2>1, ConcatElements
  <2> HIDE DEF all
  <2>3. \A i \in DOMAIN all : SynOK(p, all[i])
    BY <1>3, <1>5, <2>2
  <2> QED
    BY <2>3 DEF all
<1> HIDE DEF p
<1>7. ASSUME NEW g \in Hosts PROVE \A i \in DOMAIN net'[g] : SynOK(g, net'[g][i])
  BY <1>1, <1>2, <1>4, <1>6
<1> QED
  BY <1>7 DEF SynsOK, SynOK

\* A FIN is the only one of its sender.
LEMMA MovesFins ==
  ASSUME HostsTyped, WorldTyped, CallsInv, NEW h, NEW e, NEW c, NEW q, NEW heard,
         Moves(h, e, c, q, heard)
  PROVE  FinOK(h)' /\ FinOK(Peer(h))'
<1> DEFINE p == Peer(h)
           s == sock[h]
<1>1. /\ h \in Hosts /\ EffectOK(e) /\ Moved(h, e, c, q) /\ Unmoved(p)
      /\ p \in Hosts /\ p # h /\ Peer(p) = h /\ p = Peer(h)
  BY MovesIs, TwoHosts
<1>2. /\ sock'[h] = e.s /\ linger'[h] = linger[h] + e.frees
      /\ net'[h] = q /\ net'[p] = net[p] \o e.sent /\ listener' = listener
      /\ call'[h] = Current(e, c)
      /\ sock'[p] = sock[p] /\ call'[p] = call[p] /\ app'[p] = app[p]
      /\ linger'[p] = linger[p]
  BY <1>1 DEF Moved, Unmoved
<1>3. StepDone(e, s, c, heard) /\ Fins(e, c, s.fin_state)
  BY DEF Moves, StepDone, CallOK
<1>4. FinOK(h) /\ FinOK(p) /\ Shape(s)
  BY <1>1 DEF CallsInv, HostOK
<1>5. /\ net[h] \in Seq(SegmentType) /\ net[p] \in Seq(SegmentType)
      /\ e.sent \in Seq(SegmentType) /\ Rest(h, q)
  BY <1>1 DEF WorldTyped, EffectOK, EffectType, Moves
<1>6. /\ \A i \in DOMAIN q : \E k \in DOMAIN net[h] : q[i] = net[h][k]
      /\ \A i, j \in DOMAIN q : i # j =>
                \E k, l \in DOMAIN net[h] :
                    k # l /\ q[i] = net[h][k] /\ q[j] = net[h][l]
  BY <1>1, <1>5, RestIs
\* Nothing of h is left to open.
<1>7. ~Openable(h) /\ ~Openable(h)'
  <2>1. ~Openable(h)
    BY MovesApp
  <2>2. app'[h] = "new" => app[h] = "new" /\ e.rep = <<>> /\ c = call[h] /\ c # "none"
    BY MovesApp
  <2> QED
    BY <1>2, <2>1, <2>2 DEF Openable, Current
<1>8. FinDone(p)' = FinDone(p)
  BY <1>2 DEF FinDone, Openable
<1>9. heard => 1 \in DOMAIN net[h] /\ net[h][1].fin
  <2>1. heard => net[h] # <<>> /\ Head(net[h]).fin
    BY DEF Moves
  <2> QED
    BY <1>5, <2>1, TailElements
<1>10. e.s.valid => s.valid
  <2>1. SUFFICES ASSUME e.s.valid, ~s.valid PROVE FALSE
    OBVIOUS
  <2>2. s = FreeSocket
    BY <1>4, <2>1 DEF Shape
  <2>3. c \in {"read", "write", "close"}
    BY <2>1 DEF Moves, Serves
  <2>4. e.s.state # "CLOSE"
    BY <1>3, <2>1 DEF StepDone, Shape
  <2> QED
    BY <1>3, <2>1, <2>2, <2>3, <2>4 DEF StepDone, FreeSocket
\* What h has sent it does not send again.
<1>11. ASSUME FinDone(h) PROVE FinDone(h)' /\ \A i \in DOMAIN e.sent : ~e.sent[i].fin
  <2>1. s.valid => s.fin_state \in FinSent
    BY <1>11 DEF FinDone
  <2>2. FinDone(h)'
    BY <1>2, <1>3, <1>7, <1>10, <2>1 DEF Fins, FinDone
  <2>3. CASE s.valid
    BY <1>3, <2>1, <2>2, <2>3 DEF Fins
  <2>4. CASE ~s.valid
    <3>1. e.sent = <<>>
      BY <2>4 DEF Moves, Serves
    <3> QED
      BY <2>2, <3>1
  <2> QED
    BY <2>3, <2>4
<1>12. linger[h] \in Nat /\ linger[h] <= 1 /\ (e.frees = 1 => heard)
       /\ (e.frees = 0 \/ e.frees = 1)
  BY <1>1, <1>3 DEF HostsTyped, CallsInv, HostOK, StepDone
<1>13. linger'[h] = 1 => linger[h] = 1 \/ heard
  BY <1>2, <1>12
<1> HIDE DEF p, s
<1>14. FinSeen(h)' => FinSeen(h)
  <2>1. e.s.fin_state \in FinHeard => s.fin_state \in FinHeard \/ heard
    BY <1>3 DEF StepDone
  <2>2. (\E i \in DOMAIN q : q[i].fin) => \E k \in DOMAIN net[h] : net[h][k].fin
    BY <1>6
  <2>3. heard => \E k \in DOMAIN net[h] : net[h][k].fin
    BY <1>9
  <2> QED
    BY <1>2, <1>13, <2>1, <2>2, <2>3 DEF FinSeen, s
<1>15. FinOK(h)'
  <2>1. FinSeen(h)' => FinDone(p)'
    BY <1>1, <1>4, <1>8, <1>14 DEF FinOK
  <2>2. \A i, j \in DOMAIN q : q[i].fin /\ q[j].fin => i = j
    <3>1. SUFFICES ASSUME NEW i \in DOMAIN q, NEW j \in DOMAIN q, q[i].fin, q[j].fin,
                          i # j
                   PROVE  FALSE
      OBVIOUS
    <3>2. PICK k \in DOMAIN net[h], l \in DOMAIN net[h] :
              k # l /\ q[i] = net[h][k] /\ q[j] = net[h][l]
      BY <1>6, <3>1
    <3> QED
      BY <1>4, <3>1, <3>2 DEF FinOK
  <2>3. linger'[h] = 1 => \A i \in DOMAIN q : ~q[i].fin
    <3>1. CASE linger[h] = 1
      BY <1>4, <1>6, <3>1 DEF FinOK
    <3>2. CASE heard
      <4>1. net[h] # <<>> /\ q = Tail(net[h])
        BY <3>2 DEF Moves
      <4>2. \A i \in DOMAIN q : i + 1 \in DOMAIN net[h] /\ i + 1 # 1 /\ q[i] = net[h][i + 1]
        BY <1>5, <4>1, TailElements
      <4> QED
        BY <1>4, <1>9, <3>2, <4>2 DEF FinOK
    <3> QED
      BY <1>13, <3>1, <3>2
  <2> QED
    BY <1>1, <1>2, <2>1, <2>2, <2>3 DEF FinOK
<1>16. FinOK(p)'
  <2> DEFINE all == net[p] \o e.sent
  <2>1. \A i \in DOMAIN all :
           \/ i \in DOMAIN net[p] /\ all[i] = net[p][i]
           \/ i - Len(net[p]) \in DOMAIN e.sent /\ all[i] = e.sent[i - Len(net[p])]
    BY <1>5, ConcatElements
  <2>2. DOMAIN all \subseteq Nat /\ Len(net[p]) \in Nat
    <3>1. all \in Seq(SegmentType)
      BY <1>5, ConcatOK
    <3> HIDE DEF all
    <3> QED
      BY <1>5, <3>1
  <2> HIDE DEF all
  <2>3. (\E i \in DOMAIN e.sent : e.sent[i].fin) => FinDone(h)'
    BY <1>2, <1>3, <1>7 DEF Fins, FinDone
  <2>4. FinSeen(p)' => FinDone(h)'
    <3>1. SUFFICES ASSUME FinSeen(p)' PROVE FinDone(h)'
      OBVIOUS
    <3>2. \/ \E i \in DOMAIN all : all[i].fin
          \/ linger[p] = 1
          \/ sock[p].fin_state \in FinHeard
      BY <1>2, <3>1 DEF FinSeen, all
    <3>3. FinSeen(p) \/ \E i \in DOMAIN e.sent : e.sent[i].fin
      BY <2>1, <3>2 DEF FinSeen
    <3>4. CASE FinSeen(p)
      BY <1>1, <1>4, <1>11, <3>4 DEF FinOK
    <3> QED
      BY <2>3, <3>3, <3>4
  <2>5. FinSeen(p) => \A i \in DOMAIN e.sent : ~e.sent[i].fin
    BY <1>1, <1>4, <1>11 DEF FinOK
  <2>6. \A i, j \in DOMAIN all : all[i].fin /\ all[j].fin => i = j
    <3>1. SUFFICES ASSUME NEW i \in DOMAIN all, NEW j \in DOMAIN all,
                          all[i].fin, all[j].fin
                   PROVE  i = j
      OBVIOUS
    <3>2. CASE \E k \in DOMAIN net[p] : net[p][k].fin
      <4>1. \A k \in DOMAIN e.sent : ~e.sent[k].fin
        BY <2>5, <3>2 DEF FinSeen
      <4>2. /\ i \in DOMAIN net[p] /\ all[i] = net[p][i]
            /\ j \in DOMAIN net[p] /\ all[j] = net[p][j]
        BY <2>1, <3>1, <4>1
      <4> QED
        BY <1>4, <3>1, <4>2 DEF FinOK
    <3>3. CASE ~\E k \in DOMAIN net[p] : net[p][k].fin
      <4>1. /\ i - Len(net[p]) \in DOMAIN e.sent /\ all[i] = e.sent[i - Len(net[p])]
            /\ j - Len(net[p]) \in DOMAIN e.sent /\ all[j] = e.sent[j - Len(net[p])]
        BY <2>1, <3>1, <3>3
      <4>2. i - Len(net[p]) = j - Len(net[p])
        BY <1>3, <3>1, <4>1 DEF Fins
      <4>3. i \in Nat /\ j \in Nat
        BY <2>2, <3>1
      <4> QED
        BY <2>2, <4>2, <4>3
    <3> QED
      BY <3>2, <3>3
  <2>7. linger'[p] = 1 => \A i \in DOMAIN all : ~all[i].fin
    <3>1. SUFFICES ASSUME linger[p] = 1 PROVE \A i \in DOMAIN all : ~all[i].fin
      BY <1>2
    <3>2. \A i \in DOMAIN net[p] : ~net[p][i].fin
      BY <1>4, <3>1 DEF FinOK
    <3>3. \A i \in DOMAIN e.sent : ~e.sent[i].fin
      BY <2>5, <3>1 DEF FinSeen
    <3> QED
      BY <2>1, <3>2, <3>3
  <2> QED
    BY <1>1, <1>2, <2>4, <2>6, <2>7 DEF FinOK, all
<1> QED
  BY <1>15, <1>16 DEF p

\* The step keeps the invariant.
LEMMA MovesOK ==
  ASSUME HostsTyped, WorldTyped, CallsInv, NEW h, NEW e, NEW c, NEW q, NEW heard,
         Moves(h, e, c, q, heard)
  PROVE  CallsInv'
<1>1. /\ h \in Hosts /\ Peer(h) \in Hosts
      /\ \A g \in Hosts : g = h \/ g = Peer(h)
  BY MovesIs, TwoHosts
<1>2. HostOK(h)' /\ HostOK(Peer(h))' /\ ListenerOK' /\ SynsOK'
      /\ FinOK(h)' /\ FinOK(Peer(h))'
  BY MovesHost, MovesPeer, MovesSyns, MovesFins
<1>3. \A g \in Hosts : HostOK(g)' /\ FinOK(g)'
  BY <1>1, <1>2
<1> QED
  BY <1>2, <1>3 DEF CallsInv

-----------------------------------------------------------------------------
\* connect and accept: a host that has no socket gets one and sends a SYN or
\* a SYNACK.
Begins(h, e, c, q) ==
    /\ h \in Hosts /\ Openable(h) /\ c \in {"connect", "accept"}
    /\ EffectOK(e) /\ Shape(e.s) /\ Marks(e.s, c)
    /\ e.s.valid /\ e.s.fin_state = "NONE"
    /\ e.s.state = IF h = Client THEN "SYN_SENT" ELSE "SYN_RECV"
    /\ e.rep = <<>> /\ e.frees = 0 /\ e.took = 0 /\ e.gave = <<>>
    /\ \E g \in SegmentType : e.sent = <<g>> /\ ~g.fin /\ SynOK(Peer(h), g)
    /\ Apply(h, e, c) /\ Rest(h, q)
    /\ net' = [net EXCEPT ![h] = q, ![Peer(h)] = @ \o e.sent]
    /\ listener' = IF h = Client THEN listener
                   ELSE [waiting |-> <<>>, accepting |-> FALSE]

\* What such a step changes.
Begun(h, e, c, q) ==
    /\ sock'[h] = e.s /\ call'[h] = c /\ app'[h] = app[h]
    /\ linger'[h] = linger[h] /\ down'[h] = down[h]
    /\ written'[h] = written[h] /\ got'[h] = got[h]
    /\ net'[h] = q /\ net'[Peer(h)] = net[Peer(h)] \o e.sent

\* Apply, read at the two hosts.
LEMMA BeginsIs ==
  ASSUME HostsTyped, WorldTyped, NEW h, NEW e, NEW c, NEW q, Begins(h, e, c, q)
  PROVE  h \in Hosts /\ EffectOK(e) /\ Unmoved(Peer(h)) /\ Begun(h, e, c, q)
<1>1. h \in Hosts /\ Peer(h) \in Hosts /\ Peer(h) # h
  BY TwoHosts DEF Begins
<1>2. /\ EffectOK(e) /\ Apply(h, e, c) /\ e.rep = <<>> /\ c # "none"
      /\ e.frees = 0 /\ e.took = 0 /\ e.gave = <<>>
  BY DEF Begins
<1>3. sock'[h] = e.s /\ call'[h] = c /\ app'[h] = app[h] /\ down'[h] = down[h]
  BY <1>1, <1>2 DEF Apply, HostsTyped
<1>4. linger'[h] = linger[h] /\ written'[h] = written[h]
  BY <1>1, <1>2 DEF Apply, HostsTyped
<1>5. got'[h] = got[h]
  <2>1. got'[h] = got[h] \o <<>>
    BY <1>1, <1>2 DEF Apply, HostsTyped
  <2>2. got[h] \in Seq(Byte)
    BY <1>1 DEF HostsTyped
  <2> QED
    BY <2>1, <2>2, ConcatNothing
<1>6. net'[h] = q /\ net'[Peer(h)] = net[Peer(h)] \o e.sent
  BY <1>1 DEF Begins, WorldTyped
<1>7. Unmoved(Peer(h))
  BY <1>1, <1>2 DEF Apply, HostsTyped, Unmoved
<1> QED
  BY <1>1, <1>2, <1>3, <1>4, <1>5, <1>6, <1>7 DEF Begun

\* The step keeps the invariant.
LEMMA BeginsOK ==
  ASSUME HostsTyped, WorldTyped, CallsInv, NEW h, NEW e, NEW c, NEW q,
         Begins(h, e, c, q)
  PROVE  CallsInv'
<1> DEFINE p == Peer(h)
<1>1. /\ h \in Hosts /\ p \in Hosts /\ p # h /\ Peer(p) = h /\ p = Peer(h)
      /\ \A g \in Hosts : g = h \/ g = p
  BY TwoHosts DEF Begins
<1>2. /\ EffectOK(e) /\ Unmoved(p)
      /\ sock'[h] = e.s /\ call'[h] = c /\ app'[h] = app[h]
      /\ linger'[h] = linger[h] /\ down'[h] = down[h]
      /\ net'[h] = q /\ net'[p] = net[p] \o e.sent
  <2>1. EffectOK(e) /\ Unmoved(p) /\ Begun(h, e, c, q)
    BY BeginsIs
  <2> QED
    BY <2>1 DEF Begun
<1>3. /\ sock'[p] = sock[p] /\ call'[p] = call[p] /\ app'[p] = app[p]
      /\ linger'[p] = linger[p] /\ down'[p] = down[p]
  BY <1>2 DEF Unmoved
<1>4. /\ Openable(h) /\ c \in {"connect", "accept"}
      /\ Shape(e.s) /\ Marks(e.s, c)
      /\ e.s.valid /\ e.s.fin_state = "NONE"
      /\ e.s.state = IF h = Client THEN "SYN_SENT" ELSE "SYN_RECV"
      /\ Rest(h, q)
      /\ listener' = IF h = Client THEN listener
                     ELSE [waiting |-> <<>>, accepting |-> FALSE]
  BY DEF Begins
<1>5. PICK g \in SegmentType : e.sent = <<g>> /\ ~g.fin /\ SynOK(p, g)
  BY DEF Begins
<1>6. /\ HostOK(h) /\ HostOK(p) /\ FinOK(h) /\ FinOK(p) /\ ListenerOK
      /\ \A i \in DOMAIN net[h] : SynOK(h, net[h][i])
      /\ \A i \in DOMAIN net[p] : SynOK(p, net[p][i])
  BY <1>1 DEF CallsInv, SynsOK
<1>7. \A i \in DOMAIN q : \E k \in DOMAIN net[h] : q[i] = net[h][k]
  BY <1>1, <1>4, RestIs
<1>8. \A i, j \in DOMAIN q : i # j =>
          \E k, l \in DOMAIN net[h] : k # l /\ q[i] = net[h][k] /\ q[j] = net[h][l]
  BY <1>1, <1>4, RestIs
<1> DEFINE all == net[p] \o e.sent
<1>9. \A i \in DOMAIN all : \/ i \in DOMAIN net[p] /\ all[i] = net[p][i]
                            \/ all[i] = g
  <2>1. net[p] \in Seq(SegmentType)
    BY <1>1 DEF WorldTyped
  <2>2. <<g>> \in Seq(SegmentType) /\ DOMAIN <<g>> = {1} /\ <<g>>[1] = g
    OBVIOUS
  <2>3. all = net[p] \o <<g>>
    BY <1>5
  <2> HIDE DEF all
  <2> QED
    BY <2>1, <2>2, <2>3, ConcatElements
<1> HIDE DEF p, all
<1>10. app[h] = "new" /\ linger[h] # 1
  BY <1>4, <1>6 DEF Openable, HostOK, FinWait
<1>11. HostOK(h)'
  BY <1>1, <1>2, <1>4, <1>6, <1>10 DEF HostOK, FinWait
<1>12. HostOK(p)'
  BY <1>3, <1>6 DEF HostOK
<1>13. ListenerOK'
  <2>1. CASE h = Client
    <3>1. p = Server /\ h # Server
      BY <1>1, <2>1, TwoHosts
    <3> QED
      BY <1>2, <1>3, <1>4, <1>6, <2>1, <3>1 DEF ListenerOK
  <2>2. CASE h # Client
    <3>1. h = Server /\ p = Client
      BY <1>1, <2>2, TwoHosts
    <3>2. listener'.waiting = <<>> /\ listener'.accepting = FALSE
      BY <1>4, <2>2
    <3> QED
      BY <1>2, <1>3, <1>4, <1>6, <2>2, <3>1, <3>2 DEF ListenerOK
  <2> QED
    BY <2>1, <2>2
<1>14. SynsOK'
  <2>1. \A i \in DOMAIN q : SynOK(h, q[i])
    BY <1>6, <1>7
  <2>2. \A i \in DOMAIN all : SynOK(p, all[i])
    BY <1>5, <1>6, <1>9
  <2>3. net'[h] = q /\ net'[p] = all
    BY <1>2 DEF all
  <2>4. ASSUME NEW k \in Hosts PROVE \A i \in DOMAIN net'[k] : SynOK(k, net'[k][i])
    BY <1>1, <2>1, <2>2, <2>3
  <2> QED
    BY <2>4 DEF SynsOK, SynOK
<1>15. FinDone(p) => FinDone(p)'
  <2>1. Openable(p)' => Openable(p)
    <3>1. p = Server => listener' = listener
      BY <1>1, <1>4, TwoHosts
    <3> QED
      BY <1>3, <3>1 DEF Openable
  <2> QED
    BY <1>3, <2>1 DEF FinDone
<1>16. FinOK(h)'
  <2>1. FinSeen(h)' => FinSeen(h)
    BY <1>2, <1>4, <1>7 DEF FinSeen, FinHeard
  <2>2. FinSeen(h)' => FinDone(p)'
    BY <1>1, <1>6, <1>15, <2>1 DEF FinOK
  <2>3. \A i, j \in DOMAIN q : q[i].fin /\ q[j].fin => i = j
    <3>1. SUFFICES ASSUME NEW i \in DOMAIN q, NEW j \in DOMAIN q, q[i].fin, q[j].fin,
                          i # j
                   PROVE  FALSE
      OBVIOUS
    <3>2. PICK k \in DOMAIN net[h], l \in DOMAIN net[h] :
              k # l /\ q[i] = net[h][k] /\ q[j] = net[h][l]
      BY <1>8, <3>1
    <3> QED
      BY <1>6, <3>1, <3>2 DEF FinOK
  <2> QED
    BY <1>1, <1>2, <1>10, <2>2, <2>3 DEF FinOK
<1>17. FinOK(p)'
  <2>1. ~FinSeen(p)
    BY <1>1, <1>4, <1>6 DEF FinOK, FinDone
  <2>2. \A i \in DOMAIN all : ~all[i].fin
    BY <1>5, <1>9, <2>1 DEF FinSeen
  <2>3. linger[p] # 1 /\ sock[p].fin_state \notin FinHeard
    BY <2>1 DEF FinSeen
  <2>4. ~FinSeen(p)'
    BY <1>2, <1>3, <2>2, <2>3 DEF FinSeen, all
  <2> QED
    BY <1>2, <1>3, <2>2, <2>3, <2>4 DEF FinOK, all
<1>18. \A k \in Hosts : HostOK(k)' /\ FinOK(k)'
  BY <1>1, <1>11, <1>12, <1>16, <1>17
<1> QED
  BY <1>13, <1>14, <1>18 DEF CallsInv

-----------------------------------------------------------------------------
\* Every action is one of these steps.

\* A host whose application may call.
LEMMA ReadyIs ==
  ASSUME HostsTyped, CallsInv, NEW h \in Hosts,
         Ready(h, {"open", "eof", "error"})
  PROVE  Idle(sock[h]) /\ call[h] = "none" /\ app[h] \in {"open", "eof", "error"}
<1>1. call[h] = "none" /\ app[h] \in {"open", "eof", "error"}
  BY DEF Ready
<1>2. HostOK(h) /\ SocketOK(sock[h])
  BY DEF CallsInv, HostsTyped
<1> QED
  BY <1>1, <1>2 DEF Idle, HostOK

\* A call of a ready application.
LEMMA CallMoves ==
  ASSUME HostsTyped, WorldTyped, CallsInv, NEW h \in Hosts, NEW e,
         NEW c \in {"read", "write", "close"},
         Ready(h, {"open", "eof", "error"}),
         AppCall(h, e, c), StepDone(e, sock[h], c, FALSE),
         sock[h].valid \/ e.sent = <<>>
  PROVE  Moves(h, e, c, net[h], FALSE)
<1>1. Apply(h, e, c) /\ net' = Sends(h, e) /\ listener' = listener
  BY DEF AppCall
<1>2. c \in Calls /\ Serves(h, e, c)
  BY ReadyIs DEF Calls, Serves
<1>3. net' = [net EXCEPT ![h] = net[h], ![Peer(h)] = @ \o e.sent]
  BY <1>1, TwoHosts DEF Sends, WorldTyped
<1> QED
  BY <1>1, <1>2, <1>3 DEF Moves, Rest

\* AppRead
LEMMA AppReadMoves ==
  ASSUME HostsTyped, WorldTyped, CallsInv, NEW h \in Hosts, AppRead(h)
  PROVE  /\ Ready(h, {"open", "eof", "error"})
         /\ Moves(h, Read(sock[h], ReadLen), "read", net[h], FALSE)
<1> DEFINE e == Read(sock[h], ReadLen)
<1>1. Ready(h, {"open", "eof", "error"}) /\ AppCall(h, e, "read")
  BY DEF AppRead, CanReadNow, Ready
<1>2. ReadLen \in Nat
  BY ConnectionAssumption
<1>3. StepDone(e, sock[h], "read", FALSE) /\ (~sock[h].valid => e.sent = <<>>)
  BY <1>1, <1>2, ReadyIs, ReadDone
<1> HIDE DEF e
<1>4. Moves(h, e, "read", net[h], FALSE)
  BY <1>1, <1>3, CallMoves
<1> QED
  BY <1>1, <1>4 DEF e

\* The bytes AppWrite offers.
WriteData(h) ==
    LET n == AtMost(WriteLen, StreamLength[h] - written[h])
    IN  [k \in 1 .. n |-> written[h] + k]

\* AppWrite
LEMMA AppWriteMoves ==
  ASSUME HostsTyped, WorldTyped, CallsInv, NEW h \in Hosts, AppWrite(h)
  PROVE  /\ Ready(h, {"open", "eof", "error"}) /\ CanWriteNow(h)
         /\ WriteData(h) \in Seq(Byte)
         /\ Moves(h, Write(sock[h], WriteData(h)), "write", net[h], FALSE)
<1> DEFINE e == Write(sock[h], WriteData(h))
<1>1. Ready(h, {"open", "eof", "error"}) /\ CanWriteNow(h)
  BY DEF AppWrite, CanWriteNow, Ready
<1>2. AppCall(h, e, "write")
  BY DEF AppWrite, WriteData
<1>3. WriteData(h) \in Seq(Byte)
  BY <1>1, DataOK DEF WriteData
<1>4. StepDone(e, sock[h], "write", FALSE) /\ (~sock[h].valid => e.sent = <<>>)
  BY <1>1, <1>3, ReadyIs, WriteDone
<1> HIDE DEF e
<1>5. Moves(h, e, "write", net[h], FALSE)
  BY <1>1, <1>2, <1>4, CallMoves
<1> QED
  BY <1>1, <1>3, <1>5 DEF e

\* AppClose
LEMMA AppCloseMoves ==
  ASSUME HostsTyped, WorldTyped, CallsInv, NEW h \in Hosts, AppClose(h)
  PROVE  /\ Ready(h, {"open", "eof", "error"})
         /\ Moves(h, Close(sock[h]), "close", net[h], FALSE)
<1> DEFINE e == Close(sock[h])
<1>1. Ready(h, {"open", "eof", "error"}) /\ AppCall(h, e, "close")
  BY DEF AppClose, CanCloseNow, Ready
<1>2. StepDone(e, sock[h], "close", FALSE) /\ (~sock[h].valid => e.sent = <<>>)
  BY <1>1, ReadyIs, CloseDone
<1> HIDE DEF e
<1>3. Moves(h, e, "close", net[h], FALSE)
  BY <1>1, <1>2, CallMoves
<1> QED
  BY <1>1, <1>3 DEF e

\* DeliverToSocket
LEMMA DeliverToSocketMoves ==
  ASSUME HostsTyped, WorldTyped, CallsInv, NEW h \in Hosts, DeliverToSocket(h)
  PROVE  LET seg == Head(net[h]) IN
         /\ seg \in SegmentType /\ net[h] # <<>> /\ sock[h].valid
         /\ SynOK(h, seg)
         /\ Moves(h, TCPCallback(sock[h], seg), call[h], Tail(net[h]), seg.fin)
<1> DEFINE seg == Head(net[h])
           e == TCPCallback(sock[h], seg)
<1>1. /\ net[h] # <<>> /\ sock[h].valid /\ Apply(h, e, call[h])
      /\ net' = [net EXCEPT ![h] = Tail(@), ![Peer(h)] = @ \o e.sent]
      /\ listener' = listener
  BY DEF DeliverToSocket
<1>2. net[h] \in Seq(SegmentType) /\ net \in [Hosts -> Seq(SegmentType)]
  BY DEF WorldTyped
<1>3. seg \in SegmentType /\ seg = net[h][1] /\ 1 \in DOMAIN net[h]
  BY <1>1, <1>2, TailElements
<1>4. SynOK(h, seg)
  BY <1>3 DEF CallsInv, SynsOK
<1>5. HostOK(h) /\ SocketOK(sock[h]) /\ ListenerOK /\ call[h] \in Calls
  BY DEF CallsInv, HostsTyped
<1>6. sock[h].state = "SYN_SENT" /\ seg.syn => seg.ack /\ seg.ack_seq = ISS + 1
  <2>1. sock[h].state = "SYN_SENT" => h = Client
    BY <1>5, TwoHosts DEF ListenerOK, Hosts
  <2> HIDE DEF seg
  <2> QED
    BY <1>4, <2>1 DEF SynOK
<1>7. StepDone(e, sock[h], call[h], seg.fin)
  <2> DEFINE s == sock[h]
  <2>1. SocketOK(s) /\ s.valid /\ Shape(s) /\ Marks(s, call[h])
    BY <1>1, <1>5 DEF HostOK
  <2>2. s.state = "SYN_SENT" /\ seg.syn => seg.ack /\ seg.ack_seq = ISS + 1
    BY <1>6
  <2> HIDE DEF s, seg
  <2>3. StepDone(TCPCallback(s, seg), s, call[h], seg.fin)
    BY <1>3, <2>1, <2>2, TCPCallbackDone
  <2> QED
    BY <2>3 DEF s
<1>8. Serves(h, e, call[h]) /\ Rest(h, Tail(net[h]))
  BY <1>1 DEF Serves, Rest
<1>9. net' = [net EXCEPT ![h] = Tail(net[h]), ![Peer(h)] = @ \o e.sent]
  BY <1>1, <1>2
<1> HIDE DEF e
<1>10. Moves(h, e, call[h], Tail(net[h]), seg.fin)
  BY <1>1, <1>5, <1>7, <1>8, <1>9 DEF Moves
<1> QED
  BY <1>1, <1>3, <1>4, <1>10 DEF e

\* Tick
LEMMA TickMoves ==
  ASSUME HostsTyped, WorldTyped, CallsInv, NEW h \in Hosts, Tick(h)
  PROVE  /\ sock[h].valid
         /\ Moves(h, TCPTimeout(sock[h]), call[h], net[h], FALSE)
<1> DEFINE e == TCPTimeout(sock[h])
<1>1. Apply(h, e, call[h]) /\ net' = Sends(h, e) /\ listener' = listener
      /\ sock[h].timer
  BY DEF Tick, TimerRuns
<1>2. HostOK(h) /\ SocketOK(sock[h]) /\ call[h] \in Calls
  BY DEF CallsInv, HostsTyped
<1>3. sock[h].valid
  BY <1>1, <1>2 DEF HostOK, Shape, FreeSocket
<1>4. StepDone(e, sock[h], call[h], FALSE)
  BY <1>2, <1>3, TCPTimeoutDone DEF HostOK
<1>5. Serves(h, e, call[h]) /\ Rest(h, net[h])
  BY <1>3 DEF Serves, Rest
<1>6. net' = [net EXCEPT ![h] = net[h], ![Peer(h)] = @ \o e.sent]
  BY <1>1, TwoHosts DEF Sends, WorldTyped
<1> HIDE DEF e
<1>7. Moves(h, e, call[h], net[h], FALSE)
  BY <1>1, <1>2, <1>4, <1>5, <1>6 DEF Moves
<1> QED
  BY <1>3, <1>7 DEF e

\* AppConnect
LEMMA AppConnectBegins ==
  ASSUME HostsTyped, WorldTyped, CallsInv, AppConnect
  PROVE  Begins(Client, Connect, "connect", net[Client])
<1>1. /\ Apply(Client, Connect, "connect") /\ net' = Sends(Client, Connect)
      /\ listener' = listener /\ app[Client] = "new" /\ call[Client] = "none"
  BY DEF AppConnect, Ready
<1>2. Openable(Client) /\ Rest(Client, net[Client]) /\ Client \in Hosts
  BY <1>1, TwoHosts DEF Openable, Rest
<1>3. net' = [net EXCEPT ![Client] = net[Client], ![Peer(Client)] = @ \o Connect.sent]
  BY <1>1, TwoHosts DEF Sends, WorldTyped
<1>4. /\ Connect.s.valid /\ Connect.s.fin_state = "NONE"
      /\ Connect.s.state = "SYN_SENT"
  BY ConnectIs DEF OpenSocket, FreeSocket
<1>5. \E g \in SegmentType : Connect.sent = <<g>> /\ ~g.fin /\ SynOK(Peer(Client), g)
  BY ConnectIs, TwoHosts DEF SynOK
<1> QED
  BY <1>1, <1>2, <1>3, <1>4, <1>5, ConnectIs DEF Begins

\* TCPAccept
LEMMA AcceptBegins ==
  ASSUME HostsTyped, WorldTyped, CallsInv, NEW n, n = ISS + 1, NEW q,
         Accept(n, q), Rest(Server, q), Openable(Server)
  PROVE  Begins(Server, TCPAccept(n), "accept", q)
<1> DEFINE e == TCPAccept(n)
<1>1. /\ Apply(Server, e, "accept")
      /\ net' = [net EXCEPT ![Server] = q, ![Client] = @ \o e.sent]
      /\ listener' = [waiting |-> <<>>, accepting |-> FALSE]
  BY DEF Accept
<1>2. /\ EffectOK(e) /\ e.s = OpenSocket("SYN_RECV", n)
      /\ Shape(e.s) /\ Marks(e.s, "accept")
      /\ e.rep = <<>> /\ e.frees = 0 /\ e.took = 0 /\ e.gave = <<>>
      /\ \E g \in SegmentType :
             /\ e.sent = <<g>> /\ g.syn /\ g.ack /\ ~g.fin
             /\ g.seq = ISS /\ g.ack_seq = ISS + 1 /\ g.data = <<>>
  BY TCPAcceptIs
<1> HIDE DEF e
<1>3. e.s.valid /\ e.s.fin_state = "NONE" /\ e.s.state = "SYN_RECV"
  BY <1>2 DEF OpenSocket, FreeSocket
<1>4. \E g \in SegmentType : e.sent = <<g>> /\ ~g.fin /\ SynOK(Peer(Server), g)
  BY <1>2 DEF SynOK
<1>5. Begins(Server, e, "accept", q)
  BY <1>1, <1>2, <1>3, <1>4, TwoHosts DEF Begins
<1> QED
  BY <1>5 DEF e

\* A connection that waits came with the sequence number ISS.
LEMMA AppAcceptBegins ==
  ASSUME HostsTyped, WorldTyped, CallsInv, AppAccept, listener.waiting # <<>>
  PROVE  Begins(Server, TCPAccept(Head(listener.waiting)), "accept", net[Server])
<1>1. app[Server] = "new" /\ call[Server] = "none"
      /\ Accept(Head(listener.waiting), net[Server])
  BY DEF AppAccept, Ready
<1>2. listener.waiting \in Seq(Nat)
  BY DEF WorldTyped
<1>3. Head(listener.waiting) = ISS + 1
  <2>1. Head(listener.waiting) = listener.waiting[1] /\ 1 \in DOMAIN listener.waiting
    BY <1>2, TailElements
  <2> QED
    BY <2>1 DEF CallsInv, ListenerOK
<1>4. Openable(Server) /\ Rest(Server, net[Server])
  BY <1>1 DEF Openable, Rest
<1> QED
  BY <1>1, <1>3, <1>4, AcceptBegins

\* A SYN for a server that is blocked in accept.
LEMMA DeliverToListenerBegins ==
  ASSUME HostsTyped, WorldTyped, CallsInv, DeliverToListener, listener.accepting
  PROVE  Begins(Server, TCPAccept(Head(net[Server]).seq + 1), "accept",
                Tail(net[Server]))
<1> DEFINE seg == Head(net[Server])
           n == seg.seq + 1
<1>1. net[Server] # <<>> /\ seg.syn /\ Accept(n, Tail(net[Server]))
  BY DEF DeliverToListener
<1>2. net[Server] \in Seq(SegmentType) /\ Server \in Hosts
  BY TwoHosts DEF WorldTyped
<1>3. seg = net[Server][1] /\ 1 \in DOMAIN net[Server]
  BY <1>1, <1>2, TailElements
<1>4. SynOK(Server, seg)
  BY <1>2, <1>3 DEF CallsInv, SynsOK
<1>5. n = ISS + 1
  BY <1>1, <1>4 DEF SynOK
<1>6. Openable(Server) /\ Rest(Server, Tail(net[Server]))
  BY <1>1 DEF Openable, Rest, CallsInv, ListenerOK
<1> HIDE DEF n
<1>7. Begins(Server, TCPAccept(n), "accept", Tail(net[Server]))
  BY <1>1, <1>5, <1>6, AcceptBegins
<1> QED
  BY <1>7 DEF n

\* accept blocks, a SYN waits, or a segment is dropped: no socket changes.
Idles(h, q) ==
    /\ h \in Hosts /\ Rest(h, q) /\ net' = [net EXCEPT ![h] = q]
    /\ UNCHANGED <<sock, app, written, got, linger>>
    /\ \A g \in Hosts : down'[g] # "blocked"
    /\ \A g \in Hosts : Openable(g)' = Openable(g)
    /\ ListenerOK'
    /\ \A g \in Hosts : call'[g] = call[g] \/ (app[g] = "new" /\ ~sock[g].valid
                                               /\ call'[g] = "accept")

\* The step keeps the invariant.
LEMMA IdlesOK ==
  ASSUME HostsTyped, WorldTyped, CallsInv, NEW h, NEW q, Idles(h, q)
  PROVE  CallsInv'
<1>1. /\ h \in Hosts /\ Rest(h, q)
      /\ net'[h] = q /\ \A g \in Hosts : g # h => net'[g] = net[g]
      /\ sock' = sock /\ app' = app /\ linger' = linger
  BY DEF Idles, WorldTyped
<1>2. /\ \A i \in DOMAIN q : \E k \in DOMAIN net[h] : q[i] = net[h][k]
      /\ \A i, j \in DOMAIN q : i # j =>
            \E k, l \in DOMAIN net[h] :
                k # l /\ q[i] = net[h][k] /\ q[j] = net[h][l]
  BY <1>1, RestIs
<1>3. ASSUME NEW g \in Hosts PROVE HostOK(g)'
  <2>1. HostOK(g) /\ down'[g] # "blocked"
    BY DEF CallsInv, Idles
  <2>2. CASE call'[g] = call[g]
    BY <1>1, <2>1, <2>2 DEF HostOK
  <2>3. CASE app[g] = "new" /\ ~sock[g].valid /\ call'[g] = "accept"
    <3>1. sock[g] = FreeSocket
      BY <2>1, <2>3 DEF HostOK, Shape
    <3>2. Marks(sock[g], "accept")
      BY <3>1 DEF FreeSocket, Marks, FinSent
    <3> QED
      BY <1>1, <2>1, <2>3, <3>2 DEF HostOK
  <2> QED
    BY <2>2, <2>3 DEF Idles
<1>4. ASSUME NEW g \in Hosts PROVE \A i \in DOMAIN net'[g] : SynOK(g, net'[g][i])
  BY <1>1, <1>2 DEF CallsInv, SynsOK
<1>5. ASSUME NEW g \in Hosts PROVE FinOK(g)'
  <2>1. FinOK(g) /\ Peer(g) \in Hosts
    BY TwoHosts DEF CallsInv
  <2>2. FinDone(Peer(g))' = FinDone(Peer(g))
    BY <1>1, <2>1 DEF FinDone, Idles
  <2>3. /\ \A i \in DOMAIN net'[g] : \E k \in DOMAIN net[g] : net'[g][i] = net[g][k]
        /\ \A i, j \in DOMAIN net'[g] : i # j =>
              \E k, l \in DOMAIN net[g] :
                  k # l /\ net'[g][i] = net[g][k] /\ net'[g][j] = net[g][l]
    BY <1>1, <1>2
  <2>4. FinSeen(g)' => FinSeen(g)
    BY <1>1, <2>3 DEF FinSeen
  <2>5. \A i, j \in DOMAIN net'[g] : net'[g][i].fin /\ net'[g][j].fin => i = j
    <3>1. SUFFICES ASSUME NEW i \in DOMAIN net'[g], NEW j \in DOMAIN net'[g],
                          net'[g][i].fin, net'[g][j].fin, i # j
                   PROVE  FALSE
      OBVIOUS
    <3>2. PICK k \in DOMAIN net[g], l \in DOMAIN net[g] :
              k # l /\ net'[g][i] = net[g][k] /\ net'[g][j] = net[g][l]
      BY <2>3, <3>1
    <3> QED
      BY <2>1, <3>1, <3>2 DEF FinOK
  <2>6. linger'[g] = 1 => \A i \in DOMAIN net'[g] : ~net'[g][i].fin
    BY <1>1, <2>1, <2>3 DEF FinOK
  <2> QED
    BY <2>1, <2>2, <2>4, <2>5, <2>6 DEF FinOK
<1>6. SynsOK'
  BY <1>4 DEF SynsOK, SynOK
<1>7. ListenerOK'
  BY DEF Idles
<1> QED
  BY <1>3, <1>5, <1>6, <1>7 DEF CallsInv

-----------------------------------------------------------------------------
\* accept blocks, or a SYN joins the waiting list.
LEMMA AcceptBlocks ==
  ASSUME HostsTyped, WorldTyped, CallsInv, AppAccept, listener.waiting = <<>>
  PROVE  Idles(Server, net[Server])
<1>1. /\ app[Server] = "new" /\ call[Server] = "none"
      /\ listener' = [listener EXCEPT !.accepting = TRUE]
      /\ call' = [call EXCEPT ![Server] = "accept"]
      /\ net' = net /\ down' = down
      /\ UNCHANGED <<sock, app, written, got, linger>>
  BY DEF AppAccept, Ready
<1>2. ~sock[Server].valid /\ Server \in Hosts
  BY <1>1, TwoHosts DEF HostsTyped, FreshHasNoSocket
<1>3. listener'.accepting /\ listener'.waiting = listener.waiting
  BY <1>1 DEF WorldTyped
<1>4. call'[Server] = "accept" /\ \A g \in Hosts : g # Server => call'[g] = call[g]
  BY <1>1, <1>2 DEF HostsTyped
<1>5. ListenerOK'
  BY <1>1, <1>2, <1>3, <1>4 DEF CallsInv, ListenerOK
<1>6. \A g \in Hosts : Openable(g)' = Openable(g)
  BY <1>1, <1>3, <1>4 DEF Openable
<1>7. \A g \in Hosts : down'[g] # "blocked"
  BY <1>1 DEF CallsInv, HostOK
<1>8. net' = [net EXCEPT ![Server] = net[Server]]
  BY <1>1 DEF WorldTyped
<1> QED
  BY <1>1, <1>2, <1>4, <1>5, <1>6, <1>7, <1>8 DEF Idles, Rest

\* A SYN that has to wait.
LEMMA SynWaits ==
  ASSUME HostsTyped, WorldTyped, CallsInv, DeliverToListener, ~listener.accepting
  PROVE  Idles(Server, Tail(net[Server]))
<1> DEFINE seg == Head(net[Server])
<1>1. /\ net[Server] # <<>> /\ seg.syn
      /\ listener' = [listener EXCEPT !.waiting = <<seg.seq + 1>>]
      /\ net' = [net EXCEPT ![Server] = Tail(@)]
      /\ UNCHANGED <<sock, app, call, written, got, linger, down>>
  BY DEF DeliverToListener
<1>2. net[Server] \in Seq(SegmentType) /\ Server \in Hosts
  BY TwoHosts DEF WorldTyped
<1>3. seg = net[Server][1] /\ 1 \in DOMAIN net[Server]
  BY <1>1, <1>2, TailElements
<1>4. seg.seq = ISS
  BY <1>1, <1>2, <1>3 DEF CallsInv, SynsOK, SynOK
<1> HIDE DEF seg
<1>5. listener'.accepting = listener.accepting /\ listener'.waiting = <<ISS + 1>>
  BY <1>1, <1>4 DEF WorldTyped
<1>6. \A i \in DOMAIN listener'.waiting : listener'.waiting[i] = ISS + 1
  <2>1. ASSUME NEW n PROVE \A i \in DOMAIN <<n>> : <<n>>[i] = n
    OBVIOUS
  <2> QED
    BY <1>5, <2>1
<1>7. ListenerOK'
  BY <1>1, <1>5, <1>6 DEF CallsInv, ListenerOK
<1>8. \A g \in Hosts : Openable(g)' = Openable(g)
  BY <1>1, <1>5 DEF Openable
<1>9. \A g \in Hosts : down'[g] # "blocked"
  BY <1>1 DEF CallsInv, HostOK
<1>10. net' = [net EXCEPT ![Server] = Tail(net[Server])]
  BY <1>1
<1> QED
  BY <1>1, <1>2, <1>7, <1>8, <1>9, <1>10 DEF Idles, Rest

\* A segment that reaches nobody, or is lost.
LEMMA DropIdles ==
  ASSUME HostsTyped, WorldTyped, CallsInv, NEW h \in Hosts,
         DeliverInVain(h) \/ Lose(h) \/ (h = Client /\ DeliverToNobody)
  PROVE  Idles(h, Tail(net[h]))
<1>1. /\ net[h] # <<>> /\ net' = [net EXCEPT ![h] = Tail(@)]
      /\ UNCHANGED <<sock, listener, app, call, written, got, linger>>
  BY DEF DeliverInVain, Lose, DeliverToNobody
<1>2. \A g \in Hosts : down'[g] # "blocked"
  <2>1. \A g \in Hosts : down[g] # "blocked"
    BY DEF CallsInv, HostOK
  <2>2. down' = down \/ down' = [down EXCEPT ![Client] = "crashed"]
    BY DEF DeliverInVain, Lose, DeliverToNobody
  <2> QED
    BY <2>1, <2>2 DEF HostsTyped
<1>3. ListenerOK' /\ \A g \in Hosts : Openable(g)' = Openable(g)
  BY <1>1 DEF CallsInv, ListenerOK, Openable
<1>4. net' = [net EXCEPT ![h] = Tail(net[h])]
  BY <1>1
<1> QED
  BY <1>1, <1>2, <1>3, <1>4 DEF Idles, Rest

\* freeSocket_pthread finds the socket it was started for.
Freed(h) ==
    /\ sock'[h] = FreeSocket /\ linger'[h] = 0 /\ sock[h].valid
    /\ call[h] = "none" /\ app[h] = "closed" /\ sock[h].fin_state = "FIN_WAIT2"
    /\ \A g \in Hosts : g # h => sock'[g] = sock[g] /\ linger'[g] = linger[g]
    /\ UNCHANGED <<net, listener, app, call, written, got, down>>

\* The thread that wakes up is the only one.
LEMMA LingerFrees ==
  ASSUME HostsTyped, WorldTyped, CallsInv, NEW h \in Hosts, LingerEnds(h)
  PROVE  Freed(h)
<1>1. HostOK(h) /\ linger[h] \in Nat /\ linger[h] > 0
  BY DEF CallsInv, HostsTyped, LingerEnds
<1>2. linger[h] = 1
  BY <1>1 DEF HostOK
<1>3. sock[h].fin_state = "FIN_WAIT2" /\ app[h] = "closed" /\ call[h] = "none"
  BY <1>1, <1>2 DEF HostOK, FinWait
<1>4. sock[h].valid
  BY <1>1, <1>3 DEF HostOK, Shape, FreeSocket
<1>5. /\ linger' = [linger EXCEPT ![h] = @ - 1]
      /\ sock' = [sock EXCEPT ![h] = FreeSocket]
      /\ down' = [down EXCEPT ![h] = IF sock[h].valid THEN @ ELSE "crashed"]
      /\ UNCHANGED <<net, listener, app, call, written, got>>
  BY DEF LingerEnds
<1>6. down' = down
  BY <1>4, <1>5 DEF HostsTyped
<1>7. sock'[h] = FreeSocket /\ linger'[h] = 0
  BY <1>2, <1>5 DEF HostsTyped
<1>8. \A g \in Hosts : g # h => sock'[g] = sock[g] /\ linger'[g] = linger[g]
  BY <1>5 DEF HostsTyped
<1> QED
  BY <1>3, <1>4, <1>5, <1>6, <1>7, <1>8 DEF Freed

\* The step keeps the invariant.
LEMMA LingerEndsKeeps ==
  ASSUME HostsTyped, WorldTyped, CallsInv, NEW h \in Hosts, LingerEnds(h)
  PROVE  CallsInv'
<1>1. Freed(h) /\ HostOK(h)
  BY LingerFrees DEF CallsInv
<1>2. HostOK(h)'
  <2>1. Shape(FreeSocket) /\ Marks(FreeSocket, "none")
        /\ FreeSocket.state = "CLOSE" /\ FreeSocket.fin_state = "NONE"
    BY DEF Shape, Marks, FreeSocket, FinSent
  <2> HIDE DEF FreeSocket
  <2> QED
    BY <1>1, <2>1 DEF Freed, HostOK, FinWait
<1>3. ASSUME NEW g \in Hosts, g # h PROVE HostOK(g)'
  BY <1>1, <1>3 DEF CallsInv, HostOK, Freed
<1>4. \A g \in Hosts : Openable(g)' = Openable(g)
  BY <1>1 DEF Openable, Freed
<1>5. ListenerOK'
  BY <1>1, TwoHosts DEF CallsInv, ListenerOK, Freed, FreeSocket
<1>6. SynsOK'
  BY <1>1 DEF CallsInv, SynsOK, SynOK, Freed
<1>7. ASSUME NEW g \in Hosts PROVE FinDone(g) => FinDone(g)'
  BY <1>1, <1>4 DEF FinDone, Freed, FreeSocket
<1>8. ASSUME NEW g \in Hosts PROVE FinSeen(g)' => FinSeen(g)
  BY <1>1 DEF FinSeen, Freed, FreeSocket, FinHeard
<1>9. ASSUME NEW g \in Hosts PROVE FinOK(g)'
  <2>1. FinOK(g) /\ Peer(g) \in Hosts
    BY TwoHosts DEF CallsInv
  <2>2. FinSeen(g)' => FinDone(Peer(g))'
    BY <2>1, <1>7, <1>8 DEF FinOK
  <2>3. net' = net /\ (linger'[g] = 1 => linger[g] = 1)
    BY <1>1 DEF Freed
  <2> QED
    BY <2>1, <2>2, <2>3 DEF FinOK
<1> QED
  BY <1>2, <1>3, <1>5, <1>6, <1>9 DEF CallsInv

-----------------------------------------------------------------------------
\* The initial states satisfy the invariant.
LEMMA InitCalls == Init => CallsInv
<1> SUFFICES ASSUME Init PROVE CallsInv
  OBVIOUS
<1>1. /\ Shape(FreeSocket) /\ Marks(FreeSocket, "none")
      /\ FreeSocket.state = "CLOSE" /\ FreeSocket.fin_state = "NONE"
  BY DEF Shape, Marks, FreeSocket, FinSent
<1>2. ASSUME NEW h \in Hosts
      PROVE  /\ sock[h] = FreeSocket /\ net[h] = <<>> /\ app[h] = "new"
             /\ call[h] = "none" /\ linger[h] = 0 /\ down[h] = "no"
  BY DEF Init
<1>3. listener.waiting = <<>> /\ ~listener.accepting
  BY DEF Init
<1>4. DOMAIN <<>> = {}
  OBVIOUS
<1> HIDE DEF FreeSocket
<1>5. ASSUME NEW h \in Hosts PROVE HostOK(h)
  BY <1>1, <1>2 DEF HostOK, FinWait
<1>6. ListenerOK
  BY <1>1, <1>2, <1>3, <1>4, TwoHosts DEF ListenerOK
<1>7. SynsOK
  BY <1>2, <1>4 DEF SynsOK
<1>8. ASSUME NEW h \in Hosts PROVE FinOK(h)
  BY <1>1, <1>2, <1>4 DEF FinOK, FinSeen, FinHeard
<1> QED
  BY <1>5, <1>6, <1>7, <1>8 DEF CallsInv

\* One case for each action.
LEMMA CallsStep == IInv /\ CallsInv /\ [Next]_vars => CallsInv'
<1> SUFFICES ASSUME HostsTyped, WorldTyped, CallsInv, [Next]_vars
             PROVE  CallsInv'
  BY InvariantParts
<1>1. CASE UNCHANGED vars
  BY <1>1 DEF vars, CallsInv, HostOK, ListenerOK, SynsOK, SynOK, FinOK, FinSeen,
     FinDone, Openable
<1>2. ASSUME NEW h \in Hosts, AppCalls(h)
      PROVE  CallsInv'
  <2>1. CASE AppConnect
    BY <2>1, AppConnectBegins, BeginsOK
  <2>2. CASE AppAccept
    BY <2>2, AppAcceptBegins, AcceptBlocks, BeginsOK, IdlesOK
  <2>3. CASE AppWrite(h)
    BY <2>3, AppWriteMoves, MovesOK
  <2>4. CASE AppRead(h)
    BY <2>4, AppReadMoves, MovesOK
  <2>5. CASE AppClose(h)
    BY <2>5, AppCloseMoves, MovesOK
  <2> QED
    BY <1>2, <2>1, <2>2, <2>3, <2>4, <2>5 DEF AppCalls
<1>3. ASSUME NEW h \in Hosts, Deliver(h)
      PROVE  CallsInv'
  <2>1. CASE DeliverToSocket(h)
    BY <2>1, DeliverToSocketMoves, MovesOK
  <2>2. CASE DeliverToListener
    BY <2>2, DeliverToListenerBegins, SynWaits, BeginsOK, IdlesOK
  <2>3. CASE DeliverInVain(h) \/ (h = Client /\ DeliverToNobody)
    BY <2>3, DropIdles, IdlesOK
  <2> QED
    BY <1>3, <2>1, <2>2, <2>3 DEF Deliver
<1>4. ASSUME NEW h \in Hosts, Lose(h)
      PROVE  CallsInv'
  BY <1>4, DropIdles, IdlesOK
<1>5. ASSUME NEW h \in Hosts, Tick(h)
      PROVE  CallsInv'
  BY <1>5, TickMoves, MovesOK
<1>6. ASSUME NEW h \in Hosts, LingerEnds(h)
      PROVE  CallsInv'
  BY <1>6, LingerEndsKeeps
<1> QED
  BY <1>1, <1>2, <1>3, <1>4, <1>5, <1>6 DEF Next, Done

\* The two invariants together are inductive.
LEMMA InductiveCalls == Spec => [](IInv /\ CallsInv)
<1>1. Init => IInv /\ CallsInv
  BY InitOK, InitCalls
<1>2. (IInv /\ CallsInv) /\ [Next]_vars => (IInv /\ CallsInv)'
  BY StepOK, CallsStep
<1> QED
  BY <1>1, <1>2, PTL DEF Spec

\* A daemon never blocks on an answer nobody waits for, and a blocked connect,
\* read or write always has a live socket that will answer it (processRead,
\* processWriteSend, shutdownSocket, TCPCallback), for all buffer sizes,
\* stream lengths and losses of any segments.
THEOREM EveryCallTracked == Spec => []CallsTracked
<1>1. IInv /\ CallsInv => CallsTracked
  <2> SUFFICES ASSUME HostsTyped, CallsInv, NEW h \in Hosts
               PROVE  /\ down[h] # "blocked"
                      /\ (call[h] = "read") = sock[h].read_flag
                      /\ (call[h] = "write") = sock[h].write_flag
                      /\ call[h] = "connect" =>
                             sock[h].state = "SYN_SENT" /\ sock[h].callback
                      /\ sock[h].fin_tag => call[h] = "close"
    BY InvariantParts DEF CallsTracked
  <2>1. /\ sock[h].read_flag \in BOOLEAN /\ sock[h].write_flag \in BOOLEAN
    BY DEF HostsTyped, SocketType
  <2>2. Shape(sock[h]) /\ Marks(sock[h], call[h]) /\ down[h] # "blocked"
    BY DEF CallsInv, HostOK
  <2> QED
    BY <2>1, <2>2 DEF Shape, Marks
<1> QED
  BY <1>1, InductiveCalls, PTL

\* At most one freeSocket_pthread sleeps for a host, and the socket it will
\* free is still the one whose close started it (TCPCallback in FIN_WAIT2).
THEOREM DeferredFreeSound == Spec => []OneDeferredFree
<1>1. CallsInv => OneDeferredFree
  <2> SUFFICES ASSUME CallsInv, NEW h \in Hosts
               PROVE  /\ linger[h] <= 1
                      /\ linger[h] = 1 => sock[h].valid
                                          /\ sock[h].fin_state = "FIN_WAIT2"
    BY DEF OneDeferredFree
  <2>1. HostOK(h)
    BY DEF CallsInv
  <2>2. sock[h].fin_state = "FIN_WAIT2" => sock[h].valid
    BY <2>1 DEF HostOK, Shape, FreeSocket
  <2> QED
    BY <2>1, <2>2 DEF HostOK
<1> QED
  BY <1>1, InductiveCalls, PTL
=============================================================================
