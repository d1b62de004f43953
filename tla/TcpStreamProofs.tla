--------------------------- MODULE TcpStreamProofs ---------------------------
(***************************************************************************)
(* Proofs about the streams of TcpConnection: the two daemons give each    *)
(* application a reliable byte stream from the other, whatever segments    *)
(* with data, acknowledgements and FINs the network loses.                 *)
(*                                                                         *)
(* StreamInv, on top of IInv (TcpConnectionProofs) and CallsInv            *)
(* (TcpCallsProofs), has two parts.                                        *)
(*                                                                         *)
(*   StreamOK     The output buffer is the end of what was written and the *)
(*                input buffer continues what was read (SendSide,          *)
(*                ReceiveSide); what a socket knows of its peer's rcv_nxt  *)
(*                and window is old but never too much (Knows); and every  *)
(*                segment on its way carries a part of the stream that     *)
(*                fits, and an acknowledgement of what was taken (SegFor). *)
(*   HandshakeOK  While the connection is opened, the first segment the    *)
(*                server takes for the end of the handshake is the         *)
(*                client's own acknowledgement of the SYNACK.              *)
(*                                                                         *)
(* The second part is why the theorems assume LossScope # "any".  In       *)
(* SYN_RECV the server takes any segment with the right ack_seq for the    *)
(* end of the handshake and adds its length to rcv_nxt without keeping the *)
(* data (TCPCallback); so when the client's ACK is lost, the first bytes   *)
(* of the stream go with it.  The run tcp_lost_handshake shows that.       *)
(*                                                                         *)
(* Streams(h, e, c) is what a routine with effect e must achieve for       *)
(* StreamInv to survive the step; Flow is the same while the routine is    *)
(* still at work.  Moves, Begins, Idles and Freed, of TcpCallsProofs, are  *)
(* the four kinds of step.                                                 *)
(***************************************************************************)
EXTENDS TcpCallsProofs

-----------------------------------------------------------------------------
(***************************************************************************)
(* The invariant: the streams.                                             *)
(***************************************************************************)

\* The sequence number up to which socket s lets its peer send.
RightEdge(s) == s.rcv_nxt + InFree(s)

\* The sending side of a socket whose application has written w of length
\* bytes: the output buffer is the end of what was written.
SendSide(s, w, length) ==
    /\ First <= s.snd_una /\ s.snd_una + Len(s.output) = First + w
    /\ s.snd_nxt <= s.snd_una + Len(s.output)
    /\ \A k \in 1 .. Len(s.output) : s.output[k] = s.snd_una - First + k
    /\ \A k \in 1 .. Len(s.write_pipe) : s.write_pipe[k] = w + k
    /\ w + Len(s.write_pipe) <= length
    /\ s.fin_state \in FinWait => s.output = <<>>

\* The receiving side of a socket whose application has read g and whose peer
\* has written w bytes: the input buffer continues what was read.
ReceiveSide(s, g, w) ==
    /\ s.rcv_nxt = First + Len(g) + Len(s.input) /\ s.rcv_nxt <= First + w
    /\ \A k \in 1 .. Len(s.input) : s.input[k] = Len(g) + k
    /\ \A k \in 1 .. Len(g) : g[k] = k

\* What socket s knows of the socket p of its peer is old, but not wrong.
Knows(s, p) ==
    s.state = "ESTABLISHED" /\ p.valid =>
        s.snd_una <= p.rcv_nxt /\ s.snd_una + s.peer_window_size <= RightEdge(p)

\* A payload is a part of the first w bytes of its stream.
InStream(seg, w) ==
    /\ First <= seg.seq /\ seg.seq + Len(seg.data) <= First + w
    /\ \A k \in 1 .. Len(seg.data) : seg.data[k] = seg.seq - First + k

\* A segment for socket p from socket s, whose application has written w
\* bytes: its payload fits, its acknowledgement is of what s has taken or of
\* the FIN, and a FIN comes after everything that was sent.
SegFor(seg, w, p, s) ==
    /\ seg.data # <<>> => InStream(seg, w) /\ seg.ack
    /\ seg.data # <<>> /\ p.valid => seg.seq + Len(seg.data) <= RightEdge(p)
    /\ seg.ack /\ p.valid /\ s.valid =>
          \/ seg.ack_seq <= s.rcv_nxt /\ seg.ack_seq + seg.window <= RightEdge(s)
          \/ p.fin_state \in FinSent /\ seg.ack_seq > p.snd_nxt
    /\ seg.fin /\ s.valid => seg.seq = s.snd_nxt

-----------------------------------------------------------------------------
(***************************************************************************)
(* The streams while a routine of host h builds its effect e.              *)
(***************************************************************************)
SegsOK(h, e) ==
    \A i \in DOMAIN e.sent :
        SegFor(e.sent[i], written[h] + e.took, sock[Peer(h)], e.s)

\* Nothing that was taken is given back.
Later(s, t) ==
    t.valid => s.valid /\ s.rcv_nxt <= t.rcv_nxt /\ RightEdge(s) <= RightEdge(t)

\* In the effect of a call c.
Flow(h, e, c) ==
    /\ LiveOK(e, c, sock[h].fin_state)
    /\ SendSide(e.s, written[h] + e.took, StreamLength[h])
    /\ ReceiveSide(e.s, got[h] \o e.gave, written[Peer(h)])
    /\ Knows(e.s, sock[Peer(h)])
    /\ SegsOK(h, e)
    /\ Later(sock[h], e.s)
    /\ e.took # 0 => c = "write"
    /\ e.gave # <<>> => c = "read"
    /\ sock[h].fin_state \in FinWait => e.s.snd_nxt = sock[h].snd_nxt

\* The numbers of a socket.
LEMMA SocketNumbers ==
  ASSUME NEW s, SocketOK(s)
  PROVE  /\ s.snd_una \in Nat /\ s.snd_nxt \in Nat /\ s.rcv_nxt \in Nat
         /\ s.peer_window_size \in Nat /\ s.snd_una <= s.snd_nxt
         /\ s.input \in Seq(Byte) /\ s.output \in Seq(Byte)
         /\ s.write_pipe \in Seq(Byte)
         /\ Len(s.input) \in Nat /\ Len(s.output) \in Nat /\ Len(s.write_pipe) \in Nat
         /\ InFree(s) \in Nat /\ OutFree(s) \in Nat
         /\ InFree(s) = InCapacity - Len(s.input) /\ RightEdge(s) \in Nat
         /\ RightEdge(s) = s.rcv_nxt + InCapacity - Len(s.input)
         /\ InCapacity \in Nat
<1>1. /\ s.snd_una \in Nat /\ s.snd_nxt \in Nat /\ s.rcv_nxt \in Nat
      /\ s.peer_window_size \in Nat /\ s.snd_una <= s.snd_nxt
      /\ s.input \in Seq(Byte) /\ s.output \in Seq(Byte)
      /\ s.write_pipe \in Seq(Byte)
  BY DEF SocketOK, SocketType
<1>2. Len(s.input) \in Nat /\ Len(s.output) \in Nat /\ Len(s.write_pipe) \in Nat
  BY <1>1
<1>3. InCapacity \in Nat /\ OutCapacity \in Nat
  BY CapacityType
<1>4. InFree(s) \in 0 .. InCapacity /\ OutFree(s) \in 0 .. OutCapacity
  BY FreeSizes
<1>5. InFree(s) \in Nat /\ OutFree(s) \in Nat /\ InFree(s) = InCapacity - Len(s.input)
  BY <1>3, <1>4 DEF InFree
<1> QED
  BY <1>1, <1>2, <1>3, <1>5 DEF RightEdge

\* The numbers of a host.
LEMMA HostNumbers ==
  ASSUME HostsTyped, NEW h \in Hosts
  PROVE  /\ Peer(h) \in Hosts /\ Peer(h) # h
         /\ written[h] \in Nat /\ got[h] \in Seq(Byte) /\ Len(got[h]) \in Nat
         /\ written[Peer(h)] \in Nat /\ StreamLength[h] \in Nat
         /\ SocketOK(sock[h]) /\ SocketOK(sock[Peer(h)]) /\ First \in Nat
<1>1. Peer(h) \in Hosts /\ Peer(h) # h
  BY TwoHosts
<1>2. /\ written[h] \in Nat /\ got[h] \in Seq(Byte) /\ written[Peer(h)] \in Nat
      /\ SocketOK(sock[h]) /\ SocketOK(sock[Peer(h)])
  BY <1>1 DEF HostsTyped
<1>3. StreamLength[h] \in Nat
  BY ConnectionAssumption
<1> QED
  BY <1>1, <1>2, <1>3 DEF First, ISS

\* The numbers of a segment.
LEMMA SegmentNumbers ==
  ASSUME NEW seg \in SegmentType
  PROVE  /\ seg.seq \in Nat /\ seg.ack_seq \in Nat /\ seg.window \in Nat
         /\ seg.data \in Seq(Byte) /\ Len(seg.data) \in Nat
         /\ seg.data # <<>> <=> Len(seg.data) > 0
<1>1. /\ seg.seq \in Nat /\ seg.ack_seq \in Nat /\ seg.window \in 0 .. InCapacity
      /\ seg.data \in Seq(Byte)
  BY DEF SegmentType
<1>2. Len(seg.data) \in Nat /\ (seg.data # <<>> <=> Len(seg.data) > 0)
  BY <1>1, EmptySeq
<1> QED
  BY <1>1, <1>2, CapacityType

\* What holds of a segment holds when its sender has gone on.
LEMMA SegmentStays ==
  ASSUME NEW seg \in SegmentType, NEW w \in Nat, NEW v \in Nat, w <= v,
         NEW p, NEW s, SocketOK(s), NEW t, SocketOK(t), Later(s, t),
         SegFor(seg, w, p, s), seg.fin /\ t.valid => t.snd_nxt = s.snd_nxt
  PROVE  SegFor(seg, v, p, t)
<1>1. /\ seg.seq \in Nat /\ seg.ack_seq \in Nat /\ seg.window \in Nat
      /\ Len(seg.data) \in Nat
  BY SegmentNumbers
<1>2. /\ s.rcv_nxt \in Nat /\ t.rcv_nxt \in Nat
      /\ RightEdge(s) \in Nat /\ RightEdge(t) \in Nat /\ First \in Nat
  BY SocketNumbers DEF First, ISS
<1>3. InStream(seg, w) => InStream(seg, v)
  BY <1>1, <1>2 DEF InStream
<1>4. t.valid => s.valid /\ s.rcv_nxt <= t.rcv_nxt /\ RightEdge(s) <= RightEdge(t)
  BY DEF Later
<1>5. seg.ack_seq <= s.rcv_nxt /\ t.valid => seg.ack_seq <= t.rcv_nxt
  BY <1>1, <1>2, <1>4
<1>6. seg.ack_seq + seg.window <= RightEdge(s) /\ t.valid
      => seg.ack_seq + seg.window <= RightEdge(t)
  BY <1>1, <1>2, <1>4
<1> QED
  BY <1>3, <1>4, <1>5, <1>6 DEF SegFor

\* The segments of an effect that goes on and sends more.
LEMMA SegsGrow ==
  ASSUME HostsTyped, NEW h \in Hosts, NEW e, EffectOK(e), NEW d, EffectOK(d),
         SegsOK(h, e), e.took <= d.took, Later(e.s, d.s),
         Plain(e.sent) \/ d.s.snd_nxt = e.s.snd_nxt,
         NEW new \in Seq(SegmentType), d.sent = e.sent \o new,
         \A i \in DOMAIN new :
             SegFor(new[i], written[h] + d.took, sock[Peer(h)], d.s)
  PROVE  SegsOK(h, d)
<1> DEFINE p == sock[Peer(h)]
           w == written[h] + e.took
           v == written[h] + d.took
<1>1. /\ e.sent \in Seq(SegmentType) /\ SocketOK(e.s) /\ SocketOK(d.s)
      /\ e.took \in Nat /\ d.took \in Nat /\ written[h] \in Nat
  BY DEF EffectOK, EffectType, HostsTyped
<1>2. w \in Nat /\ v \in Nat /\ w <= v
  BY <1>1
<1> HIDE DEF p, w, v
<1>3. ASSUME NEW i \in DOMAIN e.sent PROVE SegFor(e.sent[i], v, p, d.s)
  <2>1. SegFor(e.sent[i], w, p, e.s)
    BY <1>3 DEF SegsOK, w, p
  <2>2. e.sent[i] \in SegmentType
    BY <1>1, <1>3
  <2>3. e.sent[i].fin /\ d.s.valid => d.s.snd_nxt = e.s.snd_nxt
    BY <1>3 DEF Plain
  <2> QED
    BY <1>1, <1>2, <2>1, <2>2, <2>3, SegmentStays
<1>4. \A i \in DOMAIN d.sent :
         \/ i \in DOMAIN e.sent /\ d.sent[i] = e.sent[i]
         \/ i - Len(e.sent) \in DOMAIN new /\ d.sent[i] = new[i - Len(e.sent)]
  BY <1>1, ConcatElements
<1>5. \A i \in DOMAIN new : SegFor(new[i], v, p, d.s)
  BY DEF v, p
<1>6. \A i \in DOMAIN d.sent : SegFor(d.sent[i], v, p, d.s)
  BY <1>3, <1>4, <1>5
<1> QED
  BY <1>6 DEF SegsOK, v, p

\* The segments of an effect that goes on and sends nothing.
LEMMA SegsStay ==
  ASSUME HostsTyped, NEW h \in Hosts, NEW e, EffectOK(e), NEW d, EffectOK(d),
         SegsOK(h, e), e.took <= d.took, Later(e.s, d.s),
         Plain(e.sent) \/ d.s.snd_nxt = e.s.snd_nxt, d.sent = e.sent
  PROVE  SegsOK(h, d)
<1>1. e.sent \in Seq(SegmentType)
  BY DEF EffectOK, EffectType
<1>2. <<>> \in Seq(SegmentType) /\ e.sent \o <<>> = e.sent /\ DOMAIN <<>> = {}
  BY <1>1, ConcatNothing
<1>3. \A i \in DOMAIN <<>> : SegFor(<<>>[i], written[h] + d.took, sock[Peer(h)], d.s)
  BY <1>2
<1> QED
  BY <1>2, <1>3, SegsGrow

\* The segments of an effect that goes on and sends one.
LEMMA SegsAppend ==
  ASSUME HostsTyped, NEW h \in Hosts, NEW e, EffectOK(e), NEW d, EffectOK(d),
         SegsOK(h, e), e.took <= d.took, Later(e.s, d.s),
         Plain(e.sent) \/ d.s.snd_nxt = e.s.snd_nxt,
         NEW seg \in SegmentType, d.sent = Append(e.sent, seg),
         SegFor(seg, written[h] + d.took, sock[Peer(h)], d.s)
  PROVE  SegsOK(h, d)
<1>1. e.sent \in Seq(SegmentType)
  BY DEF EffectOK, EffectType
<1>2. <<seg>> \in Seq(SegmentType) /\ d.sent = e.sent \o <<seg>>
      /\ DOMAIN <<seg>> = {1} /\ <<seg>>[1] = seg
  BY <1>1, AppendedOne
<1>3. \A i \in DOMAIN <<seg>> :
         SegFor(<<seg>>[i], written[h] + d.took, sock[Peer(h)], d.s)
  BY <1>2
<1> QED
  BY <1>2, <1>3, SegsGrow

\* An acknowledgement of what the socket has taken, without a payload.
LEMMA AckFor ==
  ASSUME NEW seg, NEW s, SocketOK(s), NEW seq, NEW fin,
         ControlSegment(seg, s, fin, seq, s.rcv_nxt), fin => seq = s.snd_nxt,
         NEW t, t.rcv_nxt = s.rcv_nxt, t.input = s.input, t.snd_nxt = s.snd_nxt,
         NEW w, NEW p
  PROVE  SegFor(seg, w, p, t)
<1>1. /\ seg.data = <<>> /\ seg.ack_seq = t.rcv_nxt /\ seg.window = InFree(s)
      /\ seg.seq = seq /\ (seg.fin <=> fin)
  BY DEF ControlSegment
<1>2. RightEdge(t) = t.rcv_nxt + InFree(s)
  BY DEF RightEdge, InFree
<1>3. t.rcv_nxt <= t.rcv_nxt
  BY SocketNumbers
<1>4. t.rcv_nxt + InFree(s) <= t.rcv_nxt + InFree(s)
  BY SocketNumbers
<1> QED
  BY <1>1, <1>2, <1>3, <1>4 DEF SegFor

-----------------------------------------------------------------------------
\* The length of a sequence.
LEMMA LengthOK ==
  ASSUME NEW S, NEW q \in Seq(S)
  PROVE  Len(q) \in Nat
OBVIOUS

\* A sequence that is continued by the beginning of another one.
LEMMA Continued ==
  ASSUME NEW S, NEW q \in Seq(S), NEW p \in Seq(S), NEW n \in Nat, n <= Len(p)
  PROVE  LET r == q \o SubSeq(p, 1, n) IN
         /\ r \in Seq(S) /\ Len(r) = Len(q) + n
         /\ \A k \in 1 .. Len(q) + n :
                r[k] = IF k <= Len(q) THEN q[k] ELSE p[k - Len(q)]
<1> DEFINE t == SubSeq(p, 1, n)
<1>1. Len(q) \in Nat /\ Len(p) \in Nat
  OBVIOUS
<1>2. t \in Seq(S) /\ Len(t) = n
  BY <1>1, SubSeqOK
<1>3. \A k \in 1 .. n : t[k] = p[k]
  <2>1. ASSUME NEW k \in 1 .. n PROVE t[k] = p[1 + k - 1]
    BY <1>1, <1>2, SubSeqElement
  <2> QED
    BY <2>1
<1> HIDE DEF t
<1>4. /\ Len(q \o t) = Len(q) + Len(t) /\ q \o t \in Seq(S)
      /\ \A k \in 1 .. Len(q) + Len(t) :
             (q \o t)[k] = IF k <= Len(q) THEN q[k] ELSE t[k - Len(q)]
  BY <1>2, ConcatProperties, ConcatOK
<1> QED
  BY <1>1, <1>2, <1>3, <1>4 DEF t

\* A sequence without its first n elements.
LEMMA Rests ==
  ASSUME NEW S, NEW q \in Seq(S), NEW n \in Nat, n <= Len(q)
  PROVE  LET r == SubSeq(q, n + 1, Len(q)) IN
         /\ r \in Seq(S) /\ Len(r) = Len(q) - n
         /\ \A k \in 1 .. Len(q) - n : r[k] = q[n + k]
<1> DEFINE m == n + 1
           r == SubSeq(q, m, Len(q))
<1>1. Len(q) \in Nat /\ m \in Nat \ {0}
  OBVIOUS
<1>2. m = n + 1
  OBVIOUS
<1> HIDE DEF m
<1>3. r \in Seq(S) /\ Len(r) = Len(q) - n
  BY <1>1, <1>2, SubSeqOK
<1>4. ASSUME NEW k \in 1 .. Len(q) - n PROVE r[k] = q[n + k]
  <2>1. r[k] = q[m + k - 1]
    BY <1>1, <1>3, SubSeqElement
  <2>2. m + k - 1 = n + k
    BY <1>1, <1>2
  <2> QED
    BY <2>1, <2>2
<1> QED
  BY <1>3, <1>4 DEF m

\* A piece of the output buffer is a part of the stream, and fits.
LEMMA PieceFor ==
  ASSUME NEW seg \in SegmentType, NEW s, SocketOK(s), s.state = "ESTABLISHED",
         NEW w \in Nat, NEW length, SendSide(s, w, length),
         NEW p, SocketOK(p), Knows(s, p), PieceOf(seg, s), NEW t, SameIn(s, t)
  PROVE  SegFor(seg, w, p, t)
<1>1. seg.seq \in Nat /\ seg.ack_seq \in Nat /\ Len(seg.data) \in Nat
  BY SegmentNumbers
<1>2. /\ s.snd_una \in Nat /\ s.rcv_nxt \in Nat /\ s.peer_window_size \in Nat
      /\ Len(s.output) \in Nat /\ InFree(s) \in Nat /\ First \in Nat
      /\ RightEdge(p) \in Nat
  BY SocketNumbers DEF First, ISS
<1>3. /\ seg.ack /\ ~seg.fin /\ seg.ack_seq = s.rcv_nxt /\ seg.window = InFree(s)
  BY DEF PieceOf
<1>4. seg.ack_seq <= t.rcv_nxt /\ seg.ack_seq + seg.window <= RightEdge(t)
  <2>1. t.rcv_nxt = s.rcv_nxt /\ RightEdge(t) = s.rcv_nxt + InFree(s)
    BY DEF SameIn, RightEdge, InFree
  <2> QED
    BY <1>2, <1>3, <2>1
<1>5. ASSUME seg.data # <<>>
      PROVE  /\ InStream(seg, w)
             /\ p.valid => seg.seq + Len(seg.data) <= RightEdge(p)
  <2> DEFINE a == seg.seq
             b == Len(seg.data)
             u == s.snd_una
             o == Len(s.output)
             v == s.peer_window_size
             r == RightEdge(p)
             n == AtMost(o, v)
  <2>1. /\ a \in Nat /\ b \in Nat /\ u \in Nat /\ o \in Nat /\ v \in Nat
        /\ r \in Nat /\ First \in Nat
    BY <1>1, <1>2
  <2>2. n \in Nat /\ n <= o /\ n <= v
    BY <2>1 DEF AtMost
  <2>3. u <= a /\ a + b <= u + n
    BY <1>5 DEF PieceOf, SendEnd
  <2>4. First <= u /\ u + o = First + w
    BY DEF SendSide
  <2>5. p.valid => u + v <= r
    BY DEF Knows
  <2>6. \A k \in 1 .. b : seg.data[k] = s.output[a - u + k]
    BY <1>5 DEF PieceOf
  <2>7. \A k \in 1 .. o : s.output[k] = u - First + k
    BY DEF SendSide
  <2> HIDE DEF a, b, u, o, v, r, n
  <2>8. First <= a /\ a + b <= First + w /\ (p.valid => a + b <= r)
    BY <2>1, <2>2, <2>3, <2>4, <2>5
  <2>9. ASSUME NEW k \in 1 .. b PROVE seg.data[k] = a - First + k
    <3>1. k \in Nat /\ 1 <= k /\ k <= b
      BY <2>1, <2>9
    <3> DEFINE m == a - u + k
    <3>2. m \in 1 .. o /\ u - First + m = a - First + k
      BY <2>1, <2>2, <2>3, <3>1
    <3>3. seg.data[k] = s.output[m]
      BY <2>6, <2>9
    <3> HIDE DEF m
    <3>4. s.output[m] = u - First + m
      BY <2>7, <3>2
    <3> QED
      BY <3>2, <3>3, <3>4
  <2> QED
    BY <2>8, <2>9 DEF InStream, a, b, r
<1> QED
  BY <1>3, <1>4, <1>5 DEF SegFor

\* A socket that has closed stays so while a segment is handled.
LEMMA Closed ==
  ASSUME NEW e, NEW c, NEW f \in FinWait, LiveOK(e, c, f)
  PROVE  e.s.fin_state \in FinWait
BY DEF LiveOK, CallOK, Fins, Live, FinSent, FinWait, FinHeard

\* The types in a flow.
LEMMA FlowNumbers ==
  ASSUME HostsTyped, NEW h \in Hosts, NEW e, NEW c, Flow(h, e, c)
  PROVE  /\ EffectOK(e) /\ SocketOK(e.s) /\ e.s.state = "ESTABLISHED" /\ e.s.valid
         /\ e.took \in Nat /\ e.gave \in Seq(Byte) /\ e.sent \in Seq(SegmentType)
         /\ e.rep \in Seq(Int)
         /\ written[h] + e.took \in Nat /\ got[h] \o e.gave \in Seq(Byte)
         /\ Len(got[h] \o e.gave) \in Nat
<1>1. EffectOK(e) /\ e.s.state = "ESTABLISHED" /\ e.s.valid
  BY DEF Flow, LiveOK, CallOK, Live
<1>2. /\ SocketOK(e.s) /\ e.took \in Nat /\ e.gave \in Seq(Byte)
      /\ e.sent \in Seq(SegmentType) /\ e.rep \in Seq(Int)
  BY <1>1 DEF EffectOK, EffectType
<1>3. written[h] \in Nat /\ got[h] \in Seq(Byte)
  BY HostNumbers
<1>4. written[h] + e.took \in Nat
  BY <1>2, <1>3
<1>5. got[h] \o e.gave \in Seq(Byte)
  BY <1>2, <1>3, ConcatOK
<1>6. Len(got[h] \o e.gave) \in Nat
  BY <1>5, LengthOK
<1> QED
  BY <1>1, <1>2, <1>4, <1>5, <1>6

\* Later is transitive, and holds when the receiving side is untouched.
LEMMA LaterIs ==
  ASSUME NEW s, SocketOK(s), NEW t, SocketOK(t), NEW u, SocketOK(u), t.valid
  PROVE  /\ Later(s, t) /\ Later(t, u) => Later(s, u)
         /\ SameIn(t, u) => Later(t, u)
<1>1. /\ s.rcv_nxt \in Nat /\ t.rcv_nxt \in Nat /\ u.rcv_nxt \in Nat
      /\ RightEdge(s) \in Nat /\ RightEdge(t) \in Nat /\ RightEdge(u) \in Nat
  BY SocketNumbers
<1>2. SameIn(t, u) => u.rcv_nxt = t.rcv_nxt /\ RightEdge(u) = RightEdge(t)
  BY DEF SameIn, RightEdge, InFree
<1>3. SameIn(t, u) => Later(t, u)
  BY <1>1, <1>2 DEF Later
<1>4. Later(s, t) /\ Later(t, u) => Later(s, u)
  BY <1>1 DEF Later
<1> QED
  BY <1>3, <1>4

\* A routine that sends pieces of the output buffer or nothing, and changes
\* no more than the numbers of the sending side.
LEMMA FlowGoesOn ==
  ASSUME HostsTyped, NEW h \in Hosts, NEW e, NEW c, Flow(h, e, c),
         NEW d, LiveOK(d, c, sock[h].fin_state),
         SameIn(e.s, d.s), d.gave = e.gave,
         SendSide(d.s, written[h] + d.took, StreamLength[h]),
         Knows(d.s, sock[Peer(h)]), SegsOK(h, d),
         d.took # 0 => c = "write",
         sock[h].fin_state \in FinWait => d.s.snd_nxt = e.s.snd_nxt
  PROVE  Flow(h, d, c)
<1>1. SocketOK(e.s) /\ SocketOK(d.s) /\ e.s.valid /\ SocketOK(sock[h])
  BY FlowNumbers, HostNumbers DEF LiveOK, CallOK, EffectOK
<1>2. Later(sock[h], d.s)
  BY <1>1, LaterIs DEF Flow
<1>3. ReceiveSide(d.s, got[h] \o d.gave, written[Peer(h)])
  BY DEF Flow, ReceiveSide, SameIn
<1> QED
  BY <1>2, <1>3 DEF Flow

\* processSend
LEMMA ProcessSendFlow ==
  ASSUME HostsTyped, NEW h \in Hosts, NEW e, NEW c, Flow(h, e, c), Plain(e.sent)
  PROVE  Flow(h, ProcessSend(e), c) /\ Plain(ProcessSend(e).sent)
<1> DEFINE d == ProcessSend(e)
           p == sock[Peer(h)]
           w == written[h] + e.took
<1>1. EffectOK(e) /\ SocketOK(e.s) /\ e.s.state = "ESTABLISHED" /\ e.s.valid
      /\ e.sent \in Seq(SegmentType) /\ w \in Nat /\ SocketOK(p) /\ e.took \in Nat
  BY FlowNumbers, HostNumbers
<1>2. LiveOK(d, c, sock[h].fin_state) /\ EffectOK(d)
  BY <1>1, ProcessSendCalls, ProcessSendOK DEF Flow
<1>3. /\ SameCall(e.s, d.s) /\ SameIn(e.s, d.s) /\ SameOut(e.s, d.s)
      /\ SameTalk(e, d)
      /\ \/ d.sent = e.sent /\ d.s.snd_nxt = e.s.snd_nxt
         \/ /\ e.s.snd_nxt < SendEnd(e.s) /\ d.s.snd_nxt = SendEnd(e.s)
            /\ \E new \in Seq(SegmentType) :
                   /\ d.sent = e.sent \o new
                   /\ \A i \in DOMAIN new : PieceOf(new[i], e.s)
  BY <1>1, ProcessSendIs
<1>4. SendSide(e.s, w, StreamLength[h]) /\ Knows(e.s, p) /\ SegsOK(h, e)
  BY DEF Flow
<1> HIDE DEF d
<1>5. SocketOK(d.s)
  BY <1>2 DEF EffectOK
<1>6. /\ e.s.snd_una \in Nat /\ e.s.snd_nxt \in Nat /\ e.s.peer_window_size \in Nat
      /\ Len(e.s.output) \in Nat /\ First \in Nat /\ e.s.snd_una <= e.s.snd_nxt
  <2>1. /\ e.s.snd_una \in Nat /\ e.s.snd_nxt \in Nat /\ e.s.peer_window_size \in Nat
        /\ Len(e.s.output) \in Nat /\ e.s.snd_una <= e.s.snd_nxt
    BY ONLY <1>1, SocketNumbers, Zenon
  <2>2. First \in Nat
    BY DEF First, ISS
  <2> QED
    BY ONLY <2>1, <2>2
<1>7. d.s.snd_nxt = e.s.snd_nxt
      \/ (d.s.snd_nxt = SendEnd(e.s) /\ SendEnd(e.s) <= e.s.snd_una + Len(e.s.output)
          /\ e.s.snd_nxt < SendEnd(e.s) /\ SendEnd(e.s) \in Nat)
  <2> DEFINE n == AtMost(Len(e.s.output), e.s.peer_window_size)
  <2>1. n \in Nat /\ n <= Len(e.s.output) /\ SendEnd(e.s) = e.s.snd_una + n
    BY <1>6 DEF AtMost, SendEnd
  <2> HIDE DEF n
  <2>2. SendEnd(e.s) <= e.s.snd_una + Len(e.s.output) /\ SendEnd(e.s) \in Nat
    BY <1>6, <2>1
  <2> QED
    BY <1>3, <2>2
<1>8. d.s.snd_nxt <= d.s.snd_una + Len(d.s.output)
  <2>1. d.s.snd_una = e.s.snd_una /\ d.s.output = e.s.output
    BY <1>3 DEF SameOut
  <2>2. e.s.snd_nxt <= e.s.snd_una + Len(e.s.output)
    BY <1>4 DEF SendSide
  <2> QED
    BY <1>7, <2>1, <2>2
<1>9. SendSide(d.s, written[h] + d.took, StreamLength[h])
  BY <1>3, <1>4, <1>8 DEF SendSide, SameOut, SameTalk, SameCall
<1>10. Knows(d.s, p)
  BY <1>1, <1>3, <1>4 DEF Knows, SameOut, SameCall
<1>11. e.took <= d.took /\ Later(e.s, d.s) /\ d.took = e.took
  <2>1. d.took = e.took
    BY <1>3 DEF SameTalk
  <2>2. Later(e.s, d.s)
    BY <1>1, <1>3, <1>5, LaterIs
  <2> QED
    BY <1>1, <2>1, <2>2
<1>12. SegsOK(h, d) /\ Plain(d.sent)
  <2>1. CASE d.sent = e.sent
    BY <1>1, <1>2, <1>4, <1>11, <2>1, SegsStay
  <2>2. CASE d.sent # e.sent
    <3>1. PICK new \in Seq(SegmentType) :
              /\ d.sent = e.sent \o new
              /\ \A i \in DOMAIN new : PieceOf(new[i], e.s)
      BY <1>3, <2>2
    <3>2. ASSUME NEW i \in DOMAIN new
          PROVE  SegFor(new[i], written[h] + d.took, p, d.s)
      <4>1. new[i] \in SegmentType /\ PieceOf(new[i], e.s)
        BY <3>1
      <4>2. SegFor(new[i], w, p, d.s)
        BY <1>1, <1>3, <1>4, <4>1, PieceFor
      <4> QED
        BY <1>11, <4>2
    <3>3. SegsOK(h, d)
      BY <1>1, <1>2, <1>4, <1>11, <3>1, <3>2, SegsGrow
    <3>4. \A i \in DOMAIN d.sent :
            \/ i \in DOMAIN e.sent /\ d.sent[i] = e.sent[i]
            \/ \E j \in DOMAIN new : d.sent[i] = new[j]
      BY <1>1, <3>1, ConcatElements
    <3>5. Plain(d.sent)
      BY <3>1, <3>4 DEF Plain, PieceOf
    <3> QED
      BY <3>3, <3>5
  <2> QED
    BY <2>1, <2>2
<1>13. sock[h].fin_state \in FinWait => d.s.snd_nxt = e.s.snd_nxt
  <2>1. SUFFICES ASSUME sock[h].fin_state \in FinWait PROVE d.s.snd_nxt = e.s.snd_nxt
    OBVIOUS
  <2>2. e.s.fin_state \in FinWait
    BY <2>1, Closed DEF Flow
  <2>3. e.s.output = <<>>
    BY <1>4, <2>2 DEF SendSide
  <2>4. Len(e.s.output) = 0
    BY <2>3
  <2> QED
    BY <1>6, <1>7, <2>4
<1>14. Flow(h, d, c)
  <2>1. d.gave = e.gave /\ (d.took # 0 => c = "write")
    BY <1>3 DEF SameTalk, Flow
  <2> QED
    BY <1>2, <1>3, <1>9, <1>10, <1>12, <1>13, <2>1, FlowGoesOn
<1> QED
  BY <1>12, <1>14 DEF d

\* A pending write is the call that is being answered.
LEMMA WriteIsCall ==
  ASSUME NEW e, NEW c, NEW f, LiveOK(e, c, f), e.s.write_flag
  PROVE  c = "write" /\ e.s.fin_state \notin FinSent
BY DEF LiveOK, CallOK, Marks, Current

\* A pending read likewise.
LEMMA ReadIsCall ==
  ASSUME NEW e, NEW c, NEW f, LiveOK(e, c, f), e.s.read_flag
  PROVE  c = "read"
BY DEF LiveOK, CallOK, Marks, Current

\* processWrite
LEMMA ProcessWriteFlow ==
  ASSUME HostsTyped, NEW h \in Hosts, NEW e, NEW c, Flow(h, e, c), e.s.write_flag
  PROVE  Flow(h, ProcessWrite(e), c)
<1> DEFINE d == ProcessWrite(e)
           n == AtMost(Len(e.s.write_pipe), OutFree(e.s))
           u == e.s.snd_una
           o == Len(e.s.output)
           b == Len(e.s.write_pipe)
           w == written[h] + e.took
           L == StreamLength[h]
<1>1. EffectOK(e) /\ SocketOK(e.s) /\ w \in Nat /\ e.took \in Nat /\ written[h] \in Nat
      /\ L \in Nat
  BY FlowNumbers, HostNumbers
<1>2. LiveOK(e, c, sock[h].fin_state) /\ SendSide(e.s, w, L) /\ SegsOK(h, e)
      /\ Knows(e.s, sock[Peer(h)])
  BY DEF Flow
<1>3. c = "write" /\ e.s.fin_state \notin FinSent
  BY <1>2, WriteIsCall
<1>4. LiveOK(d, c, sock[h].fin_state) /\ EffectOK(d)
  BY <1>1, <1>2, ProcessWriteCalls, ProcessWriteOK
<1>5. /\ d.s.valid = e.s.valid /\ d.s.state = e.s.state /\ d.s.fin_state = e.s.fin_state
      /\ d.s.write_pipe = <<>> /\ d.s.output = e.s.output \o SubSeq(e.s.write_pipe, 1, n)
      /\ d.s.snd_una = u /\ d.s.snd_nxt = e.s.snd_nxt
      /\ d.s.peer_window_size = e.s.peer_window_size
      /\ SameIn(e.s, d.s) /\ d.sent = e.sent /\ d.took = e.took + n /\ d.gave = e.gave
  BY <1>1, ProcessWriteIs
<1>6. /\ u \in Nat /\ e.s.snd_nxt \in Nat /\ o \in Nat /\ b \in Nat
      /\ OutFree(e.s) \in Nat /\ First \in Nat
      /\ e.s.output \in Seq(Byte) /\ e.s.write_pipe \in Seq(Byte)
  BY <1>1, SocketNumbers DEF First, ISS
<1>7. n \in Nat /\ n <= b
  <2> DEFINE r == OutFree(e.s)
  <2>1. r \in Nat /\ b \in Nat /\ n = AtMost(b, r)
    BY <1>6
  <2> HIDE DEF r, b, n
  <2>2. AtMost(b, r) \in Nat /\ AtMost(b, r) <= b
    BY <2>1 DEF AtMost
  <2> QED
    BY <2>1, <2>2
<1> DEFINE out == e.s.output \o SubSeq(e.s.write_pipe, 1, n)
<1> HIDE DEF n
<1>8. /\ out \in Seq(Byte) /\ Len(out) = o + n
      /\ \A k \in 1 .. o + n :
             out[k] = IF k <= o THEN e.s.output[k] ELSE e.s.write_pipe[k - o]
  <2> DEFINE q == e.s.output
             p == e.s.write_pipe
  <2>1. q \in Seq(Byte) /\ p \in Seq(Byte) /\ n \in Nat /\ n <= Len(p)
    BY <1>6, <1>7
  <2> HIDE DEF q, p
  <2>2. /\ q \o SubSeq(p, 1, n) \in Seq(Byte) /\ Len(q \o SubSeq(p, 1, n)) = Len(q) + n
        /\ \A k \in 1 .. Len(q) + n :
               (q \o SubSeq(p, 1, n))[k] = IF k <= Len(q) THEN q[k] ELSE p[k - Len(q)]
    BY <2>1, Continued
  <2> QED
    BY <2>2 DEF q, p
<1>9. /\ First <= u /\ u + o = First + w /\ e.s.snd_nxt <= u + o
      /\ \A k \in 1 .. o : e.s.output[k] = u - First + k
      /\ \A k \in 1 .. b : e.s.write_pipe[k] = w + k
      /\ w + b <= L
  BY <1>2 DEF SendSide
<1>10. d.s.output = out
  BY <1>5
<1> HIDE DEF out, u, o, b, L, w
<1>11. \A k \in 1 .. o + n : out[k] = u - First + k
  <2> SUFFICES ASSUME NEW k \in 1 .. o + n PROVE out[k] = u - First + k
    OBVIOUS
  <2>1. k \in Nat /\ 1 <= k /\ k <= o + n
    BY <1>6, <1>7
  <2>2. CASE k <= o
    <3>1. k \in 1 .. o
      BY <1>6, <2>1, <2>2
    <3> QED
      BY <1>8, <1>9, <2>2, <3>1
  <2>3. CASE k > o
    <3> DEFINE m == k - o
    <3>1. m \in 1 .. b /\ k = o + m /\ ~(k <= o) /\ m \in Nat
      BY <1>6, <1>7, <2>1, <2>3
    <3>5. out[k] = e.s.write_pipe[k - o]
      BY <1>8, <3>1
    <3>2. out[k] = e.s.write_pipe[m]
      BY <3>5
    <3> HIDE DEF m
    <3>3. e.s.write_pipe[m] = w + m
      BY <1>9, <3>1
    <3>4. w + m = u - First + k
      BY <1>1, <1>6, <1>9, <3>1
    <3> QED
      BY <3>2, <3>3, <3>4
  <2> QED
    BY <1>6, <2>1, <2>2, <2>3
<1> DEFINE v == written[h] + d.took
<1>12. v = w + n /\ e.took <= d.took /\ d.took \in Nat
  <2> DEFINE t == e.took
             x == d.took
             y == written[h]
  <2>1. t \in Nat /\ y \in Nat /\ x = t + n /\ w = y + t /\ v = y + x
    BY <1>1, <1>5 DEF w
  <2> HIDE DEF t, x, y, v, w, d
  <2>2. v = w + n /\ t <= x /\ x \in Nat
    BY <1>7, <2>1
  <2> QED
    BY <2>2 DEF t, x
<1> HIDE DEF d, v, w
<1>13. SendSide(d.s, v, L)
  <2>1. First <= u /\ u + Len(out) = First + v /\ e.s.snd_nxt <= u + Len(out)
    <3> DEFINE l == Len(out)
               x == e.s.snd_nxt
    <3>1. /\ l = o + n /\ x \in Nat /\ x <= u + o /\ u + o = First + w /\ First <= u
          /\ u \in Nat /\ o \in Nat /\ n \in Nat /\ w \in Nat /\ First \in Nat
          /\ v = w + n
      BY <1>1, <1>6, <1>7, <1>8, <1>9, <1>12
    <3> HIDE DEF l, x
    <3>2. First <= u /\ u + l = First + v /\ x <= u + l
      BY <3>1
    <3> QED
      BY <3>2 DEF l, x
  <2>2. v + Len(<<>>) <= L /\ Len(<<>>) = 0
    <3>1. v <= L /\ v \in Nat
      BY <1>1, <1>6, <1>7, <1>9, <1>12
    <3>2. Len(<<>>) = 0
      OBVIOUS
    <3> QED
      BY <3>1, <3>2
  <2>3. \A k \in 1 .. Len(d.s.write_pipe) : d.s.write_pipe[k] = v + k
    BY <1>5, <2>2
  <2>4. d.s.fin_state \notin FinWait
    BY <1>3, <1>5 DEF FinSent, FinWait
  <2>5. \A k \in 1 .. Len(out) : out[k] = u - First + k
    BY <1>8, <1>11
  <2> QED
    BY <1>5, <1>10, <2>1, <2>2, <2>3, <2>4, <2>5 DEF SendSide
<1>14. SocketOK(d.s) /\ e.s.valid
  BY <1>4, FlowNumbers DEF EffectOK
<1>15. SegsOK(h, d)
  BY <1>1, <1>2, <1>4, <1>5, <1>12, <1>14, LaterIs, SegsStay
<1>16. Knows(d.s, sock[Peer(h)])
  BY <1>2, <1>5 DEF Knows, u
<1>17. Flow(h, d, c)
  BY <1>3, <1>4, <1>5, <1>13, <1>15, <1>16, FlowGoesOn DEF v, L
<1> QED
  BY <1>17 DEF d

\* The end of processWriteSend
LEMMA ProcessFinFlow ==
  ASSUME HostsTyped, NEW h \in Hosts, NEW e, NEW c, Flow(h, e, c)
  PROVE  Flow(h, ProcessFin(e), c)
<1> DEFINE d == ProcessFin(e)
<1>1. EffectOK(e) /\ SocketOK(e.s) /\ e.s.valid /\ e.sent \in Seq(SegmentType)
      /\ e.took \in Nat
  BY FlowNumbers
<1>2. CASE ~(e.s.output = <<>> /\ e.s.fin_tag)
  BY <1>1, <1>2, ProcessFinIs
<1>3. CASE e.s.output = <<>> /\ e.s.fin_tag
  <2>1. LiveOK(d, c, sock[h].fin_state) /\ EffectOK(d)
    BY <1>1, ProcessFinCalls, ProcessFinOK DEF Flow
  <2>2. /\ d.s.valid = e.s.valid /\ d.s.state = e.s.state /\ d.s.snd_nxt = e.s.snd_nxt
        /\ SameIn(e.s, d.s) /\ SameOut(e.s, d.s)
        /\ d.took = e.took /\ d.gave = e.gave
        /\ \E seg : /\ d.sent = Append(e.sent, seg)
                    /\ ControlSegment(seg, e.s, TRUE, e.s.snd_nxt, e.s.rcv_nxt)
    BY <1>1, <1>3, ProcessFinIs
  <2> HIDE DEF d
  <2>3. PICK seg : /\ d.sent = Append(e.sent, seg)
                   /\ ControlSegment(seg, e.s, TRUE, e.s.snd_nxt, e.s.rcv_nxt)
    BY <2>2
  <2>4. seg \in SegmentType
    BY <2>3 DEF ControlSegment
  <2>5. d.s.rcv_nxt = e.s.rcv_nxt /\ d.s.input = e.s.input
    BY <2>2 DEF SameIn
  <2>6. SegFor(seg, written[h] + d.took, sock[Peer(h)], d.s)
    BY <1>1, <2>2, <2>3, <2>5, AckFor
  <2>7. SocketOK(d.s) /\ e.took <= d.took
    BY <1>1, <2>1, <2>2 DEF EffectOK
  <2>8. Later(e.s, d.s)
    BY <1>1, <2>2, <2>7, LaterIs
  <2>9. SegsOK(h, d)
    BY <1>1, <2>1, <2>2, <2>3, <2>4, <2>6, <2>7, <2>8, SegsAppend DEF Flow
  <2>10. SendSide(d.s, written[h] + d.took, StreamLength[h])
    BY <1>3, <2>2 DEF Flow, SendSide, SameOut
  <2>11. Knows(d.s, sock[Peer(h)])
    BY <2>2 DEF Flow, Knows, SameOut
  <2>12. d.took # 0 => c = "write"
    BY <2>2 DEF Flow
  <2>13. Flow(h, d, c)
    BY <2>1, <2>2, <2>9, <2>10, <2>11, <2>12, FlowGoesOn
  <2> QED
    BY <2>13 DEF d
<1> QED
  BY <1>2, <1>3

\* processWriteSend
LEMMA ProcessWriteSendFlow ==
  ASSUME HostsTyped, NEW h \in Hosts, NEW e, NEW c, Flow(h, e, c), Plain(e.sent)
  PROVE  Flow(h, ProcessWriteSend(e), c)
<1> DEFINE sent == ProcessSend(e)
           wrote == ProcessWrite(sent)
           more == ProcessSend(wrote)
<1>1. Flow(h, sent, c) /\ Plain(sent.sent)
  BY ProcessSendFlow
<1>2. \/ ProcessWriteSend(e) = ProcessFin(sent)
      \/ sent.s.write_flag /\ ProcessWriteSend(e) = ProcessFin(more)
  BY DEF ProcessWriteSend
<1>3. wrote.sent = sent.sent
  <2>1. EffectOK(sent)
    BY <1>1, FlowNumbers
  <2> HIDE DEF sent
  <2> QED
    BY <2>1, ProcessWriteIs
<1> HIDE DEF sent
<1>4. sent.s.write_flag => Flow(h, wrote, c) /\ Plain(wrote.sent)
  BY <1>1, <1>3, ProcessWriteFlow
<1> HIDE DEF wrote
<1>5. sent.s.write_flag => Flow(h, more, c)
  BY <1>4, ProcessSendFlow
<1> HIDE DEF more
<1> QED
  BY <1>1, <1>2, <1>5, ProcessFinFlow

\* A routine that changes no more than the receiving side.
LEMMA FlowTakes ==
  ASSUME HostsTyped, NEW h \in Hosts, NEW e, NEW c, Flow(h, e, c),
         NEW d, LiveOK(d, c, sock[h].fin_state),
         SameOut(e.s, d.s), d.s.fin_state = e.s.fin_state,
         d.s.snd_nxt = e.s.snd_nxt, d.took = e.took,
         ReceiveSide(d.s, got[h] \o d.gave, written[Peer(h)]),
         Later(e.s, d.s), SegsOK(h, d), d.gave # <<>> => c = "read"
  PROVE  Flow(h, d, c)
<1>1. SocketOK(e.s) /\ SocketOK(d.s) /\ e.s.valid /\ SocketOK(sock[h])
  BY FlowNumbers, HostNumbers DEF LiveOK, CallOK, EffectOK
<1>2. Later(sock[h], d.s)
  BY <1>1, LaterIs DEF Flow
<1>3. SendSide(d.s, written[h] + d.took, StreamLength[h])
  BY DEF Flow, SendSide, SameOut
<1>4. Knows(d.s, sock[Peer(h)])
  <2>1. e.s.state = "ESTABLISHED"
    BY FlowNumbers
  <2> QED
    BY <2>1 DEF Flow, Knows, SameOut
<1> QED
  BY <1>2, <1>3, <1>4 DEF Flow

\* The receiving side when n bytes have been read.
LEMMA ReadSide ==
  ASSUME NEW s, SocketOK(s), NEW t, NEW g \in Seq(Byte), NEW w \in Nat,
         ReceiveSide(s, g, w), NEW n \in Nat, n <= Len(s.input),
         t.rcv_nxt = s.rcv_nxt, t.input = SubSeq(s.input, n + 1, Len(s.input))
  PROVE  /\ ReceiveSide(t, g \o SubSeq(s.input, 1, n), w)
         /\ s.rcv_nxt <= t.rcv_nxt /\ RightEdge(s) <= RightEdge(t)
<1> DEFINE q == s.input
           rest == SubSeq(q, n + 1, Len(q))
           more == g \o SubSeq(q, 1, n)
           l == Len(g)
           i == Len(q)
           x == s.rcv_nxt
<1>1. q \in Seq(Byte) /\ x \in Nat /\ i \in Nat /\ l \in Nat
  BY SocketNumbers
<1>2. /\ x = First + l + i /\ x <= First + w /\ \A k \in 1 .. l : g[k] = k
      /\ \A k \in 1 .. i : q[k] = l + k
  BY DEF ReceiveSide
<1>3. First \in Nat /\ InCapacity \in Nat
  BY SocketNumbers DEF First, ISS
<1>4. t.rcv_nxt = x /\ t.input = rest /\ n <= i
  OBVIOUS
<1>5. RightEdge(s) = x + (InCapacity - i) /\ RightEdge(t) = x + (InCapacity - Len(rest))
  BY <1>4 DEF RightEdge, InFree
<1>6. Len(rest) = i - n /\ \A k \in 1 .. i - n : rest[k] = q[n + k]
  <2>1. n <= Len(q)
    BY <1>4
  <2> HIDE DEF q
  <2> QED
    BY <1>1, <2>1, Rests
<1>7. /\ Len(more) = l + n
      /\ \A k \in 1 .. l + n : more[k] = IF k <= l THEN g[k] ELSE q[k - l]
  <2>1. n <= Len(q)
    BY <1>4
  <2> HIDE DEF q
  <2> QED
    BY <1>1, <2>1, Continued
<1> HIDE DEF q, rest, more, l, i, x
<1>8. \A k \in 1 .. l + n : more[k] = k
  <2> SUFFICES ASSUME NEW k \in 1 .. l + n PROVE more[k] = k
    OBVIOUS
  <2>1. k \in Nat /\ 1 <= k /\ k <= l + n
    BY <1>1
  <2>2. CASE k <= l
    <3>1. k \in 1 .. l
      BY <1>1, <2>1, <2>2
    <3> QED
      BY <1>2, <1>7, <2>2, <3>1
  <2>3. CASE k > l
    <3> DEFINE m == k - l
    <3>1. m \in 1 .. i /\ k = l + m /\ ~(k <= l)
      BY <1>1, <1>4, <2>1, <2>3
    <3>2. more[k] = q[k - l]
      BY <1>7, <3>1
    <3>3. more[k] = q[m]
      BY <3>2
    <3> HIDE DEF m
    <3> QED
      BY <1>2, <3>1, <3>3
  <2> QED
    BY <1>1, <2>1, <2>2, <2>3
<1>9. \A k \in 1 .. i - n : rest[k] = (l + n) + k
  <2> SUFFICES ASSUME NEW k \in 1 .. i - n PROVE rest[k] = (l + n) + k
    OBVIOUS
  <2>1. k \in Nat /\ 1 <= k /\ k <= i - n
    BY <1>1
  <2> DEFINE m == n + k
  <2>2. m \in 1 .. i /\ l + m = (l + n) + k
    BY <1>1, <2>1
  <2>3. rest[k] = q[m]
    BY <1>6
  <2> HIDE DEF m
  <2> QED
    BY <1>2, <2>2, <2>3
<1>10. x = First + (l + n) + (i - n)
  BY <1>1, <1>2, <1>3
<1>11. ReceiveSide(t, more, w)
  BY <1>2, <1>4, <1>6, <1>7, <1>8, <1>9, <1>10 DEF ReceiveSide
<1>12. RightEdge(s) <= RightEdge(t)
  BY <1>1, <1>3, <1>4, <1>5, <1>6
<1> QED
  BY <1>1, <1>4, <1>11, <1>12 DEF more, q, x

\* What processRead does to the socket.
ReadsSome(e, d) ==
    /\ d.s.fin_state = e.s.fin_state /\ d.s.valid = e.s.valid
    /\ SameOut(e.s, d.s) /\ d.s.snd_nxt = e.s.snd_nxt
    /\ d.s.rcv_nxt = e.s.rcv_nxt /\ d.took = e.took
    /\ \E a : /\ d.sent = Append(e.sent, a)
              /\ ControlSegment(a, d.s, FALSE, d.s.snd_nxt, d.s.rcv_nxt)
    /\ \/ d.s.input = e.s.input /\ d.gave = e.gave
       \/ /\ e.s.read_flag
          /\ \E n \in Nat : /\ n <= Len(e.s.input)
                            /\ d.s.input = SubSeq(e.s.input, n + 1, Len(e.s.input))
                            /\ d.gave = e.gave \o SubSeq(e.s.input, 1, n)

\* processRead
LEMMA ProcessReadIs ==
  ASSUME NEW e, EffectOK(e)
  PROVE  ReadsSome(e, ProcessRead(e))
<1> DEFINE r == ProcessReadWithoutAck(e)
           d == ProcessRead(e)
           n == AtMost(e.s.read_len, Len(e.s.input))
<1>1. EffectOK(r) /\ r.s.rcv_nxt \in Nat /\ r.s.snd_nxt \in Nat
      /\ r.s \in SocketType /\ Len(r.s.input) <= InCapacity /\ r \in EffectType
  BY ProcessReadWithoutAckOK DEF EffectOK, SocketOK, SocketType
<1>2. n \in Nat /\ n <= Len(e.s.input)
  <2> DEFINE a == e.s.read_len
             b == Len(e.s.input)
  <2>1. a \in Nat /\ b \in Nat
    BY DEF EffectOK, SocketOK, SocketType
  <2> HIDE DEF a, b
  <2>2. AtMost(a, b) \in Nat /\ AtMost(a, b) <= b
    BY <2>1 DEF AtMost
  <2> QED
    BY <2>2 DEF a, b
<1>3. \/ r = e
      \/ /\ r.s.valid = e.s.valid /\ r.s.fin_state = e.s.fin_state
         /\ e.s.read_flag /\ SameOut(e.s, r.s)
         /\ r.s.snd_nxt = e.s.snd_nxt /\ r.s.rcv_nxt = e.s.rcv_nxt
         /\ r.s.input = SubSeq(e.s.input, n + 1, Len(e.s.input))
         /\ r.gave = e.gave \o SubSeq(e.s.input, 1, n)
         /\ r.sent = e.sent /\ r.took = e.took
  BY ProcessReadWithoutAckIs
<1>4. d = Control(r, {"ack"}, r.s.snd_nxt, r.s.rcv_nxt)
  BY DEF ProcessRead
<1> HIDE DEF r, d, n
<1> DEFINE a == Segment(r.s, {"ack"}, r.s.snd_nxt, r.s.rcv_nxt, <<>>)
<1>5. d.s = r.s /\ SameTalk(r, d) /\ d.sent = Append(r.sent, a)
  BY <1>1, <1>4, ControlIs
<1>6. ControlSegment(a, r.s, FALSE, r.s.snd_nxt, r.s.rcv_nxt)
  BY <1>1, ControlSegments
<1> HIDE DEF a
<1>7. /\ d.s = r.s /\ d.gave = r.gave /\ d.took = r.took
      /\ \E x : /\ d.sent = Append(r.sent, x)
                /\ ControlSegment(x, d.s, FALSE, d.s.snd_nxt, d.s.rcv_nxt)
  BY <1>5, <1>6 DEF SameTalk
<1>8. CASE r = e
  BY <1>7, <1>8 DEF ReadsSome, SameOut, d
<1>9. CASE r # e
  BY <1>2, <1>3, <1>7, <1>9 DEF ReadsSome, d
<1> QED
  BY <1>8, <1>9

\* processRead
LEMMA ProcessReadFlow ==
  ASSUME HostsTyped, NEW h \in Hosts, NEW e, NEW c, Flow(h, e, c)
  PROVE  Flow(h, ProcessRead(e), c)
<1> DEFINE d == ProcessRead(e)
           g == got[h] \o e.gave
           w == written[Peer(h)]
<1>1. /\ EffectOK(e) /\ SocketOK(e.s) /\ e.s.valid /\ e.sent \in Seq(SegmentType)
      /\ e.took \in Nat /\ e.gave \in Seq(Byte) /\ got[h] \in Seq(Byte)
      /\ g \in Seq(Byte) /\ w \in Nat /\ e.s.input \in Seq(Byte)
  BY FlowNumbers, HostNumbers, SocketNumbers
<1>2. LiveOK(e, c, sock[h].fin_state) /\ ReceiveSide(e.s, g, w) /\ SegsOK(h, e)
      /\ (e.gave # <<>> => c = "read")
  BY DEF Flow
<1>3. LiveOK(d, c, sock[h].fin_state) /\ EffectOK(d) /\ SocketOK(d.s)
  BY <1>1, <1>2, ProcessReadCalls, ProcessReadOK DEF EffectOK
<1>4. ReadsSome(e, d)
  BY <1>1, ProcessReadIs
<1> HIDE DEF d, g, w
<1>5. /\ ReceiveSide(d.s, got[h] \o d.gave, w)
      /\ e.s.rcv_nxt <= d.s.rcv_nxt /\ RightEdge(e.s) <= RightEdge(d.s)
      /\ d.gave # <<>> => c = "read"
  <2>1. CASE d.s.input = e.s.input /\ d.gave = e.gave
    <3>1. d.s.rcv_nxt = e.s.rcv_nxt /\ d.s.input = e.s.input /\ d.gave = e.gave
      BY <1>4, <2>1 DEF ReadsSome
    <3>2. RightEdge(d.s) = RightEdge(e.s) /\ RightEdge(e.s) \in Nat /\ e.s.rcv_nxt \in Nat
      BY <1>1, <3>1, SocketNumbers DEF RightEdge, InFree
    <3>3. ReceiveSide(d.s, g, w)
      BY <1>2, <3>1 DEF ReceiveSide
    <3> QED
      BY <1>2, <3>1, <3>2, <3>3 DEF g
  <2>2. CASE ~(d.s.input = e.s.input /\ d.gave = e.gave)
    <3>1. e.s.read_flag
      BY <1>4, <2>2 DEF ReadsSome
    <3>2. PICK n \in Nat : /\ n <= Len(e.s.input)
                           /\ d.s.input = SubSeq(e.s.input, n + 1, Len(e.s.input))
                           /\ d.gave = e.gave \o SubSeq(e.s.input, 1, n)
      BY <1>4, <2>2 DEF ReadsSome
    <3>3. c = "read"
      BY <1>2, <3>1, ReadIsCall
    <3>4. d.s.rcv_nxt = e.s.rcv_nxt
      BY <1>4 DEF ReadsSome
    <3>5. /\ ReceiveSide(d.s, g \o SubSeq(e.s.input, 1, n), w)
          /\ e.s.rcv_nxt <= d.s.rcv_nxt /\ RightEdge(e.s) <= RightEdge(d.s)
      BY <1>1, <1>2, <3>2, <3>4, ReadSide
    <3>6. SubSeq(e.s.input, 1, n) \in Seq(Byte)
      BY <1>1, <3>2, SubSeqOK
    <3>7. g \o SubSeq(e.s.input, 1, n) = got[h] \o d.gave
      <4> DEFINE x == SubSeq(e.s.input, 1, n)
                 y == e.gave
                 z == got[h]
      <4>1. x \in Seq(Byte) /\ y \in Seq(Byte) /\ z \in Seq(Byte)
        BY <1>1, <3>6
      <4>2. g = z \o y /\ d.gave = y \o x
        BY <3>2 DEF g
      <4> HIDE DEF x, y, z
      <4>3. (z \o y) \o x = z \o (y \o x)
        BY <4>1, ConcatAssociative
      <4>4. g \o x = z \o d.gave
        BY <4>2, <4>3
      <4> QED
        BY <4>4 DEF x, z
    <3> QED
      BY <3>3, <3>5, <3>7
  <2> QED
    BY <2>1, <2>2
<1>6. Later(e.s, d.s)
  BY <1>1, <1>5 DEF Later
<1>7. SegsOK(h, d)
  <2>1. PICK a : /\ d.sent = Append(e.sent, a)
                 /\ ControlSegment(a, d.s, FALSE, d.s.snd_nxt, d.s.rcv_nxt)
    BY <1>4 DEF ReadsSome
  <2>2. a \in SegmentType
    BY <2>1 DEF ControlSegment
  <2>3. SegFor(a, written[h] + d.took, sock[Peer(h)], d.s)
    BY <1>3, <2>1, AckFor
  <2>4. e.took <= d.took /\ d.s.snd_nxt = e.s.snd_nxt
    BY <1>1, <1>4 DEF ReadsSome
  <2> QED
    BY <1>1, <1>2, <1>3, <1>6, <2>1, <2>2, <2>3, <2>4, SegsAppend
<1>8. Flow(h, d, c)
  <2>1. /\ SameOut(e.s, d.s) /\ d.s.fin_state = e.s.fin_state
        /\ d.s.snd_nxt = e.s.snd_nxt /\ d.took = e.took
    BY <1>4 DEF ReadsSome
  <2> QED
    BY <1>3, <1>5, <1>6, <1>7, <2>1, FlowTakes DEF w
<1> QED
  BY <1>8 DEF d

\* The sending side when n bytes have been acknowledged.
LEMMA AckSide ==
  ASSUME NEW s, SocketOK(s), NEW t, NEW w \in Nat, NEW length, SendSide(s, w, length),
         NEW n \in Nat, s.snd_una <= n, n <= s.snd_nxt,
         t.snd_una = n, t.snd_nxt = s.snd_nxt,
         t.output = SubSeq(s.output, n - s.snd_una + 1, Len(s.output)),
         t.write_pipe = s.write_pipe, t.fin_state = s.fin_state
  PROVE  SendSide(t, w, length)
<1> DEFINE q == s.output
           u == s.snd_una
           m == n - u
           rest == SubSeq(q, m + 1, Len(q))
           o == Len(q)
           x == s.snd_nxt
<1>1. q \in Seq(Byte) /\ u \in Nat /\ x \in Nat /\ o \in Nat /\ First \in Nat
  BY SocketNumbers DEF First, ISS
<1>2. /\ First <= u /\ u + o = First + w /\ x <= u + o
      /\ \A k \in 1 .. o : q[k] = u - First + k
      /\ s.fin_state \in FinWait => q = <<>>
  BY DEF SendSide
<1>3. u <= n /\ n <= x
  OBVIOUS
<1>4. t.output = rest /\ t.snd_nxt = x
  OBVIOUS
<1>5. m \in Nat /\ n = u + m
  BY ONLY <1>1, <1>3, n \in Nat DEF m
<1> HIDE DEF u, o, x, m
<1>6. m <= o
  BY <1>1, <1>2, <1>3, <1>5
<1>7. Len(rest) = o - m /\ \A k \in 1 .. o - m : rest[k] = q[m + k]
  <2>1. m <= Len(q)
    BY <1>6 DEF o
  <2> HIDE DEF q
  <2> QED
    BY <1>1, <1>5, <2>1, Rests DEF o
<1> HIDE DEF q, rest
<1>8. \A k \in 1 .. o - m : rest[k] = n - First + k
  <2> SUFFICES ASSUME NEW k \in 1 .. o - m PROVE rest[k] = n - First + k
    OBVIOUS
  <2>1. k \in Nat /\ 1 <= k /\ k <= o - m
    BY <1>1, <1>5
  <2> DEFINE i == m + k
  <2>2. i \in 1 .. o /\ u - First + i = n - First + k
    BY <1>1, <1>5, <2>1
  <2>3. rest[k] = q[i]
    BY <1>7
  <2> HIDE DEF i
  <2> QED
    BY <1>2, <2>2, <2>3
<1>9. First <= n /\ n + (o - m) = First + w /\ x <= n + (o - m)
  BY <1>1, <1>2, <1>3, <1>5, <1>6
<1>10. s.fin_state \in FinWait => rest = <<>>
  <2> SUFFICES ASSUME s.fin_state \in FinWait PROVE rest = <<>>
    OBVIOUS
  <2>1. o = 0
    BY <1>2 DEF o
  <2>2. m = 0 /\ Len(rest) = 0
    BY <1>1, <1>5, <1>6, <1>7, <2>1
  <2>3. rest \in Seq(Byte)
    <3>1. m + 1 \in Nat \ {0} /\ Len(q) \in Nat
      BY <1>1, <1>5
    <3> QED
      BY <1>1, <3>1, SubSeqOK DEF rest
  <2> QED
    BY <2>2, <2>3, EmptySeq
<1> QED
  BY <1>4, <1>7, <1>8, <1>9, <1>10 DEF SendSide

\* What the socket of h knows from the acknowledgement in a segment.
LEMMA AckTells ==
  ASSUME HostsTyped, NEW h \in Hosts, NEW seg \in SegmentType,
         SegFor(seg, written[Peer(h)], sock[h], sock[Peer(h)]),
         sock[h].valid, seg.ack, seg.ack_seq <= sock[h].snd_nxt
  PROVE  sock[Peer(h)].valid => /\ seg.ack_seq <= sock[Peer(h)].rcv_nxt
                                /\ seg.ack_seq + seg.window <= RightEdge(sock[Peer(h)])
<1>1. seg.ack_seq \in Nat /\ sock[h].snd_nxt \in Nat
  BY HostNumbers, SocketNumbers, SegmentNumbers
<1> QED
  BY <1>1 DEF SegFor

\* A flow that only learns from an acknowledgement.
LEMMA FlowLearns ==
  ASSUME HostsTyped, NEW h \in Hosts, NEW e, NEW c, Flow(h, e, c), e.s = sock[h],
         NEW seg \in SegmentType,
         SegFor(seg, written[Peer(h)], sock[h], sock[Peer(h)]),
         seg.ack, seg.ack_seq <= e.s.snd_nxt, e.s.snd_una <= seg.ack_seq,
         NEW a, Acked(e, a, seg.ack_seq, seg.window,
                      SubSeq(e.s.output, seg.ack_seq - e.s.snd_una + 1, Len(e.s.output)))
  PROVE  Flow(h, a, c)
<1>1. /\ EffectOK(e) /\ SocketOK(e.s) /\ e.s.valid /\ e.s.state = "ESTABLISHED"
      /\ written[h] + e.took \in Nat /\ e.took \in Nat /\ seg.ack_seq \in Nat
  BY FlowNumbers, SegmentNumbers
<1>2. /\ EffectOK(a) /\ SameCall(e.s, a.s) /\ SameIn(e.s, a.s) /\ SameTalk(e, a)
      /\ a.sent = e.sent /\ a.s.write_pipe = e.s.write_pipe
      /\ a.s.snd_nxt = e.s.snd_nxt
      /\ a.s.snd_una = seg.ack_seq /\ a.s.peer_window_size = seg.window
      /\ a.s.output = SubSeq(e.s.output, seg.ack_seq - e.s.snd_una + 1, Len(e.s.output))
  BY DEF Acked
<1>3. /\ LiveOK(e, c, sock[h].fin_state) /\ SegsOK(h, e)
      /\ SendSide(e.s, written[h] + e.took, StreamLength[h])
      /\ (e.took # 0 => c = "write")
  BY DEF Flow
<1>4. /\ a.took = e.took /\ a.gave = e.gave /\ a.rep = e.rep /\ a.frees = e.frees
      /\ a.s.fin_state = e.s.fin_state /\ a.s.state = e.s.state
  BY <1>2 DEF SameTalk, SameCall
<1>5. LiveOK(a, c, sock[h].fin_state) /\ SocketOK(a.s)
  BY <1>2, <1>3, <1>4, QuietKeeps DEF EffectOK
<1>6. SendSide(a.s, written[h] + a.took, StreamLength[h])
  BY <1>1, <1>2, <1>3, <1>4, AckSide
<1>7. Knows(a.s, sock[Peer(h)])
  <2>1. sock[Peer(h)].valid =>
           /\ seg.ack_seq <= sock[Peer(h)].rcv_nxt
           /\ seg.ack_seq + seg.window <= RightEdge(sock[Peer(h)])
    BY <1>1, AckTells
  <2> QED
    BY <1>2, <2>1 DEF Knows
<1>8. Later(e.s, a.s) /\ e.took <= a.took
  BY <1>1, <1>2, <1>4, <1>5, LaterIs
<1>9. SegsOK(h, a)
  BY <1>1, <1>2, <1>3, <1>8, SegsStay
<1> QED
  BY <1>2, <1>3, <1>4, <1>5, <1>6, <1>7, <1>9, FlowGoesOn

\* TCPCallback in ESTABLISHED: the acknowledgement.
LEMMA ReceiveAckFlow ==
  ASSUME HostsTyped, NEW h \in Hosts, NEW e, NEW c, Flow(h, e, c), e.s = sock[h],
         e.sent = <<>>, NEW seg \in SegmentType,
         SegFor(seg, written[Peer(h)], sock[h], sock[Peer(h)])
  PROVE  Flow(h, ReceiveAck(e, seg), c)
<1> DEFINE d == ReceiveAck(e, seg)
           n == seg.ack_seq
           out == SubSeq(e.s.output, n - e.s.snd_una + 1, Len(e.s.output))
<1>1. /\ EffectOK(e) /\ SocketOK(e.s) /\ e.s.valid /\ e.s.state = "ESTABLISHED"
      /\ e.took \in Nat /\ n \in Nat /\ e.s.snd_una \in Nat /\ e.s.snd_nxt \in Nat
      /\ e.s.snd_una <= e.s.snd_nxt /\ e.s.output \in Seq(Byte)
  BY FlowNumbers, SegmentNumbers, SocketNumbers
<1>2. \/ /\ seg.ack /\ e.s.snd_una < n /\ n <= e.s.snd_nxt
         /\ \E a : Acked(e, a, n, seg.window, out) /\ d = ProcessWriteSend(a)
      \/ /\ seg.ack /\ e.s.snd_una = n
         /\ \E a : /\ Acked(e, a, e.s.snd_una, seg.window, e.s.output)
                   /\ d = ProcessWriteSend(a)
      \/ /\ seg.ack /\ n > e.s.snd_nxt /\ e.s.fin_state = "FIN_WAIT1"
         /\ d = [e EXCEPT !.s.fin_state = "FIN_WAIT2"]
      \/ d = e
  BY <1>1, ReceiveAckIs
<1>3. LiveOK(d, c, sock[h].fin_state) /\ EffectOK(d)
  BY <1>1, ReceiveAckCalls, ReceiveAckOK DEF Flow
<1> HIDE DEF d
<1>4. ASSUME NEW a, Acked(e, a, n, seg.window, out), seg.ack,
             e.s.snd_una <= n, n <= e.s.snd_nxt, d = ProcessWriteSend(a)
      PROVE  Flow(h, d, c)
  <2>1. Flow(h, a, c)
    BY <1>4, FlowLearns
  <2>2. a.sent = <<>>
    BY <1>4 DEF Acked
  <2>3. Plain(a.sent)
    BY <2>2 DEF Plain
  <2> QED
    BY <1>4, <2>1, <2>3, ProcessWriteSendFlow
<1>5. ASSUME seg.ack, e.s.snd_una < n, n <= e.s.snd_nxt,
             \E a : Acked(e, a, n, seg.window, out) /\ d = ProcessWriteSend(a)
      PROVE  Flow(h, d, c)
  BY <1>1, <1>4, <1>5
<1>6. ASSUME seg.ack, e.s.snd_una = n,
             \E a : /\ Acked(e, a, e.s.snd_una, seg.window, e.s.output)
                    /\ d = ProcessWriteSend(a)
      PROVE  Flow(h, d, c)
  <2>1. out = e.s.output
    <3>1. n - e.s.snd_una + 1 = 1
      BY <1>1, <1>6
    <3>2. SubSeq(e.s.output, 1, Len(e.s.output)) = e.s.output
      BY <1>1
    <3> QED
      BY <3>1, <3>2
  <2> HIDE DEF out
  <2> QED
    BY <1>1, <1>4, <1>6, <2>1
<1>7. ASSUME e.s.fin_state = "FIN_WAIT1", d = [e EXCEPT !.s.fin_state = "FIN_WAIT2"]
      PROVE  Flow(h, d, c)
  <2>1. /\ SameIn(e.s, d.s) /\ SameOut(e.s, d.s) /\ d.s.snd_nxt = e.s.snd_nxt
        /\ d.took = e.took /\ d.gave = e.gave /\ d.sent = e.sent
        /\ d.s.fin_state = "FIN_WAIT2" /\ d.s.state = e.s.state /\ d.s.valid = e.s.valid
    BY <1>1, <1>7 DEF EffectOK, EffectType, SocketOK, SocketType, SameIn, SameOut
  <2>2. SendSide(d.s, written[h] + d.took, StreamLength[h])
    BY <1>7, <2>1 DEF Flow, SendSide, SameOut, FinWait
  <2>3. Knows(d.s, sock[Peer(h)])
    BY <2>1 DEF Flow, Knows, SameOut
  <2>4. SocketOK(d.s) /\ e.took <= d.took
    BY <1>1, <1>3, <2>1 DEF EffectOK
  <2>5. Later(e.s, d.s)
    BY <1>1, <2>1, <2>4, LaterIs
  <2>6. SegsOK(h, d)
    BY <1>1, <1>3, <2>1, <2>4, <2>5, SegsStay DEF Flow
  <2>7. d.took # 0 => c = "write"
    BY <2>1 DEF Flow
  <2> QED
    BY <1>3, <2>1, <2>2, <2>3, <2>6, <2>7, FlowGoesOn
<1>8. Flow(h, d, c)
  BY <1>2, <1>5, <1>6, <1>7
<1> QED
  BY <1>8 DEF d

\* The receiving side when n bytes of a payload join the input buffer.
LEMMA DataSide ==
  ASSUME NEW s, SocketOK(s), NEW t, NEW g \in Seq(Byte), NEW w \in Nat,
         ReceiveSide(s, g, w), NEW seg \in SegmentType, InStream(seg, w),
         seg.seq = s.rcv_nxt, NEW n \in Nat, n <= Len(seg.data),
         t.rcv_nxt = s.rcv_nxt + n, t.input = s.input \o SubSeq(seg.data, 1, n)
  PROVE  /\ ReceiveSide(t, g, w)
         /\ s.rcv_nxt <= t.rcv_nxt /\ RightEdge(s) <= RightEdge(t)
<1> DEFINE q == s.input
           p == seg.data
           more == q \o SubSeq(p, 1, n)
           l == Len(g)
           i == Len(q)
           b == Len(p)
           x == s.rcv_nxt
<1>1. /\ q \in Seq(Byte) /\ p \in Seq(Byte) /\ x \in Nat /\ i \in Nat /\ l \in Nat
      /\ b \in Nat
  BY SocketNumbers, SegmentNumbers
<1>2. /\ x = First + l + i /\ x <= First + w /\ \A k \in 1 .. l : g[k] = k
      /\ \A k \in 1 .. i : q[k] = l + k
  BY DEF ReceiveSide
<1>3. First \in Nat /\ InCapacity \in Nat
  BY SocketNumbers DEF First, ISS
<1>4. x + b <= First + w /\ \A k \in 1 .. b : p[k] = x - First + k
  BY DEF InStream
<1>5. t.rcv_nxt = x + n /\ t.input = more /\ n <= b
  OBVIOUS
<1>6. /\ RightEdge(s) = x + (InCapacity - i)
      /\ RightEdge(t) = (x + n) + (InCapacity - Len(more))
  BY <1>5 DEF RightEdge, InFree
<1>7. /\ Len(more) = i + n
      /\ \A k \in 1 .. i + n : more[k] = IF k <= i THEN q[k] ELSE p[k - i]
  <2>1. n <= Len(p)
    BY <1>5
  <2> HIDE DEF q, p
  <2> QED
    BY <1>1, <2>1, Continued
<1> HIDE DEF q, p, more, l, i, x, b
<1>8. \A k \in 1 .. i + n : more[k] = l + k
  <2> SUFFICES ASSUME NEW k \in 1 .. i + n PROVE more[k] = l + k
    OBVIOUS
  <2>1. k \in Nat /\ 1 <= k /\ k <= i + n
    BY <1>1
  <2>2. CASE k <= i
    <3>1. k \in 1 .. i
      BY <1>1, <2>1, <2>2
    <3> QED
      BY <1>2, <1>7, <2>2, <3>1
  <2>3. CASE k > i
    <3> DEFINE m == k - i
    <3>1. m \in 1 .. b /\ k = i + m /\ ~(k <= i) /\ x - First + m = l + k
      BY <1>1, <1>2, <1>3, <1>5, <2>1, <2>3
    <3>2. more[k] = p[k - i]
      BY <1>7, <3>1
    <3>3. more[k] = p[m]
      BY <3>2
    <3> HIDE DEF m
    <3> QED
      BY <1>4, <3>1, <3>3
  <2> QED
    BY <1>1, <2>1, <2>2, <2>3
<1>9. x + n = First + l + (i + n) /\ x + n <= First + w
  BY <1>1, <1>2, <1>3, <1>4, <1>5
<1>10. ReceiveSide(t, g, w)
  BY <1>2, <1>5, <1>7, <1>8, <1>9 DEF ReceiveSide, l
<1>11. RightEdge(s) <= RightEdge(t) /\ x <= x + n
  <2> DEFINE r == RightEdge(s)
             y == RightEdge(t)
  <2>1. r = x + (InCapacity - i) /\ y = (x + n) + (InCapacity - (i + n))
    BY <1>6, <1>7
  <2> HIDE DEF r, y
  <2>2. r <= y /\ x <= x + n
    BY <1>1, <1>3, <2>1
  <2> QED
    BY <2>2 DEF r, y
<1> QED
  BY <1>5, <1>10, <1>11 DEF x

\* TCPCallback in ESTABLISHED: the payload.
LEMMA ReceiveDataFlow ==
  ASSUME HostsTyped, NEW h \in Hosts, NEW e, NEW c, Flow(h, e, c),
         NEW seg \in SegmentType,
         seg.data # <<>> => InStream(seg, written[Peer(h)])
  PROVE  Flow(h, ReceiveData(e, seg), c)
<1> DEFINE d == ReceiveData(e, seg)
           n == AtMost(Len(seg.data), InFree(e.s))
           g == got[h] \o e.gave
           w == written[Peer(h)]
<1>1. /\ EffectOK(e) /\ SocketOK(e.s) /\ e.s.valid /\ e.s.state = "ESTABLISHED"
      /\ e.took \in Nat /\ g \in Seq(Byte) /\ w \in Nat
  BY FlowNumbers, HostNumbers
<1>2. \/ d = e
      \/ /\ seg.data # <<>> /\ seg.seq = e.s.rcv_nxt
         /\ \E a : /\ EffectOK(a) /\ SameCall(e.s, a.s) /\ SameOut(e.s, a.s)
                   /\ a.s.snd_nxt = e.s.snd_nxt
                   /\ SameTalk(e, a) /\ a.sent = e.sent
                   /\ a.s.rcv_nxt = e.s.rcv_nxt + n
                   /\ a.s.input = e.s.input \o SubSeq(seg.data, 1, n)
                   /\ d = ProcessRead(a)
  BY <1>1, ReceiveDataIs
<1>3. n \in Nat /\ n <= Len(seg.data)
  <2> DEFINE x == Len(seg.data)
             y == InFree(e.s)
  <2>1. x \in Nat /\ y \in Nat
    BY <1>1, SegmentNumbers, SocketNumbers
  <2> HIDE DEF x, y
  <2>2. AtMost(x, y) \in Nat /\ AtMost(x, y) <= x
    BY <2>1 DEF AtMost
  <2> QED
    BY <2>2 DEF x, y
<1> HIDE DEF d, n
<1>4. ASSUME d # e PROVE Flow(h, d, c)
  <2>1. PICK a : /\ EffectOK(a) /\ SameCall(e.s, a.s) /\ SameOut(e.s, a.s)
                 /\ a.s.snd_nxt = e.s.snd_nxt
                 /\ SameTalk(e, a) /\ a.sent = e.sent
                 /\ a.s.rcv_nxt = e.s.rcv_nxt + n
                 /\ a.s.input = e.s.input \o SubSeq(seg.data, 1, n)
                 /\ d = ProcessRead(a)
    BY <1>2, <1>4
  <2>2. seg.seq = e.s.rcv_nxt /\ InStream(seg, w)
    BY <1>2, <1>4
  <2>3. /\ LiveOK(e, c, sock[h].fin_state) /\ SegsOK(h, e) /\ ReceiveSide(e.s, g, w)
        /\ (e.gave # <<>> => c = "read")
    BY DEF Flow
  <2>4. /\ a.took = e.took /\ a.gave = e.gave /\ a.rep = e.rep /\ a.frees = e.frees
        /\ a.s.fin_state = e.s.fin_state /\ a.s.write_pipe = e.s.write_pipe
    BY <2>1 DEF SameTalk, SameCall, SameOut
  <2>5. LiveOK(a, c, sock[h].fin_state) /\ SocketOK(a.s)
    BY <2>1, <2>3, <2>4, QuietKeeps DEF EffectOK
  <2> HIDE DEF g, w
  <2>6. /\ ReceiveSide(a.s, g, w)
        /\ e.s.rcv_nxt <= a.s.rcv_nxt /\ RightEdge(e.s) <= RightEdge(a.s)
    BY <1>1, <1>3, <2>1, <2>2, <2>3, DataSide
  <2>7. Later(e.s, a.s) /\ e.took <= a.took
    BY <1>1, <2>4, <2>6 DEF Later
  <2>8. SegsOK(h, a)
    BY <1>1, <2>1, <2>3, <2>7, SegsStay
  <2>9. ReceiveSide(a.s, got[h] \o a.gave, w)
    BY <2>4, <2>6 DEF g
  <2>10. Flow(h, a, c)
    BY <2>1, <2>3, <2>4, <2>5, <2>7, <2>8, <2>9, FlowTakes DEF w
  <2> QED
    BY <2>1, <2>10, ProcessReadFlow
<1>5. Flow(h, d, c)
  BY <1>4
<1> QED
  BY <1>5 DEF d

-----------------------------------------------------------------------------
(***************************************************************************)
(* The streams after a step of host h with effect e.                       *)
(***************************************************************************)

\* What has been read is the beginning of what was written.
Counted(g, w) == Len(g) <= w /\ \A k \in 1 .. Len(g) : g[k] = k

StreamOK(h) ==
    /\ written[h] <= StreamLength[h]
    /\ Counted(got[h], written[Peer(h)])
    /\ app[h] = "new" => written[h] = 0 /\ got[h] = <<>>
    /\ Established(h) => /\ SendSide(sock[h], written[h], StreamLength[h])
                         /\ ReceiveSide(sock[h], got[h], written[Peer(h)])
    /\ Knows(sock[h], sock[Peer(h)])
    /\ \A i \in DOMAIN net[h] :
          SegFor(net[h][i], written[Peer(h)], sock[h], sock[Peer(h)])

Streams(h, e, c) ==
    /\ written[h] + e.took <= StreamLength[h]
    /\ Counted(got[h] \o e.gave, written[Peer(h)])
    /\ e.s.state = "ESTABLISHED" =>
          /\ SendSide(e.s, written[h] + e.took, StreamLength[h])
          /\ ReceiveSide(e.s, got[h] \o e.gave, written[Peer(h)])
    /\ Knows(e.s, sock[Peer(h)])
    /\ SegsOK(h, e)
    /\ Later(sock[h], e.s)
    /\ e.took # 0 => c = "write"
    /\ e.gave # <<>> => c = "read"
    /\ sock[h].fin_state \in FinSent /\ e.s.valid => e.s.snd_nxt = sock[h].snd_nxt

\* What has been read counts.
LEMMA ReadIsCounted ==
  ASSUME NEW s, SocketOK(s), NEW g \in Seq(Byte), NEW w \in Nat, ReceiveSide(s, g, w)
  PROVE  Counted(g, w)
<1> DEFINE l == Len(g)
           i == Len(s.input)
           x == s.rcv_nxt
<1>1. l \in Nat /\ i \in Nat /\ x \in Nat /\ First \in Nat
  BY SocketNumbers DEF First, ISS
<1>2. x = First + l + i /\ x <= First + w /\ \A k \in 1 .. l : g[k] = k
  BY DEF ReceiveSide
<1> HIDE DEF l, i, x
<1>3. l <= w
  BY <1>1, <1>2
<1> QED
  BY <1>2, <1>3 DEF Counted, l

\* What has been written is within the stream.
LEMMA WrittenFits ==
  ASSUME NEW s, SocketOK(s), NEW w \in Nat, NEW length \in Nat, SendSide(s, w, length)
  PROVE  w <= length
<1> DEFINE b == Len(s.write_pipe)
<1>1. b \in Nat /\ w + b <= length
  BY SocketNumbers DEF SendSide
<1> HIDE DEF b
<1> QED
  BY <1>1

\* A flow that ends in a live socket.
LEMMA FlowStreams ==
  ASSUME HostsTyped, NEW h \in Hosts, NEW e, NEW c, Flow(h, e, c),
         sock[h].fin_state # "LAST_ACK"
  PROVE  Streams(h, e, c)
<1>1. SocketOK(e.s) /\ written[h] + e.took \in Nat /\ got[h] \o e.gave \in Seq(Byte)
      /\ written[Peer(h)] \in Nat /\ StreamLength[h] \in Nat
  BY FlowNumbers, HostNumbers
<1>2. Counted(got[h] \o e.gave, written[Peer(h)])
  BY <1>1, ReadIsCounted DEF Flow
<1>3. written[h] + e.took <= StreamLength[h]
  BY <1>1, WrittenFits DEF Flow
<1> QED
  BY <1>2, <1>3 DEF Flow, Streams, FinSent, FinWait

\* A flow that ends with the socket freed.
LEMMA FreedStreams ==
  ASSUME HostsTyped, NEW h \in Hosts, NEW e, NEW c, Flow(h, e, c),
         NEW d, d.s = FreeSocket, d.sent = e.sent, d.took = e.took, d.gave = e.gave
  PROVE  Streams(h, d, c)
<1>1. SocketOK(e.s) /\ written[h] + e.took \in Nat /\ got[h] \o e.gave \in Seq(Byte)
      /\ written[Peer(h)] \in Nat /\ StreamLength[h] \in Nat
  BY FlowNumbers, HostNumbers
<1>2. Counted(got[h] \o d.gave, written[Peer(h)])
  BY <1>1, ReadIsCounted DEF Flow
<1>3. written[h] + d.took <= StreamLength[h]
  BY <1>1, WrittenFits DEF Flow
<1>4. ~d.s.valid /\ d.s.state = "CLOSE"
  BY DEF FreeSocket
<1>5. SegsOK(h, d)
  BY <1>4 DEF Flow, SegsOK, SegFor
<1>6. Knows(d.s, sock[Peer(h)]) /\ Later(sock[h], d.s)
  BY <1>4 DEF Knows, Later
<1> QED
  BY <1>2, <1>3, <1>4, <1>5, <1>6 DEF Flow, Streams

\* Nothing happens to the streams but that segments are sent.
LEMMA TimedStreams ==
  ASSUME HostsTyped, NEW h \in Hosts, StreamOK(h), Shape(sock[h]), NEW e, EffectOK(e),
         Timed(sock[h], e.s), SegsOK(h, e), e.took = 0, e.gave = <<>>, NEW c
  PROVE  Streams(h, e, c)
<1> DEFINE s == sock[h]
           p == sock[Peer(h)]
<1>1. SocketOK(s) /\ SocketOK(e.s) /\ written[h] \in Nat /\ got[h] \in Seq(Byte)
  BY HostNumbers DEF EffectOK
<1>2. written[h] + e.took = written[h] /\ got[h] \o e.gave = got[h]
  BY <1>1, ConcatNothing
<1>3. /\ SameIn(s, e.s) /\ SameOut(s, e.s) /\ e.s.snd_nxt = s.snd_nxt
      /\ e.s.state = s.state /\ e.s.fin_state = s.fin_state
      /\ e.s.valid = s.valid
  BY DEF Timed, SameCall
<1>4. Established(h) =>
         /\ SendSide(e.s, written[h], StreamLength[h])
         /\ ReceiveSide(e.s, got[h], written[Peer(h)])
  BY <1>3 DEF StreamOK, SendSide, ReceiveSide, SameIn, SameOut
<1>5. Knows(e.s, p)
  BY <1>3 DEF StreamOK, Knows, SameOut
<1>6. Later(s, e.s)
  BY <1>1, <1>3, LaterIs DEF Later
<1>7. e.s.state = "ESTABLISHED" => Established(h)
  <2>1. FreeSocket.state = "CLOSE"
    BY DEF FreeSocket
  <2>2. ~s.valid => s.state = "CLOSE"
    BY <2>1 DEF Shape
  <2> QED
    BY <1>3, <2>2 DEF Established
<1> QED
  BY <1>2, <1>3, <1>4, <1>5, <1>6, <1>7 DEF StreamOK, Streams

\* Nothing happens to the streams.
LEMMA NothingStreams ==
  ASSUME HostsTyped, NEW h \in Hosts, StreamOK(h), Shape(sock[h]), NEW e, EffectOK(e),
         Timed(sock[h], e.s), e.sent = <<>>, e.took = 0, e.gave = <<>>, NEW c
  PROVE  Streams(h, e, c)
<1>1. SegsOK(h, e)
  BY DEF SegsOK
<1> QED
  BY <1>1, TimedStreams

\* A routine begins with the socket of h, perhaps with a new write pipe or
\* with snd_nxt set back.
LEMMA FlowStarts ==
  ASSUME HostsTyped, NEW h \in Hosts, StreamOK(h), Established(h),
         NEW e, NEW c, LiveOK(e, c, sock[h].fin_state),
         SameIn(sock[h], e.s), e.s.output = sock[h].output,
         e.s.snd_una = sock[h].snd_una,
         e.s.peer_window_size = sock[h].peer_window_size,
         e.s.fin_state = sock[h].fin_state,
         e.s.snd_nxt = sock[h].snd_nxt
            \/ (e.s.snd_nxt = sock[h].snd_una /\ sock[h].fin_state \notin FinSent),
         \/ e.s.write_pipe = sock[h].write_pipe
         \/ /\ \A k \in 1 .. Len(e.s.write_pipe) : e.s.write_pipe[k] = written[h] + k
            /\ written[h] + Len(e.s.write_pipe) <= StreamLength[h],
         e.sent = <<>>, e.took = 0, e.gave = <<>>
  PROVE  Flow(h, e, c) /\ Plain(e.sent)
<1> DEFINE s == sock[h]
           p == sock[Peer(h)]
           w == written[h]
           L == StreamLength[h]
<1>1. EffectOK(e) /\ SocketOK(e.s) /\ SocketOK(s) /\ w \in Nat /\ got[h] \in Seq(Byte)
  BY HostNumbers DEF LiveOK, CallOK, EffectOK
<1>2. w + e.took = w /\ got[h] \o e.gave = got[h]
  BY <1>1, ConcatNothing
<1>3. SendSide(s, w, L) /\ ReceiveSide(s, got[h], written[Peer(h)]) /\ Knows(s, p)
      /\ s.valid /\ s.state = "ESTABLISHED"
  BY DEF StreamOK, Established
<1>4. SendSide(e.s, w, L)
  <2>1. e.s.snd_nxt <= e.s.snd_una + Len(e.s.output)
    <3> DEFINE x == e.s.snd_nxt
               u == e.s.snd_una
               o == Len(e.s.output)
    <3>1. u \in Nat /\ o \in Nat /\ (x = u \/ x <= u + o)
      BY <1>1, <1>3, SocketNumbers DEF SendSide
    <3> HIDE DEF x, u, o
    <3>2. x <= u + o
      BY <3>1
    <3> QED
      BY <3>2 DEF x, u, o
  <2>2. /\ \A k \in 1 .. Len(e.s.write_pipe) : e.s.write_pipe[k] = w + k
        /\ w + Len(e.s.write_pipe) <= L
    BY <1>3 DEF SendSide
  <2> QED
    BY <1>3, <2>1, <2>2 DEF SendSide
<1>5. ReceiveSide(e.s, got[h], written[Peer(h)])
  BY <1>3 DEF ReceiveSide, SameIn
<1>6. Knows(e.s, p)
  BY <1>3 DEF Knows
<1>7. SegsOK(h, e) /\ Plain(e.sent)
  BY DEF SegsOK, Plain
<1>8. Later(s, e.s)
  BY <1>1, <1>3, LaterIs
<1>9. s.fin_state \in FinWait => e.s.snd_nxt = s.snd_nxt
  BY DEF FinSent, FinWait
<1> QED
  BY <1>2, <1>4, <1>5, <1>6, <1>7, <1>8, <1>9 DEF Flow

\* A routine that ends with a change of fin_state.
LEMMA EndStreams ==
  ASSUME HostsTyped, NEW h \in Hosts, NEW e, NEW c, Flow(h, e, c),
         NEW d, EffectOK(d), ButFin(e.s, d.s), d.took = e.took, d.gave = e.gave,
         SegsOK(h, d), d.s.fin_state \in FinWait => e.s.fin_state \in FinWait,
         sock[h].fin_state # "LAST_ACK"
  PROVE  Streams(h, d, c)
<1>1. Streams(h, e, c)
  BY FlowStreams
<1>2. SocketOK(e.s) /\ SocketOK(d.s) /\ e.s.valid /\ SocketOK(sock[h])
      /\ e.s.state = "ESTABLISHED"
  BY FlowNumbers, HostNumbers DEF EffectOK
<1>3. SameIn(e.s, d.s) /\ SameOut(e.s, d.s) /\ d.s.snd_nxt = e.s.snd_nxt
      /\ d.s.valid = e.s.valid /\ d.s.state = e.s.state
  BY DEF ButFin
<1>4. SendSide(d.s, written[h] + d.took, StreamLength[h])
  BY <1>3 DEF Flow, SendSide, SameOut
<1>5. ReceiveSide(d.s, got[h] \o d.gave, written[Peer(h)])
  BY <1>3 DEF Flow, ReceiveSide, SameIn
<1>6. Knows(d.s, sock[Peer(h)])
  BY <1>3 DEF Flow, Knows, SameOut
<1>7. Later(sock[h], d.s)
  BY <1>2, <1>3, LaterIs DEF Flow
<1> QED
  BY <1>1, <1>3, <1>4, <1>5, <1>6, <1>7 DEF Streams

\* An acknowledgement of the FIN of the peer, or of all it has sent.
LEMMA FinAckFor ==
  ASSUME NEW seg, NEW s, NEW seq, NEW n, NEW fin,
         ControlSegment(seg, s, fin, seq, n), NEW t, fin => seq = t.snd_nxt,
         NEW p, p.valid => p.fin_state \in FinSent /\ n > p.snd_nxt, NEW w
  PROVE  SegFor(seg, w, p, t)
BY DEF ControlSegment, SegFor

\* An effect that changes fin_state and acknowledges a FIN of the peer, which
\* is the last thing the peer sends.
LEMMA EndsWithAck ==
  ASSUME HostsTyped, NEW h \in Hosts, NEW e, NEW c, Flow(h, e, c),
         NEW d, EffectOK(d), ButFin(e.s, d.s), d.took = e.took, d.gave = e.gave,
         d.s.fin_state \in FinWait => e.s.fin_state \in FinWait,
         sock[h].fin_state # "LAST_ACK",
         NEW m, EffectOK(m), ButFin(e.s, m.s), m.took = e.took, SegsOK(h, m),
         NEW a, NEW seq, NEW n, NEW fin, ControlSegment(a, e.s, fin, seq, n),
         fin => seq = e.s.snd_nxt, d.sent = Append(m.sent, a),
         sock[Peer(h)].valid =>
            sock[Peer(h)].fin_state \in FinSent /\ n > sock[Peer(h)].snd_nxt
  PROVE  Streams(h, d, c) /\ SegsOK(h, d)
<1>1. SocketOK(e.s) /\ SocketOK(m.s) /\ SocketOK(d.s) /\ e.s.valid
      /\ e.took \in Nat
  BY FlowNumbers DEF EffectOK
<1>2. SameIn(m.s, d.s) /\ d.s.snd_nxt = m.s.snd_nxt /\ m.s.valid
      /\ d.s.snd_nxt = e.s.snd_nxt
  BY <1>1 DEF ButFin, SameIn
<1>3. Later(m.s, d.s)
  BY <1>1, <1>2, LaterIs
<1>4. a \in SegmentType
  BY DEF ControlSegment
<1>5. SegFor(a, written[h] + d.took, sock[Peer(h)], d.s)
  BY <1>2, FinAckFor
<1>6. m.took <= d.took
  BY <1>1
<1>7. SegsOK(h, d)
  BY <1>2, <1>3, <1>4, <1>5, <1>6, SegsAppend
<1> QED
  BY <1>7, EndStreams

\* The peer's FIN, or the acknowledgement of our last one.
LEMMA ReceiveFinStreams ==
  ASSUME HostsTyped, NEW h \in Hosts, NEW e, NEW c, Flow(h, e, c),
         NEW seg \in SegmentType, NEW finAcked, sock[h].fin_state # "LAST_ACK",
         seg.fin /\ e.s.fin_state = "NONE" /\ sock[Peer(h)].valid =>
            sock[Peer(h)].snd_nxt <= e.s.rcv_nxt,
         seg.fin /\ sock[Peer(h)].valid =>
            sock[Peer(h)].fin_state \in FinSent /\ seg.seq = sock[Peer(h)].snd_nxt
  PROVE  Streams(h, ReceiveFin(e, seg, finAcked), c)
<1> DEFINE d == ReceiveFin(e, seg, finAcked)
           p == sock[Peer(h)]
<1>1. EffectOK(e) /\ SocketOK(e.s) /\ e.took \in Nat /\ e.sent \in Seq(SegmentType)
      /\ SocketOK(p) /\ e.s.rcv_nxt \in Nat /\ p.snd_nxt \in Nat /\ seg.seq \in Nat
  BY FlowNumbers, HostNumbers, SocketNumbers, SegmentNumbers
<1>2. EffectOK(d)
  BY <1>1, ReceiveFinOK
<1>3. \/ HearsFin(e, d, seg)
      \/ AnswersFin(e, d, seg)
      \/ LingersAfterFin(e, d, seg) /\ ~finAcked
      \/ seg.ack /\ e.s.fin_state = "LAST_ACK" /\ d = Free(e)
      \/ d = e
  BY <1>1, ReceiveFinIs
<1> HIDE DEF d
<1>4. e.s.fin_state = "NONE" /\ seg.fin =>
         (p.valid => p.fin_state \in FinSent /\ e.s.rcv_nxt + 1 > p.snd_nxt)
  BY <1>1
<1>5. seg.fin => (p.valid => p.fin_state \in FinSent /\ seg.seq + 1 > p.snd_nxt)
  BY <1>1
<1>6. ButFin(e.s, e.s) /\ SegsOK(h, e)
  BY DEF ButFin, SameIn, SameOut, Flow
<1>7. ASSUME HearsFin(e, d, seg) PROVE Streams(h, d, c)
  <2>1. PICK a : /\ ControlSegment(a, e.s, FALSE, e.s.snd_nxt, e.s.rcv_nxt + 1)
                 /\ d.sent = Append(e.sent, a)
    BY <1>7 DEF HearsFin
  <2>2. /\ ButFin(e.s, d.s) /\ d.s.fin_state = "CLOSE_WAIT"
        /\ d.took = e.took /\ d.gave = e.gave
        /\ seg.fin /\ e.s.fin_state = "NONE"
    BY <1>7 DEF HearsFin, SameTalk
  <2>3. d.s.fin_state \notin FinWait
    BY <2>2 DEF FinWait
  <2>4. p.valid => p.fin_state \in FinSent /\ e.s.rcv_nxt + 1 > p.snd_nxt
    BY <1>4, <2>2
  <2> QED
    BY <1>1, <1>2, <1>6, <2>1, <2>2, <2>3, <2>4, EndsWithAck
<1>8. ASSUME AnswersFin(e, d, seg) PROVE Streams(h, d, c)
  <2>1. PICK a, b : /\ ControlSegment(a, e.s, FALSE, e.s.snd_nxt, e.s.rcv_nxt + 1)
                    /\ ControlSegment(b, e.s, TRUE, e.s.snd_nxt, e.s.rcv_nxt + 1)
                    /\ d.sent = Append(Append(e.sent, a), b)
    BY <1>8 DEF AnswersFin
  <2>2. /\ ButFin(e.s, d.s) /\ d.s.fin_state = "LAST_ACK"
        /\ d.took = e.took /\ d.gave = e.gave
        /\ seg.fin /\ e.s.fin_state = "NONE"
    BY <1>8 DEF AnswersFin
  <2>3. d.s.fin_state \notin FinWait
    BY <2>2 DEF FinWait
  <2>4. p.valid => p.fin_state \in FinSent /\ e.s.rcv_nxt + 1 > p.snd_nxt
    BY <1>4, <2>2
  <2> DEFINE q == Append(e.sent, a)
             m == [d EXCEPT !.sent = q]
  <2>5. q \in Seq(SegmentType)
    BY <1>1, <2>1, AppendTyped DEF ControlSegment
  <2> HIDE DEF q
  <2>6. EffectOK(m) /\ m.s = d.s /\ m.took = d.took /\ m.gave = d.gave /\ m.sent = q
    BY <1>2, <2>5 DEF EffectOK, EffectType
  <2> HIDE DEF m
  <2>7. m.sent = Append(e.sent, a) /\ d.sent = Append(m.sent, b)
    BY <2>1, <2>6 DEF q
  <2>8. ButFin(e.s, m.s) /\ m.took = e.took /\ m.gave = e.gave
        /\ m.s.fin_state \notin FinWait
    BY <2>2, <2>3, <2>6
  <2>9. SegsOK(h, m)
    BY <1>1, <1>6, <2>1, <2>4, <2>6, <2>7, <2>8, EndsWithAck
  <2> QED
    BY <1>1, <1>2, <2>1, <2>2, <2>3, <2>4, <2>6, <2>7, <2>8, <2>9, EndsWithAck
<1>9. ASSUME LingersAfterFin(e, d, seg) PROVE Streams(h, d, c)
  <2>1. PICK a : /\ ControlSegment(a, e.s, FALSE, e.s.snd_nxt + 1, seg.seq + 1)
                 /\ d.sent = Append(e.sent, a)
    BY <1>9 DEF LingersAfterFin
  <2>2. /\ ButFin(e.s, d.s) /\ d.s.fin_state = e.s.fin_state
        /\ d.took = e.took /\ d.gave = e.gave /\ seg.fin
    BY <1>9 DEF LingersAfterFin
  <2>3. p.valid => p.fin_state \in FinSent /\ seg.seq + 1 > p.snd_nxt
    BY <1>5, <2>2
  <2> QED
    BY <1>1, <1>2, <1>6, <2>1, <2>2, <2>3, EndsWithAck
<1>10. ASSUME d = Free(e) PROVE Streams(h, d, c)
  <2>1. d.s = FreeSocket /\ d.sent = e.sent /\ d.took = e.took /\ d.gave = e.gave
    BY <1>1, <1>10, FreeIs DEF SameTalk
  <2> QED
    BY <2>1, FreedStreams
<1>11. d = e => Streams(h, d, c)
  BY FlowStreams
<1> QED
  BY <1>3, <1>7, <1>8, <1>9, <1>10, <1>11 DEF d

\* When a FIN has been seen, the peer has sent everything before it and this
\* host has taken it all.
LEMMA PeerFinished ==
  ASSUME HostsTyped, CallsInv, NEW h \in Hosts, StreamOK(Peer(h)),
         FinSeen(h), sock[h].valid, sock[h].fin_state \notin FinSent,
         sock[Peer(h)].valid
  PROVE  sock[Peer(h)].fin_state \in FinSent /\ sock[Peer(h)].snd_nxt <= sock[h].rcv_nxt
<1> DEFINE p == sock[Peer(h)]
           s == sock[h]
           u == p.snd_una
           x == p.snd_nxt
           o == Len(p.output)
           r == s.rcv_nxt
<1>1. Peer(h) \in Hosts /\ Peer(Peer(h)) = h
  BY TwoHosts
<1>2. FinOK(h) /\ FinOK(Peer(h)) /\ HostOK(Peer(h))
  BY <1>1 DEF CallsInv
<1>3. p.fin_state \in FinSent
  BY <1>2 DEF FinOK, FinDone
<1>4. p.fin_state # "LAST_ACK"
  <2>1. p.fin_state = "LAST_ACK" => FinSeen(Peer(h))
    BY DEF FinSeen, FinHeard
  <2>2. ~FinDone(h)
    BY DEF FinDone
  <2> QED
    BY <1>1, <1>2, <2>1, <2>2 DEF FinOK
<1>5. p.fin_state \in FinWait
  BY <1>3, <1>4 DEF FinSent, FinWait
<1>6. SocketOK(p) /\ SocketOK(s)
  BY HostNumbers
<1>7. Established(Peer(h))
  <2>1. Shape(p)
    BY <1>2 DEF HostOK
  <2>2. p.state \in States
    BY <1>6 DEF SocketOK, SocketType
  <2> QED
    BY <1>5, <2>1, <2>2 DEF Established, Shape, States, FinWait
<1>8. x <= u + o /\ p.output = <<>>
  BY <1>5, <1>7 DEF StreamOK, SendSide
<1>9. u <= r
  BY <1>1, <1>7 DEF StreamOK, Knows, Established
<1>10. o = 0
  BY <1>8
<1>11. x \in Nat /\ u \in Nat /\ r \in Nat
  BY <1>6, SocketNumbers
<1> HIDE DEF x, u, o, r
<1>12. x <= r
  BY <1>8, <1>9, <1>10, <1>11
<1> QED
  BY <1>3, <1>12 DEF x, r

\* An application that waits for its answer in an established socket.
LEMMA EffectStarts ==
  ASSUME HostsTyped, NEW h \in Hosts, StreamOK(h), Established(h),
         Live(sock[h]), NEW c, Marks(sock[h], c)
  PROVE  Flow(h, Effect(sock[h]), c) /\ Plain(Effect(sock[h]).sent)
         /\ EffectOK(Effect(sock[h]))
<1> DEFINE e == Effect(sock[h])
<1>1. SocketOK(sock[h])
  BY HostNumbers
<1>2. LiveOK(e, c, sock[h].fin_state)
  BY <1>1, StartLive
<1>3. e.s = sock[h] /\ e.sent = <<>> /\ e.took = 0 /\ e.gave = <<>>
  BY DEF Effect
<1>4. EffectOK(e)
  BY <1>2 DEF LiveOK, CallOK
<1> HIDE DEF e
<1>5. SameIn(sock[h], e.s)
  BY <1>3 DEF SameIn
<1> QED
  BY <1>2, <1>3, <1>4, <1>5, FlowStarts DEF e

\* TCPCallback in ESTABLISHED
LEMMA ReceiveEstablishedStreams ==
  ASSUME HostsTyped, CallsInv, NEW h \in Hosts, StreamOK(h), StreamOK(Peer(h)),
         Established(h), NEW i \in DOMAIN net[h], net[h][i] \in SegmentType
  PROVE  Streams(h, ReceiveEstablished(Effect(sock[h]), net[h][i]), call[h])
<1> DEFINE s == sock[h]
           p == sock[Peer(h)]
           seg == net[h][i]
           c == call[h]
           e == Effect(s)
           a == ReceiveAck(e, seg)
           d == ReceiveData(a, seg)
           finAcked == e.s.fin_state = "FIN_WAIT1" /\ a.s.fin_state = "FIN_WAIT2"
           f == s.fin_state
<1>1. HostOK(h) /\ SynOK(h, seg)
  BY DEF CallsInv, SynsOK
<1>2. Shape(s) /\ Marks(s, c) /\ Live(s)
  BY <1>1 DEF HostOK, Shape, Live, Established
<1>3. Flow(h, e, c) /\ EffectOK(e) /\ e.s = s /\ e.sent = <<>> /\ e.took = 0
      /\ e.gave = <<>> /\ LiveOK(e, c, f)
  BY <1>2, EffectStarts DEF Effect, Flow
<1>4. SegFor(seg, written[Peer(h)], s, p)
  BY DEF StreamOK
<1>5. ReceiveEstablished(e, seg) = ReceiveFin(d, seg, finAcked)
  BY DEF ReceiveEstablished
<1>6. SocketOK(s) /\ SocketOK(p) /\ written[Peer(h)] \in Nat
  BY HostNumbers
<1> HIDE DEF e, seg
<1>7. seg \in SegmentType
  BY DEF seg
<1>8. Flow(h, a, c)
  BY <1>3, <1>4, <1>7, ReceiveAckFlow
<1> HIDE DEF a
<1>9. seg.data # <<>> => InStream(seg, written[Peer(h)])
  BY <1>4 DEF SegFor
<1>10. Flow(h, d, c)
  BY <1>7, <1>8, <1>9, ReceiveDataFlow
<1>11. SocketOK(d.s) /\ d.s.valid /\ LiveOK(d, c, f) /\ EffectOK(d)
  BY <1>10, FlowNumbers DEF Flow
<1>12. CASE f = "LAST_ACK" /\ seg.ack
  <2>1. d.s.fin_state = "LAST_ACK"
    <3>1. d.s.fin_state \in FinSent
      BY <1>11, <1>12 DEF LiveOK, CallOK, Fins, FinSent
    <3>2. d.s.fin_state \notin FinWait
      BY <1>2, <1>11, <1>12 DEF LiveOK, CallOK, Fins, FinSent, FinWait, Marks
    <3> QED
      BY <3>1, <3>2 DEF FinSent, FinWait
  <2> HIDE DEF d
  <2>2. ReceiveFin(d, seg, finAcked) = Free(d)
    BY <1>12, <2>1 DEF ReceiveFin
  <2>3. Free(d).s = FreeSocket /\ Free(d).sent = d.sent /\ Free(d).took = d.took
        /\ Free(d).gave = d.gave
    BY <1>11, FreeIs DEF SameTalk
  <2>4. Streams(h, Free(d), c)
    BY <1>10, <2>3, FreedStreams
  <2> QED
    BY <1>5, <2>2, <2>4 DEF e, seg
<1>13. CASE f = "LAST_ACK" /\ ~seg.ack
  <2>1. seg.data = <<>>
    BY <1>1, <1>13 DEF SynOK, seg
  <2>2. a = e
    BY <1>13 DEF ReceiveAck, a
  <2>3. d = e
    BY <2>1, <2>2 DEF ReceiveData
  <2>4. ReceiveFin(d, seg, finAcked) = e
    BY <1>3, <1>13, <2>3 DEF ReceiveFin
  <2>5. Timed(s, e.s)
    BY <1>3 DEF Timed, SameCall, SameIn, SameOut
  <2>6. Streams(h, e, c)
    BY <1>2, <1>3, <2>5, NothingStreams
  <2> QED
    BY <1>5, <2>4, <2>6 DEF e, seg
<1>14. CASE f # "LAST_ACK"
  <2>1. ASSUME seg.fin, p.valid PROVE p.fin_state \in FinSent /\ seg.seq = p.snd_nxt
    <3>1. FinSeen(h)
      BY <2>1 DEF FinSeen, seg
    <3>2. FinDone(Peer(h))
      BY <3>1 DEF CallsInv, FinOK
    <3> QED
      BY <1>4, <2>1, <3>2 DEF FinDone, SegFor
  <2>2. ASSUME seg.fin, d.s.fin_state = "NONE", p.valid PROVE p.snd_nxt <= d.s.rcv_nxt
    <3>1. FinSeen(h)
      BY <2>2 DEF FinSeen, seg
    <3>2. f \notin FinSent
      BY <1>11, <2>2 DEF LiveOK, CallOK, Fins, FinSent
    <3>3. p.snd_nxt <= s.rcv_nxt
      BY <1>2, <2>2, <3>1, <3>2, PeerFinished DEF Live
    <3>4. s.rcv_nxt <= d.s.rcv_nxt
      BY <1>10, <1>11 DEF Flow, Later
    <3>5. p.snd_nxt \in Nat /\ s.rcv_nxt \in Nat /\ d.s.rcv_nxt \in Nat
      BY <1>6, <1>11, SocketNumbers
    <3> QED
      BY <3>3, <3>4, <3>5
  <2> HIDE DEF d, finAcked
  <2>3. Streams(h, ReceiveFin(d, seg, finAcked), c)
    BY <1>7, <1>10, <1>14, <2>1, <2>2, ReceiveFinStreams
  <2> QED
    BY <1>5, <2>3 DEF e, seg
<1> QED
  BY <1>12, <1>13, <1>14

\* A flow of which only the timer of the socket changes.
LEMMA FlowTimed ==
  ASSUME HostsTyped, NEW h \in Hosts, NEW e, NEW c, Flow(h, e, c),
         NEW d, LiveOK(d, c, sock[h].fin_state), Timed(e.s, d.s), SameTalk(e, d),
         d.sent = e.sent
  PROVE  Flow(h, d, c)
<1>1. SocketOK(e.s) /\ SocketOK(d.s) /\ EffectOK(e) /\ EffectOK(d) /\ e.s.valid
      /\ e.took \in Nat
  BY FlowNumbers DEF LiveOK, CallOK, EffectOK
<1>2. /\ SameIn(e.s, d.s) /\ SameOut(e.s, d.s) /\ d.s.snd_nxt = e.s.snd_nxt
      /\ d.s.fin_state = e.s.fin_state /\ d.s.valid = e.s.valid
      /\ d.s.state = e.s.state
      /\ d.took = e.took /\ d.gave = e.gave
  BY DEF Timed, SameCall, SameTalk
<1>3. SendSide(d.s, written[h] + d.took, StreamLength[h])
  BY <1>2 DEF Flow, SendSide, SameOut
<1>4. Knows(d.s, sock[Peer(h)])
  BY <1>2 DEF Flow, Knows, SameOut
<1>5. Later(e.s, d.s) /\ e.took <= d.took
  BY <1>1, <1>2, LaterIs
<1>6. SegsOK(h, d)
  BY <1>1, <1>2, <1>5, SegsStay DEF Flow
<1>7. d.took # 0 => c = "write"
  BY <1>2 DEF Flow
<1> QED
  BY <1>2, <1>3, <1>4, <1>6, <1>7, FlowGoesOn

\* An acknowledgement joins a flow.
LEMMA FlowAcks ==
  ASSUME HostsTyped, NEW h \in Hosts, NEW e, NEW c, Flow(h, e, c)
  PROVE  Flow(h, Control(e, {"ack"}, e.s.snd_nxt, e.s.rcv_nxt), c)
<1> DEFINE d == Control(e, {"ack"}, e.s.snd_nxt, e.s.rcv_nxt)
           a == Segment(e.s, {"ack"}, e.s.snd_nxt, e.s.rcv_nxt, <<>>)
<1>1. SocketOK(e.s) /\ EffectOK(e) /\ e.s.valid /\ e.took \in Nat
      /\ LiveOK(e, c, sock[h].fin_state)
  BY FlowNumbers DEF Flow
<1>2. e.s.snd_nxt \in Nat /\ e.s.rcv_nxt \in Nat
  BY <1>1, SocketNumbers
<1>3. LiveOK(d, c, sock[h].fin_state)
  BY <1>1, <1>2, AckKeeps
<1>4. d.s = e.s /\ SameTalk(e, d) /\ d.sent = Append(e.sent, a)
  BY <1>1, <1>2, ControlIs DEF EffectOK
<1>5. ControlSegment(a, e.s, FALSE, e.s.snd_nxt, e.s.rcv_nxt)
  BY <1>1, <1>2, ControlSegments DEF EffectOK, SocketOK
<1> HIDE DEF d, a
<1>6. EffectOK(d) /\ d.took = e.took /\ d.gave = e.gave
  BY <1>3, <1>4 DEF LiveOK, CallOK, SameTalk
<1>7. SameIn(e.s, d.s)
  BY <1>4 DEF SameIn
<1>8. Later(e.s, d.s) /\ e.took <= d.took
  BY <1>1, <1>4, <1>6, <1>7, LaterIs
<1>9. SegFor(a, written[h] + d.took, sock[Peer(h)], d.s)
  BY <1>1, <1>4, <1>5, AckFor
<1>10. a \in SegmentType /\ SegsOK(h, e)
  BY <1>5 DEF ControlSegment, Flow
<1>11. SegsOK(h, d)
  BY <1>1, <1>4, <1>6, <1>8, <1>9, <1>10, SegsAppend
<1>12. Flow(h, d, c)
  BY <1>3, <1>4, <1>6, <1>7, <1>11, FlowGoesOn DEF Flow
<1> QED
  BY <1>12 DEF d

\* What a timeout of an established socket sends again.
LEMMA ResendsFlow ==
  ASSUME HostsTyped, NEW h \in Hosts, StreamOK(h), Established(h), Live(sock[h]),
         NEW c, Marks(sock[h], c), NEW t, NEW r, TimesOut(sock[h], t, r)
  PROVE  Flow(h, r, c)
<1> DEFINE s == sock[h]
           e == Effect(t)
           again == Resend(e)
           f == s.fin_state
           una == e.s.snd_una
           b == [e EXCEPT !.s.snd_nxt = una]
<1>1. /\ SocketOK(t) /\ Timed(s, t) /\ f \notin FinSent
      /\ EffectOK(r) /\ Timed(again.s, r.s) /\ SameTalk(again, r) /\ r.sent = again.sent
  BY DEF TimesOut
<1>2. Live(t) /\ Marks(t, c) /\ f = t.fin_state
  BY <1>1 DEF Live, Marks, Timed, SameCall, SameOut
<1>3. LiveOK(e, c, f) /\ e.s = t /\ e.sent = <<>> /\ e.took = 0 /\ e.gave = <<>>
  BY <1>1, <1>2, StartLive, EffectOfSocketOK DEF Effect
<1>4. again = ProcessWriteSend(b)
  BY <1>2, <1>3 DEF Resend, Live
<1>5. EffectOK(e) /\ una \in Nat /\ una = e.s.snd_una
  BY <1>3, Numbers DEF LiveOK, CallOK
<1>6. SocketOK(s) /\ LiveOK(r, c, f)
  BY HostNumbers, ResendsLive
<1> HIDE DEF e, una, again
<1>7. EffectOK(b)
  <2> DEFINE w == [e.s EXCEPT !.snd_nxt = una]
  <2>1. SocketOK(e.s) /\ e.s.snd_una <= una
    BY <1>5 DEF EffectOK
  <2>2. SocketOK(w)
    BY <1>5, <2>1 DEF SocketOK, SocketType
  <2>3. b = [e EXCEPT !.s = w]
    BY <1>5 DEF EffectOK, EffectType
  <2> HIDE DEF w, b
  <2>4. b \in EffectType /\ b.s = w
    BY <1>5, <2>2, <2>3 DEF EffectOK, EffectType, SocketOK
  <2> QED
    BY <2>2, <2>4 DEF EffectOK
<1>8. /\ SameCall(e.s, b.s) /\ b.s.write_pipe = e.s.write_pipe /\ b.rep = e.rep
      /\ b.frees = e.frees /\ b.sent = e.sent
  BY <1>5 DEF EffectOK, EffectType, SocketOK, SocketType, SameCall
<1>9. /\ SameIn(e.s, b.s) /\ SameOut(e.s, b.s) /\ b.s.snd_nxt = una
      /\ b.took = e.took /\ b.gave = e.gave
  BY <1>5 DEF EffectOK, EffectType, SocketOK, SocketType, SameIn, SameOut
<1> HIDE DEF b
<1>10. LiveOK(b, c, f)
  BY <1>3, <1>7, <1>8, QuietKeeps
<1>11. /\ SameIn(s, b.s) /\ b.s.output = s.output /\ b.s.snd_una = s.snd_una
       /\ b.s.peer_window_size = s.peer_window_size /\ b.s.write_pipe = s.write_pipe
       /\ b.s.fin_state = s.fin_state /\ b.s.snd_nxt = s.snd_una
  BY <1>1, <1>2, <1>3, <1>5, <1>8, <1>9 DEF Timed, SameIn, SameOut, SameCall
<1>12. b.sent = <<>> /\ b.took = 0 /\ b.gave = <<>>
  BY <1>3, <1>8, <1>9
<1>13. Flow(h, b, c) /\ Plain(b.sent)
  BY <1>1, <1>10, <1>11, <1>12, FlowStarts
<1>14. Flow(h, again, c)
  BY <1>4, <1>13, ProcessWriteSendFlow
<1> QED
  BY <1>1, <1>6, <1>14, FlowTimed DEF again, e

\* TCPTimeout of an established socket
LEMMA TCPTimeoutStreams ==
  ASSUME HostsTyped, NEW h \in Hosts, StreamOK(h), Established(h),
         Shape(sock[h]), NEW c, Marks(sock[h], c)
  PROVE  Streams(h, TCPTimeout(sock[h]), c)
<1> DEFINE s == sock[h]
           d == TCPTimeout(s)
<1>1. SocketOK(s) /\ s.valid /\ Live(s)
  BY HostNumbers DEF Established, Live, Shape
<1>2. ASSUME NEW t, SocketOK(t), Timed(s, t), d = Effect(t)
      PROVE  Streams(h, d, c)
  <2>1. EffectOK(d) /\ d.s = t /\ d.sent = <<>> /\ d.took = 0 /\ d.gave = <<>>
    BY <1>2, EffectOfSocketOK DEF Effect
  <2> HIDE DEF d
  <2> QED
    BY <1>2, <2>1, NothingStreams
<1>3. ASSUME NEW t, NEW r, TimesOut(s, t, r),
             \/ d = r
             \/ d = ShutdownSocket(Control(r, {"ack"}, r.s.snd_nxt, r.s.rcv_nxt))
      PROVE  Streams(h, d, c)
  <2> DEFINE final == Control(r, {"ack"}, r.s.snd_nxt, r.s.rcv_nxt)
  <2>1. Flow(h, r, c)
    BY <1>1, <1>3, ResendsFlow
  <2>2. Flow(h, final, c)
    BY <2>1, FlowAcks
  <2>3. s.fin_state # "LAST_ACK"
    BY <1>3 DEF TimesOut, FinSent
  <2> HIDE DEF final
  <2>4. EffectOK(final) /\ Marks(final.s, Current(final, c))
        /\ final.s.state = "ESTABLISHED"
    BY <2>2, FlowNumbers DEF Flow, LiveOK, CallOK
  <2> DEFINE x == ShutdownSocket(final)
  <2>5. x.s = FreeSocket /\ x.sent = final.sent /\ x.took = final.took
        /\ x.gave = final.gave
    BY <2>4, ShutdownCalls
  <2>6. Streams(h, x, c)
    BY <2>2, <2>5, FreedStreams
  <2>7. Streams(h, r, c)
    BY <2>1, <2>3, FlowStreams
  <2> QED
    BY <1>3, <2>6, <2>7 DEF final
<1> HIDE DEF d
<1>4. Streams(h, d, c)
  BY <1>1, <1>2, <1>3, TCPTimeoutIs DEF d
<1> QED
  BY <1>4 DEF d

\* What an application is told about the streams when its call fails.
LEMMA RefusedStreams ==
  ASSUME HostsTyped, NEW h \in Hosts, StreamOK(h), Idle(sock[h]), NEW n \in Int, NEW c
  PROVE  Streams(h, Reply(Effect(sock[h]), n), c)
<1> DEFINE e == Effect(sock[h])
           d == Reply(e, n)
<1>1. EffectOK(e) /\ e.s = sock[h]
  BY EffectOfSocketOK DEF Idle
<1>2. e.sent = <<>> /\ e.took = 0 /\ e.gave = <<>>
  BY DEF Effect
<1> HIDE DEF e
<1>3. EffectOK(d) /\ d.s = sock[h] /\ d.sent = <<>> /\ d.took = 0 /\ d.gave = <<>>
  BY <1>1, <1>2, ReplyIs
<1> HIDE DEF d
<1>4. Timed(sock[h], d.s)
  BY <1>3 DEF Timed, SameCall, SameIn, SameOut
<1>5. Streams(h, d, c)
  BY <1>3, <1>4, NothingStreams DEF Idle
<1> QED
  BY <1>5 DEF d, e

\* A call that changes no more of the socket than the marks of the call, and
\* perhaps the write pipe.
LEMMA CallFlow ==
  ASSUME HostsTyped, NEW h \in Hosts, StreamOK(h), Live(sock[h]),
         NEW e, NEW c, LiveOK(e, c, sock[h].fin_state),
         SameIn(sock[h], e.s), e.s.output = sock[h].output,
         e.s.snd_una = sock[h].snd_una, e.s.snd_nxt = sock[h].snd_nxt,
         e.s.peer_window_size = sock[h].peer_window_size,
         e.s.fin_state = sock[h].fin_state,
         \/ e.s.write_pipe = sock[h].write_pipe
         \/ /\ \A k \in 1 .. Len(e.s.write_pipe) : e.s.write_pipe[k] = written[h] + k
            /\ written[h] + Len(e.s.write_pipe) <= StreamLength[h],
         e.sent = <<>>, e.took = 0, e.gave = <<>>
  PROVE  Flow(h, e, c) /\ Plain(e.sent)
<1>1. Established(h)
  BY DEF Live, Established
<1> QED
  BY <1>1, FlowStarts

\* OPT_READ
LEMMA ReadStreams ==
  ASSUME HostsTyped, CallsInv, NEW h \in Hosts, StreamOK(h), StreamOK(Peer(h)),
         Idle(sock[h]), NEW len \in Nat
  PROVE  Streams(h, Read(sock[h], len), "read")
<1> DEFINE s == sock[h]
           e == Effect(s)
           reading == [e EXCEPT !.s.read_flag = TRUE, !.s.read_len = len]
           last == Reply(SendLastFin(e), 0)
           d == Read(s, len)
           f == s.fin_state
<1>1. EffectOK(e) /\ e.s = s
  BY EffectOfSocketOK DEF Idle
<1>2. e.sent = <<>> /\ e.rep = <<>> /\ e.frees = 0 /\ e.took = 0 /\ e.gave = <<>>
  BY DEF Effect
<1>3. \/ d = Reply(e, CanRead(s))
      \/ s.valid /\ f = "CLOSE_WAIT" /\ d = last
      \/ s.valid /\ f # "LAST_ACK" /\ (d = ProcessRead(reading) \/ d = reading)
  BY DEF Read, CanRead, ENOTSOCK, EINVAL
<1>4. CASE d = Reply(e, CanRead(s))
  <2>1. CanRead(s) \in Int
    BY DEF CanRead, ENOTSOCK, EINVAL
  <2> HIDE DEF d
  <2>2. Streams(h, Reply(Effect(s), CanRead(s)), "read")
    BY <2>1, RefusedStreams
  <2> QED
    BY <1>4, <2>2 DEF d
<1>5. CASE s.valid /\ f = "CLOSE_WAIT" /\ d = last
  <2> DEFINE l == SendLastFin(e)
             p == sock[Peer(h)]
  <2>0. Flow(h, e, "none")
    <3>1. Live(s) /\ Marks(s, "none") /\ Established(h)
      BY <1>5, IdleIs DEF Idle, Live, Established
    <3> QED
      BY <3>1, EffectStarts
  <2> HIDE DEF e, d
  <2>1. /\ ButFin(e.s, l.s) /\ l.s.fin_state = "LAST_ACK"
        /\ SameTalk(e, l)
        /\ \E seg : /\ l.sent = Append(e.sent, seg)
                    /\ ControlSegment(seg, e.s, TRUE, e.s.snd_nxt, e.s.rcv_nxt + 1)
    BY <1>1, SendLastFinIs
  <2>2. EffectOK(l)
    BY <1>1, SendLastFinOK
  <2> HIDE DEF l
  <2>3. /\ EffectOK(last) /\ last.s = l.s /\ last.sent = l.sent
        /\ last.took = l.took /\ last.gave = l.gave
    <3>1. 0 \in Int
      OBVIOUS
    <3> QED
      BY <2>2, <3>1, ReplyIs DEF l
  <2> HIDE DEF last
  <2>4. PICK g : /\ l.sent = Append(e.sent, g)
                 /\ ControlSegment(g, e.s, TRUE, e.s.snd_nxt, e.s.rcv_nxt + 1)
    BY <2>1
  <2>5. /\ ButFin(e.s, last.s) /\ last.s.fin_state \notin FinWait
        /\ last.took = e.took /\ last.gave = e.gave
        /\ last.sent = Append(e.sent, g)
    BY <2>1, <2>3, <2>4 DEF SameTalk, FinWait
  <2>6. p.valid => p.fin_state \in FinSent /\ p.snd_nxt <= s.rcv_nxt
    <3>1. FinSeen(h) /\ f \notin FinSent
      BY <1>5 DEF FinSeen, FinHeard, FinSent
    <3> QED
      BY <1>5, <3>1, PeerFinished
  <2>7. p.valid => p.fin_state \in FinSent /\ e.s.rcv_nxt + 1 > p.snd_nxt
    <3>1. p.snd_nxt \in Nat /\ s.rcv_nxt \in Nat
      BY HostNumbers, SocketNumbers
    <3> QED
      BY <1>1, <2>6, <3>1
  <2>8. ButFin(e.s, e.s) /\ SegsOK(h, e)
    BY <2>0 DEF ButFin, SameIn, SameOut, Flow
  <2>9. Streams(h, last, "none") /\ last.took = 0 /\ last.gave = <<>>
    BY <1>1, <1>2, <1>5, <2>0, <2>3, <2>4, <2>5, <2>7, <2>8, EndsWithAck
  <2>10. Streams(h, last, "read")
    BY <2>9 DEF Streams
  <2> QED
    BY <1>5, <2>10 DEF d
<1>6. CASE s.valid /\ f # "LAST_ACK" /\ (d = ProcessRead(reading) \/ d = reading)
  <2> HIDE DEF e, d
  <2>1. EffectOK(reading)
    BY <1>1 DEF EffectOK, EffectType, SocketOK, SocketType
  <2>2. /\ reading.s.valid = s.valid /\ reading.s.state = s.state
        /\ reading.s.callback = s.callback /\ reading.s.fin_state = f
        /\ reading.s.fin_tag = s.fin_tag /\ reading.s.read_flag = TRUE
        /\ reading.s.write_flag = s.write_flag
        /\ reading.s.write_pipe = s.write_pipe
        /\ reading.sent = <<>> /\ reading.rep = <<>> /\ reading.frees = 0
    BY <1>1, <1>2 DEF EffectOK, EffectType, SocketOK, SocketType
  <2>3. /\ SameIn(s, reading.s) /\ reading.s.output = s.output
        /\ reading.s.snd_una = s.snd_una /\ reading.s.snd_nxt = s.snd_nxt
        /\ reading.s.peer_window_size = s.peer_window_size
        /\ reading.took = 0 /\ reading.gave = <<>>
    BY <1>1, <1>2 DEF EffectOK, EffectType, SocketOK, SocketType, SameIn
  <2> HIDE DEF reading
  <2>4. Live(s) /\ Live(reading.s)
    BY <1>6, <2>2, IdleIs DEF Live
  <2>5. Marks(reading.s, "read")
    BY <1>6, <2>2, <2>4, IdleIs DEF Idle, Marks, Live, FinSent, FinWait
  <2>6. LiveOK(reading, "read", f)
    BY <2>1, <2>2, <2>4, <2>5, CallStarts
  <2>7. Flow(h, reading, "read")
    BY <2>2, <2>3, <2>4, <2>6, CallFlow
  <2>8. Flow(h, d, "read")
    BY <1>6, <2>7, ProcessReadFlow
  <2>9. Streams(h, d, "read")
    BY <1>6, <2>8, FlowStreams
  <2> QED
    BY <2>9 DEF d
<1> HIDE DEF d, last, reading
<1> QED
  BY <1>3, <1>4, <1>5, <1>6 DEF d

\* OPT_WRITE
LEMMA WriteStreams ==
  ASSUME HostsTyped, NEW h \in Hosts, StreamOK(h),
         Idle(sock[h]), NEW data \in Seq(Byte),
         \A k \in 1 .. Len(data) : data[k] = written[h] + k,
         written[h] + Len(data) <= StreamLength[h]
  PROVE  Streams(h, Write(sock[h], data), "write")
<1> DEFINE s == sock[h]
           e == Effect(s)
           writing == [e EXCEPT !.s.write_flag = TRUE, !.s.write_pipe = data]
           d == Write(s, data)
           f == s.fin_state
<1>1. EffectOK(e) /\ e.s = s
  BY EffectOfSocketOK DEF Idle
<1>2. e.sent = <<>> /\ e.rep = <<>> /\ e.frees = 0 /\ e.took = 0 /\ e.gave = <<>>
  BY DEF Effect
<1>3. \/ d = Reply(e, CanWrite(s))
      \/ s.valid /\ f = "NONE" /\ (d = ProcessWriteSend(writing) \/ d = writing)
  BY DEF Write, CanWrite, ENOTSOCK, EINVAL
<1>4. CASE d = Reply(e, CanWrite(s))
  <2>1. CanWrite(s) \in Int
    BY DEF CanWrite, ENOTSOCK, EINVAL
  <2> HIDE DEF d
  <2>2. Streams(h, Reply(Effect(s), CanWrite(s)), "write")
    BY <2>1, RefusedStreams
  <2> QED
    BY <1>4, <2>2 DEF d
<1>5. CASE s.valid /\ f = "NONE" /\ (d = ProcessWriteSend(writing) \/ d = writing)
  <2> HIDE DEF e, d
  <2>1. EffectOK(writing)
    BY <1>1 DEF EffectOK, EffectType, SocketOK, SocketType
  <2>2. /\ writing.s.valid = s.valid /\ writing.s.state = s.state
        /\ writing.s.callback = s.callback /\ writing.s.fin_state = f
        /\ writing.s.fin_tag = s.fin_tag /\ writing.s.read_flag = s.read_flag
        /\ writing.s.write_flag = TRUE /\ writing.s.write_pipe = data
        /\ writing.sent = <<>> /\ writing.rep = <<>> /\ writing.frees = 0
    BY <1>1, <1>2 DEF EffectOK, EffectType, SocketOK, SocketType
  <2>3. /\ SameIn(s, writing.s) /\ writing.s.output = s.output
        /\ writing.s.snd_una = s.snd_una /\ writing.s.snd_nxt = s.snd_nxt
        /\ writing.s.peer_window_size = s.peer_window_size
        /\ writing.took = 0 /\ writing.gave = <<>>
    BY <1>1, <1>2 DEF EffectOK, EffectType, SocketOK, SocketType, SameIn
  <2> HIDE DEF writing
  <2>4. Live(s) /\ Live(writing.s)
    BY <1>5, <2>2, IdleIs DEF Live
  <2>5. Marks(writing.s, "write")
    BY <1>5, <2>2, <2>4, IdleIs DEF Idle, Marks, Live, FinSent, FinWait
  <2>6. LiveOK(writing, "write", f)
    BY <2>1, <2>2, <2>4, <2>5, CallStarts
  <2>7. Flow(h, writing, "write") /\ Plain(writing.sent)
    BY <2>2, <2>3, <2>4, <2>6, CallFlow
  <2>8. Flow(h, d, "write")
    BY <1>5, <2>7, ProcessWriteSendFlow
  <2>9. Streams(h, d, "write")
    BY <1>5, <2>8, FlowStreams
  <2> QED
    BY <2>9 DEF d
<1> HIDE DEF d, writing
<1> QED
  BY <1>3, <1>4, <1>5 DEF d

\* OPT_CLOSE
LEMMA CloseStreams ==
  ASSUME HostsTyped, NEW h \in Hosts, StreamOK(h), Idle(sock[h])
  PROVE  Streams(h, Close(sock[h]), "close")
<1> DEFINE s == sock[h]
           e == Effect(s)
           closing == [e EXCEPT !.s.fin_tag = TRUE]
           d == Close(s)
           f == s.fin_state
<1>1. EffectOK(e) /\ e.s = s
  BY EffectOfSocketOK DEF Idle
<1>2. e.sent = <<>> /\ e.rep = <<>> /\ e.frees = 0 /\ e.took = 0 /\ e.gave = <<>>
  BY DEF Effect
<1>3. \/ d = Reply(e, 0)
      \/ s.valid /\ f = "NONE" /\ d = ProcessWriteSend(closing)
  BY IdleIs DEF Close, Live
<1>4. CASE d = Reply(e, 0)
  <2>1. 0 \in Int
    OBVIOUS
  <2> HIDE DEF d
  <2>2. Streams(h, Reply(Effect(s), 0), "close")
    BY <2>1, RefusedStreams
  <2> QED
    BY <1>4, <2>2 DEF d
<1>5. CASE s.valid /\ f = "NONE" /\ d = ProcessWriteSend(closing)
  <2> HIDE DEF e, d
  <2>1. EffectOK(closing)
    BY <1>1 DEF EffectOK, EffectType, SocketOK, SocketType
  <2>2. /\ closing.s.valid = s.valid /\ closing.s.state = s.state
        /\ closing.s.callback = s.callback /\ closing.s.fin_state = f
        /\ closing.s.fin_tag = TRUE /\ closing.s.read_flag = s.read_flag
        /\ closing.s.write_flag = s.write_flag
        /\ closing.s.write_pipe = s.write_pipe
        /\ closing.sent = <<>> /\ closing.rep = <<>> /\ closing.frees = 0
    BY <1>1, <1>2 DEF EffectOK, EffectType, SocketOK, SocketType
  <2>3. /\ SameIn(s, closing.s) /\ closing.s.output = s.output
        /\ closing.s.snd_una = s.snd_una /\ closing.s.snd_nxt = s.snd_nxt
        /\ closing.s.peer_window_size = s.peer_window_size
        /\ closing.took = 0 /\ closing.gave = <<>>
    BY <1>1, <1>2 DEF EffectOK, EffectType, SocketOK, SocketType, SameIn
  <2> HIDE DEF closing
  <2>4. Live(s) /\ Live(closing.s)
    BY <1>5, <2>2, IdleIs DEF Live
  <2>5. Marks(closing.s, "close")
    BY <1>5, <2>2, <2>4, IdleIs DEF Idle, Marks, Live, FinSent, FinWait
  <2>6. LiveOK(closing, "close", f)
    BY <2>1, <2>2, <2>4, <2>5, CallStarts
  <2>7. Flow(h, closing, "close") /\ Plain(closing.sent)
    BY <2>2, <2>3, <2>4, <2>6, CallFlow
  <2>8. Flow(h, d, "close")
    BY <1>5, <2>7, ProcessWriteSendFlow
  <2>9. Streams(h, d, "close")
    BY <1>5, <2>8, FlowStreams
  <2> QED
    BY <2>9 DEF d
<1> HIDE DEF d, closing
<1> QED
  BY <1>3, <1>4, <1>5 DEF d

-----------------------------------------------------------------------------
(***************************************************************************)
(* The handshake: what a host does that is not established.                *)
(***************************************************************************)

\* An acknowledgement of the SYN and nothing else: the server, in SYN_RECV,
\* takes it for the end of the handshake; and the one the client sends for
\* that end.
Opens(seg) == seg.ack /\ seg.ack_seq = First
Opener(seg) == Opens(seg) /\ seg.seq = First /\ seg.data = <<>>

\* The host waits on, or gives up.
Waiting(h, e, q) ==
    /\ sock[h].state # "ESTABLISHED" /\ e.s.state # "ESTABLISHED"
    /\ e.took = 0 /\ e.gave = <<>>
    /\ e.s.state = sock[h].state => e.s.rcv_nxt = sock[h].rcv_nxt
    /\ \A i \in DOMAIN e.sent : e.sent[i].ack =>
           e.s.state # "SYN_SENT" /\ e.sent[i].ack_seq = sock[h].rcv_nxt
    /\ q = net[h] \/ sock[h].state # "SYN_RECV" \/ ~Opens(Head(net[h]))

\* The head of net[h] ends the handshake.
Opening(h, e, q) ==
    /\ net[h] # <<>> /\ sock[h].state \in {"SYN_SENT", "SYN_RECV"}
    /\ Head(net[h]).ack /\ e.s.state = "ESTABLISHED"
    /\ e.took = 0 /\ e.gave = <<>>
    /\ sock[h].state = "SYN_SENT" => \E a : e.sent = <<a>> /\ Opener(a)

Handshakes(h, e, q) ==
    sock[h].state = "ESTABLISHED" \/ Waiting(h, e, q) \/ Opening(h, e, q)

\* The socket is gone, and what was sent carries nothing.
LEMMA GoneStreams ==
  ASSUME HostsTyped, NEW h \in Hosts, StreamOK(h), NEW e,
         e.s = FreeSocket, e.took = 0, e.gave = <<>>,
         \A i \in DOMAIN e.sent : e.sent[i].data = <<>> /\ ~e.sent[i].fin, NEW c
  PROVE  Streams(h, e, c)
<1>1. written[h] \in Nat /\ got[h] \in Seq(Byte)
  BY HostNumbers
<1>2. written[h] + e.took = written[h] /\ got[h] \o e.gave = got[h]
  BY <1>1, ConcatNothing
<1>3. ~e.s.valid /\ e.s.state = "CLOSE"
  BY DEF FreeSocket
<1>4. SegsOK(h, e)
  BY <1>3 DEF SegsOK, SegFor
<1>5. Knows(e.s, sock[Peer(h)]) /\ Later(sock[h], e.s)
  BY <1>3 DEF Knows, Later
<1> QED
  BY <1>2, <1>3, <1>4, <1>5 DEF Streams, StreamOK

\* The timer of a socket that waits for the end of the handshake.
LEMMA TimeoutWaits ==
  ASSUME HostsTyped, NEW h \in Hosts, StreamOK(h), Shape(sock[h]), sock[h].valid,
         sock[h].state \in {"SYN_SENT", "SYN_RECV"}, NEW c, Marks(sock[h], c)
  PROVE  /\ Streams(h, TCPTimeout(sock[h]), c)
         /\ Waiting(h, TCPTimeout(sock[h]), net[h])
<1> DEFINE s == sock[h]
           d == TCPTimeout(s)
<1>1. SocketOK(s)
  BY HostNumbers
<1>2. ASSUME NEW t, SocketOK(t), Timed(s, t), d = Effect(t)
      PROVE  Streams(h, d, c) /\ Waiting(h, d, net[h])
  <2>1. EffectOK(d) /\ d.s = t /\ d.sent = <<>> /\ d.took = 0 /\ d.gave = <<>>
    BY <1>2, EffectOfSocketOK DEF Effect
  <2>2. t.state = s.state /\ t.rcv_nxt = s.rcv_nxt
    BY <1>2 DEF Timed, SameCall, SameIn
  <2> HIDE DEF d
  <2>3. Streams(h, d, c)
    BY <1>2, <2>1, NothingStreams
  <2>4. Waiting(h, d, net[h])
    BY <2>1, <2>2 DEF Waiting
  <2> QED
    BY <2>3, <2>4
<1>3. ASSUME NEW t, NEW r, TimesOut(s, t, r),
             \/ d = r
             \/ d = ShutdownSocket(Control(r, {"ack"}, r.s.snd_nxt, r.s.rcv_nxt))
      PROVE  Streams(h, d, c) /\ Waiting(h, d, net[h])
  <2> DEFINE final == Control(r, {"ack"}, r.s.snd_nxt, r.s.rcv_nxt)
             x == ShutdownSocket(final)
             a == Segment(r.s, {"ack"}, r.s.snd_nxt, r.s.rcv_nxt, <<>>)
  <2>1. EffectOK(r) /\ r.sent \in Seq(SegmentType)
    BY <1>3 DEF TimesOut, EffectOK, EffectType
  <2>2. /\ CallOK(r, c, s.fin_state) /\ Timed(s, r.s) /\ r.rep = <<>>
        /\ r.took = 0 /\ r.gave = <<>>
        /\ \E g : /\ r.sent = <<g>> /\ g.syn /\ ~g.fin /\ g.data = <<>>
                  /\ g.ack => /\ s.state = "SYN_RECV" /\ g.ack_seq = s.rcv_nxt
                              /\ g.window = InFree(s)
    BY <1>1, <1>3, ResendsSyn
  <2>3. PICK g : /\ r.sent = <<g>> /\ ~g.fin /\ g.data = <<>>
                 /\ g.ack => /\ s.state = "SYN_RECV" /\ g.ack_seq = s.rcv_nxt
                             /\ g.window = InFree(s)
    BY <2>2
  <2>4. DOMAIN r.sent = {1} /\ r.sent[1] = g
    BY <2>3
  <2>5. /\ r.s.state = s.state /\ r.s.rcv_nxt = s.rcv_nxt /\ r.s.input = s.input
        /\ r.s.callback = s.callback /\ s.callback
    BY <2>2 DEF Timed, SameCall, SameIn, Shape
  <2>6. RightEdge(r.s) = RightEdge(s) /\ RightEdge(s) = s.rcv_nxt + InFree(s)
        /\ RightEdge(s) <= RightEdge(s) /\ s.rcv_nxt <= s.rcv_nxt
    <3>1. RightEdge(r.s) = RightEdge(s) /\ RightEdge(s) = s.rcv_nxt + InFree(s)
      BY <2>5 DEF RightEdge, InFree
    <3>2. RightEdge(s) \in Nat /\ s.rcv_nxt \in Nat
      BY <1>1, SocketNumbers
    <3> QED
      BY <3>1, <3>2
  <2>7. SegFor(g, written[h] + r.took, sock[Peer(h)], r.s)
    BY <2>3, <2>5, <2>6 DEF SegFor
  <2>8. SegsOK(h, r)
    BY <2>4, <2>7 DEF SegsOK
  <2>9. Streams(h, r, c)
    BY <2>1, <2>2, <2>8, TimedStreams
  <2>10. Waiting(h, r, net[h])
    BY <2>2, <2>3, <2>4, <2>5 DEF Waiting
  <2>11. r.s.snd_nxt \in Nat /\ r.s.rcv_nxt \in Nat
    BY <2>1, Numbers
  <2>12. EffectOK(final) /\ final.s = r.s
    BY <2>1, <2>11, ControlOK
  <2>13. final.sent = Append(r.sent, a) /\ SameTalk(r, final)
    BY <2>1, <2>11, ControlIs DEF EffectOK
  <2>14. ControlSegment(a, r.s, FALSE, r.s.snd_nxt, r.s.rcv_nxt)
    BY <2>1, <2>11, ControlSegments DEF EffectOK, SocketOK
  <2> HIDE DEF final, a
  <2>15. Marks(final.s, Current(final, c)) /\ final.s.state # "CLOSE"
         /\ final.s.callback
    BY <2>2, <2>5, <2>12, <2>13 DEF CallOK, Current, SameTalk
  <2>16. x.s = FreeSocket /\ x.sent = final.sent /\ x.took = final.took
         /\ x.gave = final.gave
    BY <2>12, <2>15, ShutdownCalls
  <2> HIDE DEF x
  <2>17. x.sent = Append(r.sent, a) /\ x.took = 0 /\ x.gave = <<>>
    BY <2>2, <2>13, <2>16 DEF SameTalk
  <2>18. ~a.fin /\ a.data = <<>> /\ a.ack_seq = s.rcv_nxt
    BY <2>5, <2>14 DEF ControlSegment
  <2>19. \A i \in DOMAIN x.sent : x.sent[i] = g \/ x.sent[i] = a
    <3>1. a \in SegmentType
      BY <2>14 DEF ControlSegment
    <3>2. /\ <<a>> \in Seq(SegmentType) /\ x.sent = r.sent \o <<a>>
          /\ DOMAIN <<a>> = {1} /\ <<a>>[1] = a
      BY <2>1, <2>17, <3>1, AppendedOne
    <3>3. \A i \in DOMAIN x.sent :
             \/ i \in DOMAIN r.sent /\ x.sent[i] = r.sent[i]
             \/ i - Len(r.sent) \in DOMAIN <<a>>
                /\ x.sent[i] = <<a>>[i - Len(r.sent)]
      BY <2>1, <3>2, ConcatElements
    <3> QED
      BY <2>4, <3>2, <3>3
  <2>20. Streams(h, x, c)
    BY <2>3, <2>16, <2>17, <2>18, <2>19, GoneStreams
  <2>21. Waiting(h, x, net[h])
    <3>1. x.s.state = "CLOSE"
      BY <2>16 DEF FreeSocket
    <3> QED
      BY <2>3, <2>17, <2>18, <2>19, <3>1 DEF Waiting
  <2> QED
    BY <1>3, <2>9, <2>10, <2>20, <2>21 DEF x, final
<1> HIDE DEF d
<1>4. Streams(h, d, c) /\ Waiting(h, d, net[h])
  BY <1>1, <1>2, <1>3, TCPTimeoutIs DEF d
<1> QED
  BY <1>4 DEF d

\* The end of the handshake: both streams are at their beginning.
LEMMA OpeningStreams ==
  ASSUME HostsTyped, NEW h \in Hosts, StreamOK(h), HostOK(h), sock[h].valid,
         sock[h].state \in {"SYN_SENT", "SYN_RECV"}, sock[h].rcv_nxt <= First,
         NEW seg \in SegmentType,
         SegFor(seg, written[Peer(h)], sock[h], sock[Peer(h)]),
         seg.ack, seg.ack_seq = First,
         NEW e, EffectOK(e), Opened(sock[h], e.s, First, seg.window),
         e.took = 0, e.gave = <<>>,
         \/ e.sent = <<>>
         \/ \E a : ControlSegment(a, sock[h], FALSE, First, First) /\ e.sent = <<a>>,
         NEW c
  PROVE  Streams(h, e, c)
<1> DEFINE s == sock[h]
           p == sock[Peer(h)]
           L == StreamLength[h]
           v == written[Peer(h)]
<1>1. SocketOK(s) /\ SocketOK(e.s) /\ written[h] \in Nat /\ got[h] \in Seq(Byte)
      /\ v \in Nat /\ First \in Nat /\ L \in Nat
  BY HostNumbers DEF EffectOK
<1>2. written[h] + e.took = written[h] /\ got[h] \o e.gave = got[h]
  BY <1>1, ConcatNothing
<1>3. /\ s.fin_state = "NONE" /\ s.input = <<>> /\ s.output = <<>>
      /\ s.write_pipe = <<>> /\ s.snd_nxt = First
  BY DEF HostOK, Shape, First
<1>4. written[h] = 0 /\ got[h] = <<>>
  BY DEF HostOK, StreamOK
<1>5. /\ e.s.fin_state = "NONE" /\ e.s.input = <<>> /\ e.s.output = <<>>
      /\ e.s.write_pipe = <<>> /\ e.s.snd_nxt = First /\ e.s.snd_una = First
      /\ e.s.rcv_nxt = First /\ e.s.peer_window_size = seg.window
      /\ e.s.valid /\ e.s.state = "ESTABLISHED"
  BY <1>3 DEF Opened
<1>6. SendSide(e.s, 0, L)
  <2>1. Len(<<>>) = 0 /\ First <= First /\ First + 0 = First + 0 /\ First <= First + 0
        /\ 0 + 0 <= L
    BY <1>1
  <2>2. \A k \in 1 .. 0 : FALSE
    OBVIOUS
  <2> QED
    BY <1>5, <2>1, <2>2 DEF SendSide
<1>7. ReceiveSide(e.s, <<>>, v)
  <2>1. Len(<<>>) = 0 /\ First = First + 0 + 0 /\ First <= First + v
    BY <1>1
  <2>2. \A k \in 1 .. 0 : FALSE
    OBVIOUS
  <2> QED
    BY <1>5, <2>1, <2>2 DEF ReceiveSide
<1>8. Knows(e.s, p)
  <2>1. s.fin_state \notin FinSent
    BY <1>3 DEF FinSent
  <2> QED
    BY <1>5, <2>1 DEF Knows, SegFor
<1>9. Later(s, e.s)
  <2>1. s.rcv_nxt \in Nat /\ InFree(s) \in Nat
    BY <1>1, SocketNumbers
  <2>2. RightEdge(s) = s.rcv_nxt + InFree(s) /\ RightEdge(e.s) = First + InFree(s)
    BY <1>3, <1>5 DEF RightEdge, InFree
  <2>3. RightEdge(s) <= RightEdge(e.s)
    BY <1>1, <2>1, <2>2
  <2> QED
    BY <1>5, <2>3 DEF Later
<1>10. SegsOK(h, e)
  <2>1. ASSUME NEW a, ControlSegment(a, s, FALSE, First, First)
        PROVE  SegFor(a, written[h] + e.took, p, e.s)
    <3>1. a.data = <<>> /\ ~a.fin /\ a.ack_seq = First /\ a.window = InFree(s)
      BY <2>1 DEF ControlSegment
    <3>2. RightEdge(e.s) = First + InFree(s)
      BY <1>3, <1>5 DEF RightEdge, InFree
    <3>3. First + InFree(s) <= First + InFree(s) /\ First <= First
      BY <1>1, SocketNumbers
    <3> QED
      BY <1>5, <3>1, <3>2, <3>3 DEF SegFor
  <2>2. CASE e.sent = <<>>
    BY <2>2 DEF SegsOK
  <2>3. CASE e.sent # <<>>
    <3>1. PICK a : ControlSegment(a, s, FALSE, First, First) /\ e.sent = <<a>>
      BY <2>3
    <3>2. DOMAIN e.sent = {1} /\ e.sent[1] = a
      BY <3>1
    <3> QED
      BY <2>1, <3>1, <3>2 DEF SegsOK
  <2> QED
    BY <2>2, <2>3
<1>11. Counted(<<>>, v) /\ 0 <= L
  <2>1. Len(<<>>) = 0 /\ 0 <= v /\ 0 <= L /\ \A k \in 1 .. 0 : FALSE
    BY <1>1
  <2> QED
    BY <2>1 DEF Counted
<1>12. s.fin_state \notin FinSent
  BY <1>3 DEF FinSent
<1> QED
  BY <1>2, <1>4, <1>6, <1>7, <1>8, <1>9, <1>10, <1>11, <1>12 DEF Streams

\* The segment that opens the connection is in q, and before all others that
\* the server would take for it.
HasOpener(q) == \E i \in DOMAIN q : Opener(q[i])
OpenerFirst(q) ==
    \A i \in DOMAIN q : Opens(q[i]) => \E j \in DOMAIN q : j <= i /\ Opener(q[j])

\* Whatever is on its way while the connection is opened; the first thing the
\* server takes for the end of the handshake is the client's acknowledgement
\* of its SYNACK, which nothing overtakes.
Unopened ==
    /\ down[Server] = "no"
    /\ Openable(Client) =>
           Openable(Server) /\ net[Server] = <<>> /\ listener.waiting = <<>>
    /\ Openable(Server) =>
           /\ net[Client] = <<>> /\ written[Client] = 0
           /\ sock[Client].state # "ESTABLISHED"
           /\ \A i \in DOMAIN net[Server] : ~Opens(net[Server][i])

ClientOpens ==
    sock[Client].state = "SYN_SENT" =>
        /\ sock[Client].rcv_nxt = 0 /\ sock[Server].state # "ESTABLISHED"
        /\ \A i \in DOMAIN net[Server] : ~net[Server][i].ack

ServerOpens ==
    sock[Server].state = "SYN_RECV" =>
        /\ sock[Client].state = "ESTABLISHED" => HasOpener(net[Server])
        /\ OpenerFirst(net[Server])

HandshakeOK == Unopened /\ ClientOpens /\ ServerOpens

StreamInv == (\A h \in Hosts : StreamOK(h)) /\ HandshakeOK

\* TCPCallback in SYN_SENT
LEMMA SynSentStreams ==
  ASSUME HostsTyped, WorldTyped, CallsInv, StreamInv, NEW h \in Hosts,
         net[h] # <<>>, sock[h].valid, sock[h].state = "SYN_SENT"
  PROVE  /\ Streams(h, TCPCallback(sock[h], Head(net[h])), call[h])
         /\ Handshakes(h, TCPCallback(sock[h], Head(net[h])), Tail(net[h]))
<1> DEFINE s == sock[h]
           seg == Head(net[h])
           e == Effect(s)
           d == TCPCallback(s, seg)
           c == call[h]
           n == seg.seq + 1
<1>1. net[h] \in Seq(SegmentType) /\ HostOK(h) /\ StreamOK(h) /\ ListenerOK
  BY DEF WorldTyped, CallsInv, StreamInv
<1>2. seg = net[h][1] /\ 1 \in DOMAIN net[h] /\ seg \in SegmentType
  BY <1>1, TailElements
<1>3. SynOK(h, seg) /\ SegFor(seg, written[Peer(h)], s, sock[Peer(h)])
  BY <1>1, <1>2 DEF CallsInv, SynsOK, StreamOK
<1>4. EffectOK(e) /\ e.s = s /\ SocketOK(s)
  BY HostNumbers, EffectOfSocketOK
<1>5. e.sent = <<>> /\ e.rep = <<>> /\ e.frees = 0 /\ e.took = 0 /\ e.gave = <<>>
  BY DEF Effect
<1>6. d = ReceiveSynSent(e, seg)
  BY DEF TCPCallback
<1>7. h = Client
  BY <1>1, TwoHosts DEF ListenerOK
<1>8. Shape(s) /\ s.callback /\ s.snd_nxt = First
  BY <1>1 DEF HostOK, Shape, First
<1>9. s.rcv_nxt = 0
  BY <1>7 DEF StreamInv, HandshakeOK, ClientOpens
<1>10. seg.syn => seg.ack /\ seg.ack_seq = First /\ seg.seq = ISS
  BY <1>3, <1>7 DEF SynOK, First
<1> HIDE DEF e, d, seg
<1>11. EffectOK(d)
  BY <1>2, <1>4, <1>6, ReceiveSynSentOK
<1>12. IF seg.syn
       THEN /\ Opened(e.s, d.s, n, seg.window)
            /\ d.took = e.took /\ d.gave = e.gave
            /\ \E a : /\ ControlSegment(a, e.s, FALSE, e.s.snd_nxt, n)
                      /\ d.sent = Append(e.sent, a)
       ELSE d = e
  <2>1. e.s.callback /\ (seg.syn => seg.ack /\ seg.ack_seq = e.s.snd_nxt)
    BY <1>4, <1>8, <1>10
  <2> DEFINE r == ReceiveSynSent(e, seg)
  <2>2. IF seg.syn
        THEN /\ Opened(e.s, r.s, seg.seq + 1, seg.window)
             /\ r.rep = Append(e.rep, 0)
             /\ r.took = e.took /\ r.gave = e.gave /\ r.frees = e.frees
             /\ \E a : /\ ControlSegment(a, e.s, FALSE, e.s.snd_nxt, seg.seq + 1)
                       /\ r.sent = Append(e.sent, a)
        ELSE r = e
    BY ONLY <1>2, <1>4, <2>1, ReceiveSynSentIs, Zenon
  <2> QED
    BY ONLY <1>6, <2>2
<1>13. CASE seg.syn
  <2>1. n = First
    BY <1>10, <1>13 DEF First
  <2>2. PICK a : /\ ControlSegment(a, e.s, FALSE, e.s.snd_nxt, n)
                 /\ d.sent = Append(e.sent, a)
    BY <1>12, <1>13
  <2>3. d.sent = <<a>>
    BY <1>5, <2>2
  <2>4. ControlSegment(a, s, FALSE, First, First)
    BY <1>4, <1>8, <2>1, <2>2
  <2>5. Opened(s, d.s, First, seg.window) /\ d.took = 0 /\ d.gave = <<>>
    BY <1>4, <1>5, <1>12, <1>13, <2>1
  <2>6. s.rcv_nxt <= First
    BY <1>9 DEF First, ISS
  <2>7. Streams(h, d, c)
    BY <1>1, <1>2, <1>3, <1>10, <1>11, <1>13, <2>3, <2>4, <2>5, <2>6,
       OpeningStreams
  <2>8. Opener(a)
    BY <2>4 DEF ControlSegment, Opener, Opens
  <2>9. Opening(h, d, Tail(net[h]))
    BY <1>10, <1>13, <2>3, <2>5, <2>8 DEF Opening, Opened, seg
  <2> QED
    BY <2>7, <2>9 DEF d, seg, Handshakes
<1>14. CASE ~seg.syn
  <2>1. d = e
    BY <1>12, <1>14
  <2>2. Timed(s, d.s) /\ d.sent = <<>> /\ d.took = 0 /\ d.gave = <<>>
    BY <1>4, <1>5, <2>1 DEF Timed, SameCall, SameIn, SameOut
  <2>3. Streams(h, d, c)
    BY <1>1, <1>8, <1>11, <2>2, NothingStreams
  <2>4. Waiting(h, d, Tail(net[h]))
    BY <1>4, <2>1, <2>2 DEF Waiting
  <2> QED
    BY <2>3, <2>4 DEF d, seg, Handshakes
<1> QED
  BY <1>13, <1>14

\* TCPCallback in SYN_RECV
LEMMA SynRecvStreams ==
  ASSUME HostsTyped, WorldTyped, CallsInv, StreamInv, NEW h \in Hosts,
         net[h] # <<>>, sock[h].valid, sock[h].state = "SYN_RECV"
  PROVE  /\ Streams(h, TCPCallback(sock[h], Head(net[h])), call[h])
         /\ Handshakes(h, TCPCallback(sock[h], Head(net[h])), Tail(net[h]))
<1> DEFINE s == sock[h]
           seg == Head(net[h])
           e == Effect(s)
           d == TCPCallback(s, seg)
           c == call[h]
           n == seg.seq + Len(seg.data)
<1>1. net[h] \in Seq(SegmentType) /\ HostOK(h) /\ StreamOK(h) /\ ListenerOK
  BY DEF WorldTyped, CallsInv, StreamInv
<1>2. seg = net[h][1] /\ 1 \in DOMAIN net[h] /\ seg \in SegmentType
  BY <1>1, TailElements
<1>3. SegFor(seg, written[Peer(h)], s, sock[Peer(h)])
  BY <1>1, <1>2 DEF StreamOK
<1>4. EffectOK(e) /\ e.s = s /\ SocketOK(s)
  BY HostNumbers, EffectOfSocketOK
<1>5. e.sent = <<>> /\ e.rep = <<>> /\ e.frees = 0 /\ e.took = 0 /\ e.gave = <<>>
  BY DEF Effect
<1>6. d = ReceiveSynRecv(e, seg)
  BY DEF TCPCallback
<1>7. h = Server
  BY <1>1, TwoHosts DEF ListenerOK
<1>8. Shape(s) /\ s.callback /\ s.snd_nxt = First /\ s.rcv_nxt = First
  BY <1>1 DEF HostOK, Shape, First
<1>9. Opens(seg) => seg.seq = First /\ seg.data = <<>>
  <2>1. ASSUME Opens(seg) PROVE Opener(seg)
    <3>1. PICK j \in DOMAIN net[h] : j <= 1 /\ Opener(net[h][j])
      BY <1>2, <1>7, <2>1 DEF StreamInv, HandshakeOK, ServerOpens, OpenerFirst
    <3>2. j = 1
      <4>1. j \in 1 .. Len(net[h]) /\ j <= 1
        BY <1>1, <3>1
      <4> QED
        BY <4>1
    <3> QED
      BY <1>2, <3>1, <3>2
  <2> QED
    BY <2>1 DEF Opener
<1> HIDE DEF e, d, seg
<1>10. EffectOK(d)
  BY <1>2, <1>4, <1>6, ReceiveSynRecvOK
<1>11. IF seg.ack /\ seg.ack_seq = e.s.snd_nxt
       THEN /\ Opened(e.s, d.s, n, seg.window)
            /\ d.sent = e.sent /\ d.took = e.took /\ d.gave = e.gave
       ELSE d = e
  <2>1. e.s.callback
    BY <1>4, <1>8
  <2> QED
    BY <1>2, <1>4, <1>6, <2>1, ReceiveSynRecvIs
<1>12. CASE Opens(seg)
  <2>1. n = First
    <3>1. seg.seq = First /\ seg.data = <<>> /\ First \in Nat
      BY <1>9, <1>12 DEF First, ISS
    <3> QED
      BY <3>1
  <2>2. seg.ack /\ seg.ack_seq = First
    BY <1>12 DEF Opens
  <2>3. /\ Opened(s, d.s, First, seg.window) /\ d.sent = <<>> /\ d.took = 0
        /\ d.gave = <<>>
    BY <1>4, <1>5, <1>8, <1>11, <2>1, <2>2
  <2>4. s.rcv_nxt <= First
    BY <1>8 DEF First, ISS
  <2>5. Streams(h, d, c)
    BY <1>1, <1>2, <1>3, <1>10, <2>2, <2>3, <2>4, OpeningStreams
  <2>6. Opening(h, d, Tail(net[h]))
    BY <2>2, <2>3 DEF Opening, Opened, seg
  <2> QED
    BY <2>5, <2>6 DEF d, seg, Handshakes
<1>13. CASE ~Opens(seg)
  <2>1. d = e
    BY <1>4, <1>8, <1>11, <1>13 DEF Opens
  <2>2. Timed(s, d.s) /\ d.sent = <<>> /\ d.took = 0 /\ d.gave = <<>>
    BY <1>4, <1>5, <2>1 DEF Timed, SameCall, SameIn, SameOut
  <2>3. Streams(h, d, c)
    BY <1>1, <1>8, <1>10, <2>2, NothingStreams
  <2>4. Waiting(h, d, Tail(net[h]))
    BY <1>4, <1>13, <2>1, <2>2 DEF Waiting, seg
  <2> QED
    BY <2>3, <2>4 DEF d, seg, Handshakes
<1> QED
  BY <1>12, <1>13

\* TCPCallback
LEMMA CallbackStreams ==
  ASSUME HostsTyped, WorldTyped, CallsInv, StreamInv, NEW h \in Hosts,
         net[h] # <<>>, sock[h].valid
  PROVE  /\ Streams(h, TCPCallback(sock[h], Head(net[h])), call[h])
         /\ Handshakes(h, TCPCallback(sock[h], Head(net[h])), Tail(net[h]))
<1> DEFINE s == sock[h]
           seg == Head(net[h])
<1>1. net[h] \in Seq(SegmentType) /\ Shape(s)
  BY DEF WorldTyped, CallsInv, HostOK
<1>2. seg = net[h][1] /\ 1 \in DOMAIN net[h] /\ seg \in SegmentType
  BY <1>1, TailElements
<1>3. s.state \in {"SYN_SENT", "SYN_RECV", "ESTABLISHED"}
  <2>1. s.state \in States
    BY HostNumbers DEF SocketOK, SocketType
  <2> QED
    BY <1>1, <2>1 DEF States, Shape
<1>4. CASE s.state = "ESTABLISHED"
  <2>1. StreamOK(h) /\ StreamOK(Peer(h)) /\ Established(h)
    BY <1>4, TwoHosts DEF StreamInv, Established
  <2>2. TCPCallback(s, seg) = ReceiveEstablished(Effect(s), seg)
    BY <1>4 DEF TCPCallback
  <2>3. Streams(h, ReceiveEstablished(Effect(s), net[h][1]), call[h])
    BY <1>2, <2>1, ReceiveEstablishedStreams
  <2> QED
    BY <1>2, <1>4, <2>2, <2>3 DEF Handshakes
<1> QED
  BY <1>3, <1>4, SynSentStreams, SynRecvStreams

\* TCPTimeout
LEMMA TimerStreams ==
  ASSUME HostsTyped, WorldTyped, CallsInv, StreamInv, NEW h \in Hosts, sock[h].valid
  PROVE  /\ Streams(h, TCPTimeout(sock[h]), call[h])
         /\ Handshakes(h, TCPTimeout(sock[h]), net[h])
<1> DEFINE s == sock[h]
<1>1. Shape(s) /\ Marks(s, call[h]) /\ StreamOK(h)
  BY DEF CallsInv, HostOK, StreamInv
<1>2. s.state \in {"SYN_SENT", "SYN_RECV", "ESTABLISHED"}
  <2>1. s.state \in States
    BY HostNumbers DEF SocketOK, SocketType
  <2> QED
    BY <1>1, <2>1 DEF States, Shape
<1>3. CASE s.state = "ESTABLISHED"
  <2>1. Established(h)
    BY <1>3 DEF Established
  <2>2. Streams(h, TCPTimeout(s), call[h])
    BY <1>1, <2>1, TCPTimeoutStreams
  <2> QED
    BY <1>3, <2>2 DEF Handshakes
<1>4. CASE s.state \in {"SYN_SENT", "SYN_RECV"}
  BY <1>1, <1>4, TimeoutWaits DEF Handshakes
<1> QED
  BY <1>2, <1>3, <1>4

\* A call of an application without a socket is refused.
LEMMA CallWaits ==
  ASSUME HostsTyped, NEW h \in Hosts, Idle(sock[h]), NEW e, NEW n \in Int,
         sock[h].valid \/ e = Reply(Effect(sock[h]), n)
  PROVE  Handshakes(h, e, net[h])
<1> DEFINE s == sock[h]
           d == Reply(Effect(s), n)
<1>1. s.state = "ESTABLISHED" \/ (s.state = "CLOSE" /\ ~s.valid)
  <2>1. FreeSocket.state = "CLOSE"
    BY DEF FreeSocket
  <2>2. s.valid \/ s = FreeSocket
    BY IdleIs
  <2>3. s.valid => s.state = "ESTABLISHED"
    BY IdleIs DEF Live
  <2> QED
    BY <2>1, <2>2, <2>3
<1>2. EffectOK(Effect(s)) /\ Effect(s).s = s
  BY EffectOfSocketOK DEF Idle
<1>3. Effect(s).sent = <<>> /\ Effect(s).took = 0 /\ Effect(s).gave = <<>>
  BY DEF Effect
<1>4. d.s = s /\ d.sent = <<>> /\ d.took = 0 /\ d.gave = <<>>
  BY <1>2, <1>3, ReplyIs
<1> HIDE DEF d
<1>5. s.state = "CLOSE" => Waiting(h, d, net[h])
  BY <1>4 DEF Waiting
<1> QED
  BY <1>1, <1>5 DEF Handshakes, d

-----------------------------------------------------------------------------
(***************************************************************************)
(* The streams of both hosts after a step of one of them.                  *)
(***************************************************************************)

\* What holds of a segment holds when its receiver has gone on.
LEMMA SegmentWaits ==
  ASSUME NEW seg \in SegmentType, NEW w, NEW p, SocketOK(p), NEW t, SocketOK(t),
         Later(p, t), NEW s, SegFor(seg, w, p, s),
         t.valid /\ p.fin_state \in FinSent =>
             t.fin_state \in FinSent /\ t.snd_nxt = p.snd_nxt
  PROVE  SegFor(seg, w, t, s)
<1> DEFINE x == seg.seq
           l == Len(seg.data)
           r == RightEdge(p)
           v == RightEdge(t)
<1>1. x \in Nat /\ l \in Nat /\ r \in Nat /\ v \in Nat
  BY SegmentNumbers, SocketNumbers
<1>2. t.valid => p.valid /\ r <= v
  BY DEF Later
<1>3. seg.data # <<>> /\ p.valid => x + l <= r
  BY DEF SegFor
<1> HIDE DEF x, l, r, v
<1>4. seg.data # <<>> /\ t.valid => x + l <= v
  BY <1>1, <1>2, <1>3
<1>5. seg.ack /\ t.valid /\ s.valid =>
          \/ seg.ack_seq <= s.rcv_nxt /\ seg.ack_seq + seg.window <= RightEdge(s)
          \/ t.fin_state \in FinSent /\ seg.ack_seq > t.snd_nxt
  BY <1>2 DEF SegFor
<1> QED
  BY <1>4, <1>5 DEF SegFor, x, l, v

\* The reader is not ahead of a writer that has gone on.
LEMMA MoreWritten ==
  ASSUME NEW w \in Nat, NEW v \in Nat, w <= v, NEW s, SocketOK(s), NEW g \in Seq(Byte)
  PROVE  /\ ReceiveSide(s, g, w) => ReceiveSide(s, g, v)
         /\ Counted(g, w) => Counted(g, v)
<1> DEFINE x == s.rcv_nxt
           l == Len(g)
<1>1. x \in Nat /\ l \in Nat /\ First \in Nat
  BY SocketNumbers DEF First, ISS
<1> HIDE DEF x, l
<1>2. (x <= First + w => x <= First + v) /\ (l <= w => l <= v)
  BY <1>1
<1> QED
  BY <1>2 DEF ReceiveSide, Counted, x, l

\* The host that moves.
LEMMA MovesStreamHost ==
  ASSUME HostsTyped, WorldTyped, CallsInv, StreamInv, NEW h, NEW e, NEW c, NEW q,
         NEW heard, Moves(h, e, c, q, heard), Streams(h, e, c), Handshakes(h, e, q)
  PROVE  StreamOK(h)'
<1> DEFINE p == Peer(h)
           s == sock[h]
           w == written[p]
<1>1. /\ h \in Hosts /\ p \in Hosts /\ EffectOK(e) /\ Moved(h, e, c, q) /\ Unmoved(p)
      /\ StreamOK(h) /\ HostOK(h)
  BY MovesIs, TwoHosts DEF StreamInv, CallsInv
<1>2. /\ sock'[h] = e.s /\ written'[h] = written[h] + e.took
      /\ got'[h] = got[h] \o e.gave /\ net'[h] = q
      /\ sock'[p] = sock[p] /\ written'[p] = w
  BY <1>1 DEF Moved, Unmoved
<1>3. SocketOK(s) /\ SocketOK(e.s) /\ written[h] \in Nat /\ got[h] \in Seq(Byte)
  BY <1>1, HostNumbers DEF EffectOK
<1>4. app'[h] = "new" => written[h] + e.took = 0 /\ got[h] \o e.gave = <<>>
  <2>1. SUFFICES ASSUME app'[h] = "new"
                 PROVE  written[h] + e.took = 0 /\ got[h] \o e.gave = <<>>
    OBVIOUS
  <2>2. app[h] = "new"
    BY <2>1, MovesApp
  <2>3. written[h] = 0 /\ got[h] = <<>> /\ s.state # "ESTABLISHED"
    BY <1>1, <2>2 DEF StreamOK, HostOK
  <2>4. e.took = 0 /\ e.gave = <<>>
    BY <2>3 DEF Handshakes, Waiting, Opening
  <2>5. written[h] + e.took = written[h] /\ got[h] \o e.gave = got[h]
    BY <1>3, <2>4, ConcatNothing
  <2> QED
    BY <2>3, <2>5
<1>5. \A i \in DOMAIN q : SegFor(q[i], w, e.s, sock[p])
  <2>1. e.s.valid /\ s.fin_state \in FinSent =>
            e.s.fin_state \in FinSent /\ e.s.snd_nxt = s.snd_nxt
    BY DEF Moves, StepDone, CallOK, Fins, Streams
  <2>2. Rest(h, q)
    BY DEF Moves
  <2>3. /\ q \in Seq(SegmentType)
        /\ \A i \in DOMAIN q : \E k \in DOMAIN net[h] : q[i] = net[h][k]
    BY <1>1, <2>2, RestIs
  <2>4. ASSUME NEW i \in DOMAIN q PROVE SegFor(q[i], w, e.s, sock[p])
    <3>1. PICK k \in DOMAIN net[h] : q[i] = net[h][k]
      BY <2>3
    <3>2. SegFor(q[i], w, s, sock[p])
      BY <1>1, <3>1 DEF StreamOK
    <3>3. q[i] \in SegmentType /\ Later(s, e.s)
      BY <2>3 DEF Streams
    <3> QED
      BY <1>3, <2>1, <3>2, <3>3, SegmentWaits
  <2> QED
    BY <2>4
<1> HIDE DEF p, s, w
<1>6. Knows(e.s, sock[p])
  BY DEF Streams, p
<1>7. /\ written[h] + e.took <= StreamLength[h]
      /\ Counted(got[h] \o e.gave, w)
      /\ e.s.state = "ESTABLISHED" =>
            /\ SendSide(e.s, written[h] + e.took, StreamLength[h])
            /\ ReceiveSide(e.s, got[h] \o e.gave, w)
  BY DEF Streams, w, p
<1> QED
  BY <1>2, <1>4, <1>5, <1>6, <1>7 DEF StreamOK, Established, p

\* Its peer, to which the segments are sent.
LEMMA MovesStreamPeer ==
  ASSUME HostsTyped, WorldTyped, CallsInv, StreamInv, NEW h, NEW e, NEW c, NEW q,
         NEW heard, Moves(h, e, c, q, heard), Streams(h, e, c)
  PROVE  StreamOK(Peer(h))'
<1> DEFINE p == Peer(h)
           s == sock[h]
           w == written[h]
           v == written[h] + e.took
           all == net[p] \o e.sent
<1>1. /\ h \in Hosts /\ p \in Hosts /\ EffectOK(e) /\ Moved(h, e, c, q) /\ Unmoved(p)
      /\ StreamOK(p) /\ HostOK(p) /\ Peer(p) = h /\ FinOK(p)
  BY MovesIs, TwoHosts DEF StreamInv, CallsInv
<1>2. /\ sock'[h] = e.s /\ written'[h] = v /\ net'[p] = all
      /\ sock'[p] = sock[p] /\ written'[p] = written[p] /\ got'[p] = got[p]
      /\ app'[p] = app[p]
  BY <1>1 DEF Moved, Unmoved
<1>3. SocketOK(s) /\ SocketOK(e.s) /\ SocketOK(sock[p]) /\ w \in Nat
      /\ e.took \in Nat /\ got[p] \in Seq(Byte)
  BY <1>1, HostNumbers DEF EffectOK, EffectType
<1>4. v \in Nat /\ w <= v
  BY <1>3
<1>5. Later(s, e.s)
  BY DEF Streams
<1>6. \A i \in DOMAIN net[p] : SegFor(net[p][i], v, sock[p], e.s)
  <2>1. ASSUME NEW i \in DOMAIN net[p] PROVE SegFor(net[p][i], v, sock[p], e.s)
    <3>1. SegFor(net[p][i], w, sock[p], s)
      BY <1>1 DEF StreamOK
    <3>2. net[p][i] \in SegmentType
      BY <1>1 DEF WorldTyped
    <3>3. net[p][i].fin /\ e.s.valid => e.s.snd_nxt = s.snd_nxt
      <4>1. net[p][i].fin => FinSeen(p)
        BY DEF FinSeen
      <4>2. FinSeen(p) => FinDone(h)
        BY <1>1 DEF FinOK
      <4>3. e.s.valid => s.valid
        BY <1>5 DEF Later
      <4> QED
        BY <4>1, <4>2, <4>3 DEF FinDone, Streams
    <3> HIDE DEF v
    <3> QED
      BY <1>3, <1>4, <1>5, <3>1, <3>2, <3>3, SegmentStays
  <2> QED
    BY <2>1
<1>7. \A i \in DOMAIN e.sent : SegFor(e.sent[i], v, sock[p], e.s)
  BY DEF Streams, SegsOK
<1>8. \A i \in DOMAIN all : SegFor(all[i], v, sock[p], e.s)
  <2>1. net[p] \in Seq(SegmentType) /\ e.sent \in Seq(SegmentType)
    BY <1>1 DEF WorldTyped, EffectOK, EffectType
  <2>2. \A i \in DOMAIN all :
           \/ i \in DOMAIN net[p] /\ all[i] = net[p][i]
           \/ i - Len(net[p]) \in DOMAIN e.sent /\ all[i] = e.sent[i - Len(net[p])]
    BY <2>1, ConcatElements
  <2> HIDE DEF all, p, v
  <2> QED
    BY <1>6, <1>7, <2>2
<1>9. Knows(sock[p], e.s)
  <2> DEFINE u == sock[p].snd_una
             n == sock[p].snd_una + sock[p].peer_window_size
             a == s.rcv_nxt
             b == e.s.rcv_nxt
             x == RightEdge(s)
             y == RightEdge(e.s)
  <2>1. u \in Nat /\ n \in Nat /\ a \in Nat /\ b \in Nat /\ x \in Nat /\ y \in Nat
    <3>1. u \in Nat /\ sock[p].peer_window_size \in Nat
      BY <1>3, SocketNumbers
    <3>2. a \in Nat /\ x \in Nat
      BY <1>3, SocketNumbers
    <3>3. b \in Nat /\ y \in Nat
      BY <1>3, SocketNumbers
    <3> QED
      BY <3>1, <3>2, <3>3
  <2>2. e.s.valid => s.valid /\ a <= b /\ x <= y
    BY <1>5 DEF Later
  <2>3. sock[p].state = "ESTABLISHED" /\ s.valid => u <= a /\ n <= x
    BY <1>1 DEF StreamOK, Knows
  <2> HIDE DEF u, n, a, b, x, y
  <2>4. sock[p].state = "ESTABLISHED" /\ e.s.valid => u <= b /\ n <= y
    BY <2>1, <2>2, <2>3
  <2> QED
    BY <2>4 DEF Knows, u, n, b, y
<1> HIDE DEF all, v
<1>10. /\ written[p] <= StreamLength[p]
       /\ Counted(got[p], v)
       /\ app[p] = "new" => written[p] = 0 /\ got[p] = <<>>
       /\ Established(p) => /\ SendSide(sock[p], written[p], StreamLength[p])
                            /\ ReceiveSide(sock[p], got[p], v)
  BY <1>1, <1>3, <1>4, MoreWritten DEF StreamOK
<1>11. Peer(p) = h
  BY <1>1
<1> HIDE DEF p, s, w
<1>12. StreamOK(p)'
  BY <1>2, <1>8, <1>9, <1>10, <1>11 DEF StreamOK, Established
<1> QED
  BY <1>12 DEF p

\* The other elements of a sequence are those of its tail.
LEMMA TailHas ==
  ASSUME NEW S, NEW q \in Seq(S), NEW k \in DOMAIN q, k # 1
  PROVE  k - 1 \in DOMAIN Tail(q) /\ Tail(q)[k - 1] = q[k] /\ k \in Nat
<1>1. q # <<>> /\ k \in 1 .. Len(q) /\ Len(q) \in Nat
  BY EmptySeq
<1>2. Tail(q) \in Seq(S) /\ Len(Tail(q)) = Len(q) - 1
      /\ \A i \in 1 .. Len(Tail(q)) : Tail(q)[i] = q[i + 1]
  BY <1>1, HeadTailProperties
<1>3. k - 1 \in 1 .. Len(Tail(q)) /\ (k - 1) + 1 = k
  BY <1>1, <1>2
<1> QED
  BY <1>1, <1>2, <1>3

\* A segment that does not open the connection leaves.
LEMMA OpenerStays ==
  ASSUME NEW S, NEW q \in Seq(S), q # <<>>, ~Opener(Head(q))
  PROVE  /\ HasOpener(q) => HasOpener(Tail(q))
         /\ OpenerFirst(q) => OpenerFirst(Tail(q))
<1>1. ~Opener(q[1])
  BY TailElements
<1>2. ASSUME NEW i \in DOMAIN q, Opener(q[i])
      PROVE  i - 1 \in DOMAIN Tail(q) /\ Opener(Tail(q)[i - 1]) /\ i \in Nat
  BY <1>1, <1>2, TailHas
<1>3. HasOpener(q) => HasOpener(Tail(q))
  BY <1>2 DEF HasOpener
<1>4. ASSUME OpenerFirst(q), NEW i \in DOMAIN Tail(q), Opens(Tail(q)[i])
      PROVE  \E j \in DOMAIN Tail(q) : j <= i /\ Opener(Tail(q)[j])
  <2>1. i \in Nat /\ i + 1 \in DOMAIN q /\ Tail(q)[i] = q[i + 1]
    BY TailElements
  <2>2. PICK j \in DOMAIN q : j <= i + 1 /\ Opener(q[j])
    BY <1>4, <2>1 DEF OpenerFirst
  <2>3. j - 1 \in DOMAIN Tail(q) /\ Opener(Tail(q)[j - 1]) /\ j \in Nat
    BY <1>2, <2>2
  <2>4. j - 1 <= i
    BY <2>1, <2>2, <2>3
  <2> QED
    BY <2>3, <2>4
<1> QED
  BY <1>3, <1>4 DEF OpenerFirst

\* Segments join, after the one that opens the connection.
LEMMA OpenerJoined ==
  ASSUME NEW S, NEW q \in Seq(S), NEW r \in Seq(S),
         \A i \in DOMAIN r : Opens(r[i]) => Opener(r[i]) \/ HasOpener(q)
  PROVE  /\ HasOpener(q) => HasOpener(q \o r)
         /\ OpenerFirst(q) => OpenerFirst(q \o r)
<1> DEFINE all == q \o r
           l == Len(q)
<1>1. \A i \in DOMAIN q : i \in DOMAIN all /\ all[i] = q[i] /\ i <= l /\ i \in Nat
  <2>1. l \in Nat /\ Len(r) \in Nat /\ Len(all) = l + Len(r) /\ DOMAIN all = 1 .. Len(all)
        /\ DOMAIN q = 1 .. l
    BY ConcatProperties
  <2>2. \A i \in 1 .. Len(all) : all[i] = IF i <= l THEN q[i] ELSE r[i - l]
    BY ConcatProperties
  <2> HIDE DEF l, all
  <2>3. Len(r) >= 0
    BY <2>1
  <2> QED
    BY <2>1, <2>2, <2>3
<1>2. \A i \in DOMAIN all :
         \/ i \in DOMAIN q /\ all[i] = q[i]
         \/ i - l \in DOMAIN r /\ all[i] = r[i - l]
  BY ConcatElements
<1>3. l \in Nat /\ DOMAIN all \subseteq Nat /\ DOMAIN r \subseteq Nat \ {0}
  <2>1. all \in Seq(S) /\ l \in Nat /\ Len(all) \in Nat /\ Len(r) \in Nat
    BY ConcatProperties
  <2>2. DOMAIN all = 1 .. Len(all) /\ DOMAIN r = 1 .. Len(r)
    BY <2>1
  <2> HIDE DEF l, all
  <2> QED
    BY <2>1, <2>2
<1> HIDE DEF all, l
<1>4. HasOpener(q) => HasOpener(all)
  BY <1>1 DEF HasOpener
<1>5. ASSUME OpenerFirst(q), NEW i \in DOMAIN all, Opens(all[i])
      PROVE  \E j \in DOMAIN all : j <= i /\ Opener(all[j])
  <2>1. CASE i \in DOMAIN q /\ all[i] = q[i]
    BY <1>1, <1>5, <2>1 DEF OpenerFirst
  <2>2. CASE i - l \in DOMAIN r /\ all[i] = r[i - l]
    <3>1. i \in Nat /\ l <= i /\ i <= i
      BY <1>3, <2>2
    <3>2. Opener(all[i]) \/ HasOpener(q)
      BY <1>5, <2>2
    <3>3. CASE Opener(all[i])
      BY <3>1, <3>3
    <3>4. CASE HasOpener(q)
      <4>1. PICK j \in DOMAIN q : Opener(q[j])
        BY <3>4 DEF HasOpener
      <4>2. j \in DOMAIN all /\ all[j] = q[j] /\ j <= l /\ j \in Nat
        BY <1>1
      <4>3. j <= i
        BY <1>3, <3>1, <4>2
      <4> QED
        BY <4>1, <4>2, <4>3
    <3> QED
      BY <3>2, <3>3, <3>4
  <2> QED
    BY <1>2, <2>1, <2>2
<1> QED
  BY <1>4, <1>5 DEF OpenerFirst, all

\* A host that moves has opened its connection.
LEMMA MovesOpened ==
  ASSUME HostsTyped, WorldTyped, CallsInv, NEW h, NEW e, NEW c, NEW q,
         NEW heard, Moves(h, e, c, q, heard)
  PROVE  /\ ~Openable(h) /\ ~Openable(h)'
         /\ Openable(Peer(h))' = Openable(Peer(h))
<1>1. h \in Hosts /\ Moved(h, e, c, q) /\ Unmoved(Peer(h)) /\ EffectOK(e)
  BY MovesIs
<1>2. ~Openable(h)
  BY MovesApp
<1>3. app'[h] = "new" => app[h] = "new" /\ e.rep = <<>> /\ c = call[h] /\ c # "none"
  BY MovesApp
<1>4. call'[h] = Current(e, c) /\ listener' = listener
  BY <1>1 DEF Moved
<1>5. ~Openable(h)'
  BY <1>2, <1>3, <1>4 DEF Openable, Current
<1>6. Openable(Peer(h))' = Openable(Peer(h))
  BY <1>1, <1>4 DEF Openable, Unmoved
<1> QED
  BY <1>2, <1>5, <1>6

\* What a client sends that is not established.
LEMMA ClientSends ==
  ASSUME HostsTyped, WorldTyped, CallsInv, StreamInv, NEW e, NEW c, NEW q,
         NEW heard, Moves(Client, e, c, q, heard), Handshakes(Client, e, q),
         sock[Client].state # "ESTABLISHED"
  PROVE  /\ \A i \in DOMAIN e.sent : Opens(e.sent[i]) => Opener(e.sent[i])
         /\ Waiting(Client, e, q) => \A i \in DOMAIN e.sent : ~Opens(e.sent[i])
<1> DEFINE s == sock[Client]
<1>1. Client \in Hosts /\ SocketOK(s) /\ Shape(s) /\ s.state # "SYN_RECV"
  BY TwoHosts, HostNumbers DEF CallsInv, HostOK, ListenerOK
<1>2. s.valid => s.state = "SYN_SENT" /\ s.rcv_nxt = 0
  <2>1. s.state \in States
    BY <1>1 DEF SocketOK, SocketType
  <2> QED
    BY <1>1, <2>1 DEF Shape, States, StreamInv, HandshakeOK, ClientOpens
<1>3. s.valid \/ e.sent = <<>>
  BY DEF Moves, Serves
<1>4. Waiting(Client, e, q) => \A i \in DOMAIN e.sent : ~Opens(e.sent[i])
  <2>1. First # 0
    BY DEF First, ISS
  <2> QED
    BY <1>2, <1>3, <2>1 DEF Waiting, Opens
<1>5. Opening(Client, e, q) => \A i \in DOMAIN e.sent : Opener(e.sent[i])
  <2>1. SUFFICES ASSUME Opening(Client, e, q)
                 PROVE  \A i \in DOMAIN e.sent : Opener(e.sent[i])
    OBVIOUS
  <2>2. PICK a : e.sent = <<a>> /\ Opener(a)
    BY <1>1, <2>1 DEF Opening
  <2> QED
    BY <2>2
<1> QED
  BY <1>4, <1>5 DEF Handshakes

\* A step of the client.
LEMMA ClientHandshake ==
  ASSUME HostsTyped, WorldTyped, CallsInv, StreamInv, NEW e, NEW c, NEW q,
         NEW heard, Moves(Client, e, c, q, heard), Handshakes(Client, e, q)
  PROVE  HandshakeOK'
<1> DEFINE s == sock[Client]
           all == net[Server] \o e.sent
<1>1. /\ Client \in Hosts /\ Server \in Hosts /\ Peer(Client) = Server
      /\ EffectOK(e) /\ Moved(Client, e, c, q) /\ Unmoved(Server)
  BY TwoHosts, MovesIs
<1>2. /\ sock'[Client] = e.s /\ net'[Client] = q /\ net'[Server] = all
      /\ written'[Client] = written[Client] + e.took
      /\ listener' = listener /\ down'[Server] = down[Server]
      /\ sock'[Server] = sock[Server]
  BY <1>1 DEF Moved, Unmoved
<1>3. ~Openable(Client)' /\ (Openable(Server)' = Openable(Server))
  BY <1>1, MovesOpened
<1>4. net[Server] \in Seq(SegmentType) /\ e.sent \in Seq(SegmentType)
      /\ written[Client] \in Nat
  BY <1>1, HostNumbers DEF WorldTyped, EffectOK, EffectType
<1>5. \A i \in DOMAIN all :
         \/ i \in DOMAIN net[Server] /\ all[i] = net[Server][i]
         \/ i - Len(net[Server]) \in DOMAIN e.sent
            /\ all[i] = e.sent[i - Len(net[Server])]
  BY <1>4, ConcatElements
<1>6. Unopened /\ ClientOpens /\ ServerOpens
  BY DEF StreamInv, HandshakeOK
<1>7. StepDone(e, s, c, heard) /\ s.state # "SYN_RECV"
  BY DEF Moves, CallsInv, ListenerOK
<1> HIDE DEF all
<1>8. ASSUME Openable(Server)
      PROVE  /\ q = <<>> /\ written[Client] + e.took = 0
             /\ e.s.state # "ESTABLISHED"
             /\ \A i \in DOMAIN all : ~Opens(all[i])
  <2>1. /\ net[Client] = <<>> /\ written[Client] = 0 /\ s.state # "ESTABLISHED"
        /\ \A i \in DOMAIN net[Server] : ~Opens(net[Server][i])
    BY <1>6, <1>8 DEF Unopened
  <2>2. q = <<>>
    BY <2>1 DEF Moves, Rest
  <2>3. Waiting(Client, e, q)
    BY <2>1 DEF Handshakes, Opening
  <2>4. \A i \in DOMAIN e.sent : ~Opens(e.sent[i])
    BY <2>1, <2>3, ClientSends
  <2>5. e.took = 0 /\ e.s.state # "ESTABLISHED"
    BY <2>3 DEF Waiting
  <2> QED
    BY <1>5, <2>1, <2>2, <2>4, <2>5
<1>9. Unopened'
  BY <1>2, <1>3, <1>6, <1>8 DEF Unopened
<1>10. ASSUME e.s.state = "SYN_SENT"
       PROVE  /\ e.s.rcv_nxt = 0 /\ sock[Server].state # "ESTABLISHED"
              /\ \A i \in DOMAIN all : ~all[i].ack
  <2>1. s.state = "SYN_SENT"
    BY <1>7, <1>10 DEF StepDone, FreeSocket
  <2>2. Waiting(Client, e, q)
    BY <1>10, <2>1 DEF Handshakes, Opening
  <2>3. e.s.rcv_nxt = s.rcv_nxt /\ \A i \in DOMAIN e.sent : ~e.sent[i].ack
    BY <1>10, <2>1, <2>2 DEF Waiting
  <2> QED
    BY <1>5, <1>6, <2>1, <2>3 DEF ClientOpens
<1>11. ClientOpens'
  BY <1>2, <1>10 DEF ClientOpens
<1>12. ASSUME sock[Server].state = "SYN_RECV"
       PROVE  /\ e.s.state = "ESTABLISHED" => HasOpener(all)
              /\ OpenerFirst(all)
  <2>1. OpenerFirst(net[Server])
        /\ (s.state = "ESTABLISHED" => HasOpener(net[Server]))
    BY <1>6, <1>12 DEF ServerOpens
  <2>2. \A i \in DOMAIN e.sent : Opens(e.sent[i]) =>
           Opener(e.sent[i]) \/ HasOpener(net[Server])
    BY <2>1, ClientSends
  <2>3. /\ HasOpener(net[Server]) => HasOpener(all)
        /\ OpenerFirst(net[Server]) => OpenerFirst(all)
    BY <1>4, <2>2, OpenerJoined DEF all
  <2>4. ASSUME e.s.state = "ESTABLISHED", s.state # "ESTABLISHED" PROVE HasOpener(all)
    <3>1. Opening(Client, e, q)
      BY <2>4 DEF Handshakes, Waiting
    <3>2. PICK a : e.sent = <<a>> /\ Opener(a)
      BY <1>7, <3>1 DEF Opening
    <3>3. DOMAIN e.sent = {1} /\ e.sent[1] = a
      BY <3>2
    <3>4. Len(net[Server]) + 1 \in DOMAIN all /\ all[Len(net[Server]) + 1] = a
      <4> DEFINE n == Len(net[Server])
      <4>1. n \in Nat /\ Len(e.sent) = 1 /\ Len(all) = n + 1
            /\ DOMAIN all = 1 .. Len(all)
            /\ \A i \in 1 .. Len(all) : all[i] = IF i <= n THEN net[Server][i]
                                                 ELSE e.sent[i - n]
        BY <1>4, <3>2, ConcatProperties DEF all
      <4> HIDE DEF n
      <4>2. n + 1 \in 1 .. n + 1 /\ ~(n + 1 <= n) /\ (n + 1) - n = 1
        BY <4>1
      <4>3. n + 1 \in DOMAIN all /\ all[n + 1] = a
        BY <3>3, <4>1, <4>2
      <4> QED
        BY <4>3 DEF n
    <3> QED
      BY <3>2, <3>4 DEF HasOpener
  <2> QED
    BY <2>1, <2>3, <2>4
<1>13. ServerOpens'
  BY <1>2, <1>12 DEF ServerOpens
<1> QED
  BY <1>9, <1>11, <1>13 DEF HandshakeOK

\* A step of the server.
LEMMA ServerHandshake ==
  ASSUME HostsTyped, WorldTyped, CallsInv, StreamInv, NEW e, NEW c, NEW q,
         NEW heard, Moves(Server, e, c, q, heard), Handshakes(Server, e, q)
  PROVE  HandshakeOK'
<1> DEFINE s == sock[Server]
<1>1. /\ Client \in Hosts /\ Server \in Hosts /\ Peer(Server) = Client
      /\ EffectOK(e) /\ Moved(Server, e, c, q) /\ Unmoved(Client)
  BY TwoHosts, MovesIs
<1>2. /\ sock'[Server] = e.s /\ net'[Server] = q
      /\ listener' = listener /\ down'[Server] = down[Server]
      /\ sock'[Client] = sock[Client]
  BY <1>1 DEF Moved, Unmoved
<1>3. ~Openable(Server) /\ ~Openable(Server)'
      /\ (Openable(Client)' = Openable(Client))
  BY <1>1, MovesOpened
<1>4. net[Server] \in Seq(SegmentType)
  BY <1>1 DEF WorldTyped
<1>5. Unopened /\ ClientOpens /\ ServerOpens
  BY DEF StreamInv, HandshakeOK
<1>6. StepDone(e, s, c, heard) /\ Rest(Server, q)
  BY DEF Moves
<1>7. \A i \in DOMAIN q : \E k \in DOMAIN net[Server] : q[i] = net[Server][k]
  BY <1>1, <1>6, RestIs
<1>8. Unopened'
  BY <1>2, <1>3, <1>5 DEF Unopened
<1>9. ASSUME sock[Client].state = "SYN_SENT"
      PROVE  e.s.state # "ESTABLISHED" /\ \A i \in DOMAIN q : ~q[i].ack
  <2>1. /\ s.state # "ESTABLISHED"
        /\ \A i \in DOMAIN net[Server] : ~net[Server][i].ack
    BY <1>5, <1>9 DEF ClientOpens
  <2>2. ~Opening(Server, e, q)
    <3>1. net[Server] # <<>> => ~Head(net[Server]).ack
      BY <1>4, <2>1, TailElements
    <3> QED
      BY <3>1 DEF Opening
  <2>3. e.s.state # "ESTABLISHED"
    BY <2>1, <2>2 DEF Handshakes, Waiting
  <2> QED
    BY <1>7, <2>1, <2>3
<1>10. ClientOpens'
  BY <1>2, <1>5, <1>9 DEF ClientOpens
<1>11. ASSUME e.s.state = "SYN_RECV"
       PROVE  /\ sock[Client].state = "ESTABLISHED" => HasOpener(q)
              /\ OpenerFirst(q)
  <2>1. s.state = "SYN_RECV"
    BY <1>6, <1>11 DEF StepDone, FreeSocket
  <2>2. OpenerFirst(net[Server])
        /\ (sock[Client].state = "ESTABLISHED" => HasOpener(net[Server]))
    BY <1>5, <2>1 DEF ServerOpens
  <2>3. q = net[Server] \/ ~Opens(Head(net[Server]))
    BY <1>11, <2>1 DEF Handshakes, Opening, Waiting
  <2>4. q = net[Server]
        \/ (net[Server] # <<>> /\ q = Tail(net[Server]) /\ ~Opener(Head(net[Server])))
    BY <1>6, <2>3 DEF Rest, Opener
  <2> QED
    BY <1>4, <2>2, <2>4, OpenerStays
<1>12. ServerOpens'
  BY <1>2, <1>11 DEF ServerOpens
<1> QED
  BY <1>8, <1>10, <1>12 DEF HandshakeOK

\* A step of either host.
LEMMA MovesStreams ==
  ASSUME HostsTyped, WorldTyped, CallsInv, StreamInv, NEW h, NEW e, NEW c, NEW q,
         NEW heard, Moves(h, e, c, q, heard), Streams(h, e, c), Handshakes(h, e, q)
  PROVE  StreamInv'
<1>1. h \in Hosts /\ \A g \in Hosts : g = h \/ g = Peer(h)
  BY TwoHosts DEF Moves
<1>2. StreamOK(h)' /\ StreamOK(Peer(h))'
  BY MovesStreamHost, MovesStreamPeer
<1>3. \A g \in Hosts : StreamOK(g)'
  BY <1>1, <1>2
<1>4. HandshakeOK'
  BY <1>1, ClientHandshake, ServerHandshake DEF Hosts
<1> QED
  BY <1>3, <1>4 DEF StreamInv

-----------------------------------------------------------------------------
\* The steps in which a routine serves a call, a segment or the timer.
Served(h) ==
    \E e, c, q, heard : /\ Moves(h, e, c, q, heard)
                        /\ Streams(h, e, c) /\ Handshakes(h, e, q)

\* The step keeps the invariant.
LEMMA ServedStreams ==
  ASSUME HostsTyped, WorldTyped, CallsInv, StreamInv, NEW h, Served(h)
  PROVE  StreamInv'
<1>1. PICK e, c, q, heard : /\ Moves(h, e, c, q, heard)
                            /\ Streams(h, e, c) /\ Handshakes(h, e, q)
  BY DEF Served
<1> QED
  BY <1>1, MovesStreams

\* AppRead
LEMMA AppReadServed ==
  ASSUME HostsTyped, WorldTyped, CallsInv, StreamInv, NEW h \in Hosts, AppRead(h)
  PROVE  Served(h)
<1> DEFINE s == sock[h]
           d == Read(s, ReadLen)
<1>1. Ready(h, {"open", "eof", "error"}) /\ Moves(h, d, "read", net[h], FALSE)
  BY AppReadMoves
<1>2. Idle(s) /\ ReadLen \in Nat
  BY <1>1, ReadyIs, ConnectionAssumption
<1>3. StreamOK(h) /\ StreamOK(Peer(h))
  BY TwoHosts DEF StreamInv
<1>4. Streams(h, d, "read")
  BY <1>2, <1>3, ReadStreams
<1>5. s.valid \/ d = Reply(Effect(s), ENOTSOCK)
  BY DEF Read, CanRead, ENOTSOCK
<1>6. ENOTSOCK \in Int
  BY DEF ENOTSOCK
<1> HIDE DEF d
<1>7. Handshakes(h, d, net[h])
  BY <1>2, <1>5, <1>6, CallWaits
<1> QED
  BY <1>1, <1>4, <1>7 DEF Served

\* What AppWrite offers continues the stream.
LEMMA DataContinues ==
  ASSUME HostsTyped, NEW h \in Hosts, CanWriteNow(h), WriteData(h) \in Seq(Byte)
  PROVE  /\ \A k \in 1 .. Len(WriteData(h)) : WriteData(h)[k] = written[h] + k
         /\ written[h] + Len(WriteData(h)) <= StreamLength[h]
<1> DEFINE w == written[h]
           l == StreamLength[h]
           n == AtMost(WriteLen, l - w)
<1>1. w \in Nat /\ l \in Nat /\ w < l /\ WriteLen \in Nat
  BY HostNumbers, ConnectionAssumption DEF CanWriteNow
<1>2. WriteData(h) = [k \in 1 .. n |-> w + k]
  BY DEF WriteData
<1> HIDE DEF w, l
<1>3. n \in Nat /\ w + n <= l
  BY <1>1 DEF AtMost
<1> HIDE DEF n
<1>4. Len(WriteData(h)) = n
  BY <1>2, <1>3
<1>5. \A k \in 1 .. Len(WriteData(h)) : WriteData(h)[k] = w + k
  BY <1>2, <1>4
<1> QED
  BY <1>3, <1>4, <1>5 DEF w, l

\* AppWrite
LEMMA AppWriteServed ==
  ASSUME HostsTyped, WorldTyped, CallsInv, StreamInv, NEW h \in Hosts, AppWrite(h)
  PROVE  Served(h)
<1> DEFINE s == sock[h]
           data == WriteData(h)
           d == Write(s, data)
<1>1. /\ Ready(h, {"open", "eof", "error"}) /\ CanWriteNow(h)
      /\ data \in Seq(Byte) /\ Moves(h, d, "write", net[h], FALSE)
  BY AppWriteMoves
<1>2. Idle(s)
  BY <1>1, ReadyIs
<1>3. StreamOK(h)
  BY DEF StreamInv
<1>4. /\ \A k \in 1 .. Len(data) : data[k] = written[h] + k
      /\ written[h] + Len(data) <= StreamLength[h]
  BY <1>1, DataContinues
<1> HIDE DEF data
<1>5. Streams(h, d, "write")
  BY <1>1, <1>2, <1>3, <1>4, WriteStreams
<1>6. s.valid \/ d = Reply(Effect(s), ENOTSOCK)
  BY DEF Write, CanWrite, ENOTSOCK
<1>7. ENOTSOCK \in Int
  BY DEF ENOTSOCK
<1> HIDE DEF d
<1>8. Handshakes(h, d, net[h])
  BY <1>2, <1>6, <1>7, CallWaits
<1> QED
  BY <1>1, <1>5, <1>8 DEF Served

\* AppClose
LEMMA AppCloseServed ==
  ASSUME HostsTyped, WorldTyped, CallsInv, StreamInv, NEW h \in Hosts, AppClose(h)
  PROVE  Served(h)
<1> DEFINE s == sock[h]
           d == Close(s)
<1>1. Ready(h, {"open", "eof", "error"}) /\ Moves(h, d, "close", net[h], FALSE)
  BY AppCloseMoves
<1>2. Idle(s) /\ StreamOK(h)
  BY <1>1, ReadyIs DEF StreamInv
<1>3. Streams(h, d, "close")
  BY <1>2, CloseStreams
<1>4. s.valid \/ d = Reply(Effect(s), 0)
  BY DEF Close
<1>5. 0 \in Int
  OBVIOUS
<1> HIDE DEF d
<1>6. Handshakes(h, d, net[h])
  BY <1>2, <1>4, <1>5, CallWaits
<1> QED
  BY <1>1, <1>3, <1>6 DEF Served

\* DeliverToSocket
LEMMA DeliverToSocketServed ==
  ASSUME HostsTyped, WorldTyped, CallsInv, StreamInv, NEW h \in Hosts,
         DeliverToSocket(h)
  PROVE  Served(h)
<1> DEFINE seg == Head(net[h])
           d == TCPCallback(sock[h], seg)
<1>1. /\ net[h] # <<>> /\ sock[h].valid
      /\ Moves(h, d, call[h], Tail(net[h]), seg.fin)
  BY DeliverToSocketMoves
<1>2. Streams(h, d, call[h]) /\ Handshakes(h, d, Tail(net[h]))
  BY <1>1, CallbackStreams
<1> HIDE DEF d
<1> QED
  BY <1>1, <1>2 DEF Served

\* Tick
LEMMA TickServed ==
  ASSUME HostsTyped, WorldTyped, CallsInv, StreamInv, NEW h \in Hosts, Tick(h)
  PROVE  Served(h)
<1> DEFINE d == TCPTimeout(sock[h])
<1>1. sock[h].valid /\ Moves(h, d, call[h], net[h], FALSE)
  BY TickMoves
<1>2. Streams(h, d, call[h]) /\ Handshakes(h, d, net[h])
  BY <1>1, TimerStreams
<1> HIDE DEF d
<1> QED
  BY <1>1, <1>2 DEF Served

-----------------------------------------------------------------------------
\* No socket changes, and no segment joins those on their way.
LEMMA IdlesStreams ==
  ASSUME HostsTyped, WorldTyped, CallsInv, StreamInv, NEW h, NEW q, Idles(h, q),
         down'[Server] = "no",
         Openable(Client) => listener'.waiting = <<>>,
         h = Server /\ sock[Server].state = "SYN_RECV" =>
             q = net[Server]
             \/ (net[Server] # <<>> /\ q = Tail(net[Server]) /\ ~Opener(Head(net[Server])))
  PROVE  StreamInv'
<1>1. /\ h \in Hosts /\ Rest(h, q)
      /\ net'[h] = q /\ \A g \in Hosts : g # h => net'[g] = net[g]
      /\ sock' = sock /\ app' = app /\ written' = written /\ got' = got
      /\ \A g \in Hosts : Openable(g)' = Openable(g)
  BY DEF Idles, WorldTyped
<1>2. \A i \in DOMAIN q : \E k \in DOMAIN net[h] : q[i] = net[h][k]
  BY <1>1, RestIs
<1>3. ASSUME NEW g \in Hosts PROVE StreamOK(g)'
  <2>1. StreamOK(g)
    BY DEF StreamInv
  <2>2. \A i \in DOMAIN net'[g] : \E k \in DOMAIN net[g] : net'[g][i] = net[g][k]
    BY <1>1, <1>2
  <2>3. \A i \in DOMAIN net'[g] :
           SegFor(net'[g][i], written[Peer(g)], sock[g], sock[Peer(g)])
    BY <2>1, <2>2 DEF StreamOK
  <2> QED
    BY <1>1, <2>1, <2>3 DEF StreamOK, Established
<1>4. Unopened /\ ClientOpens /\ ServerOpens /\ Client \in Hosts /\ Server \in Hosts
  BY TwoHosts DEF StreamInv, HandshakeOK
<1>5. ASSUME NEW g \in Hosts
      PROVE  \A i \in DOMAIN net'[g] : \E k \in DOMAIN net[g] : net'[g][i] = net[g][k]
  BY <1>1, <1>2
<1>6. ASSUME NEW g \in Hosts, net[g] = <<>> PROVE net'[g] = <<>>
  BY <1>1, <1>6 DEF Rest
<1>7. Unopened'
  <2>1. Openable(Client)' => /\ Openable(Server)' /\ net'[Server] = <<>>
                             /\ listener'.waiting = <<>>
    BY <1>1, <1>4, <1>6 DEF Unopened
  <2>2. Openable(Server)' =>
           /\ net'[Client] = <<>> /\ written'[Client] = 0
           /\ sock'[Client].state # "ESTABLISHED"
           /\ \A i \in DOMAIN net'[Server] : ~Opens(net'[Server][i])
    BY <1>1, <1>4, <1>5, <1>6 DEF Unopened
  <2> QED
    BY <2>1, <2>2 DEF Unopened, Opens
<1>8. ClientOpens'
  BY <1>1, <1>4, <1>5 DEF ClientOpens
<1>9. ServerOpens'
  <2>1. ASSUME sock[Server].state = "SYN_RECV"
        PROVE  /\ sock[Client].state = "ESTABLISHED" => HasOpener(net'[Server])
               /\ OpenerFirst(net'[Server])
    <3>1. OpenerFirst(net[Server])
          /\ (sock[Client].state = "ESTABLISHED" => HasOpener(net[Server]))
      BY <1>4, <2>1 DEF ServerOpens
    <3>2. net[Server] \in Seq(SegmentType)
      BY <1>4 DEF WorldTyped
    <3>3. net'[Server] = net[Server]
          \/ (net[Server] # <<>> /\ net'[Server] = Tail(net[Server])
              /\ ~Opener(Head(net[Server])))
      BY <1>1, <1>4, <2>1
    <3> QED
      BY <3>1, <3>2, <3>3, OpenerStays
  <2> QED
    BY <1>1, <2>1 DEF ServerOpens, HasOpener, OpenerFirst, Opener, Opens
<1> QED
  BY <1>3, <1>7, <1>8, <1>9 DEF StreamInv, HandshakeOK

\* accept blocks
LEMMA AcceptBlocksStreams ==
  ASSUME HostsTyped, WorldTyped, CallsInv, StreamInv, AppAccept,
         listener.waiting = <<>>
  PROVE  StreamInv'
<1>1. Idles(Server, net[Server])
  BY AcceptBlocks
<1>2. down' = down /\ listener' = [listener EXCEPT !.accepting = TRUE]
  BY DEF AppAccept
<1>3. listener'.waiting = <<>>
  BY <1>2 DEF WorldTyped
<1>4. down'[Server] = "no"
  BY <1>2 DEF StreamInv, HandshakeOK, Unopened
<1> QED
  BY <1>1, <1>3, <1>4, IdlesStreams

\* A SYN joins the waiting list.
LEMMA SynWaitsStreams ==
  ASSUME HostsTyped, WorldTyped, CallsInv, StreamInv, DeliverToListener,
         ~listener.accepting
  PROVE  StreamInv'
<1>1. Idles(Server, Tail(net[Server]))
  BY SynWaits
<1>2. down' = down /\ net[Server] # <<>> /\ ~sock[Server].valid
  BY DEF DeliverToListener
<1>3. down'[Server] = "no" /\ ~Openable(Client)
  BY <1>2 DEF StreamInv, HandshakeOK, Unopened
<1>4. sock[Server].state # "SYN_RECV"
  BY <1>2, TwoHosts DEF CallsInv, HostOK, Shape, FreeSocket
<1> QED
  BY <1>1, <1>3, <1>4, IdlesStreams

\* A segment that reaches nobody, or is lost: but not the one that ends the
\* handshake.
LEMMA DropStreams ==
  ASSUME LossScope # "any", HostsTyped, WorldTyped, CallsInv, StreamInv,
         NEW h \in Hosts,
         DeliverInVain(h) \/ Lose(h) \/ (h = Client /\ DeliverToNobody)
  PROVE  StreamInv'
<1>1. Idles(h, Tail(net[h]))
  BY DropIdles
<1>2. down' = down \/ down' = [down EXCEPT ![Client] = "crashed"]
  BY DEF DeliverInVain, Lose, DeliverToNobody
<1>3. Unopened /\ Server \in Hosts /\ Client # Server
  BY TwoHosts DEF StreamInv, HandshakeOK
<1>4. down[Server] = "no"
  BY <1>3 DEF Unopened
<1>5. down'[Server] = "no"
  BY <1>2, <1>3, <1>4 DEF HostsTyped
<1>6. listener' = listener /\ net[h] # <<>>
  BY DEF DeliverInVain, Lose, DeliverToNobody
<1>7. Openable(Client) => listener'.waiting = <<>>
  BY <1>3, <1>6 DEF Unopened
<1>8. ASSUME h = Server, sock[Server].state = "SYN_RECV" PROVE ~Opener(Head(net[Server]))
  <2>1. sock[Server].valid
    BY <1>3, <1>8 DEF CallsInv, HostOK, Shape, FreeSocket
  <2>2. Lose(Server)
    BY <1>3, <1>4, <1>8, <2>1 DEF DeliverInVain, Running
  <2>3. Losable(Server, Head(net[Server]))
    BY <2>2 DEF Lose
  <2>4. Head(net[Server]).data # <<>>
    BY <1>8, <2>3, ConnectionAssumption DEF Losable
  <2> QED
    BY <2>4 DEF Opener
<1> QED
  BY <1>1, <1>5, <1>6, <1>7, <1>8, IdlesStreams

\* freeSocket_pthread
LEMMA LingerEndsStreams ==
  ASSUME HostsTyped, WorldTyped, CallsInv, StreamInv, NEW h \in Hosts, LingerEnds(h)
  PROVE  StreamInv'
<1>1. Freed(h) /\ Peer(h) \in Hosts /\ \A g \in Hosts : g = h \/ g = Peer(h)
  BY LingerFrees, TwoHosts
<1>2. /\ sock'[h] = FreeSocket /\ \A g \in Hosts : g # h => sock'[g] = sock[g]
      /\ UNCHANGED <<net, listener, app, call, written, got, down>>
  BY <1>1 DEF Freed
<1>3. ~FreeSocket.valid /\ FreeSocket.state = "CLOSE"
  BY DEF FreeSocket
<1>4. /\ StreamOK(h) /\ StreamOK(Peer(h)) /\ Peer(h) # h /\ Peer(Peer(h)) = h
      /\ h = Client \/ h = Server
  BY <1>1, TwoHosts DEF StreamInv, Hosts
<1> HIDE DEF FreeSocket
<1>5. StreamOK(h)'
  <2>1. \A i \in DOMAIN net[h] :
           SegFor(net[h][i], written[Peer(h)], FreeSocket, sock[Peer(h)])
    BY <1>3, <1>4 DEF StreamOK, SegFor
  <2>2. Knows(FreeSocket, sock[Peer(h)])
    BY <1>3 DEF Knows
  <2> QED
    BY <1>1, <1>2, <1>3, <1>4, <2>1, <2>2 DEF StreamOK, Established
<1>6. StreamOK(Peer(h))'
  <2>1. \A i \in DOMAIN net[Peer(h)] :
           SegFor(net[Peer(h)][i], written[h], sock[Peer(h)], FreeSocket)
    BY <1>3, <1>4 DEF StreamOK, SegFor
  <2>2. Knows(sock[Peer(h)], FreeSocket)
    BY <1>3 DEF Knows
  <2> QED
    BY <1>1, <1>2, <1>4, <2>1, <2>2 DEF StreamOK, Established
<1>7. \A g \in Hosts : Openable(g)' = Openable(g)
  BY <1>2 DEF Openable
<1>8. \A g \in Hosts : sock'[g] = sock[g] \/ sock'[g].state = "CLOSE"
  BY <1>2, <1>3
<1>9. Client \in Hosts /\ Server \in Hosts
  BY TwoHosts
<1>10. Unopened /\ ClientOpens /\ ServerOpens
  BY DEF StreamInv, HandshakeOK
<1>11. Unopened'
  BY <1>2, <1>7, <1>8, <1>9, <1>10 DEF Unopened, Opens
<1>12. ClientOpens'
  BY <1>2, <1>8, <1>9, <1>10 DEF ClientOpens
<1>13. ServerOpens'
  BY <1>2, <1>8, <1>9, <1>10 DEF ServerOpens, HasOpener, OpenerFirst, Opener, Opens
<1>14. \A g \in Hosts : StreamOK(g)'
  BY <1>1, <1>5, <1>6
<1> QED
  BY <1>11, <1>12, <1>13, <1>14 DEF StreamInv, HandshakeOK

-----------------------------------------------------------------------------
\* The connection is opened.

\* connect
LEMMA ConnectStreams ==
  ASSUME HostsTyped, WorldTyped, CallsInv, StreamInv, AppConnect
  PROVE  StreamInv'
<1> DEFINE e == Connect
           q == net[Client]
<1>1. Begins(Client, e, "connect", q)
  BY AppConnectBegins
<1>2. /\ Client \in Hosts /\ Server \in Hosts /\ Client # Server
      /\ Peer(Client) = Server /\ Peer(Server) = Client
      /\ \A g \in Hosts : g = Client \/ g = Server
  BY TwoHosts DEF Hosts
<1>3. Begun(Client, e, "connect", q) /\ Unmoved(Server)
  BY <1>1, <1>2, BeginsIs
<1>4. PICK g \in SegmentType : /\ e.sent = <<g>> /\ g.syn /\ ~g.ack /\ ~g.fin
                               /\ g.data = <<>>
  BY ConnectIs
<1>5. /\ e.s = OpenSocket("SYN_SENT", 0) /\ e.s.state = "SYN_SENT"
      /\ e.s.rcv_nxt = 0 /\ e.s.valid
  BY ConnectIs DEF OpenSocket, FreeSocket
<1>6. Openable(Client) /\ listener' = listener
  BY <1>1 DEF Begins
<1>7. Unopened /\ ClientOpens /\ ServerOpens /\ StreamOK(Client) /\ StreamOK(Server)
  BY <1>2 DEF StreamInv, HandshakeOK
<1>8. /\ Openable(Server) /\ net[Server] = <<>> /\ net[Client] = <<>>
      /\ written[Client] = 0 /\ down[Server] = "no"
  BY <1>6, <1>7 DEF Unopened
<1>9. sock[Server].state = "CLOSE" /\ app[Server] = "new" /\ app[Client] = "new"
  <2>1. app[Server] = "new" /\ app[Client] = "new"
    BY <1>6, <1>8 DEF Openable
  <2>2. ~sock[Server].valid
    BY <1>2, <1>8 DEF Openable, HostsTyped, FreshHasNoSocket, CallsInv, ListenerOK
  <2> QED
    BY <1>2, <2>1, <2>2 DEF CallsInv, HostOK, Shape, FreeSocket
<1>10. net'[Server] = <<g>>
  <2>1. net'[Server] = <<>> \o <<g>>
    BY <1>2, <1>3, <1>4, <1>8 DEF Begun
  <2>2. <<>> \o <<g>> = <<g>>
    <3>1. <<g>> \in Seq(SegmentType)
      BY <1>4
    <3> QED
      BY <3>1, EmptySeq, ConcatNothing
  <2> QED
    BY <2>1, <2>2
<1>11. /\ sock'[Client] = e.s /\ sock'[Server] = sock[Server]
       /\ app'[Client] = "new" /\ app'[Server] = "new" /\ call'[Client] = "connect"
       /\ call'[Server] = call[Server] /\ down'[Server] = "no"
       /\ written'[Client] = written[Client] /\ written'[Server] = written[Server]
       /\ got'[Client] = got[Client] /\ got'[Server] = got[Server]
       /\ net'[Client] = <<>>
  BY <1>3, <1>8, <1>9 DEF Begun, Unmoved
<1>12. \A i \in DOMAIN <<g>> : <<g>>[i] = g
  OBVIOUS
<1>13. DOMAIN <<>> = {}
  OBVIOUS
<1> HIDE DEF e
<1>14. StreamOK(Client)'
  BY <1>2, <1>5, <1>7, <1>9, <1>11, <1>13 DEF StreamOK, Established, Knows
<1>15. StreamOK(Server)'
  <2>1. SegFor(g, written[Client], sock[Server], e.s)
    BY <1>4 DEF SegFor
  <2> QED
    BY <1>2, <1>7, <1>9, <1>10, <1>11, <1>12, <2>1 DEF StreamOK, Established, Knows
<1>16. ~Openable(Client)' /\ Openable(Server)'
  BY <1>2, <1>6, <1>8, <1>11 DEF Openable
<1>17. Unopened'
  <2>1. \A i \in DOMAIN net'[Server] : ~Opens(net'[Server][i])
    BY <1>4, <1>10, <1>12 DEF Opens
  <2> QED
    BY <1>5, <1>8, <1>11, <1>16, <2>1 DEF Unopened, Opens
<1>18. ClientOpens'
  BY <1>4, <1>5, <1>9, <1>10, <1>11, <1>12 DEF ClientOpens
<1>19. ServerOpens'
  BY <1>9, <1>11 DEF ServerOpens
<1> QED
  BY <1>2, <1>14, <1>15, <1>17, <1>18, <1>19 DEF StreamInv, HandshakeOK

\* TCPAccept for a client that has connected
LEMMA AcceptStreams ==
  ASSUME HostsTyped, WorldTyped, CallsInv, StreamInv, NEW n, n = First, NEW q,
         Begins(Server, TCPAccept(n), "accept", q), ~Openable(Client)
  PROVE  StreamInv'
<1> DEFINE e == TCPAccept(n)
<1>1. /\ Client \in Hosts /\ Server \in Hosts /\ Client # Server
      /\ Peer(Client) = Server /\ Peer(Server) = Client
      /\ \A g \in Hosts : g = Client \/ g = Server
  BY TwoHosts DEF Hosts
<1>2. Begun(Server, e, "accept", q) /\ Unmoved(Client) /\ Rest(Server, q)
  BY <1>1, BeginsIs DEF Begins
<1>3. n = ISS + 1
  BY DEF First
<1>4. e.s = OpenSocket("SYN_RECV", n)
      /\ \E g \in SegmentType :
             /\ e.sent = <<g>> /\ g.syn /\ g.ack /\ ~g.fin
             /\ g.seq = ISS /\ g.ack_seq = ISS + 1 /\ g.data = <<>>
  BY <1>3, TCPAcceptIs
<1>5. PICK g \in SegmentType : /\ e.sent = <<g>> /\ g.ack /\ ~g.fin
                               /\ g.ack_seq = First /\ g.data = <<>>
  BY <1>4 DEF First
<1>6. /\ e.s.state = "SYN_RECV" /\ e.s.rcv_nxt = First /\ e.s.valid
      /\ RightEdge(e.s) = First + InCapacity
  <2>1. e.s.state = "SYN_RECV" /\ e.s.rcv_nxt = First /\ e.s.valid /\ e.s.input = <<>>
    BY <1>4 DEF OpenSocket, FreeSocket
  <2>2. InFree(e.s) = InCapacity
    <3>1. Len(<<>>) = 0 /\ InCapacity \in Nat
      BY CapacityType
    <3> QED
      BY <2>1, <3>1 DEF InFree
  <2> QED
    BY <2>1, <2>2 DEF RightEdge
<1>7. /\ Openable(Server)
      /\ listener' = [waiting |-> <<>>, accepting |-> FALSE]
  BY <1>1 DEF Begins
<1>8. Unopened /\ ClientOpens /\ ServerOpens /\ StreamOK(Client) /\ StreamOK(Server)
  BY <1>1 DEF StreamInv, HandshakeOK
<1>9. /\ net[Client] = <<>> /\ written[Client] = 0 /\ down[Server] = "no"
      /\ sock[Client].state # "ESTABLISHED"
      /\ \A i \in DOMAIN net[Server] : ~Opens(net[Server][i])
      /\ app[Server] = "new"
  BY <1>7, <1>8 DEF Unopened, Openable
<1>10. \A i \in DOMAIN q : \E k \in DOMAIN net[Server] : q[i] = net[Server][k]
  BY <1>1, <1>2, RestIs
<1>11. net'[Client] = <<g>>
  <2>1. net'[Client] = <<>> \o <<g>>
    BY <1>1, <1>2, <1>5, <1>9 DEF Begun
  <2>2. <<>> \o <<g>> = <<g>>
    <3>1. <<g>> \in Seq(SegmentType)
      BY <1>5
    <3> QED
      BY <3>1, EmptySeq, ConcatNothing
  <2> QED
    BY <2>1, <2>2
<1>12. /\ sock'[Server] = e.s /\ sock'[Client] = sock[Client]
       /\ app'[Server] = "new" /\ app'[Client] = app[Client]
       /\ call'[Server] = "accept" /\ call'[Client] = call[Client]
       /\ down'[Server] = "no"
       /\ written'[Client] = written[Client] /\ written'[Server] = written[Server]
       /\ got'[Client] = got[Client] /\ got'[Server] = got[Server]
       /\ net'[Server] = q
  BY <1>2, <1>9 DEF Begun, Unmoved
<1>13. \A i \in DOMAIN <<g>> : <<g>>[i] = g
  OBVIOUS
<1>14. sock[Client].valid => sock[Client].state = "SYN_SENT"
  <2>1. Shape(sock[Client]) /\ sock[Client].state # "SYN_RECV"
    BY <1>1 DEF CallsInv, HostOK, ListenerOK
  <2>2. sock[Client].state \in States
    BY <1>1, HostNumbers DEF SocketOK, SocketType
  <2> QED
    BY <1>9, <2>1, <2>2 DEF Shape, States
<1> HIDE DEF e
<1>15. StreamOK(Client)'
  <2>1. First + g.window <= First + InCapacity /\ First <= First
    <3>1. g.window \in 0 .. InCapacity
      BY <1>5 DEF SegmentType
    <3>2. First \in Nat /\ InCapacity \in Nat
      BY CapacityType DEF First, ISS
    <3> QED
      BY <3>1, <3>2
  <2>2. SegFor(g, written[Server], sock[Client], e.s)
    BY <1>5, <1>6, <2>1 DEF SegFor
  <2>3. \A i \in DOMAIN net'[Client] :
           SegFor(net'[Client][i], written'[Server], sock'[Client], sock'[Server])
    BY <1>11, <1>12, <1>13, <2>2
  <2> QED
    BY <1>1, <1>8, <1>9, <1>12, <2>3 DEF StreamOK, Established, Knows
<1>16. StreamOK(Server)'
  <2>1. ASSUME NEW i \in DOMAIN net[Server]
        PROVE  SegFor(net[Server][i], written[Client], e.s, sock[Client])
    <3> DEFINE seg == net[Server][i]
    <3>1. SegFor(seg, written[Client], sock[Server], sock[Client])
      BY <1>1, <1>8 DEF StreamOK
    <3>2. seg \in SegmentType
      <4>1. net[Server] \in Seq(SegmentType)
        BY <1>1 DEF WorldTyped
      <4> QED
        BY <4>1
    <3>3. sock[Client].valid => ~seg.ack
      BY <1>8, <1>14 DEF ClientOpens
    <3> HIDE DEF seg
    <3>4. seg.data = <<>>
      <4> DEFINE l == Len(seg.data)
                 x == seg.seq
      <4>1. x \in Nat /\ l \in Nat /\ seg.data \in Seq(Byte)
        BY <3>2 DEF SegmentType
      <4>2. First \in Nat /\ First + 0 = First
        BY DEF First, ISS
      <4>3. seg.data # <<>> => First <= x /\ x + l <= First
        BY <1>9, <3>1, <4>2 DEF SegFor, InStream
      <4>4. l = 0 <=> seg.data = <<>>
        BY <4>1, EmptySeq
      <4> HIDE DEF l, x
      <4> QED
        BY <4>1, <4>2, <4>3, <4>4
    <3> QED
      BY <3>1, <3>3, <3>4 DEF SegFor, seg
  <2>2. \A i \in DOMAIN q : SegFor(q[i], written[Client], e.s, sock[Client])
    BY <1>10, <2>1
  <2>3. \A i \in DOMAIN net'[Server] :
           SegFor(net'[Server][i], written'[Client], sock'[Server], sock'[Client])
    BY <1>12, <2>2
  <2> QED
    BY <1>1, <1>6, <1>8, <1>9, <1>12, <2>3 DEF StreamOK, Established, Knows
<1>17. ~Openable(Client)' /\ ~Openable(Server)'
  BY <1>1, <1>7, <1>12 DEF Openable
<1>18. Unopened'
  BY <1>12, <1>17 DEF Unopened
<1>19. ClientOpens'
  BY <1>6, <1>8, <1>10, <1>12 DEF ClientOpens
<1>20. ServerOpens'
  <2>1. \A i \in DOMAIN q : ~Opens(q[i])
    BY <1>9, <1>10
  <2> QED
    BY <1>9, <1>12, <2>1 DEF ServerOpens, OpenerFirst, Opens
<1> QED
  BY <1>1, <1>15, <1>16, <1>18, <1>19, <1>20 DEF StreamInv, HandshakeOK

\* accept of a connection that waits
LEMMA AppAcceptStreams ==
  ASSUME HostsTyped, WorldTyped, CallsInv, StreamInv, AppAccept
  PROVE  StreamInv'
<1>1. CASE listener.waiting = <<>>
  BY <1>1, AcceptBlocksStreams
<1>2. CASE listener.waiting # <<>>
  <2> DEFINE n == Head(listener.waiting)
  <2>1. listener.waiting \in Seq(Nat)
    BY DEF WorldTyped
  <2>2. n = listener.waiting[1] /\ 1 \in DOMAIN listener.waiting
    BY <1>2, <2>1, TailElements
  <2>3. n = First
    BY <2>2 DEF CallsInv, ListenerOK, First
  <2>4. ~Openable(Client)
    BY <1>2 DEF StreamInv, HandshakeOK, Unopened
  <2>5. Begins(Server, TCPAccept(n), "accept", net[Server])
    BY <1>2, AppAcceptBegins
  <2> HIDE DEF n
  <2> QED
    BY <2>3, <2>4, <2>5, AcceptStreams
<1> QED
  BY <1>1, <1>2

\* DeliverToListener
LEMMA DeliverToListenerStreams ==
  ASSUME HostsTyped, WorldTyped, CallsInv, StreamInv, DeliverToListener
  PROVE  StreamInv'
<1>1. CASE ~listener.accepting
  BY <1>1, SynWaitsStreams
<1>2. CASE listener.accepting
  <2> DEFINE n == Head(net[Server]).seq + 1
  <2>1. net[Server] # <<>> /\ Head(net[Server]).syn
    BY DEF DeliverToListener
  <2>2. net[Server] \in Seq(SegmentType) /\ Server \in Hosts
    BY TwoHosts DEF WorldTyped
  <2>3. Head(net[Server]) = net[Server][1] /\ 1 \in DOMAIN net[Server]
    BY <2>1, <2>2, TailElements
  <2>4. n = First
    BY <2>1, <2>2, <2>3 DEF CallsInv, SynsOK, SynOK, First
  <2>5. ~Openable(Client)
    BY <2>1 DEF StreamInv, HandshakeOK, Unopened
  <2>6. Begins(Server, TCPAccept(n), "accept", Tail(net[Server]))
    BY <1>2, DeliverToListenerBegins
  <2> HIDE DEF n
  <2> QED
    BY <2>4, <2>5, <2>6, AcceptStreams
<1>3. listener.accepting \in BOOLEAN
  BY DEF WorldTyped
<1> QED
  BY <1>1, <1>2, <1>3

-----------------------------------------------------------------------------
\* The initial states satisfy the invariant.
LEMMA InitStreams == Init => StreamInv
<1> SUFFICES ASSUME Init PROVE StreamInv
  OBVIOUS
<1>1. ~FreeSocket.valid /\ FreeSocket.state = "CLOSE"
  BY DEF FreeSocket
<1>2. ASSUME NEW h \in Hosts
      PROVE  /\ sock[h] = FreeSocket /\ net[h] = <<>> /\ app[h] = "new"
             /\ call[h] = "none" /\ written[h] = 0 /\ got[h] = <<>> /\ down[h] = "no"
  BY DEF Init
<1>3. listener.waiting = <<>>
  BY DEF Init
<1>4. DOMAIN <<>> = {} /\ Len(<<>>) = 0 /\ 1 .. 0 = {}
  OBVIOUS
<1>5. \A h \in Hosts : Peer(h) \in Hosts /\ StreamLength[h] \in Nat
  BY TwoHosts, ConnectionAssumption
<1> HIDE DEF FreeSocket
<1>6. ASSUME NEW h \in Hosts PROVE StreamOK(h)
  <2>1. Counted(got[h], written[Peer(h)])
    BY <1>2, <1>4, <1>5 DEF Counted
  <2>2. 0 <= StreamLength[h]
    BY <1>5
  <2> QED
    BY <1>1, <1>2, <1>4, <1>5, <2>1, <2>2 DEF StreamOK, Established, Knows
<1>7. HandshakeOK
  <2>1. Client \in Hosts /\ Server \in Hosts
    BY TwoHosts
  <2>2. Openable(Server)
    BY <1>2, <2>1 DEF Openable
  <2>3. Unopened
    BY <1>1, <1>2, <1>3, <1>4, <2>1, <2>2 DEF Unopened
  <2>4. ClientOpens /\ ServerOpens
    BY <1>1, <1>2, <2>1 DEF ClientOpens, ServerOpens
  <2> QED
    BY <2>3, <2>4 DEF HandshakeOK
<1> QED
  BY <1>6, <1>7 DEF StreamInv

\* One case for each action.
LEMMA StreamStep ==
  LossScope # "any" /\ IInv /\ CallsInv /\ StreamInv /\ [Next]_vars => StreamInv'
<1> SUFFICES ASSUME LossScope # "any", HostsTyped, WorldTyped, CallsInv, StreamInv,
                    [Next]_vars
             PROVE  StreamInv'
  BY InvariantParts
<1>1. CASE UNCHANGED vars
  BY <1>1 DEF vars, StreamInv, StreamOK, Established, HandshakeOK, Unopened,
     ClientOpens, ServerOpens, Openable, HasOpener, OpenerFirst, Opener, Opens
<1>2. ASSUME NEW h \in Hosts, AppCalls(h)
      PROVE  StreamInv'
  <2>1. CASE AppConnect
    BY <2>1, ConnectStreams
  <2>2. CASE AppAccept
    BY <2>2, AppAcceptStreams
  <2>3. CASE AppWrite(h)
    BY <2>3, AppWriteServed, ServedStreams
  <2>4. CASE AppRead(h)
    BY <2>4, AppReadServed, ServedStreams
  <2>5. CASE AppClose(h)
    BY <2>5, AppCloseServed, ServedStreams
  <2> QED
    BY <1>2, <2>1, <2>2, <2>3, <2>4, <2>5 DEF AppCalls
<1>3. ASSUME NEW h \in Hosts, Deliver(h)
      PROVE  StreamInv'
  <2>1. CASE DeliverToSocket(h)
    BY <2>1, DeliverToSocketServed, ServedStreams
  <2>2. CASE DeliverToListener
    BY <2>2, DeliverToListenerStreams
  <2>3. CASE DeliverInVain(h) \/ (h = Client /\ DeliverToNobody)
    BY <2>3, DropStreams
  <2> QED
    BY <1>3, <2>1, <2>2, <2>3 DEF Deliver
<1>4. ASSUME NEW h \in Hosts, Lose(h)
      PROVE  StreamInv'
  BY <1>4, DropStreams
<1>5. ASSUME NEW h \in Hosts, Tick(h)
      PROVE  StreamInv'
  BY <1>5, TickServed, ServedStreams
<1>6. ASSUME NEW h \in Hosts, LingerEnds(h)
      PROVE  StreamInv'
  BY <1>6, LingerEndsStreams
<1> QED
  BY <1>1, <1>2, <1>3, <1>4, <1>5, <1>6 DEF Next, Done

\* The three invariants together are inductive.
LEMMA InductiveStreams ==
  ASSUME LossScope # "any"
  PROVE  Spec => [](IInv /\ CallsInv /\ StreamInv)
<1>1. Init => IInv /\ CallsInv /\ StreamInv
  BY InitOK, InitCalls, InitStreams
<1>2. (IInv /\ CallsInv /\ StreamInv) /\ [Next]_vars => (IInv /\ CallsInv /\ StreamInv)'
  BY StepOK, CallsStep, StreamStep
<1> QED
  BY <1>1, <1>2, PTL DEF Spec

-----------------------------------------------------------------------------
(***************************************************************************)
(* What the invariant says of the streams.                                 *)
(***************************************************************************)

\* What an application reads is what its peer has written, byte by byte: the
\* rings, the cut into segments, the retransmissions and the resets
\* (TCPCallback, processSend, TCPTimeout) lose, repeat and reorder nothing.
THEOREM StreamsIntact ==
  ASSUME LossScope # "any"
  PROVE  Spec => []StreamIntegrity
<1>1. StreamInv => StreamIntegrity
  <2> SUFFICES ASSUME StreamInv, NEW h \in Hosts
               PROVE  /\ Len(got[Peer(h)]) <= written[h]
                      /\ \A k \in 1 .. Len(got[Peer(h)]) : got[Peer(h)][k] = k
    BY DEF StreamIntegrity
  <2>1. Peer(h) \in Hosts /\ Peer(Peer(h)) = h
    BY TwoHosts
  <2>2. StreamOK(Peer(h))
    BY <2>1 DEF StreamInv
  <2> QED
    BY <2>1, <2>2 DEF StreamOK, Counted
<1> QED
  BY <1>1, InductiveStreams, PTL

\* Two sockets that are established agree on how far the stream has come.
LEMMA PeersAgree ==
  ASSUME HostsTyped, StreamInv, NEW h \in Hosts, Established(h), Established(Peer(h))
  PROVE  /\ sock[h].snd_una <= sock[Peer(h)].rcv_nxt
         /\ sock[Peer(h)].rcv_nxt <= First + written[h]
<1>1. Peer(h) \in Hosts /\ Peer(Peer(h)) = h
  BY TwoHosts
<1>2. StreamOK(h) /\ StreamOK(Peer(h))
  BY <1>1 DEF StreamInv
<1> QED
  BY <1>1, <1>2 DEF StreamOK, Knows, ReceiveSide, Established

\* Every byte is in exactly one place: acknowledged or in the output buffer of
\* the writer, read or in the input buffer of the reader; and the writer keeps
\* what the reader's socket does not have yet.
THEOREM AccountsBalance ==
  ASSUME LossScope # "any"
  PROVE  Spec => []BytesAccounted
<1>1. IInv /\ StreamInv => BytesAccounted
  <2> SUFFICES ASSUME HostsTyped, StreamInv, NEW h \in Hosts, Established(h)
               PROVE  LET s == sock[h]  p == sock[Peer(h)] IN
                      /\ written[h] = (s.snd_una - First) + Len(s.output)
                      /\ s.rcv_nxt = First + Len(got[h]) + Len(s.input)
                      /\ Established(Peer(h)) =>
                             s.snd_una <= p.rcv_nxt /\ p.rcv_nxt <= First + written[h]
    BY InvariantParts DEF BytesAccounted
  <2> DEFINE s == sock[h]
             una == s.snd_una
             l == Len(s.output)
             w == written[h]
  <2>1. SendSide(s, w, StreamLength[h]) /\ ReceiveSide(s, got[h], written[Peer(h)])
    BY DEF StreamInv, StreamOK
  <2>2. una \in Nat /\ l \in Nat /\ w \in Nat /\ First \in Nat
    BY HostNumbers, SocketNumbers
  <2>3. una + l = First + w
    BY <2>1 DEF SendSide
  <2> HIDE DEF una, l, w
  <2>4. w = (una - First) + l
    BY <2>2, <2>3
  <2>5. s.rcv_nxt = First + Len(got[h]) + Len(s.input)
    BY <2>1 DEF ReceiveSide
  <2> QED
    BY <2>4, <2>5, PeersAgree DEF una, l, w
<1> QED
  BY <1>1, InductiveStreams, PTL

\* A segment never overruns the input buffer of the socket it is for: the
\* window the receiver advertised still holds when the segment arrives.
THEOREM FlowControlled ==
  ASSUME LossScope # "any"
  PROVE  Spec => []NothingSentTooMuch
<1>1. StreamInv => NothingSentTooMuch
  <2> SUFFICES ASSUME StreamInv, NEW h \in Hosts, Established(h),
                      NEW i \in DOMAIN net[h], net[h][i].data # <<>>
               PROVE  net[h][i].seq + Len(net[h][i].data)
                          <= sock[h].rcv_nxt + InFree(sock[h])
    BY DEF NothingSentTooMuch
  <2>1. SegFor(net[h][i], written[Peer(h)], sock[h], sock[Peer(h)])
    BY DEF StreamInv, StreamOK
  <2> QED
    BY <2>1 DEF SegFor, RightEdge, Established
<1> QED
  BY <1>1, InductiveStreams, PTL

\* A socket whose FIN has left has nothing to send any more, and its peer's
\* socket has the whole stream (shutdownSocket, processWriteSend).
THEOREM CloseComesLast ==
  ASSUME LossScope # "any"
  PROVE  Spec => []CloseFlushes
<1>1. IInv /\ CallsInv /\ StreamInv => CloseFlushes
  <2> SUFFICES ASSUME HostsTyped, CallsInv, StreamInv, NEW h \in Hosts,
                      sock[h].fin_state \in FinWait, Established(Peer(h))
               PROVE  /\ sock[h].output = <<>>
                      /\ sock[Peer(h)].rcv_nxt = First + written[h]
    BY InvariantParts DEF CloseFlushes, FinWait
  <2> DEFINE s == sock[h]
             una == s.snd_una
             r == sock[Peer(h)].rcv_nxt
             w == written[h]
  <2>1. Shape(s) /\ s.state \in States
    BY HostNumbers DEF CallsInv, HostOK, SocketOK, SocketType
  <2>2. Established(h)
    BY <2>1 DEF Shape, States, FreeSocket, FinWait, Established
  <2>3. SendSide(s, w, StreamLength[h])
    BY <2>2 DEF StreamInv, StreamOK
  <2>4. s.output = <<>>
    BY <2>3 DEF SendSide
  <2>5. una <= r /\ r <= First + w
    BY <2>2, PeersAgree
  <2>6. una + 0 = First + w
    <3>1. Len(<<>>) = 0
      OBVIOUS
    <3> QED
      BY <2>3, <2>4, <3>1 DEF SendSide
  <2>7. una \in Nat /\ r \in Nat /\ w \in Nat /\ First \in Nat
    BY HostNumbers, SocketNumbers
  <2> HIDE DEF una, r, w
  <2>8. r = First + w
    BY <2>5, <2>6, <2>7
  <2> QED
    BY <2>4, <2>8 DEF r, w
<1> QED
  BY <1>1, InductiveStreams, PTL

-----------------------------------------------------------------------------
\* The two daemons implement the byte stream.

\* What is given continues what was read.
LEMMA GivenContinues ==
  ASSUME NEW g \in Seq(Byte), NEW new \in Seq(Byte), NEW w, Counted(g \o new, w)
  PROVE  /\ new = [k \in 1 .. Len(new) |-> Len(g) + k]
         /\ Len(g) + Len(new) <= w
<1> DEFINE all == g \o new
           l == Len(g)
           n == Len(new)
<1>1. /\ l \in Nat /\ n \in Nat /\ Len(all) = l + n /\ DOMAIN new = 1 .. n
      /\ \A i \in 1 .. Len(all) : all[i] = IF i <= l THEN g[i] ELSE new[i - l]
  BY ConcatProperties
<1>2. Len(all) <= w /\ \A k \in 1 .. Len(all) : all[k] = k
  BY DEF Counted
<1> HIDE DEF all, l, n
<1>3. ASSUME NEW k \in 1 .. n PROVE new[k] = l + k
  <2>1. l + k \in 1 .. Len(all) /\ ~(l + k <= l) /\ (l + k) - l = k
    BY <1>1
  <2> QED
    BY <1>1, <1>2, <2>1
<1>4. new = [k \in 1 .. n |-> new[k]]
  BY <1>1
<1>5. new = [k \in 1 .. n |-> l + k]
  BY <1>3, <1>4
<1> QED
  BY <1>1, <1>2, <1>5 DEF l, n

\* A routine takes bytes, or gives bytes, or neither.
LEMMA ServedImplements ==
  ASSUME HostsTyped, WorldTyped, CallsInv, StreamInv, NEW h, Served(h)
  PROVE  [Stream!Next]_<<written, got>>
<1>1. PICK e, c, q, heard : Moves(h, e, c, q, heard) /\ Streams(h, e, c)
  BY DEF Served
<1> DEFINE w == written[h]
           v == written[Peer(h)]
           l == StreamLength[h]
           m == StreamLength[Peer(h)]
           t == e.took
           n == Len(e.gave)
           read == Len(got[h])
<1>2. h \in Hosts /\ EffectOK(e) /\ Apply(h, e, c)
  BY <1>1, MovesIs DEF Moves
<1>3. t \in Nat /\ e.gave \in Seq(Byte) /\ n \in Nat
  BY <1>2 DEF EffectOK, EffectType
<1>4. /\ Peer(h) \in Hosts /\ w \in Nat /\ v \in Nat /\ l \in Nat /\ m \in Nat
      /\ got[h] \in Seq(Byte) /\ read \in Nat
  BY <1>2, HostNumbers, ConnectionAssumption
<1>5. /\ w + t <= l /\ Counted(got[h] \o e.gave, v)
      /\ t # 0 => c = "write"
      /\ e.gave # <<>> => c = "read"
  BY <1>1 DEF Streams
<1>6. v <= m
  BY <1>4 DEF StreamInv, StreamOK
<1>7. /\ written' = [written EXCEPT ![h] = w + t]
      /\ got' = [got EXCEPT ![h] = got[h] \o e.gave]
  BY <1>2 DEF Apply
<1>8. t = 0 => written' = written
  <2>1. w + 0 = w
    BY <1>4
  <2> QED
    BY <1>7, <2>1 DEF HostsTyped
<1>9. e.gave = <<>> => got' = got
  <2>1. got[h] \o <<>> = got[h]
    BY <1>4, ConcatNothing
  <2> QED
    BY <1>7, <2>1 DEF HostsTyped
<1> HIDE DEF w, v, l, m, t, n, read
<1>10. CASE t # 0
  <2>1. e.gave = <<>>
    BY <1>5, <1>10
  <2>2. t \in 1 .. l + m
    BY <1>3, <1>4, <1>5, <1>10
  <2>3. Stream!Take(h, t)
    BY <1>5, <1>7, <1>9, <2>1 DEF Stream!Take, w, l
  <2> QED
    BY <1>2, <2>2, <2>3 DEF Stream!Next, l, m
<1>11. CASE e.gave # <<>>
  <2>1. t = 0
    BY <1>5, <1>11
  <2>2. e.gave = [k \in 1 .. n |-> read + k] /\ read + n <= v
    BY <1>3, <1>4, <1>5, GivenContinues DEF n, read
  <2>3. n # 0
    BY <1>3, <1>11, EmptySeq DEF n
  <2>4. n \in 1 .. l + m
    BY <1>3, <1>4, <1>6, <2>2, <2>3
  <2>5. Stream!Give(h, n)
    BY <1>7, <1>8, <2>1, <2>2 DEF Stream!Give, read, v
  <2> QED
    BY <1>2, <2>4, <2>5 DEF Stream!Next, l, m
<1> QED
  BY <1>8, <1>9, <1>10, <1>11

\* connect and accept take and give nothing.
LEMMA BeginsImplements ==
  ASSUME HostsTyped, NEW h, NEW e, NEW c, NEW q, Begins(h, e, c, q)
  PROVE  UNCHANGED <<written, got>>
<1>1. h \in Hosts /\ Apply(h, e, c) /\ e.took = 0 /\ e.gave = <<>>
  BY DEF Begins
<1>2. written[h] + 0 = written[h] /\ got[h] \o <<>> = got[h]
  BY <1>1, HostNumbers, ConcatNothing
<1>3. /\ written' = [written EXCEPT ![h] = written[h] + 0]
      /\ got' = [got EXCEPT ![h] = got[h] \o <<>>]
  BY <1>1 DEF Apply
<1> QED
  BY <1>2, <1>3 DEF HostsTyped

\* Every step of the two daemons is a step of the byte stream, or changes
\* nothing of it.
LEMMA StepImplements ==
  LossScope # "any" /\ IInv /\ CallsInv /\ StreamInv /\ [Next]_vars
      => [Stream!Next]_<<written, got>>
<1> SUFFICES ASSUME LossScope # "any", HostsTyped, WorldTyped, CallsInv, StreamInv,
                    [Next]_vars
             PROVE  [Stream!Next]_<<written, got>>
  BY InvariantParts
<1>1. CASE UNCHANGED vars
  BY <1>1 DEF vars
<1>2. ASSUME NEW h \in Hosts, AppCalls(h)
      PROVE  [Stream!Next]_<<written, got>>
  <2>1. CASE AppConnect
    BY <2>1, AppConnectBegins, BeginsImplements
  <2>2. CASE AppAccept
    <3>1. CASE listener.waiting # <<>>
      BY <2>2, <3>1, AppAcceptBegins, BeginsImplements
    <3>2. CASE listener.waiting = <<>>
      BY <2>2, <3>2, AcceptBlocks DEF Idles
    <3> QED
      BY <3>1, <3>2
  <2>3. CASE AppWrite(h)
    BY <2>3, AppWriteServed, ServedImplements
  <2>4. CASE AppRead(h)
    BY <2>4, AppReadServed, ServedImplements
  <2>5. CASE AppClose(h)
    BY <2>5, AppCloseServed, ServedImplements
  <2> QED
    BY <1>2, <2>1, <2>2, <2>3, <2>4, <2>5 DEF AppCalls
<1>3. ASSUME NEW h \in Hosts, Deliver(h)
      PROVE  [Stream!Next]_<<written, got>>
  <2>1. CASE DeliverToSocket(h)
    BY <2>1, DeliverToSocketServed, ServedImplements
  <2>2. CASE DeliverToListener
    <3>1. CASE listener.accepting
      BY <2>2, <3>1, DeliverToListenerBegins, BeginsImplements
    <3>2. CASE ~listener.accepting
      BY <2>2, <3>2, SynWaits DEF Idles
    <3> QED
      BY <3>1, <3>2
  <2>3. CASE DeliverInVain(h) \/ (h = Client /\ DeliverToNobody)
    BY <2>3 DEF DeliverInVain, DeliverToNobody
  <2> QED
    BY <1>3, <2>1, <2>2, <2>3 DEF Deliver
<1>4. ASSUME NEW h \in Hosts, Lose(h)
      PROVE  [Stream!Next]_<<written, got>>
  BY <1>4 DEF Lose
<1>5. ASSUME NEW h \in Hosts, Tick(h)
      PROVE  [Stream!Next]_<<written, got>>
  BY <1>5, TickServed, ServedImplements
<1>6. ASSUME NEW h \in Hosts, LingerEnds(h)
      PROVE  [Stream!Next]_<<written, got>>
  BY <1>6 DEF LingerEnds
<1> QED
  BY <1>1, <1>2, <1>3, <1>4, <1>5, <1>6 DEF Next, Done

\* The two daemons and the network between them implement a reliable byte
\* stream in each direction: every step takes the next bytes of one stream,
\* gives the next bytes of one stream, or does neither.
THEOREM DaemonsImplementStream ==
  ASSUME LossScope # "any"
  PROVE  Spec => ImplementsStream
<1>1. Init => Stream!Init
  BY DEF Init, Stream!Init
<1>2. IInv /\ CallsInv /\ StreamInv /\ [Next]_vars => [Stream!Next]_<<written, got>>
  BY StepImplements
<1> QED
  BY <1>1, <1>2, InductiveStreams, PTL DEF Spec, ImplementsStream, Stream!Spec
=============================================================================
