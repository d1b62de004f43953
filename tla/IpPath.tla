------------------------------- MODULE IpPath -------------------------------
(***************************************************************************)
(* An IP packet from sendIPPacket to the callback of its receiver: cut     *)
(* into fragments, sent along the routes, forwarded with its TTL, put      *)
(* together again.  network/ip.c and network/forwarding.c on hosts whose   *)
(* devices share segments.                                                 *)
(*                                                                         *)
(* A byte of payload is a pair of its packet and its place there.  The IP  *)
(* address of a device is the device.                                      *)
(* The routing tables do not change here, and whether find_arp_record      *)
(* knows an address is left open (ArpCache).                               *)
(***************************************************************************)
EXTENDS Integers, Sequences, FiniteSets, SequencesExt

CONSTANTS
    IpHosts,
    DevsOf,         \* host -> sequence of its devices
    SegmentOf,      \* device -> the segment it is on
    RoutesOf,       \* host -> routing entries: to, a set of addresses that
                    \* match; mask, its length; hop, a device or BroadcastAddr;
                    \* dev, the device to send on
    BroadcastAddr,  \* ff:ff:ff:ff:ff:ff
    BroadcastIp,    \* segment -> the IP broadcast address of its network
    PacketSets,     \* bound: the packets a run sends, with src, dst, size
    LostAddrs,      \* addresses the routes do not lead to
    FragSize,       \* IP_FRAG_SIZE
    Unit,           \* 8, the unit of frag_off
    MaxPayload,     \* MAX_PAYLOAD_SIZE
    HeaderSize,     \* sizeof(struct iphdr)
    InitialTTL,     \* 64
    FrameLosses     \* bound: frames that get lost

AllDevs == UNION {ToSet(DevsOf[h]) : h \in IpHosts}
Packets == UNION PacketSets

\* A packet holds at least the header of its protocol.  A device belongs to
\* one host, the devices of a host are on different segments.  IP_FRAG_SIZE
\* counts whole units, or what units it has are too large for a frame, as they
\* are with 1500.
ASSUME IpAssumption ==
    /\ {FragSize, Unit, MaxPayload, HeaderSize, InitialTTL} \subseteq Nat \ {0} /\ FrameLosses \in Nat
    /\ FragSize % Unit = 0 \/ (FragSize - (FragSize % Unit)) + HeaderSize > MaxPayload
    /\ \A q \in Packets : q.size \in Nat \ {0} /\ q.src \in AllDevs
    /\ BroadcastAddr \notin AllDevs
    /\ \A g, h \in IpHosts : g # h => ToSet(DevsOf[g]) \cap ToSet(DevsOf[h]) = {}
    /\ \A h \in IpHosts : \A d, e \in ToSet(DevsOf[h]) :
           d # e => SegmentOf[d] # SegmentOf[e]

VARIABLES
    toSend,     \* packets not sent yet
    sending,    \* the calls of forwardPacket in progress: the host, whether it
                \* is its callback that sends, the pieces left, the MAC, the device
    net,        \* device -> frames on their way to it
    fragBuf,    \* device -> ip_fragment_buf, its first ip_fragment_len blocks
    delivered,  \* what ip_callback was called with: at, packet, data
    lostFrames, \* frames lost so far
    sent        \* the packets sent

IpVars == <<toSend, sending, net, fragBuf, delivered, lostFrames, sent>>

HostOf(d) == CHOOSE h \in IpHosts : d \in ToSet(DevsOf[h])
Smaller(a, b) == IF a < b THEN a ELSE b

IpInit ==
    /\ toSend \in PacketSets
    /\ sending = {}
    /\ net = [d \in AllDevs |-> <<>>]
    /\ fragBuf = [d \in AllDevs |-> <<>>]
    /\ delivered = <<>>
    /\ lostFrames = 0
    /\ sent = {}

-----------------------------------------------------------------------------
\* Is address a the IP broadcast address of the network of device d?
IsBroadcastOf(a, d) == a = BroadcastIp[SegmentOf[d]]

\* routing_query: the first of the matching entries with the longest mask
RoutingQuery(h, a) ==
    LET ms == SelectSeq(RoutesOf[h], LAMBDA e : a \in e.to)
        longest == {i \in DOMAIN ms : \A j \in DOMAIN ms : ms[j].mask <= ms[i].mask}
    IN  {ms[i] : i \in {i \in longest : \A j \in longest : i <= j}}

\* The MACs forwardPacket may choose: the next hop; at the last hop that of
\* the destination if the ARP table has it, and the broadcast address if not.
NextHops(e, a) ==
    IF e.hop # BroadcastAddr THEN {e.hop}
    ELSE IF IsBroadcastOf(a, e.dev) THEN {BroadcastAddr}
    ELSE {a, BroadcastAddr}

\* The loop of forwardPacket: the packet whole, or in pieces of IP_FRAG_SIZE.
\* A piece keeps the flags and adds to the offset of what it was cut from.
Pieces(p) ==
    LET size == Len(p.data) IN
    IF size <= FragSize THEN <<p>>
    ELSE [k \in 1 .. (size + FragSize - 1) \div FragSize |->
             [p EXCEPT !.off = @ + ((k - 1) * FragSize) \div Unit,
                       !.mf = @ \/ k * FragSize < size,
                       !.data = SubSeq(p.data, (k - 1) * FragSize + 1,
                                       Smaller(k * FragSize, size))]]

\* forwardPacket(p) on host h: one call for each choice it has, none without
\* a route
ForwardPacket(h, p, callback) ==
    UNION {{[host |-> h, callback |-> callback, pieces |-> Pieces(p), mac |-> mac, dev |-> e.dev] :
                mac \in NextHops(e, p.dst)} : e \in RoutingQuery(h, p.dst)}

Begins(calls) ==
    IF calls = {} THEN UNCHANGED sending ELSE \E c \in calls : sending' = sending \cup {c}

\* sendIPPacket
SendIPPacket(q) ==
    /\ q \in toSend
    /\ Begins(ForwardPacket(HostOf(q.src),
           [id |-> q, dst |-> q.dst, off |-> 0, mf |-> FALSE, ttl |-> InitialTTL,
            data |-> [k \in 1 .. q.size |-> <<q, k>>]], FALSE))
    /\ toSend' = toSend \ {q}
    /\ sent' = sent \cup {q}
    /\ UNCHANGED <<net, fragBuf, delivered, lostFrames>>

\* A frame with the MAC mac on the segment of dev, and who captures it
Transmitted(p, mac, dev) ==
    [d \in AllDevs |->
        IF d # dev /\ SegmentOf[d] = SegmentOf[dev] /\ mac \in {d, BroadcastAddr}
        THEN Append(net[d], [mac |-> mac, ip |-> p]) ELSE net[d]]

FitsFrame(p) == Len(p.data) + HeaderSize <= MaxPayload

\* The next piece of the call c: sendFrame refuses what is too large, and
\* forwardPacket does not notice.  Between two pieces others may send.
SendFrame(c) ==
    /\ net' = IF FitsFrame(Head(c.pieces)) THEN Transmitted(Head(c.pieces), c.mac, c.dev)
              ELSE net
    /\ sending' = (sending \ {c}) \cup
           (IF Len(c.pieces) = 1 THEN {} ELSE {[c EXCEPT !.pieces = Tail(@)]})
    /\ UNCHANGED <<toSend, fragBuf, delivered, lostFrames, sent>>

-----------------------------------------------------------------------------
\* IPEthCallback: the device of h that address a is for, if any: the first
Addressed(h, a) ==
    LET for == {i \in DOMAIN DevsOf[h] : a = DevsOf[h][i] \/ IsBroadcastOf(a, DevsOf[h][i])}
    IN  {DevsOf[h][i] : i \in {i \in for : \A j \in for : i <= j}}

\* Mutant: fragments are appended whatever their offset is.
ContinuesAnyOffset(buf, p) == TRUE

\* Does the fragment begin where the buffer ends?
Continues(buf, p) == p.off * Unit = Len(buf)

\* The buffer after the fragment p: a fragment at offset 0 begins, one that
\* fits continues, any other clears it.
Buffered(buf, p) ==
    IF p.off = 0 THEN p.data
    ELSE IF Continues(buf, p) THEN buf \o p.data
    ELSE <<>>

\* Is the packet complete: is p the last piece and was it accepted?
Completes(buf, p) == ~p.mf /\ (p.off = 0 \/ Continues(buf, p))

\* The first frame of device d is for host h itself.
DeliverLocally(d, h) ==
    LET p == Head(net[d]).ip IN
    \E t \in Addressed(h, p.dst) :
        /\ fragBuf' = [fragBuf EXCEPT ![t] = Buffered(@, p)]
        /\ delivered' = IF Completes(fragBuf[t], p)
                        THEN Append(delivered, [at |-> h, id |-> p.id,
                                                data |-> Buffered(fragBuf[t], p)])
                        ELSE delivered
        /\ UNCHANGED sending

\* A broadcast frame is for somebody else on the segment: not forwarded.
MayForward(f) == f.mac # BroadcastAddr

\* Mutant: the TTL stays.
NextTTLSame(ttl) == ttl

NextTTL(ttl) == ttl - 1

\* IPForwarding: one hop less, and on along the routes while any is left
IPForwarding(h, p) ==
    IF NextTTL(p.ttl) = 0 THEN {}
    ELSE ForwardPacket(h, [p EXCEPT !.ttl = NextTTL(@)], TRUE)

ForwardOn(d, h) ==
    LET f == Head(net[d]) IN
    /\ Addressed(h, f.ip.dst) = {}
    /\ Begins(IF MayForward(f) THEN IPForwarding(h, f.ip) ELSE {})
    /\ UNCHANGED <<fragBuf, delivered>>

\* The handler of the host runs: callback_mutex is taken.
InCallback(h) == \E c \in sending : c.callback /\ c.host = h

\* IPEthCallback for the first frame captured on device d
IPEthCallback(d) ==
    /\ net[d] # <<>> /\ ~InCallback(HostOf(d))
    /\ net' = [net EXCEPT ![d] = Tail(@)]
    /\ DeliverLocally(d, HostOf(d)) \/ ForwardOn(d, HostOf(d))
    /\ UNCHANGED <<toSend, lostFrames, sent>>

\* A frame is lost on the way to d.
FrameLost(d) ==
    /\ net[d] # <<>> /\ lostFrames < FrameLosses
    /\ net' = [net EXCEPT ![d] = Tail(@)]
    /\ lostFrames' = lostFrames + 1
    /\ UNCHANGED <<toSend, sending, fragBuf, delivered, sent>>

SendsFrame(h) == \E c \in sending : c.host = h /\ SendFrame(c)

IpNext ==
    \/ \E q \in toSend : SendIPPacket(q)
    \/ \E h \in IpHosts : SendsFrame(h)
    \/ \E d \in AllDevs : IPEthCallback(d) \/ FrameLost(d)

\* A call of forwardPacket goes on, pcap delivers what was captured.
IpFairness ==
    /\ \A h \in IpHosts : WF_IpVars(SendsFrame(h))
    /\ \A d \in AllDevs : WF_IpVars(IPEthCallback(d))

IpSpec == IpInit /\ [][IpNext]_IpVars /\ IpFairness

-----------------------------------------------------------------------------
Whole(q) == [k \in 1 .. q.size |-> <<q, k>>]

\* The packets that share the buffer of q at host h: there is one per device,
\* for all senders and packets, and for the broadcasts of its network.
Sharing(h, q) ==
    {r \in sent \ {q} : Addressed(h, r.dst) \cap Addressed(h, q.dst) # {}}

\* Those that fill at least a fragment, so that one of q may follow on theirs
MayMix(h, q) == {r \in Sharing(h, q) : r.size >= FragSize}

\* What reaches ip_callback has its blocks in order and without a gap, from
\* the first on, whatever is lost or interleaved: IPEthCallback, ip.c.
NoGaps ==
    \A i \in DOMAIN delivered : LET data == delivered[i].data IN
        data # <<>> /\ \A k \in DOMAIN data : data[k][2] = k

\* It has the length of the packet that was sent, and is that packet but for
\* blocks of others that share its buffer and fill at least a fragment.
IntactUnlessMixed ==
    \A i \in DOMAIN delivered : LET q == delivered[i].id  data == delivered[i].data IN
        /\ Len(data) = q.size
        /\ \A k \in DOMAIN data : data[k][1] \in {q} \cup MayMix(delivered[i].at, q)

\* A packet reaches a host at most once, even where an unknown MAC makes the
\* sender broadcast the frame to a router as well, ip.c line 106.
AtMostOnce ==
    \A i, j \in DOMAIN delivered :
        delivered[i].at = delivered[j].at /\ delivered[i].id = delivered[j].id => i = j

\* What the transport layer may rely on, of every packet that reaches it
DeliveriesSound == NoGaps /\ IntactUnlessMixed /\ AtMostOnce

\* Every frame leaves the network some day, also where routes form a loop
\* (as they do while the routing tables change): IPForwarding counts the TTL.
NoFrameLeft == sending = {} /\ \A d \in AllDevs : net[d] = <<>>

\* Do all pieces of q fit a frame, and do their offsets count whole units?
Fits(q) ==
    /\ Smaller(q.size, FragSize) + HeaderSize <= MaxPayload
    /\ q.size > FragSize => FragSize % Unit = 0

\* A packet the routes lead home and of a size sendFrame accepts, with a
\* buffer of its own if it needs one, has arrived unless a frame was lost.
AllArrived ==
    \A q \in sent :
        (/\ Fits(q) /\ q.dst \notin LostAddrs
         /\ lostFrames = 0
         /\ q.size > FragSize => \A h \in IpHosts : Sharing(h, q) = {})
        => \E i \in DOMAIN delivered : delivered[i].id = q

\* In the end the network is empty and what could arrive has arrived.
PacketsArrive == <>[](NoFrameLeft /\ AllArrived)
=============================================================================
