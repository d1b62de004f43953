----------------------------- MODULE MCNetwork -----------------------------
(***************************************************************************)
(* Model-checking instance of the link and network layer.  The parts do    *)
(* not run beside each other: a behaviour picks one and runs it alone, so  *)
(* that the state spaces add up instead of multiplying.                    *)
(***************************************************************************)
EXTENDS Routing, RoutingLock, ArpCache, IpPath, LinkLayer, TLC

VARIABLE part

vars == <<part, RoutingVars, RoutingLockVars, ArpVars, IpVars, LinkVars>>

Runs(p) == part = p /\ UNCHANGED part
Rests(p) == part # p

Init ==
    /\ part \in {"routing", "routing locks", "arp", "ip", "link"}
    /\ RoutingInit /\ (Rests("routing") => world = CHOOSE w \in Worlds : TRUE)
    /\ RoutingLockInit
    /\ ArpInit
    /\ IpInit /\ (Rests("ip") => toSend = CHOOSE s \in PacketSets : TRUE)
    /\ LinkInit

Next ==
    \/ /\ Runs("routing") /\ RoutingNext
       /\ UNCHANGED <<RoutingLockVars, ArpVars, IpVars, LinkVars>>
    \/ /\ Runs("routing locks") /\ RoutingLockNext
       /\ UNCHANGED <<RoutingVars, ArpVars, IpVars, LinkVars>>
    \/ /\ Runs("arp") /\ ArpNext
       /\ UNCHANGED <<RoutingVars, RoutingLockVars, IpVars, LinkVars>>
    \/ /\ Runs("ip") /\ IpNext
       /\ UNCHANGED <<RoutingVars, RoutingLockVars, ArpVars, LinkVars>>
    \/ /\ Runs("link") /\ LinkNext
       /\ UNCHANGED <<RoutingVars, RoutingLockVars, ArpVars, IpVars>>

\* The fairness each module states, for as long as its part runs: the other
\* parts stand still.
Fairness ==
    /\ \A h \in Hosts : WF_RoutingVars(part = "routing" /\ RoutingRoutine(h))
    /\ \A d \in Devices : WF_RoutingVars(part = "routing" /\ RouteFrameHandler(d))
    /\ \A r \in Readers :
        /\ SF_RoutingLockVars(part = "routing locks" /\ (ReaderReads(r) \/ ReaderLeaves(r)))
        /\ WF_RoutingLockVars(part = "routing locks" /\ ReaderIsOut(r))
    /\ SF_RoutingLockVars(part = "routing locks" /\ UpdateWaits)
    /\ WF_RoutingLockVars(part = "routing locks" /\ UpdateGoesOn)
    /\ WF_RoutingLockVars(part = "routing locks" /\ HandlerGoesOn)
    /\ WF_RoutingLockVars(part = "routing locks" /\ UserUnlocksRoutes)
    /\ \A h \in IpHosts : WF_IpVars(part = "ip" /\ SendsFrame(h))
    /\ \A d \in AllDevs : WF_IpVars(part = "ip" /\ IPEthCallback(d))

Spec == Init /\ [][Next]_vars /\ Fairness

RoutingSettles == part = "routing" => RoutesSettle

-----------------------------------------------------------------------------
\* Routing: a line of three hosts A - B - C, A with a network S behind it.
\* A stops for good; or A and B alone, A stops and starts again, or an answer
\* comes late while the user of B adds a route.
LineDevices == "A" :> <<"a0", "a1">> @@ "B" :> <<"b1", "b2">> @@ "C" :> <<"c2">>
LineNets ==
    "a0" :> "S" @@ "a1" :> "AB" @@ "b1" :> "AB" @@ "b2" :> "BC" @@ "c2" :> "BC"
LinePeers ==
    "a0" :> "none" @@ "a1" :> "b1" @@ "b1" :> "a1" @@ "b2" :> "c2" @@ "c2" :> "b2"
LineUserRoutes == "A" :> {} @@ "B" :> {"U"} @@ "C" :> {}

World(running, stopping, adding, n, l) ==
    [running |-> running, stopping |-> stopping, adding |-> adding,
     restarts |-> n, late |-> l]
LineWorlds ==
    {World({"A", "B", "C"}, {"A"}, {}, 0, 0),
     World({"A", "B"}, {"A"}, {}, 1, 0),
     World({"A", "B"}, {}, {"B"}, 0, 1)}

\* IP: hosts A and B and the router R on segment 1, R and host Q on segment 2.
\* Nobody has the address x, which R and Q send to each other.
IpDevs == "A" :> <<"a">> @@ "B" :> <<"b">> @@ "R" :> <<"r1", "r2">> @@ "Q" :> <<"q">>
IpSegments == "a" :> 1 @@ "b" :> 1 @@ "r1" :> 1 @@ "r2" :> 2 @@ "q" :> 2
IpBroadcasts == 1 :> "bc1" @@ 2 :> "bc2"
Segment1 == {"a", "b", "r1", "bc1"}
Segment2 == {"r2", "q", "bc2"}
Route(to, mask, hop, dev) == [to |-> to, mask |-> mask, hop |-> hop, dev |-> dev]
Anywhere == Segment1 \cup Segment2 \cup {"x"}
IpRoutes ==
    "A" :> <<Route(Anywhere, 0, "r1", "a"), Route(Segment1, 24, "ff", "a")>>
    @@ "B" :> <<Route(Segment1, 24, "ff", "b"), Route(Segment2, 24, "r1", "b")>>
    @@ "R" :> <<Route(Anywhere, 0, "q", "r2"), Route(Segment1, 24, "ff", "r1"),
                Route(Segment2, 24, "ff", "r2")>>
    @@ "Q" :> <<Route(Segment2, 24, "ff", "q"), Route(Anywhere, 0, "r2", "q")>>
Packet(n, src, dst, size) == [name |-> n, src |-> src, dst |-> dst, size |-> size]
IpPacketSets ==
    {{Packet(1, "a", "q", 5), Packet(2, "a", "q", 4)},
     {Packet(1, "a", "q", 3), Packet(2, "b", "q", 4)},
     {Packet(1, "a", "b", 3), Packet(2, "a", "x", 3), Packet(3, "q", "bc1", 1)},
     {Packet(1, "a", "q", 3), Packet(2, "b", "q", 2)},
     {Packet(1, "a", "bc1", 3), Packet(2, "r1", "b", 2), Packet(3, "b", "x", 1)}}

\* Link: two devices of which the first may not open
CONSTANTS veth0, veth1
VethDevices == <<veth0, veth1>>
=============================================================================
