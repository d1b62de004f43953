------------------------------- MODULE Routing -------------------------------
(***************************************************************************)
(* The distance-vector routing of network/routing.c on a set of hosts      *)
(* whose devices are joined in pairs (veth pairs).  Each host runs         *)
(* routing_routine: ask on every device, wait, rebuild the table from its  *)
(* own networks, the user's routes and the answers collected meanwhile,    *)
(* then advance the request id.  Hosts stop and start like the ./router    *)
(* processes of the README's test.                                         *)
(*                                                                         *)
(* A network stands for its address and mask, a device for its MAC.  A     *)
(* table is the set of its entries: their order decides nothing, for a     *)
(* network is there once, or once per device of the host's own.            *)
(***************************************************************************)
EXTENDS Integers, Sequences, FiniteSets, SequencesExt

CONSTANTS
    Hosts,
    DevicesOf,      \* host -> sequence of its devices
    NetOf,          \* device -> its network
    Peer,           \* device -> the device at the other end, or NoDevice
    UserRoutes,     \* host -> networks its user may add, on its first device
    Infinity,       \* ROUTING_DISTANCE_INFINITY
    MaxUserRoutes,  \* MAX_ROUTING_RECORD
    MaxReply,       \* entries that fit a frame: (1500 - 24) / 20
    Worlds,         \* bound: the hosts that run at first, those that stop,
                    \* those whose users add routes, how often hosts are started
                    \* again, how often answers take more than nine seconds
    RequestIds,     \* bound: request ids before they repeat (2^32)
    NoDevice,
    BroadcastMAC

\* Every host has a device, every device belongs to one host and is one end of
\* at most one link.  Fewer answers are late than there are request ids.
ASSUME RoutingAssumption ==
    /\ RequestIds \in Nat \ {0}
    /\ \A w \in Worlds : w.late \in Nat /\ w.late < RequestIds
    /\ \A h \in Hosts : DevicesOf[h] \in Seq(ToSet(DevicesOf[h])) \ {<<>>}
    /\ \A g, h \in Hosts : g # h => ToSet(DevicesOf[g]) \cap ToSet(DevicesOf[h]) = {}
    /\ LET devices == UNION {ToSet(DevicesOf[h]) : h \in Hosts} IN
       /\ NoDevice \notin devices
       /\ \A d \in devices : Peer[d] # NoDevice => Peer[d] \in devices /\ Peer[Peer[d]] = d

VARIABLES
    table,      \* routing_entries
    record,     \* record[0 .. routing_record_count - 1]
    userRoutes, \* user_routing_entries
    requestId,  \* routing_request_id
    phase,      \* where routing_routine is: "asking", "waiting", "rebuilt"
    up,         \* is the process running
    wire,       \* device -> frames on their way to it
    world,      \* one of Worlds
    restarts,   \* restarts so far
    late        \* late rounds so far

RoutingVars == <<table, record, userRoutes, requestId, phase, up, wire, world, restarts, late>>

Devices == UNION {ToSet(DevicesOf[h]) : h \in Hosts}
Owner(d) == CHOOSE h \in Hosts : d \in ToSet(DevicesOf[h])
Nets == {NetOf[d] : d \in Devices} \cup UNION {UserRoutes[h] : h \in Hosts}

\* struct routing_entry; the distance of a route of one's own is 0
Entry(net, distance, mac, dev) ==
    [net |-> net, distance |-> distance, dest_mac |-> mac, device |-> dev]

\* The networks of a host's devices and those its user added:
\* init_routing_entry and the first half of update_routing_table.
OwnEntries(h, added) ==
    {Entry(NetOf[d], 0, BroadcastMAC, d) : d \in ToSet(DevicesOf[h])}
    \cup {Entry(net, 0, BroadcastMAC, Head(DevicesOf[h])) : net \in added}

-----------------------------------------------------------------------------
\* Mutant: no split horizon.
UsableAny(e, r) == e.distance + 1 < Infinity

\* Does update_routing_table look at entry e of the answer r?  Not when it
\* leads back to the device that asked, not when it is infinitely far.
Usable(e, r) == e.dest_mac # r.to /\ e.distance + 1 < Infinity

\* Mutant: the distance of the neighbour is taken as it is.
LearnedSameDistance(e, r) == Entry(e.net, e.distance, r.from, r.to)

\* What an entry of an answer becomes: one hop more, by way of its sender
Learned(e, r) == Entry(e.net, e.distance + 1, r.from, r.to)

\* Entries of the answers i and j for one network: the second replaces the
\* first only if it is strictly shorter.
Preferred(i, e, j, f) == e.distance < f.distance \/ (e.distance = f.distance /\ i <= j)

\* The table that comes of the entries of one's own and the answers rs: for
\* every network that is not among them the first of the shortest routes.
TableFrom(own, rs) ==
    LET heard == UNION {{<<i, e>> : e \in {e \in rs[i].entries :
                            /\ Usable(e, rs[i])
                            /\ \A o \in own : o.net # e.net}} : i \in DOMAIN rs}
        best == {p \in heard : \A q \in heard :
                     q[2].net = p[2].net => Preferred(p[1], p[2], q[1], q[2])}
    IN  own \cup {Learned(p[2], rs[p[1]]) : p \in best}

-----------------------------------------------------------------------------
\* route_init, the globals of a process that begins: zero
RoutingInit ==
    /\ table = [h \in Hosts |-> OwnEntries(h, {})]
    /\ record = [h \in Hosts |-> <<>>]
    /\ userRoutes = [h \in Hosts |-> {}]
    /\ requestId = [h \in Hosts |-> 0]
    /\ phase = [h \in Hosts |-> "asking"]
    /\ world \in Worlds
    /\ up = [h \in Hosts |-> h \in world.running]
    /\ restarts = 0
    /\ late = 0
    /\ wire = [d \in Devices |-> <<>>]

Hears(d) == d # NoDevice /\ up[Owner(d)]

\* A frame to every device of a map from devices to frames, where it is heard
Transmit(frames) ==
    [d \in Devices |-> IF d \in DOMAIN frames /\ Hears(d)
                       THEN Append(wire[d], frames[d]) ELSE wire[d]]

\* Is the request of h, or an answer to it, still on the way?
Outstanding(h) ==
    \E o \in ToSet(DevicesOf[h]) :
        \/ \E i \in DOMAIN wire[o] : wire[o][i].op = "reply"
        \/ Hears(Peer[o]) /\ \E i \in DOMAIN wire[Peer[o]] :
                                  wire[Peer[o]][i].op = "request"

\* routing_routine, send_route_request on each device: a broadcast, here to
\* the peer.
SendRouteRequests(h) ==
    /\ up[h] /\ phase[h] = "asking"
    /\ wire' = Transmit([d \in {Peer[o] : o \in ToSet(DevicesOf[h])} |->
                            [op |-> "request", id |-> requestId[h]]])
    /\ phase' = [phase EXCEPT ![h] = "waiting"]
    /\ UNCHANGED <<table, record, userRoutes, requestId, up, world, restarts, late>>

\* Mutant: the new table begins with the old one.
RebuiltFromOld(h) == TableFrom(table[h], record[h])

\* The table update_routing_table builds
Rebuilt(h) == TableFrom(OwnEntries(h, userRoutes[h]), record[h])

\* Mutant: the answers stay for the next round.
RecordKept(h) == record[h]

\* What update_routing_table leaves in the record list
RecordCleared(h) == <<>>

UpdateRoutingTable(h) ==
    /\ up[h] /\ phase[h] = "waiting"
    /\ \/ ~Outstanding(h) /\ UNCHANGED late
       \/ Outstanding(h) /\ late < world.late /\ late' = late + 1
    /\ \E t \in {Rebuilt(h)} : table' = [table EXCEPT ![h] = t]
    /\ record' = [record EXCEPT ![h] = RecordCleared(h)]
    /\ phase' = [phase EXCEPT ![h] = "rebuilt"]
    /\ UNCHANGED <<userRoutes, requestId, up, wire, world, restarts>>

\* routing_request_id ++ and round again; only now are answers to the last
\* request refused.
NextRound(h) ==
    /\ up[h] /\ phase[h] = "rebuilt"
    /\ requestId' = [requestId EXCEPT ![h] = (@ + 1) % RequestIds]
    /\ phase' = [phase EXCEPT ![h] = "asking"]
    /\ UNCHANGED <<table, record, userRoutes, up, wire, world, restarts, late>>

\* An answer is kept if it is to the current request.
RecordAnswer(h, f) ==
    IF f.id = requestId[h] THEN Append(record[h], f) ELSE record[h]

\* The answer to a request that came in on device d: the whole table.  A
\* table too long for one frame is refused by sendFrame, so none is sent.
RouteReply(d, f) ==
    IF Cardinality(table[Owner(d)]) <= MaxReply
    THEN [p \in {Peer[d]} |->
             [op |-> "reply", id |-> f.id, from |-> d, to |-> Peer[d],
              entries |-> table[Owner(d)]]]
    ELSE [p \in {} |-> f]

\* The first frame of a device is taken off its wire.
Received(w, d) == [w EXCEPT ![d] = Tail(@)]

\* route_frame_handler, opcode 1
RouteRequestArrives(d) ==
    /\ up[Owner(d)] /\ wire[d] # <<>> /\ Head(wire[d]).op = "request"
    /\ wire' = Received(Transmit(RouteReply(d, Head(wire[d]))), d)
    /\ UNCHANGED <<table, record, userRoutes, requestId, phase, up, world, restarts, late>>

\* route_frame_handler, any other opcode
RouteReplyArrives(d) ==
    /\ up[Owner(d)] /\ wire[d] # <<>> /\ Head(wire[d]).op = "reply"
    /\ record' = [record EXCEPT ![Owner(d)] = RecordAnswer(Owner(d), Head(wire[d]))]
    /\ wire' = Received(wire, d)
    /\ UNCHANGED <<table, userRoutes, requestId, phase, up, world, restarts, late>>

\* user_add_routing_entry, as setRoutingTable calls it: kept until the end,
\* and part of the table from the next rebuild on
UserAddRoutingEntry(h) ==
    /\ up[h] /\ h \in world.adding
    /\ Cardinality(userRoutes[h]) < MaxUserRoutes
    /\ \E net \in UserRoutes[h] \ userRoutes[h] :
        userRoutes' = [userRoutes EXCEPT ![h] = @ \cup {net}]
    /\ UNCHANGED <<table, record, requestId, phase, up, wire, world, restarts, late>>

\* The process of h is killed; frames on their way to it are lost.
StopRouter(h) ==
    /\ h \in world.stopping /\ up[h]
    /\ up' = [up EXCEPT ![h] = FALSE]
    /\ wire' = [d \in Devices |-> IF Owner(d) = h THEN <<>> ELSE wire[d]]
    /\ table' = [table EXCEPT ![h] = {}]
    /\ record' = [record EXCEPT ![h] = <<>>]
    /\ UNCHANGED <<userRoutes, requestId, phase, world, restarts, late>>

\* It is started again and remembers nothing.
StartRouter(h) ==
    /\ h \in world.stopping /\ ~up[h] /\ restarts < world.restarts
    /\ up' = [up EXCEPT ![h] = TRUE]
    /\ restarts' = restarts + 1
    /\ table' = [table EXCEPT ![h] = OwnEntries(h, {})]
    /\ userRoutes' = [userRoutes EXCEPT ![h] = {}]
    /\ requestId' = [requestId EXCEPT ![h] = 0]
    /\ phase' = [phase EXCEPT ![h] = "asking"]
    /\ UNCHANGED <<record, wire, world, late>>

\* The thread of routing_routine, and the handler of a captured frame
RoutingRoutine(h) == SendRouteRequests(h) \/ UpdateRoutingTable(h) \/ NextRound(h)
RouteFrameHandler(d) == RouteRequestArrives(d) \/ RouteReplyArrives(d)

RoutingNext ==
    \/ \E h \in Hosts : \/ RoutingRoutine(h)
                       \/ UserAddRoutingEntry(h)
                       \/ StopRouter(h) \/ StartRouter(h)
    \/ \E d \in Devices : RouteFrameHandler(d)

\* sleep ends, threads are scheduled, pcap delivers.
RoutingFairness ==
    /\ \A h \in Hosts : WF_RoutingVars(RoutingRoutine(h))
    /\ \A d \in Devices : WF_RoutingVars(RouteFrameHandler(d))

RoutingSpec == RoutingInit /\ [][RoutingNext]_RoutingVars /\ RoutingFairness

-----------------------------------------------------------------------------
(***************************************************************************)
(* What distances should be, said without the algorithm.                   *)
(***************************************************************************)
Linked(h, g) == \E d \in ToSet(DevicesOf[h]) : Peer[d] \in ToSet(DevicesOf[g])

\* The hosts at most n links away from h: those a walk of n steps ends at
Within(h, n) ==
    {g \in Hosts : \E walk \in [0 .. n -> Hosts] :
        /\ walk[0] = h /\ walk[n] = g
        /\ \A i \in 1 .. n : walk[i] = walk[i - 1] \/ Linked(walk[i - 1], walk[i])}

MayOwn(h) == {NetOf[d] : d \in ToSet(DevicesOf[h])} \cup UserRoutes[h]
Owns(h) == {NetOf[d] : d \in ToSet(DevicesOf[h])} \cup userRoutes[h]

RunningHosts == {h \in Hosts : up[h]}

Distances(h, net) == {e.distance : e \in {e \in table[h] : e.net = net}}

\* The equations of shortest paths between the hosts that run.  Where all
\* distances are finite the shortest paths are their only solution.
Converged ==
    \A h \in RunningHosts, net \in Nets :
        Distances(h, net) =
            IF net \in Owns(h) THEN {0}
            ELSE LET ds == UNION {Distances(g, net) : g \in {g \in RunningHosts : Linked(h, g)}}
                 IN  {n + 1 : n \in {n \in ds : \A m \in ds : n <= m}}

\* No table promises a path shorter than the whole network has, whatever is
\* late or stopped: update_routing_table adds a hop per neighbour.
NoShortcut ==
    \A h \in RunningHosts : \A e \in table[h] :
        \E g \in Within(h, e.distance) : e.net \in MayOwn(g)

\* The record array of route_frame_handler, which is never checked for room:
\* between two rebuilds a device is answered at most twice, once to the
\* request of this round and once to that of the last when the answer falls
\* between the rebuild and the new request id; a restarted process may get
\* one more that was meant for its predecessor.
RecordsBounded ==
    \A h \in Hosts :
        Len(record[h]) <= (2 + restarts) * Len(DevicesOf[h])

\* The README: split horizon avoids counting to infinity.  A route is never
\* longer than a path through all hosts, also after a host stopped.
NoCountToInfinity ==
    \A h \in RunningHosts : \A e \in table[h] : e.distance < Cardinality(Hosts)

\* When answers stop being late, hosts stop stopping and users stop adding
\* routes, every table becomes and stays the shortest paths of the hosts that
\* run: routing_routine repairs what stopping and starting broke.
RoutesSettle == <>[]Converged
=============================================================================
