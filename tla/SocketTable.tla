---------------------------- MODULE SocketTable ----------------------------
(***************************************************************************)
(* The tables of one daemon: sockets and their ids, the ports of each      *)
(* device, the connections that wait at a listening socket, and the timer  *)
(* and clean-up threads of the sockets (src/test/tcp_protocol_stack.c with *)
(* the lists of src/transport/tcp.c).                                      *)
(*                                                                         *)
(* A request, a segment and a timer tick run under socket_mutex, so each   *)
(* is one step.  Of TCP itself only the states are kept; what they send    *)
(* and store is the subject of TcpSocket.  The daemon can go down: by a    *)
(* NULL ring buffer, an index outside sockets, a waiting connection whose  *)
(* fields were never set, or a join that never returns.                    *)
(***************************************************************************)
EXTENDS Naturals, Sequences, FiniteSets, SequencesExt

CONSTANTS
    Ids,            \* socket ids
    Devices,
    AllDevices,     \* 9999, the device of a socket bound to INADDR_ANY
    BadDevice,      \* -1, no such device
    BindTo,         \* the devices of the addresses applications bind
    RouteTo,        \* the devices routing_query finds for connect
    ServerPorts,    \* the ports applications bind
    ClientPorts,    \* the ports alloc_port gives out, 50000 and above
    Remotes,        \* the address and port of whoever talks to this host
    Backlogs,       \* what applications pass to listen
    MaxOpened,      \* bound: no further socket is opened with so many ids in use
    NoSocket,       \* the id 0
    NoRemote

Ports == ServerPorts \cup ClientPorts

ASSUME TableAssumption ==
    /\ AllDevices \notin Devices /\ BadDevice \notin Devices \cup {AllDevices}
    /\ BindTo \subseteq Devices \cup {AllDevices, BadDevice}
    /\ RouteTo \subseteq Devices \cup {BadDevice}
    /\ Backlogs \subseteq Nat /\ MaxOpened \in Nat
    /\ NoSocket \notin Ids /\ NoRemote \notin Remotes
    /\ ClientPorts \subseteq Nat /\ Ids \subseteq Nat

VARIABLES
    slot,           \* sockets[]
    conn,           \* connect_socket_id of each port of each device
    data,           \* data_socket_ids of each port of each device
    taken,          \* socket_id_list: the ids in use
    held,           \* the ids applications have open
    leaving,        \* sockets freeSocket_pthread is about to free
    halted          \* why the daemon went down, or "no"

TableVars == <<slot, conn, data, taken, held, leaving, halted>>

\* After memset: device 0 and port 0, but nothing looks at them.
FreeSlot == [state |-> "free", dev |-> BadDevice, port |-> 0, remote |-> NoRemote,
             waiting |-> <<>>, count |-> 0, backlog |-> 0, accepting |-> FALSE,
             closing |-> FALSE, timer |-> FALSE]

Unconnected == {"close", "binded", "listen"}
Finishing == {"fin wait", "close wait", "last ack"}
DataStates == {"syn sent", "syn recv", "established"} \cup Finishing

TableInit ==
    /\ slot = [i \in Ids |-> FreeSlot]
    /\ conn = [d \in Devices |-> [p \in Ports |-> NoSocket]]
    /\ data = [d \in Devices |-> [p \in Ports |-> <<>>]]
    /\ taken = {} /\ held = {} /\ leaving = {}
    /\ halted = "no"

-----------------------------------------------------------------------------
(***************************************************************************)
(* The lists of tcp.c                                                      *)
(***************************************************************************)

\* insert_data_socket, and delete_data_socket, which takes out the first match
InsertDataSocket(list, i) == IF Contains(list, i) THEN list ELSE Append(list, i)
DeleteDataSocket(list, i) == RemoveFirst(list, i)

\* Mutant: one connection too many.
InsertWaitingPastBacklog(s, r, d, p) ==
    IF s.waiting = <<>>
    THEN [s EXCEPT !.waiting = <<[remote |-> r, dev |-> d, port |-> p, set |-> TRUE]>>,
                   !.count = 1]
    ELSE IF s.count > s.backlog THEN s
    ELSE [s EXCEPT !.waiting = Append(@, [remote |-> r, dev |-> d, port |-> p, set |-> FALSE]),
                   !.count = @ + 1]

\* insert_waiting_connection: behind another only the remote side is stored,
\* and only there does the backlog count.
InsertWaiting(s, r, d, p) ==
    IF s.waiting = <<>>
    THEN [s EXCEPT !.waiting = <<[remote |-> r, dev |-> d, port |-> p, set |-> TRUE]>>,
                   !.count = 1]
    ELSE IF s.count >= s.backlog THEN s
    ELSE [s EXCEPT !.waiting = Append(@, [remote |-> r, dev |-> d, port |-> p, set |-> FALSE]),
                   !.count = @ + 1]

\* Places of a list, in their order
InOrder(places) ==
    CHOOSE f \in [1 .. Cardinality(places) -> places] : \A j, k \in DOMAIN f : j < k => f[j] < f[k]

\* while(delete_waiting_connection(...) != -1): the entries of other remotes stay.
DeleteWaiting(s, r) ==
    LET left == InOrder({k \in DOMAIN s.waiting : s.waiting[k].remote # r}) IN
    [s EXCEPT !.waiting = [k \in DOMAIN left |-> s.waiting[left[k]]],
              !.count = @ - (Len(s.waiting) - Len(left))]

-----------------------------------------------------------------------------
(***************************************************************************)
(* Freeing a socket                                                        *)
(***************************************************************************)

\* Mutant: the list of data sockets is forgotten.
ReleasePortConnOnly(i) ==
    LET d == slot[i].dev  p == slot[i].port IN
    /\ conn' = [conn EXCEPT ![d][p] = IF @ = i THEN NoSocket ELSE @]
    /\ UNCHANGED data

ReleasePort(i) ==
    LET d == slot[i].dev  p == slot[i].port IN
    /\ conn' = [conn EXCEPT ![d][p] = IF @ = i THEN NoSocket ELSE @]
    /\ data' = [data EXCEPT ![d][p] = DeleteDataSocket(@, i)]

\* free_socket.  A socket that was never connected has no ring buffers, and
\* free_ring_buffer follows their NULL pointer.  Unless the timer thread itself
\* frees, it is cancelled and joined with socket_mutex held: it ends if it
\* sleeps, and never if it has woken up and waits for the mutex.
FreeSocket(i, from_timeout) ==
    IF slot[i].state \in Unconnected
    THEN halted' = "null buffer" /\ UNCHANGED <<slot, conn, data>>
    ELSE /\ ReleasePort(i)
         /\ \/ slot' = [slot EXCEPT ![i] = FreeSlot] /\ UNCHANGED halted
            \/ /\ slot[i].timer /\ ~from_timeout
               /\ halted' = "join" /\ UNCHANGED slot

\* &sockets[0 - MAX_PORT_NUM]
WildAccess == halted' = "wild" /\ UNCHANGED <<slot, conn, data, taken, held, leaving>>

Least(S) == CHOOSE x \in S : \A y \in S : x <= y

\* alloc_socket_id.  Bound: somebody asks only while there is an id left.
NewId == Least(Ids \ taken)

-----------------------------------------------------------------------------
(***************************************************************************)
(* Requests of applications for socket i                                   *)
(***************************************************************************)

\* OPT_SOCKET: alloc_socket_id and alloc_socket.  Bound: MaxOpened.
OpenSocket ==
    /\ taken # Ids /\ Cardinality(taken) < MaxOpened
    /\ taken' = taken \cup {NewId} /\ held' = held \cup {NewId}
    /\ slot' = [slot EXCEPT ![NewId] = [FreeSlot EXCEPT !.state = "close"]]
    /\ UNCHANGED <<conn, data, leaving, halted>>

\* Assumed of applications: they do not bind or connect a socket that is connected.
\* The daemon would refuse, but only after it has stored the new address, and the
\* socket would leave its port behind when it is freed.  (In a freed slot they would
\* leave no trace: alloc_socket clears it.)
MayPlace(i) == slot[i].state \in Unconnected

\* The devices a socket bound to d stands for.
DevicesFor(d) == IF d = AllDevices THEN Devices ELSE {d} \cap Devices

CanBind(i, d, p) ==
    /\ slot[i].state = "close"
    /\ d # BadDevice
    /\ \A e \in DevicesFor(d) : conn[e][p] = NoSocket

\* OPT_BIND: the address is stored before it is checked.
Bind(i, d, p) ==
    /\ MayPlace(i)
    /\ slot' = [slot EXCEPT ![i].dev = d, ![i].port = p,
                            ![i].state = IF CanBind(i, d, p) THEN "binded" ELSE @]
    /\ conn' = IF CanBind(i, d, p)
               THEN [e \in Devices |-> IF e \in DevicesFor(d)
                                       THEN [conn[e] EXCEPT ![p] = i] ELSE conn[e]]
               ELSE conn
    /\ UNCHANGED <<data, taken, held, leaving, halted>>

\* OPT_LISTEN
Listen(i, backlog) ==
    /\ slot[i].state = "binded"
    /\ slot' = [slot EXCEPT ![i].state = "listen", ![i].backlog = backlog]
    /\ UNCHANGED <<conn, data, taken, held, leaving, halted>>

\* alloc_port looks at connect_socket_id only.
FreePorts(d) == {p \in ClientPorts : conn[d][p] = NoSocket}

\* OPT_CONNECT: routing_query has found the device d, stored before it is checked.
\* Bound: alloc_port finds a port.
Connect(i, d, r) ==
    /\ MayPlace(i)
    /\ IF slot[i].state = "close" /\ d # BadDevice
       THEN /\ FreePorts(d) # {}
            /\ LET p == Least(FreePorts(d)) IN
               /\ slot' = [slot EXCEPT ![i].dev = d, ![i].port = p, ![i].remote = r,
                                       ![i].state = "syn sent", ![i].timer = TRUE]
               /\ conn' = [conn EXCEPT ![d][p] = i]
               /\ data' = [data EXCEPT ![d][p] = InsertDataSocket(@, i)]
       ELSE slot' = [slot EXCEPT ![i].dev = d] /\ UNCHANGED <<conn, data>>
    /\ UNCHANGED <<taken, held, leaving, halted>>

\* TCPAccept for the socket i in state s: the first waiting connection, and every
\* other of the same remote, leave the list.  Of an entry without its local
\* address malloc has left its own links or zeros there, find_device_by_ip finds
\* no device, and device_ports is read outside its bounds: the daemon does not
\* survive.  Bound: an id is left.
TCPAccept(i, s) ==
    LET e == Head(s.waiting) IN
    /\ taken # Ids
    /\ taken' = taken \cup {NewId}
    /\ slot' = [slot EXCEPT ![i] = DeleteWaiting([s EXCEPT !.accepting = FALSE], e.remote),
                            ![NewId] = [FreeSlot EXCEPT !.state = "syn recv", !.dev = e.dev,
                                            !.port = e.port, !.remote = e.remote,
                                            !.timer = TRUE]]
    /\ IF e.set
       THEN data' = [data EXCEPT ![e.dev][e.port] = InsertDataSocket(@, NewId)]
            /\ UNCHANGED halted
       ELSE halted' = "unset fields" /\ UNCHANGED data

\* OPT_ACCEPT
Accept(i) ==
    /\ slot[i].state = "listen" /\ slot[i].dev # BadDevice
    /\ IF slot[i].count > 0
       THEN TCPAccept(i, slot[i])
       ELSE slot' = [slot EXCEPT ![i].accepting = TRUE] /\ UNCHANGED <<data, taken, halted>>
    /\ UNCHANGED <<conn, held, leaving>>

\* OPT_READ at the end of the stream
ReadEnd(i) ==
    /\ slot[i].state = "close wait"
    /\ slot' = [slot EXCEPT ![i].state = "last ack"]
    /\ UNCHANGED <<conn, data, taken, held, leaving, halted>>

\* Mutant: the id is returned although the socket lives on.
ReturnedIds(i) == {i}

\* The ids close gives back: of a socket freed already, or freed here.
ReturnedByClose(i) ==
    IF slot[i].state \in {"free", "syn sent"} \cup Unconnected THEN {i} ELSE {}

\* OPT_CLOSE.  In ESTABLISHED the FIN leaves now, or (FinFlushed) once the output
\* buffer is empty; in the FIN states nothing happens, whoever closed first.
Close(i) ==
    /\ held' = held \ {i}
    /\ taken' = taken \ ReturnedByClose(i)
    /\ CASE slot[i].state \in {"established", "syn recv"} ->
                /\ \/ slot' = [slot EXCEPT ![i].closing = TRUE]
                   \/ slot' = [slot EXCEPT ![i].state = "fin wait"]
                /\ UNCHANGED <<conn, data, halted>>
         [] slot[i].state \in {"free"} \cup Finishing -> UNCHANGED <<slot, conn, data, halted>>
         [] OTHER -> FreeSocket(i, FALSE)
    /\ UNCHANGED leaving

-----------------------------------------------------------------------------
(***************************************************************************)
(* Segments and threads                                                    *)
(***************************************************************************)

\* Mutant: the lookup compares the remote with the local port.
MatchWrongSide(d, p, r) == {k \in 1 .. Len(data[d][p]) : slot[data[d][p][k]].remote = p}

\* The data socket TCPCallback finds for a segment of r to port p of device d.
Match(d, p, r) == {k \in 1 .. Len(data[d][p]) : slot[data[d][p][k]].remote = r}

\* A SYN that belongs to no data socket goes to the socket that owns the port,
\* listening or not: it joins the waiting list and ends a blocked accept.  (The
\* entries removed before are those whose remote is this host.)
SynArrives(r, d, p) ==
    /\ Match(d, p, r) = {}
    /\ IF conn[d][p] = NoSocket THEN WildAccess
       ELSE LET i == conn[d][p]
                s == InsertWaiting(slot[i], r, d, p)
            IN  /\ IF s.accepting THEN TCPAccept(i, s)
                   ELSE slot' = [slot EXCEPT ![i] = s] /\ UNCHANGED <<data, taken, halted>>
                /\ UNCHANGED <<conn, held, leaving>>

\* The segment that ends the handshake; accept hands the socket out.
Established(i) ==
    /\ slot[i].state \in {"syn sent", "syn recv"}
    /\ slot' = [slot EXCEPT ![i].state = IF @ = "syn recv" /\ slot[i].closing
                                         THEN "fin wait" ELSE "established"]
    /\ held' = held \cup {i}
    /\ UNCHANGED <<conn, data, taken, leaving, halted>>

FinFlushed(i) ==
    /\ slot[i].state = "established" /\ slot[i].closing
    /\ slot' = [slot EXCEPT ![i].state = "fin wait"]
    /\ UNCHANGED <<conn, data, taken, held, leaving, halted>>

\* The peer's FIN: CLOSE_WAIT, or LAST_ACK when it ends a read; after our own FIN
\* it starts freeSocket_pthread.
FinArrives(i) ==
    /\ \/ /\ slot[i].state = "established"
          /\ \E s \in {"close wait", "last ack"} : slot' = [slot EXCEPT ![i].state = s]
          /\ UNCHANGED leaving
       \/ /\ slot[i].state = "fin wait"
          /\ leaving' = leaving \cup {i}
          /\ UNCHANGED slot
    /\ UNCHANGED <<conn, data, taken, held, halted>>

\* A RST, or the ACK that ends LAST_ACK: the socket goes, its id stays.
SegmentFrees(i) ==
    /\ slot[i].state \in DataStates
    /\ FreeSocket(i, FALSE)
    /\ UNCHANGED <<taken, held, leaving>>

\* TCPTimeout gets socket_mutex: it ends in the FIN states, gives the connection
\* up, or sleeps again.
TimerTicks(i) ==
    /\ slot[i].timer
    /\ IF slot[i].state \in Finishing \ {"close wait"}
       THEN slot' = [slot EXCEPT ![i].timer = FALSE] /\ UNCHANGED <<conn, data, halted>>
       ELSE FreeSocket(i, TRUE)
    /\ UNCHANGED <<taken, held, leaving>>

\* freeSocket_pthread after its three seconds reads sock_id from the slot, which
\* is 0 when the slot was freed meanwhile.
LeavingFreed(i) ==
    /\ i \in leaving
    /\ IF slot[i].state = "free" THEN WildAccess
       ELSE /\ FreeSocket(i, FALSE)
            /\ taken' = taken \ {i}
            /\ leaving' = leaving \ {i}
            /\ UNCHANGED held

-----------------------------------------------------------------------------
TableNext ==
    /\ halted = "no"
    /\ \/ OpenSocket
       \/ \E i \in held :
            \/ \E d \in BindTo, p \in ServerPorts : Bind(i, d, p)
            \/ \E b \in Backlogs : Listen(i, b)
            \/ \E d \in RouteTo, r \in Remotes : Connect(i, d, r)
            \/ Accept(i)
            \/ ReadEnd(i)
            \/ Close(i)
       \/ \E r \in Remotes, d \in Devices, p \in Ports : SynArrives(r, d, p)
       \/ \E i \in Ids :
            \/ Established(i) \/ FinFlushed(i) \/ FinArrives(i) \/ SegmentFrees(i)
            \/ TimerTicks(i) \/ LeavingFreed(i)

TableSpec == TableInit /\ [][TableNext]_TableVars

-----------------------------------------------------------------------------
Up == halted = "no"

\* The port table and the sockets agree: a port points to a socket that is bound
\* to it or connects from it, and the data sockets of a port are exactly the live
\* ones with that address, each once.
PortsMatch == Up =>
    \A d \in Devices, p \in Ports :
        /\ conn[d][p] # NoSocket => slot[conn[d][p]].state # "free"
        /\ \A i \in Ids :
            LET s == slot[i]
                at == {k \in 1 .. Len(data[d][p]) : data[d][p][k] = i}
            IN  Cardinality(at) =
                    IF s.state \in DataStates /\ s.dev = d /\ s.port = p THEN 1 ELSE 0

\* TCPCallback never has a choice: the data sockets of a port differ in their
\* remote, whatever SYNs arrived twice.
UniqueConnection == Up =>
    \A d \in Devices, p \in Ports : \A i, j \in ToSet(data[d][p]) :
        i # j => slot[i].remote # slot[j].remote

\* The waiting list is as long as its counter says and no longer than the backlog
\* allows (one connection always waits); an entry behind another lacks its local
\* address, so that the daemon outlives every accept if no backlog exceeds one.
WaitingSound ==
    /\ \A i \in Ids :
        /\ slot[i].count = Len(slot[i].waiting)
        /\ slot[i].count <= (IF slot[i].backlog > 1 THEN slot[i].backlog ELSE 1)
        /\ \A k \in 2 .. Len(slot[i].waiting) : ~slot[i].waiting[k].set
    /\ (\A i \in Ids : slot[i].backlog <= 1) => halted # "unset fields"

\* An id is not given out again while a socket or an application uses it.
IdsSound == Up =>
    \A i \in Ids : (slot[i].state # "free" \/ i \in held \/ i \in leaving) => i \in taken
=============================================================================
