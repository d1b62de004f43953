---------------------------- MODULE RequestPipe ----------------------------
(***************************************************************************)
(* How a call of the socket library (src/transport/socket.c) reaches the   *)
(* daemon (request_routine of src/test/tcp_protocol_stack.c) and how its   *)
(* answer comes back: one named pipe takes the requests of all processes,  *)
(* and there are response, read and write pipes for each socket, or for    *)
(* each process as long as it has no socket to name.                       *)
(*                                                                         *)
(* open of a pipe blocks until the other end is open too; a pipe that does *)
(* not exist cannot be opened; what is in a pipe when its last end closes  *)
(* is gone; a write to a pipe nobody has open for reading kills the writer *)
(* with SIGPIPE.  Whether the daemon accepts a call is the subject of      *)
(* SocketTable: here every verdict it can give is possible.                *)
(***************************************************************************)
EXTENDS Naturals, Sequences, FiniteSets

CONSTANTS
    Processes,
    SocketIds,      \* what alloc_socket_id of the daemon can give out
    CallWorlds,     \* how the host is used, see below
    NoId

\* A world says which processes use the sockets of the host, with which calls
\* and (bound) how many sockets each, and which of them may be stopped in a call.
AllCalls == {"socket", "bind", "listen", "connect", "accept", "read", "write", "close"}

ASSUME RequestAssumption ==
    /\ CallWorlds \subseteq [users : SUBSET Processes, calls : SUBSET AllCalls,
                            most : Nat, mayDie : SUBSET Processes]
    /\ NoId \notin SocketIds
    /\ IsFiniteSet(Processes) /\ IsFiniteSet(SocketIds)

VARIABLES
    proc,           \* where each process is: pc, its call, its sockets
    requests,       \* the requests in the request pipe, in order
    written,        \* a writer has had the request pipe open since the daemon's open
    leaked,         \* the daemon has a forgotten descriptor of the request pipe
    pipes,          \* the response, read and write pipes that exist
    worker,         \* the request thread and the thread that handles segments
    mutex,          \* the thread that holds socket_mutex, or "free"
    pending,        \* calls that wait for TCP to be answered
    ids,            \* socket_id_list of the daemon: the ids given out
    dropped,        \* processes whose request was thrown away
    usage           \* the world, fixed at the start

RequestVars == <<proc, requests, written, leaked, pipes, worker, mutex, pending,
                 ids, dropped, usage>>

Threads == {"request", "tcp"}

\* A call of process p: what it asks, of which socket.
NoCall == [of |-> NoId, opt |-> "none", id |-> NoId]

\* socket names its response pipe by the pid, every other call by the socket.
NameOf(c) == IF c.opt = "socket" THEN c.of ELSE c.id
Pipe(kind, c) == <<kind, NameOf(c)>>

-----------------------------------------------------------------------------
(***************************************************************************)
(* The library                                                             *)
(***************************************************************************)

\* Mutant: listen writes its request before it makes its pipe.
PipesMadeFirstNotListen(c) ==
    (IF c.opt \in {"socket", "bind", "listen"} THEN {} ELSE {Pipe("response", c)})
    \cup (IF c.opt = "read" THEN {Pipe("read", c)} ELSE {})

\* The pipes a call makes before it writes its request: the wrappers of socket
\* and bind write the request first.
PipesMadeFirst(c) ==
    (IF c.opt \in {"socket", "bind"} THEN {} ELSE {Pipe("response", c)})
    \cup (IF c.opt = "read" THEN {Pipe("read", c)} ELSE {})

At(p, pc) == proc[p].pc = pc
Goes(p, pc) == proc' = [proc EXCEPT ![p].pc = pc]

\* Whoever is in a call has a pipe end open or is about to open one.
Busy(p) == proc[p].pc \notin {"idle", "dead", "broken_pipe"}

Writers == {p \in Processes : proc[p].pc \in {"sends", "sent"}}
ReaderOpen == worker["request"].pc \in {"opens", "reads", "closes"} \/ leaked

RequestInit ==
    /\ proc = [p \in Processes |-> [pc |-> "idle", call |-> NoCall, new |-> NoId, fds |-> {}]]
    /\ requests = <<>>
    /\ written = FALSE
    /\ leaked = FALSE
    /\ pipes = {}
    /\ worker = [t \in Threads |->
                   [pc |-> IF t = "request" THEN "opens" ELSE "rests",
                    call |-> NoCall, new |-> NoId]]
    /\ mutex = "free"
    /\ pending = {}
    /\ ids = {}
    /\ dropped = {}
    /\ usage \in CallWorlds

\* Bound: no process asks for an id when the others may take them all.
Allocating == {"socket", "accept"}
Asking == {p \in Processes : proc[p].call.opt \in Allocating /\ proc[p].new = NoId}

\* A process enters a wrapper and makes the pipes that come first.  A close of
\* a socket without an id in socket_id_list returns at once: no step here.
CallStarts(p, opt) ==
    /\ At(p, "idle") /\ p \in usage.users
    /\ \E id \in IF opt = "socket" THEN {NoId} ELSE proc[p].fds :
        LET c == [of |-> p, opt |-> opt, id |-> id] IN
        /\ proc' = [proc EXCEPT ![p].pc = "requests", ![p].call = c]
        /\ pipes' = pipes \cup PipesMadeFirst(c)
    /\ opt \in Allocating =>
        /\ Cardinality(proc[p].fds) < usage.most
        /\ Cardinality(ids) + Cardinality(Asking) < Cardinality(SocketIds)
    /\ UNCHANGED <<requests, written, leaked, worker, mutex, pending, ids, dropped, usage>>

\* write_request_pipe: open, fputs and fflush, close.
RequestPipeOpened(p) ==
    /\ At(p, "requests") /\ ReaderOpen
    /\ Goes(p, "sends")
    /\ written' = TRUE
    /\ UNCHANGED <<requests, leaked, pipes, worker, mutex, pending, ids, dropped, usage>>

RequestWritten(p) ==
    /\ At(p, "sends")
    /\ IF ReaderOpen
       THEN /\ requests' = Append(requests, proc[p].call)
            /\ Goes(p, "sent")
       ELSE /\ Goes(p, "broken_pipe")
            /\ UNCHANGED requests
    /\ UNCHANGED <<written, leaked, pipes, worker, mutex, pending, ids, dropped, usage>>

\* What the request pipe holds is thrown away with its last open end.
Callers(s) == {s[k].of : k \in 1 .. Len(s)}

\* Mutant: close returns without reading its answer.
RequestPipeClosedUnanswered(p) ==
    /\ At(p, "sent")
    /\ IF proc[p].call.opt = "close"
       THEN proc' = [proc EXCEPT ![p].pc = "idle", ![p].call = NoCall,
                                 ![p].fds = @ \ {proc[p].call.id}]
       ELSE Goes(p, IF PipesMadeFirst(proc[p].call) = {} THEN "makes_pipe" ELSE "waits")
    /\ IF ReaderOpen \/ Writers # {p}
       THEN UNCHANGED <<requests, dropped>>
       ELSE requests' = <<>> /\ dropped' = dropped \cup Callers(requests)
    /\ UNCHANGED <<written, leaked, pipes, worker, mutex, pending, ids, usage>>

RequestPipeClosed(p) ==
    /\ At(p, "sent")
    /\ Goes(p, IF PipesMadeFirst(proc[p].call) = {} THEN "makes_pipe" ELSE "waits")
    /\ IF ReaderOpen \/ Writers # {p}
       THEN UNCHANGED <<requests, dropped>>
       ELSE requests' = <<>> /\ dropped' = dropped \cup Callers(requests)
    /\ UNCHANGED <<written, leaked, pipes, worker, mutex, pending, ids, usage>>

\* initialize_response_pipe, after the request in socket and bind.
ResponsePipeMade(p) ==
    /\ At(p, "makes_pipe")
    /\ pipes' = pipes \cup {Pipe("response", proc[p].call)}
    /\ Goes(p, "waits")
    /\ UNCHANGED <<requests, written, leaked, worker, mutex, pending, ids, dropped, usage>>

\* Where a granted read or write goes on, and anything else ends.
Transfer(c, end) ==
    CASE c.opt = "read" -> "read_pipe" [] c.opt = "write" -> "write_pipe" [] OTHER -> end

\* read_response_pipe has returned: a new socket joins socket_id_list, a closed
\* one leaves it; read goes on with read_read_pipe, write with write_write_pipe.
AnswerTaken(p) ==
    /\ proc[p].pc \in {"ok", "error"}
    /\ LET c == proc[p].call
           next == IF At(p, "ok") THEN Transfer(c, "idle") ELSE "idle"
       IN  /\ proc' = [proc EXCEPT ![p] =
                         [pc |-> next,
                          call |-> IF next = "idle" THEN NoCall ELSE c,
                          new |-> NoId,
                          fds |-> (IF c.opt = "close" THEN @.fds \ {c.id} ELSE @.fds)
                                    \cup ({@.new} \ {NoId})]]
           /\ pipes' = IF next = "write_pipe" THEN pipes \cup {Pipe("write", c)} ELSE pipes
    /\ UNCHANGED <<requests, written, leaked, worker, mutex, pending, ids, dropped, usage>>

\* The user stops a process that waits for its answer.
ProcessDies(p) ==
    /\ p \in usage.mayDie /\ At(p, "waits")
    /\ Goes(p, "dead")
    /\ UNCHANGED <<requests, written, leaked, pipes, worker, mutex, pending, ids, dropped, usage>>

-----------------------------------------------------------------------------
(***************************************************************************)
(* The daemon                                                              *)
(***************************************************************************)
Is(t, pc) == worker[t].pc = pc
Becomes(t, pc, c, new) ==
    worker' = [worker EXCEPT ![t] = [pc |-> pc, call |-> c, new |-> new]]

\* open(request_pipe, O_RDONLY) returns once somebody opened the pipe to write.
DaemonOpened ==
    /\ Is("request", "opens") /\ written
    /\ Becomes("request", "reads", NoCall, NoId)
    /\ UNCHANGED <<proc, requests, written, leaked, pipes, mutex, pending, ids, dropped, usage>>

\* The first fscanf takes all the pipe holds into the buffer of the stream, and
\* the stream serves one request.
DaemonReads ==
    /\ Is("request", "reads") /\ requests # <<>>
    /\ Becomes("request", "closes", Head(requests), NoId)
    /\ requests' = <<>>
    /\ dropped' = dropped \cup Callers(Tail(requests))
    /\ UNCHANGED <<proc, written, leaked, pipes, mutex, pending, ids, usage>>

\* At the end of the file the loop goes on without closing the descriptor.
DaemonFindsNothing ==
    /\ Is("request", "reads") /\ requests = <<>> /\ Writers = {}
    /\ Becomes("request", "opens", NoCall, NoId)
    /\ written' = FALSE
    /\ leaked' = TRUE
    /\ UNCHANGED <<proc, requests, pipes, mutex, pending, ids, dropped, usage>>

DaemonCloses ==
    /\ Is("request", "closes")
    /\ Becomes("request", "locks", worker["request"].call, NoId)
    /\ IF leaked \/ Writers # {}
       THEN UNCHANGED <<requests, dropped>>
       ELSE requests' = <<>> /\ dropped' = dropped \cup Callers(requests)
    /\ UNCHANGED <<proc, written, leaked, pipes, mutex, pending, ids, usage>>

\* What the daemon can decide of a call: refuse it, grant it, answer 0, or let
\* TCP answer later.  close is never refused.
Verdicts(opt) ==
    CASE opt = "socket" -> {"ok"}
      [] opt \in {"bind", "listen"} -> {"ok", "error"}
      [] opt \in {"connect", "accept"} -> {"error", "later"}
      [] opt = "read" -> {"ok", "error", "later"}
      [] opt = "write" -> {"ok", "error", "later"}
      [] opt = "close" -> {"ok", "later"}

\* Mutant: accept answers under the lock but does not give it back later.
UnlocksNotAccept(c, verdict) == verdict = "later" /\ c.opt # "accept"

\* The handler gives the lock back before the answer: in socket and listen, and
\* when TCP answers.
Unlocks(c, verdict) == verdict = "later" \/ c.opt \in {"socket", "listen"}

\* Mutant: the first id, in use or not.
AllotsFirst(c, v, new) ==
    IF v = "ok" /\ c.opt \in Allocating
    THEN new = CHOOSE id \in SocketIds : TRUE
    ELSE new = NoId

\* alloc_socket_id for a granted socket or accept, free_socket_id for a socket
\* closed at once; a socket closed later is let go by freeSocket_pthread.
Allots(c, v, new) ==
    IF v = "ok" /\ c.opt \in Allocating
    THEN new = CHOOSE id \in SocketIds \ ids : TRUE
    ELSE new = NoId

IdsAfter(c, v, t, new) ==
    (IF v = "ok" /\ c.opt = "close" /\ t = "request" THEN ids \ {c.id} ELSE ids)
    \cup ({new} \ {NoId})

\* From pthread_mutex_lock to the answer, or to the unlock when TCP answers.
DaemonDecides ==
    /\ Is("request", "locks") /\ mutex = "free"
    /\ LET c == worker["request"].call IN
       \E v \in Verdicts(c.opt), new \in SocketIds \cup {NoId} :
        /\ Allots(c, v, new)
        /\ mutex' = IF Unlocks(c, v) THEN "free" ELSE "request"
        /\ ids' = IdsAfter(c, v, "request", new)
        /\ IF v = "later"
           THEN pending' = pending \cup {c} /\ Becomes("request", "closed", NoCall, NoId)
           ELSE Becomes("request", v, c, new) /\ UNCHANGED pending
    /\ UNCHANGED <<proc, requests, written, leaked, pipes, dropped, usage>>

\* request_routine comes round to open again; a writer may still be there.
DaemonLoops ==
    /\ Is("request", "closed")
    /\ Becomes("request", "opens", NoCall, NoId)
    /\ written' = (Writers # {})
    /\ UNCHANGED <<proc, requests, leaked, pipes, mutex, pending, ids, dropped, usage>>

\* IPCallback or TCPTimeout takes socket_mutex and ends a call.
TcpEnds(c) ==
    /\ Is("tcp", "rests") /\ mutex = "free" /\ c \in pending
    /\ \E v \in IF c.opt \in {"accept", "close"} THEN {"ok"} ELSE {"ok", "error"},
          new \in SocketIds \cup {NoId} :
        /\ Allots(c, v, new)
        /\ ids' = IdsAfter(c, v, "tcp", new)
        /\ Becomes("tcp", v, c, new)
    /\ mutex' = "tcp"
    /\ pending' = pending \ {c}
    /\ UNCHANGED <<proc, requests, written, leaked, pipes, dropped, usage>>

\* freeSocket_pthread returns the id of a socket that was closed.
IdFreed(id) ==
    /\ mutex = "free" /\ id \in ids
    /\ \A p \in Processes : id \notin proc[p].fds /\ proc[p].new # id
    /\ \A t \in Threads : worker[t].new # id
    /\ ids' = ids \ {id}
    /\ UNCHANGED <<proc, requests, written, leaked, pipes, worker, mutex, pending,
                   dropped, usage>>

\* open of a pipe that is not there fails, fdopen returns NULL, and the daemon
\* dies of it.
NoPipe(t, kind) ==
    /\ Pipe(kind, worker[t].call) \notin pipes
    /\ Becomes(t, "crashed", worker[t].call, NoId)
    /\ UNCHANGED <<proc, mutex>>

\* Thread t finds process p in open of the pipe, p goes on with pc, and t too: to
\* the transfer of data, or, unlocking, to its next work.
Meets(t, there, pc, here) ==
    \E p \in Processes :
        /\ At(p, there) /\ NameOf(proc[p].call) = NameOf(worker[t].call)
        /\ proc' = [proc EXCEPT ![p].pc = pc,
                                ![p].new = IF pc = "idle" THEN NoId ELSE worker[t].new,
                                ![p].call = IF pc = "idle" THEN NoCall ELSE @]
        /\ IF here = "done"
           THEN /\ Becomes(t, IF t = "request" THEN "closed" ELSE "rests", NoCall, NoId)
                /\ mutex' = IF mutex = t THEN "free" ELSE mutex
           ELSE /\ Becomes(t, here, worker[t].call, NoId)
                /\ UNCHANGED mutex

\* The answer, by the request thread itself or by TCP's callbacks.
ThreadAnswers(t) ==
    /\ worker[t].pc \in {"ok", "error"}
    /\ \/ NoPipe(t, "response")
       \/ /\ Pipe("response", worker[t].call) \in pipes
          /\ Meets(t, "waits", worker[t].pc,
                   IF Is(t, "ok") THEN Transfer(worker[t].call, "done") ELSE "done")
    /\ UNCHANGED <<requests, written, leaked, pipes, pending, ids, dropped, usage>>

\* processReadWithoutAck writes the data, processWrite reads them.
ThreadTransfers(t) ==
    /\ worker[t].pc \in {"read_pipe", "write_pipe"}
    /\ LET kind == worker[t].call.opt IN
       \/ NoPipe(t, kind)
       \/ /\ Pipe(kind, worker[t].call) \in pipes
          /\ Meets(t, worker[t].pc, "idle", "done")
    /\ UNCHANGED <<requests, written, leaked, pipes, pending, ids, dropped, usage>>

-----------------------------------------------------------------------------
Alive == \A t \in Threads : ~Is(t, "crashed")

ProcessGoesOn(p) ==
    RequestWritten(p) \/ RequestPipeClosed(p) \/ ResponsePipeMade(p) \/ AnswerTaken(p)

DaemonGoesOn ==
    DaemonOpened \/ DaemonReads \/ DaemonFindsNothing \/ DaemonCloses \/ DaemonDecides
    \/ DaemonLoops

RequestNext ==
    \/ \E p \in Processes :
        \/ \E opt \in usage.calls : CallStarts(p, opt)
        \/ RequestPipeOpened(p)
        \/ ProcessGoesOn(p)
        \/ ProcessDies(p)
    \/ /\ Alive
       /\ \/ DaemonGoesOn
          \/ \E c \in pending : TcpEnds(c)
          \/ \E id \in SocketIds : IdFreed(id)
          \/ \E t \in Threads : ThreadAnswers(t) \/ ThreadTransfers(t)

\* Threads run.  A blocked open returns once the other end has been opened,
\* even if it is closed again by then: hence the strong fairness.  TCP is taken
\* to end every call some time; socket_mutex is contended.
RequestFairness ==
    /\ \A p \in Processes :
        /\ WF_RequestVars(ProcessGoesOn(p))
        /\ SF_RequestVars(RequestPipeOpened(p))
        /\ SF_RequestVars(Alive /\ \E c \in pending : c.of = p /\ TcpEnds(c))
    /\ SF_RequestVars(Alive /\ DaemonGoesOn)
    /\ \A t \in Threads :
        WF_RequestVars(Alive /\ (ThreadAnswers(t) \/ ThreadTransfers(t)))

RequestSpec == RequestInit /\ [][RequestNext]_RequestVars /\ RequestFairness

-----------------------------------------------------------------------------
\* The daemon dies of a missing pipe only in socket and bind, whose request is
\* written before the pipe is made, and in write, whose pipe is made after the
\* answer: every other wrapper makes its pipes in time.
MissingPipe ==
    \A t \in Threads :
        Is(t, "crashed") => worker[t].call.opt \in {"socket", "bind", "write"}

\* The calls of a process reach the daemon as long as no other process uses
\* sockets: no request is thrown away with the pipe or the stream, and the
\* process does not die of SIGPIPE.
LoneCallerHeard ==
    \A p \in Processes :
        usage.users = {p} => dropped = {} /\ ~At(p, "broken_pipe")

\* The id of a socket a process has and is not closing is allotted, and to that
\* process alone: no other process uses its pipes.
Open(p) == IF proc[p].call.opt = "close" THEN proc[p].fds \ {proc[p].call.id} ELSE proc[p].fds

IdsOwned ==
    \A p \in Processes :
        /\ Open(p) \subseteq ids
        /\ \A q \in Processes \ {p} : Open(p) \cap Open(q) = {}

\* Every call returns, unless its request was thrown away, a process was stopped
\* while the daemon had an answer for it, the daemon is gone, or it has once
\* forgotten a descriptor: with that one open, a request can be written while
\* nobody is in open or read, and the daemon then sleeps in open beside it.
CallsReturn ==
    \A p \in Processes :
        []<>(\/ ~Busy(p) \/ p \in dropped \/ leaked \/ ~Alive
             \/ \E q \in Processes : At(q, "dead"))
=============================================================================
