-------------------------- MODULE RequestPipeProofs --------------------------
(***************************************************************************)
(* The daemon has at most one call of each process, and every socket id    *)
(* one owner, for any number of processes and ids.                         *)
(*                                                                         *)
(* CallsInv says where a call is: in the request pipe, with TCP or with a  *)
(* thread of the daemon, at one of them only, and always the call its      *)
(* process is in (Token, AtCall).  OwnInv says whose an id is: a process   *)
(* keeps it, or it is on its way to one (KeptOnce, NewOnce, UnderwayOnce), *)
(* and that the ids suffice for those who wait (RoomLeft).  The two hold   *)
(* together: a thread finds its process by a name, and names are those of  *)
(* one process because ids have one owner (SameName).                      *)
(*                                                                         *)
(* Response pipes are named by a pid or by the number of a socket.         *)
(* Socket numbers begin at 65536 (MAX_PORT_NUM), above the pids of a       *)
(* kernel with the default pid_max: the theorems take them to differ.      *)
(***************************************************************************)
EXTENDS RequestPipe, FiniteSetTheorems, SequenceTheorems, TLAPS

-----------------------------------------------------------------------------
(***************************************************************************)
(* The invariants                                                          *)
(***************************************************************************)
\* Where a call is: the daemon has its request, or an answer is under way.
Asked == {"sent", "makes_pipe", "waits", "dead"}
InCall == {"requests", "sends", "ok", "error", "read_pipe", "write_pipe",
           "broken_pipe"} \cup Asked
Decided == {"ok", "error", "read_pipe", "write_pipe", "crashed"}
AtWork == {"closes", "locks"} \cup Decided

CallRecord == [of : Processes, opt : AllCalls, id : SocketIds \cup {NoId}]
SomeCall == CallRecord \cup {NoCall}
ProcRecord == [pc : InCall \cup {"idle"}, call : SomeCall, new : SocketIds \cup {NoId},
               fds : SUBSET SocketIds]
WorkerRecord == [pc : AtWork \cup {"opens", "reads", "closed", "rests"}, call : SomeCall,
                 new : SocketIds \cup {NoId}]

PipesTyped ==
    /\ proc \in [Processes -> ProcRecord]
    /\ requests \in Seq(CallRecord)
    /\ worker \in [Threads -> WorkerRecord]
    /\ pending \subseteq CallRecord
    /\ ids \subseteq SocketIds
    /\ usage \in CallWorlds

\* Process p, at k, is idle or in a call of its own, for a socket it has.
CallOK(p, k) ==
    /\ k.pc = "idle" <=> k.call = NoCall
    /\ k.pc # "idle" =>
        /\ k.call.of = p
        /\ k.call.opt = "socket" => k.call.id = NoId
        /\ k.call.opt # "socket" => k.call.id \in k.fds
        /\ k.pc = "read_pipe" => k.call.opt = "read"
        /\ k.pc = "write_pipe" => k.call.opt = "write"
    /\ k.new # NoId => k.pc = "ok" /\ k.call.opt \in Allocating

ProcsOK ==
    \A p \in Processes :
        /\ CallOK(p, proc[p])
        /\ ~At(p, "idle") => PipesMadeFirst(proc[p].call) \subseteq pipes

\* The process of call c, at k, has given its request of that call away.
Token(c, k) == k.call = c /\ k.pc \in Asked

\* A thread at m has a call whose process is at k: the process waits to be told,
\* or has met the thread and goes on to the data, or will never be met.
AtCall(m, k) ==
    /\ k.call = m.call
    /\ m.pc \in {"closes", "locks", "ok", "error"} => k.pc \in Asked
    /\ m.pc = "read_pipe" => m.call.opt = "read" /\ k.pc \in {"ok", "read_pipe"}
    /\ m.pc = "write_pipe" => m.call.opt = "write" /\ k.pc \in {"ok", "write_pipe"}
    /\ m.pc = "crashed" =>
        \/ m.call.opt \in {"socket", "bind"} /\ k.pc \in Asked
        \/ m.call.opt = "write" /\ k.pc \in Asked \cup {"ok", "write_pipe"}

WorkOK(m) ==
    /\ m.pc \in AtWork <=> m.call # NoCall
    /\ m.new # NoId => m.pc = "ok" /\ m.call.opt \in Allocating

\* The daemon has at most one call of each process, the one the process is in:
\* in the request pipe, with TCP, or with a thread.
Queued(p) == \E i \in DOMAIN requests : requests[i].of = p
Pending(p) == \E c \in pending : c.of = p
With(t, p) == worker[t].pc \in AtWork /\ worker[t].call.of = p

QueuedOnce ==
    /\ \A i \in DOMAIN requests : Token(requests[i], proc[requests[i].of])
    /\ \A i, j \in DOMAIN requests : requests[i].of = requests[j].of => i = j

PendingOnce ==
    \A c \in pending : Token(c, proc[c.of]) /\ ~Queued(c.of)

ThreadsOnce ==
    \A t \in Threads :
        /\ WorkOK(worker[t])
        /\ worker[t].pc \in AtWork =>
            LET p == worker[t].call.of IN
            /\ AtCall(worker[t], proc[p])
            /\ ~Queued(p) /\ ~Pending(p)
            /\ \A u \in Threads \ {t} : ~With(u, p)

CallsInv == PipesTyped /\ ProcsOK /\ QueuedOnce /\ PendingOnce /\ ThreadsOnce

\* A thread that has crashed does not move again, so the daemon holds its lock.
LockOK ==
    /\ worker["tcp"].pc \in Decided \cup {"rests"} /\ worker["request"].pc # "rests"
    /\ Alive /\ worker["tcp"].pc \in Decided => mutex = "tcp"
    /\ Alive /\ worker["request"].pc \in Decided =>
        worker["request"].call.opt \in {"socket", "listen"} \/ mutex = "request"

\* The daemon has let the socket of a close go that it answers at once.
Closes(m, c) == m.pc \in Decided /\ m.call = c
LetGo(k, m) == k.call.opt = "close" /\ (k.pc \in {"ok", "error"} \/ Closes(m, k.call))
KeptBy(k, m) == IF LetGo(k, m) THEN k.fds \ {k.call.id} ELSE k.fds
Kept(p) == KeptBy(proc[p], worker["request"])

\* The ids given to processes, or on their way to them, are allotted, each once.
KeptOnce ==
    \A p \in Processes :
        Kept(p) \subseteq ids /\ \A q \in Processes : p # q => Kept(p) \cap Kept(q) = {}

NewOnce ==
    \A p \in Processes : proc[p].new # NoId =>
        /\ proc[p].new \in ids
        /\ \A q \in Processes : proc[p].new \notin Kept(q) /\ (q # p => proc[q].new # proc[p].new)

UnderwayOnce ==
    \A t \in Threads : worker[t].new # NoId =>
        /\ worker[t].new \in ids
        /\ \A q \in Processes : worker[t].new \notin Kept(q) /\ proc[q].new # worker[t].new
        /\ \A u \in Threads \ {t} : worker[u].new # worker[t].new

ClosedIsFree ==
    worker["request"].pc \in Decided /\ worker["request"].call.opt = "close" =>
        worker["request"].call.id \notin ids

\* The ids that are left are enough for the processes that wait for one.
Waits(k) == k.call.opt \in Allocating /\ k.new = NoId
Served(p) == \E t \in Threads : worker[t].new # NoId /\ worker[t].call.of = p
Waiting == {p \in Processes : Waits(proc[p]) /\ ~Served(p)}
RoomLeft == Alive => Cardinality(ids) + Cardinality(Waiting) <= Cardinality(SocketIds)

OwnInv == LockOK /\ KeptOnce /\ NewOnce /\ UnderwayOnce /\ ClosedIsFree /\ RoomLeft

RequestInv == CallsInv /\ OwnInv

\* A process that uses sockets alone: the daemon is there when it writes.
Lone(p) ==
    usage.users = {p} =>
        /\ dropped = {} /\ ~At(p, "broken_pipe")
        /\ \A q \in Processes \ {p} : At(q, "idle")
        /\ At(p, "sends") \/ requests # <<>> =>
            leaked \/ worker["request"].pc \in {"opens", "reads"}
LoneInv == \A p \in Processes : Lone(p)

-----------------------------------------------------------------------------
(***************************************************************************)
(* The calls: what a step of a process, or of a thread, leaves in place    *)
(***************************************************************************)
\* No call is not a call; a call is by a process.
LEMMA NoCallIsNone ==
  /\ NoCall \notin CallRecord /\ NoCall.opt = "none"
  /\ \A c \in CallRecord : c.of \in Processes /\ c.opt \in AllCalls /\ c # NoCall
  /\ \A c \in SomeCall : c # NoCall => c \in CallRecord
  BY DEF NoCall, CallRecord, AllCalls, SomeCall

\* The users and the calls of a world are processes and calls.
LEMMA UsageTyped ==
  ASSUME usage \in CallWorlds
  PROVE  usage.users \subseteq Processes /\ usage.calls \subseteq AllCalls
  BY RequestAssumption

\* The calls that are with the daemon.
LEMMA CallsTyped ==
  ASSUME PipesTyped, ThreadsOnce
  PROVE  /\ \A i \in DOMAIN requests : requests[i] \in CallRecord /\ requests[i].of \in Processes
         /\ \A c \in pending : c \in CallRecord /\ c.of \in Processes
         /\ \A p \in Processes : proc[p] \in ProcRecord
         /\ \A t \in Threads : /\ worker[t] \in WorkerRecord
                               /\ worker[t].pc \in AtWork => worker[t].call \in CallRecord
                                                            /\ worker[t].call.of \in Processes
<1>1. /\ \A i \in DOMAIN requests : requests[i] \in CallRecord
      /\ \A c \in pending : c \in CallRecord
      /\ \A p \in Processes : proc[p] \in ProcRecord
      /\ \A t \in Threads : worker[t] \in WorkerRecord
  BY DEF PipesTyped
<1>2. \A t \in Threads : worker[t].pc \in AtWork => worker[t].call \in CallRecord
  BY <1>1, NoCallIsNone DEF ThreadsOnce, WorkOK, WorkerRecord
<1> QED
  BY <1>1, <1>2, NoCallIsNone

\* A process whose calls with the daemon stay the calls it is in.
LEMMA ProcStep ==
  ASSUME CallsInv, NEW p \in Processes, NEW k \in ProcRecord, proc' = [proc EXCEPT ![p] = k],
         CallOK(p, k), k.pc # "idle" => PipesMadeFirst(k.call) \subseteq pipes',
         pipes \subseteq pipes', requests' \in {requests, <<>>},
         \A c \in CallRecord : Token(c, proc[p]) => Token(c, k),
         \A m \in WorkerRecord : m.pc \in AtWork /\ m.call \in CallRecord /\ AtCall(m, proc[p]) => AtCall(m, k),
         UNCHANGED <<worker, pending, ids, usage>>
  PROVE  CallsInv'
<1>0. PipesTyped /\ ProcsOK /\ QueuedOnce /\ PendingOnce /\ ThreadsOnce
  BY DEF CallsInv
<1>1. worker' = worker /\ pending' = pending /\ ids' = ids /\ usage' = usage
  OBVIOUS
<1>2. /\ proc' \in [Processes -> ProcRecord] /\ proc'[p] = k
      /\ \A q \in Processes : q # p => proc'[q] = proc[q]
  BY <1>0 DEF PipesTyped
<1>3. /\ requests' \in Seq(CallRecord)
      /\ \A i \in DOMAIN requests' : i \in DOMAIN requests /\ requests'[i] = requests[i]
  <2>1. <<>> \in Seq(CallRecord) /\ DOMAIN <<>> = {}
    BY EmptySeq
  <2> QED
    BY <1>0, <2>1 DEF PipesTyped
<1>4. PipesTyped'
  BY <1>0, <1>1, <1>2, <1>3 DEF PipesTyped
<1>5. ProcsOK'
  <2> SUFFICES ASSUME NEW q \in Processes
               PROVE  /\ CallOK(q, proc'[q])
                      /\ proc'[q].pc # "idle" => PipesMadeFirst(proc'[q].call) \subseteq pipes'
    BY DEF ProcsOK, At
  <2> QED
    BY <1>0, <1>2 DEF ProcsOK, At
<1>6. QueuedOnce'
  BY <1>0, <1>2, <1>3, CallsTyped DEF QueuedOnce
<1>7. \A q \in Processes : ~Queued(q) => ~Queued(q)'
  BY <1>3 DEF Queued
<1>8. PendingOnce'
  <2> SUFFICES ASSUME NEW c \in pending PROVE Token(c, proc'[c.of]) /\ ~Queued(c.of)'
    BY <1>1 DEF PendingOnce
  <2> QED
    BY <1>0, <1>2, <1>7, CallsTyped DEF PendingOnce
<1>9. ThreadsOnce'
  <2> SUFFICES ASSUME NEW t \in Threads
               PROVE  /\ WorkOK(worker[t])
                      /\ worker[t].pc \in AtWork =>
                           /\ AtCall(worker[t], proc'[worker[t].call.of])
                           /\ ~Queued(worker[t].call.of)' /\ ~Pending(worker[t].call.of)
                           /\ \A u \in Threads \ {t} : ~With(u, worker[t].call.of)
    BY <1>1 DEF ThreadsOnce, Pending, With
  <2> QED
    BY <1>0, <1>2, <1>7, CallsTyped DEF ThreadsOnce
<1> QED
  BY <1>4, <1>5, <1>6, <1>8, <1>9 DEF CallsInv

\* A thread changes to m, and no other call of its process is about.
WorkChange(t, m) ==
    /\ worker' = [worker EXCEPT ![t] = m]
    /\ WorkOK(m)
    /\ m.pc \in AtWork =>
        /\ AtCall(m, proc[m.call.of])
        /\ \A i \in DOMAIN requests' : requests'[i].of # m.call.of
        /\ \A c \in pending' : c.of # m.call.of
        /\ \A u \in Threads \ {t} : ~With(u, m.call.of)
    /\ requests' \in {requests, <<>>}
    /\ \A c \in pending' :
        \/ c \in pending
        \/ /\ c \in CallRecord /\ Token(c, proc[c.of])
           /\ \A i \in DOMAIN requests' : requests'[i].of # c.of
           /\ \A u \in Threads \ {t} : ~With(u, c.of)
    /\ ids' \subseteq SocketIds
    /\ UNCHANGED <<proc, pipes, usage>>

\* A thread of the daemon takes its next step with the call it has (WorkChange).
LEMMA WorkStep ==
  ASSUME CallsInv, NEW t \in Threads, NEW m \in WorkerRecord, WorkChange(t, m)
  PROVE  CallsInv'
<1>0. PipesTyped /\ ProcsOK /\ QueuedOnce /\ PendingOnce /\ ThreadsOnce
  BY DEF CallsInv
<1>1. /\ proc' = proc /\ pipes' = pipes /\ usage' = usage
      /\ worker' = [worker EXCEPT ![t] = m] /\ WorkOK(m)
      /\ requests' \in {requests, <<>>} /\ ids' \subseteq SocketIds
  BY DEF WorkChange
<1>2. m.pc \in AtWork =>
        /\ AtCall(m, proc[m.call.of])
        /\ \A i \in DOMAIN requests' : requests'[i].of # m.call.of
        /\ \A c \in pending' : c.of # m.call.of
        /\ \A u \in Threads \ {t} : ~With(u, m.call.of)
  BY DEF WorkChange
<1>3. \A c \in pending' :
        \/ c \in pending
        \/ /\ c \in CallRecord /\ Token(c, proc[c.of])
           /\ \A i \in DOMAIN requests' : requests'[i].of # c.of
           /\ \A u \in Threads \ {t} : ~With(u, c.of)
  BY DEF WorkChange
<1>4. /\ worker' \in [Threads -> WorkerRecord] /\ worker'[t] = m
      /\ \A u \in Threads : u # t => worker'[u] = worker[u]
  BY <1>0, <1>1 DEF PipesTyped
<1>5. /\ requests' \in Seq(CallRecord)
      /\ \A i \in DOMAIN requests' : i \in DOMAIN requests /\ requests'[i] = requests[i]
  <2>1. <<>> \in Seq(CallRecord) /\ DOMAIN <<>> = {}
    BY EmptySeq
  <2> QED
    BY <1>0, <1>1, <2>1 DEF PipesTyped
<1>6. PipesTyped'
  BY <1>0, <1>1, <1>4, <1>5, <1>3 DEF PipesTyped
<1>7. ProcsOK'
  BY <1>0, <1>1 DEF ProcsOK, At
<1>8. QueuedOnce'
  BY <1>0, <1>1, <1>5 DEF QueuedOnce
<1>9. /\ \A q : ~Queued(q) => ~Queued(q)'
      /\ \A q, u : u \in Threads \ {t} /\ With(u, q) /\ ~Pending(q) => ~Pending(q)'
  BY <1>5, <1>3 DEF Queued, Pending, With
<1>10. PendingOnce'
  <2> SUFFICES ASSUME NEW c \in pending' PROVE Token(c, proc[c.of]) /\ ~Queued(c.of)'
    BY <1>1 DEF PendingOnce
  <2> QED
    BY <1>0, <1>9, <1>3 DEF PendingOnce, Queued
<1>11. ThreadsOnce'
  <2> SUFFICES ASSUME NEW u \in Threads, NEW n \in WorkerRecord, n = worker'[u]
               PROVE  /\ WorkOK(n)
                      /\ n.pc \in AtWork =>
                           /\ AtCall(n, proc[n.call.of])
                           /\ ~Queued(n.call.of)' /\ ~Pending(n.call.of)'
                           /\ \A v \in Threads \ {u} : ~With(v, n.call.of)'
    BY <1>1, <1>4 DEF ThreadsOnce, Queued, Pending, With
  <2>1. CASE u = t
    BY <1>1, <1>4, <1>2, <2>1 DEF With, Queued, Pending
  <2>2. CASE u # t
    BY <1>0, <1>4, <1>9, <1>2, <2>2 DEF ThreadsOnce, With
  <2> QED
    BY <2>1, <2>2
<1> QED
  BY <1>6, <1>7, <1>8, <1>10, <1>11 DEF CallsInv

\* A process enters a wrapper, or goes on to another place of it.
LEMMA CallStartsCalls ==
  ASSUME CallsInv, NEW p \in Processes, NEW opt \in usage.calls, CallStarts(p, opt)
  PROVE  CallsInv'
<1>0. PipesTyped /\ CallOK(p, proc[p])
  BY DEF CallsInv, ProcsOK
<1>1. PICK k \in ProcRecord : k = proc[p]
  BY <1>0 DEF PipesTyped
<1>2. k.pc = "idle" /\ k.call = NoCall /\ k.new = NoId
  BY <1>0, <1>1 DEF CallStarts, At, CallOK
<1>3. PICK id, c :
        /\ id \in IF opt = "socket" THEN {NoId} ELSE k.fds
        /\ c = [of |-> p, opt |-> opt, id |-> id]
        /\ proc' = [proc EXCEPT ![p].pc = "requests", ![p].call = c]
        /\ pipes' = pipes \cup PipesMadeFirst(c)
  BY <1>1 DEF CallStarts
<1>4. c \in CallRecord /\ c # NoCall /\ c.of = p /\ c.opt = opt /\ c.id = id
  <2>1. opt \in AllCalls
    BY <1>0, UsageTyped DEF PipesTyped
  <2>2. id \in SocketIds \cup {NoId}
    BY <1>3, <1>1 DEF ProcRecord
  <2>3. c \in CallRecord
    BY <1>3, <2>1, <2>2 DEF CallRecord
  <2> QED
    BY <1>3, <2>3, NoCallIsNone
<1> DEFINE m == [k EXCEPT !.pc = "requests", !.call = c]
<1>5. m \in ProcRecord /\ m.pc = "requests" /\ m.call = c /\ m.new = NoId /\ m.fds = k.fds
  BY <1>2, <1>4 DEF ProcRecord, InCall, SomeCall
<1>6. proc' = [proc EXCEPT ![p] = m]
  BY <1>0, <1>1, <1>3 DEF PipesTyped
<1> HIDE DEF m
<1>7. CallOK(p, m)
  BY <1>3, <1>4, <1>5 DEF CallOK
<1>8. \A d \in CallRecord : Token(d, k) => Token(d, m)
  BY <1>2, NoCallIsNone DEF Token
<1>9. \A n \in WorkerRecord : n.pc \in AtWork /\ n.call \in CallRecord /\ AtCall(n, k) => AtCall(n, m)
  BY <1>2, NoCallIsNone DEF AtCall
<1>10. UNCHANGED <<requests, worker, pending, ids, usage>>
  BY DEF CallStarts
<1> QED
  BY ONLY CallsInv, p \in Processes, <1>1, <1>3, <1>5, <1>6, <1>7, <1>8, <1>9, <1>10, ProcStep

\* Goes changes where the process is and nothing else of its record.
LEMMA GoesChanges ==
  ASSUME PipesTyped, NEW p \in Processes, NEW pc \in InCall, Goes(p, pc)
  PROVE  \E k, m \in ProcRecord :
           /\ k = proc[p] /\ proc' = [proc EXCEPT ![p] = m]
           /\ m.pc = pc /\ m.call = k.call /\ m.new = k.new /\ m.fds = k.fds
<1>1. PICK k \in ProcRecord : k = proc[p]
  BY DEF PipesTyped
<1> DEFINE m == [k EXCEPT !.pc = pc]
<1>2. /\ m \in ProcRecord /\ m.pc = pc /\ m.call = k.call /\ m.new = k.new /\ m.fds = k.fds
  BY DEF ProcRecord
<1>3. proc' = [proc EXCEPT ![p] = m]
  BY <1>1 DEF Goes
<1> HIDE DEF m
<1> QED
  BY <1>1, <1>2, <1>3

\* Where a process goes without a word of the daemon.
Outward(k, pc) ==
    \/ k.pc = "requests" /\ pc = "sends"
    \/ k.pc = "sends" /\ pc \in {"sent", "broken_pipe"}
    \/ k.pc \in Asked /\ pc \in Asked

\* A process goes on with its call before the daemon has answered it (Outward).
LEMMA OutwardCalls ==
  ASSUME CallsInv, NEW p \in Processes, NEW pc \in InCall, Outward(proc[p], pc), Goes(p, pc),
         pipes \subseteq pipes', requests' \in {requests, <<>>},
         UNCHANGED <<worker, pending, ids, usage>>
  PROVE  CallsInv'
<1>0. /\ PipesTyped /\ CallOK(p, proc[p])
      /\ proc[p].pc # "idle" => PipesMadeFirst(proc[p].call) \subseteq pipes
  BY DEF CallsInv, ProcsOK, At
<1>1. PICK k \in ProcRecord, m \in ProcRecord :
        /\ k = proc[p] /\ proc' = [proc EXCEPT ![p] = m]
        /\ m.pc = pc /\ m.call = k.call /\ m.new = k.new /\ m.fds = k.fds
  BY <1>0, GoesChanges
<1>2. k.pc # "idle" /\ m.pc # "idle" /\ k.pc # "ok" /\ m.pc \notin {"read_pipe", "write_pipe"}
  BY <1>1 DEF Outward, Asked
<1>3. CallOK(p, m)
  BY <1>0, <1>1, <1>2 DEF CallOK
<1>4. \A d \in CallRecord : Token(d, k) => Token(d, m)
  BY <1>1 DEF Token, Outward, Asked
<1>5. \A n \in WorkerRecord : n.pc \in AtWork /\ n.call \in CallRecord /\ AtCall(n, k) => AtCall(n, m)
  <2> SUFFICES ASSUME NEW n \in WorkerRecord, AtCall(n, k), n.pc \in AtWork PROVE AtCall(n, m)
    OBVIOUS
  <2> QED
    BY <1>1, <1>2 DEF AtCall, Outward, Asked
<1> QED
  BY ONLY CallsInv, p \in Processes, <1>0, <1>1, <1>2, <1>3, <1>4, <1>5, ProcStep,
     pipes \subseteq pipes', requests' \in {requests, <<>>}, UNCHANGED <<worker, pending, ids, usage>>

\* A process whose call the daemon does not have.
LEMMA NotWithDaemon ==
  ASSUME CallsInv, NEW p \in Processes
  PROVE  /\ proc[p].pc \notin Asked => ~Queued(p) /\ ~Pending(p)
         /\ \A t \in Threads : With(t, p) => AtCall(worker[t], proc[p]) /\ worker[t].call = proc[p].call
         /\ proc[p].pc \notin Asked \cup {"ok", "read_pipe", "write_pipe"} =>
              \A t \in Threads : ~With(t, p)
<1>0. PipesTyped /\ QueuedOnce /\ PendingOnce /\ ThreadsOnce
  BY DEF CallsInv
<1>1. proc[p].pc \notin Asked => ~Queued(p) /\ ~Pending(p)
  BY <1>0 DEF QueuedOnce, PendingOnce, Queued, Pending, Token
<1>2. \A t \in Threads : With(t, p) => AtCall(worker[t], proc[p])
  BY <1>0 DEF ThreadsOnce, With
<1>3. \A t \in Threads : With(t, p) =>
        worker[t].pc \in AtWork /\ AtCall(worker[t], proc[p]) /\ worker[t].call = proc[p].call
  BY <1>2 DEF With, AtCall
<1>4. ASSUME NEW t \in Threads, With(t, p)
      PROVE  proc[p].pc \in Asked \cup {"ok", "read_pipe", "write_pipe"}
  BY <1>3, <1>4 DEF AtCall, AtWork, Decided
<1> QED
  BY <1>1, <1>3, <1>4

\* The process of a request that is written, and the request it leaves.
LEMMA RequestWrittenCalls ==
  ASSUME CallsInv, NEW p \in Processes, RequestWritten(p)
  PROVE  CallsInv'
<1>0. PipesTyped /\ ProcsOK /\ QueuedOnce /\ PendingOnce /\ ThreadsOnce
  BY DEF CallsInv
<1>1. UNCHANGED <<pipes, worker, pending, ids, usage>> /\ At(p, "sends")
  BY DEF RequestWritten
<1>2. CASE ~ReaderOpen
  <2>1. Goes(p, "broken_pipe") /\ requests' = requests
    BY <1>2 DEF RequestWritten
  <2>2. Outward(proc[p], "broken_pipe") /\ "broken_pipe" \in InCall
    BY <1>1 DEF Outward, At, InCall
  <2> QED
    BY <1>1, <2>1, <2>2, OutwardCalls
<1>3. CASE ReaderOpen
  <2>1. PICK k \in ProcRecord, m \in ProcRecord :
          /\ k = proc[p] /\ proc' = [proc EXCEPT ![p] = m]
          /\ m.pc = "sent" /\ m.call = k.call /\ m.new = k.new /\ m.fds = k.fds
    <3>1. Goes(p, "sent") /\ "sent" \in InCall
      BY <1>3 DEF RequestWritten, InCall, Asked
    <3> QED
      BY <1>0, <3>1, GoesChanges
  <2>2. k.pc = "sends" /\ CallOK(p, k) /\ PipesMadeFirst(k.call) \subseteq pipes
    BY <1>0, <1>1, <2>1 DEF At, ProcsOK
  <2>3. k.call \in CallRecord /\ k.call.of = p
    BY <2>1, <2>2, NoCallIsNone DEF CallOK, ProcRecord
  <2>4. /\ proc' \in [Processes -> ProcRecord] /\ proc'[p] = m
        /\ \A q \in Processes : q # p => proc'[q] = proc[q]
    BY <1>0, <2>1 DEF PipesTyped
  <2>5. PICK n \in Nat : n = Len(requests)
    BY <1>0 DEF PipesTyped
  <2>6. /\ requests' \in Seq(CallRecord) /\ DOMAIN requests = 1 .. n /\ DOMAIN requests' = 1 .. n + 1
        /\ \A i \in 1 .. n : requests'[i] = requests[i]
        /\ requests'[n + 1] = k.call
    <3>1. requests \in Seq(CallRecord) /\ requests' = Append(requests, k.call)
      BY <1>0, <1>3, <2>1 DEF RequestWritten, PipesTyped
    <3>2. /\ requests' \in Seq(CallRecord) /\ Len(requests') = n + 1
          /\ \A i \in 1 .. n : requests'[i] = requests[i]
          /\ requests'[n + 1] = k.call
      BY <2>3, <2>5, <3>1, AppendProperties
    <3> QED
      BY <2>5, <3>1, <3>2
  <2>7. ~Queued(p) /\ ~Pending(p) /\ \A t \in Threads : ~With(t, p)
    BY <2>1, <2>2, NotWithDaemon DEF Asked
  <2>8. PipesTyped'
    BY <1>0, <1>1, <2>4, <2>6 DEF PipesTyped
  <2>9. ProcsOK'
    <3>1. CallOK(p, m)
      BY <2>1, <2>2 DEF CallOK
    <3> SUFFICES ASSUME NEW q \in Processes
                 PROVE  /\ CallOK(q, proc'[q])
                        /\ proc'[q].pc # "idle" => PipesMadeFirst(proc'[q].call) \subseteq pipes
      BY <1>1 DEF ProcsOK, At
    <3> QED
      BY <1>0, <2>1, <2>2, <2>4, <3>1 DEF ProcsOK, At
  <2>10. Token(k.call, m)
    BY <2>1 DEF Token, Asked
  <2>11. QueuedOnce'
    <3>1. \A i \in 1 .. n : requests[i].of # p /\ requests[i].of \in Processes
      BY <1>0, <2>6, <2>7, CallsTyped DEF Queued
    <3>2. \A i \in 1 .. n + 1 : i \in 1 .. n \/ i = n + 1
      OBVIOUS
    <3>3. \A i \in 1 .. n + 1 : Token(requests'[i], proc'[requests'[i].of])
      BY <1>0, <2>3, <2>4, <2>6, <2>10, <3>1, <3>2 DEF QueuedOnce
    <3>4. \A i, j \in 1 .. n + 1 : requests'[i].of = requests'[j].of => i = j
      BY <1>0, <2>3, <2>6, <3>1, <3>2 DEF QueuedOnce
    <3> QED
      BY <2>6, <3>3, <3>4 DEF QueuedOnce
  <2>12. \A q \in Processes \ {p} : ~Queued(q) => ~Queued(q)'
    <3> SUFFICES ASSUME NEW q \in Processes \ {p}, NEW i \in 1 .. n + 1, requests'[i].of = q
                 PROVE  \E j \in 1 .. n : requests[j].of = q
      BY <2>6 DEF Queued
    <3>1. i \in 1 .. n
      BY <2>3, <2>6
    <3> QED
      BY <2>6, <3>1
  <2>13. PendingOnce'
    <3> SUFFICES ASSUME NEW c \in pending PROVE Token(c, proc'[c.of]) /\ ~Queued(c.of)'
      BY <1>1 DEF PendingOnce
    <3>1. c.of \in Processes \ {p}
      BY <1>0, <2>7, CallsTyped DEF Pending
    <3> QED
      BY <1>0, <2>4, <2>12, <3>1 DEF PendingOnce
  <2>14. ThreadsOnce'
    <3> SUFFICES ASSUME NEW t \in Threads
                 PROVE  /\ WorkOK(worker[t])
                        /\ worker[t].pc \in AtWork =>
                             /\ AtCall(worker[t], proc'[worker[t].call.of])
                             /\ ~Queued(worker[t].call.of)' /\ ~Pending(worker[t].call.of)
                             /\ \A u \in Threads \ {t} : ~With(u, worker[t].call.of)
      BY <1>1 DEF ThreadsOnce, Pending, With
    <3>1. worker[t].pc \in AtWork => worker[t].call.of \in Processes \ {p}
      BY <1>0, <2>7, CallsTyped DEF With
    <3> QED
      BY <1>0, <1>1, <2>4, <2>12, <3>1 DEF ThreadsOnce
  <2> QED
    BY <2>8, <2>9, <2>11, <2>13, <2>14 DEF CallsInv
<1> QED
  BY <1>2, <1>3

\* The caller has the request pipe open.
LEMMA RequestPipeOpenedCalls ==
  ASSUME CallsInv, NEW p \in Processes, RequestPipeOpened(p)
  PROVE  CallsInv'
<1>1. /\ Outward(proc[p], "sends") /\ Goes(p, "sends") /\ "sends" \in InCall
      /\ pipes \subseteq pipes' /\ requests' \in {requests, <<>>}
      /\ UNCHANGED <<worker, pending, ids, usage>>
  BY DEF RequestPipeOpened, Outward, At, InCall
<1> QED
  BY <1>1, OutwardCalls

\* The caller closes the request pipe.
LEMMA RequestPipeClosedCalls ==
  ASSUME CallsInv, NEW p \in Processes, RequestPipeClosed(p)
  PROVE  CallsInv'
<1>1. PICK pc \in {"makes_pipe", "waits"} : Goes(p, pc)
  BY DEF RequestPipeClosed
<1>2. /\ Outward(proc[p], pc) /\ pc \in InCall
      /\ pipes \subseteq pipes' /\ requests' \in {requests, <<>>}
      /\ UNCHANGED <<worker, pending, ids, usage>>
  BY <1>1 DEF RequestPipeClosed, Outward, At, InCall, Asked
<1> QED
  BY <1>1, <1>2, OutwardCalls

\* The caller makes its response pipe after the request.
LEMMA ResponsePipeMadeCalls ==
  ASSUME CallsInv, NEW p \in Processes, ResponsePipeMade(p)
  PROVE  CallsInv'
<1>1. /\ Outward(proc[p], "waits") /\ Goes(p, "waits") /\ "waits" \in InCall
      /\ pipes \subseteq pipes' /\ requests' \in {requests, <<>>}
      /\ UNCHANGED <<worker, pending, ids, usage>>
  BY DEF ResponsePipeMade, Outward, At, InCall, Asked
<1> QED
  BY <1>1, OutwardCalls

\* A process is stopped in a call; the daemon still has it.
LEMMA ProcessDiesCalls ==
  ASSUME CallsInv, NEW p \in Processes, ProcessDies(p)
  PROVE  CallsInv'
<1>1. /\ Outward(proc[p], "dead") /\ Goes(p, "dead") /\ "dead" \in InCall
      /\ pipes \subseteq pipes' /\ requests' \in {requests, <<>>}
      /\ UNCHANGED <<worker, pending, ids, usage>>
  BY DEF ProcessDies, Outward, At, InCall, Asked
<1> QED
  BY <1>1, OutwardCalls

\* What a process makes of its answer.
LEMMA AnswerChanges ==
  ASSUME CallsInv, NEW p \in Processes, AnswerTaken(p)
  PROVE  \E k, m \in ProcRecord :
           /\ k = proc[p] /\ proc' = [proc EXCEPT ![p] = m]
           /\ k.pc \in {"ok", "error"} /\ k.call \in CallRecord /\ CallOK(p, k)
           /\ m.pc = IF k.pc = "ok" THEN Transfer(k.call, "idle") ELSE "idle"
           /\ m.call = IF m.pc = "idle" THEN NoCall ELSE k.call
           /\ m.new = NoId
           /\ m.fds = (IF k.call.opt = "close" THEN k.fds \ {k.call.id} ELSE k.fds)
                        \cup ({k.new} \ {NoId})
           /\ pipes' = IF m.pc = "write_pipe" THEN pipes \cup {Pipe("write", k.call)} ELSE pipes
<1>0. PipesTyped /\ CallOK(p, proc[p])
  BY DEF CallsInv, ProcsOK
<1>1. PICK k \in ProcRecord : k = proc[p]
  BY <1>0 DEF PipesTyped
<1>2. k.pc \in {"ok", "error"} /\ k.call \in CallRecord
  <2>1. k.pc \in {"ok", "error"}
    BY <1>1 DEF AnswerTaken
  <2> QED
    BY <1>0, <1>1, <2>1, NoCallIsNone DEF CallOK, ProcRecord
<1> DEFINE next == IF k.pc = "ok" THEN Transfer(k.call, "idle") ELSE "idle"
           fds == (IF k.call.opt = "close" THEN k.fds \ {k.call.id} ELSE k.fds)
                    \cup ({k.new} \ {NoId})
           m == [pc |-> next, call |-> IF next = "idle" THEN NoCall ELSE k.call,
                 new |-> NoId, fds |-> fds]
<1>3. /\ proc' = [proc EXCEPT ![p] = m]
      /\ pipes' = IF next = "write_pipe" THEN pipes \cup {Pipe("write", k.call)} ELSE pipes
  BY <1>0, <1>1 DEF AnswerTaken, At, PipesTyped
<1>4. next \in {"idle", "read_pipe", "write_pipe"}
  BY DEF Transfer
<1>5. fds \subseteq SocketIds
  BY DEF ProcRecord
<1> HIDE DEF next, fds
<1>6. m \in ProcRecord
  BY <1>4, <1>5 DEF ProcRecord, InCall, SomeCall
<1>7. m.pc = next /\ m.call = (IF next = "idle" THEN NoCall ELSE k.call) /\ m.new = NoId /\ m.fds = fds
  OBVIOUS
<1> HIDE DEF m
<1> USE DEF next, fds
<1> QED
  BY <1>0, <1>1, <1>2, <1>3, <1>6, <1>7

\* The caller takes its answer, and keeps or gives up a socket.
LEMMA AnswerTakenCalls ==
  ASSUME CallsInv, NEW p \in Processes, AnswerTaken(p)
  PROVE  CallsInv'
<1>1. PICK k \in ProcRecord, m \in ProcRecord :
        /\ k = proc[p] /\ proc' = [proc EXCEPT ![p] = m]
        /\ k.pc \in {"ok", "error"} /\ k.call \in CallRecord /\ CallOK(p, k)
        /\ m.pc = IF k.pc = "ok" THEN Transfer(k.call, "idle") ELSE "idle"
        /\ m.call = IF m.pc = "idle" THEN NoCall ELSE k.call
        /\ m.new = NoId
        /\ m.fds = (IF k.call.opt = "close" THEN k.fds \ {k.call.id} ELSE k.fds)
                     \cup ({k.new} \ {NoId})
        /\ pipes' = IF m.pc = "write_pipe" THEN pipes \cup {Pipe("write", k.call)} ELSE pipes
  BY AnswerChanges
<1>2. /\ m.pc # "idle" => k.pc = "ok" /\ m.call = k.call /\ k.call.opt # "close"
      /\ m.pc = "read_pipe" => k.call.opt = "read"
      /\ m.pc = "write_pipe" => k.call.opt = "write"
      /\ k.pc = "ok" /\ k.call.opt = "read" => m.pc = "read_pipe"
      /\ k.pc = "ok" /\ k.call.opt = "write" => m.pc = "write_pipe"
      /\ m.pc \in {"idle", "read_pipe", "write_pipe"}
  BY <1>1 DEF Transfer
<1>3. CallOK(p, m)
  BY <1>1, <1>2, NoCallIsNone DEF CallOK
<1>4. k.pc # "idle" /\ (m.pc # "idle" => PipesMadeFirst(m.call) \subseteq pipes') /\ pipes \subseteq pipes'
  BY <1>1, <1>2 DEF CallsInv, ProcsOK, At
<1>5. \A d \in CallRecord : Token(d, k) => Token(d, m)
  BY <1>1 DEF Token, Asked
<1>6. \A n \in WorkerRecord : n.pc \in AtWork /\ n.call \in CallRecord /\ AtCall(n, k) => AtCall(n, m)
  <2> SUFFICES ASSUME NEW n \in WorkerRecord, AtCall(n, k), n.pc \in AtWork PROVE AtCall(n, m)
    OBVIOUS
  <2>1. k.pc = "ok" /\ n.pc \in {"read_pipe", "write_pipe", "crashed"} /\ n.call = k.call
    BY <1>1 DEF AtCall, AtWork, Decided, Asked
  <2> QED
    BY <1>1, <1>2, <2>1 DEF AtCall, Asked
<1>7. requests' \in {requests, <<>>} /\ UNCHANGED <<worker, pending, ids, usage>>
  BY DEF AnswerTaken
<1> QED
  BY ONLY CallsInv, p \in Processes, <1>1, <1>3, <1>4, <1>5, <1>6, <1>7, ProcStep

\* A thread becomes the record its action says.
LEMMA BecomesRecord ==
  ASSUME NEW t \in Threads, NEW pc \in AtWork \cup {"opens", "reads", "closed", "rests"},
         NEW c \in SomeCall, NEW new \in SocketIds \cup {NoId}, Becomes(t, pc, c, new)
  PROVE  \E m \in WorkerRecord :
           worker' = [worker EXCEPT ![t] = m] /\ m.pc = pc /\ m.call = c /\ m.new = new
<1> DEFINE m == [pc |-> pc, call |-> c, new |-> new]
<1>1. m \in WorkerRecord /\ m.pc = pc /\ m.call = c /\ m.new = new
  BY DEF WorkerRecord
<1>2. worker' = [worker EXCEPT ![t] = m]
  BY DEF Becomes
<1> HIDE DEF m
<1> QED
  BY <1>1, <1>2

\* A thread that has no call.
LEMMA IdleThread ==
  ASSUME CallsInv, NEW t \in Threads, NEW pc \in {"opens", "reads", "closed", "rests"},
         Becomes(t, pc, NoCall, NoId), requests' \in {requests, <<>>}, pending' = pending,
         ids' \subseteq SocketIds, UNCHANGED <<proc, pipes, usage>>
  PROVE  CallsInv'
<1>1. PICK m \in WorkerRecord :
        worker' = [worker EXCEPT ![t] = m] /\ m.pc = pc /\ m.call = NoCall /\ m.new = NoId
  <2>1. pc \in AtWork \cup {"opens", "reads", "closed", "rests"} /\ NoCall \in SomeCall
    BY DEF SomeCall
  <2> QED
    BY ONLY t \in Threads, <2>1, Becomes(t, pc, NoCall, NoId), BecomesRecord
<1>2. WorkOK(m) /\ m.pc \notin AtWork
  BY <1>1 DEF WorkOK, AtWork, Decided
<1>3. \A c \in pending' : c \in pending
  OBVIOUS
<1>4. WorkChange(t, m)
  BY <1>1, <1>2, <1>3 DEF WorkChange
<1> QED
  BY ONLY CallsInv, t \in Threads, <1>4, WorkStep

\* A thread that goes on with its call, at another place.
LEMMA SameCall ==
  ASSUME CallsInv, NEW t \in Threads, NEW pc \in AtWork, NEW new \in SocketIds \cup {NoId},
         NEW c, c = worker[t].call, worker[t].pc \in AtWork, Becomes(t, pc, c, new),
         new # NoId => pc = "ok" /\ c.opt \in Allocating,
         \A m \in WorkerRecord : m.pc = pc /\ m.call = c /\ AtCall(worker[t], proc[c.of])
                                   => AtCall(m, proc[c.of]),
         requests' \in {requests, <<>>}, pending' = pending, ids' \subseteq SocketIds,
         UNCHANGED <<proc, pipes, usage>>
  PROVE  CallsInv'
<1>0. PipesTyped /\ ThreadsOnce
  BY DEF CallsInv
<1>1. c \in CallRecord /\ c.of \in Processes
  BY <1>0, CallsTyped
<1>2. /\ AtCall(worker[t], proc[c.of]) /\ ~Queued(c.of) /\ ~Pending(c.of)
      /\ \A u \in Threads \ {t} : ~With(u, c.of)
  BY <1>0 DEF ThreadsOnce
<1>3. PICK m \in WorkerRecord :
        worker' = [worker EXCEPT ![t] = m] /\ m.pc = pc /\ m.call = c /\ m.new = new
  BY <1>1, BecomesRecord DEF SomeCall
<1>4. WorkOK(m)
  BY <1>1, <1>3, NoCallIsNone DEF WorkOK
<1>5. ~Queued(c.of)' /\ ~Pending(c.of)'
  <2>1. DOMAIN <<>> = {}
    OBVIOUS
  <2> QED
    BY <1>2, <2>1 DEF Queued, Pending
<1>6. /\ AtCall(m, proc[m.call.of]) /\ (\A i \in DOMAIN requests' : requests'[i].of # m.call.of)
      /\ \A d \in pending' : d.of # m.call.of
      /\ \A u \in Threads \ {t} : ~With(u, m.call.of)
  BY <1>2, <1>3, <1>5 DEF Queued, Pending
<1>7. \A d \in pending' : d \in pending
  OBVIOUS
<1>8. WorkChange(t, m)
  BY <1>3, <1>4, <1>6, <1>7 DEF WorkChange
<1> QED
  BY ONLY CallsInv, t \in Threads, <1>8, WorkStep

\* The daemon has the request pipe open.
LEMMA DaemonOpenedCalls ==
  ASSUME CallsInv, DaemonOpened
  PROVE  CallsInv'
<1> ids \subseteq SocketIds /\ "request" \in Threads
  BY DEF CallsInv, PipesTyped, Threads
<1> QED
  BY IdleThread DEF DaemonOpened

\* The daemon reads the end of the request pipe.
LEMMA DaemonFindsNothingCalls ==
  ASSUME CallsInv, DaemonFindsNothing
  PROVE  CallsInv'
<1> ids \subseteq SocketIds /\ "request" \in Threads
  BY DEF CallsInv, PipesTyped, Threads
<1> QED
  BY IdleThread DEF DaemonFindsNothing

\* The daemon begins its loop again.
LEMMA DaemonLoopsCalls ==
  ASSUME CallsInv, DaemonLoops
  PROVE  CallsInv'
<1> ids \subseteq SocketIds /\ "request" \in Threads
  BY DEF CallsInv, PipesTyped, Threads
<1> QED
  BY IdleThread DEF DaemonLoops

\* The daemon takes the first request.
LEMMA DaemonReadsCalls ==
  ASSUME CallsInv, DaemonReads
  PROVE  CallsInv'
<1>0. PipesTyped /\ QueuedOnce /\ PendingOnce /\ ThreadsOnce
  BY DEF CallsInv
<1>1. PICK c \in CallRecord : c = requests[1] /\ c = Head(requests) /\ 1 \in DOMAIN requests
  BY <1>0 DEF DaemonReads, PipesTyped
<1>2. PICK m \in WorkerRecord : /\ worker' = [worker EXCEPT !["request"] = m]
                                /\ m.pc = "closes" /\ m.call = c /\ m.new = NoId
  <2>1. /\ Becomes("request", "closes", c, NoId) /\ "request" \in Threads
        /\ "closes" \in AtWork /\ c \in SomeCall
    BY <1>1 DEF DaemonReads, Threads, AtWork, SomeCall
  <2> QED
    BY <2>1, BecomesRecord
<1>3. WorkOK(m) /\ m.pc \in AtWork
  BY <1>1, <1>2, NoCallIsNone DEF WorkOK, AtWork
<1>4. AtCall(m, proc[c.of])
  <2>1. Token(c, proc[c.of])
    BY <1>0, <1>1 DEF QueuedOnce
  <2> QED
    BY <1>2, <2>1 DEF AtCall, Token
<1>5. Queued(c.of)
  BY <1>1 DEF Queued
<1>6. c.of \in Processes /\ ~Pending(c.of) /\ \A u \in Threads : ~With(u, c.of)
  BY <1>0, <1>1, <1>5, NoCallIsNone DEF PendingOnce, ThreadsOnce, Pending, With
<1>7. ~Queued(c.of)' /\ ~Pending(c.of)'
  <2>1. DOMAIN <<>> = {} /\ requests' = <<>> /\ pending' = pending
    BY DEF DaemonReads
  <2> QED
    BY <1>6, <2>1 DEF Queued, Pending
<1>8. /\ requests' \in {requests, <<>>} /\ pending' = pending /\ ids' \subseteq SocketIds
      /\ UNCHANGED <<proc, pipes, usage>> /\ "request" \in Threads
  BY <1>0 DEF DaemonReads, PipesTyped, Threads
<1>9. /\ AtCall(m, proc[m.call.of]) /\ (\A i \in DOMAIN requests' : requests'[i].of # m.call.of)
      /\ \A d \in pending' : d.of # m.call.of
      /\ \A u \in Threads \ {"request"} : ~With(u, m.call.of)
  BY <1>2, <1>4, <1>6, <1>7 DEF Queued, Pending
<1>10. \A d \in pending' : d \in pending
  BY <1>8
<1>11. WorkChange("request", m)
  BY <1>2, <1>3, <1>8, <1>9, <1>10 DEF WorkChange
<1> QED
  BY ONLY CallsInv, <1>8, <1>11, WorkStep

\* The daemon closes the request pipe, and what it holds may be lost.
LEMMA DaemonClosesCalls ==
  ASSUME CallsInv, DaemonCloses
  PROVE  CallsInv'
<1>1. PICK c : c = worker["request"].call
  OBVIOUS
<1>2. /\ "request" \in Threads /\ worker["request"].pc \in AtWork /\ "locks" \in AtWork
      /\ Becomes("request", "locks", c, NoId)
  BY <1>1 DEF DaemonCloses, Is, Threads, AtWork
<1>3. /\ requests' \in {requests, <<>>} /\ pending' = pending /\ ids' \subseteq SocketIds
      /\ UNCHANGED <<proc, pipes, usage>>
  BY DEF DaemonCloses, CallsInv, PipesTyped
<1>4. \A m \in WorkerRecord : m.pc = "locks" /\ m.call = c /\ AtCall(worker["request"], proc[c.of])
                                => AtCall(m, proc[c.of])
  BY <1>1 DEF AtCall, DaemonCloses, Is
<1> QED
  BY ONLY CallsInv, <1>1, <1>2, <1>3, <1>4, SameCall

\* The daemon answers the request itself or leaves it to TCP.
LEMMA DaemonDecidesCalls ==
  ASSUME CallsInv, DaemonDecides
  PROVE  CallsInv'
<1>0. PipesTyped /\ ThreadsOnce /\ "request" \in Threads
  BY DEF CallsInv, Threads
<1>1. PICK c : c = worker["request"].call
  OBVIOUS
<1>2. worker["request"].pc = "locks" /\ worker["request"].pc \in AtWork
  BY DEF DaemonDecides, Is, AtWork
<1>3. c \in CallRecord /\ c.of \in Processes /\ c # NoCall
  BY <1>0, <1>1, <1>2, CallsTyped, NoCallIsNone
<1>4. PICK v \in Verdicts(c.opt), new \in SocketIds \cup {NoId} :
        /\ Allots(c, v, new)
        /\ ids' = IdsAfter(c, v, "request", new)
        /\ IF v = "later"
           THEN pending' = pending \cup {c} /\ Becomes("request", "closed", NoCall, NoId)
           ELSE Becomes("request", v, c, new) /\ pending' = pending
  BY <1>1 DEF DaemonDecides
<1>5. v \in {"ok", "error", "later"}
  <2>1. c.opt \in AllCalls
    BY <1>3, NoCallIsNone
  <2> QED
    BY <1>4, <2>1 DEF Verdicts, AllCalls
<1>6. ids' \subseteq SocketIds /\ requests' = requests /\ UNCHANGED <<proc, pipes, usage>>
  BY <1>0, <1>4 DEF DaemonDecides, IdsAfter, PipesTyped
<1>7. /\ AtCall(worker["request"], proc[c.of]) /\ ~Queued(c.of)
      /\ \A u \in Threads \ {"request"} : ~With(u, c.of)
  BY <1>0, <1>1, <1>2 DEF ThreadsOnce
<1>8. CASE v = "later"
  <2>1. PICK m \in WorkerRecord : /\ worker' = [worker EXCEPT !["request"] = m]
                                  /\ m.pc = "closed" /\ m.call = NoCall /\ m.new = NoId
    <3>1. /\ Becomes("request", "closed", NoCall, NoId) /\ NoCall \in SomeCall
          /\ "closed" \in AtWork \cup {"opens", "reads", "closed", "rests"} /\ NoId \in SocketIds \cup {NoId}
      BY <1>4, <1>8 DEF SomeCall
    <3> QED
      BY <1>0, <3>1, BecomesRecord
  <2>2. WorkOK(m) /\ m.pc \notin AtWork
    BY <2>1 DEF WorkOK, AtWork, Decided
  <2>3. pending' = pending \cup {c}
    BY <1>4, <1>8
  <2>4. /\ Token(c, proc[c.of]) /\ \A i \in DOMAIN requests' : requests'[i].of # c.of
    BY <1>1, <1>2, <1>6, <1>7 DEF AtCall, Token, Queued
  <2>5. \A d \in pending' : \/ d \in pending
                            \/ /\ d \in CallRecord /\ Token(d, proc[d.of])
                               /\ \A i \in DOMAIN requests' : requests'[i].of # d.of
                               /\ \A u \in Threads \ {"request"} : ~With(u, d.of)
    BY <1>3, <1>7, <2>3, <2>4
  <2>6. WorkChange("request", m)
    BY <1>6, <2>1, <2>2, <2>5 DEF WorkChange
  <2> QED
    BY ONLY CallsInv, <1>0, <2>6, WorkStep
<1>9. CASE v # "later"
  <2>1. Becomes("request", v, c, new) /\ pending' = pending /\ v \in AtWork
    BY <1>4, <1>5, <1>9 DEF AtWork, Decided
  <2>2. new # NoId => v = "ok" /\ c.opt \in Allocating
    BY <1>4 DEF Allots
  <2>3. \A m \in WorkerRecord : m.pc = v /\ m.call = c /\ AtCall(worker["request"], proc[c.of])
                                  => AtCall(m, proc[c.of])
    BY <1>1, <1>2, <1>5, <1>9 DEF AtCall
  <2>4. requests' \in {requests, <<>>} /\ new \in SocketIds \cup {NoId}
    BY <1>4, <1>6
  <2> QED
    BY ONLY CallsInv, <1>0, <1>1, <1>2, <1>6, <2>1, <2>2, <2>3, <2>4, SameCall
<1> QED
  BY <1>8, <1>9

\* TCP decides a call that waited for it.
LEMMA TcpEndsCalls ==
  ASSUME CallsInv, NEW c \in pending, TcpEnds(c)
  PROVE  CallsInv'
<1>0. PipesTyped /\ PendingOnce /\ ThreadsOnce /\ "tcp" \in Threads
  BY DEF CallsInv, Threads
<1>1. c \in CallRecord /\ c.of \in Processes /\ c # NoCall
  BY <1>0, CallsTyped, NoCallIsNone
<1>2. PICK v \in {"ok", "error"}, new \in SocketIds \cup {NoId} :
        Allots(c, v, new) /\ ids' = IdsAfter(c, v, "tcp", new) /\ Becomes("tcp", v, c, new)
  BY DEF TcpEnds
<1>3. PICK m \in WorkerRecord : /\ worker' = [worker EXCEPT !["tcp"] = m]
                                /\ m.pc = v /\ m.call = c /\ m.new = new
  <2>1. Becomes("tcp", v, c, new) /\ c \in SomeCall /\ v \in AtWork
    BY <1>1, <1>2 DEF SomeCall, AtWork, Decided
  <2> QED
    BY <1>0, <1>2, <2>1, BecomesRecord
<1>4. WorkOK(m) /\ m.pc \in AtWork
  BY <1>1, <1>2, <1>3 DEF WorkOK, Allots, AtWork, Decided
<1>5. Token(c, proc[c.of]) /\ ~Queued(c.of) /\ \A d \in pending : d.of = c.of => d = c
  BY <1>0 DEF PendingOnce, Token
<1>6. AtCall(m, proc[c.of])
  BY <1>2, <1>3, <1>5 DEF AtCall, Token
<1>7. /\ requests' = requests /\ pending' = pending \ {c} /\ UNCHANGED <<proc, pipes, usage>>
      /\ ids' \subseteq SocketIds
  BY <1>0, <1>2 DEF TcpEnds, IdsAfter, PipesTyped
<1>8. /\ AtCall(m, proc[m.call.of]) /\ (\A i \in DOMAIN requests' : requests'[i].of # m.call.of)
      /\ (\A d \in pending' : d.of # m.call.of)
      /\ \A u \in Threads \ {"tcp"} : ~With(u, m.call.of)
  <2>1. Pending(c.of)
    BY DEF Pending
  <2>2. \A u \in Threads : ~With(u, c.of)
    BY <1>0, <2>1 DEF ThreadsOnce, With
  <2> QED
    BY <1>3, <1>5, <1>6, <1>7, <2>2 DEF Queued
<1>9. \A d \in pending' : d \in pending
  BY <1>7
<1>10. WorkChange("tcp", m)
  BY <1>3, <1>4, <1>7, <1>8, <1>9 DEF WorkChange
<1> QED
  BY ONLY CallsInv, <1>0, <1>10, WorkStep

\* An id is given back.
LEMMA IdFreedCalls ==
  ASSUME CallsInv, NEW id \in SocketIds, IdFreed(id)
  PROVE  CallsInv'
<1>1. /\ UNCHANGED <<proc, requests, pipes, worker, pending, usage>>
      /\ ids' \subseteq ids
  BY DEF IdFreed
<1> QED
  BY <1>1 DEF CallsInv, PipesTyped, ProcsOK, At, QueuedOnce, PendingOnce, ThreadsOnce,
              Queued, Pending, With

\* The daemon dies of a pipe its caller makes too late.
LEMMA NoPipeCalls ==
  ASSUME CallsInv, NEW t \in Threads, NEW kind, NoPipe(t, kind),
         \/ worker[t].pc \in {"ok", "error"} /\ kind = "response"
         \/ worker[t].pc \in {"read_pipe", "write_pipe"} /\ kind = worker[t].call.opt,
         UNCHANGED <<requests, pipes, pending, ids, usage>>
  PROVE  CallsInv'
<1>0. PipesTyped /\ ProcsOK /\ ThreadsOnce
  BY DEF CallsInv
<1>1. PICK w, c : w \in WorkerRecord /\ w = worker[t] /\ c = w.call
  BY <1>0 DEF PipesTyped
<1>2. w.pc \in AtWork /\ w.pc \in {"ok", "error", "read_pipe", "write_pipe"} /\ "crashed" \in AtWork
  BY <1>1 DEF AtWork, Decided
<1>3. c \in CallRecord /\ c.of \in Processes
  BY <1>0, <1>1, <1>2, CallsTyped
<1>4. PICK k \in ProcRecord : k = proc[c.of] /\ AtCall(w, k)
  BY <1>0, <1>1, <1>2, <1>3 DEF ThreadsOnce, PipesTyped
<1>5. k.call = c /\ k.pc # "idle" /\ PipesMadeFirst(c) \subseteq pipes
  <2>1. k.call = c /\ k.pc # "idle"
    BY <1>1, <1>2, <1>4 DEF AtCall, Asked
  <2> QED
    BY <1>0, <1>3, <1>4, <2>1 DEF ProcsOK, At
<1>6. Pipe(kind, c) \notin pipes /\ Becomes(t, "crashed", c, NoId) /\ UNCHANGED proc
  BY <1>1 DEF NoPipe
<1>7. /\ w.pc \in {"ok", "error"} => c.opt \in {"socket", "bind"}
      /\ w.pc = "read_pipe" => FALSE
  <2>1. /\ w.pc \in {"ok", "error"} => kind = "response"
        /\ w.pc \in {"read_pipe", "write_pipe"} => kind = c.opt
        /\ w.pc = "read_pipe" => c.opt = "read"
    BY <1>1, <1>4 DEF AtCall
  <2> QED
    BY <1>5, <1>6, <2>1 DEF PipesMadeFirst
<1>8. \A m \in WorkerRecord : m.pc = "crashed" /\ m.call = c /\ AtCall(w, k) => AtCall(m, k)
  BY <1>1, <1>2, <1>7 DEF AtCall
<1>9. /\ requests' \in {requests, <<>>} /\ pending' = pending /\ ids' \subseteq SocketIds
      /\ UNCHANGED <<proc, pipes, usage>>
  BY <1>0, <1>6 DEF PipesTyped
<1> QED
  BY ONLY CallsInv, t \in Threads, <1>1, <1>2, <1>4, <1>6, <1>8, <1>9, SameCall

\* Two calls with the same name are the same call: an id belongs to one process.
LEMMA SameName ==
  ASSUME CallsInv, KeptOnce, ClosedIsFree, Processes \cap SocketIds = {},
         NEW t \in Threads, NEW p \in Processes,
         \/ worker[t].pc \in {"ok", "error"} /\ At(p, "waits")
         \/ worker[t].pc \in {"read_pipe", "write_pipe"} /\ At(p, worker[t].pc),
         NameOf(proc[p].call) = NameOf(worker[t].call)
  PROVE  worker[t].call.of = p /\ proc[p].call = worker[t].call
<1>0. PipesTyped /\ ProcsOK /\ ThreadsOnce
  BY DEF CallsInv
<1>1. PICK w, c : w \in WorkerRecord /\ w = worker[t] /\ c = w.call
  BY <1>0 DEF PipesTyped
<1>2. w.pc \in AtWork /\ w.pc \in {"ok", "error", "read_pipe", "write_pipe"}
  BY <1>1 DEF AtWork, Decided
<1>3. c \in CallRecord /\ c.of \in Processes
  BY <1>0, <1>1, <1>2, CallsTyped
<1>4. PICK q \in Processes, k \in ProcRecord, l \in ProcRecord :
        q = c.of /\ k = proc[q] /\ AtCall(w, k) /\ l = proc[p]
  BY <1>0, <1>1, <1>2, <1>3 DEF ThreadsOnce, PipesTyped
<1>5. k.call = c /\ k.pc # "idle" /\ CallOK(q, k) /\ CallOK(p, l)
  BY <1>0, <1>1, <1>2, <1>4 DEF AtCall, Asked, ProcsOK
<1>6. l.pc \in {"waits", "read_pipe", "write_pipe"} /\ l.call \in CallRecord /\ l.call.of = p
  <2>1. l.pc \in {"waits", "read_pipe", "write_pipe"}
    BY <1>1, <1>4 DEF At
  <2> QED
    BY <1>5, <2>1, NoCallIsNone DEF CallOK, ProcRecord
<1>7. NameOf(l.call) = NameOf(c)
  BY <1>1, <1>4
<1>8. \/ l.call.opt = "socket" /\ c.opt = "socket"
      \/ l.call.opt # "socket" /\ c.opt # "socket" /\ l.call.id = c.id
  <2>1. (l.call.opt # "socket" => l.call.id \in SocketIds) /\ (c.opt # "socket" => c.id \in SocketIds)
    BY <1>5, <1>6 DEF CallOK, ProcRecord
  <2> QED
    BY <1>3, <1>6, <1>7, <2>1 DEF NameOf
<1>9. p = q
  <2>1. CASE l.call.opt = "socket" /\ c.opt = "socket"
    BY <1>4, <1>6, <1>7, <2>1 DEF NameOf
  <2>2. CASE l.call.opt # "socket" /\ c.opt # "socket" /\ l.call.id = c.id
    <3> SUFFICES ASSUME p # q PROVE FALSE
      OBVIOUS
    <3> DEFINE r == worker["request"]
    <3>1. c.id \in k.fds /\ c.id \in l.fds
      BY <1>5, <1>6, <2>2 DEF CallOK
    <3>2. LetGo(k, r) => Closes(r, c) /\ c.opt = "close"
      <4>1. c.opt = "close" => k.pc \in Asked
        BY <1>1, <1>2, <1>4 DEF AtCall
      <4> QED
        BY <1>5, <4>1 DEF LetGo, Asked
    <3>3. LetGo(l, r) => Closes(r, l.call) /\ l.call.opt = "close"
      BY <1>6 DEF LetGo
    <3>4. Kept(q) \cap Kept(p) = {} /\ Kept(p) \subseteq ids /\ Kept(q) \subseteq ids
      BY DEF KeptOnce
    <3>5. /\ Kept(q) = IF LetGo(k, r) THEN k.fds \ {c.id} ELSE k.fds
          /\ Kept(p) = IF LetGo(l, r) THEN l.fds \ {c.id} ELSE l.fds
      BY <1>4, <1>5, <2>2 DEF Kept, KeptBy
    <3>6. LetGo(k, r) \/ LetGo(l, r) => c.id \notin ids
      BY <2>2, <3>2, <3>3 DEF ClosedIsFree, Closes
    <3>7. LetGo(k, r) /\ LetGo(l, r) => c = l.call
      BY <3>2, <3>3 DEF Closes
    <3> HIDE DEF r
    <3> QED
      BY <1>4, <1>6, <3>1, <3>4, <3>5, <3>6, <3>7
  <2> QED
    BY <1>8, <2>1, <2>2
<1> QED
  BY <1>1, <1>4, <1>5, <1>9

\* A thread at a call of process p, and the process, go on together.
MeetChange(p, t, m, n) ==
    /\ worker[t].pc \in AtWork /\ worker[t].call.of = p
    /\ proc' = [proc EXCEPT ![p] = m] /\ worker' = [worker EXCEPT ![t] = n]
    /\ CallOK(p, m) /\ WorkOK(n)
    /\ m.pc # "idle" => proc[p].pc # "idle" /\ m.call = proc[p].call
    /\ n.pc \in AtWork => n.call = worker[t].call /\ AtCall(n, m)
    /\ UNCHANGED <<requests, pipes, pending, ids, usage>>

\* A thread and the process it answers go on together (MeetChange).
LEMMA MeetStep ==
  ASSUME CallsInv, NEW t \in Threads, NEW p \in Processes,
         NEW m \in ProcRecord, NEW n \in WorkerRecord, MeetChange(p, t, m, n)
  PROVE  CallsInv'
<1>0. PipesTyped /\ ProcsOK /\ QueuedOnce /\ PendingOnce /\ ThreadsOnce
  BY DEF CallsInv
<1>1. /\ requests' = requests /\ pipes' = pipes /\ pending' = pending /\ ids' = ids
      /\ usage' = usage /\ CallOK(p, m) /\ WorkOK(n)
      /\ m.pc # "idle" => proc[p].pc # "idle" /\ m.call = proc[p].call
      /\ n.pc \in AtWork => n.call = worker[t].call /\ AtCall(n, m)
      /\ worker[t].pc \in AtWork /\ worker[t].call.of = p
  BY DEF MeetChange
<1>2. /\ proc' \in [Processes -> ProcRecord] /\ proc'[p] = m
      /\ \A q \in Processes : q # p => proc'[q] = proc[q]
  BY <1>0 DEF PipesTyped, MeetChange
<1>3. /\ worker' \in [Threads -> WorkerRecord] /\ worker'[t] = n
      /\ \A u \in Threads : u # t => worker'[u] = worker[u]
  BY <1>0 DEF PipesTyped, MeetChange
<1>4. PipesTyped'
  BY <1>0, <1>1, <1>2, <1>3 DEF PipesTyped
<1>5. ProcsOK'
  <2> SUFFICES ASSUME NEW q \in Processes
               PROVE  /\ CallOK(q, proc'[q])
                      /\ proc'[q].pc # "idle" => PipesMadeFirst(proc'[q].call) \subseteq pipes
    BY <1>1 DEF ProcsOK, At
  <2> QED
    BY <1>0, <1>1, <1>2 DEF ProcsOK, At
<1>6. ~Queued(p) /\ ~Pending(p) /\ \A u \in Threads \ {t} : ~With(u, p)
  BY <1>0, <1>1 DEF ThreadsOnce
<1>7. QueuedOnce'
  BY <1>0, <1>1, <1>2, <1>6, CallsTyped DEF QueuedOnce, Queued
<1>8. PendingOnce'
  <2> SUFFICES ASSUME NEW c \in pending PROVE Token(c, proc'[c.of]) /\ ~Queued(c.of)
    BY <1>1 DEF PendingOnce, Queued
  <2> QED
    BY <1>0, <1>2, <1>6, CallsTyped DEF PendingOnce, Pending
<1>9. ThreadsOnce'
  <2> SUFFICES ASSUME NEW u \in Threads, NEW o \in WorkerRecord, o = worker'[u]
               PROVE  /\ WorkOK(o)
                      /\ o.pc \in AtWork =>
                           /\ AtCall(o, proc'[o.call.of])
                           /\ ~Queued(o.call.of) /\ ~Pending(o.call.of)
                           /\ \A v \in Threads \ {u} : ~With(v, o.call.of)'
    BY <1>1, <1>3 DEF ThreadsOnce, Queued, Pending, With
  <2>1. CASE u = t
    BY <1>1, <1>2, <1>3, <1>6, <2>1 DEF With
  <2>2. CASE u # t
    <3>1. o = worker[u]
      BY <1>3, <2>2
    <3>2. o.pc \in AtWork => o.call.of \in Processes \ {p}
      BY <1>0, <1>6, <2>2, <3>1, CallsTyped DEF With
    <3>3. o.pc \in AtWork => \A v \in Threads \ {u} : With(v, o.call.of)' => With(v, o.call.of)
      BY <1>1, <1>3 DEF With
    <3> QED
      BY <1>0, <1>2, <3>1, <3>2, <3>3 DEF ThreadsOnce
  <2> QED
    BY <2>1, <2>2
<1> QED
  BY <1>4, <1>5, <1>7, <1>8, <1>9 DEF CallsInv

\* Thread t, at w, meets process p, at k: they go on as n and m.
Met(t, pc, here, p, k, m, w, n) ==
    /\ k = proc[p] /\ w = worker[t] /\ w.pc \in AtWork /\ w.call = k.call /\ w.call.of = p
    /\ AtCall(w, k) /\ CallOK(p, k) /\ WorkOK(w) /\ w.call \in CallRecord
    /\ proc' = [proc EXCEPT ![p] = m] /\ worker' = [worker EXCEPT ![t] = n]
    /\ m.pc = pc /\ m.fds = k.fds
    /\ m.call = IF pc = "idle" THEN NoCall ELSE k.call
    /\ m.new = IF pc = "idle" THEN NoId ELSE w.new
    /\ n.pc = IF here = "done" THEN IF t = "request" THEN "closed" ELSE "rests" ELSE here
    /\ n.call = IF here = "done" THEN NoCall ELSE w.call
    /\ n.new = NoId
    /\ mutex' = IF here = "done" /\ mutex = t THEN "free" ELSE mutex

\* Two opens of one pipe meet: those of a thread and of the process of its call.
LEMMA MeetRecords ==
  ASSUME CallsInv, KeptOnce, ClosedIsFree, Processes \cap SocketIds = {},
         NEW t \in Threads, NEW there, NEW pc \in {"ok", "error", "idle"},
         NEW here \in {"done", "read_pipe", "write_pipe"},
         \/ worker[t].pc \in {"ok", "error"} /\ there = "waits"
         \/ worker[t].pc \in {"read_pipe", "write_pipe"} /\ there = worker[t].pc,
         Meets(t, there, pc, here)
  PROVE  \E p \in Processes : \E k, m \in ProcRecord : \E w, n \in WorkerRecord :
           k.pc = there /\ Met(t, pc, here, p, k, m, w, n)
<1>0. PipesTyped /\ ProcsOK /\ ThreadsOnce
  BY DEF CallsInv
<1>1. PICK p \in Processes :
        /\ At(p, there) /\ NameOf(proc[p].call) = NameOf(worker[t].call)
        /\ proc' = [proc EXCEPT ![p].pc = pc,
                                ![p].new = IF pc = "idle" THEN NoId ELSE worker[t].new,
                                ![p].call = IF pc = "idle" THEN NoCall ELSE @]
        /\ IF here = "done"
           THEN /\ Becomes(t, IF t = "request" THEN "closed" ELSE "rests", NoCall, NoId)
                /\ mutex' = IF mutex = t THEN "free" ELSE mutex
           ELSE /\ Becomes(t, here, worker[t].call, NoId)
                /\ UNCHANGED mutex
  BY DEF Meets
<1>2. PICK k \in ProcRecord, w \in WorkerRecord : k = proc[p] /\ w = worker[t]
  BY <1>0 DEF PipesTyped
<1>3. w.call.of = p /\ k.call = w.call
  BY <1>1, <1>2, SameName
<1>4. w.pc \in AtWork /\ w.call \in CallRecord /\ AtCall(w, k) /\ WorkOK(w) /\ CallOK(p, k)
  <2>1. w.pc \in AtWork
    BY <1>2 DEF AtWork, Decided
  <2> QED
    BY <1>0, <1>2, <1>3, <2>1, CallsTyped DEF ThreadsOnce, ProcsOK
<1> DEFINE m == [k EXCEPT !.pc = pc, !.new = IF pc = "idle" THEN NoId ELSE w.new,
                          !.call = IF pc = "idle" THEN NoCall ELSE @]
           end == IF here = "done" THEN IF t = "request" THEN "closed" ELSE "rests" ELSE here
           call == IF here = "done" THEN NoCall ELSE w.call
<1>5. /\ m \in ProcRecord /\ m.pc = pc /\ m.fds = k.fds
      /\ m.call = IF pc = "idle" THEN NoCall ELSE k.call
      /\ m.new = IF pc = "idle" THEN NoId ELSE w.new
  BY DEF ProcRecord, WorkerRecord, SomeCall, InCall
<1>6. proc' = [proc EXCEPT ![p] = m]
  BY <1>0, <1>1, <1>2 DEF PipesTyped
<1>7. PICK n \in WorkerRecord :
        worker' = [worker EXCEPT ![t] = n] /\ n.pc = end /\ n.call = call /\ n.new = NoId
  <2>1. Becomes(t, end, call, NoId)
    BY <1>1, <1>2
  <2>2. end \in AtWork \cup {"opens", "reads", "closed", "rests"} /\ call \in SomeCall
    BY <1>4 DEF AtWork, Decided, SomeCall
  <2> HIDE DEF end, call
  <2> QED
    BY <2>1, <2>2, BecomesRecord
<1>8. mutex' = IF here = "done" /\ mutex = t THEN "free" ELSE mutex
  BY <1>1
<1> HIDE DEF m
<1>9. Met(t, pc, here, p, k, m, w, n)
  BY <1>2, <1>3, <1>4, <1>5, <1>6, <1>7, <1>8 DEF Met
<1>10. k.pc = there
  BY <1>1, <1>2 DEF At
<1> QED
  BY <1>2, <1>5, <1>7, <1>9, <1>10

\* The answer, and the data.
Given(w) == IF w.pc = "ok" THEN Transfer(w.call, "done") ELSE "done"

\* An answer meets the caller it is for.
LEMMA ThreadAnswersMeets ==
  ASSUME CallsInv, KeptOnce, ClosedIsFree, Processes \cap SocketIds = {},
         NEW t \in Threads, ThreadAnswers(t), ~NoPipe(t, "response")
  PROVE  \E p \in Processes : \E k, m \in ProcRecord : \E w, n \in WorkerRecord :
           /\ w.pc \in {"ok", "error"} /\ k.pc = "waits"
           /\ Met(t, w.pc, Given(w), p, k, m, w, n)
<1>1. PICK pc, here : pc = worker[t].pc /\ here = Given(worker[t])
  OBVIOUS
<1>2. pc \in {"ok", "error", "idle"} /\ here \in {"done", "read_pipe", "write_pipe"}
  BY <1>1 DEF ThreadAnswers, Given, Transfer
<1>3. Meets(t, "waits", pc, here) /\ worker[t].pc \in {"ok", "error"}
  BY <1>1 DEF ThreadAnswers, Given, Is
<1>4. PICK p \in Processes, k \in ProcRecord, m \in ProcRecord,
           w \in WorkerRecord, n \in WorkerRecord :
        k.pc = "waits" /\ Met(t, pc, here, p, k, m, w, n)
  BY <1>2, <1>3, MeetRecords
<1>5. w = worker[t]
  BY <1>4 DEF Met
<1> QED
  BY <1>1, <1>3, <1>4, <1>5

\* A transfer meets the caller whose data it is.
LEMMA ThreadTransfersMeets ==
  ASSUME CallsInv, KeptOnce, ClosedIsFree, Processes \cap SocketIds = {},
         NEW t \in Threads, ThreadTransfers(t), ~NoPipe(t, worker[t].call.opt)
  PROVE  \E p \in Processes : \E k, m \in ProcRecord : \E w, n \in WorkerRecord :
           /\ w.pc \in {"read_pipe", "write_pipe"} /\ k.pc = w.pc
           /\ Met(t, "idle", "done", p, k, m, w, n)
<1>1. PICK pc : pc = worker[t].pc
  OBVIOUS
<1>2. Meets(t, pc, "idle", "done") /\ worker[t].pc \in {"read_pipe", "write_pipe"}
  BY <1>1 DEF ThreadTransfers
<1>3. PICK p \in Processes, k \in ProcRecord, m \in ProcRecord,
           w \in WorkerRecord, n \in WorkerRecord :
        k.pc = pc /\ Met(t, "idle", "done", p, k, m, w, n)
  BY <1>1, <1>2, MeetRecords
<1>4. w = worker[t]
  BY <1>3 DEF Met
<1> QED
  BY <1>1, <1>2, <1>3, <1>4

\* A thread answers: it meets the caller, or the pipe is not there.
LEMMA ThreadAnswersCalls ==
  ASSUME CallsInv, KeptOnce, ClosedIsFree, Processes \cap SocketIds = {},
         NEW t \in Threads, ThreadAnswers(t)
  PROVE  CallsInv'
<1>1. UNCHANGED <<requests, pipes, pending, ids, usage>> /\ worker[t].pc \in {"ok", "error"}
  BY DEF ThreadAnswers
<1>2. CASE NoPipe(t, "response")
  BY <1>1, <1>2, NoPipeCalls
<1>3. CASE ~NoPipe(t, "response")
  <2>1. PICK p \in Processes, k \in ProcRecord, m \in ProcRecord,
             w \in WorkerRecord, n \in WorkerRecord :
          /\ w.pc \in {"ok", "error"} /\ k.pc = "waits"
          /\ Met(t, w.pc, Given(w), p, k, m, w, n)
    BY <1>3, ThreadAnswersMeets
  <2>2. CallOK(p, m) /\ m.pc # "idle" /\ m.call = k.call
    BY <2>1 DEF Met, CallOK, WorkOK
  <2>3. WorkOK(n) /\ (n.pc \in AtWork => n.call = w.call /\ AtCall(n, m))
    <3>1. \/ Given(w) = "done"
          \/ w.pc = "ok" /\ Given(w) = "read_pipe" /\ w.call.opt = "read"
          \/ w.pc = "ok" /\ Given(w) = "write_pipe" /\ w.call.opt = "write"
      BY <2>1 DEF Given, Transfer
    <3>2. CASE Given(w) = "done"
      BY <2>1, <3>2 DEF Met, WorkOK, AtWork, Decided
    <3>3. CASE Given(w) # "done"
      <4>1. /\ n.call = w.call /\ n.pc = Given(w) /\ n.new = NoId
            /\ m.pc = w.pc /\ m.call = w.call /\ w.call # NoCall
        BY <2>1, <3>3, NoCallIsNone DEF Met
      <4> QED
        BY <3>1, <3>3, <4>1 DEF WorkOK, AtCall, AtWork, Decided
    <3> QED
      BY <3>2, <3>3
  <2>4. MeetChange(p, t, m, n)
    BY <1>1, <2>1, <2>2, <2>3 DEF Met, MeetChange
  <2> QED
    BY <2>4, MeetStep
<1> QED
  BY <1>2, <1>3

\* A thread transfers data: it meets the caller, or the pipe is not there.
LEMMA ThreadTransfersCalls ==
  ASSUME CallsInv, KeptOnce, ClosedIsFree, Processes \cap SocketIds = {},
         NEW t \in Threads, ThreadTransfers(t)
  PROVE  CallsInv'
<1>1. UNCHANGED <<requests, pipes, pending, ids, usage>> /\ worker[t].pc \in {"read_pipe", "write_pipe"}
  BY DEF ThreadTransfers
<1>2. PICK kind : kind = worker[t].call.opt
  OBVIOUS
<1>3. CASE NoPipe(t, kind)
  BY <1>1, <1>2, <1>3, NoPipeCalls
<1>4. CASE ~NoPipe(t, kind)
  <2>1. PICK p \in Processes, k \in ProcRecord, m \in ProcRecord,
             w \in WorkerRecord, n \in WorkerRecord :
          /\ w.pc \in {"read_pipe", "write_pipe"} /\ k.pc = w.pc
          /\ Met(t, "idle", "done", p, k, m, w, n)
    BY <1>2, <1>4, ThreadTransfersMeets
  <2>2. CallOK(p, m) /\ m.pc = "idle"
    BY <2>1 DEF Met, CallOK
  <2>3. WorkOK(n) /\ n.pc \notin AtWork
    BY <2>1 DEF Met, WorkOK, AtWork, Decided
  <2>4. MeetChange(p, t, m, n)
    BY <1>1, <2>1, <2>2, <2>3 DEF Met, MeetChange
  <2> QED
    BY <2>4, MeetStep
<1> QED
  BY <1>3, <1>4

\* Every step keeps the calls in their places.
LEMMA StutterCalls ==
  ASSUME CallsInv, UNCHANGED RequestVars
  PROVE  CallsInv'
  BY DEF RequestVars, CallsInv, PipesTyped, ProcsOK, At, QueuedOnce, PendingOnce, ThreadsOnce,
         Queued, Pending, With

\* Every step keeps CallsInv.
LEMMA CallsStep ==
  ASSUME CallsInv, KeptOnce, ClosedIsFree, Processes \cap SocketIds = {}, RequestNext
  PROVE  CallsInv'
<1>1. ASSUME NEW p \in Processes, NEW opt \in usage.calls, CallStarts(p, opt) PROVE CallsInv'
  BY <1>1, CallStartsCalls
<1>2. ASSUME NEW p \in Processes,
             RequestPipeOpened(p) \/ ProcessGoesOn(p) \/ ProcessDies(p)
      PROVE  CallsInv'
  BY <1>2, RequestPipeOpenedCalls, RequestWrittenCalls, RequestPipeClosedCalls,
     ResponsePipeMadeCalls, AnswerTakenCalls, ProcessDiesCalls DEF ProcessGoesOn
<1>3. ASSUME DaemonGoesOn PROVE CallsInv'
  BY <1>3, DaemonOpenedCalls, DaemonReadsCalls, DaemonFindsNothingCalls, DaemonClosesCalls,
     DaemonDecidesCalls, DaemonLoopsCalls DEF DaemonGoesOn
<1>4. ASSUME NEW c \in pending, TcpEnds(c) PROVE CallsInv'
  BY <1>4, TcpEndsCalls
<1>5. ASSUME NEW id \in SocketIds, IdFreed(id) PROVE CallsInv'
  BY <1>5, IdFreedCalls
<1>6. ASSUME NEW t \in Threads, ThreadAnswers(t) \/ ThreadTransfers(t) PROVE CallsInv'
  BY <1>6, ThreadAnswersCalls, ThreadTransfersCalls
<1> QED
  BY <1>1, <1>2, <1>3, <1>4, <1>5, <1>6 DEF RequestNext

\* MissingPipe follows: only reads and writes make their pipes too late.
LEMMA CallsGiveMissingPipe ==
  ASSUME CallsInv
  PROVE  MissingPipe
<1> SUFFICES ASSUME NEW t \in Threads, worker[t].pc = "crashed"
             PROVE  worker[t].call.opt \in {"socket", "bind", "write"}
  BY DEF MissingPipe, Is
<1> QED
  BY DEF CallsInv, ThreadsOnce, AtCall, AtWork, Decided

-----------------------------------------------------------------------------
(***************************************************************************)
(* The ids: who has them, and that they suffice                            *)
(***************************************************************************)
\* Fewer ids in use and fewer processes waiting leave more room.
LEMMA RoomKept ==
  ASSUME RoomLeft, Waiting' \subseteq Waiting, ids' \subseteq ids, ids \subseteq SocketIds,
         Alive' => Alive
  PROVE  RoomLeft'
<1>1. IsFiniteSet(ids) /\ IsFiniteSet(Waiting) /\ IsFiniteSet(SocketIds)
  BY RequestAssumption, FS_Subset DEF Waiting
<1>2. /\ Cardinality(ids) \in Nat /\ Cardinality(Waiting) \in Nat
      /\ Cardinality(SocketIds) \in Nat
      /\ Cardinality(ids') \in Nat /\ Cardinality(ids') <= Cardinality(ids)
      /\ Cardinality(Waiting') \in Nat /\ Cardinality(Waiting') <= Cardinality(Waiting)
  BY <1>1, FS_Subset, FS_CardinalityType
<1> QED
  BY <1>2 DEF RoomLeft

\* A step that gives no id away.
LEMMA NothingGiven ==
  ASSUME CallsInv, OwnInv, LockOK', ClosedIsFree',
         \A p \in Processes : Kept(p)' \subseteq Kept(p) /\ proc'[p].new \in {proc[p].new, NoId},
         \A t \in Threads : worker'[t].new \in {worker[t].new, NoId},
         ids' = ids, Waiting' \subseteq Waiting, Alive' => Alive
  PROVE  OwnInv'
<1>1. LockOK /\ KeptOnce /\ NewOnce /\ UnderwayOnce /\ ClosedIsFree /\ RoomLeft
  BY DEF OwnInv
<1>2. KeptOnce'
  <2> SUFFICES ASSUME NEW p \in Processes
               PROVE  /\ Kept(p)' \subseteq ids
                      /\ \A q \in Processes : p # q => Kept(p)' \cap Kept(q)' = {}
    BY DEF KeptOnce
  <2> QED
    BY <1>1 DEF KeptOnce
<1>3. NewOnce'
  BY <1>1 DEF NewOnce
<1>4. UnderwayOnce'
  BY <1>1 DEF UnderwayOnce
<1>5. RoomLeft'
  <2>1. ids \subseteq SocketIds /\ ids' \subseteq ids
    BY DEF CallsInv, PipesTyped
  <2> QED
    BY <1>1, <2>1, RoomKept
<1> QED
  BY <1>2, <1>3, <1>4, <1>5 DEF OwnInv

\* A process goes on without a word of the daemon.
LEMMA OutwardOwn ==
  ASSUME CallsInv, OwnInv, NEW p \in Processes, NEW pc \in InCall, Outward(proc[p], pc),
         Goes(p, pc), UNCHANGED <<worker, mutex, ids>>
  PROVE  OwnInv'
<1>1. worker' = worker /\ mutex' = mutex /\ ids' = ids
  OBVIOUS
<1>2. PICK k \in ProcRecord, m \in ProcRecord :
        /\ k = proc[p] /\ proc' = [proc EXCEPT ![p] = m]
        /\ m.pc = pc /\ m.call = k.call /\ m.new = k.new /\ m.fds = k.fds
  BY GoesChanges DEF CallsInv
<1>3. /\ proc'[p] = m /\ \A q \in Processes : q # p => proc'[q] = proc[q]
  BY <1>2 DEF CallsInv, PipesTyped
<1>4. LockOK' /\ ClosedIsFree' /\ (Alive' => Alive)
  BY <1>1 DEF OwnInv, LockOK, ClosedIsFree, Alive, Is
<1>5. \A r : KeptBy(m, r) = KeptBy(k, r)
  BY <1>2 DEF KeptBy, LetGo, Outward, Asked
<1>6. \A q \in Processes : Kept(q)' = Kept(q) /\ proc'[q].new = proc[q].new
  BY <1>1, <1>2, <1>3, <1>5 DEF Kept
<1>7. Waiting' \subseteq Waiting
  BY <1>1, <1>2, <1>3 DEF Waiting, Waits, Served
<1> QED
  BY <1>1, <1>4, <1>6, <1>7, NothingGiven

\* The request thread goes on without a verdict.
LEMMA RequestThreadOwn ==
  ASSUME CallsInv, OwnInv, NEW m \in WorkerRecord, worker' = [worker EXCEPT !["request"] = m],
         worker["request"].pc \notin Decided, m.pc \notin Decided \cup {"rests"}, m.new = NoId,
         UNCHANGED <<proc, mutex, ids>>
  PROVE  OwnInv'
<1>1. proc' = proc /\ mutex' = mutex /\ ids' = ids
  OBVIOUS
<1>2. worker'["request"] = m /\ worker'["tcp"] = worker["tcp"] /\ Threads = {"request", "tcp"}
  BY DEF CallsInv, PipesTyped, Threads
<1>3. worker["request"].new = NoId
  BY <1>2 DEF CallsInv, ThreadsOnce, WorkOK, Decided
<1>4. Alive' => Alive
  BY <1>2 DEF Alive, Is, Decided
<1>5. LockOK' /\ ClosedIsFree'
  BY <1>1, <1>2, <1>4 DEF OwnInv, LockOK, ClosedIsFree
<1>6. \A k : KeptBy(k, m) = KeptBy(k, worker["request"])
  BY DEF KeptBy, LetGo, Closes
<1>7. \A q \in Processes : Kept(q)' = Kept(q)
  BY <1>1, <1>2, <1>6 DEF Kept
<1>8. \A t \in Threads : worker'[t].new = worker[t].new
  BY <1>2, <1>3
<1>9. Waiting' \subseteq Waiting
  BY <1>1, <1>2, <1>3 DEF Waiting, Served
<1> QED
  BY <1>1, <1>4, <1>5, <1>7, <1>8, <1>9, NothingGiven

\* Steps of the request thread between two requests touch no id.
LEMMA IdleDaemonOwn ==
  ASSUME CallsInv, OwnInv, DaemonOpened \/ DaemonFindsNothing \/ DaemonLoops
  PROVE  OwnInv'
<1>1. PICK pc \in {"opens", "reads"} : Becomes("request", pc, NoCall, NoId)
  BY DEF DaemonOpened, DaemonFindsNothing, DaemonLoops
<1>2. /\ "request" \in Threads /\ pc \in AtWork \cup {"opens", "reads", "closed", "rests"}
      /\ NoCall \in SomeCall /\ NoId \in SocketIds \cup {NoId}
  BY DEF Threads, SomeCall
<1>3. PICK m \in WorkerRecord :
        worker' = [worker EXCEPT !["request"] = m] /\ m.pc = pc /\ m.call = NoCall /\ m.new = NoId
  BY <1>1, <1>2, BecomesRecord
<1>4. worker["request"].pc \notin Decided /\ m.pc \notin Decided \cup {"rests"}
  BY <1>3 DEF DaemonOpened, DaemonFindsNothing, DaemonLoops, Is, Decided
<1>5. UNCHANGED <<proc, mutex, ids>>
  BY DEF DaemonOpened, DaemonFindsNothing, DaemonLoops
<1> QED
  BY <1>3, <1>4, <1>5, RequestThreadOwn

\* Taking a request touches no id: none is allotted before it is decided.
LEMMA DaemonTakesOwn ==
  ASSUME CallsInv, OwnInv, DaemonReads \/ DaemonCloses
  PROVE  OwnInv'
<1>1. PICK pc \in {"closes", "locks"}, c \in CallRecord : Becomes("request", pc, c, NoId)
  <2>1. CASE DaemonReads
    <3>1. Head(requests) \in CallRecord
      BY <2>1, HeadTailProperties DEF DaemonReads, CallsInv, PipesTyped
    <3> QED
      BY <2>1, <3>1 DEF DaemonReads
  <2>2. CASE DaemonCloses
    <3>1. worker["request"].call \in CallRecord
      BY <2>2, CallsTyped DEF DaemonCloses, Is, CallsInv, Threads, AtWork
    <3> QED
      BY <2>2, <3>1 DEF DaemonCloses
  <2> QED
    BY <2>1, <2>2
<1>2. /\ "request" \in Threads /\ pc \in AtWork \cup {"opens", "reads", "closed", "rests"}
      /\ c \in SomeCall /\ NoId \in SocketIds \cup {NoId}
  BY DEF Threads, SomeCall, AtWork
<1>3. PICK m \in WorkerRecord :
        worker' = [worker EXCEPT !["request"] = m] /\ m.pc = pc /\ m.call = c /\ m.new = NoId
  BY <1>1, <1>2, BecomesRecord
<1>4. worker["request"].pc \notin Decided /\ m.pc \notin Decided \cup {"rests"}
  BY <1>3 DEF DaemonReads, DaemonCloses, Is, Decided
<1>5. UNCHANGED <<proc, mutex, ids>>
  BY DEF DaemonReads, DaemonCloses
<1> QED
  BY <1>3, <1>4, <1>5, RequestThreadOwn

\* The daemon that dies of a missing pipe gives nothing away.
LEMMA NoPipeOwn ==
  ASSUME CallsInv, OwnInv, NEW t \in Threads, NEW kind, NoPipe(t, kind),
         worker[t].pc \in {"ok", "error", "read_pipe", "write_pipe"}, ids' = ids
  PROVE  OwnInv'
<1>1. proc' = proc /\ mutex' = mutex
  BY DEF NoPipe
<1>2. PICK w \in WorkerRecord : w = worker[t]
  BY DEF CallsInv, PipesTyped
<1>3. PICK m \in WorkerRecord :
        worker' = [worker EXCEPT ![t] = m] /\ m.pc = "crashed" /\ m.call = w.call /\ m.new = NoId
  <2>1. w.call \in SomeCall /\ Becomes(t, "crashed", w.call, NoId) /\ "crashed" \in AtWork
    BY <1>2 DEF NoPipe, WorkerRecord, AtWork, Decided
  <2> QED
    BY <2>1, BecomesRecord
<1>4. worker'[t] = m /\ \A u \in Threads : u # t => worker'[u] = worker[u]
  BY <1>3 DEF CallsInv, PipesTyped
<1>5. "request" \in Threads /\ "tcp" \in Threads
  BY DEF Threads
<1>6. ~Alive'
  BY <1>3, <1>4 DEF Alive, Is
<1>7. w.pc \in Decided /\ m.pc \in Decided
  BY <1>2, <1>3 DEF Decided
<1>8. LockOK' /\ ClosedIsFree'
  <2>1. LockOK'
    BY <1>3, <1>4, <1>5, <1>6, <1>7 DEF OwnInv, LockOK, Decided
  <2>2. ClosedIsFree'
    BY <1>2, <1>3, <1>4, <1>5, <1>7 DEF OwnInv, ClosedIsFree
  <2> QED
    BY <2>1, <2>2
<1>9. \A q \in Processes : Kept(q)' = Kept(q)
  <2>1. \A k : KeptBy(k, m) = KeptBy(k, w)
    BY <1>3, <1>7 DEF KeptBy, LetGo, Closes
  <2> QED
    BY <1>1, <1>2, <1>4, <1>5, <2>1 DEF Kept
<1>10. KeptOnce' /\ NewOnce' /\ UnderwayOnce'
  <2>1. \A u \in Threads : worker'[u].new = worker[u].new \/ worker'[u].new = NoId
    BY <1>3, <1>4
  <2>2. KeptOnce'
    BY <1>9 DEF OwnInv, KeptOnce
  <2>3. NewOnce'
    BY <1>1, <1>9 DEF OwnInv, NewOnce
  <2>4. UnderwayOnce'
    BY <1>1, <1>9, <2>1 DEF OwnInv, UnderwayOnce
  <2> QED
    BY <2>2, <2>3, <2>4
<1>11. RoomLeft'
  BY <1>6 DEF RoomLeft
<1> QED
  BY <1>8, <1>10, <1>11 DEF OwnInv

\* freeSocket_pthread gives back an id nobody has.
LEMMA IdFreedOwn ==
  ASSUME CallsInv, OwnInv, NEW id \in SocketIds, IdFreed(id)
  PROVE  OwnInv'
<1>1. /\ proc' = proc /\ worker' = worker /\ mutex' = mutex /\ ids' = ids \ {id}
      /\ \A p \in Processes : id \notin proc[p].fds /\ proc[p].new # id
      /\ \A t \in Threads : worker[t].new # id
  BY DEF IdFreed
<1>2. LockOK /\ KeptOnce /\ NewOnce /\ UnderwayOnce /\ ClosedIsFree /\ RoomLeft
  BY DEF OwnInv
<1>3. \A p \in Processes : Kept(p)' = Kept(p) /\ id \notin Kept(p)
  BY <1>1 DEF Kept, KeptBy
<1>4. LockOK' /\ ClosedIsFree'
  BY <1>1, <1>2 DEF LockOK, ClosedIsFree, Alive, Is
<1>5. KeptOnce'
  BY <1>1, <1>2, <1>3 DEF KeptOnce
<1>6. NewOnce' /\ UnderwayOnce'
  BY <1>1, <1>2, <1>3 DEF NewOnce, UnderwayOnce
<1>7. RoomLeft'
  <2>1. /\ Waiting' \subseteq Waiting /\ ids' \subseteq ids /\ ids \subseteq SocketIds
        /\ (Alive' => Alive)
    BY <1>1 DEF Waiting, Served, Alive, Is, CallsInv, PipesTyped
  <2> QED
    BY <1>2, <2>1, RoomKept
<1> QED
  BY <1>4, <1>5, <1>6, <1>7 DEF OwnInv

\* A new socket joins the list of its process, a closed one leaves it.
LEMMA AnswerTakenOwn ==
  ASSUME CallsInv, OwnInv, NEW p \in Processes, AnswerTaken(p)
  PROVE  OwnInv'
<1>0. LockOK /\ KeptOnce /\ NewOnce /\ UnderwayOnce /\ ClosedIsFree /\ RoomLeft
  BY DEF OwnInv
<1>1. PICK k \in ProcRecord, m \in ProcRecord :
        /\ k = proc[p] /\ proc' = [proc EXCEPT ![p] = m]
        /\ k.pc \in {"ok", "error"} /\ k.call \in CallRecord /\ CallOK(p, k)
        /\ m.pc = IF k.pc = "ok" THEN Transfer(k.call, "idle") ELSE "idle"
        /\ m.call = IF m.pc = "idle" THEN NoCall ELSE k.call
        /\ m.new = NoId
        /\ m.fds = (IF k.call.opt = "close" THEN k.fds \ {k.call.id} ELSE k.fds)
                     \cup ({k.new} \ {NoId})
        /\ pipes' = IF m.pc = "write_pipe" THEN pipes \cup {Pipe("write", k.call)} ELSE pipes
  BY AnswerChanges
<1>2. proc'[p] = m /\ \A q \in Processes : q # p => proc'[q] = proc[q]
  BY <1>1 DEF CallsInv, PipesTyped
<1>3. worker' = worker /\ mutex' = mutex /\ ids' = ids
  BY DEF AnswerTaken
<1>4. m.call.opt \in {"none", "read", "write"}
  BY <1>1, NoCallIsNone DEF Transfer
<1>5. \A r : KeptBy(m, r) = KeptBy(k, r) \cup ({k.new} \ {NoId})
  BY <1>1, <1>4 DEF KeptBy, LetGo
<1>6. /\ Kept(p)' = Kept(p) \cup ({proc[p].new} \ {NoId})
      /\ \A q \in Processes : q # p => Kept(q)' = Kept(q)
  BY <1>1, <1>2, <1>3, <1>5 DEF Kept
<1>7. LockOK' /\ ClosedIsFree' /\ (Alive' => Alive)
  BY <1>0, <1>3 DEF LockOK, ClosedIsFree, Alive, Is
<1>8. KeptOnce'
  <2>1. proc[p].new # NoId => proc[p].new \in ids /\ \A q \in Processes : proc[p].new \notin Kept(q)
    BY <1>0 DEF NewOnce
  <2> SUFFICES ASSUME NEW q \in Processes
               PROVE  /\ Kept(q)' \subseteq ids
                      /\ \A r \in Processes : q # r => Kept(q)' \cap Kept(r)' = {}
    BY <1>3 DEF KeptOnce
  <2> QED
    BY <1>0, <1>6, <2>1 DEF KeptOnce
<1>9. NewOnce'
  <2> SUFFICES ASSUME NEW q \in Processes, proc'[q].new # NoId
               PROVE  /\ proc'[q].new \in ids
                      /\ \A r \in Processes :
                           /\ proc'[q].new \notin Kept(r)'
                           /\ r # q => proc'[r].new # proc'[q].new
    BY <1>3 DEF NewOnce
  <2>1. q # p /\ proc'[q].new = proc[q].new
    BY <1>1, <1>2
  <2> QED
    BY <1>0, <1>1, <1>2, <1>6, <2>1 DEF NewOnce
<1>10. UnderwayOnce'
  <2> SUFFICES ASSUME NEW t \in Threads, worker[t].new # NoId
               PROVE  /\ worker[t].new \in ids
                      /\ \A r \in Processes :
                           worker[t].new \notin Kept(r)' /\ proc'[r].new # worker[t].new
                      /\ \A u \in Threads \ {t} : worker[u].new # worker[t].new
    BY <1>3 DEF UnderwayOnce
  <2> QED
    BY <1>0, <1>1, <1>2, <1>6 DEF UnderwayOnce
<1>11. RoomLeft'
  <2>1. Waiting' \subseteq Waiting
    BY <1>2, <1>3, <1>4 DEF Waiting, Waits, Served, Allocating
  <2>2. ids' \subseteq ids /\ ids \subseteq SocketIds
    BY <1>3 DEF CallsInv, PipesTyped
  <2> QED
    BY <1>0, <1>7, <2>1, <2>2, RoomKept
<1> QED
  BY <1>7, <1>8, <1>9, <1>10, <1>11 DEF OwnInv

\* A process that asks for an id leaves room for the others.
LEMMA CallStartsOwn ==
  ASSUME CallsInv, OwnInv, NEW p \in Processes, NEW opt \in usage.calls, CallStarts(p, opt)
  PROVE  OwnInv'
<1>0. PipesTyped /\ CallOK(p, proc[p]) /\ RoomLeft
  BY DEF CallsInv, ProcsOK, OwnInv
<1>1. PICK k \in ProcRecord : k = proc[p]
  BY <1>0 DEF PipesTyped
<1>2. k.pc = "idle" /\ k.call = NoCall /\ k.new = NoId
  BY <1>0, <1>1 DEF CallStarts, At, CallOK
<1>3. PICK id, c : /\ c = [of |-> p, opt |-> opt, id |-> id]
                   /\ proc' = [proc EXCEPT ![p].pc = "requests", ![p].call = c]
  BY <1>1 DEF CallStarts
<1>4. c.of = p /\ c.opt = opt
  BY <1>3
<1> DEFINE m == [k EXCEPT !.pc = "requests", !.call = c]
<1>5. m.pc = "requests" /\ m.call = c /\ m.new = NoId /\ m.fds = k.fds
  BY <1>2 DEF ProcRecord
<1>6. proc'[p] = m /\ \A q \in Processes : q # p => proc'[q] = proc[q]
  BY <1>0, <1>1, <1>3 DEF PipesTyped
<1> HIDE DEF m
<1>7. worker' = worker /\ mutex' = mutex /\ ids' = ids
  BY DEF CallStarts
<1>8. LockOK' /\ ClosedIsFree' /\ (Alive' => Alive)
  BY <1>7 DEF OwnInv, LockOK, ClosedIsFree, Alive, Is
<1>9. ~LetGo(k, worker["request"]) /\ ~LetGo(m, worker["request"])
  <2>1. ~With("request", p)
    BY <1>1, <1>2, NotWithDaemon DEF Threads, Asked
  <2> QED
    BY <1>2, <1>4, <1>5, <2>1, NoCallIsNone DEF LetGo, Closes, With, AtWork
<1>10. \A q \in Processes : Kept(q)' = Kept(q) /\ proc'[q].new = proc[q].new
  BY <1>1, <1>2, <1>5, <1>6, <1>7, <1>9 DEF Kept, KeptBy
<1>11. CASE opt \notin Allocating
  <2>1. Waiting' \subseteq Waiting
    BY <1>4, <1>5, <1>6, <1>7, <1>11 DEF Waiting, Waits, Served
  <2> QED
    BY <1>7, <1>8, <1>10, <2>1, NothingGiven
<1>12. CASE opt \in Allocating
  <2>1. Cardinality(ids) + Cardinality(Asking) < Cardinality(SocketIds)
    BY <1>12 DEF CallStarts
  <2>2. Waiting' \subseteq Asking \cup {p} /\ p \notin Asking
    BY <1>1, <1>2, <1>6, NoCallIsNone DEF Waiting, Waits, Asking, Allocating
  <2>3. IsFiniteSet(Asking) /\ IsFiniteSet(ids) /\ IsFiniteSet(SocketIds)
    BY <1>0, RequestAssumption, FS_Subset DEF Asking, PipesTyped
  <2>4. IsFiniteSet(Asking \cup {p}) /\ Cardinality(Asking \cup {p}) = Cardinality(Asking) + 1
    BY <2>2, <2>3, FS_AddElement
  <2>5. Cardinality(Waiting') <= Cardinality(Asking) + 1 /\ IsFiniteSet(Waiting')
    BY <2>2, <2>4, FS_Subset
  <2>6. /\ Cardinality(Waiting') \in Nat /\ Cardinality(Asking) \in Nat
        /\ Cardinality(ids) \in Nat /\ Cardinality(SocketIds) \in Nat
    BY <2>3, <2>5, FS_CardinalityType
  <2>7. RoomLeft'
    BY <1>7, <2>1, <2>5, <2>6 DEF RoomLeft
  <2>8. KeptOnce' /\ NewOnce' /\ UnderwayOnce'
    <3>1. KeptOnce'
      BY <1>7, <1>10 DEF OwnInv, KeptOnce
    <3>2. NewOnce'
      BY <1>7, <1>10 DEF OwnInv, NewOnce
    <3>3. UnderwayOnce'
      BY <1>7, <1>10 DEF OwnInv, UnderwayOnce
    <3> QED
      BY <3>1, <3>2, <3>3
  <2> QED
    BY <1>8, <2>7, <2>8 DEF OwnInv
<1> QED
  BY <1>11, <1>12

\* What another process keeps does not depend on a thread at the call of p.
LEMMA KeptOfOthers ==
  ASSUME NEW p, NEW q, q # p, NEW l, CallOK(q, l),
         NEW r, r.pc \notin Decided \/ r.call.of = p,
         NEW s, s.pc \notin Decided \/ s.call.of = p
  PROVE  KeptBy(l, r) = KeptBy(l, s)
<1>1. l.call.opt = "close" => l.call.of = q
  BY DEF CallOK, NoCall
<1> QED
  BY <1>1 DEF KeptBy, LetGo, Closes

\* A thread and the process it meets: the lock, and the other processes.
Hands(w, here) ==
    /\ here \in {"done", "read_pipe", "write_pipe"} /\ w.pc \in Decided \ {"crashed"}
    /\ here = "done" \/ w.call.opt \notin {"socket", "listen", "close"}

\* When a thread meets a process, what others have stays as it was.
LEMMA MetOthers ==
  ASSUME CallsInv, OwnInv, NEW t \in Threads, NEW p \in Processes, NEW pc, NEW here,
         NEW k \in ProcRecord, NEW m \in ProcRecord, NEW w \in WorkerRecord, NEW n \in WorkerRecord,
         Met(t, pc, here, p, k, m, w, n), Hands(w, here)
  PROVE  /\ LockOK' /\ (Alive' => Alive)
         /\ n.pc \in Decided => n.call = w.call /\ w.call.opt # "close"
         /\ proc'[p] = m /\ worker'[t] = n
         /\ \A q \in Processes : q # p => proc'[q] = proc[q] /\ Kept(q)' = Kept(q)
         /\ \A u \in Threads : u # t => worker'[u] = worker[u]
<1>1. /\ k = proc[p] /\ w = worker[t] /\ w.call.of = p
      /\ proc' = [proc EXCEPT ![p] = m] /\ worker' = [worker EXCEPT ![t] = n]
      /\ n.pc = IF here = "done" THEN IF t = "request" THEN "closed" ELSE "rests" ELSE here
      /\ n.call = IF here = "done" THEN NoCall ELSE w.call
      /\ mutex' = IF here = "done" /\ mutex = t THEN "free" ELSE mutex
  BY DEF Met
<1>2. /\ proc'[p] = m /\ worker'[t] = n
      /\ \A q \in Processes : q # p => proc'[q] = proc[q]
      /\ \A u \in Threads : u # t => worker'[u] = worker[u]
  BY <1>1 DEF CallsInv, PipesTyped
<1>3. Threads = {"request", "tcp"} /\ LockOK
  BY DEF Threads, OwnInv
<1>4. n.pc # "crashed" /\ (n.pc \in Decided => here # "done" /\ n.call = w.call)
  BY <1>1 DEF Hands, Decided
<1>5. Alive' => Alive
  BY <1>1, <1>2, <1>4 DEF Alive, Is, Hands
<1>6. LockOK'
  <2>1. CASE t = "request"
    <3>1. worker'["request"] = n /\ worker'["tcp"] = worker["tcp"] /\ n.pc # "rests"
      BY <1>1, <1>2, <1>3, <2>1 DEF Hands
    <3>2. Alive' /\ n.pc \in Decided => mutex = "request" /\ mutex' = "request"
      BY <1>1, <1>3, <1>4, <1>5, <2>1 DEF LockOK, Hands
    <3>3. Alive' /\ worker["tcp"].pc \in Decided => mutex = "tcp" /\ mutex' = "tcp"
      BY <1>1, <1>3, <1>5, <2>1 DEF LockOK
    <3> QED
      BY <1>3, <3>1, <3>2, <3>3 DEF LockOK
  <2>2. CASE t = "tcp"
    <3>1. worker'["tcp"] = n /\ worker'["request"] = worker["request"] /\ n.pc \in Decided \cup {"rests"}
      BY <1>1, <1>2, <1>3, <2>2 DEF Hands, Decided
    <3>2. Alive' /\ n.pc \in Decided => mutex = "tcp" /\ mutex' = "tcp"
      BY <1>1, <1>3, <1>4, <1>5, <2>2 DEF LockOK, Hands
    <3>3. mutex = "request" => mutex' = "request"
      BY <1>1, <2>2
    <3> QED
      BY <1>3, <1>5, <3>1, <3>2, <3>3 DEF LockOK
  <2> QED
    BY <1>3, <2>1, <2>2
<1>7. \A q \in Processes : q # p => Kept(q)' = Kept(q)
  <2> SUFFICES ASSUME NEW q \in Processes, q # p
               PROVE  KeptBy(proc[q], worker'["request"]) = KeptBy(proc[q], worker["request"])
    BY <1>2 DEF Kept
  <2>1. CASE t = "request"
    <3>1. (n.pc \notin Decided \/ n.call.of = p) /\ (w.pc \notin Decided \/ w.call.of = p)
      BY <1>1, <1>4 DEF Hands
    <3>2. CallOK(q, proc[q])
      BY DEF CallsInv, ProcsOK
    <3>3. KeptBy(proc[q], n) = KeptBy(proc[q], w)
      BY <3>1, <3>2, KeptOfOthers
    <3> QED
      BY <1>1, <1>2, <2>1, <3>3
  <2>2. CASE t # "request"
    BY <1>2, <1>3, <2>2
  <2> QED
    BY <2>1, <2>2
<1>8. n.pc \in Decided => w.call.opt # "close"
  BY <1>4 DEF Hands
<1> QED
  BY <1>2, <1>4, <1>5, <1>6, <1>7, <1>8

\* With an answer a new id goes from the thread to the caller.
LEMMA ThreadAnswersOwn ==
  ASSUME CallsInv, OwnInv, Processes \cap SocketIds = {}, NEW t \in Threads, ThreadAnswers(t)
  PROVE  OwnInv'
<1>0. LockOK /\ KeptOnce /\ NewOnce /\ UnderwayOnce /\ ClosedIsFree /\ RoomLeft
  BY DEF OwnInv
<1>1. ids' = ids /\ worker[t].pc \in {"ok", "error"}
  BY DEF ThreadAnswers
<1>2. CASE NoPipe(t, "response")
  BY <1>1, <1>2, NoPipeOwn
<1>3. CASE ~NoPipe(t, "response")
  <2>1. PICK p \in Processes, k \in ProcRecord, m \in ProcRecord,
             w \in WorkerRecord, n \in WorkerRecord :
          /\ w.pc \in {"ok", "error"} /\ k.pc = "waits"
          /\ Met(t, w.pc, Given(w), p, k, m, w, n)
    BY <1>0, <1>3, ThreadAnswersMeets
  <2>2. /\ k = proc[p] /\ w = worker[t] /\ w.call = k.call /\ w.call.of = p
        /\ m.pc = w.pc /\ m.fds = k.fds /\ m.call = k.call /\ m.new = w.new
        /\ n.new = NoId /\ k.new = NoId
    BY <2>1 DEF Met, CallOK
  <2>3. Hands(w, Given(w))
    BY <2>1 DEF Hands, Given, Transfer, Decided
  <2>4. /\ LockOK' /\ (Alive' => Alive)
        /\ n.pc \in Decided => n.call = w.call /\ w.call.opt # "close"
        /\ proc'[p] = m /\ worker'[t] = n
        /\ \A q \in Processes : q # p => proc'[q] = proc[q] /\ Kept(q)' = Kept(q)
        /\ \A u \in Threads : u # t => worker'[u] = worker[u]
    BY <2>1, <2>3, MetOthers
  <2>5. ClosedIsFree'
    BY <1>0, <1>1, <2>4 DEF ClosedIsFree, Threads
  <2>6. Kept(p)' \subseteq Kept(p)
    <3>1. \A r, s : KeptBy(m, r) \subseteq KeptBy(k, s)
      BY <2>1, <2>2 DEF KeptBy, LetGo
    <3> QED
      BY <2>2, <2>4, <3>1 DEF Kept
  <2>7. \A q \in Processes : Kept(q)' \subseteq Kept(q)
    BY <2>4, <2>6
  <2>8. KeptOnce'
    BY <1>0, <1>1, <2>7 DEF KeptOnce
  <2>9. w.new # NoId =>
          /\ w.new \in ids
          /\ \A q \in Processes : w.new \notin Kept(q) /\ proc[q].new # w.new
          /\ \A u \in Threads \ {t} : worker[u].new # w.new
    BY <1>0, <2>2 DEF UnderwayOnce
  <2>10. NewOnce'
    <3> SUFFICES ASSUME NEW q \in Processes, proc'[q].new # NoId
                 PROVE  /\ proc'[q].new \in ids
                        /\ \A r \in Processes :
                             /\ proc'[q].new \notin Kept(r)
                             /\ r # q => proc'[r].new # proc'[q].new
      BY <1>1, <2>7 DEF NewOnce
    <3>1. CASE q = p
      BY <2>2, <2>4, <2>9, <3>1
    <3>2. CASE q # p
      BY <1>0, <2>2, <2>4, <2>9, <3>2 DEF NewOnce
    <3> QED
      BY <3>1, <3>2
  <2>11. UnderwayOnce'
    <3> SUFFICES ASSUME NEW u \in Threads, worker'[u].new # NoId
                 PROVE  /\ worker'[u].new \in ids
                        /\ \A r \in Processes :
                             worker'[u].new \notin Kept(r) /\ proc'[r].new # worker'[u].new
                        /\ \A v \in Threads \ {u} : worker'[v].new # worker'[u].new
      BY <1>1, <2>7 DEF UnderwayOnce
    <3>1. u # t /\ worker'[u] = worker[u]
      BY <2>2, <2>4
    <3>2. w.new # worker[u].new
      BY <2>9, <3>1
    <3> QED
      BY <1>0, <2>2, <2>4, <3>1, <3>2 DEF UnderwayOnce
  <2>12. RoomLeft'
    <3>1. Waiting' \subseteq Waiting
      <4> SUFFICES ASSUME NEW q \in Processes, Waits(proc'[q]), ~Served(q)'
                   PROVE  Waits(proc[q]) /\ ~Served(q)
        BY DEF Waiting
      <4>1. CASE q = p
        <5>1. w.new = NoId
          BY <2>2, <2>4, <4>1 DEF Waits
        <5> QED
          BY <2>2, <2>4, <4>1, <5>1 DEF Waits, Served
      <4>2. CASE q # p
        BY <2>2, <2>4, <4>2 DEF Served
      <4> QED
        BY <4>1, <4>2
    <3> QED
      BY <1>0, <1>1, <2>4, <3>1, RoomKept DEF CallsInv, PipesTyped
  <2> QED
    BY <2>4, <2>5, <2>8, <2>10, <2>11, <2>12 DEF OwnInv
<1> QED
  BY <1>2, <1>3

\* A transfer of data changes the owner of no id.
LEMMA ThreadTransfersOwn ==
  ASSUME CallsInv, OwnInv, Processes \cap SocketIds = {}, NEW t \in Threads, ThreadTransfers(t)
  PROVE  OwnInv'
<1>0. LockOK /\ KeptOnce /\ NewOnce /\ UnderwayOnce /\ ClosedIsFree /\ RoomLeft
  BY DEF OwnInv
<1>1. ids' = ids /\ worker[t].pc \in {"read_pipe", "write_pipe"}
  BY DEF ThreadTransfers
<1>2. PICK kind : kind = worker[t].call.opt
  OBVIOUS
<1>3. CASE NoPipe(t, kind)
  BY <1>1, <1>3, NoPipeOwn
<1>4. CASE ~NoPipe(t, kind)
  <2>1. PICK p \in Processes, k \in ProcRecord, m \in ProcRecord,
             w \in WorkerRecord, n \in WorkerRecord :
          /\ w.pc \in {"read_pipe", "write_pipe"} /\ k.pc = w.pc
          /\ Met(t, "idle", "done", p, k, m, w, n)
    BY <1>0, <1>2, <1>4, ThreadTransfersMeets
  <2>2. /\ k = proc[p] /\ w = worker[t] /\ w.call = k.call /\ w.call.of = p
        /\ m.pc = "idle" /\ m.fds = k.fds /\ m.call = NoCall /\ m.new = NoId
        /\ n.new = NoId /\ n.pc \in {"closed", "rests"} /\ k.call.opt \in {"read", "write"}
    BY <2>1 DEF Met, CallOK
  <2>3. Hands(w, "done")
    BY <2>1 DEF Hands, Decided
  <2>4. /\ LockOK' /\ (Alive' => Alive)
        /\ n.pc \in Decided => n.call = w.call /\ w.call.opt # "close"
        /\ proc'[p] = m /\ worker'[t] = n
        /\ \A q \in Processes : q # p => proc'[q] = proc[q] /\ Kept(q)' = Kept(q)
        /\ \A u \in Threads : u # t => worker'[u] = worker[u]
    BY <2>1, <2>3, MetOthers
  <2>5. ClosedIsFree'
    BY <1>0, <1>1, <2>4 DEF ClosedIsFree, Threads
  <2>6. Kept(p)' = Kept(p)
    <3>1. \A r, s : KeptBy(m, r) = KeptBy(k, s)
      BY <2>2 DEF KeptBy, LetGo, NoCall
    <3> QED
      BY <2>2, <2>4, <3>1 DEF Kept
  <2>7. \A q \in Processes : Kept(q)' \subseteq Kept(q) /\ proc'[q].new \in {proc[q].new, NoId}
    BY <2>2, <2>4, <2>6
  <2>8. \A u \in Threads : worker'[u].new \in {worker[u].new, NoId}
    BY <2>2, <2>4
  <2>9. Waiting' \subseteq Waiting
    <3> SUFFICES ASSUME NEW q \in Processes, Waits(proc'[q]), ~Served(q)'
                 PROVE  Waits(proc[q]) /\ ~Served(q)
      BY DEF Waiting
    <3>1. q # p
      BY <2>2, <2>4, NoCallIsNone DEF Waits, Allocating
    <3> QED
      BY <2>2, <2>4, <3>1 DEF Served
  <2> QED
    BY <1>1, <2>4, <2>5, <2>7, <2>8, <2>9, NothingGiven
<1> QED
  BY <1>3, <1>4

\* A process that waits for an id can be given one.
LEMMA FreshId ==
  ASSUME RoomLeft, Alive, ids \subseteq SocketIds, NEW p \in Waiting
  PROVE  (CHOOSE id \in SocketIds \ ids : TRUE) \in SocketIds \ ids
<1>1. IsFiniteSet(ids) /\ IsFiniteSet(Waiting) /\ IsFiniteSet(SocketIds)
  BY RequestAssumption, FS_Subset DEF Waiting
<1>2. Cardinality(ids) \in Nat /\ Cardinality(Waiting) \in Nat /\ Cardinality(SocketIds) \in Nat
  BY <1>1, FS_CardinalityType
<1>3. Cardinality(Waiting) # 0
  BY <1>1, FS_EmptySet
<1>4. Cardinality(ids) < Cardinality(SocketIds)
  BY <1>2, <1>3 DEF RoomLeft
<1>5. ids # SocketIds
  BY <1>2, <1>4
<1>6. \E id : id \in SocketIds \ ids
  BY <1>5
<1> QED
  BY <1>6

\* Thread t takes a new id to process p.
LEMMA IdGiven ==
  ASSUME CallsInv, OwnInv, LockOK', ClosedIsFree', Alive, NEW p \in Waiting, NEW t \in Threads,
         NEW new \in SocketIds \ ids,
         worker'[t].new = new, worker'[t].call.of = p, worker[t].new = NoId,
         \A u \in Threads \ {t} : worker'[u] = worker[u],
         proc' = proc, ids' = ids \cup {new}, \A q \in Processes : Kept(q)' = Kept(q)
  PROVE  OwnInv'
<1>0. LockOK /\ KeptOnce /\ NewOnce /\ UnderwayOnce /\ ClosedIsFree /\ RoomLeft
  BY DEF OwnInv
<1>1. new # NoId /\ ids \subseteq SocketIds
  BY RequestAssumption DEF CallsInv, PipesTyped
<1>2. KeptOnce'
  BY <1>0 DEF KeptOnce
<1>3. NewOnce'
  BY <1>0 DEF NewOnce
<1>4. UnderwayOnce'
  <2> SUFFICES ASSUME NEW u \in Threads, worker'[u].new # NoId
               PROVE  /\ worker'[u].new \in ids'
                      /\ \A q \in Processes :
                           worker'[u].new \notin Kept(q) /\ proc[q].new # worker'[u].new
                      /\ \A v \in Threads \ {u} : worker'[v].new # worker'[u].new
    BY DEF UnderwayOnce
  <2>1. /\ \A q \in Processes : new \notin Kept(q) /\ proc[q].new # new
        /\ \A v \in Threads : worker[v].new # new
    BY <1>0, <1>1 DEF KeptOnce, NewOnce, UnderwayOnce
  <2>2. CASE u = t
    BY <2>1, <2>2
  <2>3. CASE u # t
    BY <1>0, <2>1, <2>3 DEF UnderwayOnce
  <2> QED
    BY <2>2, <2>3
<1>5. RoomLeft'
  <2>1. Waiting' \subseteq Waiting \ {p}
    <3> SUFFICES ASSUME NEW q \in Processes, Waits(proc[q]), ~Served(q)'
                 PROVE  ~Served(q) /\ q # p
      BY DEF Waiting
    <3> QED
      BY <1>1 DEF Served
  <2>2. IsFiniteSet(ids) /\ IsFiniteSet(Waiting) /\ IsFiniteSet(SocketIds)
    BY <1>1, RequestAssumption, FS_Subset DEF Waiting
  <2>3. /\ Cardinality(ids') = Cardinality(ids) + 1
        /\ IsFiniteSet(Waiting \ {p}) /\ Cardinality(Waiting \ {p}) = Cardinality(Waiting) - 1
    <3>1. Cardinality(ids \cup {new}) = Cardinality(ids) + 1
      BY <2>2, FS_AddElement
    <3>2. IsFiniteSet(Waiting \ {p}) /\ Cardinality(Waiting \ {p}) = Cardinality(Waiting) - 1
      BY <2>2, FS_RemoveElement
    <3> QED
      BY <3>1, <3>2
  <2>4. IsFiniteSet(Waiting') /\ Cardinality(Waiting') <= Cardinality(Waiting \ {p})
    BY <2>1, <2>3, FS_Subset
  <2>5. /\ Cardinality(ids) \in Nat /\ Cardinality(Waiting) \in Nat /\ Cardinality(Waiting') \in Nat
        /\ Cardinality(SocketIds) \in Nat
    BY <2>2, <2>4, FS_CardinalityType
  <2>6. Cardinality(ids) + Cardinality(Waiting) <= Cardinality(SocketIds)
    BY <1>0 DEF RoomLeft
  <2> QED
    BY <2>3, <2>4, <2>5, <2>6 DEF RoomLeft
<1> QED
  BY <1>2, <1>3, <1>4, <1>5 DEF OwnInv

\* The process of a call that waits for its verdict waits for an id, or for none.
LEMMA CallWaits ==
  ASSUME CallsInv, NEW p \in Processes, NEW c \in CallRecord, Token(c, proc[p]),
         \A t \in Threads : worker[t].new # NoId => worker[t].call.of # p
  PROVE  /\ proc[p].new = NoId /\ ~Served(p)
         /\ c.opt \in Allocating => p \in Waiting
<1>1. proc[p].call = c /\ proc[p].new = NoId
  BY DEF CallsInv, ProcsOK, CallOK, Token, Asked
<1>2. ~Served(p)
  BY DEF Served
<1> QED
  BY <1>1, <1>2 DEF Waiting, Waits

\* A decision allots an id nobody has, or frees that of a closed socket.
LEMMA DaemonDecidesOwn ==
  ASSUME CallsInv, OwnInv, Alive, DaemonDecides
  PROVE  OwnInv'
<1>0. /\ PipesTyped /\ ProcsOK /\ ThreadsOnce /\ Threads = {"request", "tcp"}
      /\ LockOK /\ KeptOnce /\ NewOnce /\ UnderwayOnce /\ ClosedIsFree /\ RoomLeft
  BY DEF CallsInv, OwnInv, Threads
<1>1. PICK w, c : w \in WorkerRecord /\ w = worker["request"] /\ c = w.call
  BY <1>0 DEF PipesTyped
<1>2. w.pc = "locks" /\ w.pc \in AtWork /\ w.pc \notin Decided /\ mutex = "free"
  BY <1>1 DEF DaemonDecides, Is, AtWork, Decided
<1>3. c \in CallRecord /\ c.of \in Processes /\ c # NoCall /\ w.new = NoId
  BY <1>0, <1>1, <1>2, CallsTyped, NoCallIsNone DEF ThreadsOnce, WorkOK
<1>4. PICK v \in Verdicts(c.opt), new \in SocketIds \cup {NoId} :
        /\ Allots(c, v, new)
        /\ mutex' = IF Unlocks(c, v) THEN "free" ELSE "request"
        /\ ids' = IdsAfter(c, v, "request", new)
        /\ IF v = "later"
           THEN Becomes("request", "closed", NoCall, NoId)
           ELSE Becomes("request", v, c, new)
  BY <1>1 DEF DaemonDecides
<1>5. /\ v \in {"ok", "error", "later"}
      /\ c.opt = "close" => v # "error"
      /\ c.opt = "accept" => v # "ok"
  <2>1. c.opt \in AllCalls
    BY <1>3, NoCallIsNone
  <2> QED
    BY <1>4, <2>1 DEF Verdicts, AllCalls
<1>6. proc' = proc
  BY DEF DaemonDecides
<1>7. worker["tcp"].pc \notin Decided
  BY <1>0, <1>2 DEF LockOK
<1>8. CASE v = "later"
  <2>1. PICK m \in WorkerRecord : /\ worker' = [worker EXCEPT !["request"] = m]
                                  /\ m.pc = "closed" /\ m.call = NoCall /\ m.new = NoId
    <3>1. /\ Becomes("request", "closed", NoCall, NoId) /\ NoCall \in SomeCall
          /\ "closed" \in AtWork \cup {"opens", "reads", "closed", "rests"} /\ NoId \in SocketIds \cup {NoId}
      BY <1>4, <1>8 DEF SomeCall
    <3> QED
      BY <1>0, <3>1, BecomesRecord
  <2>2. mutex' = mutex /\ ids' = ids
    BY <1>2, <1>4, <1>8 DEF Unlocks, IdsAfter, Allots
  <2>3. m.pc \notin Decided \cup {"rests"}
    BY <2>1 DEF Decided
  <2> QED
    BY <1>1, <1>2, <1>6, <2>1, <2>2, <2>3, RequestThreadOwn
<1>9. CASE v # "later"
  <2>1. v \in {"ok", "error"} /\ v \in Decided
    BY <1>5, <1>9 DEF Decided
  <2>2. PICK m \in WorkerRecord : /\ worker' = [worker EXCEPT !["request"] = m]
                                  /\ m.pc = v /\ m.call = c /\ m.new = new
    <3>1. Becomes("request", v, c, new) /\ c \in SomeCall /\ v \in AtWork
      BY <1>3, <1>4, <1>9, <2>1 DEF SomeCall, AtWork
    <3> QED
      BY <1>0, <1>4, <3>1, BecomesRecord
  <2>3. worker'["request"] = m /\ worker'["tcp"] = worker["tcp"]
    BY <1>0, <2>2 DEF PipesTyped
  <2>4. Alive'
    BY <1>0, <2>1, <2>2, <2>3 DEF Alive, Is
  <2>5. LockOK'
    <3>1. c.opt \in {"socket", "listen"} \/ mutex' = "request"
      BY <1>4, <1>9 DEF Unlocks
    <3> QED
      BY <1>0, <1>7, <2>1, <2>2, <2>3, <3>1 DEF LockOK
  <2>6. PICK p \in Processes, k \in ProcRecord : p = c.of /\ k = proc[p] /\ AtCall(w, k)
    BY <1>0, <1>1, <1>2, <1>3 DEF ThreadsOnce, PipesTyped
  <2>7. k.call = c /\ k.pc \in Asked /\ Token(c, k)
    BY <1>1, <1>2, <2>6 DEF AtCall, Token
  <2>8. \A t \in Threads : worker[t].new # NoId => worker[t].call.of # p
    <3>1. ~With("tcp", p)
      BY <1>0, <1>1, <1>2, <2>6 DEF ThreadsOnce
    <3>2. worker["tcp"].new # NoId => worker["tcp"].pc \in AtWork
      BY <1>0 DEF ThreadsOnce, WorkOK, AtWork, Decided
    <3> QED
      BY <1>0, <1>1, <1>3, <3>1, <3>2 DEF With
  <2>9. \A q \in Processes : q # p \/ c.opt # "close" => Kept(q)' = Kept(q)
    <3> SUFFICES ASSUME NEW q \in Processes, q # p \/ c.opt # "close"
                 PROVE  KeptBy(proc[q], m) = KeptBy(proc[q], w)
      BY <1>1, <1>6, <2>3 DEF Kept
    <3>1. CallOK(q, proc[q])
      BY <1>0 DEF ProcsOK
    <3>2. CASE q # p
      <4>1. w.pc \notin Decided /\ m.call.of = p
        BY <1>2, <2>2, <2>6
      <4> QED
        BY <3>1, <3>2, <4>1, KeptOfOthers
    <3>3. CASE c.opt # "close"
      BY <1>2, <2>2, <3>3 DEF KeptBy, LetGo, Closes
    <3> QED
      BY <3>2, <3>3
  <2>10. CASE v = "ok" /\ c.opt \in Allocating
    <3>1. p \in Waiting
      BY <1>3, <2>6, <2>7, <2>8, <2>10, CallWaits
    <3>2. new \in SocketIds \ ids
      BY <1>0, <1>4, <2>10, <3>1, FreshId DEF Allots, PipesTyped
    <3>3. ids' = ids \cup {new}
      BY <1>4, <2>10, <3>2, RequestAssumption DEF IdsAfter, Allocating
    <3>4. c.opt # "close"
      BY <2>10 DEF Allocating
    <3>5. ClosedIsFree'
      BY <2>2, <2>3, <3>4 DEF ClosedIsFree
    <3>6. \A q \in Processes : Kept(q)' = Kept(q)
      BY <2>9, <3>4
    <3>7. /\ worker'["request"].new = new /\ worker'["request"].call.of = p
          /\ worker["request"].new = NoId /\ \A u \in Threads \ {"request"} : worker'[u] = worker[u]
          /\ "request" \in Threads
      BY <1>0, <1>1, <1>3, <2>2, <2>3, <2>6
    <3> QED
      BY ONLY CallsInv, OwnInv, Alive, <1>6, <2>5, <3>1, <3>2, <3>3, <3>5, <3>6, <3>7, IdGiven
  <2>11. CASE ~(v = "ok" /\ c.opt \in Allocating) /\ ~(v = "ok" /\ c.opt = "close")
    <3>1. new = NoId /\ ids' = ids
      BY <1>4, <2>11 DEF Allots, IdsAfter
    <3>2. c.opt # "close"
      BY <1>5, <2>1, <2>11
    <3>3. ClosedIsFree'
      BY <2>2, <2>3, <3>2 DEF ClosedIsFree
    <3>4. \A q \in Processes : Kept(q)' \subseteq Kept(q) /\ proc'[q].new \in {proc[q].new, NoId}
      BY <1>6, <2>9, <3>2
    <3>5. \A t \in Threads : worker'[t].new \in {worker[t].new, NoId}
      BY <1>0, <2>2, <2>3, <3>1
    <3>6. Waiting' \subseteq Waiting
      BY <1>0, <1>1, <1>3, <1>6, <2>2, <2>3, <3>1 DEF Waiting, Served
    <3> QED
      BY <2>5, <3>1, <3>3, <3>4, <3>5, <3>6, NothingGiven
  <2>12. CASE v = "ok" /\ c.opt = "close"
    <3>1. new = NoId /\ ids' = ids \ {c.id}
      BY <1>4, <2>12 DEF Allots, IdsAfter, Allocating
    <3>2. /\ c.id \in Kept(p) /\ Kept(p)' = Kept(p) \ {c.id}
      <4>1. CallOK(p, k) /\ k.pc # "idle"
        BY <1>0, <2>6, <2>7 DEF ProcsOK, Asked
      <4>2. c.id \in k.fds
        BY <2>7, <2>12, <4>1 DEF CallOK
      <4>3. ~LetGo(k, w) /\ LetGo(k, m)
        BY <1>2, <2>1, <2>2, <2>7, <2>12 DEF LetGo, Closes, Asked
      <4> QED
        BY <1>1, <1>6, <2>3, <2>6, <2>7, <4>2, <4>3 DEF Kept, KeptBy
    <3>3. ClosedIsFree'
      BY <2>2, <2>3, <3>1 DEF ClosedIsFree
    <3>4. KeptOnce'
      <4> SUFFICES ASSUME NEW q \in Processes
                   PROVE  /\ Kept(q)' \subseteq ids \ {c.id}
                          /\ \A r \in Processes : q # r => Kept(q)' \cap Kept(r)' = {}
        BY <3>1 DEF KeptOnce
      <4>1. \A r \in Processes : r # p => Kept(r)' = Kept(r) /\ c.id \notin Kept(r)
        BY <1>0, <2>9, <3>2 DEF KeptOnce
      <4> QED
        BY <1>0, <3>2, <4>1 DEF KeptOnce
    <3>5. \A q \in Processes : Kept(q)' \subseteq Kept(q)
      BY <2>9, <3>2
    <3>6. NewOnce'
      BY <1>0, <1>6, <3>1, <3>2, <3>5 DEF NewOnce
    <3>7. UnderwayOnce'
      <4>1. \A t \in Threads : worker'[t].new = worker[t].new
        BY <1>0, <1>1, <1>3, <2>2, <2>3, <3>1
      <4> QED
        BY <1>0, <1>6, <3>1, <3>2, <3>5, <4>1 DEF UnderwayOnce
    <3>8. RoomLeft'
      <4>1. Waiting' \subseteq Waiting
        BY <1>0, <1>1, <1>3, <1>6, <2>2, <2>3, <3>1 DEF Waiting, Served
      <4> QED
        BY <1>0, <3>1, <4>1, RoomKept DEF PipesTyped
    <3> QED
      BY <2>5, <3>3, <3>4, <3>6, <3>7, <3>8 DEF OwnInv
  <2> QED
    BY <2>10, <2>11, <2>12
<1> QED
  BY <1>8, <1>9

\* What TCP decides allots an id nobody has, or frees that of a closed socket.
LEMMA TcpEndsOwn ==
  ASSUME CallsInv, OwnInv, Alive, NEW c \in pending, TcpEnds(c)
  PROVE  OwnInv'
<1>0. /\ PipesTyped /\ ThreadsOnce /\ PendingOnce /\ Threads = {"request", "tcp"} /\ "tcp" \in Threads
      /\ LockOK /\ KeptOnce /\ NewOnce /\ UnderwayOnce /\ ClosedIsFree /\ RoomLeft
  BY DEF CallsInv, OwnInv, Threads
<1>1. c \in CallRecord /\ c.of \in Processes /\ c # NoCall
  BY <1>0, CallsTyped, NoCallIsNone
<1>2. PICK v \in {"ok", "error"}, new \in SocketIds \cup {NoId} :
        Allots(c, v, new) /\ ids' = IdsAfter(c, v, "tcp", new) /\ Becomes("tcp", v, c, new)
  BY DEF TcpEnds
<1>3. PICK m \in WorkerRecord : /\ worker' = [worker EXCEPT !["tcp"] = m]
                                /\ m.pc = v /\ m.call = c /\ m.new = new
  <2>1. Becomes("tcp", v, c, new) /\ c \in SomeCall /\ v \in AtWork
    BY <1>1, <1>2 DEF SomeCall, AtWork, Decided
  <2> QED
    BY <1>0, <1>2, <2>1, BecomesRecord
<1>4. worker'["tcp"] = m /\ worker'["request"] = worker["request"]
  BY <1>0, <1>3 DEF PipesTyped
<1>5. /\ proc' = proc /\ mutex = "free" /\ mutex' = "tcp" /\ worker["tcp"].pc = "rests"
      /\ ids' = ids \cup ({new} \ {NoId})
  BY <1>2 DEF TcpEnds, Is, IdsAfter
<1>6. Alive' /\ m.pc \in Decided
  BY <1>0, <1>2, <1>3, <1>4 DEF Alive, Is, Decided
<1>7. worker["request"].pc \in Decided => worker["request"].call.opt \in {"socket", "listen"}
  BY <1>0, <1>5 DEF LockOK
<1>8. LockOK' /\ ClosedIsFree'
  BY <1>0, <1>4, <1>5, <1>6, <1>7 DEF LockOK, ClosedIsFree
<1>9. \A q \in Processes : Kept(q)' = Kept(q)
  BY <1>4, <1>5 DEF Kept
<1>10. worker["tcp"].new = NoId
  BY <1>0, <1>5 DEF ThreadsOnce, WorkOK
<1>11. Token(c, proc[c.of]) /\ \A t \in Threads : worker[t].new # NoId => worker[t].call.of # c.of
  <2>1. Pending(c.of)
    BY DEF Pending
  <2>2. \A t \in Threads : worker[t].new # NoId => worker[t].pc \in AtWork
    BY <1>0 DEF ThreadsOnce, WorkOK, AtWork, Decided
  <2> QED
    BY <1>0, <2>1, <2>2 DEF PendingOnce, ThreadsOnce
<1>12. CASE v = "ok" /\ c.opt \in Allocating
  <2>1. PICK p \in Waiting : p = c.of
    BY <1>1, <1>11, <1>12, CallWaits
  <2>2. new \in SocketIds \ ids
    BY <1>0, <1>2, <1>12, FreshId DEF Allots, PipesTyped
  <2>3. ids' = ids \cup {new}
    BY <1>5, <2>2, RequestAssumption
  <2>4. /\ worker'["tcp"].new = new /\ worker'["tcp"].call.of = p
        /\ \A u \in Threads \ {"tcp"} : worker'[u] = worker[u]
    BY <1>0, <1>3, <1>4, <2>1
  <2> QED
    BY ONLY CallsInv, OwnInv, Alive, <1>0, <1>5, <1>8, <1>9, <1>10, <2>1, <2>2, <2>3, <2>4, IdGiven
<1>13. CASE ~(v = "ok" /\ c.opt \in Allocating)
  <2>1. new = NoId /\ ids' = ids
    BY <1>2, <1>5, <1>13 DEF Allots
  <2>2. \A t \in Threads : worker'[t].new = worker[t].new
    BY <1>0, <1>3, <1>4, <1>10, <2>1
  <2>3. Waiting' \subseteq Waiting
    BY <1>0, <1>3, <1>4, <1>5, <1>10, <2>1 DEF Waiting, Served
  <2> QED
    BY <1>5, <1>8, <1>9, <2>1, <2>2, <2>3, NothingGiven
<1> QED
  BY <1>12, <1>13

\* Steps of a call on its way to the daemon change the owner of no id.
LEMMA OutwardStepsOwn ==
  ASSUME CallsInv, OwnInv, NEW p \in Processes,
         \/ RequestPipeOpened(p) \/ RequestWritten(p) \/ RequestPipeClosed(p)
         \/ ResponsePipeMade(p) \/ ProcessDies(p)
  PROVE  OwnInv'
<1>1. UNCHANGED <<worker, mutex, ids>>
  BY DEF RequestPipeOpened, RequestWritten, RequestPipeClosed, ResponsePipeMade, ProcessDies
<1>2. PICK pc \in InCall : Goes(p, pc) /\ Outward(proc[p], pc)
  <2>1. CASE RequestPipeOpened(p)
    BY <2>1 DEF RequestPipeOpened, Outward, At, InCall
  <2>2. CASE RequestWritten(p)
    BY <2>2 DEF RequestWritten, Outward, At, InCall, Asked
  <2>3. CASE RequestPipeClosed(p)
    <3>1. PICK pc \in {"makes_pipe", "waits"} : Goes(p, pc)
      BY <2>3 DEF RequestPipeClosed
    <3>2. Outward(proc[p], pc) /\ pc \in InCall
      BY <2>3 DEF RequestPipeClosed, Outward, At, InCall, Asked
    <3> QED
      BY <3>1, <3>2
  <2>4. CASE ResponsePipeMade(p)
    BY <2>4 DEF ResponsePipeMade, Outward, At, InCall, Asked
  <2>5. CASE ProcessDies(p)
    BY <2>5 DEF ProcessDies, Outward, At, InCall, Asked
  <2> QED
    BY <2>1, <2>2, <2>3, <2>4, <2>5
<1> QED
  BY <1>1, <1>2, OutwardOwn

\* Every step keeps the ids with their owners.
LEMMA OwnStep ==
  ASSUME CallsInv, OwnInv, Processes \cap SocketIds = {}, RequestNext
  PROVE  OwnInv'
<1>1. ASSUME NEW p \in Processes, NEW opt \in usage.calls, CallStarts(p, opt) PROVE OwnInv'
  BY <1>1, CallStartsOwn
<1>2. ASSUME NEW p \in Processes,
             RequestPipeOpened(p) \/ ProcessGoesOn(p) \/ ProcessDies(p)
      PROVE  OwnInv'
  BY <1>2, OutwardStepsOwn, AnswerTakenOwn DEF ProcessGoesOn
<1>3. ASSUME Alive, DaemonGoesOn PROVE OwnInv'
  BY <1>3, IdleDaemonOwn, DaemonTakesOwn, DaemonDecidesOwn DEF DaemonGoesOn
<1>4. ASSUME Alive, NEW c \in pending, TcpEnds(c) PROVE OwnInv'
  BY <1>4, TcpEndsOwn
<1>5. ASSUME NEW id \in SocketIds, IdFreed(id) PROVE OwnInv'
  BY <1>5, IdFreedOwn
<1>6. ASSUME NEW t \in Threads, ThreadAnswers(t) \/ ThreadTransfers(t) PROVE OwnInv'
  BY <1>6, ThreadAnswersOwn, ThreadTransfersOwn
<1> QED
  BY <1>1, <1>2, <1>3, <1>4, <1>5, <1>6 DEF RequestNext

-----------------------------------------------------------------------------
(***************************************************************************)
(* The theorems                                                            *)
(***************************************************************************)
LEMMA RequestInitInv ==
  ASSUME RequestInit
  PROVE  CallsInv /\ OwnInv
<1>1. /\ \A p \in Processes : proc[p] = [pc |-> "idle", call |-> NoCall, new |-> NoId, fds |-> {}]
      /\ \A t \in Threads : worker[t] = [pc |-> IF t = "request" THEN "opens" ELSE "rests",
                                         call |-> NoCall, new |-> NoId]
      /\ requests = <<>> /\ DOMAIN requests = {} /\ pending = {} /\ ids = {}
      /\ Threads = {"request", "tcp"}
  BY DEF RequestInit, Threads
<1>2. PipesTyped
  <2>1. <<>> \in Seq(CallRecord)
    BY EmptySeq
  <2>2. proc \in [Processes -> ProcRecord]
    BY DEF RequestInit, ProcRecord, SomeCall
  <2>3. worker \in [Threads -> WorkerRecord]
    <3>1. \A t \in Threads : worker[t] \in WorkerRecord
      BY <1>1 DEF WorkerRecord, SomeCall
    <3>2. worker = [t \in Threads |-> worker[t]]
      BY DEF RequestInit
    <3> QED
      BY <3>1, <3>2
  <2> QED
    BY <2>1, <2>2, <2>3 DEF RequestInit, PipesTyped
<1>3. ProcsOK
  BY <1>1, NoCallIsNone DEF ProcsOK, CallOK, At
<1>4. QueuedOnce /\ PendingOnce
  BY <1>1 DEF QueuedOnce, PendingOnce
<1>5. ThreadsOnce
  BY <1>1 DEF ThreadsOnce, WorkOK, AtWork, Decided
<1>6. LockOK /\ ClosedIsFree
  BY <1>1 DEF LockOK, ClosedIsFree, Decided
<1>7. \A p \in Processes : Kept(p) = {}
  BY <1>1 DEF Kept, KeptBy
<1>8. KeptOnce /\ NewOnce /\ UnderwayOnce
  BY <1>1, <1>7 DEF KeptOnce, NewOnce, UnderwayOnce
<1>9. RoomLeft
  <2>1. Waiting = {}
    BY <1>1, NoCallIsNone DEF Waiting, Waits, Allocating
  <2>2. Cardinality(ids) = 0 /\ Cardinality(Waiting) = 0
    BY <1>1, <2>1, FS_EmptySet
  <2>3. Cardinality(SocketIds) \in Nat
    BY RequestAssumption, FS_CardinalityType
  <2> QED
    BY <2>2, <2>3 DEF RoomLeft
<1> QED
  BY <1>2, <1>3, <1>4, <1>5, <1>6, <1>8, <1>9 DEF CallsInv, OwnInv

\* Nothing changes.
LEMMA StutterOwn ==
  ASSUME OwnInv, UNCHANGED RequestVars
  PROVE  OwnInv'
<1>1. proc' = proc /\ worker' = worker /\ mutex' = mutex /\ ids' = ids
  BY DEF RequestVars
<1>2. \A p \in Processes : Kept(p)' = Kept(p)
  BY <1>1 DEF Kept
<1>3. Waiting' = Waiting
  BY <1>1 DEF Waiting, Served
<1>4. LockOK' /\ ClosedIsFree'
  BY <1>1 DEF OwnInv, LockOK, ClosedIsFree, Alive, Is
<1>5. KeptOnce' /\ NewOnce' /\ UnderwayOnce'
  BY <1>1, <1>2 DEF OwnInv, KeptOnce, NewOnce, UnderwayOnce
<1>6. RoomLeft'
  BY <1>1, <1>3 DEF OwnInv, RoomLeft, Alive, Is
<1> QED
  BY <1>4, <1>5, <1>6 DEF OwnInv

\* What a process has open, and is not closing, it keeps.
LEMMA OwnGivesIdsOwned ==
  ASSUME OwnInv
  PROVE  IdsOwned
<1>1. \A p \in Processes : Open(p) \subseteq Kept(p)
  BY DEF Open, Kept, KeptBy, LetGo
<1> QED
  BY <1>1 DEF OwnInv, KeptOnce, IdsOwned

\* As long as no pid is the number of a socket, the daemon has at most one call of
\* each process, the one the process is in, and each id has one owner, whatever
\* requests are thrown away and whoever is stopped: the invariant of the module.
THEOREM CallsInPlace ==
  ASSUME Processes \cap SocketIds = {}
  PROVE  RequestSpec => [](CallsInv /\ OwnInv)
<1>1. RequestInit => CallsInv /\ OwnInv
  BY RequestInitInv
<1>2. CallsInv /\ OwnInv /\ [RequestNext]_RequestVars => (CallsInv /\ OwnInv)'
  <2> SUFFICES ASSUME CallsInv, OwnInv, [RequestNext]_RequestVars
               PROVE  CallsInv' /\ OwnInv'
    OBVIOUS
  <2>1. KeptOnce /\ ClosedIsFree
    BY DEF OwnInv
  <2> QED
    BY <2>1, CallsStep, OwnStep, StutterCalls, StutterOwn
<1> QED
  BY <1>1, <1>2, PTL DEF RequestSpec

\* The daemon finds the response pipe of listen, connect, accept, read, write and
\* close, and the read pipe, however it and the callers interleave: those wrappers
\* make their pipes before they write the request (write its write pipe after).
THEOREM PipesMadeInTime ==
  ASSUME Processes \cap SocketIds = {}
  PROVE  RequestSpec => []MissingPipe
<1>1. CallsInv /\ OwnInv => MissingPipe
  BY CallsGiveMissingPipe
<1> QED
  BY <1>1, CallsInPlace, PTL

\* The id of an open socket is in use and in the list of one process only: neither
\* close nor freeSocket_pthread gives it away, and alloc_socket_id finds another.
THEOREM IdsHaveOneOwner ==
  ASSUME Processes \cap SocketIds = {}
  PROVE  RequestSpec => []IdsOwned
<1>1. CallsInv /\ OwnInv => IdsOwned
  BY OwnGivesIdsOwned
<1> QED
  BY <1>1, CallsInPlace, PTL

-----------------------------------------------------------------------------
(***************************************************************************)
(* A process that uses sockets alone                                       *)
(***************************************************************************)
\* The daemon's calls are all of the process that uses sockets alone.
LEMMA LoneCalls ==
  ASSUME CallsInv, NEW p \in Processes, usage.users = {p}, Lone(p)
  PROVE  /\ \A i \in DOMAIN requests : requests[i].of = p /\ i = 1
         /\ requests # <<>> => Queued(p) /\ proc[p].pc \in Asked
         /\ worker["request"].pc = "closes" => With("request", p) /\ proc[p].pc \in Asked
<1>0. PipesTyped /\ QueuedOnce /\ ThreadsOnce /\ \A q \in Processes \ {p} : proc[q].pc = "idle"
  BY DEF CallsInv, Lone, At
<1>1. \A i \in DOMAIN requests : requests[i].of = p /\ proc[p].pc \in Asked
  BY <1>0, CallsTyped DEF QueuedOnce, Token, Asked
<1>2. requests # <<>> => 1 \in DOMAIN requests
  BY <1>0, EmptySeq DEF PipesTyped
<1>3. \A i \in DOMAIN requests : i = 1
  BY <1>0, <1>1, <1>2 DEF QueuedOnce
<1>4. worker["request"].pc = "closes" => With("request", p) /\ proc[p].pc \in Asked
  <2> SUFFICES ASSUME worker["request"].pc = "closes"
               PROVE  worker["request"].call.of = p /\ worker["request"].pc \in AtWork /\ proc[p].pc \in Asked
    BY DEF With
  <2>1. worker["request"].pc \in AtWork /\ "request" \in Threads
    BY DEF AtWork, Threads
  <2>2. AtCall(worker["request"], proc[worker["request"].call.of]) /\ worker["request"].call.of \in Processes
    BY <1>0, <2>1, CallsTyped DEF ThreadsOnce
  <2> QED
    BY <1>0, <2>1, <2>2 DEF AtCall, Asked
<1> QED
  BY <1>1, <1>2, <1>3, <1>4 DEF Queued

\* Steps that leave the request pipe alone.
LEMMA PipeLeftAlone ==
  ASSUME NEW p \in Processes, usage.users = {p}, Lone(p), dropped' = dropped, requests' = requests,
         leaked => leaked',
         worker["request"].pc \in {"opens", "reads"} => worker'["request"].pc \in {"opens", "reads"},
         \A q \in Processes \ {p} : proc'[q] = proc[q],
         proc'[p] = proc[p] \/ proc'[p].pc \notin {"sends", "broken_pipe"}
  PROVE  Lone(p)'
<1>1. /\ dropped = {} /\ ~At(p, "broken_pipe") /\ (\A q \in Processes \ {p} : At(q, "idle"))
      /\ At(p, "sends") \/ requests # <<>> => leaked \/ worker["request"].pc \in {"opens", "reads"}
  BY DEF Lone
<1>2. ~At(p, "broken_pipe")' /\ (At(p, "sends")' => At(p, "sends"))
  BY <1>1 DEF At
<1>3. \A q \in Processes \ {p} : At(q, "idle")'
  BY <1>1 DEF At
<1> QED
  BY <1>1, <1>2, <1>3 DEF Lone

\* The daemon's threads meet the process in open of a pipe of its own.
LEMMA ThreadsLone ==
  ASSUME CallsInv, OwnInv, Processes \cap SocketIds = {}, NEW p \in Processes,
         usage.users = {p}, Lone(p), NEW t \in Threads, ThreadAnswers(t) \/ ThreadTransfers(t)
  PROVE  Lone(p)'
<1>0. /\ KeptOnce /\ ClosedIsFree /\ worker \in [Threads -> WorkerRecord]
      /\ proc \in [Processes -> ProcRecord] /\ \A q \in Processes \ {p} : proc[q].pc = "idle"
  BY DEF OwnInv, CallsInv, PipesTyped, Lone, At
<1>1. /\ dropped' = dropped /\ requests' = requests /\ leaked' = leaked
      /\ worker[t].pc \notin {"opens", "reads"}
  BY DEF ThreadAnswers, ThreadTransfers
<1>2. \A n : worker' = [worker EXCEPT ![t] = n] =>
        (worker["request"].pc \in {"opens", "reads"} => worker'["request"].pc \in {"opens", "reads"})
  BY <1>0, <1>1
<1>3. ASSUME NEW kind, NoPipe(t, kind) PROVE Lone(p)'
  <2>1. PICK n : worker' = [worker EXCEPT ![t] = n] /\ proc' = proc
    BY <1>3 DEF NoPipe, Becomes
  <2> QED
    BY <1>1, <1>2, <2>1, PipeLeftAlone
<1>4. ASSUME NEW pc \in {"ok", "error", "idle"}, NEW here, NEW q \in Processes,
             NEW k, NEW m, NEW w, NEW n, k.pc # "idle", Met(t, pc, here, q, k, m, w, n)
      PROVE  Lone(p)'
  <2>1. /\ k = proc[q] /\ proc' = [proc EXCEPT ![q] = m] /\ worker' = [worker EXCEPT ![t] = n]
        /\ m.pc = pc
    BY <1>4 DEF Met
  <2>2. q = p
    BY <1>0, <1>4, <2>1
  <2>3. (\A r \in Processes \ {p} : proc'[r] = proc[r]) /\ proc'[p] = m
    BY <1>0, <2>1, <2>2
  <2>4. proc'[p].pc \notin {"sends", "broken_pipe"}
    BY <2>1, <2>3
  <2> QED
    BY <1>1, <1>2, <2>1, <2>3, <2>4, PipeLeftAlone
<1>5. CASE ThreadAnswers(t)
  <2>1. CASE ~NoPipe(t, "response")
    <3>1. PICK q \in Processes, k \in ProcRecord, m \in ProcRecord, w \in WorkerRecord, n \in WorkerRecord :
            /\ w.pc \in {"ok", "error"} /\ k.pc = "waits"
            /\ Met(t, w.pc, Given(w), q, k, m, w, n)
      BY <1>0, <1>5, <2>1, ThreadAnswersMeets
    <3> QED
      BY <1>4, <3>1
  <2> QED
    BY <1>3, <2>1
<1>6. CASE ThreadTransfers(t)
  <2>1. CASE ~NoPipe(t, worker[t].call.opt)
    <3>1. PICK q \in Processes, k \in ProcRecord, m \in ProcRecord, w \in WorkerRecord, n \in WorkerRecord :
            /\ w.pc \in {"read_pipe", "write_pipe"} /\ k.pc = w.pc
            /\ Met(t, "idle", "done", q, k, m, w, n)
      BY <1>0, <1>6, <2>1, ThreadTransfersMeets
    <3> QED
      BY <1>4, <3>1
  <2> QED
    BY <1>3, <2>1
<1> QED
  BY <1>5, <1>6

\* The request thread reads the one request there is, and throws none away.
LEMMA DaemonLone ==
  ASSUME CallsInv, NEW p \in Processes, usage.users = {p}, Lone(p), DaemonGoesOn
  PROVE  Lone(p)'
<1>0. /\ proc' = proc /\ worker \in [Threads -> WorkerRecord] /\ requests \in Seq(CallRecord)
      /\ "request" \in Threads /\ usage' = usage
  BY DEF DaemonGoesOn, DaemonOpened, DaemonReads, DaemonFindsNothing, DaemonCloses,
         DaemonDecides, DaemonLoops, CallsInv, PipesTyped, Threads
<1>1. CASE DaemonOpened \/ DaemonFindsNothing \/ DaemonLoops
  <2>1. PICK pc \in {"opens", "reads"} : Becomes("request", pc, NoCall, NoId)
    BY <1>1 DEF DaemonOpened, DaemonFindsNothing, DaemonLoops
  <2>2. worker'["request"].pc \in {"opens", "reads"}
    BY <1>0, <2>1 DEF Becomes
  <2>3. dropped' = dropped /\ requests' = requests /\ (leaked => leaked')
    BY <1>1 DEF DaemonOpened, DaemonFindsNothing, DaemonLoops
  <2> QED
    BY <1>0, <2>2, <2>3, PipeLeftAlone
<1>2. CASE DaemonDecides
  <2>1. /\ dropped' = dropped /\ requests' = requests /\ leaked' = leaked
        /\ worker["request"].pc \notin {"opens", "reads"}
    BY <1>2 DEF DaemonDecides, Is
  <2> QED
    BY <1>0, <2>1, PipeLeftAlone
<1>3. CASE DaemonReads
  <2>1. requests # <<>> /\ requests' = <<>> /\ dropped' = dropped \cup Callers(Tail(requests))
    BY <1>3 DEF DaemonReads
  <2>2. proc[p].pc \in Asked /\ \A i \in 1 .. Len(requests) : i = 1
    BY <1>0, <2>1, LoneCalls
  <2>3. Len(requests) = 1
    <3>1. PICK n \in Nat : n = Len(requests) /\ n # 0
      BY <1>0, <2>1, EmptySeq
    <3>2. n < 2
      <4>1. n >= 2 => 2 \in 1 .. n
        BY SMT
      <4> QED
        BY <2>2, <3>1, <4>1
    <3> QED
      BY <3>1, <3>2
  <2>4. Callers(Tail(requests)) = {}
    <3>1. Len(Tail(requests)) = 0
      BY <1>0, <2>1, <2>3, HeadTailProperties
    <3> QED
      BY <3>1 DEF Callers
  <2>5. dropped' = {}
    BY <2>1, <2>4 DEF Lone
  <2>6. ~At(p, "broken_pipe")' /\ ~At(p, "sends")'
    BY <1>0, <2>2 DEF At, Asked
  <2>7. \A q \in Processes \ {p} : At(q, "idle")'
    BY <1>0 DEF Lone, At
  <2> QED
    BY <2>1, <2>5, <2>6, <2>7 DEF Lone
<1>4. CASE DaemonCloses
  <2>1. worker["request"].pc = "closes"
    BY <1>4 DEF DaemonCloses, Is
  <2>2. proc[p].pc \in Asked /\ With("request", p)
    BY <2>1, LoneCalls
  <2>3. requests = <<>>
    <3>1. ~Queued(p)
      BY <1>0, <2>2 DEF CallsInv, ThreadsOnce, With
    <3> QED
      BY <3>1, LoneCalls
  <2>4. Callers(requests) = {}
    BY <2>3 DEF Callers
  <2>5. requests' = <<>> /\ dropped' = dropped
    BY <1>4, <2>3, <2>4 DEF DaemonCloses
  <2>6. ~At(p, "broken_pipe")' /\ ~At(p, "sends")'
    BY <1>0, <2>2 DEF At, Asked
  <2>7. dropped' = {} /\ \A q \in Processes \ {p} : At(q, "idle")'
    BY <1>0, <2>5 DEF Lone, At
  <2> QED
    BY <2>5, <2>6, <2>7 DEF Lone
<1> QED
  BY <1>1, <1>2, <1>3, <1>4 DEF DaemonGoesOn

\* Where the process is between two steps of its own.
LEMMA ProcLone ==
  ASSUME CallsInv, NEW p \in Processes, usage.users = {p}, Lone(p), NEW q \in Processes,
         \/ \E opt \in usage.calls : CallStarts(q, opt)
         \/ RequestPipeOpened(q) \/ ProcessGoesOn(q) \/ ProcessDies(q)
  PROVE  Lone(p)'
<1>0. proc \in [Processes -> ProcRecord] /\ \A r \in Processes \ {p} : proc[r].pc = "idle"
  BY DEF CallsInv, PipesTyped, Lone, At
<1>1. /\ worker' = worker /\ leaked' = leaked /\ usage' = usage
      /\ \A r \in Processes \ {q} : proc'[r] = proc[r]
  BY <1>0 DEF CallStarts, RequestPipeOpened, ProcessGoesOn, RequestWritten, RequestPipeClosed,
              ResponsePipeMade, AnswerTaken, ProcessDies, Goes
<1>2. q = p
  BY <1>0 DEF CallStarts, RequestPipeOpened, ProcessGoesOn, RequestWritten, RequestPipeClosed,
              ResponsePipeMade, AnswerTaken, ProcessDies, At
<1>3. PICK k \in ProcRecord : k = proc[p]
  BY <1>0
<1>4. CASE \/ \E opt \in usage.calls : CallStarts(p, opt)
           \/ ResponsePipeMade(p) \/ AnswerTaken(p) \/ ProcessDies(p)
  <2>1. dropped' = dropped /\ requests' = requests
    BY <1>4 DEF CallStarts, ResponsePipeMade, AnswerTaken, ProcessDies
  <2>2. proc'[p].pc \notin {"sends", "broken_pipe"}
    <3>1. CASE \E opt \in usage.calls : CallStarts(p, opt)
      <4>1. PICK c : proc' = [proc EXCEPT ![p].pc = "requests", ![p].call = c]
        BY <3>1 DEF CallStarts
      <4>2. proc'[p].pc = [k EXCEPT !.pc = "requests", !.call = c].pc
        BY <1>0, <1>3, <4>1
      <4> QED
        BY <4>2 DEF ProcRecord
    <3>2. CASE ResponsePipeMade(p) \/ ProcessDies(p)
      <4>1. PICK pc \in {"waits", "dead"} : Goes(p, pc) /\ pc \in InCall
        BY <3>2 DEF ResponsePipeMade, ProcessDies, InCall, Asked
      <4> QED
        BY <1>0, <4>1, GoesChanges DEF CallsInv
    <3>3. CASE AnswerTaken(p)
      <4>1. PICK l \in ProcRecord, m \in ProcRecord :
              /\ proc' = [proc EXCEPT ![p] = m]
              /\ m.pc = IF l.pc = "ok" THEN Transfer(l.call, "idle") ELSE "idle"
        BY <3>3, AnswerChanges
      <4> QED
        BY <1>0, <4>1 DEF Transfer
    <3> QED
      BY <1>4, <3>1, <3>2, <3>3
  <2> QED
    BY <1>1, <1>2, <2>1, <2>2, PipeLeftAlone
<1>5. CASE RequestPipeOpened(p)
  <2>1. proc[p].pc = "requests" /\ ReaderOpen /\ dropped' = dropped /\ requests' = requests
    BY <1>5 DEF RequestPipeOpened, At
  <2>2. leaked \/ worker["request"].pc \in {"opens", "reads"}
    BY <2>1, LoneCalls DEF ReaderOpen, Asked
  <2>3. proc'[p].pc = "sends"
    BY <1>0, <1>3, <1>5 DEF RequestPipeOpened, Goes, ProcRecord
  <2> QED
    BY <1>0, <1>1, <1>2, <2>1, <2>2, <2>3 DEF Lone, At
<1>6. CASE RequestWritten(p)
  <2>1. leaked \/ worker["request"].pc \in {"opens", "reads"}
    BY <1>6 DEF RequestWritten, Lone
  <2>2. Goes(p, "sent") /\ dropped' = dropped
    BY <1>6, <2>1 DEF RequestWritten, ReaderOpen
  <2>3. proc'[p].pc = "sent"
    BY <1>0, <1>3, <2>2 DEF Goes, ProcRecord
  <2> QED
    BY <1>0, <1>1, <1>2, <2>1, <2>2, <2>3 DEF Lone, At
<1>7. CASE RequestPipeClosed(p)
  <2>1. requests # <<>> => ReaderOpen
    BY DEF Lone, ReaderOpen
  <2>2. Callers(<<>>) = {}
    BY DEF Callers
  <2>3. requests' = requests /\ dropped' = dropped
    BY <1>7, <2>1, <2>2 DEF RequestPipeClosed
  <2>4. PICK pc \in {"makes_pipe", "waits"} : Goes(p, pc)
    BY <1>7 DEF RequestPipeClosed
  <2>5. proc'[p].pc \notin {"sends", "broken_pipe"}
    BY <1>0, <1>3, <2>4 DEF Goes, ProcRecord
  <2> QED
    BY <1>1, <1>2, <2>3, <2>5, PipeLeftAlone
<1> QED
  BY <1>2, <1>4, <1>5, <1>6, <1>7 DEF ProcessGoesOn

\* Every step keeps LoneInv: the daemon throws nothing of a lone caller away.
LEMMA LoneStep ==
  ASSUME CallsInv, OwnInv, Processes \cap SocketIds = {}, LoneInv, [RequestNext]_RequestVars
  PROVE  LoneInv'
<1> SUFFICES ASSUME NEW p \in Processes, usage.users = {p} PROVE Lone(p)'
  <2>1. usage' = usage
    BY DEF RequestNext, RequestVars, CallStarts, RequestPipeOpened, ProcessGoesOn, RequestWritten,
           RequestPipeClosed, ResponsePipeMade, AnswerTaken, ProcessDies, DaemonGoesOn,
           DaemonOpened, DaemonReads, DaemonFindsNothing, DaemonCloses, DaemonDecides,
           DaemonLoops, TcpEnds, IdFreed, ThreadAnswers, ThreadTransfers
  <2> QED
    BY <2>1 DEF LoneInv, Lone
<1>0. Lone(p)
  BY DEF LoneInv
<1>1. CASE UNCHANGED RequestVars
  BY <1>0, <1>1, PipeLeftAlone DEF RequestVars
<1>2. ASSUME NEW q \in Processes,
             \/ \E opt \in usage.calls : CallStarts(q, opt)
             \/ RequestPipeOpened(q) \/ ProcessGoesOn(q) \/ ProcessDies(q)
      PROVE  Lone(p)'
  BY <1>0, <1>2, ProcLone
<1>3. CASE DaemonGoesOn
  BY <1>0, <1>3, DaemonLone
<1>4. ASSUME NEW c \in pending, TcpEnds(c) PROVE Lone(p)'
  <2>1. /\ dropped' = dropped /\ requests' = requests /\ leaked' = leaked /\ proc' = proc
        /\ worker'["request"] = worker["request"]
    BY <1>4 DEF TcpEnds, Becomes, CallsInv, PipesTyped, Threads
  <2> QED
    BY <1>0, <2>1, PipeLeftAlone
<1>5. ASSUME NEW id \in SocketIds, IdFreed(id) PROVE Lone(p)'
  BY <1>0, <1>5, PipeLeftAlone DEF IdFreed
<1>6. ASSUME NEW t \in Threads, ThreadAnswers(t) \/ ThreadTransfers(t) PROVE Lone(p)'
  BY <1>0, <1>6, ThreadsLone
<1> QED
  BY <1>1, <1>2, <1>3, <1>4, <1>5, <1>6 DEF RequestNext

\* The requests of a process that uses sockets alone reach the daemon: none is
\* thrown away with the pipe or its stream, and none is written to a pipe that
\* nobody reads, though the daemon opens and closes the pipe for each.
THEOREM LoneCallsReach ==
  ASSUME Processes \cap SocketIds = {}
  PROVE  RequestSpec => []LoneCallerHeard
<1>1. RequestInit => CallsInv /\ OwnInv /\ LoneInv
  <2> SUFFICES ASSUME RequestInit PROVE LoneInv
    BY RequestInitInv
  <2>1. \A p \in Processes : proc[p].pc = "idle"
    BY DEF RequestInit
  <2> QED
    BY <2>1 DEF RequestInit, LoneInv, Lone, At
<1>2. CallsInv /\ OwnInv /\ (CallsInv /\ OwnInv)' /\ LoneInv /\ [RequestNext]_RequestVars => LoneInv'
  BY LoneStep
<1>3. LoneInv => LoneCallerHeard
  BY DEF LoneInv, Lone, LoneCallerHeard
<1> QED
  BY <1>1, <1>2, <1>3, CallsInPlace, PTL DEF RequestSpec
=============================================================================
