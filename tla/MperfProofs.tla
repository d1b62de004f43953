----------------------------- MODULE MperfProofs -----------------------------
(***************************************************************************)
(* What mperf promises, proved of its two halves.                          *)
(*                                                                         *)
(* MperfControl: a test is served by the worker that was forked for it,    *)
(* with -k at most one worker lives, and what a client is answered is what *)
(* a worker said of its message, for any number of clients, whatever they  *)
(* ask, wherever they stop, and whenever an alarm goes off or a signal is  *)
(* lost.  The invariant says which workers may be armed (would serve a     *)
(* connection): only the last one, for the message in the shared memory.   *)
(*                                                                         *)
(* MperfTransfer: what the two sides of a test report is true (sndrcv.c,   *)
(* util.c) for every packet length, every size of a test and every room in *)
(* the connection, wherever it cuts writes and reads and whenever a signal *)
(* comes or the connection breaks.  The invariant follows the bytes: at    *)
(* each place of the two routines it says how far what was moved is ahead  *)
(* of what was counted, and what is moved by one side and not by the other *)
(* is in the connection.                                                   *)
(***************************************************************************)
EXTENDS MperfControl, MperfTransfer, FiniteSetTheorems, SequenceTheorems, TLAPS

(***************************************************************************)
(* Setting a test up                                                       *)
(***************************************************************************)

CtlPlaces ==
    {"accepts", "command", "terminates", "kills", "waits", "sigterm", "message",
     "forks", "stores", "spins", "looks", "replies"}
WorkerPlaces ==
    {"starts", "configured", "rejects", "listens", "checks", "checked", "blocked",
     "accepted", "serves", "dead"}
Answers == {"none", "SUCC", "EKILL", "EREAD", "EMSG", "EPROC"}
LockNames == {"sigusr1", "sigusr2", "sigchld", "sigalrm"}
Someone == Clients \cup {NoClient}
WorkerRecord ==
    [pc : WorkerPlaces, conf : Someone, said : {"nothing", "usr1", "usr2"},
     sigint : BOOLEAN, queue : Seq(Clients)]
ClientRecord ==
    [pc : {"idle", "asking", "answered", "connected", "done"},
     wrote : {"nothing", "command", "message"}, ret : Answers]

CtlRecord ==
    [pc : CtlPlaces, client : Someone, ret : Answers, chldPID : Int,
     backlog : Seq(Clients), alarm : BOOLEAN, locks : [LockNames -> BOOLEAN]]

MperfTypeOK ==
    /\ setting.asks \in Seq({"good", "bad", "term"}) /\ setting.completeKill \in BOOLEAN
    /\ ctl \in CtlRecord
    /\ workers \in Seq(WorkerRecord)
    /\ clients \in [Clients -> ClientRecord]
    /\ smem \in Someone

\* Clients come one after another: before one that has begun all are done, and
\* the controller is done with one that was answered.
InTurn ==
    /\ \A c, d \in Clients : c < d /\ clients[d].pc # "idle" => clients[c].pc = "done"
    /\ \A i \in DOMAIN ctl.backlog :
        /\ clients[ctl.backlog[i]].pc # "idle"
        /\ clients[ctl.backlog[i]].pc = "asking" => i = Len(ctl.backlog)
    /\ ctl.pc = "accepts" <=> ctl.client = NoClient
    /\ ctl.client # NoClient =>
        /\ clients[ctl.client].pc # "idle"
        /\ clients[ctl.client].pc = "asking" => ctl.backlog = <<>>
    /\ \A c \in Clients : clients[c].pc \in {"answered", "connected"} =>
        ctl.pc = "accepts" /\ ctl.backlog = <<>>

\* The live workers that would serve a connection: not interrupted
Armed == {w \in Live : workers[w].sigint}

\* Only the last worker may be armed, and none is once it was stopped.
LastArmed ==
    /\ Armed \subseteq {IF ctl.pc = "stores" THEN Len(workers) ELSE ctl.chldPID}
    /\ ctl.pc \in {"waits", "sigterm", "message", "forks"} => Armed = {}

\* An armed worker was forked for the client whose message is in the shared
\* memory, and that is the client that the controller answers.
ForkedFor(c) == Armed = {} \/ smem = c
ArmedForMessage ==
    /\ \A w \in Armed : workers[w].pc = "starts" \/ workers[w].conf = smem
    /\ ctl.pc \in {"forks", "stores", "spins", "looks"} => smem = ctl.client
    /\ ctl.pc = "replies" => ForkedFor(ctl.client)
    /\ \A c \in Clients : clients[c].pc = "answered" => ForkedFor(c)

\* A worker that begins has no connections; one that would serve one, or does,
\* has those of its own client.
OwnConnections ==
    \A w \in DOMAIN workers :
        LET k == workers[w] IN
        /\ k.pc = "starts" => k.sigint /\ k.queue = <<>> /\ k.said = "nothing"
        /\ k.pc \in {"accepted", "serves"} => k.queue # <<>>
        /\ w \in Armed \/ k.pc = "serves" => \A i \in DOMAIN k.queue : k.queue[i] = k.conf

\* With -k only the last worker lives, and none when the next one is forked.
LastLives ==
    setting.completeKill =>
        /\ Live \subseteq {IF ctl.pc = "stores" THEN Len(workers) ELSE ctl.chldPID}
        /\ ctl.pc \in {"message", "forks"} => Live = {}
        /\ ctl.pc \in {"kills", "waits"} /\ ~ctl.locks.sigchld => Live = {}

\* A worker said so of the message of client c.
Said(c, what) == \E w \in DOMAIN workers : workers[w].conf = c /\ workers[w].said = what

\* A lock that is open was opened by the worker of this client.
LocksTrue ==
    /\ ctl.pc \in {"forks", "stores", "spins", "looks"} =>
        /\ ~ctl.locks.sigusr1 => Said(ctl.client, "usr1")
        /\ ~ctl.locks.sigusr2 => Said(ctl.client, "usr2")
    /\ ctl.pc = "looks" => \E l \in {"sigusr1", "sigusr2", "sigalrm"} : ~ctl.locks[l]
    /\ ctl.pc = "replies" /\ MyAsk # "term" =>
        /\ ctl.ret = "SUCC" => Said(ctl.client, "usr1")
        /\ ctl.ret = "EMSG" => Said(ctl.client, "usr2")

MperfInv ==
    /\ MperfTypeOK /\ InTurn /\ LastArmed /\ ArmedForMessage /\ OwnConnections
    /\ LastLives /\ LocksTrue /\ RepliesTrue

-----------------------------------------------------------------------------
\* The locks are the four the handlers release.
LEMMA LockNamesAre == DOMAIN Locked = LockNames
  BY DEF Locked, LockNames

\* Clients are numbers, and none of them is NoClient.
LEMMA ClientNumbers ==
  ASSUME MperfTypeOK
  PROVE  Clients \subseteq Nat /\ NoClient \notin Clients
  BY MperfAssumption DEF MperfTypeOK, Clients

\* What the head and the tail of a sequence are.
LEMMA HeadAndTail ==
  ASSUME NEW S, NEW q \in Seq(S), q # <<>>
  PROVE  /\ Head(q) \in S /\ Tail(q) \in Seq(S)
         /\ Head(q) = q[1] /\ 1 \in DOMAIN q
         /\ Len(q) \in Nat /\ Len(Tail(q)) = Len(q) - 1
         /\ \A i \in DOMAIN Tail(q) : i + 1 \in DOMAIN q /\ Tail(q)[i] = q[i + 1]
         /\ Len(q) = 1 => Tail(q) = <<>>
<1>1. /\ Len(q) \in Nat /\ Len(q) > 0 /\ DOMAIN q = 1 .. Len(q)
      /\ Head(q) = q[1] /\ Tail(q) \in Seq(S) /\ Len(Tail(q)) = Len(q) - 1
      /\ \A i \in 1 .. Len(Tail(q)) : Tail(q)[i] = q[i + 1]
  OBVIOUS
<1>2. DOMAIN Tail(q) = 1 .. Len(Tail(q))
  BY <1>1
<1>3. Len(q) = 1 => Tail(q) = <<>>
  <2>1. Tail(q) # <<>> => Len(Tail(q)) \in Nat \ {0}
    BY <1>1, EmptySeq, Zenon
  <2> QED
    BY <1>1, <2>1
<1> QED
  BY <1>1, <1>2, <1>3

\* The types depend on the clients alone.
LEMMA SameRecords ==
  ASSUME setting' = setting
  PROVE  /\ Clients' = Clients /\ Someone' = Someone
         /\ WorkerRecord' = WorkerRecord /\ CtlRecord' = CtlRecord
  BY DEF Clients, Someone, WorkerRecord, CtlRecord

\* The invariant holds at the start.
LEMMA ControlStarts == MperfInit => MperfInv
<1> SUFFICES ASSUME MperfInit PROVE MperfInv
  OBVIOUS
<1>1. setting.asks \in Seq({"good", "bad", "term"}) /\ setting.completeKill \in BOOLEAN
  BY MperfAssumption DEF MperfInit
<1>2. MperfTypeOK
  BY <1>1, LockNamesAre DEF MperfInit, MperfTypeOK, CtlPlaces, CtlRecord, Answers, Someone, ClientRecord
<1>3. Live = {} /\ Armed = {}
  BY DEF MperfInit, Live, Armed
<1>4. InTurn
  BY DEF MperfInit, InTurn
<1>5. LastArmed /\ ArmedForMessage /\ OwnConnections /\ LastLives /\ LocksTrue
  BY <1>3 DEF MperfInit, LastArmed, ArmedForMessage, OwnConnections, LastLives, LocksTrue, ForkedFor
<1>6. RepliesTrue
  BY DEF MperfInit, RepliesTrue
<1> QED
  BY <1>2, <1>4, <1>5, <1>6 DEF MperfInv

-----------------------------------------------------------------------------
\* What a step does to workers that takes no new ones, configures none and
\* serves nobody: they move on, are interrupted or end.
QuietWorkers ==
    /\ workers' \in Seq(WorkerRecord) /\ Len(workers') = Len(workers)
    /\ \A w \in DOMAIN workers :
        /\ workers'[w].conf = workers[w].conf /\ workers'[w].said = workers[w].said
        /\ workers'[w].queue = workers[w].queue
        /\ workers'[w].sigint => workers[w].sigint
        /\ workers[w].pc = "dead" => workers'[w].pc = "dead"
        /\ workers'[w].pc = "starts" => workers[w].pc = "starts" /\ workers'[w].sigint
        /\ workers[w].pc = "starts" => workers'[w].pc \in {"starts", "dead"}
        /\ workers'[w].pc = "accepted" => workers[w].queue # <<>>
        /\ workers'[w].pc = "serves" => workers[w].pc = "serves"

\* What a step does to clients that only ends some.
ClientsEnd ==
    /\ clients' \in [Clients -> ClientRecord]
    /\ \A c \in Clients :
        /\ clients'[c].ret = clients[c].ret
        /\ \/ clients'[c].pc = clients[c].pc
           \/ clients[c].pc # "idle" /\ clients'[c].pc = "done"

\* What such a step of workers keeps.
LEMMA QuietKeeps ==
  ASSUME MperfInv, QuietWorkers, smem' = smem, setting' = setting
  PROVE  /\ Armed' \subseteq Armed /\ Live' \subseteq Live
         /\ OwnConnections'
         /\ \A c : ForkedFor(c) => ForkedFor(c)'
         /\ \A w \in Armed' : workers'[w].pc = "starts" \/ workers'[w].conf = smem'
         /\ \A c, what : Said(c, what) => Said(c, what)'
<1>1. DOMAIN workers' = DOMAIN workers
  BY DEF QuietWorkers, MperfInv, MperfTypeOK
<1>2. Live' \subseteq Live
  BY <1>1 DEF QuietWorkers, Live
<1>3. Armed' \subseteq Armed
  BY <1>1, <1>2 DEF QuietWorkers, Armed, Live
<1>4. OwnConnections'
  <2> SUFFICES ASSUME NEW w \in DOMAIN workers
               PROVE  LET k == workers'[w] IN
                      /\ k.pc = "starts" => k.sigint /\ k.queue = <<>> /\ k.said = "nothing"
                      /\ k.pc \in {"accepted", "serves"} => k.queue # <<>>
                      /\ w \in Armed' \/ k.pc = "serves" => \A i \in DOMAIN k.queue : k.queue[i] = k.conf
    BY <1>1 DEF OwnConnections
  <2> QED
    BY <1>3 DEF QuietWorkers, OwnConnections, MperfInv
<1>5. \A c : ForkedFor(c) => ForkedFor(c)'
  BY <1>3 DEF ForkedFor
<1>6. \A w \in Armed' : workers'[w].pc = "starts" \/ workers'[w].conf = smem'
  BY <1>1, <1>3 DEF QuietWorkers, ArmedForMessage, MperfInv, Armed, Live
<1>7. \A c, what : Said(c, what) => Said(c, what)'
  BY <1>1 DEF Said, QuietWorkers
<1> QED
  BY <1>2, <1>3, <1>4, <1>5, <1>6, <1>7

\* The order of the clients does not mind that one ends.
LEMMA EndKeepsOrder ==
  ASSUME MperfInv, ClientsEnd, setting' = setting, ctl'.backlog = ctl.backlog,
         ctl'.pc = "accepts" <=> ctl'.client = NoClient,
         \/ ctl'.client = ctl.client /\ (ctl.pc = "accepts" => ctl'.pc = "accepts")
         \/ ctl'.client = NoClient
  PROVE  InTurn'
<1>1. Clients' = Clients
  BY DEF Clients
<1>2. InTurn
  BY DEF MperfInv
<1>3. /\ \A c, d \in Clients : c < d /\ clients'[d].pc # "idle" => clients'[c].pc = "done"
      /\ \A c \in Clients : clients'[c].pc \in {"answered", "connected"} =>
              clients[c].pc \in {"answered", "connected"}
      /\ \A c \in Clients : clients'[c].pc = "asking" => clients[c].pc = "asking"
      /\ \A c \in Clients : clients'[c].pc = "idle" => clients[c].pc = "idle"
  BY <1>2 DEF InTurn, ClientsEnd
<1>4. ctl.client \in Someone /\ \A i \in DOMAIN ctl.backlog : ctl.backlog[i] \in Clients
  BY DEF MperfInv, MperfTypeOK, CtlRecord
<1>5. \A i \in DOMAIN ctl'.backlog :
        /\ clients'[ctl'.backlog[i]].pc # "idle"
        /\ clients'[ctl'.backlog[i]].pc = "asking" => i = Len(ctl'.backlog)
  BY <1>2, <1>3, <1>4 DEF InTurn
<1>6. ctl'.client # NoClient =>
        /\ clients'[ctl'.client].pc # "idle"
        /\ clients'[ctl'.client].pc = "asking" => ctl'.backlog = <<>>
  BY <1>2, <1>3, <1>4 DEF InTurn, Someone
<1>7. \A c \in Clients : clients'[c].pc \in {"answered", "connected"} =>
        ctl'.pc = "accepts" /\ ctl'.backlog = <<>>
  BY <1>2, <1>3 DEF InTurn
<1> QED
  BY <1>1, <1>3, <1>5, <1>6, <1>7 DEF InTurn

\* The answers clients got stay true while workers keep what they said.
LEMMA AnswersStay ==
  ASSUME MperfInv, setting' = setting,
         \A c \in Clients : clients'[c].ret = clients[c].ret,
         \A c, what : Said(c, what) => Said(c, what)'
  PROVE  RepliesTrue'
<1>1. Clients' = Clients
  BY DEF Clients
<1>2. \A c \in Clients : setting.asks[c] # "term" =>
        /\ clients[c].ret = "SUCC" => Said(c, "usr1")
        /\ clients[c].ret = "EMSG" => Said(c, "usr2")
  BY DEF MperfInv, RepliesTrue, Said
<1> QED
  BY <1>1, <1>2 DEF RepliesTrue, Said

\* So do the locks, while the controller goes from lock to answer.
LEMMA LocksStay ==
  ASSUME MperfInv, setting' = setting, ctl'.pc = ctl.pc, ctl'.client = ctl.client,
         ctl'.ret = ctl.ret,
         \A l \in {"sigusr1", "sigusr2"} : ctl'.locks[l] = ctl.locks[l],
         ctl.locks["sigalrm"] = FALSE => ctl'.locks["sigalrm"] = FALSE,
         \A c, what : Said(c, what) => Said(c, what)'
  PROVE  LocksTrue'
<1>1. \A l \in {"sigusr1", "sigusr2", "sigalrm"} : ~ctl.locks[l] => ~ctl'.locks[l]
  BY DEF MperfInv, MperfTypeOK, CtlRecord, LockNames
<1> QED
  BY <1>1 DEF MperfInv, LocksTrue, MyAsk

-----------------------------------------------------------------------------
\* The controller takes the next client: if it still asks, it is the last one.
LEMMA ControllerAcceptsKeeps ==
  ASSUME MperfInv, ControllerAccepts
  PROVE  MperfInv'
<1>0. /\ MperfTypeOK /\ InTurn /\ LastArmed /\ ArmedForMessage /\ OwnConnections
      /\ LastLives /\ LocksTrue /\ RepliesTrue
  BY DEF MperfInv
<1>1. workers' = workers /\ clients' = clients /\ smem' = smem /\ setting' = setting
  BY DEF ControllerAccepts
<1>2. Live' = Live /\ Armed' = Armed /\ Clients' = Clients
  BY <1>1 DEF Live, Armed, Clients
<1>3. /\ Head(ctl.backlog) \in Clients /\ Tail(ctl.backlog) \in Seq(Clients)
      /\ Head(ctl.backlog) = ctl.backlog[1] /\ Len(ctl.backlog) \in Nat /\ 1 \in DOMAIN ctl.backlog
      /\ Len(Tail(ctl.backlog)) = Len(ctl.backlog) - 1
      /\ \A i \in DOMAIN Tail(ctl.backlog) :
            i + 1 \in DOMAIN ctl.backlog /\ Tail(ctl.backlog)[i] = ctl.backlog[i + 1]
      /\ (Len(ctl.backlog) = 1 => Tail(ctl.backlog) = <<>>)
  <2>1. ctl.backlog \in Seq(Clients) /\ ctl.backlog # <<>>
    BY <1>0 DEF MperfTypeOK, CtlRecord, ControllerAccepts
  <2> QED
    BY <2>1, HeadAndTail
<1>4. /\ ctl' \in CtlRecord /\ ctl.pc = "accepts" /\ ctl'.pc = "command"
      /\ ctl'.client = Head(ctl.backlog) /\ ctl'.backlog = Tail(ctl.backlog)
      /\ ctl'.chldPID = ctl.chldPID
  BY <1>0, <1>3 DEF MperfTypeOK, CtlRecord, CtlPlaces, Answers, Someone, ControllerAccepts, CtlAt
<1>5. /\ \A c \in Clients : clients[c].pc \notin {"answered", "connected"}
      /\ clients[Head(ctl.backlog)].pc # "idle"
      /\ clients[Head(ctl.backlog)].pc = "asking" => Tail(ctl.backlog) = <<>>
      /\ NoClient \notin Clients
  BY <1>0, <1>3, ClientNumbers DEF InTurn
<1>6. \A i \in DOMAIN Tail(ctl.backlog) :
        /\ clients[Tail(ctl.backlog)[i]].pc # "idle"
        /\ clients[Tail(ctl.backlog)[i]].pc = "asking" => i = Len(Tail(ctl.backlog))
  BY <1>0, <1>3 DEF InTurn
<1>7. MperfTypeOK'
  BY <1>0, <1>1, <1>2, <1>4, SameRecords DEF MperfTypeOK
<1>8. InTurn'
  BY <1>0, <1>1, <1>2, <1>3, <1>4, <1>5, <1>6 DEF InTurn
<1>9. LastArmed' /\ LastLives'
  BY <1>0, <1>1, <1>2, <1>4 DEF LastArmed, LastLives
<1>10. ArmedForMessage'
  BY <1>0, <1>1, <1>2, <1>4 DEF ArmedForMessage, ForkedFor
<1>11. OwnConnections'
  BY <1>0, <1>1, <1>2 DEF OwnConnections
<1>12. LocksTrue'
  BY <1>4 DEF LocksTrue
<1>13. RepliesTrue'
  BY <1>0, <1>1, <1>2 DEF RepliesTrue
<1> QED
  BY <1>7, <1>8, <1>9, <1>10, <1>11, <1>12, <1>13 DEF MperfInv

\* What has to be shown of a step of the controller alone that neither takes a
\* client nor leaves one.
LEMMA ControllerAloneKeeps ==
  ASSUME MperfInv, UNCHANGED <<workers, clients, smem, setting>>,
         ctl' \in CtlRecord, ctl'.client = ctl.client, ctl'.backlog = ctl.backlog,
         ctl'.pc = "accepts" <=> ctl.pc = "accepts",
         LastArmed', LastLives', LocksTrue',
         ctl'.pc \in {"forks", "stores", "spins", "looks"} => smem = ctl.client,
         ctl'.pc = "replies" => ForkedFor(ctl.client)
  PROVE  MperfInv'
<1>0. /\ MperfTypeOK /\ InTurn /\ ArmedForMessage /\ OwnConnections /\ RepliesTrue
  BY DEF MperfInv
<1>1. /\ workers' = workers /\ clients' = clients /\ smem' = smem /\ setting' = setting
      /\ Live' = Live /\ Armed' = Armed /\ Clients' = Clients
  BY DEF Live, Armed, Clients
<1>2. MperfTypeOK'
  BY <1>0, <1>1, SameRecords DEF MperfTypeOK
<1>3. InTurn'
  BY <1>0, <1>1 DEF InTurn
<1>4. ArmedForMessage'
  BY <1>0, <1>1 DEF ArmedForMessage, ForkedFor
<1>5. OwnConnections' /\ RepliesTrue'
  BY <1>0, <1>1 DEF OwnConnections, RepliesTrue
<1> QED
  BY <1>2, <1>3, <1>4, <1>5 DEF MperfInv

\* The locks are set before the signal is sent.
LEMMA TerminateArmsKeeps ==
  ASSUME MperfInv, TerminateArms
  PROVE  MperfInv'
<1>1. /\ ctl \in CtlRecord /\ UNCHANGED <<workers, clients, smem, setting>>
      /\ Live' = Live /\ Armed' = Armed
  BY DEF MperfInv, MperfTypeOK, TerminateArms, Live, Armed
<1>2. /\ ctl.pc = "terminates" /\ ctl'.pc = "kills"
      /\ ctl' \in CtlRecord /\ ctl'.client = ctl.client /\ ctl'.backlog = ctl.backlog
      /\ ctl'.chldPID = ctl.chldPID /\ ctl'.locks["sigchld"] = TRUE
  BY <1>1 DEF CtlRecord, CtlPlaces, LockNames, TerminateArms, CtlAt
<1>3. LastArmed' /\ LastLives'
  BY <1>1, <1>2 DEF MperfInv, LastArmed, LastLives
<1>4. LocksTrue'
  BY <1>2 DEF LocksTrue
<1> QED
  BY <1>1, <1>2, <1>3, <1>4, ControllerAloneKeeps

\* No worker is armed after the wait; with -k none lives, unless it is killed.
LEMMA TerminateWaitsKeeps ==
  ASSUME MperfInv, TerminateWaits
  PROVE  MperfInv'
<1>1. /\ ctl \in CtlRecord /\ UNCHANGED <<workers, clients, smem, setting>>
      /\ Live' = Live /\ Armed' = Armed
  BY DEF MperfInv, MperfTypeOK, TerminateWaits, Live, Armed
<1>2. /\ ctl.pc = "waits" /\ ctl'.pc = IF KillsCompletely THEN "sigterm" ELSE AfterTerminate
      /\ ctl' \in CtlRecord /\ ctl'.client = ctl.client /\ ctl'.backlog = ctl.backlog
      /\ ctl'.chldPID = ctl.chldPID
  BY <1>1 DEF CtlRecord, CtlPlaces, TerminateWaits, CtlAt, AfterTerminate
<1>3. /\ ctl'.pc \in {"sigterm", "replies", "message"}
      /\ ctl'.pc = "replies" => MyAsk = "term"
      /\ ctl'.pc = "message" => ~KillsCompletely
  BY <1>2 DEF AfterTerminate
<1>4. Armed = {} /\ LastArmed'
  BY <1>1, <1>2 DEF MperfInv, LastArmed
<1>5. LastLives'
  <2>1. setting.completeKill => ctl.locks["sigchld"] \in BOOLEAN /\ Live \subseteq {ctl.chldPID}
    BY <1>1, <1>2 DEF CtlRecord, LockNames, MperfInv, LastLives
  <2>2. setting.completeKill /\ ctl'.pc = "message" => Live = {}
    BY <1>2, <1>3 DEF MperfInv, LastLives, KillsCompletely
  <2> QED
    BY <1>1, <1>2, <1>3, <2>1, <2>2 DEF LastLives
<1>6. LocksTrue'
  BY <1>1, <1>2, <1>3 DEF LocksTrue, MyAsk
<1> QED
  BY <1>1, <1>2, <1>3, <1>4, <1>5, <1>6, ControllerAloneKeeps DEF ForkedFor

\* The worker forked last is the one the controller knows.
LEMMA StorePidKeeps ==
  ASSUME MperfInv, StorePid
  PROVE  MperfInv'
<1>1. /\ ctl \in CtlRecord /\ UNCHANGED <<workers, clients, smem, setting>>
      /\ Live' = Live /\ Armed' = Armed /\ Len(workers) \in Int
  BY DEF MperfInv, MperfTypeOK, StorePid, Live, Armed
<1>2. /\ ctl.pc = "stores" /\ ctl'.pc = "spins" /\ ctl'.chldPID = Len(workers)
      /\ ctl' \in CtlRecord /\ ctl'.client = ctl.client /\ ctl'.backlog = ctl.backlog
      /\ ctl'.locks = ctl.locks
  BY <1>1 DEF CtlRecord, CtlPlaces, StorePid, CtlAt
<1>3. LastArmed' /\ LastLives'
  BY <1>1, <1>2 DEF MperfInv, LastArmed, LastLives
<1>4. LocksTrue' /\ smem = ctl.client
  BY <1>1, <1>2 DEF MperfInv, LocksTrue, Said, ArmedForMessage
<1> QED
  BY <1>1, <1>2, <1>3, <1>4, ControllerAloneKeeps

\* A lock is open when the wait is over.
LEMMA ConfigureSpinsKeeps ==
  ASSUME MperfInv, ConfigureSpins
  PROVE  MperfInv'
<1>1. /\ ctl \in CtlRecord /\ UNCHANGED <<workers, clients, smem, setting>>
      /\ Live' = Live /\ Armed' = Armed
  BY DEF MperfInv, MperfTypeOK, ConfigureSpins, Live, Armed
<1>2. /\ ctl.pc = "spins" /\ ctl'.pc = "looks"
      /\ \E l \in {"sigusr1", "sigusr2", "sigalrm"} : ~ctl.locks[l]
      /\ ctl' \in CtlRecord /\ ctl'.client = ctl.client /\ ctl'.backlog = ctl.backlog
      /\ ctl'.chldPID = ctl.chldPID /\ ctl'.locks = ctl.locks
  BY <1>1 DEF CtlRecord, CtlPlaces, ConfigureSpins, CtlAt
<1>3. LastArmed' /\ LastLives'
  BY <1>1, <1>2 DEF MperfInv, LastArmed, LastLives
<1>4. LocksTrue' /\ smem = ctl.client
  BY <1>1, <1>2 DEF MperfInv, LocksTrue, Said, ArmedForMessage
<1> QED
  BY <1>1, <1>2, <1>3, <1>4, ControllerAloneKeeps

\* What the controller makes of the locks is what the worker said.
LEMMA ConfigureLooksKeeps ==
  ASSUME MperfInv, ConfigureLooks
  PROVE  MperfInv'
<1>1. /\ ctl \in CtlRecord /\ UNCHANGED <<workers, clients, smem, setting>>
      /\ Live' = Live /\ Armed' = Armed
  BY DEF MperfInv, MperfTypeOK, ConfigureLooks, Live, Armed
<1>2. /\ ctl.pc = "looks" /\ ctl'.pc = "replies" /\ ctl'.ret = Outcome
      /\ ctl' \in CtlRecord /\ ctl'.client = ctl.client /\ ctl'.backlog = ctl.backlog
      /\ ctl'.chldPID = ctl.chldPID
  BY <1>1 DEF CtlRecord, CtlPlaces, Answers, Outcome, ConfigureLooks, CtlAt
<1>3. LastArmed' /\ LastLives'
  BY <1>1, <1>2 DEF MperfInv, LastArmed, LastLives
<1>4. ForkedFor(ctl.client)
  BY <1>2 DEF MperfInv, ArmedForMessage, ForkedFor
<1>5. LocksTrue'
  <2>1. /\ Outcome = "SUCC" => ~ctl.locks.sigusr1
        /\ Outcome = "EMSG" => ~ctl.locks.sigusr2
    BY <1>2 DEF MperfInv, LocksTrue, Outcome
  <2> QED
    BY <1>1, <1>2, <2>1 DEF MperfInv, LocksTrue, Said
<1> QED
  BY <1>1, <1>2, <1>3, <1>4, <1>5, ControllerAloneKeeps

\* The alarm opens its own lock only.
LEMMA AlarmFiresKeeps ==
  ASSUME MperfInv, AlarmFires
  PROVE  MperfInv'
<1>1. /\ ctl \in CtlRecord /\ UNCHANGED <<workers, clients, smem, setting>>
      /\ Live' = Live /\ Armed' = Armed
  BY DEF MperfInv, MperfTypeOK, AlarmFires, Live, Armed
<1>2. /\ ctl' \in CtlRecord /\ ctl'.pc = ctl.pc /\ ctl'.client = ctl.client
      /\ ctl'.backlog = ctl.backlog /\ ctl'.chldPID = ctl.chldPID /\ ctl'.ret = ctl.ret
      /\ \A l \in LockNames \ {"sigalrm"} : ctl'.locks[l] = ctl.locks[l]
      /\ ctl'.locks["sigalrm"] = FALSE
  <2>1. ctl.locks \in [LockNames -> BOOLEAN] /\ "sigalrm" \in LockNames
    BY <1>1 DEF CtlRecord, LockNames
  <2>2. PICK locks \in [LockNames -> BOOLEAN] : locks = [ctl.locks EXCEPT !["sigalrm"] = FALSE]
    BY <2>1
  <2>3. ctl' = [ctl EXCEPT !.locks = locks, !.alarm = FALSE]
    BY <1>1, <2>2 DEF AlarmFires, Released, CtlRecord
  <2> QED
    BY <1>1, <2>1, <2>2, <2>3 DEF CtlRecord
<1>3. \A l \in {"sigusr1", "sigusr2", "sigchld"} : ctl'.locks[l] = ctl.locks[l]
  BY <1>2 DEF LockNames
<1>4. LastArmed' /\ LastLives'
  BY <1>1, <1>2, <1>3 DEF MperfInv, LastArmed, LastLives
<1>5. LocksTrue'
  <2>1. \A c, what : Said(c, what) => Said(c, what)'
    BY <1>1 DEF Said
  <2>2. \A l \in {"sigusr1", "sigusr2"} : ctl'.locks[l] = ctl.locks[l]
    BY <1>3
  <2> QED
    BY <1>1, <1>2, <2>1, <2>2, LocksStay
<1>6. /\ ctl.pc \in {"forks", "stores", "spins", "looks"} => smem = ctl.client
      /\ ctl.pc = "replies" => ForkedFor(ctl.client)
  BY DEF MperfInv, ArmedForMessage
<1> QED
  BY <1>1, <1>2, <1>4, <1>5, <1>6, ControllerAloneKeeps

\* The controller finds the client gone, or its command and what has to be stopped.
LEMMA ParseCommandKeeps ==
  ASSUME MperfInv, ParseCommand
  PROVE  MperfInv'
<1>0. /\ MperfTypeOK /\ InTurn /\ LastArmed /\ ArmedForMessage /\ OwnConnections
      /\ LastLives /\ LocksTrue /\ RepliesTrue
  BY DEF MperfInv
<1>1. workers' = workers /\ smem' = smem /\ setting' = setting
  BY DEF ParseCommand
<1>2. Live' = Live /\ Armed' = Armed /\ Clients' = Clients
  BY <1>1 DEF Live, Armed, Clients
<1>a. /\ ctl.client \in Clients /\ ctl.pc = "command"
  BY <1>0 DEF MperfTypeOK, CtlRecord, InTurn, ParseCommand, CtlAt, Someone
<1>b. ClientsEnd
  <2>1. CASE clients[ctl.client].wrote = "nothing"
    <3>1. clients' = HangsUp(clients, ctl.client)
      BY <2>1 DEF ParseCommand, ControllerCloses
    <3> QED
      BY <1>0, <1>a, <3>1 DEF HangsUp, ClientsEnd, MperfTypeOK, ClientRecord
  <2>2. CASE clients[ctl.client].wrote # "nothing"
    BY <1>0, <2>2 DEF ParseCommand, ClientsEnd, MperfTypeOK
  <2> QED
    BY <2>1, <2>2
<1>c. \/ /\ ctl'.pc = "accepts" /\ ctl'.client = NoClient
         /\ ctl' = [ctl EXCEPT !.pc = "accepts", !.client = NoClient, !.ret = "none"]
      \/ /\ ctl'.pc = IF ctl.chldPID > 0 THEN "terminates" ELSE AfterTerminate
         /\ ctl' = [ctl EXCEPT !.pc = IF ctl.chldPID > 0 THEN "terminates" ELSE AfterTerminate]
         /\ ctl'.client = ctl.client
  BY <1>0 DEF ParseCommand, ControllerCloses, MperfTypeOK, CtlRecord
<1>d. AfterTerminate \in {"replies", "message"} /\ (AfterTerminate = "replies" => MyAsk = "term")
  BY DEF AfterTerminate
<1>e. ctl'.chldPID = ctl.chldPID /\ ctl'.backlog = ctl.backlog /\ ctl' \in CtlRecord
  BY <1>0, <1>c, <1>d DEF MperfTypeOK, CtlRecord, CtlPlaces, Answers, Someone
<1>f. ctl'.pc \in {"replies", "message"} => Armed = {} /\ (setting.completeKill => Live = {})
  <2>1. \A w \in Live : w > 0
    BY <1>0 DEF Live, MperfTypeOK
  <2>2. ctl'.pc \in {"replies", "message"} => ~(ctl.chldPID > 0)
    BY <1>c
  <2> QED
    BY <1>0, <1>a, <2>1, <2>2 DEF LastArmed, LastLives, Armed, MperfTypeOK, CtlRecord
<1>3. MperfTypeOK'
  BY <1>0, <1>1, <1>2, <1>b, <1>e, SameRecords DEF MperfTypeOK, ClientsEnd
<1>4. InTurn'
  BY <1>0, <1>1, <1>a, <1>b, <1>c, <1>d, <1>e, EndKeepsOrder, ClientNumbers
<1>5. LastArmed'
  BY <1>0, <1>1, <1>2, <1>a, <1>c, <1>d, <1>e, <1>f DEF LastArmed
<1>6. ArmedForMessage'
  BY <1>0, <1>1, <1>2, <1>b, <1>c, <1>d, <1>f DEF ArmedForMessage, ForkedFor, ClientsEnd
<1>7. OwnConnections'
  BY <1>0, <1>1, <1>2 DEF OwnConnections
<1>8. LastLives'
  BY <1>0, <1>1, <1>2, <1>a, <1>c, <1>d, <1>e, <1>f DEF LastLives
<1>9. LocksTrue'
  BY <1>0, <1>1, <1>2, <1>c, <1>d DEF LocksTrue, MyAsk
<1>10. RepliesTrue'
  BY <1>0, <1>1, <1>b, AnswersStay DEF ClientsEnd, Said
<1> QED
  BY <1>3, <1>4, <1>5, <1>6, <1>7, <1>8, <1>9, <1>10 DEF MperfInv

\* The controller answers a client that still asks.
LEMMA ReplyKeeps ==
  ASSUME MperfInv, Reply
  PROVE  MperfInv'
<1>0. /\ MperfTypeOK /\ InTurn /\ LastArmed /\ ArmedForMessage /\ OwnConnections
      /\ LastLives /\ LocksTrue /\ RepliesTrue
  BY DEF MperfInv
<1>1. workers' = workers /\ smem' = smem /\ setting' = setting
  BY DEF Reply
<1>2. Live' = Live /\ Armed' = Armed /\ Clients' = Clients
  BY <1>1 DEF Live, Armed, Clients
<1>a. /\ ctl.client \in Clients /\ ctl.pc = "replies"
  BY <1>0 DEF MperfTypeOK, CtlRecord, InTurn, Reply, CtlAt, Someone
<1>b. /\ ctl' \in CtlRecord /\ ctl'.pc = "accepts" /\ ctl'.client = NoClient
      /\ ctl'.chldPID = ctl.chldPID /\ ctl'.backlog = ctl.backlog
  BY <1>0 DEF Reply, ControllerCloses, MperfTypeOK, CtlRecord, CtlPlaces, Answers, Someone
<1>c. /\ clients' \in [Clients -> ClientRecord]
      /\ \A c \in Clients :
            IF c = ctl.client /\ clients[c].pc = "asking"
            THEN clients'[c].pc = "answered" /\ clients'[c].ret = ctl.ret
            ELSE clients'[c] = clients[c]
  <2> DEFINE c0 == clients[ctl.client]
             answered == IF c0.pc = "asking" THEN [c0 EXCEPT !.pc = "answered", !.ret = ctl.ret] ELSE c0
             told == [clients EXCEPT ![ctl.client] = answered]
  <2>1. clients' = HangsUp(told, ctl.client)
    BY DEF Reply, ControllerCloses
  <2>2. c0 \in ClientRecord /\ ctl.ret \in Answers
    BY <1>0, <1>a DEF MperfTypeOK, CtlRecord
  <2>3. /\ answered \in ClientRecord /\ answered.pc # "asking"
        /\ IF c0.pc = "asking" THEN answered.pc = "answered" /\ answered.ret = ctl.ret ELSE answered = c0
    BY <2>2 DEF ClientRecord
  <2>4. /\ told \in [Clients -> ClientRecord] /\ told[ctl.client] = answered
        /\ \A c \in Clients : c # ctl.client => told[c] = clients[c]
    <3> HIDE DEF answered
    <3> QED
      BY <1>0, <1>a, <2>3 DEF MperfTypeOK
  <2>5. clients' = told
    <3> HIDE DEF answered, told
    <3>1. [told[ctl.client] EXCEPT !.pc = told[ctl.client].pc] = told[ctl.client]
      BY <2>3, <2>4 DEF ClientRecord
    <3> QED
      BY <1>a, <2>1, <2>3, <2>4, <3>1 DEF HangsUp
  <2> HIDE DEF c0, answered, told
  <2> QED
    BY <1>a, <2>3, <2>4, <2>5 DEF c0
<1>3. MperfTypeOK'
  BY <1>0, <1>1, <1>2, <1>b, <1>c, SameRecords DEF MperfTypeOK
<1>4. InTurn'
  <2>1. \A i \in DOMAIN ctl.backlog : ctl.backlog[i] \in Clients
    BY <1>0 DEF MperfTypeOK, CtlRecord
  <2>2. \A c \in Clients :
          /\ clients'[c].pc = "idle" <=> clients[c].pc = "idle"
          /\ clients'[c].pc = "done" <=> clients[c].pc = "done"
          /\ clients'[c].pc = "asking" => clients[c].pc = "asking"
          /\ clients'[c].pc \in {"answered", "connected"} =>
                 \/ clients[c].pc \in {"answered", "connected"}
                 \/ c = ctl.client /\ clients[c].pc = "asking"
    BY <1>c
  <2>3. \A c \in Clients : clients'[c].pc \in {"answered", "connected"} => ctl.backlog = <<>>
    BY <1>0, <1>a, <2>2, ClientNumbers DEF InTurn
  <2> QED
    BY <1>0, <1>2, <1>a, <1>b, <2>1, <2>2, <2>3 DEF InTurn
<1>5. LastArmed'
  BY <1>0, <1>1, <1>2, <1>a, <1>b DEF LastArmed
<1>6. ArmedForMessage'
  BY <1>0, <1>1, <1>2, <1>a, <1>b, <1>c DEF ArmedForMessage, ForkedFor
<1>7. OwnConnections'
  BY <1>0, <1>1, <1>2 DEF OwnConnections
<1>8. LastLives'
  BY <1>0, <1>1, <1>2, <1>a, <1>b DEF LastLives
<1>9. LocksTrue'
  BY <1>b DEF LocksTrue
<1>10. RepliesTrue'
  <2>1. setting.asks[ctl.client] # "term" =>
          /\ ctl.ret = "SUCC" => Said(ctl.client, "usr1")
          /\ ctl.ret = "EMSG" => Said(ctl.client, "usr2")
    BY <1>0, <1>a DEF LocksTrue, MyAsk
  <2>2. \A c \in Clients : setting.asks[c] # "term" =>
          /\ clients'[c].ret = "SUCC" => Said(c, "usr1")
          /\ clients'[c].ret = "EMSG" => Said(c, "usr2")
    BY <1>0, <1>c, <2>1 DEF RepliesTrue, Said
  <2> QED
    BY <1>1, <1>2, <2>2 DEF RepliesTrue, Said
<1> QED
  BY <1>3, <1>4, <1>5, <1>6, <1>7, <1>8, <1>9, <1>10 DEF MperfInv

\* The message comes into the shared memory when no worker is armed that could
\* take it for its own.
LEMMA ConfigureReceivesKeeps ==
  ASSUME MperfInv, ConfigureReceives
  PROVE  MperfInv'
<1>0. /\ MperfTypeOK /\ InTurn /\ LastArmed /\ ArmedForMessage /\ OwnConnections
      /\ LastLives /\ LocksTrue /\ RepliesTrue
  BY DEF MperfInv
<1>1. workers' = workers /\ clients' = clients /\ setting' = setting
  BY DEF ConfigureReceives
<1>2. Live' = Live /\ Armed' = Armed /\ Clients' = Clients
  BY <1>1 DEF Live, Armed, Clients
<1>a. /\ ctl.client \in Clients /\ ctl.pc = "message" /\ Armed = {} /\ (setting.completeKill => Live = {})
  BY <1>0 DEF MperfTypeOK, CtlRecord, InTurn, ConfigureReceives, CtlAt, Someone, LastArmed, LastLives
<1>b. PICK locks \in [LockNames -> BOOLEAN] :
        locks = LocksForFork(ctl.locks) /\ locks["sigusr1"] /\ locks["sigusr2"]
  <2>1. ctl.locks \in [LockNames -> BOOLEAN] /\ {"sigusr1", "sigusr2", "sigalrm"} \subseteq LockNames
    BY <1>0 DEF MperfTypeOK, CtlRecord, LockNames
  <2>2. /\ LocksForFork(ctl.locks) \in [LockNames -> BOOLEAN]
        /\ LocksForFork(ctl.locks)["sigusr1"] /\ LocksForFork(ctl.locks)["sigusr2"]
    BY <2>1 DEF LocksForFork
  <2> QED
    BY <2>2
<1>c. /\ ctl'.chldPID = ctl.chldPID /\ ctl'.backlog = ctl.backlog /\ ctl'.client = ctl.client
      /\ ctl' \in CtlRecord
      /\ \/ ctl'.pc = "forks" /\ smem' = ctl.client /\ ctl'.locks["sigusr1"] /\ ctl'.locks["sigusr2"]
         \/ ctl'.pc = "replies" /\ ctl'.ret = "EREAD" /\ smem' = smem
  <2>1. \/ /\ ctl' = [ctl EXCEPT !.pc = "forks", !.alarm = TRUE, !.locks = locks]
           /\ smem' = ctl.client
        \/ ctl' = [ctl EXCEPT !.pc = "replies", !.ret = "EREAD"] /\ smem' = smem
    BY <1>b DEF ConfigureReceives
  <2> QED
    BY <1>0, <1>b, <2>1 DEF MperfTypeOK, CtlRecord, CtlPlaces, Answers
<1>3. MperfTypeOK'
  BY <1>0, <1>1, <1>2, <1>a, <1>b, <1>c, SameRecords DEF MperfTypeOK, Someone
<1>4. InTurn'
  BY <1>0, <1>1, <1>2, <1>a, <1>b, <1>c, ClientNumbers DEF InTurn
<1>5. LastArmed'
  BY <1>1, <1>2, <1>a DEF LastArmed
<1>6. ArmedForMessage'
  BY <1>1, <1>2, <1>a, <1>b, <1>c DEF ArmedForMessage, ForkedFor
<1>7. OwnConnections'
  BY <1>0, <1>1, <1>2 DEF OwnConnections
<1>8. LastLives'
  BY <1>0, <1>1, <1>2, <1>a, <1>b, <1>c DEF LastLives
<1>9. LocksTrue'
  BY <1>1, <1>b, <1>c DEF LocksTrue
<1>10. RepliesTrue'
  BY <1>0, <1>1, <1>2 DEF RepliesTrue
<1> QED
  BY <1>3, <1>4, <1>5, <1>6, <1>7, <1>8, <1>9, <1>10 DEF MperfInv

\* A worker is forked: it alone is armed, and the message is that of its client.
LEMMA ForkKeeps ==
  ASSUME MperfInv, Fork
  PROVE  MperfInv'
<1>0. /\ MperfTypeOK /\ InTurn /\ LastArmed /\ ArmedForMessage /\ OwnConnections
      /\ LastLives /\ LocksTrue /\ RepliesTrue
  BY DEF MperfInv
<1>1. clients' = clients /\ smem' = smem /\ setting' = setting /\ Clients' = Clients
  BY DEF Fork, Clients
<1>a. /\ ctl.client \in Clients /\ ctl.pc = "forks" /\ Armed = {} /\ (setting.completeKill => Live = {})
      /\ smem = ctl.client
  BY <1>0 DEF MperfTypeOK, CtlRecord, InTurn, Fork, CtlAt, Someone, LastArmed, LastLives, ArmedForMessage
<1>2. CASE ctl' = [ctl EXCEPT !.pc = "stores"] /\ workers' = Append(workers, NewWorker)
  <2>1. /\ ctl' \in CtlRecord /\ ctl'.pc = "stores" /\ ctl'.client = ctl.client /\ ctl'.backlog = ctl.backlog
        /\ ctl'.locks = ctl.locks
    BY <1>0, <1>2 DEF MperfTypeOK, CtlRecord, CtlPlaces
  <2>2. NewWorker \in WorkerRecord
    BY DEF NewWorker, WorkerRecord, WorkerPlaces, Someone
  <2>3. /\ Len(workers) \in Nat /\ Len(workers') = Len(workers) + 1
        /\ workers' \in Seq(WorkerRecord)
        /\ DOMAIN workers = 1 .. Len(workers)
        /\ DOMAIN workers' = 1 .. (Len(workers) + 1)
        /\ workers'[Len(workers) + 1] = NewWorker
        /\ \A w \in DOMAIN workers : workers'[w] = workers[w]
    BY <1>0, <1>2, <2>2 DEF MperfTypeOK
  <2>4. Live' = Live \cup {Len(workers')} /\ Armed' = {Len(workers')}
    <3>1. Live' = Live \cup {Len(workers')}
      BY <2>3 DEF Live, NewWorker
    <3>2. \A w \in Live : ~workers[w].sigint /\ workers'[w] = workers[w] /\ w # Len(workers')
      BY <1>a, <2>3 DEF Armed, Live
    <3>3. workers'[Len(workers')].sigint
      BY <2>3 DEF NewWorker
    <3> QED
      BY <3>1, <3>2, <3>3 DEF Armed
  <2>5. \A c, what : Said(c, what) => Said(c, what)'
    BY <2>3 DEF Said
  <2>6. MperfTypeOK'
    BY <1>0, <1>1, <2>1, <2>3, SameRecords DEF MperfTypeOK
  <2>7. InTurn'
    BY <1>0, <1>1, <1>a, <2>1, ClientNumbers DEF InTurn
  <2>8. LastArmed'
    BY <2>1, <2>4 DEF LastArmed
  <2>9. ArmedForMessage'
    <3>1. \A w \in Armed' : workers'[w].pc = "starts"
      BY <2>3, <2>4 DEF NewWorker
    <3>2. \A c \in Clients : clients[c].pc # "answered"
      BY <1>0, <1>a DEF InTurn
    <3> QED
      BY <1>1, <1>a, <2>1, <3>1, <3>2 DEF ArmedForMessage
  <2>10. OwnConnections'
    <3> SUFFICES ASSUME NEW w \in DOMAIN workers'
                 PROVE  LET k == workers'[w] IN
                        /\ k.pc = "starts" => k.sigint /\ k.queue = <<>> /\ k.said = "nothing"
                        /\ k.pc \in {"accepted", "serves"} => k.queue # <<>>
                        /\ w \in Armed' \/ k.pc = "serves" => \A i \in DOMAIN k.queue : k.queue[i] = k.conf
      BY DEF OwnConnections
    <3>1. CASE w = Len(workers')
      BY <2>3, <3>1 DEF NewWorker
    <3>2. CASE w \in DOMAIN workers /\ w # Len(workers')
      BY <1>0, <2>3, <2>4, <3>2 DEF OwnConnections
    <3> QED
      BY <2>3, <3>1, <3>2
  <2>11. LastLives'
    BY <1>1, <1>a, <2>1, <2>4 DEF LastLives
  <2>12. LocksTrue'
    BY <1>0, <1>a, <2>1, <2>5 DEF LocksTrue
  <2>13. RepliesTrue'
    BY <1>1, <2>5, AnswersStay
  <2> QED
    BY <2>6, <2>7, <2>8, <2>9, <2>10, <2>11, <2>12, <2>13 DEF MperfInv
<1>3. CASE ctl' = [ctl EXCEPT !.pc = "spins", !.chldPID = -1] /\ workers' = workers
  <2>0. -1 \in Int
    OBVIOUS
  <2>1. /\ ctl' \in CtlRecord /\ ctl'.pc = "spins" /\ ctl'.client = ctl.client /\ ctl'.backlog = ctl.backlog
        /\ ctl'.locks = ctl.locks
    BY <1>0, <1>3, <2>0 DEF MperfTypeOK, CtlRecord, CtlPlaces
  <2>2. Live' = Live /\ Armed' = Armed
    BY <1>3 DEF Live, Armed
  <2>3. MperfTypeOK'
    BY <1>0, <1>1, <1>3, <2>1, SameRecords DEF MperfTypeOK
  <2>4. InTurn'
    BY <1>0, <1>1, <1>a, <2>1, ClientNumbers DEF InTurn
  <2>5. LastArmed' /\ LastLives'
    BY <1>1, <1>a, <2>1, <2>2 DEF LastArmed, LastLives
  <2>6. ArmedForMessage'
    BY <1>0, <1>1, <1>3, <1>a, <2>1, <2>2 DEF ArmedForMessage, ForkedFor
  <2>7. OwnConnections'
    BY <1>0, <1>3, <2>2 DEF OwnConnections
  <2>8. LocksTrue'
    BY <1>0, <1>3, <1>a, <2>1 DEF LocksTrue, Said
  <2>9. RepliesTrue'
    BY <1>0, <1>1, <1>3 DEF RepliesTrue
  <2> QED
    BY <2>3, <2>4, <2>5, <2>6, <2>7, <2>8, <2>9 DEF MperfInv
<1> QED
  BY <1>2, <1>3 DEF Fork

-----------------------------------------------------------------------------
\* A function on 1 .. n is a sequence.
LEMMA FunctionIsSeq ==
  ASSUME NEW S, NEW n \in Nat, NEW f \in [1 .. n -> S]
  PROVE  f \in Seq(S) /\ Len(f) = n /\ DOMAIN f = 1 .. n
  OBVIOUS

\* The end of some workers changes nothing but their places.
LEMMA EndedWorkers ==
  ASSUME NEW ws \in Seq(WorkerRecord), NEW ended
  PROVE  /\ Ended(ws, ended) \in Seq(WorkerRecord) /\ Len(Ended(ws, ended)) = Len(ws)
         /\ DOMAIN Ended(ws, ended) = DOMAIN ws
         /\ Len(ws) \in Nat /\ DOMAIN ws = 1 .. Len(ws)
         /\ \A w \in DOMAIN ws :
               LET k == Ended(ws, ended)[w] IN
               /\ k.conf = ws[w].conf /\ k.said = ws[w].said
               /\ k.queue = ws[w].queue /\ k.sigint = ws[w].sigint
               /\ k.pc = IF w \in ended THEN "dead" ELSE ws[w].pc
<1>1. Len(ws) \in Nat /\ DOMAIN ws = 1 .. Len(ws) /\ \A w \in DOMAIN ws : ws[w] \in WorkerRecord
  OBVIOUS
<1>2. \A w \in DOMAIN ws : [ws[w] EXCEPT !.pc = "dead"] \in WorkerRecord
  BY <1>1 DEF WorkerRecord, WorkerPlaces
<1>3. Ended(ws, ended) \in [1 .. Len(ws) -> WorkerRecord]
  BY <1>1, <1>2 DEF Ended
<1>4. ASSUME NEW w \in DOMAIN ws
      PROVE  LET k == Ended(ws, ended)[w] IN
             /\ k.conf = ws[w].conf /\ k.said = ws[w].said
             /\ k.queue = ws[w].queue /\ k.sigint = ws[w].sigint
             /\ k.pc = IF w \in ended THEN "dead" ELSE ws[w].pc
  <2>1. PICK k \in WorkerRecord : k = ws[w]
    BY <1>1
  <2>2. Ended(ws, ended)[w] = IF w \in ended THEN [k EXCEPT !.pc = "dead"] ELSE k
    BY <2>1 DEF Ended
  <2> QED
    BY <2>1, <2>2 DEF WorkerRecord
<1> QED
  BY <1>1, <1>3, <1>4, FunctionIsSeq

\* A step from place to place leaves the rest of the controller alone.
LEMMA PlaceOfController ==
  ASSUME NEW c \in CtlRecord, NEW pc \in CtlPlaces
  PROVE  LET d == [c EXCEPT !.pc = pc] IN
         /\ d \in CtlRecord /\ d.pc = pc
         /\ d.client = c.client /\ d.backlog = c.backlog /\ d.chldPID = c.chldPID
         /\ d.locks = c.locks /\ d.ret = c.ret
  BY DEF CtlRecord

\* Clients whose connections are closed end.
LEMMA DisconnectedEnd ==
  ASSUME MperfTypeOK, NEW ended, clients' = Disconnected(ended)
  PROVE  ClientsEnd
<1>1. \A c \in Clients : clients[c] \in ClientRecord
  BY DEF MperfTypeOK
<1>2. \A c \in Clients :
        clients'[c] = clients[c] \/ (clients[c].pc = "connected" /\ clients'[c] = [clients[c] EXCEPT !.pc = "done"])
  BY DEF Disconnected
<1>3. \A c \in Clients : [clients[c] EXCEPT !.pc = "done"] \in ClientRecord
  BY <1>1 DEF ClientRecord
<1>4. clients' \in [Clients -> ClientRecord]
  BY <1>1, <1>2, <1>3 DEF Disconnected
<1> QED
  BY <1>1, <1>2, <1>4 DEF ClientsEnd, ClientRecord

\* Reaping changes chldPID and one lock.
LEMMA ReapedRecord ==
  ASSUME NEW c \in CtlRecord, NEW ended
  PROVE  LET r == Reaped(c, ended) IN
         /\ r \in CtlRecord
         /\ r.pc = c.pc /\ r.client = c.client /\ r.ret = c.ret /\ r.backlog = c.backlog
         /\ \A l \in LockNames \ {"sigchld"} : r.locks[l] = c.locks[l]
         /\ r.locks["sigchld"] <=> (c.locks["sigchld"] /\ ended = {})
         /\ r.chldPID = IF c.chldPID \in ended THEN -1 ELSE c.chldPID
<1>1. -1 \in Int /\ "sigchld" \in LockNames /\ c.locks \in [LockNames -> BOOLEAN]
  BY DEF CtlRecord, LockNames
<1>2. CASE ended = {}
  BY <1>1, <1>2 DEF Reaped
<1>3. CASE ended # {}
  <2>1. PICK pid \in Int : pid = IF c.chldPID \in ended THEN -1 ELSE c.chldPID
    BY <1>1 DEF CtlRecord
  <2>2. PICK locks \in [LockNames -> BOOLEAN] : locks = [c.locks EXCEPT !["sigchld"] = FALSE]
    BY <1>1
  <2>3. Reaped(c, ended) = [c EXCEPT !.chldPID = pid, !.locks = locks]
    BY <1>3, <2>1, <2>2 DEF Reaped, Released, CtlRecord
  <2> QED
    BY <1>1, <1>3, <2>1, <2>2, <2>3 DEF CtlRecord
<1> QED
  BY <1>2, <1>3

\* SIGINT reaches the last worker, or all that live: none stays armed.
LEMMA TerminateKillsKeeps ==
  ASSUME MperfInv, TerminateKills
  PROVE  MperfInv'
<1> DEFINE ended == {w \in Targets : DiesOfSigint(w)}
           kept == [w \in DOMAIN workers |-> IF w \in Targets THEN Interrupted(w) ELSE workers[w]]
<1>0. /\ MperfTypeOK /\ InTurn /\ LastArmed /\ ArmedForMessage /\ OwnConnections
      /\ LastLives /\ LocksTrue /\ RepliesTrue
  BY DEF MperfInv
<1>1. /\ smem' = smem /\ setting' = setting /\ Clients' = Clients /\ ctl.pc = "kills"
      /\ workers' = Ended(kept, ended) /\ clients' = Disconnected(ended)
  BY DEF TerminateKills, Clients, CtlAt
<1>2. /\ ctl' \in CtlRecord /\ ctl'.client = ctl.client /\ ctl'.backlog = ctl.backlog
      /\ ctl'.pc \in {"replies", "waits"}
      /\ ctl'.pc = "replies" => ctl'.ret = "EKILL"
      /\ ctl'.chldPID = IF ctl.chldPID \in ended THEN -1 ELSE ctl.chldPID
      /\ ctl'.pc = "waits" => ctl'.locks["sigchld"] <=> (ctl.locks["sigchld"] /\ ended = {})
  <2>1. CASE ctl.chldPID > 0 /\ Targets = {}
    <3>1. ctl' = [ctl EXCEPT !.pc = "replies", !.ret = "EKILL", !.alarm = FALSE]
      BY <2>1 DEF TerminateKills
    <3>2. ended = {}
      BY <2>1
    <3> HIDE DEF ended
    <3> QED
      BY <1>0, <3>1, <3>2 DEF MperfTypeOK, CtlRecord, CtlPlaces, Answers
  <2>2. CASE ~(ctl.chldPID > 0 /\ Targets = {})
    <3>1. ctl' = Reaped([ctl EXCEPT !.pc = "waits"], ended)
      BY <2>2 DEF TerminateKills
    <3> HIDE DEF ended
    <3>2. ctl \in CtlRecord /\ "waits" \in CtlPlaces
      BY <1>0 DEF MperfTypeOK, CtlPlaces
    <3>3. PICK c \in CtlRecord :
            /\ c = [ctl EXCEPT !.pc = "waits"]
            /\ c.pc = "waits" /\ c.client = ctl.client /\ c.backlog = ctl.backlog
            /\ c.chldPID = ctl.chldPID /\ c.locks = ctl.locks
      BY <3>2, PlaceOfController
    <3>4. ctl' = Reaped(c, ended)
      BY <3>1, <3>3
    <3>5. /\ ctl' \in CtlRecord /\ ctl'.pc = c.pc /\ ctl'.client = c.client
          /\ ctl'.backlog = c.backlog
          /\ ctl'.locks["sigchld"] <=> (c.locks["sigchld"] /\ ended = {})
          /\ ctl'.chldPID = IF c.chldPID \in ended THEN -1 ELSE c.chldPID
      BY <3>4, ReapedRecord
    <3> QED
      BY <3>3, <3>5
  <2> QED
    BY <2>1, <2>2
<1>3. /\ kept \in Seq(WorkerRecord) /\ Len(kept) = Len(workers) /\ DOMAIN kept = DOMAIN workers
      /\ Len(workers) \in Nat /\ DOMAIN workers = 1 .. Len(workers)
  <2>1. workers \in Seq(WorkerRecord) /\ \A w \in DOMAIN workers : workers[w] \in WorkerRecord
    BY <1>0 DEF MperfTypeOK
  <2>2. \A w \in DOMAIN workers : Interrupted(w) \in WorkerRecord
    BY <2>1 DEF Interrupted, WorkerRecord, WorkerPlaces
  <2>3. kept \in [1 .. Len(workers) -> WorkerRecord]
    BY <2>1, <2>2
  <2> HIDE DEF kept
  <2> QED
    BY <2>1, <2>3, FunctionIsSeq
<1>4. /\ workers' \in Seq(WorkerRecord) /\ Len(workers') = Len(workers) /\ DOMAIN workers' = DOMAIN workers
      /\ \A w \in DOMAIN workers :
            /\ workers'[w].conf = kept[w].conf /\ workers'[w].said = kept[w].said
            /\ workers'[w].queue = kept[w].queue /\ workers'[w].sigint = kept[w].sigint
            /\ workers'[w].pc = IF w \in ended THEN "dead" ELSE kept[w].pc
  <2> HIDE DEF kept, ended
  <2> QED
    BY <1>1, <1>3, EndedWorkers
<1>5. \A w \in DOMAIN workers :
        /\ workers'[w].conf = workers[w].conf /\ workers'[w].said = workers[w].said
        /\ workers'[w].queue = workers[w].queue
        /\ workers'[w].sigint <=> (workers[w].sigint /\ w \notin Targets)
        /\ workers'[w].pc = IF w \in ended THEN "dead"
                            ELSE IF w \in Targets /\ workers[w].pc = "blocked" THEN "checks"
                            ELSE workers[w].pc
  <2> SUFFICES ASSUME NEW w \in DOMAIN workers
               PROVE  /\ workers'[w].conf = workers[w].conf /\ workers'[w].said = workers[w].said
                      /\ workers'[w].queue = workers[w].queue
                      /\ workers'[w].sigint <=> (workers[w].sigint /\ w \notin Targets)
                      /\ workers'[w].pc = IF w \in ended THEN "dead"
                            ELSE IF w \in Targets /\ workers[w].pc = "blocked" THEN "checks"
                            ELSE workers[w].pc
    OBVIOUS
  <2>1. PICK k \in WorkerRecord : k = workers[w]
    BY <1>0 DEF MperfTypeOK
  <2>2. kept[w] = IF w \in Targets
                  THEN [k EXCEPT !.sigint = FALSE, !.pc = IF k.pc = "blocked" THEN "checks" ELSE k.pc]
                  ELSE k
    BY <2>1 DEF Interrupted
  <2> HIDE DEF kept, ended
  <2>3. /\ kept[w].conf = k.conf /\ kept[w].said = k.said /\ kept[w].queue = k.queue
        /\ kept[w].sigint <=> (k.sigint /\ w \notin Targets)
        /\ kept[w].pc = IF w \in Targets /\ k.pc = "blocked" THEN "checks" ELSE k.pc
    BY <2>2 DEF WorkerRecord
  <2> QED
    BY <1>4, <2>1, <2>3
<1>6. \A w \in Targets : w \in Live /\ w \in DOMAIN workers
  BY DEF Targets, Live
<1>7. \A w \in DOMAIN workers : workers[w].pc = "starts" /\ w \in Targets => w \in ended
  BY DEF DiesOfSigint
<1>8. ended \subseteq Targets
  OBVIOUS
<1>9. QuietWorkers
  <2> HIDE DEF kept, ended
  <2> QED
    BY <1>0, <1>3, <1>4, <1>5, <1>6, <1>7, <1>8 DEF QuietWorkers, OwnConnections, Live
<1>10. ClientsEnd
  BY <1>0, <1>1, DisconnectedEnd
<1>11. /\ Armed' \subseteq Armed /\ Live' \subseteq Live /\ OwnConnections'
       /\ \A c, what : Said(c, what) => Said(c, what)'
  BY <1>1, <1>9, QuietKeeps
<1>12. \A w \in Live : w = ctl.chldPID => w \in Targets
  BY <1>3 DEF Targets, Live
<1>13. Armed' = {}
  <2>1. \A w \in Armed : w = ctl.chldPID /\ w \in Targets /\ w \in DOMAIN workers
    BY <1>0, <1>1, <1>12 DEF LastArmed, Armed, Live
  <2> QED
    BY <1>5, <1>11, <2>1 DEF Armed
<1>14. setting.completeKill =>
         /\ Live' \subseteq {ctl'.chldPID}
         /\ ctl'.pc = "waits" /\ ~ctl'.locks["sigchld"] => Live' = {}
  <2> SUFFICES ASSUME setting.completeKill
               PROVE  /\ Live' \subseteq {ctl'.chldPID}
                      /\ ctl'.pc = "waits" /\ ~ctl'.locks["sigchld"] => Live' = {}
    OBVIOUS
  <2>1. Live \subseteq {ctl.chldPID} /\ (~ctl.locks["sigchld"] => Live = {})
    BY <1>0, <1>1 DEF LastLives
  <2>2. ended # {} => Live' = {}
    <3>1. \A w \in ended : w \in Live /\ workers'[w].pc = "dead"
      BY <1>5, <1>6, <1>8
    <3> HIDE DEF ended
    <3> QED
      BY <1>11, <2>1, <3>1 DEF Live
  <2> HIDE DEF ended
  <2> QED
    BY <1>2, <1>11, <2>1, <2>2
<1>15. MperfTypeOK'
  BY <1>0, <1>1, <1>2, <1>4, <1>10, SameRecords DEF MperfTypeOK, ClientsEnd
<1>16. InTurn'
  <2>1. ctl'.client # NoClient /\ ctl'.pc # "accepts"
    BY <1>0, <1>1, <1>2 DEF InTurn
  <2> QED
    BY <1>1, <1>2, <1>10, <2>1, EndKeepsOrder
<1>17. LastArmed'
  BY <1>13 DEF LastArmed
<1>18. ArmedForMessage'
  BY <1>2, <1>13 DEF ArmedForMessage, ForkedFor
<1>19. LastLives'
  BY <1>1, <1>2, <1>14 DEF LastLives
<1>20. LocksTrue'
  BY <1>2 DEF LocksTrue
<1>21. RepliesTrue'
  BY <1>1, <1>10, <1>11, AnswersStay DEF ClientsEnd
<1> QED
  BY <1>11, <1>15, <1>16, <1>17, <1>18, <1>19, <1>20, <1>21 DEF MperfInv

\* SIGTERM ends the last worker, or all that live.
LEMMA TerminateKillsCompletelyKeeps ==
  ASSUME MperfInv, TerminateKillsCompletely
  PROVE  MperfInv'
<1>0. /\ MperfTypeOK /\ InTurn /\ LastArmed /\ ArmedForMessage /\ OwnConnections
      /\ LastLives /\ LocksTrue /\ RepliesTrue
  BY DEF MperfInv
<1>1. /\ smem' = smem /\ setting' = setting /\ Clients' = Clients /\ ctl.pc = "sigterm"
      /\ workers' = Ended(workers, Targets) /\ clients' = Disconnected(Targets)
  BY DEF TerminateKillsCompletely, Clients, CtlAt
<1>2. /\ ctl' \in CtlRecord /\ ctl'.client = ctl.client /\ ctl'.backlog = ctl.backlog
      /\ ctl'.pc = "message" \/ (ctl'.pc = "replies" /\ (ctl'.ret = "EKILL" \/ MyAsk = "term"))
  <2>1. CASE ctl.chldPID > 0 /\ Targets = {}
    <3>1. ctl' = [ctl EXCEPT !.pc = "replies", !.ret = "EKILL"]
      BY <2>1 DEF TerminateKillsCompletely
    <3> QED
      BY <1>0, <3>1 DEF MperfTypeOK, CtlRecord, CtlPlaces, Answers
  <2>2. CASE ~(ctl.chldPID > 0 /\ Targets = {})
    <3>1. ctl' = Reaped([ctl EXCEPT !.pc = AfterTerminate], Targets)
      BY <2>2 DEF TerminateKillsCompletely
    <3>2. ctl \in CtlRecord /\ AfterTerminate \in CtlPlaces
      BY <1>0 DEF MperfTypeOK, CtlPlaces, AfterTerminate
    <3>3. PICK c \in CtlRecord :
            /\ c = [ctl EXCEPT !.pc = AfterTerminate]
            /\ c.pc = AfterTerminate /\ c.client = ctl.client /\ c.backlog = ctl.backlog
      BY <3>2, PlaceOfController
    <3>4. ctl' = Reaped(c, Targets)
      BY <3>1, <3>3
    <3>5. ctl' \in CtlRecord /\ ctl'.pc = c.pc /\ ctl'.client = c.client /\ ctl'.backlog = c.backlog
      BY <3>3, <3>4, ReapedRecord
    <3> QED
      BY <3>3, <3>5 DEF AfterTerminate
  <2> QED
    BY <2>1, <2>2
<1>3. /\ Len(workers) \in Nat /\ DOMAIN workers = 1 .. Len(workers)
      /\ workers' \in Seq(WorkerRecord) /\ Len(workers') = Len(workers) /\ DOMAIN workers' = DOMAIN workers
      /\ \A w \in DOMAIN workers :
            /\ workers'[w].conf = workers[w].conf /\ workers'[w].said = workers[w].said
            /\ workers'[w].queue = workers[w].queue /\ workers'[w].sigint = workers[w].sigint
            /\ workers'[w].pc = IF w \in Targets THEN "dead" ELSE workers[w].pc
  BY <1>0, <1>1, EndedWorkers DEF MperfTypeOK
<1>4. QuietWorkers
  BY <1>0, <1>3 DEF QuietWorkers, OwnConnections
<1>5. ClientsEnd
  BY <1>0, <1>1, DisconnectedEnd
<1>6. /\ Armed' \subseteq Armed /\ Live' \subseteq Live /\ OwnConnections'
      /\ \A c, what : Said(c, what) => Said(c, what)'
  BY <1>1, <1>4, QuietKeeps
<1>7. Armed' = {}
  BY <1>0, <1>1, <1>6 DEF LastArmed
<1>8. setting.completeKill => Live' = {}
  <2>1. setting.completeKill => \A w \in Live : w \in Targets /\ w \in DOMAIN workers
    BY <1>0, <1>1, <1>3 DEF LastLives, Targets, Live
  <2>2. \A w \in DOMAIN workers : w \in Targets => workers'[w].pc = "dead"
    BY <1>3
  <2> QED
    BY <1>6, <2>1, <2>2 DEF Live
<1>9. MperfTypeOK'
  BY <1>0, <1>1, <1>2, <1>3, <1>5, SameRecords DEF MperfTypeOK, ClientsEnd
<1>10. InTurn'
  <2>1. ctl'.client # NoClient /\ ctl'.pc # "accepts"
    BY <1>0, <1>1, <1>2 DEF InTurn
  <2> QED
    BY <1>1, <1>2, <1>5, <2>1, EndKeepsOrder
<1>11. LastArmed'
  BY <1>7 DEF LastArmed
<1>12. ArmedForMessage'
  BY <1>2, <1>7 DEF ArmedForMessage, ForkedFor
<1>13. LastLives'
  BY <1>1, <1>2, <1>8 DEF LastLives
<1>14. LocksTrue'
  BY <1>1, <1>2 DEF LocksTrue, MyAsk
<1>15. RepliesTrue'
  BY <1>1, <1>5, <1>6, AnswersStay DEF ClientsEnd
<1> QED
  BY <1>6, <1>9, <1>10, <1>11, <1>12, <1>13, <1>14, <1>15 DEF MperfInv

-----------------------------------------------------------------------------
\* The end of a worker, which the controller hears of at once
LEMMA ExitsKeeps ==
  ASSUME MperfInv, NEW w \in Live, Exits(w), smem' = smem, setting' = setting
  PROVE  MperfInv'
<1>0. /\ MperfTypeOK /\ InTurn /\ LastArmed /\ ArmedForMessage /\ OwnConnections
      /\ LastLives /\ LocksTrue /\ RepliesTrue
  BY DEF MperfInv
<1>1. /\ Clients' = Clients /\ w \in DOMAIN workers
      /\ workers' = Ended(workers, {w}) /\ clients' = Disconnected({w}) /\ ctl' = Reaped(ctl, {w})
  BY DEF Exits, Clients, Live
<1>2. /\ ctl' \in CtlRecord /\ ctl'.client = ctl.client /\ ctl'.backlog = ctl.backlog
      /\ ctl'.pc = ctl.pc /\ ctl'.ret = ctl.ret
      /\ ctl'.chldPID = IF ctl.chldPID = w THEN -1 ELSE ctl.chldPID
      /\ \A l \in LockNames \ {"sigchld"} : ctl'.locks[l] = ctl.locks[l]
  BY <1>0, <1>1, ReapedRecord DEF MperfTypeOK
<1>3. /\ Len(workers) \in Nat /\ DOMAIN workers = 1 .. Len(workers)
      /\ workers' \in Seq(WorkerRecord) /\ Len(workers') = Len(workers) /\ DOMAIN workers' = DOMAIN workers
      /\ \A v \in DOMAIN workers :
            /\ workers'[v].conf = workers[v].conf /\ workers'[v].said = workers[v].said
            /\ workers'[v].queue = workers[v].queue /\ workers'[v].sigint = workers[v].sigint
            /\ workers'[v].pc = IF v = w THEN "dead" ELSE workers[v].pc
  BY <1>0, <1>1, EndedWorkers DEF MperfTypeOK
<1>4. QuietWorkers
  BY <1>0, <1>3 DEF QuietWorkers, OwnConnections
<1>5. ClientsEnd
  BY <1>0, <1>1, DisconnectedEnd
<1>6. /\ Armed' \subseteq Armed /\ Live' \subseteq Live /\ OwnConnections'
      /\ \A c : ForkedFor(c) => ForkedFor(c)'
      /\ \A v \in Armed' : workers'[v].pc = "starts" \/ workers'[v].conf = smem'
      /\ \A c, what : Said(c, what) => Said(c, what)'
  BY <1>4, QuietKeeps
<1>7. w \notin Live' /\ w \notin Armed'
  BY <1>1, <1>3 DEF Live, Armed
<1>8. MperfTypeOK'
  BY <1>0, <1>1, <1>2, <1>3, <1>5, SameRecords DEF MperfTypeOK, ClientsEnd
<1>9. InTurn'
  <2>1. ctl'.pc = "accepts" <=> ctl'.client = NoClient
    BY <1>0, <1>2 DEF InTurn
  <2> QED
    BY <1>2, <1>5, <2>1, EndKeepsOrder
<1>10. LastArmed'
  BY <1>0, <1>2, <1>3, <1>6, <1>7 DEF LastArmed
<1>11. ArmedForMessage'
  <2>1. \A c \in Clients : clients'[c].pc = "answered" => clients[c].pc = "answered"
    BY <1>5 DEF ClientsEnd
  <2> QED
    BY <1>0, <1>1, <1>2, <1>6, <2>1 DEF ArmedForMessage
<1>12. LastLives'
  BY <1>0, <1>2, <1>3, <1>6, <1>7 DEF LastLives
<1>13. LocksTrue'
  <2>1. \A l \in {"sigusr1", "sigusr2", "sigalrm"} : ctl'.locks[l] = ctl.locks[l]
    BY <1>2 DEF LockNames
  <2> QED
    BY <1>2, <1>6, <2>1, LocksStay
<1>14. RepliesTrue'
  BY <1>5, <1>6, AnswersStay DEF ClientsEnd
<1> QED
  BY <1>6, <1>8, <1>9, <1>10, <1>11, <1>12, <1>13, <1>14 DEF MperfInv

\* A step from place to place leaves the rest of a worker alone.
LEMMA PlaceOfWorker ==
  ASSUME NEW k \in WorkerRecord, NEW pc \in WorkerPlaces
  PROVE  LET m == [k EXCEPT !.pc = pc] IN
         /\ m \in WorkerRecord /\ m.pc = pc /\ m.conf = k.conf /\ m.said = k.said
         /\ m.queue = k.queue /\ (m.sigint <=> k.sigint)
  BY DEF WorkerRecord

\* Replacing one element of a sequence
LEMMA OneWorkerChanged ==
  ASSUME NEW S, NEW ws \in Seq(S), NEW w \in DOMAIN ws, NEW m \in S
  PROVE  LET t == [ws EXCEPT ![w] = m] IN
         /\ Len(ws) \in Nat /\ DOMAIN ws = 1 .. Len(ws)
         /\ t \in Seq(S) /\ Len(t) = Len(ws) /\ DOMAIN t = DOMAIN ws
         /\ t[w] = m /\ \A v \in DOMAIN ws : v # w => t[v] = ws[v]
  OBVIOUS

\* A worker goes on without telling anybody.
LEMMA MovesKeep ==
  ASSUME MperfInv, NEW w \in Live,
         NEW pc \in {"listens", "checks", "checked", "blocked", "accepted"},
         Becomes(w, pc), workers[w].pc # "starts",
         pc = "accepted" => workers[w].queue # <<>>,
         UNCHANGED <<ctl, clients, smem, setting>>
  PROVE  MperfInv'
<1>0. /\ MperfTypeOK /\ InTurn /\ LastArmed /\ ArmedForMessage /\ OwnConnections
      /\ LastLives /\ LocksTrue /\ RepliesTrue
  BY DEF MperfInv
<1>1. /\ Clients' = Clients /\ ctl' = ctl /\ clients' = clients /\ smem' = smem /\ setting' = setting
      /\ w \in DOMAIN workers /\ workers[w].pc # "dead"
  BY DEF Clients, Live
<1>2. /\ Len(workers) \in Nat /\ DOMAIN workers = 1 .. Len(workers)
      /\ workers' \in Seq(WorkerRecord) /\ Len(workers') = Len(workers) /\ DOMAIN workers' = DOMAIN workers
      /\ \A v \in DOMAIN workers :
            /\ workers'[v].conf = workers[v].conf /\ workers'[v].said = workers[v].said
            /\ workers'[v].queue = workers[v].queue /\ (workers'[v].sigint <=> workers[v].sigint)
            /\ workers'[v].pc = IF v = w THEN pc ELSE workers[v].pc
  <2>1. PICK k \in WorkerRecord : k = workers[w]
    BY <1>0, <1>1 DEF MperfTypeOK
  <2>2. PICK m \in WorkerRecord :
          /\ m = [k EXCEPT !.pc = pc]
          /\ m.conf = k.conf /\ m.said = k.said /\ m.queue = k.queue /\ (m.sigint <=> k.sigint)
          /\ m.pc = pc
    <3>1. pc \in WorkerPlaces
      BY DEF WorkerPlaces
    <3> QED
      BY <3>1, PlaceOfWorker
  <2>3. workers' = [workers EXCEPT ![w] = m]
    BY <2>1, <2>2 DEF Becomes
  <2>4. workers \in Seq(WorkerRecord)
    BY <1>0 DEF MperfTypeOK
  <2> QED
    BY <1>1, <2>1, <2>2, <2>3, <2>4, OneWorkerChanged
<1>3. QuietWorkers
  BY <1>0, <1>1, <1>2 DEF QuietWorkers, OwnConnections
<1>4. /\ OwnConnections'
      /\ \A c : ForkedFor(c) => ForkedFor(c)'
      /\ \A v \in Armed' : workers'[v].pc = "starts" \/ workers'[v].conf = smem'
      /\ \A c, what : Said(c, what) => Said(c, what)'
  BY <1>1, <1>3, QuietKeeps
<1>5. Live' = Live /\ Armed' = Armed
  BY <1>1, <1>2 DEF Live, Armed
<1>6. MperfTypeOK'
  BY <1>0, <1>1, <1>2, SameRecords DEF MperfTypeOK
<1>7. InTurn'
  BY <1>0, <1>1 DEF InTurn
<1>8. LastArmed' /\ LastLives'
  BY <1>0, <1>1, <1>2, <1>5 DEF LastArmed, LastLives
<1>9. ArmedForMessage'
  BY <1>0, <1>1, <1>4 DEF ArmedForMessage
<1>10. LocksTrue'
  BY <1>0, <1>1, <1>4, LocksStay
<1>11. RepliesTrue'
  BY <1>1, <1>4, AnswersStay
<1> QED
  BY <1>4, <1>6, <1>7, <1>8, <1>9, <1>10, <1>11 DEF MperfInv

\* A worker reads the message: it is armed, so it is of the client the
\* controller waits with, and what it says opens the lock of its answer.
LEMMA ConfiguresKeep ==
  ASSUME MperfInv, NEW w \in DOMAIN workers, WorkerConfigures(w)
  PROVE  MperfInv'
<1>0. /\ MperfTypeOK /\ InTurn /\ LastArmed /\ ArmedForMessage /\ OwnConnections
      /\ LastLives /\ LocksTrue /\ RepliesTrue
  BY DEF MperfInv
<1>1. /\ Clients' = Clients /\ clients' = clients /\ smem' = smem /\ setting' = setting
      /\ workers[w].pc = "starts" /\ workers[w].sigint /\ workers[w].queue = <<>>
      /\ workers[w].said = "nothing"
  BY <1>0 DEF Clients, WorkerConfigures, OwnConnections
<1>2. w \in Live /\ w \in Armed
  BY <1>1 DEF Live, Armed
<1>3. PICK pc \in {"configured", "rejects"}, said \in {"usr1", "usr2"},
           lock \in {"sigusr1", "sigusr2"} :
        /\ workers' = [[workers EXCEPT ![w].conf = smem] EXCEPT ![w].pc = pc, ![w].said = said]
        /\ ctl' = Released(ctl, lock)
        /\ lock = "sigusr1" <=> said = "usr1"
  BY DEF WorkerConfigures
<1>4. /\ Len(workers) \in Nat /\ DOMAIN workers = 1 .. Len(workers)
      /\ workers' \in Seq(WorkerRecord) /\ Len(workers') = Len(workers) /\ DOMAIN workers' = DOMAIN workers
      /\ \A v \in DOMAIN workers : v # w => workers'[v] = workers[v]
      /\ workers'[w].conf = smem /\ workers'[w].said = said /\ workers'[w].pc = pc
      /\ workers'[w].queue = <<>> /\ workers'[w].sigint
  <2>1. PICK k \in WorkerRecord : k = workers[w]
    BY <1>0 DEF MperfTypeOK
  <2> DEFINE m == [k EXCEPT !.conf = smem, !.pc = pc, !.said = said]
  <2>2. /\ m \in WorkerRecord
        /\ m.conf = smem /\ m.said = said /\ m.pc = pc /\ m.queue = k.queue /\ (m.sigint <=> k.sigint)
    <3>1. smem \in Someone /\ pc \in WorkerPlaces /\ said \in {"nothing", "usr1", "usr2"}
      BY <1>0 DEF MperfTypeOK, WorkerPlaces
    <3> QED
      BY <3>1 DEF WorkerRecord
  <2>3. workers' = [workers EXCEPT ![w] = m]
    BY <1>0, <1>3, <2>1, <2>2 DEF MperfTypeOK
  <2>4. workers \in Seq(WorkerRecord)
    BY <1>0 DEF MperfTypeOK
  <2> HIDE DEF m
  <2>5. m.sigint /\ m.queue = <<>>
    BY <1>1, <2>1, <2>2
  <2>6. /\ Len(workers) \in Nat /\ DOMAIN workers = 1 .. Len(workers)
        /\ workers' \in Seq(WorkerRecord) /\ Len(workers') = Len(workers) /\ DOMAIN workers' = DOMAIN workers
        /\ workers'[w] = m
        /\ \A v \in DOMAIN workers : v # w => workers'[v] = workers[v]
    BY <2>2, <2>3, <2>4, OneWorkerChanged
  <2> QED
    BY <2>2, <2>5, <2>6
<1>5. /\ ctl' \in CtlRecord /\ ctl'.pc = ctl.pc /\ ctl'.client = ctl.client
      /\ ctl'.backlog = ctl.backlog /\ ctl'.ret = ctl.ret /\ ctl'.chldPID = ctl.chldPID
      /\ \A l \in LockNames : l # lock => ctl'.locks[l] = ctl.locks[l]
      /\ ~ctl'.locks[lock]
  <2>1. ctl.locks \in [LockNames -> BOOLEAN] /\ lock \in LockNames /\ ctl \in CtlRecord
    BY <1>0 DEF MperfTypeOK, CtlRecord, LockNames
  <2>2. PICK locks \in [LockNames -> BOOLEAN] : locks = [ctl.locks EXCEPT ![lock] = FALSE]
    BY <2>1
  <2>3. ctl' = [ctl EXCEPT !.locks = locks]
    BY <1>3, <2>1, <2>2 DEF Released, CtlRecord
  <2> QED
    BY <2>1, <2>2, <2>3 DEF CtlRecord
<1>6. Live' = Live /\ Armed' = Armed
  BY <1>1, <1>2, <1>4 DEF Live, Armed
<1>7. \A c, what : what \in {"usr1", "usr2"} /\ Said(c, what) => Said(c, what)'
  BY <1>1, <1>4 DEF Said
<1>8. MperfTypeOK'
  BY <1>0, <1>1, <1>4, <1>5, SameRecords DEF MperfTypeOK
<1>9. InTurn'
  BY <1>0, <1>1, <1>5 DEF InTurn
<1>10. LastArmed'
  BY <1>0, <1>4, <1>5, <1>6 DEF LastArmed
<1>11. ArmedForMessage'
  <2>1. \A v \in Armed' : workers'[v].pc = "starts" \/ workers'[v].conf = smem'
    BY <1>0, <1>1, <1>4, <1>6 DEF ArmedForMessage, Armed, Live
  <2> QED
    BY <1>0, <1>1, <1>5, <1>6, <2>1 DEF ArmedForMessage, ForkedFor
<1>12. OwnConnections'
  <2> SUFFICES ASSUME NEW v \in DOMAIN workers
               PROVE  LET k == workers'[v] IN
                      /\ k.pc = "starts" => k.sigint /\ k.queue = <<>> /\ k.said = "nothing"
                      /\ k.pc \in {"accepted", "serves"} => k.queue # <<>>
                      /\ v \in Armed' \/ k.pc = "serves" => \A i \in DOMAIN k.queue : k.queue[i] = k.conf
    BY <1>4 DEF OwnConnections
  <2>1. CASE v = w
    BY <1>4, <2>1
  <2>2. CASE v # w
    BY <1>0, <1>4, <1>6, <2>2 DEF OwnConnections
  <2> QED
    BY <2>1, <2>2
<1>13. LastLives'
  <2>1. ctl'.locks.sigchld = ctl.locks.sigchld
    BY <1>5 DEF LockNames
  <2> QED
    BY <1>0, <1>1, <1>4, <1>5, <1>6, <2>1 DEF LastLives
<1>14. LocksTrue'
  <2>1. PICK c : c = ctl.client /\ c = ctl'.client
    BY <1>5
  <2>2. ctl.pc \in {"forks", "stores", "spins", "looks"} => Said(c, said)'
    BY <1>0, <1>1, <1>4, <2>1 DEF Said, ArmedForMessage
  <2>3. \A l \in {"sigusr1", "sigusr2", "sigalrm"} :
          l = lock \/ (l # lock /\ ctl'.locks[l] = ctl.locks[l])
    BY <1>5 DEF LockNames
  <2>4. ctl.pc \in {"forks", "stores", "spins", "looks"} =>
          /\ ~ctl'.locks["sigusr1"] => Said(c, "usr1")'
          /\ ~ctl'.locks["sigusr2"] => Said(c, "usr2")'
    <3>1. ctl.pc \in {"forks", "stores", "spins", "looks"} =>
            /\ ~ctl.locks["sigusr1"] => Said(c, "usr1")
            /\ ~ctl.locks["sigusr2"] => Said(c, "usr2")
      BY <1>0, <2>1 DEF LocksTrue
    <3>2. Said(c, "usr1") => Said(c, "usr1")'
      BY <1>7
    <3>3. Said(c, "usr2") => Said(c, "usr2")'
      BY <1>7
    <3>4. CASE lock = "sigusr1" /\ said = "usr1"
      <4>1. ctl'.locks["sigusr2"] = ctl.locks["sigusr2"]
        BY <2>3, <3>4
      <4> QED
        BY <2>2, <3>1, <3>3, <3>4, <4>1
    <3>5. CASE lock = "sigusr2" /\ said = "usr2"
      <4>1. ctl'.locks["sigusr1"] = ctl.locks["sigusr1"]
        BY <2>3, <3>5
      <4> QED
        BY <2>2, <3>1, <3>2, <3>5, <4>1
    <3> QED
      BY <1>3, <3>4, <3>5
  <2>5. ctl.pc = "looks" => \E l \in {"sigusr1", "sigusr2", "sigalrm"} : ~ctl'.locks[l]
    BY <1>0, <1>5, <2>3 DEF LocksTrue
  <2>6. ctl.pc = "replies" /\ MyAsk # "term" =>
          /\ ctl.ret = "SUCC" => Said(c, "usr1")'
          /\ ctl.ret = "EMSG" => Said(c, "usr2")'
    <3>1. ctl.pc = "replies" /\ MyAsk # "term" =>
            /\ ctl.ret = "SUCC" => Said(c, "usr1")
            /\ ctl.ret = "EMSG" => Said(c, "usr2")
      BY <1>0, <2>1 DEF LocksTrue
    <3>2. (Said(c, "usr1") => Said(c, "usr1")') /\ (Said(c, "usr2") => Said(c, "usr2")')
      BY <1>7
    <3> QED
      BY <3>1, <3>2
  <2>7. MyAsk' = MyAsk
    BY <1>1, <1>5 DEF MyAsk
  <2> QED
    BY <1>5, <2>1, <2>4, <2>5, <2>6, <2>7 DEF LocksTrue, Said
<1>15. RepliesTrue'
  <2>1. \A c \in Clients : setting.asks[c] # "term" =>
          /\ clients[c].ret = "SUCC" => Said(c, "usr1")'
          /\ clients[c].ret = "EMSG" => Said(c, "usr2")'
    BY <1>0, <1>7 DEF RepliesTrue, Said
  <2> QED
    BY <1>1, <2>1 DEF RepliesTrue, Said
<1> QED
  BY <1>8, <1>9, <1>10, <1>11, <1>12, <1>13, <1>14, <1>15 DEF MperfInv

\* A worker serves the first connection it got, and drops the others.
LEMMA ServesKeeps ==
  ASSUME MperfInv, NEW w \in Armed, WorkerServes(w)
  PROVE  MperfInv'
<1>0. /\ MperfTypeOK /\ InTurn /\ LastArmed /\ ArmedForMessage /\ OwnConnections
      /\ LastLives /\ LocksTrue /\ RepliesTrue
  BY DEF MperfInv
<1>1. /\ Clients' = Clients /\ ctl' = ctl /\ smem' = smem /\ setting' = setting
      /\ w \in DOMAIN workers /\ workers[w].sigint /\ workers[w].pc = "accepted"
      /\ workers' = [workers EXCEPT ![w].pc = "serves", ![w].queue = <<Head(@)>>]
  BY DEF WorkerServes, MayServe, Clients, Armed, Live
<1>2. PICK c \in Clients : c = Head(workers[w].queue) /\ c = workers[w].conf
  <2>1. /\ workers[w].queue \in Seq(Clients) /\ workers[w].queue # <<>>
        /\ \A i \in DOMAIN workers[w].queue : workers[w].queue[i] = workers[w].conf
    <3>1. workers[w] \in WorkerRecord
      BY <1>0, <1>1 DEF MperfTypeOK
    <3> QED
      BY <1>0, <1>1, <3>1 DEF WorkerRecord, OwnConnections
  <2> QED
    BY <2>1, HeadAndTail
<1>3. /\ Len(workers) \in Nat /\ DOMAIN workers = 1 .. Len(workers)
      /\ workers' \in Seq(WorkerRecord) /\ Len(workers') = Len(workers) /\ DOMAIN workers' = DOMAIN workers
      /\ \A v \in DOMAIN workers : v # w => workers'[v] = workers[v]
      /\ workers'[w].conf = workers[w].conf /\ workers'[w].said = workers[w].said
      /\ workers'[w].pc = "serves" /\ workers'[w].queue = <<c>> /\ workers'[w].sigint
  <2>1. PICK k \in WorkerRecord : k = workers[w]
    BY <1>0, <1>1 DEF MperfTypeOK
  <2>2. PICK q \in Seq(Clients) : q = <<c>>
    <3>1. <<c>> \in Seq(Clients)
      OBVIOUS
    <3> QED
      BY <3>1, Zenon
  <2> DEFINE m == [k EXCEPT !.pc = "serves", !.queue = q]
  <2>3. /\ m \in WorkerRecord
        /\ m.conf = k.conf /\ m.said = k.said /\ m.pc = "serves" /\ m.queue = q /\ (m.sigint <=> k.sigint)
    <3>1. "serves" \in WorkerPlaces
      BY DEF WorkerPlaces
    <3> QED
      BY <3>1 DEF WorkerRecord
  <2>4. workers' = [workers EXCEPT ![w] = m]
    BY <1>0, <1>1, <1>2, <2>1, <2>2 DEF MperfTypeOK
  <2>5. workers \in Seq(WorkerRecord)
    BY <1>0 DEF MperfTypeOK
  <2> HIDE DEF m
  <2>6. m.sigint /\ m.queue = <<c>>
    BY <1>1, <2>1, <2>2, <2>3
  <2>7. /\ Len(workers) \in Nat /\ DOMAIN workers = 1 .. Len(workers)
        /\ workers' \in Seq(WorkerRecord) /\ Len(workers') = Len(workers) /\ DOMAIN workers' = DOMAIN workers
        /\ workers'[w] = m
        /\ \A v \in DOMAIN workers : v # w => workers'[v] = workers[v]
    <3>1. w \in DOMAIN workers
      BY <1>1
    <3> QED
      BY <2>3, <2>4, <2>5, <3>1, OneWorkerChanged
  <2> QED
    BY <2>1, <2>3, <2>6, <2>7
<1>4. ClientsEnd
  <2>0. clients' = [d \in Clients |->
            IF clients[d].pc = "connected" /\ d # Head(workers[w].queue)
            THEN [clients[d] EXCEPT !.pc = "done"] ELSE clients[d]]
    BY <1>1 DEF WorkerServes, MayServe
  <2>1. \A d \in Clients : clients[d] \in ClientRecord /\ [clients[d] EXCEPT !.pc = "done"] \in ClientRecord
    BY <1>0 DEF MperfTypeOK, ClientRecord
  <2>2. clients' \in [Clients -> ClientRecord]
    BY <2>0, <2>1
  <2>3. \A d \in Clients : \/ clients'[d] = clients[d]
                           \/ clients[d].pc = "connected" /\ clients'[d] = [clients[d] EXCEPT !.pc = "done"]
    BY <2>0
  <2> QED
    BY <2>1, <2>2, <2>3 DEF ClientsEnd, ClientRecord
<1>5. Live' = Live /\ Armed' = Armed
  BY <1>1, <1>3 DEF Live, Armed
<1>6. \A d, what : Said(d, what) => Said(d, what)'
  BY <1>1, <1>3 DEF Said
<1>7. MperfTypeOK'
  BY <1>0, <1>1, <1>3, <1>4, SameRecords DEF MperfTypeOK, ClientsEnd
<1>8. InTurn'
  <2>1. ctl'.pc = "accepts" <=> ctl'.client = NoClient
    BY <1>0, <1>1 DEF InTurn
  <2> QED
    BY <1>1, <1>4, <2>1, EndKeepsOrder
<1>9. LastArmed' /\ LastLives'
  BY <1>0, <1>1, <1>3, <1>5 DEF LastArmed, LastLives
<1>10. ArmedForMessage'
  <2>1. \A d \in Clients : clients'[d].pc = "answered" => clients[d].pc = "answered"
    BY <1>4 DEF ClientsEnd
  <2>2. \A v \in Armed' : workers'[v].pc = "starts" \/ workers'[v].conf = smem'
    BY <1>0, <1>1, <1>3, <1>5 DEF ArmedForMessage, Armed, Live
  <2> QED
    BY <1>0, <1>1, <1>5, <2>1, <2>2 DEF ArmedForMessage, ForkedFor
<1>11. OwnConnections'
  <2> SUFFICES ASSUME NEW v \in DOMAIN workers
               PROVE  LET k == workers'[v] IN
                      /\ k.pc = "starts" => k.sigint /\ k.queue = <<>> /\ k.said = "nothing"
                      /\ k.pc \in {"accepted", "serves"} => k.queue # <<>>
                      /\ v \in Armed' \/ k.pc = "serves" => \A i \in DOMAIN k.queue : k.queue[i] = k.conf
    BY <1>3 DEF OwnConnections
  <2>1. CASE v = w
    <3> DEFINE q == <<c>>
    <3>1. q # <<>> /\ \A i \in DOMAIN q : q[i] = c
      OBVIOUS
    <3>2. workers'[v].queue = q /\ workers'[v].conf = c /\ workers'[v].pc = "serves"
      BY <1>2, <1>3, <2>1
    <3> HIDE DEF q
    <3> QED
      BY <3>1, <3>2
  <2>2. CASE v # w
    BY <1>0, <1>3, <1>5, <2>2 DEF OwnConnections
  <2> QED
    BY <2>1, <2>2
<1>12. LocksTrue'
  BY <1>0, <1>1, <1>6, LocksStay
<1>13. RepliesTrue'
  BY <1>1, <1>4, <1>6, AnswersStay DEF ClientsEnd
<1> QED
  BY <1>7, <1>8, <1>9, <1>10, <1>11, <1>12, <1>13 DEF MperfInv

-----------------------------------------------------------------------------
\* A client dials when those before it are done: it is the last in the queue.
LEMMA ClientDialsKeeps ==
  ASSUME MperfInv, NEW c \in Clients, ClientDials(c)
  PROVE  MperfInv'
<1>0. /\ MperfTypeOK /\ InTurn /\ LastArmed /\ ArmedForMessage /\ OwnConnections
      /\ LastLives /\ LocksTrue /\ RepliesTrue
  BY DEF MperfInv
<1>1. /\ workers' = workers /\ smem' = smem /\ setting' = setting
      /\ Clients' = Clients /\ Clients \subseteq Nat /\ NoClient \notin Clients
  BY <1>0, ClientNumbers DEF ClientDials, Clients
<1>2. Live' = Live /\ Armed' = Armed
  BY <1>1 DEF Live, Armed
<1>3. /\ clients' \in [Clients -> ClientRecord]
      /\ clients[c].pc = "idle" /\ clients'[c].pc = "asking" /\ clients'[c].ret = clients[c].ret
      /\ \A d \in Clients : d # c => clients'[d] = clients[d]
  <2>1. PICK k \in ClientRecord : k = clients[c]
    BY <1>0 DEF MperfTypeOK
  <2>2. [k EXCEPT !.pc = "asking"] \in ClientRecord
    BY DEF ClientRecord
  <2>3. clients' = [clients EXCEPT ![c] = [k EXCEPT !.pc = "asking"]]
    BY <2>1 DEF ClientDials, Advances
  <2>4. [k EXCEPT !.pc = "asking"].pc = "asking" /\ [k EXCEPT !.pc = "asking"].ret = k.ret
    BY DEF ClientRecord
  <2> QED
    BY <1>0, <2>1, <2>2, <2>3, <2>4 DEF MperfTypeOK, ClientDials
<1>4. \A d \in Clients : d # c => clients[d].pc \in {"idle", "done"}
  <2> SUFFICES ASSUME NEW d \in Clients, d # c, clients[d].pc # "idle" PROVE clients[d].pc = "done"
    OBVIOUS
  <2>1. CASE d < c
    BY <2>1 DEF ClientDials
  <2>2. CASE c < d
    BY <1>0, <1>3, <2>2 DEF InTurn
  <2> QED
    BY <1>1, <2>1, <2>2
<1> DEFINE backlog == Append(ctl.backlog, c)
<1>5. /\ backlog \in Seq(Clients)
      /\ \A i \in DOMAIN backlog :
              \/ i = Len(backlog) /\ backlog[i] = c
              \/ i \in DOMAIN ctl.backlog /\ backlog[i] = ctl.backlog[i] /\ backlog[i] \in Clients
  <2>1. ctl.backlog \in Seq(Clients)
    BY <1>0 DEF MperfTypeOK, CtlRecord
  <2> QED
    BY <2>1
<1>6. /\ ctl' \in CtlRecord /\ ctl'.backlog = backlog /\ ctl'.client = ctl.client
      /\ ctl'.pc = ctl.pc /\ ctl'.chldPID = ctl.chldPID /\ ctl'.locks = ctl.locks /\ ctl'.ret = ctl.ret
  <2>1. ctl' = [ctl EXCEPT !.backlog = backlog]
    BY DEF ClientDials
  <2> HIDE DEF backlog
  <2> QED
    BY <1>0, <1>5, <2>1 DEF MperfTypeOK, CtlRecord
<1> HIDE DEF backlog
<1>7. MperfTypeOK'
  BY <1>0, <1>1, <1>3, <1>6, SameRecords DEF MperfTypeOK
<1>8. InTurn'
  <2>1. \A i \in DOMAIN ctl.backlog : clients[ctl.backlog[i]].pc # "idle"
    BY <1>0 DEF InTurn
  <2>2. \A i \in DOMAIN backlog :
          /\ clients'[backlog[i]].pc # "idle"
          /\ clients'[backlog[i]].pc = "asking" => i = Len(backlog)
    BY <1>3, <1>4, <1>5, <2>1
  <2>3. ctl.client # NoClient => ctl.client \in Clients /\ ctl.client # c
    BY <1>0, <1>3 DEF InTurn, MperfTypeOK, CtlRecord, Someone
  <2>4. ctl.client # NoClient => clients'[ctl.client].pc = "done"
    BY <1>0, <1>3, <1>4, <2>3 DEF InTurn
  <2>5. \A d, e \in Clients : d < e /\ clients'[e].pc # "idle" => clients'[d].pc = "done"
    <3> SUFFICES ASSUME NEW d \in Clients, NEW e \in Clients, d < e, clients'[e].pc # "idle"
                 PROVE  clients'[d].pc = "done"
      OBVIOUS
    <3>1. CASE e = c
      BY <1>1, <1>3, <3>1 DEF ClientDials
    <3>2. CASE e # c
      BY <1>0, <1>3, <3>2 DEF InTurn
    <3> QED
      BY <3>1, <3>2
  <2>6. \A d \in Clients : clients'[d].pc \notin {"answered", "connected"}
    BY <1>3, <1>4
  <2>7. ctl.pc = "accepts" <=> ctl.client = NoClient
    BY <1>0 DEF InTurn
  <2> QED
    BY <1>1, <1>6, <2>2, <2>4, <2>5, <2>6, <2>7 DEF InTurn
<1>9. LastArmed' /\ LastLives'
  BY <1>0, <1>1, <1>2, <1>6 DEF LastArmed, LastLives
<1>10. ArmedForMessage'
  <2>1. \A d \in Clients : clients'[d].pc # "answered"
    BY <1>3, <1>4
  <2> QED
    BY <1>0, <1>1, <1>2, <1>6, <2>1 DEF ArmedForMessage, ForkedFor
<1>11. OwnConnections'
  BY <1>0, <1>1, <1>2 DEF OwnConnections
<1>12. LocksTrue'
  BY <1>0, <1>1, <1>6 DEF LocksTrue, Said, MyAsk
<1>13. RepliesTrue'
  BY <1>0, <1>1, <1>3 DEF RepliesTrue
<1> QED
  BY <1>7, <1>8, <1>9, <1>10, <1>11, <1>12, <1>13 DEF MperfInv

\* What a client has written only the controller looks at.
LEMMA ClientWritesKeeps ==
  ASSUME MperfInv, NEW c \in Clients, ClientWrites(c)
  PROVE  MperfInv'
<1>0. /\ MperfTypeOK /\ InTurn /\ LastArmed /\ ArmedForMessage /\ OwnConnections
      /\ LastLives /\ LocksTrue /\ RepliesTrue
  BY DEF MperfInv
<1>1. /\ workers' = workers /\ smem' = smem /\ setting' = setting /\ ctl' = ctl
      /\ Clients' = Clients
  BY DEF ClientWrites, Clients
<1>2. Live' = Live /\ Armed' = Armed
  BY <1>1 DEF Live, Armed
<1>3. /\ clients' \in [Clients -> ClientRecord]
      /\ \A d \in Clients : clients'[d].pc = clients[d].pc /\ clients'[d].ret = clients[d].ret
  <2>1. PICK k \in ClientRecord : k = clients[c]
    BY <1>0 DEF MperfTypeOK
  <2>2. PICK wrote \in {"command", "message"} : clients' = [clients EXCEPT ![c] = [k EXCEPT !.wrote = wrote]]
    BY <2>1 DEF ClientWrites
  <2>3. /\ [k EXCEPT !.wrote = wrote] \in ClientRecord
        /\ [k EXCEPT !.wrote = wrote].pc = k.pc /\ [k EXCEPT !.wrote = wrote].ret = k.ret
    BY DEF ClientRecord
  <2> QED
    BY <1>0, <2>1, <2>2, <2>3 DEF MperfTypeOK
<1>4. MperfTypeOK'
  BY <1>0, <1>1, <1>3, SameRecords DEF MperfTypeOK
<1>5. InTurn'
  <2>1. /\ \A i \in DOMAIN ctl.backlog : ctl.backlog[i] \in Clients
        /\ ctl.client # NoClient => ctl.client \in Clients
    BY <1>0 DEF MperfTypeOK, CtlRecord, Someone
  <2> QED
    BY <1>0, <1>1, <1>3, <2>1 DEF InTurn
<1>6. LastArmed' /\ LastLives' /\ OwnConnections'
  BY <1>0, <1>1, <1>2 DEF LastArmed, LastLives, OwnConnections
<1>7. ArmedForMessage'
  BY <1>0, <1>1, <1>2, <1>3 DEF ArmedForMessage, ForkedFor
<1>8. LocksTrue'
  BY <1>0, <1>1 DEF LocksTrue, Said, MyAsk
<1>9. RepliesTrue'
  BY <1>0, <1>1, <1>3 DEF RepliesTrue
<1> QED
  BY <1>4, <1>5, <1>6, <1>7, <1>8, <1>9 DEF MperfInv

\* A client that ends, because it was stopped or nobody listens
LEMMA ClientFailsKeeps ==
  ASSUME MperfInv, NEW c \in Clients, clients[c].pc # "idle", Advances(c, "done"),
         UNCHANGED <<ctl, workers, smem, setting>>
  PROVE  MperfInv'
<1>0. /\ MperfTypeOK /\ InTurn /\ LastArmed /\ ArmedForMessage /\ OwnConnections
      /\ LastLives /\ LocksTrue /\ RepliesTrue
  BY DEF MperfInv
<1>1. /\ workers' = workers /\ smem' = smem /\ setting' = setting /\ ctl' = ctl
      /\ Clients' = Clients
  BY DEF Clients
<1>2. Live' = Live /\ Armed' = Armed
  BY <1>1 DEF Live, Armed
<1>3. ClientsEnd
  <2>1. PICK k \in ClientRecord : k = clients[c]
    BY <1>0 DEF MperfTypeOK
  <2>2. clients' = [clients EXCEPT ![c] = [k EXCEPT !.pc = "done"]] /\ k.pc # "idle"
    BY <2>1 DEF Advances
  <2>3. /\ [k EXCEPT !.pc = "done"] \in ClientRecord
        /\ [k EXCEPT !.pc = "done"].pc = "done" /\ [k EXCEPT !.pc = "done"].ret = k.ret
    BY DEF ClientRecord
  <2> QED
    BY <1>0, <2>1, <2>2, <2>3 DEF MperfTypeOK, ClientsEnd
<1>4. MperfTypeOK'
  BY <1>0, <1>1, <1>3, SameRecords DEF MperfTypeOK, ClientsEnd
<1>5. InTurn'
  <2>1. ctl'.pc = "accepts" <=> ctl'.client = NoClient
    BY <1>0, <1>1 DEF InTurn
  <2> QED
    BY <1>1, <1>3, <2>1, EndKeepsOrder
<1>6. LastArmed' /\ LastLives' /\ OwnConnections'
  BY <1>0, <1>1, <1>2 DEF LastArmed, LastLives, OwnConnections
<1>7. ArmedForMessage'
  <2>1. \A d \in Clients : clients'[d].pc = "answered" => clients[d].pc = "answered"
    BY <1>3 DEF ClientsEnd
  <2> QED
    BY <1>0, <1>1, <1>2, <2>1 DEF ArmedForMessage, ForkedFor
<1>8. LocksTrue'
  BY <1>0, <1>1 DEF LocksTrue, Said, MyAsk
<1>9. RepliesTrue'
  BY <1>0, <1>1, <1>3 DEF RepliesTrue, ClientsEnd
<1> QED
  BY <1>4, <1>5, <1>6, <1>7, <1>8, <1>9 DEF MperfInv

\* A client connects once it was answered: a worker that is armed then was
\* forked for it.
LEMMA ClientConnectsKeeps ==
  ASSUME MperfInv, NEW c \in Clients, ClientConnects(c)
  PROVE  MperfInv'
<1>0. /\ MperfTypeOK /\ InTurn /\ LastArmed /\ ArmedForMessage /\ OwnConnections
      /\ LastLives /\ LocksTrue /\ RepliesTrue
  BY DEF MperfInv
<1>1. /\ smem' = smem /\ setting' = setting /\ ctl' = ctl /\ Clients' = Clients
      /\ clients[c].pc = "answered" /\ ForkedFor(c)
  BY <1>0 DEF ClientConnects, Clients, ArmedForMessage
<1>2. CASE Advances(c, "done") /\ workers' = workers
  <2>1. UNCHANGED <<ctl, workers, smem, setting>> /\ clients[c].pc # "idle"
    BY <1>1, <1>2
  <2> QED
    BY <1>2, <2>1, ClientFailsKeeps
<1>3. ASSUME Advances(c, "connected"), NEW w \in Listening,
             workers' = [workers EXCEPT ![w].queue = Append(@, c)]
      PROVE  MperfInv'
  <2>1. /\ w \in Live /\ w \in DOMAIN workers
        /\ workers[w].pc \in {"listens", "checks", "checked", "blocked", "accepted"}
    BY DEF Listening, Live
  <2>2. w \in Armed => workers[w].conf = c
    BY <1>0, <1>1, <2>1 DEF ForkedFor, ArmedForMessage
  <2>3. PICK k \in WorkerRecord : k = workers[w]
    BY <1>0, <2>1 DEF MperfTypeOK
  <2> DEFINE q == Append(k.queue, c)
             m == [k EXCEPT !.queue = q]
  <2>4. /\ q \in Seq(Clients) /\ q # <<>>
        /\ \A i \in DOMAIN q : q[i] = c \/ (i \in DOMAIN k.queue /\ q[i] = k.queue[i])
    <3>1. k.queue \in Seq(Clients)
      BY DEF WorkerRecord
    <3> QED
      BY <3>1
  <2>5. workers' = [workers EXCEPT ![w] = m]
    BY <1>3, <2>3
  <2> HIDE DEF q
  <2>6. /\ m \in WorkerRecord /\ m.queue = q
        /\ m.conf = k.conf /\ m.said = k.said /\ m.pc = k.pc /\ (m.sigint <=> k.sigint)
    BY <2>4 DEF WorkerRecord
  <2> HIDE DEF m
  <2>7. /\ Len(workers) \in Nat /\ DOMAIN workers = 1 .. Len(workers)
        /\ workers' \in Seq(WorkerRecord) /\ Len(workers') = Len(workers) /\ DOMAIN workers' = DOMAIN workers
        /\ workers'[w] = m
        /\ \A v \in DOMAIN workers : v # w => workers'[v] = workers[v]
    <3>1. workers \in Seq(WorkerRecord)
      BY <1>0 DEF MperfTypeOK
    <3> QED
      BY <2>1, <2>5, <2>6, <3>1, OneWorkerChanged
  <2>8. \A v \in DOMAIN workers :
          /\ workers'[v].conf = workers[v].conf /\ workers'[v].said = workers[v].said
          /\ workers'[v].pc = workers[v].pc /\ (workers'[v].sigint <=> workers[v].sigint)
    BY <2>3, <2>6, <2>7
  <2>9. Live' = Live /\ Armed' = Armed
    BY <2>7, <2>8 DEF Live, Armed
  <2>10. \A d, what : Said(d, what) => Said(d, what)'
    BY <2>7, <2>8 DEF Said
  <2>11. /\ clients' \in [Clients -> ClientRecord]
         /\ clients'[c].pc = "connected" /\ clients'[c].ret = clients[c].ret
         /\ \A d \in Clients : d # c => clients'[d] = clients[d]
    <3>1. PICK r \in ClientRecord : r = clients[c]
      BY <1>0 DEF MperfTypeOK
    <3>2. clients' = [clients EXCEPT ![c] = [r EXCEPT !.pc = "connected"]]
      BY <1>3, <3>1 DEF Advances
    <3>3. /\ [r EXCEPT !.pc = "connected"] \in ClientRecord
          /\ [r EXCEPT !.pc = "connected"].pc = "connected" /\ [r EXCEPT !.pc = "connected"].ret = r.ret
      BY DEF ClientRecord
    <3> QED
      BY <1>0, <3>1, <3>2, <3>3 DEF MperfTypeOK
  <2>12. MperfTypeOK'
    BY <1>0, <1>1, <2>7, <2>11, SameRecords DEF MperfTypeOK
  <2>13. InTurn'
    <3>1. ctl.pc = "accepts" /\ ctl.backlog = <<>> /\ ctl.client = NoClient
      BY <1>0, <1>1 DEF InTurn
    <3>2. \A d, e \in Clients : d < e /\ clients'[e].pc # "idle" => clients'[d].pc = "done"
      <4>1. \A e \in Clients : clients'[e].pc # "idle" => clients[e].pc # "idle"
        BY <1>1, <2>11
      <4>2. \A d \in Clients : clients[d].pc = "done" => clients'[d].pc = "done"
        BY <1>1, <2>11
      <4> QED
        BY <1>0, <4>1, <4>2 DEF InTurn
    <3> QED
      BY <1>1, <3>1, <3>2 DEF InTurn
  <2>14. LastArmed' /\ LastLives'
    BY <1>0, <1>1, <2>7, <2>9 DEF LastArmed, LastLives
  <2>15. ArmedForMessage'
    <3>1. \A d \in Clients : clients'[d].pc = "answered" => clients[d].pc = "answered"
      BY <1>1, <2>11
    <3>2. \A v \in Armed' : workers'[v].pc = "starts" \/ workers'[v].conf = smem'
      BY <1>0, <1>1, <2>8, <2>9 DEF ArmedForMessage, Armed, Live
    <3> QED
      BY <1>0, <1>1, <2>9, <3>1, <3>2 DEF ArmedForMessage, ForkedFor
  <2>16. OwnConnections'
    <3> SUFFICES ASSUME NEW v \in DOMAIN workers
                 PROVE  LET r == workers'[v] IN
                        /\ r.pc = "starts" => r.sigint /\ r.queue = <<>> /\ r.said = "nothing"
                        /\ r.pc \in {"accepted", "serves"} => r.queue # <<>>
                        /\ v \in Armed' \/ r.pc = "serves" => \A i \in DOMAIN r.queue : r.queue[i] = r.conf
      BY <2>7 DEF OwnConnections
    <3>1. CASE v = w
      <4>1. workers'[v].queue = q /\ workers'[v].conf = k.conf
        BY <2>6, <2>7, <3>1
      <4>2. workers'[v].pc \notin {"starts", "serves"}
        BY <2>1, <2>8, <3>1
      <4>3. v \in Armed' => \A i \in DOMAIN q : q[i] = k.conf
        BY <1>0, <2>1, <2>2, <2>3, <2>4, <2>9, <3>1 DEF OwnConnections
      <4> QED
        BY <2>4, <4>1, <4>2, <4>3
    <3>2. CASE v # w
      BY <1>0, <2>7, <2>9, <3>2 DEF OwnConnections
    <3> QED
      BY <3>1, <3>2
  <2>17. LocksTrue'
    BY <1>0, <1>1, <2>10, LocksStay
  <2>18. RepliesTrue'
    <3>1. \A d \in Clients : clients'[d].ret = clients[d].ret
      BY <2>11
    <3> QED
      BY <1>1, <2>10, <3>1, AnswersStay
  <2> QED
    BY <2>12, <2>13, <2>14, <2>15, <2>16, <2>17, <2>18 DEF MperfInv
<1> QED
  BY <1>2, <1>3 DEF ClientConnects

-----------------------------------------------------------------------------
\* Every step of a worker keeps the invariant.
LEMMA WorkerGoesOnKeeps ==
  ASSUME MperfInv, NEW w \in DOMAIN workers, WorkerGoesOn(w)
  PROVE  MperfInv'
<1>1. CASE WorkerConfigures(w)
  BY <1>1, ConfiguresKeep
<1>2. CASE WorkerRejects(w)
  <2>1. w \in Live /\ Exits(w) /\ smem' = smem /\ setting' = setting
    BY <1>2 DEF WorkerRejects, Live
  <2> QED
    BY <2>1, ExitsKeeps
<1>3. CASE WorkerListens(w)
  <2>1. w \in Live /\ workers[w].pc # "starts" /\ smem' = smem /\ setting' = setting
    BY <1>3 DEF WorkerListens, Live
  <2>2. CASE Exits(w)
    BY <2>1, <2>2, ExitsKeeps
  <2>3. CASE Becomes(w, "listens") /\ UNCHANGED <<ctl, clients>>
    BY <2>1, <2>3, MovesKeep
  <2> QED
    BY <1>3, <2>2, <2>3 DEF WorkerListens
<1>4. CASE WorkerRuns(w)
  <2>1. /\ w \in Live /\ workers[w].pc # "starts" /\ Becomes(w, "checks")
        /\ UNCHANGED <<ctl, clients, smem, setting>>
    BY <1>4 DEF WorkerRuns, Live
  <2> QED
    BY <2>1, MovesKeep
<1>5. CASE WorkerChecks(w)
  <2>1. w \in Live /\ workers[w].pc # "starts" /\ smem' = smem /\ setting' = setting
    BY <1>5 DEF WorkerChecks, Live
  <2>2. CASE Exits(w)
    BY <2>1, <2>2, ExitsKeeps
  <2>3. CASE Becomes(w, "checked") /\ UNCHANGED <<ctl, clients>>
    BY <2>1, <2>3, MovesKeep
  <2> QED
    BY <1>5, <2>2, <2>3 DEF WorkerChecks
<1>6. CASE WorkerAccepts(w)
  <2>1. w \in Live /\ workers[w].pc # "starts" /\ UNCHANGED <<ctl, clients, smem, setting>>
    BY <1>6 DEF WorkerAccepts, Live
  <2>2. CASE Becomes(w, "blocked")
    BY <2>1, <2>2, MovesKeep
  <2>3. CASE Becomes(w, "accepted") /\ workers[w].queue # <<>>
    BY <2>1, <2>3, MovesKeep
  <2> QED
    BY <1>6, <2>2, <2>3 DEF WorkerAccepts
<1>7. CASE WorkerServes(w)
  <2>1. w \in Live /\ smem' = smem /\ setting' = setting
    BY <1>7 DEF WorkerServes, Live
  <2>2. CASE MayServe(w)
    BY <1>7, <2>1, <2>2, ServesKeeps DEF MayServe, Armed
  <2>3. CASE ~MayServe(w)
    <3>1. Exits(w)
      BY <1>7, <2>3 DEF WorkerServes
    <3> QED
      BY <2>1, <3>1, ExitsKeeps
  <2> QED
    BY <2>2, <2>3
<1>8. CASE WorkerEnds(w)
  <2>1. w \in Live /\ Exits(w) /\ smem' = smem /\ setting' = setting
    BY <1>8 DEF WorkerEnds, Live
  <2> QED
    BY <2>1, ExitsKeeps
<1> QED
  BY <1>1, <1>2, <1>3, <1>4, <1>5, <1>6, <1>7, <1>8 DEF WorkerGoesOn

\* So does every step of the controller.
LEMMA ControllerGoesOnKeeps ==
  ASSUME MperfInv, ControllerGoesOn
  PROVE  MperfInv'
  BY ParseCommandKeeps, TerminateArmsKeeps, TerminateKillsKeeps, TerminateWaitsKeeps,
     TerminateKillsCompletelyKeeps, ConfigureReceivesKeeps, ForkKeeps, StorePidKeeps,
     ConfigureSpinsKeeps, ConfigureLooksKeeps, ReplyKeeps
     DEF ControllerGoesOn

\* So does a step that changes nothing.
LEMMA ControlStays ==
  ASSUME MperfInv, UNCHANGED MperfVars
  PROVE  MperfInv'
  BY DEF MperfVars, MperfInv, MperfTypeOK, CtlRecord, WorkerRecord, Someone, Clients, InTurn,
     LastArmed, Armed, Live, ArmedForMessage, ForkedFor, OwnConnections, LastLives, LocksTrue,
     Said, MyAsk, RepliesTrue

\* Every step keeps the invariant.
LEMMA ControlStep ==
  ASSUME MperfInv, [MperfNext]_MperfVars
  PROVE  MperfInv'
<1>1. CASE ControllerAccepts
  BY <1>1, ControllerAcceptsKeeps
<1>2. CASE ControllerGoesOn
  BY <1>2, ControllerGoesOnKeeps
<1>3. CASE AlarmFires
  BY <1>3, AlarmFiresKeeps
<1>4. ASSUME NEW w \in DOMAIN workers, WorkerGoesOn(w) PROVE MperfInv'
  BY <1>4, WorkerGoesOnKeeps
<1>5. ASSUME NEW c \in Clients, ClientGoesOn(c) \/ ClientQuits(c) PROVE MperfInv'
  <2>1. CASE ClientDials(c)
    BY <2>1, ClientDialsKeeps
  <2>2. CASE ClientWrites(c)
    BY <2>2, ClientWritesKeeps
  <2>3. CASE ClientConnects(c)
    BY <2>3, ClientConnectsKeeps
  <2>4. CASE ClientQuits(c)
    <3>1. clients[c].pc # "idle" /\ Advances(c, "done") /\ UNCHANGED <<ctl, workers, smem, setting>>
      BY <2>4 DEF ClientQuits
    <3> QED
      BY <3>1, ClientFailsKeeps
  <2> QED
    BY <1>5, <2>1, <2>2, <2>3, <2>4 DEF ClientGoesOn
<1>6. CASE UNCHANGED MperfVars
  BY <1>6, ControlStays
<1> QED
  BY <1>1, <1>2, <1>3, <1>4, <1>5, <1>6 DEF MperfNext

\* The invariant says what the runs check.
LEMMA ControlSound ==
  ASSUME MperfInv
  PROVE  OwnWorkerServes /\ AtMostOneWorker /\ RepliesTrue
<1>0. MperfTypeOK /\ OwnConnections /\ LastLives /\ RepliesTrue
  BY DEF MperfInv
<1>1. OwnWorkerServes
  <2> SUFFICES ASSUME NEW w \in DOMAIN workers, workers[w].pc = "serves"
               PROVE  workers[w].conf = Head(workers[w].queue)
    BY DEF OwnWorkerServes
  <2>1. /\ workers[w].queue # <<>>
        /\ \A i \in DOMAIN workers[w].queue : workers[w].queue[i] = workers[w].conf
    BY <1>0 DEF OwnConnections
  <2>2. workers[w] \in WorkerRecord
    BY <1>0 DEF MperfTypeOK
  <2>3. workers[w].queue \in Seq(Clients)
    BY <2>2 DEF WorkerRecord
  <2> QED
    BY <2>1, <2>3, HeadAndTail
<1>2. AtMostOneWorker
  <2> SUFFICES ASSUME setting.completeKill PROVE Cardinality(Live) <= 1
    BY DEF AtMostOneWorker
  <2>1. PICK x : Live \subseteq {x}
    BY <1>0 DEF LastLives
  <2>2. IsFiniteSet({x}) /\ Cardinality({x}) = 1
    BY FS_Singleton, Zenon
  <2>3. Cardinality(Live) <= Cardinality({x})
    BY <2>1, <2>2, FS_Subset
  <2> QED
    BY <2>2, <2>3
<1> QED
  BY <1>0, <1>1, <1>2

\* The invariant holds in every state.
THEOREM MperfInvariant == MperfSpec => []MperfInv
<1>1. MperfInit => MperfInv
  BY ControlStarts
<1>2. MperfInv /\ [MperfNext]_MperfVars => MperfInv'
  BY ControlStep
<1> QED
  BY <1>1, <1>2, PTL DEF MperfSpec

\* A test is served by the worker configured for it, as worker.c looks at its
\* locks again after accept.
THEOREM TestsServedByTheirWorker == MperfSpec => []OwnWorkerServes
<1>1. MperfInv => OwnWorkerServes
  BY ControlSound
<1> QED
  BY <1>1, MperfInvariant, PTL

\* With -k no two workers live at once (killCompletely of server.c).
THEOREM OneWorkerWithK == MperfSpec => []AtMostOneWorker
<1>1. MperfInv => AtMostOneWorker
  BY ControlSound
<1> QED
  BY <1>1, MperfInvariant, PTL

\* What a client is answered is what a worker said of its own message
\* (doConfigure).
THEOREM RepliesAreTrue == MperfSpec => []RepliesTrue
<1>1. MperfInv => RepliesTrue
  BY ControlSound
<1> QED
  BY <1>1, MperfInvariant, PTL

-----------------------------------------------------------------------------
(***************************************************************************)
(* The test                                                                *)
(***************************************************************************)

SideType(pcs) ==
    [pc : pcs, n : Int, nleft : Int, moved : Int, ret : Int, counted : Int,
     total : Int, go : BOOLEAN]

SenderPlaces == {"tests", "writes", "in write", "wrote", "ends"}
ReceiverPlaces == {"reads", "in read", "read", "ends"}

TransferTypeOK ==
    /\ test \in [long : BOOLEAN, size : Nat]
    /\ snd \in SideType(SenderPlaces)
    /\ rcv \in SideType(ReceiverPlaces)
    /\ wire \in [bytes : Nat, broken : BOOLEAN]

\* A part of a packet, which is what may be moved and not counted
PartOfPacket(k) == 0 <= k /\ k < PacketLen

\* The packet in hand is not empty, not longer than a packet and, in a fix
\* test, not longer than what is left.
InHand(t, n, counted) ==
    /\ 0 < n /\ n <= PacketLen
    /\ ~t.long => counted + n <= t.size

\* What the sender's fields are at each of its places: how far the bytes it has
\* moved (total) are ahead of those it has counted.
AtTests(t, counted, total) == total = counted /\ (~t.long => counted <= t.size)

Writes(t, n, nleft, counted, total) ==
    /\ InHand(t, n, counted)
    /\ 0 <= nleft /\ nleft <= n
    /\ total = counted + n - nleft

InWrite(t, n, nleft, moved, counted, total) ==
    /\ InHand(t, n, counted)
    /\ 0 < nleft /\ nleft <= n
    /\ 0 <= moved /\ moved <= nleft
    /\ total = counted + n - nleft + moved

\* Only a signal or a broken connection (over) makes rio_writenr return less.
Wrote(t, n, ret, counted, total, over) ==
    /\ InHand(t, n, counted)
    /\ ret < n => PartOfPacket(total - counted) /\ total - counted < n /\ over
    /\ ret >= n => ret = n /\ total = counted + n

\* Only they end a fix test before its size.
Ends(t, counted, total, over) ==
    /\ PartOfPacket(total - counted)
    /\ ~over /\ ~t.long => counted = t.size /\ total = t.size

SenderOK ==
    LET over == ~snd.go \/ wire.broken
    IN  /\ snd.pc = "tests" => AtTests(test, snd.counted, snd.total)
        /\ snd.pc = "writes" => Writes(test, snd.n, snd.nleft, snd.counted, snd.total)
        /\ snd.pc = "in write" =>
             InWrite(test, snd.n, snd.nleft, snd.moved, snd.counted, snd.total)
        /\ snd.pc = "wrote" => Wrote(test, snd.n, snd.ret, snd.counted, snd.total, over)
        /\ snd.pc = "ends" => Ends(test, snd.counted, snd.total, over)

\* The same for the receiver, which asks for whole packets.
InRead(n, nleft, counted, total) ==
    n = PacketLen /\ 0 < nleft /\ nleft <= n /\ total = counted + n - nleft

ReadDone(n, ret, counted, total) ==
    /\ n = PacketLen /\ ret <= n
    /\ IF ret < 0 THEN PartOfPacket(total - counted) ELSE total = counted + ret

AllRead(ret, counted, total) ==
    IF ret < 0 THEN PartOfPacket(total - counted) ELSE total = counted

ReceiverOK ==
    /\ rcv.pc = "reads" => rcv.total = rcv.counted
    /\ rcv.pc = "in read" => InRead(rcv.n, rcv.nleft, rcv.counted, rcv.total)
    /\ rcv.pc = "read" => ReadDone(rcv.n, rcv.ret, rcv.counted, rcv.total)
    /\ rcv.pc = "ends" => AllRead(rcv.ret, rcv.counted, rcv.total)

\* What was written and not read is in the connection.
BytesOnTheWay == ~wire.broken => snd.total = rcv.total + wire.bytes

\* A receiver nobody interrupted goes on to the end of the connection.
AtTheEnd == snd.pc = "ends" /\ wire.bytes = 0 /\ rcv.ret >= 0
ReadToTheEnd ==
    /\ rcv.pc = "ends" \/ (rcv.pc = "read" /\ rcv.ret < rcv.n)
    /\ rcv.go /\ ~wire.broken
    => AtTheEnd

TransferInv ==
    TransferTypeOK /\ SenderOK /\ ReceiverOK /\ BytesOnTheWay /\ ReadToTheEnd

USE TransferAssumption

\* What the fields of a side are after a step.
FieldsAre(s, pc, n, nleft, moved, ret, counted, total, go) ==
    /\ s.pc = pc /\ s.n = n /\ s.nleft = nleft /\ s.moved = moved
    /\ s.ret = ret /\ s.counted = counted /\ s.total = total /\ s.go = go

\* A side is determined by its fields.
LEMMA SideFields ==
  ASSUME NEW S, NEW s \in SideType(S)
  PROVE  /\ s.pc \in S /\ s.n \in Int /\ s.nleft \in Int /\ s.moved \in Int
         /\ s.ret \in Int /\ s.counted \in Int /\ s.total \in Int /\ s.go \in BOOLEAN
BY DEF SideType

\* The test begins with nothing moved and nothing counted.
LEMMA TransferInitOK ==
  TransferInit => TransferInv
<1> SUFFICES ASSUME TransferInit PROVE TransferInv
  OBVIOUS
<1>1. /\ FieldsAre(snd, "tests", 0, 0, 0, 0, 0, 0, TRUE)
      /\ FieldsAre(rcv, "reads", 0, 0, 0, 0, 0, 0, TRUE)
      /\ wire.bytes = 0 /\ wire.broken = FALSE
  BY DEF TransferInit, Side, FieldsAre
<1>2. TransferTypeOK
  BY DEF TransferInit, TransferTypeOK, Side, SideType, SenderPlaces, ReceiverPlaces
<1> QED
  BY <1>1, <1>2 DEF TransferInv, TransferTypeOK, FieldsAre, SenderOK, AtTests, ReceiverOK,
     BytesOnTheWay, ReadToTheEnd

\* A packet is what is left of a fix test and no longer than a packet; the test
\* ends when nothing is left.
LEMMA TestsFollow ==
  ASSUME test \in [long : BOOLEAN, size : Nat], NEW counted \in Int, NEW total \in Int,
         snd.counted = counted, AtTests(test, counted, total), NEW over \in BOOLEAN
  PROVE  /\ ThisLen \in Int
         /\ ThisLen > 0 => Writes(test, ThisLen, ThisLen, counted, total)
         /\ ~(ThisLen > 0) \/ over => Ends(test, counted, total, over)
<1> DEFINE size == test.size
           long == test.long
           len == ThisLen
<1>1. PacketLen \in Nat /\ PacketLen > 0 /\ size \in Nat /\ long \in BOOLEAN
  OBVIOUS
<1>2. total = counted /\ (~long => counted <= size)
  BY DEF AtTests
<1>3. len = IF long THEN PacketLen ELSE Least(PacketLen, size - counted)
  BY DEF ThisLen
<1> HIDE DEF size, long, len
<1>4. /\ len \in Int /\ len <= PacketLen /\ 0 <= len
      /\ ~long => counted + len <= size
      /\ ~long /\ ~(len > 0) => counted = size
      /\ long => len > 0
  BY <1>1, <1>2, <1>3 DEF Least
<1>5. total - counted = 0 /\ total = counted + len - len
  BY <1>2, <1>4
<1>6. len > 0 => Writes(test, len, len, counted, total)
  BY <1>1, <1>2, <1>4, <1>5 DEF Writes, InHand, long, size
<1>7. ~(len > 0) \/ over => Ends(test, counted, total, over)
  BY <1>1, <1>2, <1>4, <1>5 DEF Ends, PartOfPacket, long, size
<1> QED
  BY <1>4, <1>6, <1>7 DEF len

\* The loop of rio_writenr in numbers: it asks for what is left, or returns.
LEMMA WritesFollow ==
  ASSUME NEW t, NEW n \in Int, NEW nleft \in Int, NEW counted \in Int, NEW total \in Int,
         Writes(t, n, nleft, counted, total), NEW over
  PROVE  /\ nleft = 0 => Wrote(t, n, n, counted, total, over)
         /\ nleft # 0 => InWrite(t, n, nleft, 0, counted, total)
BY DEF Writes, Wrote, InWrite, InHand, PartOfPacket

\* A write in numbers: it moves bytes, and returns or is cut short.
LEMMA InWriteFollow ==
  ASSUME NEW t, NEW n \in Int, NEW nleft \in Int, NEW moved \in Int,
         NEW counted \in Int, NEW total \in Int,
         InWrite(t, n, nleft, moved, counted, total)
  PROVE  /\ moved = nleft => Writes(t, n, 0, counted, total)
         /\ moved < nleft => Wrote(t, n, -1, counted, total, TRUE)
         /\ moved < nleft => Writes(t, n, nleft - moved, counted, total)
         /\ moved = 0 => Wrote(t, n, n - nleft, counted, total, TRUE)
         /\ \A k \in 1 .. nleft - moved :
              InWrite(t, n, nleft, moved + k, counted, total + k)
<1>1. PacketLen \in Nat /\ PacketLen > 0
  OBVIOUS
<1> QED
  BY <1>1 DEF Writes, Wrote, InWrite, InHand, PartOfPacket

\* doLongTest, doFixTest after a packet in numbers: it is counted, or ends the test.
LEMMA WroteFollow ==
  ASSUME NEW t \in [long : BOOLEAN, size : Nat], NEW n \in Int, NEW ret \in Int,
         NEW counted \in Int, NEW total \in Int, NEW over,
         Wrote(t, n, ret, counted, total, over)
  PROVE  /\ ret < n => Ends(t, counted, total, over)
         /\ ~(ret < n) => AtTests(t, counted + ret, total)
<1>1. PacketLen \in Nat /\ PacketLen > 0 /\ t.size \in Nat
  OBVIOUS
<1> QED
  BY <1>1 DEF Wrote, Ends, AtTests, InHand, PartOfPacket

\* From place to place of the receiver.
LEMMA ReceiverPlacesFollow ==
  ASSUME NEW n \in Int, NEW nleft \in Int, NEW counted \in Int, NEW total \in Int
  PROVE  /\ total = counted => InRead(PacketLen, PacketLen, counted, total)
         /\ InRead(n, nleft, counted, total)
              => /\ ReadDone(n, -1, counted, total)
                 /\ n - nleft >= 0 /\ n - nleft < n /\ ReadDone(n, n - nleft, counted, total)
                 /\ \A k \in 1 .. nleft :
                      IF nleft = k THEN n >= 0 /\ ReadDone(n, n, counted, total + k)
                      ELSE InRead(n, nleft - k, counted, total + k)
<1>1. PacketLen \in Nat /\ PacketLen > 0
  OBVIOUS
<1> QED
  BY <1>1 DEF InRead, ReadDone, PartOfPacket

\* doReceive after a read: what it adds to the count is what was returned.
LEMMA ReadDoneFollow ==
  ASSUME NEW n \in Int, NEW ret \in Int, NEW counted \in Int, NEW total \in Int,
         ReadDone(n, ret, counted, total), NEW c \in Int,
         ret < 0 => c = counted, ~(ret < 0) => c = counted + ret
  PROVE  AllRead(ret, c, total) /\ (ret = n => total = c)
<1>1. PacketLen \in Nat /\ PacketLen > 0
  OBVIOUS
<1> QED
  BY <1>1 DEF ReadDone, AllRead, PartOfPacket

\* A step of the sender that moves nothing: only what is said of its place has
\* to be shown.
LEMMA SenderStays ==
  ASSUME TransferInv, UNCHANGED <<test, rcv, wire>>, snd.pc # "ends",
         snd' \in SideType(SenderPlaces), snd'.total = snd.total, SenderOK'
  PROVE  TransferInv'
<1>1. TransferTypeOK'
  BY DEF TransferInv, TransferTypeOK
<1>2. ReceiverOK' /\ BytesOnTheWay' /\ ReadToTheEnd'
  BY DEF TransferInv, ReceiverOK, BytesOnTheWay, ReadToTheEnd, AtTheEnd
<1> QED
  BY <1>1, <1>2 DEF TransferInv

\* doLongTest, doFixTest begin a packet or end.
LEMMA SenderTestsOK ==
  ASSUME TransferInv, SenderTests
  PROVE  TransferInv'
<1>1. /\ SenderOK /\ ReceiverOK /\ BytesOnTheWay /\ ReadToTheEnd
      /\ test \in [long : BOOLEAN, size : Nat]
      /\ snd \in SideType(SenderPlaces) /\ rcv \in SideType(ReceiverPlaces)
      /\ wire \in [bytes : Nat, broken : BOOLEAN]
  BY DEF TransferInv, TransferTypeOK
<1>2. /\ snd.n \in Int /\ snd.nleft \in Int /\ snd.moved \in Int
      /\ snd.ret \in Int /\ snd.counted \in Int /\ snd.total \in Int /\ snd.go \in BOOLEAN
      /\ rcv.n \in Int /\ rcv.nleft \in Int
      /\ rcv.ret \in Int /\ rcv.counted \in Int /\ rcv.total \in Int /\ rcv.go \in BOOLEAN
      /\ wire.bytes \in Nat /\ wire.broken \in BOOLEAN
      /\ PacketLen \in Nat /\ PacketLen > 0
  BY <1>1, SideFields
<1> DEFINE over == ~snd.go \/ wire.broken
<1>3. /\ snd.pc = "tests" /\ UNCHANGED <<test, rcv, wire>>
      /\ snd' = IF snd.go /\ ThisLen > 0
                THEN [snd EXCEPT !.pc = "writes", !.n = ThisLen, !.nleft = ThisLen]
                ELSE [snd EXCEPT !.pc = "ends"]
  BY DEF SenderTests
<1>4. over \in BOOLEAN /\ AtTests(test, snd.counted, snd.total)
  BY <1>1, <1>2, <1>3 DEF SenderOK
<1> HIDE DEF over
<1>5. /\ ThisLen \in Int
      /\ ThisLen > 0 => Writes(test, ThisLen, ThisLen, snd.counted, snd.total)
      /\ ~(ThisLen > 0) \/ over => Ends(test, snd.counted, snd.total, over)
  BY <1>1, <1>2, <1>4, TestsFollow
<1>6. CASE snd.go /\ ThisLen > 0
  <2>1. snd' = [snd EXCEPT !.pc = "writes", !.n = ThisLen, !.nleft = ThisLen]
    BY <1>3, <1>6
  <2>3. snd' \in SideType(SenderPlaces)
    BY <1>1, <1>5, <2>1 DEF SideType, SenderPlaces
  <2>4. FieldsAre(snd', "writes", ThisLen, ThisLen, snd.moved, snd.ret,
                        snd.counted, snd.total, snd.go)
    BY <1>1, <2>1 DEF SideType, FieldsAre
  <2>5. AtTests(test, snd.counted, snd.total)
    BY <1>1, <1>3 DEF SenderOK
  <2>6. Writes(test, ThisLen, ThisLen, snd.counted, snd.total)
    BY <1>5, <1>6
  <2>7. SenderOK'
    BY <1>3, <2>4, <2>6 DEF SenderOK, FieldsAre
  <2> QED
    BY <1>3, <2>3, <2>4, <2>7, SenderStays DEF FieldsAre
<1>7. CASE ~(snd.go /\ ThisLen > 0)
  <2>1. snd' = [snd EXCEPT !.pc = "ends"]
    BY <1>3, <1>7
  <2>3. snd' \in SideType(SenderPlaces)
    BY <1>1, <2>1 DEF SideType, SenderPlaces
  <2>4. FieldsAre(snd', "ends", snd.n, snd.nleft, snd.moved, snd.ret,
                        snd.counted, snd.total, snd.go)
    BY <1>1, <2>1 DEF SideType, FieldsAre
  <2>5. AtTests(test, snd.counted, snd.total)
    BY <1>1, <1>3 DEF SenderOK
  <2>6. Ends(test, snd.counted, snd.total, over)
    BY <1>5, <1>7 DEF over
  <2>7. SenderOK'
    BY <1>3, <2>4, <2>6 DEF over, SenderOK, FieldsAre
  <2> QED
    BY <1>3, <2>3, <2>4, <2>7, SenderStays DEF FieldsAre
<1> QED
  BY <1>6, <1>7

\* The loop of rio_writenr asks for another write or returns.
LEMMA SenderWritesOK ==
  ASSUME TransferInv, SenderWrites
  PROVE  TransferInv'
<1>1. /\ SenderOK /\ ReceiverOK /\ BytesOnTheWay /\ ReadToTheEnd
      /\ test \in [long : BOOLEAN, size : Nat]
      /\ snd \in SideType(SenderPlaces) /\ rcv \in SideType(ReceiverPlaces)
      /\ wire \in [bytes : Nat, broken : BOOLEAN]
  BY DEF TransferInv, TransferTypeOK
<1>2. /\ snd.n \in Int /\ snd.nleft \in Int /\ snd.moved \in Int
      /\ snd.ret \in Int /\ snd.counted \in Int /\ snd.total \in Int /\ snd.go \in BOOLEAN
      /\ rcv.n \in Int /\ rcv.nleft \in Int
      /\ rcv.ret \in Int /\ rcv.counted \in Int /\ rcv.total \in Int /\ rcv.go \in BOOLEAN
      /\ wire.bytes \in Nat /\ wire.broken \in BOOLEAN
      /\ PacketLen \in Nat /\ PacketLen > 0
  BY <1>1, SideFields
<1> DEFINE over == ~snd.go \/ wire.broken
<1>3. /\ snd.pc = "writes" /\ UNCHANGED <<test, rcv, wire>>
      /\ snd' = IF snd.nleft = 0 THEN [snd EXCEPT !.pc = "wrote", !.ret = snd.n]
                ELSE [snd EXCEPT !.pc = "in write", !.moved = 0]
  BY DEF SenderWrites
<1>4. CASE snd.nleft = 0
  <2>1. snd' = [snd EXCEPT !.pc = "wrote", !.ret = snd.n]
    BY <1>3, <1>4
  <2>2. snd.n \in Int
    BY <1>2
  <2>3. snd' \in SideType(SenderPlaces)
    BY <1>1, <2>2, <2>1 DEF SideType, SenderPlaces
  <2>4. FieldsAre(snd', "wrote", snd.n, snd.nleft, snd.moved, snd.n,
                        snd.counted, snd.total, snd.go)
    BY <1>1, <2>1 DEF SideType, FieldsAre
  <2>5. Writes(test, snd.n, snd.nleft, snd.counted, snd.total)
    BY <1>1, <1>3 DEF SenderOK
  <2>6. Wrote(test, snd.n, snd.n, snd.counted, snd.total, over)
    BY <1>1, <1>2, <1>3, <1>4, <2>5, WritesFollow
  <2>7. SenderOK'
    BY <1>3, <2>4, <2>6 DEF SenderOK, FieldsAre
  <2> QED
    BY <1>3, <2>3, <2>4, <2>7, SenderStays DEF FieldsAre
<1>5. CASE snd.nleft # 0
  <2>1. snd' = [snd EXCEPT !.pc = "in write", !.moved = 0]
    BY <1>3, <1>5
  <2>2. 0 \in Int
    BY <1>2
  <2>3. snd' \in SideType(SenderPlaces)
    BY <1>1, <2>2, <2>1 DEF SideType, SenderPlaces
  <2>4. FieldsAre(snd', "in write", snd.n, snd.nleft, 0, snd.ret,
                        snd.counted, snd.total, snd.go)
    BY <1>1, <2>1 DEF SideType, FieldsAre
  <2>5. Writes(test, snd.n, snd.nleft, snd.counted, snd.total)
    BY <1>1, <1>3 DEF SenderOK
  <2>6. InWrite(test, snd.n, snd.nleft, 0, snd.counted, snd.total)
    BY <1>1, <1>2, <1>3, <1>5, <2>5, WritesFollow
  <2>7. SenderOK'
    BY <1>3, <2>4, <2>6 DEF SenderOK, FieldsAre
  <2> QED
    BY <1>3, <2>3, <2>4, <2>7, SenderStays DEF FieldsAre
<1> QED
  BY <1>4, <1>5

\* A write that has moved all returns.
LEMMA WriteReturnsOK ==
  ASSUME TransferInv, WriteReturns
  PROVE  TransferInv'
<1>1. /\ SenderOK /\ ReceiverOK /\ BytesOnTheWay /\ ReadToTheEnd
      /\ test \in [long : BOOLEAN, size : Nat]
      /\ snd \in SideType(SenderPlaces) /\ rcv \in SideType(ReceiverPlaces)
      /\ wire \in [bytes : Nat, broken : BOOLEAN]
  BY DEF TransferInv, TransferTypeOK
<1>2. /\ snd.n \in Int /\ snd.nleft \in Int /\ snd.moved \in Int
      /\ snd.ret \in Int /\ snd.counted \in Int /\ snd.total \in Int /\ snd.go \in BOOLEAN
      /\ rcv.n \in Int /\ rcv.nleft \in Int
      /\ rcv.ret \in Int /\ rcv.counted \in Int /\ rcv.total \in Int /\ rcv.go \in BOOLEAN
      /\ wire.bytes \in Nat /\ wire.broken \in BOOLEAN
      /\ PacketLen \in Nat /\ PacketLen > 0
  BY <1>1, SideFields
<1> DEFINE over == ~snd.go \/ wire.broken
<1>3. snd.pc = "in write" /\ snd.moved = snd.nleft /\ UNCHANGED <<test, rcv, wire>>
  BY DEF WriteReturns
<1>4. TransferInv'
  <2>1. snd' = [snd EXCEPT !.pc = "writes", !.nleft = 0]
    BY DEF WriteReturns
  <2>2. 0 \in Int
    BY <1>2
  <2>3. snd' \in SideType(SenderPlaces)
    BY <1>1, <2>2, <2>1 DEF SideType, SenderPlaces
  <2>4. FieldsAre(snd', "writes", snd.n, 0, snd.moved, snd.ret,
                        snd.counted, snd.total, snd.go)
    BY <1>1, <2>1 DEF SideType, FieldsAre
  <2>5. InWrite(test, snd.n, snd.nleft, snd.moved, snd.counted, snd.total)
    BY <1>1, <1>3 DEF SenderOK
  <2>6. Writes(test, snd.n, 0, snd.counted, snd.total)
    BY <1>1, <1>2, <1>3, <2>5, InWriteFollow
  <2>7. SenderOK'
    BY <1>3, <2>4, <2>6 DEF SenderOK, FieldsAre
  <2> QED
    BY <1>3, <2>3, <2>4, <2>7, SenderStays DEF FieldsAre
<1> QED
  BY <1>4

\* A write on a broken connection fails.
LEMMA WriteFailsOK ==
  ASSUME TransferInv, WriteFails
  PROVE  TransferInv'
<1>1. /\ SenderOK /\ ReceiverOK /\ BytesOnTheWay /\ ReadToTheEnd
      /\ test \in [long : BOOLEAN, size : Nat]
      /\ snd \in SideType(SenderPlaces) /\ rcv \in SideType(ReceiverPlaces)
      /\ wire \in [bytes : Nat, broken : BOOLEAN]
  BY DEF TransferInv, TransferTypeOK
<1>2. /\ snd.n \in Int /\ snd.nleft \in Int /\ snd.moved \in Int
      /\ snd.ret \in Int /\ snd.counted \in Int /\ snd.total \in Int /\ snd.go \in BOOLEAN
      /\ rcv.n \in Int /\ rcv.nleft \in Int
      /\ rcv.ret \in Int /\ rcv.counted \in Int /\ rcv.total \in Int /\ rcv.go \in BOOLEAN
      /\ wire.bytes \in Nat /\ wire.broken \in BOOLEAN
      /\ PacketLen \in Nat /\ PacketLen > 0
  BY <1>1, SideFields
<1> DEFINE over == ~snd.go \/ wire.broken
<1>3. snd.pc = "in write" /\ wire.broken /\ snd.moved < snd.nleft /\ UNCHANGED <<test, rcv, wire>>
  BY DEF WriteFails
<1>4. TransferInv'
  <2>1. snd' = [snd EXCEPT !.pc = "wrote", !.ret = -1]
    BY DEF WriteFails
  <2>2. -1 \in Int
    BY <1>2
  <2>3. snd' \in SideType(SenderPlaces)
    BY <1>1, <2>2, <2>1 DEF SideType, SenderPlaces
  <2>4. FieldsAre(snd', "wrote", snd.n, snd.nleft, snd.moved, -1,
                        snd.counted, snd.total, snd.go)
    BY <1>1, <2>1 DEF SideType, FieldsAre
  <2>5. InWrite(test, snd.n, snd.nleft, snd.moved, snd.counted, snd.total)
    BY <1>1, <1>3 DEF SenderOK
  <2>6. Wrote(test, snd.n, -1, snd.counted, snd.total, over)
    BY <1>1, <1>2, <1>3, <2>5, InWriteFollow
  <2>7. SenderOK'
    BY <1>3, <2>4, <2>6 DEF SenderOK, FieldsAre
  <2> QED
    BY <1>3, <2>3, <2>4, <2>7, SenderStays DEF FieldsAre
<1> QED
  BY <1>4

\* A whole packet is counted, a part of one ends the test.
LEMMA SenderCountsOK ==
  ASSUME TransferInv, SenderCounts
  PROVE  TransferInv'
<1>1. /\ SenderOK /\ ReceiverOK /\ BytesOnTheWay /\ ReadToTheEnd
      /\ test \in [long : BOOLEAN, size : Nat]
      /\ snd \in SideType(SenderPlaces) /\ rcv \in SideType(ReceiverPlaces)
      /\ wire \in [bytes : Nat, broken : BOOLEAN]
  BY DEF TransferInv, TransferTypeOK
<1>2. /\ snd.n \in Int /\ snd.nleft \in Int /\ snd.moved \in Int
      /\ snd.ret \in Int /\ snd.counted \in Int /\ snd.total \in Int /\ snd.go \in BOOLEAN
      /\ rcv.n \in Int /\ rcv.nleft \in Int
      /\ rcv.ret \in Int /\ rcv.counted \in Int /\ rcv.total \in Int /\ rcv.go \in BOOLEAN
      /\ wire.bytes \in Nat /\ wire.broken \in BOOLEAN
      /\ PacketLen \in Nat /\ PacketLen > 0
  BY <1>1, SideFields
<1> DEFINE over == ~snd.go \/ wire.broken
<1>3. /\ snd.pc = "wrote" /\ UNCHANGED <<test, rcv, wire>>
      /\ snd' = IF snd.ret < snd.n THEN [snd EXCEPT !.pc = "ends"]
                ELSE [snd EXCEPT !.pc = "tests", !.counted = @ + snd.ret]
  BY DEF SenderCounts
<1>4. CASE snd.ret < snd.n
  <2>1. snd' = [snd EXCEPT !.pc = "ends"]
    BY <1>3, <1>4
  <2>3. snd' \in SideType(SenderPlaces)
    BY <1>1, <2>1 DEF SideType, SenderPlaces
  <2>4. FieldsAre(snd', "ends", snd.n, snd.nleft, snd.moved, snd.ret,
                        snd.counted, snd.total, snd.go)
    BY <1>1, <2>1 DEF SideType, FieldsAre
  <2>5. Wrote(test, snd.n, snd.ret, snd.counted, snd.total, over)
    BY <1>1, <1>3 DEF SenderOK
  <2>6. Ends(test, snd.counted, snd.total, over)
    BY <1>1, <1>2, <1>3, <1>4, <2>5, WroteFollow
  <2>7. SenderOK'
    BY <1>3, <2>4, <2>6 DEF SenderOK, FieldsAre
  <2> QED
    BY <1>3, <2>3, <2>4, <2>7, SenderStays DEF FieldsAre
<1>5. CASE ~(snd.ret < snd.n)
  <2>1. snd' = [snd EXCEPT !.pc = "tests", !.counted = @ + snd.ret]
    BY <1>3, <1>5
  <2>2. snd.counted + snd.ret \in Int
    BY <1>2
  <2>3. snd' \in SideType(SenderPlaces)
    BY <1>1, <2>2, <2>1 DEF SideType, SenderPlaces
  <2>4. FieldsAre(snd', "tests", snd.n, snd.nleft, snd.moved, snd.ret,
                        snd.counted + snd.ret, snd.total, snd.go)
    BY <1>1, <2>1 DEF SideType, FieldsAre
  <2>5. Wrote(test, snd.n, snd.ret, snd.counted, snd.total, over)
    BY <1>1, <1>3 DEF SenderOK
  <2>6. AtTests(test, snd.counted + snd.ret, snd.total)
    BY <1>1, <1>2, <1>3, <1>5, <2>5, WroteFollow
  <2>7. SenderOK'
    BY <1>3, <2>4, <2>6 DEF SenderOK, FieldsAre
  <2> QED
    BY <1>3, <2>3, <2>4, <2>7, SenderStays DEF FieldsAre
<1> QED
  BY <1>4, <1>5

\* A signal interrupts a write that waits, or only releases a lock.
LEMMA SenderSignalOK ==
  ASSUME TransferInv, SenderSignal
  PROVE  TransferInv'
<1>1. /\ SenderOK /\ ReceiverOK /\ BytesOnTheWay /\ ReadToTheEnd
      /\ test \in [long : BOOLEAN, size : Nat]
      /\ snd \in SideType(SenderPlaces) /\ rcv \in SideType(ReceiverPlaces)
      /\ wire \in [bytes : Nat, broken : BOOLEAN]
  BY DEF TransferInv, TransferTypeOK
<1>2. /\ snd.n \in Int /\ snd.nleft \in Int /\ snd.moved \in Int
      /\ snd.ret \in Int /\ snd.counted \in Int /\ snd.total \in Int /\ snd.go \in BOOLEAN
      /\ rcv.n \in Int /\ rcv.nleft \in Int
      /\ rcv.ret \in Int /\ rcv.counted \in Int /\ rcv.total \in Int /\ rcv.go \in BOOLEAN
      /\ wire.bytes \in Nat /\ wire.broken \in BOOLEAN
      /\ PacketLen \in Nat /\ PacketLen > 0
  BY <1>1, SideFields
<1>3. /\ snd.go /\ snd.pc # "ends" /\ UNCHANGED <<test, rcv, wire>>
      /\ snd' = [(IF snd.pc = "in write" /\ snd.moved < snd.nleft THEN WriteInterrupted(snd) ELSE snd)
                 EXCEPT !.go = FALSE]
  BY DEF SenderSignal
<1>4. CASE snd.pc = "in write" /\ snd.moved < snd.nleft /\ snd.moved = 0
  <2> DEFINE r == [snd EXCEPT !.pc = "wrote", !.ret = snd.n - snd.nleft]
  <2>1. snd' = [r EXCEPT !.go = FALSE]
    BY <1>3, <1>4 DEF WriteInterrupted
  <2>2. snd.n - snd.nleft \in Int
    BY <1>2
  <2>3. r \in SideType(SenderPlaces)
    BY <1>1, <2>2 DEF SideType, SenderPlaces
  <2>4. FieldsAre(r, "wrote", snd.n, snd.nleft, snd.moved, snd.n - snd.nleft,
                     snd.counted, snd.total, snd.go)
    BY <1>1 DEF SideType, FieldsAre
  <2> HIDE DEF r
  <2>5. snd' \in SideType(SenderPlaces)
    BY <2>1, <2>3 DEF SideType
  <2>6. FieldsAre(snd', "wrote", snd.n, snd.nleft, snd.moved, snd.n - snd.nleft,
                        snd.counted, snd.total, FALSE)
    BY <2>1, <2>3, <2>4 DEF SideType, FieldsAre
  <2>7. InWrite(test, snd.n, snd.nleft, snd.moved, snd.counted, snd.total)
    BY <1>1, <1>4 DEF SenderOK
  <2>8. Wrote(test, snd.n, snd.n - snd.nleft, snd.counted, snd.total, TRUE)
    BY <1>1, <1>2, <1>4, <2>7, InWriteFollow
  <2>9. SenderOK'
    BY <1>3, <2>6, <2>8 DEF SenderOK, FieldsAre
  <2> QED
    BY <1>3, <2>5, <2>6, <2>9, SenderStays DEF FieldsAre
<1>5. CASE snd.pc = "in write" /\ snd.moved < snd.nleft /\ snd.moved # 0
  <2> DEFINE r == [snd EXCEPT !.pc = "writes", !.nleft = snd.nleft - snd.moved]
  <2>1. snd' = [r EXCEPT !.go = FALSE]
    BY <1>3, <1>5 DEF WriteInterrupted
  <2>2. snd.nleft - snd.moved \in Int
    BY <1>2
  <2>3. r \in SideType(SenderPlaces)
    BY <1>1, <2>2 DEF SideType, SenderPlaces
  <2>4. FieldsAre(r, "writes", snd.n, snd.nleft - snd.moved, snd.moved, snd.ret,
                     snd.counted, snd.total, snd.go)
    BY <1>1 DEF SideType, FieldsAre
  <2> HIDE DEF r
  <2>5. snd' \in SideType(SenderPlaces)
    BY <2>1, <2>3 DEF SideType
  <2>6. FieldsAre(snd', "writes", snd.n, snd.nleft - snd.moved, snd.moved, snd.ret,
                        snd.counted, snd.total, FALSE)
    BY <2>1, <2>3, <2>4 DEF SideType, FieldsAre
  <2>7. InWrite(test, snd.n, snd.nleft, snd.moved, snd.counted, snd.total)
    BY <1>1, <1>5 DEF SenderOK
  <2>8. Writes(test, snd.n, snd.nleft - snd.moved, snd.counted, snd.total)
    BY <1>1, <1>2, <1>5, <2>7, InWriteFollow
  <2>9. SenderOK'
    BY <1>3, <2>6, <2>8 DEF SenderOK, FieldsAre
  <2> QED
    BY <1>3, <2>5, <2>6, <2>9, SenderStays DEF FieldsAre
<1>6. CASE ~(snd.pc = "in write" /\ snd.moved < snd.nleft)
  <2>1. snd' = [snd EXCEPT !.go = FALSE]
    BY <1>3, <1>6
  <2>2. snd' \in SideType(SenderPlaces)
    BY <1>1, <2>1 DEF SideType
  <2>3. FieldsAre(snd', snd.pc, snd.n, snd.nleft, snd.moved, snd.ret,
                        snd.counted, snd.total, FALSE)
    BY <1>1, <2>1 DEF SideType, FieldsAre
  <2>4. snd.pc = "wrote" => Wrote(test, snd.n, snd.ret, snd.counted, snd.total, TRUE)
    BY <1>1, <1>3 DEF SenderOK, Wrote
  <2>5. SenderOK'
    BY <1>1, <1>3, <2>3, <2>4 DEF SenderOK, FieldsAre
  <2> QED
    BY <1>3, <2>2, <2>3, <2>5, SenderStays DEF FieldsAre
<1> QED
  BY <1>4, <1>5, <1>6

\* write moves bytes from the packet into the connection.
LEMMA WriteMovesOK ==
  ASSUME TransferInv, WriteMoves
  PROVE  TransferInv'
<1>1. /\ SenderOK /\ ReceiverOK /\ BytesOnTheWay /\ ReadToTheEnd
      /\ test \in [long : BOOLEAN, size : Nat]
      /\ snd \in SideType(SenderPlaces) /\ rcv \in SideType(ReceiverPlaces)
      /\ wire \in [bytes : Nat, broken : BOOLEAN]
  BY DEF TransferInv, TransferTypeOK
<1>2. /\ snd.n \in Int /\ snd.nleft \in Int /\ snd.moved \in Int
      /\ snd.ret \in Int /\ snd.counted \in Int /\ snd.total \in Int /\ snd.go \in BOOLEAN
      /\ rcv.n \in Int /\ rcv.nleft \in Int
      /\ rcv.ret \in Int /\ rcv.counted \in Int /\ rcv.total \in Int /\ rcv.go \in BOOLEAN
      /\ wire.bytes \in Nat /\ wire.broken \in BOOLEAN
      /\ PacketLen \in Nat /\ PacketLen > 0
  BY <1>1, SideFields
<1> DEFINE over == ~snd.go \/ wire.broken
<1>3. PICK k \in 1 .. Least(snd.nleft - snd.moved, Room - wire.bytes) :
         /\ wire' = [wire EXCEPT !.bytes = @ + k]
         /\ snd' = [snd EXCEPT !.moved = @ + k, !.total = @ + k]
  BY DEF WriteMoves
<1>4. k \in 1 .. snd.nleft - snd.moved
  BY <1>2, <1>3 DEF Least
<1>5. snd.pc = "in write" /\ ~wire.broken /\ UNCHANGED <<test, rcv>>
  BY DEF WriteMoves
<1>6. snd.moved + k \in Int /\ snd.total + k \in Int /\ wire.bytes + k \in Nat
  BY <1>2, <1>4
<1>7. snd' \in SideType(SenderPlaces)
  BY <1>1, <1>3, <1>6 DEF SideType
<1>8. FieldsAre(snd', snd.pc, snd.n, snd.nleft, snd.moved + k, snd.ret,
                      snd.counted, snd.total + k, snd.go)
  BY <1>1, <1>3 DEF SideType, FieldsAre
<1>9. /\ wire' \in [bytes : Nat, broken : BOOLEAN]
      /\ wire'.bytes = wire.bytes + k /\ wire'.broken = wire.broken
  BY <1>1, <1>3, <1>6
<1>10. TransferTypeOK'
  BY <1>1, <1>5, <1>7, <1>9 DEF TransferTypeOK
<1>11. InWrite(test, snd.n, snd.nleft, snd.moved, snd.counted, snd.total)
  BY <1>1, <1>5 DEF SenderOK
<1>12. InWrite(test, snd.n, snd.nleft, snd.moved + k, snd.counted, snd.total + k)
  BY <1>1, <1>2, <1>4, <1>11, InWriteFollow
<1>13. SenderOK'
  BY <1>5, <1>8, <1>12 DEF SenderOK, FieldsAre
<1>14. ReceiverOK'
  BY <1>1, <1>5 DEF ReceiverOK
<1>15. snd.total = rcv.total + wire.bytes
  BY <1>1, <1>5 DEF BytesOnTheWay
<1>16. snd.total + k = rcv.total + (wire.bytes + k)
  BY <1>2, <1>4, <1>15
<1>17. BytesOnTheWay'
  BY <1>5, <1>8, <1>9, <1>16 DEF BytesOnTheWay, FieldsAre
<1>18. ReadToTheEnd'
  BY <1>1, <1>5, <1>9 DEF ReadToTheEnd, AtTheEnd
<1> QED
  BY <1>10, <1>13, <1>14, <1>17, <1>18 DEF TransferInv

\* A step of the receiver that moves nothing and does not reach an end of its
\* own accord: only what is said of its place has to be shown.
LEMMA ReceiverStays ==
  ASSUME TransferInv, UNCHANGED <<test, snd, wire>>,
         rcv' \in SideType(ReceiverPlaces), rcv'.total = rcv.total, ReceiverOK',
         ReadToTheEnd'
  PROVE  TransferInv'
<1>1. TransferTypeOK'
  BY DEF TransferInv, TransferTypeOK
<1>2. SenderOK' /\ BytesOnTheWay'
  BY DEF TransferInv, SenderOK, BytesOnTheWay
<1> QED
  BY <1>1, <1>2 DEF TransferInv

\* doReceive asks for a whole packet.
LEMMA ReceiverReadsOK ==
  ASSUME TransferInv, ReceiverReads
  PROVE  TransferInv'
<1>1. /\ SenderOK /\ ReceiverOK /\ BytesOnTheWay /\ ReadToTheEnd
      /\ test \in [long : BOOLEAN, size : Nat]
      /\ snd \in SideType(SenderPlaces) /\ rcv \in SideType(ReceiverPlaces)
      /\ wire \in [bytes : Nat, broken : BOOLEAN]
  BY DEF TransferInv, TransferTypeOK
<1>2. /\ snd.n \in Int /\ snd.nleft \in Int /\ snd.moved \in Int
      /\ snd.ret \in Int /\ snd.counted \in Int /\ snd.total \in Int /\ snd.go \in BOOLEAN
      /\ rcv.n \in Int /\ rcv.nleft \in Int
      /\ rcv.ret \in Int /\ rcv.counted \in Int /\ rcv.total \in Int /\ rcv.go \in BOOLEAN
      /\ wire.bytes \in Nat /\ wire.broken \in BOOLEAN
      /\ PacketLen \in Nat /\ PacketLen > 0
  BY <1>1, SideFields
<1>3. /\ rcv.pc = "reads" /\ UNCHANGED <<test, snd, wire>>
      /\ rcv' = [rcv EXCEPT !.pc = "in read", !.n = PacketLen, !.nleft = PacketLen]
  BY DEF ReceiverReads
<1>4. PacketLen \in Int
  BY <1>2
<1>5. rcv' \in SideType(ReceiverPlaces)
  BY <1>1, <1>3, <1>4 DEF SideType, ReceiverPlaces
<1>6. FieldsAre(rcv', "in read", PacketLen, PacketLen, rcv.moved, rcv.ret,
                rcv.counted, rcv.total, rcv.go)
  BY <1>1, <1>3 DEF SideType, FieldsAre
<1>7. InRead(PacketLen, PacketLen, rcv.counted, rcv.total)
  BY <1>1, <1>2, <1>3, ReceiverPlacesFollow DEF ReceiverOK
<1>8. ReceiverOK' /\ ReadToTheEnd'
  BY <1>6, <1>7 DEF ReceiverOK, ReadToTheEnd, FieldsAre
<1> QED
  BY <1>3, <1>5, <1>6, <1>8, ReceiverStays DEF FieldsAre

\* A read ends with the connection: it fails when that is broken, and returns
\* what it has when the sender has closed.
LEMMA ReadEndsOK ==
  ASSUME TransferInv, ReadEnds
  PROVE  TransferInv'
<1>1. /\ SenderOK /\ ReceiverOK /\ BytesOnTheWay /\ ReadToTheEnd
      /\ test \in [long : BOOLEAN, size : Nat]
      /\ snd \in SideType(SenderPlaces) /\ rcv \in SideType(ReceiverPlaces)
      /\ wire \in [bytes : Nat, broken : BOOLEAN]
  BY DEF TransferInv, TransferTypeOK
<1>2. /\ snd.n \in Int /\ snd.nleft \in Int /\ snd.moved \in Int
      /\ snd.ret \in Int /\ snd.counted \in Int /\ snd.total \in Int /\ snd.go \in BOOLEAN
      /\ rcv.n \in Int /\ rcv.nleft \in Int
      /\ rcv.ret \in Int /\ rcv.counted \in Int /\ rcv.total \in Int /\ rcv.go \in BOOLEAN
      /\ wire.bytes \in Nat /\ wire.broken \in BOOLEAN
      /\ PacketLen \in Nat /\ PacketLen > 0
  BY <1>1, SideFields
<1>3. /\ rcv.pc = "in read" /\ wire.bytes = 0 /\ UNCHANGED <<test, snd, wire>>
      /\ \/ wire.broken /\ rcv' = [rcv EXCEPT !.pc = "read", !.ret = -1]
         \/ /\ ~wire.broken /\ snd.pc = "ends"
            /\ rcv' = [rcv EXCEPT !.pc = "read", !.ret = rcv.n - rcv.nleft]
  BY DEF ReadEnds, ReadShort
<1>4. InRead(rcv.n, rcv.nleft, rcv.counted, rcv.total)
  BY <1>1, <1>3 DEF ReceiverOK
<1>5. /\ ReadDone(rcv.n, -1, rcv.counted, rcv.total)
      /\ rcv.n - rcv.nleft >= 0 /\ rcv.n - rcv.nleft < rcv.n
      /\ ReadDone(rcv.n, rcv.n - rcv.nleft, rcv.counted, rcv.total)
  BY <1>2, <1>4, ReceiverPlacesFollow
<1>6. -1 \in Int /\ rcv.n - rcv.nleft \in Int
  BY <1>2
<1>7. CASE wire.broken /\ rcv' = [rcv EXCEPT !.pc = "read", !.ret = -1]
  <2>1. rcv' \in SideType(ReceiverPlaces)
    BY <1>1, <1>6, <1>7 DEF SideType, ReceiverPlaces
  <2>2. FieldsAre(rcv', "read", rcv.n, rcv.nleft, rcv.moved, -1,
                  rcv.counted, rcv.total, rcv.go)
    BY <1>1, <1>7 DEF SideType, FieldsAre
  <2>3. ReceiverOK' /\ ReadToTheEnd'
    BY <1>3, <1>5, <1>7, <2>2 DEF ReceiverOK, ReadToTheEnd, FieldsAre
  <2> QED
    BY <1>3, <2>1, <2>2, <2>3, ReceiverStays DEF FieldsAre
<1>8. CASE ~wire.broken /\ snd.pc = "ends"
           /\ rcv' = [rcv EXCEPT !.pc = "read", !.ret = rcv.n - rcv.nleft]
  <2>1. rcv' \in SideType(ReceiverPlaces)
    BY <1>1, <1>6, <1>8 DEF SideType, ReceiverPlaces
  <2>2. FieldsAre(rcv', "read", rcv.n, rcv.nleft, rcv.moved, rcv.n - rcv.nleft,
                  rcv.counted, rcv.total, rcv.go)
    BY <1>1, <1>8 DEF SideType, FieldsAre
  <2>3. ReceiverOK'
    BY <1>5, <2>2 DEF ReceiverOK, FieldsAre
  <2>4. snd'.pc = "ends" /\ wire'.bytes = 0 /\ rcv'.ret >= 0
    BY <1>3, <1>5, <1>8, <2>2 DEF FieldsAre
  <2>5. ReadToTheEnd'
    BY <2>4 DEF ReadToTheEnd, AtTheEnd
  <2> QED
    BY <1>3, <2>1, <2>2, <2>3, <2>5, ReceiverStays DEF FieldsAre
<1> QED
  BY <1>3, <1>7, <1>8

\* doReceive counts what a read returned.
LEMMA ReceiverCountsOK ==
  ASSUME TransferInv, ReceiverCounts
  PROVE  TransferInv'
<1>1. /\ SenderOK /\ ReceiverOK /\ BytesOnTheWay /\ ReadToTheEnd
      /\ test \in [long : BOOLEAN, size : Nat]
      /\ snd \in SideType(SenderPlaces) /\ rcv \in SideType(ReceiverPlaces)
      /\ wire \in [bytes : Nat, broken : BOOLEAN]
  BY DEF TransferInv, TransferTypeOK
<1>2. /\ snd.n \in Int /\ snd.nleft \in Int /\ snd.moved \in Int
      /\ snd.ret \in Int /\ snd.counted \in Int /\ snd.total \in Int /\ snd.go \in BOOLEAN
      /\ rcv.n \in Int /\ rcv.nleft \in Int
      /\ rcv.ret \in Int /\ rcv.counted \in Int /\ rcv.total \in Int /\ rcv.go \in BOOLEAN
      /\ wire.bytes \in Nat /\ wire.broken \in BOOLEAN
      /\ PacketLen \in Nat /\ PacketLen > 0
  BY <1>1, SideFields
<1> DEFINE c == IF rcv.ret < 0 THEN rcv.counted ELSE rcv.counted + rcv.ret
           pc == IF rcv.ret = rcv.n /\ rcv.go THEN "reads" ELSE "ends"
<1>3. /\ rcv.pc = "read" /\ UNCHANGED <<test, snd, wire>>
      /\ rcv' = [rcv EXCEPT !.counted = c, !.pc = pc]
  BY DEF ReceiverCounts
<1>4. c \in Int /\ pc \in ReceiverPlaces
  BY <1>2 DEF ReceiverPlaces
<1>5. (rcv.ret < 0 => c = rcv.counted) /\ (~(rcv.ret < 0) => c = rcv.counted + rcv.ret)
  OBVIOUS
<1>6. ReadDone(rcv.n, rcv.ret, rcv.counted, rcv.total) /\ rcv.ret <= rcv.n
  BY <1>1, <1>3 DEF ReceiverOK, ReadDone
<1>7. pc = "ends" /\ rcv.go => rcv.ret < rcv.n
  BY <1>2, <1>6
<1>8. pc = "reads" => rcv.ret = rcv.n
  OBVIOUS
<1>9. pc \in {"reads", "ends"}
  OBVIOUS
<1> HIDE DEF c, pc
<1>10. AllRead(rcv.ret, c, rcv.total) /\ (rcv.ret = rcv.n => rcv.total = c)
  BY <1>2, <1>4, <1>6, <1>5, ReadDoneFollow
<1>11. rcv' \in SideType(ReceiverPlaces)
  BY <1>1, <1>3, <1>4 DEF SideType
<1>12. FieldsAre(rcv', pc, rcv.n, rcv.nleft, rcv.moved, rcv.ret,
                 c, rcv.total, rcv.go)
  BY <1>1, <1>3 DEF SideType, FieldsAre
<1>13. ReceiverOK'
  BY <1>10, <1>8, <1>9, <1>12 DEF ReceiverOK, FieldsAre
<1>14. ReadToTheEnd'
  BY <1>1, <1>3, <1>7, <1>9, <1>12 DEF ReadToTheEnd, AtTheEnd, FieldsAre
<1> QED
  BY <1>3, <1>11, <1>12, <1>13, <1>14, ReceiverStays DEF FieldsAre

\* A signal interrupts a read that waits, or only releases a lock.
LEMMA ReceiverSignalOK ==
  ASSUME TransferInv, ReceiverSignal
  PROVE  TransferInv'
<1>1. /\ SenderOK /\ ReceiverOK /\ BytesOnTheWay /\ ReadToTheEnd
      /\ test \in [long : BOOLEAN, size : Nat]
      /\ snd \in SideType(SenderPlaces) /\ rcv \in SideType(ReceiverPlaces)
      /\ wire \in [bytes : Nat, broken : BOOLEAN]
  BY DEF TransferInv, TransferTypeOK
<1>2. /\ snd.n \in Int /\ snd.nleft \in Int /\ snd.moved \in Int
      /\ snd.ret \in Int /\ snd.counted \in Int /\ snd.total \in Int /\ snd.go \in BOOLEAN
      /\ rcv.n \in Int /\ rcv.nleft \in Int
      /\ rcv.ret \in Int /\ rcv.counted \in Int /\ rcv.total \in Int /\ rcv.go \in BOOLEAN
      /\ wire.bytes \in Nat /\ wire.broken \in BOOLEAN
      /\ PacketLen \in Nat /\ PacketLen > 0
  BY <1>1, SideFields
<1>3. /\ rcv.go /\ rcv.pc # "ends" /\ UNCHANGED <<test, snd, wire>>
      /\ \/ rcv' = [rcv EXCEPT !.go = FALSE]
         \/ rcv.pc = "in read" /\ rcv' = [ReadShort(rcv) EXCEPT !.go = FALSE]
  BY DEF ReceiverSignal
<1>4. CASE rcv' = [rcv EXCEPT !.go = FALSE]
  <2>1. rcv' \in SideType(ReceiverPlaces)
    BY <1>1, <1>4 DEF SideType
  <2>2. FieldsAre(rcv', rcv.pc, rcv.n, rcv.nleft, rcv.moved, rcv.ret,
                  rcv.counted, rcv.total, FALSE)
    BY <1>1, <1>4 DEF SideType, FieldsAre
  <2>3. ReceiverOK' /\ ReadToTheEnd'
    BY <1>1, <2>2 DEF ReceiverOK, ReadToTheEnd, FieldsAre
  <2> QED
    BY <1>3, <2>1, <2>2, <2>3, ReceiverStays DEF FieldsAre
<1>5. CASE rcv.pc = "in read" /\ rcv' = [ReadShort(rcv) EXCEPT !.go = FALSE]
  <2> DEFINE r == [rcv EXCEPT !.pc = "read", !.ret = rcv.n - rcv.nleft]
  <2>1. rcv' = [r EXCEPT !.go = FALSE]
    BY <1>5 DEF ReadShort
  <2>2. rcv.n - rcv.nleft \in Int
    BY <1>2
  <2>3. r \in SideType(ReceiverPlaces)
    BY <1>1, <2>2 DEF SideType, ReceiverPlaces
  <2>4. FieldsAre(r, "read", rcv.n, rcv.nleft, rcv.moved, rcv.n - rcv.nleft,
                  rcv.counted, rcv.total, rcv.go)
    BY <1>1 DEF SideType, FieldsAre
  <2> HIDE DEF r
  <2>5. rcv' \in SideType(ReceiverPlaces)
    BY <2>1, <2>3 DEF SideType
  <2>6. FieldsAre(rcv', "read", rcv.n, rcv.nleft, rcv.moved, rcv.n - rcv.nleft,
                  rcv.counted, rcv.total, FALSE)
    BY <2>1, <2>3, <2>4 DEF SideType, FieldsAre
  <2>7. ReadDone(rcv.n, rcv.n - rcv.nleft, rcv.counted, rcv.total)
    BY <1>1, <1>2, <1>5, ReceiverPlacesFollow DEF ReceiverOK
  <2>8. ReceiverOK' /\ ReadToTheEnd'
    BY <2>6, <2>7 DEF ReceiverOK, ReadToTheEnd, FieldsAre
  <2> QED
    BY <1>3, <2>5, <2>6, <2>8, ReceiverStays DEF FieldsAre
<1> QED
  BY <1>3, <1>4, <1>5

\* read moves bytes from the connection into the packet.
LEMMA ReadMovesOK ==
  ASSUME TransferInv, ReadMoves
  PROVE  TransferInv'
<1>1. /\ SenderOK /\ ReceiverOK /\ BytesOnTheWay /\ ReadToTheEnd
      /\ test \in [long : BOOLEAN, size : Nat]
      /\ snd \in SideType(SenderPlaces) /\ rcv \in SideType(ReceiverPlaces)
      /\ wire \in [bytes : Nat, broken : BOOLEAN]
  BY DEF TransferInv, TransferTypeOK
<1>2. /\ snd.n \in Int /\ snd.nleft \in Int /\ snd.moved \in Int
      /\ snd.ret \in Int /\ snd.counted \in Int /\ snd.total \in Int /\ snd.go \in BOOLEAN
      /\ rcv.n \in Int /\ rcv.nleft \in Int
      /\ rcv.ret \in Int /\ rcv.counted \in Int /\ rcv.total \in Int /\ rcv.go \in BOOLEAN
      /\ wire.bytes \in Nat /\ wire.broken \in BOOLEAN
      /\ PacketLen \in Nat /\ PacketLen > 0
  BY <1>1, SideFields
<1>3. PICK k \in 1 .. Least(rcv.nleft, wire.bytes) :
         /\ wire' = [wire EXCEPT !.bytes = @ - k]
         /\ rcv' = [rcv EXCEPT !.nleft = @ - k, !.total = @ + k,
                              !.pc = IF rcv.nleft = k THEN "read" ELSE "in read",
                              !.ret = IF rcv.nleft = k THEN rcv.n ELSE @]
  BY DEF ReadMoves
<1>4. k \in 1 .. rcv.nleft /\ k <= wire.bytes /\ k \in Int /\ 1 <= k
  BY <1>2, <1>3 DEF Least
<1>5. rcv.pc = "in read" /\ UNCHANGED <<test, snd>>
  BY DEF ReadMoves
<1> DEFINE pc == IF rcv.nleft = k THEN "read" ELSE "in read"
           ret == IF rcv.nleft = k THEN rcv.n ELSE rcv.ret
           left == rcv.nleft - k
           total == rcv.total + k
<1>6. pc \in ReceiverPlaces /\ ret \in Int /\ left \in Int /\ total \in Int
  BY <1>2, <1>4 DEF ReceiverPlaces
<1>7. rcv' = [rcv EXCEPT !.nleft = left, !.total = total, !.pc = pc, !.ret = ret]
  BY <1>3
<1>8. wire.bytes - k \in Nat
  BY <1>2, <1>4
<1>9. /\ wire' \in [bytes : Nat, broken : BOOLEAN]
      /\ wire'.bytes = wire.bytes - k /\ wire'.broken = wire.broken
  BY <1>1, <1>3, <1>8
<1>10. InRead(rcv.n, rcv.nleft, rcv.counted, rcv.total)
  BY <1>1, <1>5 DEF ReceiverOK
<1>11. IF rcv.nleft = k THEN rcv.n >= 0 /\ ReadDone(rcv.n, rcv.n, rcv.counted, total)
       ELSE InRead(rcv.n, left, rcv.counted, total)
  BY <1>2, <1>4, <1>10, ReceiverPlacesFollow
<1>12. /\ pc \in {"read", "in read"}
       /\ pc = "read" => ret = rcv.n /\ ReadDone(rcv.n, ret, rcv.counted, total)
       /\ pc = "in read" => InRead(rcv.n, left, rcv.counted, total)
  BY <1>11
<1>13. snd.total = rcv.total + wire.bytes => snd.total = total + (wire.bytes - k)
  BY <1>2, <1>4
<1> HIDE DEF pc, ret, left, total
<1>14. rcv' \in SideType(ReceiverPlaces)
  BY <1>1, <1>6, <1>7 DEF SideType
<1>15. FieldsAre(rcv', pc, rcv.n, left, rcv.moved, ret,
                 rcv.counted, total, rcv.go)
  BY <1>1, <1>7 DEF SideType, FieldsAre
<1>16. TransferTypeOK'
  BY <1>1, <1>5, <1>9, <1>14 DEF TransferTypeOK
<1>17. SenderOK'
  BY <1>1, <1>5, <1>9 DEF SenderOK
<1>18. ReceiverOK'
  BY <1>12, <1>15 DEF ReceiverOK, FieldsAre
<1>19. BytesOnTheWay'
  BY <1>1, <1>5, <1>9, <1>13, <1>15 DEF BytesOnTheWay, FieldsAre
<1>20. ~(rcv.n < rcv.n)
  BY <1>2
<1>21. ~(ret < rcv.n) \/ pc # "read"
  BY <1>20, <1>12
<1>22. ReadToTheEnd'
  BY <1>12, <1>15, <1>21 DEF ReadToTheEnd, FieldsAre
<1> QED
  BY <1>16, <1>17, <1>18, <1>19, <1>22 DEF TransferInv

\* A reset empties the connection, and nothing more is said of its bytes.
LEMMA WireOK ==
  ASSUME TransferInv, ReceiverCloses \/ ConnectionBreaks
  PROVE  TransferInv'
<1>1. /\ SenderOK /\ ReceiverOK /\ BytesOnTheWay /\ ReadToTheEnd
      /\ test \in [long : BOOLEAN, size : Nat]
      /\ snd \in SideType(SenderPlaces) /\ rcv \in SideType(ReceiverPlaces)
      /\ wire \in [bytes : Nat, broken : BOOLEAN]
  BY DEF TransferInv, TransferTypeOK
<1>2. /\ snd.n \in Int /\ snd.nleft \in Int /\ snd.moved \in Int
      /\ snd.ret \in Int /\ snd.counted \in Int /\ snd.total \in Int /\ snd.go \in BOOLEAN
      /\ rcv.n \in Int /\ rcv.nleft \in Int
      /\ rcv.ret \in Int /\ rcv.counted \in Int /\ rcv.total \in Int /\ rcv.go \in BOOLEAN
      /\ wire.bytes \in Nat /\ wire.broken \in BOOLEAN
      /\ PacketLen \in Nat /\ PacketLen > 0
  BY <1>1, SideFields
<1>3. /\ UNCHANGED <<test, snd, rcv>>
      /\ wire' = [bytes |-> 0, broken |-> TRUE]
  BY DEF ReceiverCloses, ConnectionBreaks
<1>4. TransferTypeOK'
  BY <1>1, <1>3 DEF TransferTypeOK
<1>5. wire'.broken = TRUE
  BY <1>3
<1>6. /\ Wrote(test, snd.n, snd.ret, snd.counted, snd.total, ~snd.go \/ wire.broken)
           => Wrote(test, snd.n, snd.ret, snd.counted, snd.total, TRUE)
      /\ Ends(test, snd.counted, snd.total, ~snd.go \/ wire.broken)
           => Ends(test, snd.counted, snd.total, TRUE)
  BY DEF Wrote, Ends
<1>7. SenderOK'
  BY <1>1, <1>3, <1>5, <1>6 DEF SenderOK
<1>8. ReceiverOK' /\ BytesOnTheWay' /\ ReadToTheEnd'
  BY <1>1, <1>3, <1>5 DEF ReceiverOK, BytesOnTheWay, ReadToTheEnd
<1> QED
  BY <1>4, <1>7, <1>8 DEF TransferInv

\* Every step keeps the invariant.
LEMMA TransferStep ==
  TransferInv /\ [TransferNext]_TransferVars => TransferInv'
<1> SUFFICES ASSUME TransferInv, [TransferNext]_TransferVars PROVE TransferInv'
  OBVIOUS
<1>1. CASE UNCHANGED TransferVars
  <2>1. test' = test /\ snd' = snd /\ rcv' = rcv /\ wire' = wire
    BY <1>1 DEF TransferVars
  <2>2. TransferTypeOK' /\ BytesOnTheWay' /\ ReadToTheEnd'
    BY <2>1 DEF TransferInv, TransferTypeOK, BytesOnTheWay, ReadToTheEnd, AtTheEnd
  <2>3. SenderOK'
    BY <2>1, Zenon DEF TransferInv, SenderOK
  <2>4. ReceiverOK'
    BY <2>1, Zenon DEF TransferInv, ReceiverOK
  <2> QED
    BY <2>2, <2>3, <2>4 DEF TransferInv
<1>2. CASE SenderGoesOn \/ SenderSignal
  BY <1>2, SenderTestsOK, SenderWritesOK, WriteMovesOK, WriteReturnsOK, WriteFailsOK,
     SenderCountsOK, SenderSignalOK DEF SenderGoesOn
<1>3. CASE ReceiverGoesOn \/ ReceiverSignal
  BY <1>3, ReceiverReadsOK, ReadMovesOK, ReadEndsOK, ReceiverCountsOK, ReceiverSignalOK
     DEF ReceiverGoesOn
<1>4. CASE ReceiverCloses \/ ConnectionBreaks
  BY <1>4, WireOK
<1> QED
  BY <1>1, <1>2, <1>3, <1>4 DEF TransferNext

\* At the ends the invariant is what is reported.
LEMMA InvCounts ==
  TransferInv => CountsTrue
<1> SUFFICES ASSUME TransferInv PROVE CountsTrue
  OBVIOUS
<1>1. /\ SenderOK /\ ReceiverOK /\ BytesOnTheWay /\ ReadToTheEnd
      /\ test \in [long : BOOLEAN, size : Nat]
      /\ snd \in SideType(SenderPlaces) /\ rcv \in SideType(ReceiverPlaces)
      /\ wire \in [bytes : Nat, broken : BOOLEAN]
  BY DEF TransferInv, TransferTypeOK
<1>2. /\ snd.n \in Int /\ snd.nleft \in Int /\ snd.moved \in Int
      /\ snd.ret \in Int /\ snd.counted \in Int /\ snd.total \in Int /\ snd.go \in BOOLEAN
      /\ rcv.n \in Int /\ rcv.nleft \in Int
      /\ rcv.ret \in Int /\ rcv.counted \in Int /\ rcv.total \in Int /\ rcv.go \in BOOLEAN
      /\ wire.bytes \in Nat /\ wire.broken \in BOOLEAN
      /\ PacketLen \in Nat /\ PacketLen > 0
  BY <1>1, SideFields
<1>3. rcv.pc = "ends" => IF rcv.ret < 0 THEN rcv.total - rcv.counted \in 0 .. PacketLen - 1
                           ELSE rcv.counted = rcv.total
  BY <1>1, <1>2 DEF ReceiverOK, AllRead, PartOfPacket
<1>4. snd.pc = "ends" => snd.total - snd.counted \in 0 .. PacketLen - 1
  BY <1>1, <1>2 DEF SenderOK, Ends, PartOfPacket
<1>5. ASSUME snd.pc = "ends", rcv.pc = "ends", ~wire.broken, rcv.go
      PROVE  /\ rcv.counted = snd.total
             /\ snd.go /\ ~test.long => snd.counted = test.size /\ rcv.counted = test.size
  <2>1. AtTheEnd
    BY <1>1, <1>5 DEF ReadToTheEnd
  <2>2. wire.bytes = 0 /\ rcv.ret >= 0
    BY <2>1 DEF AtTheEnd
  <2>3. rcv.counted = rcv.total
    BY <1>2, <1>3, <1>5, <2>2
  <2>4. snd.total = rcv.total
    BY <1>1, <1>2, <1>5, <2>2 DEF BytesOnTheWay
  <2>5. snd.go /\ ~test.long => snd.counted = test.size /\ snd.total = test.size
    BY <1>1, <1>5 DEF SenderOK, Ends
  <2> QED
    BY <2>3, <2>4, <2>5
<1> QED
  BY <1>3, <1>4, <1>5 DEF CountsTrue

-----------------------------------------------------------------------------
\* For every packet length, test and connection: the receiver reports what it
\* took from the connection, the sender the whole packets it wrote, and a test
\* that nobody interrupted and nothing broke is reported alike and in full
\* (doLongTest, doFixTest, doReceive).
THEOREM ReportsTrue ==
  TransferSpec => []CountsTrue
<1>1. TransferInit => TransferInv
  BY TransferInitOK
<1>2. TransferInv /\ [TransferNext]_TransferVars => TransferInv'
  BY TransferStep
<1>3. TransferInv => CountsTrue
  BY InvCounts
<1> QED
  BY <1>1, <1>2, <1>3, PTL DEF TransferSpec
=============================================================================
