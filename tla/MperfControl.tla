---------------------------- MODULE MperfControl ----------------------------
(***************************************************************************)
(* How an mperf test is set up: the controller (mperf/src/server.c) forks  *)
(* one worker (worker.c) per test, a client (client.c) tells the           *)
(* controller what to test and then connects to the worker.                *)
(*                                                                         *)
(* Controller and worker talk by signals: SIGUSR1 and SIGUSR2 say that the *)
(* message was understood or not, SIGINT stops a worker, SIGCHLD tells of  *)
(* its end, SIGALRM limits each wait.  A handler only releases a lock the  *)
(* main loop spins on, so a signal that comes between a check and a        *)
(* blocking call is lost.  A signal is delivered when it is sent: its      *)
(* delay is that of the step that sends it.                                *)
(*                                                                         *)
(* Clients run one after another, as the commands of one user.             *)
(***************************************************************************)
EXTENDS Integers, Sequences, FiniteSets

CONSTANTS
    MperfWorlds,    \* what the clients ask, see below
    NoClient

\* A world: what each client asks, in turn ("good" and "bad" are messages the
\* worker accepts and rejects, "term" is SIG_TERM), whether the controller runs
\* with -k, and (bound) how many clients may be stopped before they end.
ASSUME MperfAssumption ==
    /\ MperfWorlds \subseteq [asks : Seq({"good", "bad", "term"}),
                             completeKill : BOOLEAN, quits : Nat]
    /\ NoClient \notin Nat

VARIABLES
    ctl,            \* the controller: pc, the client it talks to, ret, chldPID, locks
    workers,        \* the workers, named by their pid, in the order of their forks
    clients,        \* where each client is and the byte it was answered
    smem,           \* whose message is in the shared memory
    setting,        \* the world, fixed at the start
    quits           \* clients that may still be stopped

MperfVars == <<ctl, workers, clients, smem, setting, quits>>

Clients == DOMAIN setting.asks
Pids == Clients             \* a client has at most one worker forked for it

Locked == [sigusr1 |-> TRUE, sigusr2 |-> TRUE, sigchld |-> TRUE, sigalrm |-> TRUE]

NewWorker == [pc |-> "starts", conf |-> NoClient, said |-> "nothing",
              sigint |-> TRUE, queue |-> <<>>]

MperfInit ==
    /\ setting \in MperfWorlds
    /\ quits = setting.quits
    /\ ctl = [pc |-> "accepts", client |-> NoClient, ret |-> "none", chldPID |-> 0,
              backlog |-> <<>>, alarm |-> FALSE, locks |-> [l \in DOMAIN Locked |-> FALSE]]
    /\ workers = <<>>
    /\ clients = [c \in Clients |-> [pc |-> "idle", wrote |-> "nothing", ret |-> "none"]]
    /\ smem = NoClient

Live == {w \in DOMAIN workers : workers[w].pc # "dead"}
Listening == {w \in Live : workers[w].pc \in {"listens", "checks", "checked", "blocked", "accepted"}}

-----------------------------------------------------------------------------
(***************************************************************************)
(* Signals                                                                 *)
(***************************************************************************)

\* release of a lock by its handler
Released(c, lock) == [c EXCEPT !.locks[lock] = FALSE]

\* sigchldHandler for the workers that end: it reaps them.
Reaped(c, ended) ==
    LET forgets == [c EXCEPT !.chldPID = IF @ \in ended THEN -1 ELSE @]
    IN IF ended = {} THEN c ELSE Released(forgets, "sigchld")

\* The workers after those of ended have ended, and what that does to the
\* controller and to the clients whose connections they had.
Ended(ws, ended) == [w \in DOMAIN ws |-> IF w \in ended THEN [ws[w] EXCEPT !.pc = "dead"] ELSE ws[w]]
Disconnected(ended) ==
    [c \in Clients |->
        IF clients[c].pc = "connected" /\ \E w \in ended : \E i \in DOMAIN workers[w].queue : workers[w].queue[i] = c
        THEN [clients[c] EXCEPT !.pc = "done"] ELSE clients[c]]

\* sigintHandler of the worker: before running is set (and before the handler
\* is) SIGINT ends it, afterwards it releases a lock and interrupts accept.
DiesOfSigint(w) == workers[w].pc \in {"starts", "configured", "listens"}
Interrupted(w) ==
    [workers[w] EXCEPT !.sigint = FALSE, !.pc = IF @ = "blocked" THEN "checks" ELSE @]

\* kill(chldPID, ..): -1 is not a process but all of them.
Targets == IF ctl.chldPID = -1 THEN Live ELSE {ctl.chldPID} \cap Live

-----------------------------------------------------------------------------
(***************************************************************************)
(* The controller                                                          *)
(***************************************************************************)

CtlAt(pc) == ctl.pc = pc
MyAsk == setting.asks[ctl.client]

\* main: the next client in the queue of the listening socket, which may have
\* gone meanwhile and left what it wrote.
ControllerAccepts ==
    /\ CtlAt("accepts") /\ ctl.backlog # <<>>
    /\ ctl' = [ctl EXCEPT !.pc = "command", !.client = Head(ctl.backlog), !.backlog = Tail(@),
                          !.ret = "SUCC"]
    /\ UNCHANGED <<workers, clients, smem, setting, quits>>

\* The connection is closed: a client that was not answered fails.
HangsUp(cs, c) == [cs EXCEPT ![c].pc = IF @ = "asking" THEN "done" ELSE @]
ControllerCloses(cs) ==
    /\ ctl' = [ctl EXCEPT !.pc = "accepts", !.client = NoClient, !.ret = "none"]
    /\ clients' = HangsUp(cs, ctl.client)

\* What comes when no worker is left: doTerminate is done, doConfigure reads on.
AfterTerminate == IF MyAsk = "term" THEN "replies" ELSE "message"

\* parse: rRecvBytes times out, or finds the client gone, or gives the command;
\* doTerminate and doConfigure look whether a worker has to be stopped.
ParseCommand ==
    /\ CtlAt("command")
    /\ IF clients[ctl.client].wrote = "nothing"
       THEN ControllerCloses(clients)
       ELSE /\ ctl' = [ctl EXCEPT !.pc = IF ctl.chldPID > 0 THEN "terminates"
                                         ELSE AfterTerminate]
            /\ UNCHANGED clients
    /\ UNCHANGED <<workers, smem, setting, quits>>

\* rTerminate: the locks and the alarm are set before SIGINT is sent.
TerminateArms ==
    /\ CtlAt("terminates")
    /\ ctl' = [ctl EXCEPT !.pc = "kills", !.alarm = TRUE,
                          !.locks.sigchld = TRUE, !.locks.sigalrm = TRUE]
    /\ UNCHANGED <<workers, clients, smem, setting, quits>>

\* rKill with SIGINT; a worker that has been reaped meanwhile is no process.
TerminateKills ==
    /\ CtlAt("kills")
    /\ LET ended == {w \in Targets : DiesOfSigint(w)}
           kept == [w \in DOMAIN workers |->
                       IF w \in Targets THEN Interrupted(w) ELSE workers[w]]
       IN /\ workers' = Ended(kept, ended)
          /\ clients' = Disconnected(ended)
          /\ ctl' = IF ctl.chldPID > 0 /\ Targets = {}
                    THEN [ctl EXCEPT !.pc = "replies", !.ret = "EKILL", !.alarm = FALSE]
                    ELSE Reaped([ctl EXCEPT !.pc = "waits"], ended)
    /\ UNCHANGED <<smem, setting, quits>>

\* Mutant: the controller waits for the end of the worker alone.
ChildGoneOnly == ~ ctl.locks.sigchld

\* spinAND of rTerminate
ChildGoneOrAlarm == ~ ctl.locks.sigchld \/ ~ ctl.locks.sigalrm

\* Mutant: a worker that does not answer is left alone with -k too.
KillsCompletelyNever == FALSE

\* rTerminate, after the wait: a worker that did not end is killed with -k.
KillsCompletely == ctl.locks.sigchld /\ setting.completeKill

TerminateWaits ==
    /\ CtlAt("waits") /\ ChildGoneOrAlarm
    /\ ctl' = [ctl EXCEPT !.alarm = FALSE,
                          !.pc = IF KillsCompletely THEN "sigterm" ELSE AfterTerminate]
    /\ UNCHANGED <<workers, clients, smem, setting, quits>>

\* rKill with SIGTERM, which no worker handles.
TerminateKillsCompletely ==
    /\ CtlAt("sigterm")
    /\ workers' = Ended(workers, Targets)
    /\ clients' = Disconnected(Targets)
    /\ ctl' = IF ctl.chldPID > 0 /\ Targets = {}
              THEN [ctl EXCEPT !.pc = "replies", !.ret = "EKILL"]
              ELSE Reaped([ctl EXCEPT !.pc = AfterTerminate], Targets)
    /\ UNCHANGED <<smem, setting, quits>>

\* Mutant: SIGUSR2 keeps what the last worker made of its lock.
LocksForForkNotUsr2(locks) == [locks EXCEPT !.sigusr1 = TRUE, !.sigalrm = TRUE]

\* doConfigure: the locks of the answers of the new worker
LocksForFork(locks) == [locks EXCEPT !.sigusr1 = TRUE, !.sigusr2 = TRUE, !.sigalrm = TRUE]

\* doConfigure: the message goes into the shared memory; or it never comes.
ConfigureReceives ==
    /\ CtlAt("message")
    /\ IF clients[ctl.client].wrote = "message"
       THEN /\ smem' = ctl.client
            /\ ctl' = [ctl EXCEPT !.pc = "forks", !.alarm = TRUE, !.locks = LocksForFork(@)]
       ELSE /\ ctl' = [ctl EXCEPT !.pc = "replies", !.ret = "EREAD"]
            /\ UNCHANGED smem
    /\ UNCHANGED <<workers, clients, setting, quits>>

\* backupFork: the child exists before its pid is stored; or there is none.
Fork ==
    /\ CtlAt("forks")
    /\ \/ /\ workers' = Append(workers, NewWorker)
          /\ ctl' = [ctl EXCEPT !.pc = "stores"]
       \/ /\ ctl' = [ctl EXCEPT !.pc = "spins", !.chldPID = -1]
          /\ UNCHANGED workers
    /\ UNCHANGED <<clients, smem, setting, quits>>

StorePid ==
    /\ CtlAt("stores")
    /\ ctl' = [ctl EXCEPT !.pc = "spins", !.chldPID = Len(workers)]
    /\ UNCHANGED <<workers, clients, smem, setting, quits>>

\* What doConfigure makes of the locks.
Outcome ==
    IF ~ ctl.locks.sigusr2 THEN "EMSG"
    ELSE IF ~ ctl.locks.sigalrm THEN "EPROC" ELSE "SUCC"

ConfigureSpins ==
    /\ CtlAt("spins")
    /\ \E l \in {"sigusr1", "sigusr2", "sigalrm"} : ~ ctl.locks[l]
    /\ ctl' = [ctl EXCEPT !.pc = "looks", !.alarm = FALSE]
    /\ UNCHANGED <<workers, clients, smem, setting, quits>>

ConfigureLooks ==
    /\ CtlAt("looks")
    /\ ctl' = [ctl EXCEPT !.pc = "replies", !.ret = Outcome]
    /\ UNCHANGED <<workers, clients, smem, setting, quits>>

\* doConfigure_out and doTerminate_out: the byte, to a client that is still
\* there, and the close of main.
Reply ==
    /\ CtlAt("replies")
    /\ ControllerCloses([clients EXCEPT ![ctl.client] =
           IF @.pc = "asking" THEN [@ EXCEPT !.pc = "answered", !.ret = ctl.ret] ELSE @])
    /\ UNCHANGED <<workers, smem, setting, quits>>

\* The alarm of one second
AlarmFires ==
    /\ ctl.alarm
    /\ ctl' = [Released(ctl, "sigalrm") EXCEPT !.alarm = FALSE]
    /\ UNCHANGED <<workers, clients, smem, setting, quits>>

-----------------------------------------------------------------------------
(***************************************************************************)
(* The worker                                                              *)
(***************************************************************************)

Becomes(w, pc) == workers' = [workers EXCEPT ![w].pc = pc]

\* The worker exits: the kernel closes what it has open.
Exits(w) ==
    /\ workers' = Ended(workers, {w})
    /\ clients' = Disconnected({w})
    /\ ctl' = Reaped(ctl, {w})

\* configure: SIGUSR1 for a message it understands, before it listens;
\* otherwise SIGUSR2, and exit.
WorkerConfigures(w) ==
    /\ workers[w].pc = "starts"
    /\ LET read == [workers EXCEPT ![w].conf = smem]
       IN IF setting.asks[smem] = "good"
          THEN /\ workers' = [read EXCEPT ![w].pc = "configured", ![w].said = "usr1"]
               /\ ctl' = Released(ctl, "sigusr1")
          ELSE /\ workers' = [read EXCEPT ![w].pc = "rejects", ![w].said = "usr2"]
               /\ ctl' = Released(ctl, "sigusr2")
    /\ UNCHANGED <<clients, smem, setting, quits>>

WorkerRejects(w) ==
    /\ workers[w].pc = "rejects"
    /\ Exits(w)
    /\ UNCHANGED <<smem, setting, quits>>

\* forceOpenListenFD: bind fails while another worker listens on the port.
WorkerListens(w) ==
    /\ workers[w].pc = "configured"
    /\ IF Listening # {} THEN Exits(w) ELSE Becomes(w, "listens") /\ UNCHANGED <<ctl, clients>>
    /\ UNCHANGED <<smem, setting, quits>>

\* serverMain: setLock, and running
WorkerRuns(w) ==
    /\ workers[w].pc = "listens"
    /\ Becomes(w, "checks")
    /\ UNCHANGED <<ctl, clients, smem, setting, quits>>

\* serverMain: the loop around accept
WorkerChecks(w) ==
    /\ workers[w].pc = "checks"
    /\ IF workers[w].sigint THEN Becomes(w, "checked") /\ UNCHANGED <<ctl, clients>> ELSE Exits(w)
    /\ UNCHANGED <<smem, setting, quits>>

WorkerAccepts(w) ==
    /\ \/ workers[w].pc = "checked" /\ Becomes(w, IF workers[w].queue = <<>> THEN "blocked" ELSE "accepted")
       \/ workers[w].pc = "blocked" /\ workers[w].queue # <<>> /\ Becomes(w, "accepted")
    /\ UNCHANGED <<ctl, clients, smem, setting, quits>>

\* Mutant: a worker that was interrupted serves the connection it got.
MayServeInterrupted(w) == TRUE

\* serverMain looks at the locks again after accept.
MayServe(w) == workers[w].sigint

\* The listening socket is closed, and with it the connections nobody accepted.
WorkerServes(w) ==
    /\ workers[w].pc = "accepted"
    /\ IF MayServe(w)
       THEN /\ workers' = [workers EXCEPT ![w].pc = "serves", ![w].queue = <<Head(@)>>]
            /\ clients' = [c \in Clients |->
                   IF clients[c].pc = "connected" /\ c # Head(workers[w].queue)
                   THEN [clients[c] EXCEPT !.pc = "done"] ELSE clients[c]]
            /\ UNCHANGED ctl
       ELSE Exits(w)
    /\ UNCHANGED <<smem, setting, quits>>

\* parse returns: the test is over (MperfTransfer)
WorkerEnds(w) ==
    /\ workers[w].pc = "serves"
    /\ Exits(w)
    /\ UNCHANGED <<smem, setting, quits>>

-----------------------------------------------------------------------------
(***************************************************************************)
(* The client                                                              *)
(***************************************************************************)

Advances(c, pc) == clients' = [clients EXCEPT ![c].pc = pc]

\* reconfigureServer: netdial, the command byte, the message
ClientDials(c) ==
    /\ clients[c].pc = "idle"
    /\ \A d \in Clients : d < c => clients[d].pc = "done"
    /\ Advances(c, "asking")
    /\ ctl' = [ctl EXCEPT !.backlog = Append(@, c)]
    /\ UNCHANGED <<workers, smem, setting, quits>>

ClientWrites(c) ==
    /\ clients[c].pc = "asking"
    /\ \/ /\ clients[c].wrote = "nothing"
          /\ clients' = [clients EXCEPT ![c].wrote = "command"]
       \/ /\ clients[c].wrote = "command" /\ setting.asks[c] # "term"
          /\ clients' = [clients EXCEPT ![c].wrote = "message"]
    /\ UNCHANGED <<ctl, workers, smem, setting, quits>>

\* connectToServer: the byte of the answer is overwritten by RET_SUCC, so the
\* client goes on whatever it was; it fails when nobody listens.
ClientConnects(c) ==
    /\ clients[c].pc = "answered"
    /\ IF setting.asks[c] = "term" \/ Listening = {}
       THEN Advances(c, "done") /\ UNCHANGED workers
       ELSE /\ Advances(c, "connected")
            /\ \E w \in Listening : workers' = [workers EXCEPT ![w].queue = Append(@, c)]
    /\ UNCHANGED <<ctl, smem, setting, quits>>

\* sigintHandlerEarly, or a timeout of rSendMessage or rRecvBytes, or the end
\* of a test on the side of the client
ClientQuits(c) ==
    /\ quits > 0 /\ quits' = quits - 1
    /\ clients[c].pc \notin {"idle", "done"}
    /\ Advances(c, "done")
    /\ UNCHANGED <<ctl, workers, smem, setting>>

-----------------------------------------------------------------------------
ControllerGoesOn ==
    \/ ParseCommand \/ TerminateArms \/ TerminateKills \/ TerminateWaits
    \/ TerminateKillsCompletely \/ ConfigureReceives \/ Fork \/ StorePid
    \/ ConfigureSpins \/ ConfigureLooks \/ Reply

WorkerGoesOn(w) ==
    \/ WorkerConfigures(w) \/ WorkerRejects(w) \/ WorkerListens(w) \/ WorkerRuns(w)
    \/ WorkerChecks(w) \/ WorkerAccepts(w) \/ WorkerServes(w) \/ WorkerEnds(w)

ClientGoesOn(c) ==
    ClientDials(c) \/ ClientWrites(c) \/ ClientConnects(c)

MperfNext ==
    \/ ControllerAccepts \/ ControllerGoesOn \/ AlarmFires
    \/ \E w \in DOMAIN workers : WorkerGoesOn(w)
    \/ \E c \in Clients : ClientGoesOn(c) \/ ClientQuits(c)

\* The controller is a process that runs, and an alarm that is set goes off.
\* Nothing is asked of workers and clients.
MperfFairness == WF_MperfVars(ControllerGoesOn) /\ WF_MperfVars(AlarmFires)

MperfSpec == MperfInit /\ [][MperfNext]_MperfVars /\ MperfFairness

-----------------------------------------------------------------------------
\* A test is served by the worker that was configured for it, even when the
\* SIGINT for an earlier worker was lost: such a worker still has the port, the
\* new one cannot bind, and the client connects to the old one, which must see
\* after accept that it was stopped.
OwnWorkerServes ==
    \A w \in DOMAIN workers : workers[w].pc = "serves" => workers[w].conf = Head(workers[w].queue)

\* With -k at most one worker is alive, as the usage of mperf-server says.
AtMostOneWorker == setting.completeKill => Cardinality(Live) <= 1

\* The byte a configuring client is sent is about its own message: RET_SUCC only
\* if a worker took it, RET_EMSG only if a worker rejected it.  No answer of an
\* earlier worker, late or left in a lock, is taken for that of the new one.
RepliesTrue ==
    \A c \in Clients : setting.asks[c] # "term" =>
        /\ clients[c].ret = "SUCC" => \E w \in DOMAIN workers : workers[w].conf = c /\ workers[w].said = "usr1"
        /\ clients[c].ret = "EMSG" => \E w \in DOMAIN workers : workers[w].conf = c /\ workers[w].said = "usr2"

\* Whatever workers and clients do, the controller returns to its accept.
ControllerReturns == []<>(ctl.pc = "accepts")
=============================================================================
