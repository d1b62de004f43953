----------------------------- MODULE SampleApps -----------------------------
(***************************************************************************)
(* The sample applications (src/checkpoint): the echo pair and the perf    *)
(* pair, over the read and write of the socket API, which move some of     *)
(* what is asked and wait while they can move nothing.  A connection is    *)
(* two queues of at most QueueRoom bytes that keep what is written in      *)
(* order (TcpConnection is about that), so the n-th byte read is the n-th  *)
(* written and counts say it all; a connection may be reset, for both of   *)
(* its sides at once.                                                      *)
(***************************************************************************)
EXTENDS Naturals

CONSTANTS
    Programs,       \* what is run, see below
    MaxLine,        \* MAXLINE
    QueueRoom,
    Resets          \* bound: connections that are reset

\* The echo client sends a text of length bytes with newlines at some places and
\* at the end, in each of its sessions; the perf client sends rounds blocks of
\* length bytes in the one session it has.
ASSUME SampleAssumption ==
    /\ Programs \subseteq [echo : BOOLEAN, sessions : Nat \ {0}, rounds : Nat,
                          length : Nat \ {0}, newlines : SUBSET (Nat \ {0})]
    /\ MaxLine \in Nat \ {0, 1} /\ QueueRoom \in Nat \ {0} /\ Resets \in Nat

VARIABLES
    program,        \* what is run, fixed at the start
    client,         \* echo_client or perf_client
    server,         \* echo_server or perf_server
    conns,          \* the bytes written and read on both sides of each connection
    resets

SampleVars == <<program, client, server, conns, resets>>

Sessions == 1 .. program.sessions

Unused == [state |-> "none", asked |-> 0, heard |-> 0, echoed |-> 0, answered |-> 0]

SampleInit ==
    /\ program \in Programs
    /\ client = [pc |-> "connects", session |-> 1, round |-> 0, target |-> 0, line |-> 0]
    /\ server = [pc |-> "accepts", session |-> 1, buf |-> 0]
    /\ conns = [s \in Sessions |-> Unused]
    /\ resets = 0

Mine == conns[client.session]
Its == conns[server.session]
Reset(c) == c.state = "reset"

\* The next n bytes that can be moved: at least one.
Some(asked, possible) == 1 .. (IF asked < possible THEN asked ELSE possible)

-----------------------------------------------------------------------------
(***************************************************************************)
(* The clients                                                             *)
(***************************************************************************)

\* Connect: the server listens all the time.
ClientDialsIn ==
    /\ client.pc = "connects"
    /\ client' = [client EXCEPT !.pc = "loops", !.round = 0, !.target = 0]
    /\ conns' = [conns EXCEPT ![client.session].state = "open"]
    /\ UNCHANGED <<program, server, resets>>

\* fgets: up to a newline, MaxLine - 1 bytes, or the end of the text
LineEnd(from) ==
    CHOOSE e \in from + 1 .. from + MaxLine - 1 :
        /\ e \in program.newlines \/ e = program.length \/ e = from + MaxLine - 1
        /\ \A d \in from + 1 .. e - 1 : d \notin program.newlines /\ d # program.length

\* The loops of main of the perf client and of str_cli: the next block or line;
\* at the end the echo client closes its socket, the perf client does not.
ClientLoops ==
    /\ client.pc = "loops"
    /\ LET more == IF program.echo THEN client.target < program.length
                   ELSE client.round < program.rounds
           last == ~ program.echo \/ client.session = program.sessions
       IN IF more
          THEN /\ client' = [client EXCEPT !.pc = "writes", !.round = @ + 1, !.line = 0,
                      !.target = IF program.echo THEN LineEnd(@) ELSE @ + program.length]
               /\ UNCHANGED conns
          ELSE /\ client' = IF last THEN [client EXCEPT !.pc = "done"]
                            ELSE [client EXCEPT !.pc = "connects", !.session = @ + 1]
               /\ conns' = [conns EXCEPT ![client.session].state =
                               IF program.echo /\ @ = "open" THEN "closed" ELSE @]
    /\ UNCHANGED <<program, server, resets>>

\* writen: until all is written; neither client stops when it fails.
ClientSends ==
    /\ client.pc = "writes"
    /\ \/ /\ Reset(Mine) \/ Mine.asked = client.target
          /\ client' = [client EXCEPT !.pc = "reads"]
          /\ UNCHANGED conns
       \/ /\ ~ Reset(Mine)
          /\ \E n \in Some(client.target - Mine.asked, QueueRoom - (Mine.asked - Mine.heard)) :
                conns' = [conns EXCEPT ![client.session].asked = @ + n]
          /\ UNCHANGED client
    /\ UNCHANGED <<program, server, resets>>

\* Mutant: readline fills its buffer to the last byte.
LineFullAfter(n) == n = MaxLine

\* readline: the loop over n ends with MaxLine - 1 bytes.
LineFull(n) == n = MaxLine - 1

\* readn reads the whole block, readline byte by byte to the end of a line;
\* a connection that is reset ends both, and the client goes on.
ReadsAll == IF program.echo
            THEN client.line > 0 /\ (LineFull(client.line) \/ Mine.answered \in program.newlines)
            ELSE Mine.answered = client.target

ClientHears ==
    /\ client.pc = "reads"
    /\ \/ /\ Reset(Mine) \/ ReadsAll
          /\ client' = [client EXCEPT !.pc = "loops"]
          /\ UNCHANGED conns
       \/ /\ ~ Reset(Mine) /\ ~ ReadsAll
          /\ \E n \in Some(IF program.echo THEN 1 ELSE client.target - Mine.answered,
                           Mine.echoed - Mine.answered) :
                /\ conns' = [conns EXCEPT ![client.session].answered = @ + n]
                /\ client' = [client EXCEPT !.line = @ + n]
    /\ UNCHANGED <<program, server, resets>>

-----------------------------------------------------------------------------
(***************************************************************************)
(* The servers                                                             *)
(***************************************************************************)

\* Accept: the connections in their order
ServerAccepts ==
    /\ server.pc = "accepts" /\ Its.state # "none"
    /\ server' = [server EXCEPT !.pc = "reads"]
    /\ UNCHANGED <<program, client, conns, resets>>

\* str_echo: the end of the stream, or an error, ends the session.
ServerReads ==
    /\ server.pc = "reads"
    /\ \/ /\ ~ Reset(Its)
          /\ \E n \in Some(MaxLine, Its.asked - Its.heard) :
                /\ conns' = [conns EXCEPT ![server.session].heard = @ + n]
                /\ server' = [server EXCEPT !.pc = "writes", !.buf = n]
       \/ /\ Reset(Its) \/ (Its.state = "closed" /\ Its.heard = Its.asked)
          /\ server' = IF server.session = program.sessions THEN [server EXCEPT !.pc = "done"]
                       ELSE [server EXCEPT !.pc = "accepts", !.session = @ + 1]
          /\ UNCHANGED conns
    /\ UNCHANGED <<program, client, resets>>

\* writen of what was read; its failure is not looked at.
ServerEchoes ==
    /\ server.pc = "writes"
    /\ \/ /\ Reset(Its) \/ server.buf = 0
          /\ server' = [server EXCEPT !.pc = "reads", !.buf = 0]
          /\ UNCHANGED conns
       \/ /\ ~ Reset(Its)
          /\ \E n \in Some(server.buf, QueueRoom - (Its.echoed - Its.answered)) :
                /\ conns' = [conns EXCEPT ![server.session].echoed = @ + n]
                /\ server' = [server EXCEPT !.buf = @ - n]
    /\ UNCHANGED <<program, client, resets>>

\* TCP gives a connection up.
ConnectionReset ==
    /\ resets < Resets /\ resets' = resets + 1
    /\ \E s \in Sessions :
        /\ conns[s].state = "open"
        /\ conns' = [conns EXCEPT ![s].state = "reset"]
    /\ UNCHANGED <<program, client, server>>

-----------------------------------------------------------------------------
ClientRuns == ClientDialsIn \/ ClientLoops \/ ClientSends \/ ClientHears
ServerRuns == ServerAccepts \/ ServerReads \/ ServerEchoes

SampleNext == ClientRuns \/ ServerRuns \/ ConnectionReset

\* Two processes that run; TCP moves what there is room for (SocketsReleased and
\* Arrival of TcpConnection).
SampleFairness == WF_SampleVars(ClientRuns) /\ WF_SampleVars(ServerRuns)

SampleSpec == SampleInit /\ [][SampleNext]_SampleVars /\ SampleFairness

-----------------------------------------------------------------------------
\* Both pairs come to their end, and what the client sent has come back to it
\* in every session: the client that sends a block larger than a queue is not
\* stuck with a server that cannot write back, and a line is read back to where
\* fgets had cut it, so that the next one starts in step.  The perf client does
\* not close its socket, so its server waits for ever: only the echo server is
\* asked to end.
EchoComplete ==
    (\A s \in Sessions : conns[s].state # "reset") =>
        /\ client.pc = "done"
        /\ program.echo => server.pc = "done"
        /\ \A s \in Sessions :
            conns[s].asked = conns[s].answered /\ (program.echo => conns[s].asked = program.length)
SessionsComplete == <>[]EchoComplete
=============================================================================
