--------------------------- MODULE MCSocketLayer ---------------------------
(***************************************************************************)
(* Model-checking instance of the socket layer of one host: the pipes and  *)
(* the tables of the daemon.  The two parts do not run beside each other:  *)
(* a behaviour picks one and runs it alone.                                *)
(***************************************************************************)
EXTENDS RequestPipe, SocketTable

CONSTANTS p1, p2

VARIABLE part

vars == <<part, RequestVars, TableVars>>

Runs(p) == part = p /\ UNCHANGED part

Init ==
    /\ part \in {"pipes", "tables"}
    /\ RequestInit /\ (part # "pipes" => usage = CHOOSE u \in CallWorlds : TRUE)
    /\ TableInit

Next ==
    \/ Runs("pipes") /\ RequestNext /\ UNCHANGED TableVars
    \/ Runs("tables") /\ TableNext /\ UNCHANGED RequestVars

\* RequestFairness, as long as the pipes run.
Fairness ==
    /\ \A p \in Processes :
        /\ WF_RequestVars(part = "pipes" /\ ProcessGoesOn(p))
        /\ SF_RequestVars(part = "pipes" /\ RequestPipeOpened(p))
        /\ SF_RequestVars(part = "pipes" /\ Alive /\ \E c \in pending : c.of = p /\ TcpEnds(c))
    /\ SF_RequestVars(part = "pipes" /\ Alive /\ DaemonGoesOn)
    /\ \A t \in Threads :
        WF_RequestVars(part = "pipes" /\ Alive /\ (ThreadAnswers(t) \/ ThreadTransfers(t)))

Spec == Init /\ [][Next]_vars /\ Fairness

-----------------------------------------------------------------------------
\* One process with every call but accept, which may be stopped while it waits;
\* two processes with calls whose requests can meet in the pipe.
TheCallWorlds == {
    [users |-> {p1}, calls |-> AllCalls \ {"accept"}, most |-> 1, mayDie |-> {p1}],
    [users |-> {p1, p2}, calls |-> {"socket", "accept", "close"}, most |-> 2, mayDie |-> {}]}
=============================================================================
