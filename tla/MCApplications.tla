--------------------------- MODULE MCApplications ---------------------------
(***************************************************************************)
(* Model-checking instance of the programs that use the network: setting   *)
(* an mperf test up, the test, and the sample applications.  A behaviour   *)
(* picks one of the three and runs it alone.                               *)
(***************************************************************************)
EXTENDS MperfControl, MperfTransfer, SampleApps

VARIABLE part

vars == <<part, MperfVars, TransferVars, SampleVars>>

Runs(p) == part = p /\ UNCHANGED part

Init ==
    /\ part \in {"control", "transfer", "samples"}
    /\ MperfInit /\ (part # "control" => setting = CHOOSE w \in MperfWorlds : TRUE)
    /\ TransferInit /\ (part # "transfer" => test = CHOOSE t \in Tests : TRUE)
    /\ SampleInit /\ (part # "samples" => program = CHOOSE p \in Programs : TRUE)

Next ==
    \/ Runs("control") /\ MperfNext /\ UNCHANGED <<TransferVars, SampleVars>>
    \/ Runs("transfer") /\ TransferNext /\ UNCHANGED <<MperfVars, SampleVars>>
    \/ Runs("samples") /\ SampleNext /\ UNCHANGED <<MperfVars, TransferVars>>

\* MperfFairness and SampleFairness, as long as their parts run.
Fairness ==
    /\ WF_MperfVars(part = "control" /\ ControllerGoesOn)
    /\ WF_MperfVars(part = "control" /\ AlarmFires)
    /\ WF_SampleVars(part = "samples" /\ ClientRuns)
    /\ WF_SampleVars(part = "samples" /\ ServerRuns)

Spec == Init /\ [][Next]_vars /\ Fairness

SamplesComplete == part = "samples" => SessionsComplete

-----------------------------------------------------------------------------
\* Three tests in a row without -k, the first of which may be given up half-way;
\* the same with two tests and -k; a message that is rejected, a test and a
\* SIG_TERM.
World(asks, k, q) == [asks |-> asks, completeKill |-> k, quits |-> q]
TheMperfWorlds ==
    {World(<<"good", "good", "good">>, FALSE, 1),
     World(<<"good", "good">>, TRUE, 1),
     World(<<"bad", "good", "term">>, TRUE, 0)}

\* A long test, and a fix test whose last packet is not a whole one.
TheTests == {[long |-> TRUE, size |-> 0], [long |-> FALSE, size |-> 7]}

\* Two echo sessions with lines that fit, that fill the buffer and that do not
\* fit; two perf rounds with a block larger than a queue.
ThePrograms ==
    {[echo |-> TRUE, sessions |-> 2, rounds |-> 0, length |-> 9, newlines |-> {1, 3, 8, 9}],
     [echo |-> FALSE, sessions |-> 1, rounds |-> 2, length |-> 5, newlines |-> {}]}
=============================================================================
