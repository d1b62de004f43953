--------------------------- MODULE MperfTransfer ---------------------------
(***************************************************************************)
(* An mperf test once worker and client are connected (mperf/src/sndrcv.c  *)
(* and rio_readnr and rio_writenr of util.c): one side writes packets, the *)
(* other reads them, each counts the bytes it reports at the end.          *)
(*                                                                         *)
(* Ctrl+C and the alarm only release locks that are looked at between      *)
(* packets; they interrupt a read or write that waits and has moved        *)
(* nothing yet, and cut short one that has.  The connection is a queue of  *)
(* Room bytes at most, which may break.                                    *)
(***************************************************************************)
EXTENDS Integers

CONSTANTS
    PacketLen,
    Tests,          \* the tests: "long", or the size of a fix test
    Room,
    MaxPackets      \* bound: packets of a long test

ASSUME TransferAssumption ==
    /\ PacketLen \in Nat \ {0} /\ Room \in Nat \ {0} /\ MaxPackets \in Nat
    /\ Tests \subseteq [long : BOOLEAN, size : Nat]

VARIABLES
    test,           \* the test, fixed at the start
    snd,            \* the sender: doLongTest or doFixTest, with rio_writenr
    rcv,            \* the receiver: doReceive, with rio_readnr
    wire            \* the connection: bytes on the way, whether it is broken

TransferVars == <<test, snd, rcv, wire>>

\* n and nleft are those of the rio routine, moved what the system call in
\* progress has moved, ret what the routine returned, counted what is reported,
\* total every byte moved, go the locks of both signals.
Side(pc, counted) ==
    [pc |-> pc, n |-> 0, nleft |-> 0, moved |-> 0, ret |-> 0, counted |-> counted,
     total |-> 0, go |-> TRUE]

TransferInit ==
    /\ test \in Tests
    /\ snd = Side("tests", 0)
    /\ rcv = Side("reads", 0)
    /\ wire = [bytes |-> 0, broken |-> FALSE]

Least(a, b) == IF a < b THEN a ELSE b

\* len of the next packet: of a fix test what is left of it
ThisLen == IF test.long THEN PacketLen ELSE Least(PacketLen, test.size - snd.counted)

-----------------------------------------------------------------------------
(***************************************************************************)
(* The sender                                                              *)
(***************************************************************************)

\* doLongTest, doFixTest: the head of the loop
SenderTests ==
    /\ snd.pc = "tests"
    /\ snd' = IF snd.go /\ ThisLen > 0
              THEN [snd EXCEPT !.pc = "writes", !.n = ThisLen, !.nleft = ThisLen]
              ELSE [snd EXCEPT !.pc = "ends"]
    /\ test.long => snd.counted < MaxPackets * PacketLen \/ ~ snd.go
    /\ UNCHANGED <<test, rcv, wire>>

\* The loop of rio_writenr: the next write, or the return.
SenderWrites ==
    /\ snd.pc = "writes"
    /\ snd' = IF snd.nleft = 0 THEN [snd EXCEPT !.pc = "wrote", !.ret = snd.n]
              ELSE [snd EXCEPT !.pc = "in write", !.moved = 0]
    /\ UNCHANGED <<test, rcv, wire>>

\* write moves what there is room for and waits for more room, until all is
\* moved; on a broken connection it fails.
WriteMoves ==
    /\ snd.pc = "in write" /\ ~ wire.broken
    /\ \E k \in 1 .. Least(snd.nleft - snd.moved, Room - wire.bytes) :
        /\ wire' = [wire EXCEPT !.bytes = @ + k]
        /\ snd' = [snd EXCEPT !.moved = @ + k, !.total = @ + k]
    /\ UNCHANGED <<test, rcv>>

WriteReturns ==
    /\ snd.pc = "in write" /\ snd.moved = snd.nleft
    /\ snd' = [snd EXCEPT !.pc = "writes", !.nleft = 0]
    /\ UNCHANGED <<test, rcv, wire>>

WriteFails ==
    /\ snd.pc = "in write" /\ wire.broken /\ snd.moved < snd.nleft
    /\ snd' = [snd EXCEPT !.pc = "wrote", !.ret = -1]
    /\ UNCHANGED <<test, rcv, wire>>

\* A signal while write waits: EINTR ends rio_writenr with what it has written
\* so far; a write that has moved something returns that, and the loop goes on.
WriteInterrupted(s) ==
    IF s.moved = 0 THEN [s EXCEPT !.pc = "wrote", !.ret = s.n - s.nleft]
    ELSE [s EXCEPT !.pc = "writes", !.nleft = @ - s.moved]

\* doLongTest, doFixTest: only whole packets are counted, and a test that has
\* written less than one ends.
SenderCounts ==
    /\ snd.pc = "wrote"
    /\ snd' = IF snd.ret < snd.n THEN [snd EXCEPT !.pc = "ends"]
              ELSE [snd EXCEPT !.pc = "tests", !.counted = @ + snd.ret]
    /\ UNCHANGED <<test, rcv, wire>>

\* sigintHandler, sigalrmHandler: at any time, once
SenderSignal ==
    /\ snd.go /\ snd.pc # "ends"
    /\ snd' = [(IF snd.pc = "in write" /\ snd.moved < snd.nleft THEN WriteInterrupted(snd) ELSE snd)
                 EXCEPT !.go = FALSE]
    /\ UNCHANGED <<test, rcv, wire>>

-----------------------------------------------------------------------------
(***************************************************************************)
(* The receiver                                                            *)
(***************************************************************************)

\* doReceive: a packet is always asked for whole, the loop looks at the locks
\* after it.
ReceiverReads ==
    /\ rcv.pc = "reads"
    /\ rcv' = [rcv EXCEPT !.pc = "in read", !.n = PacketLen, !.nleft = PacketLen]
    /\ UNCHANGED <<test, snd, wire>>

\* read returns what there is, and the loop of rio_readnr goes on until it has
\* everything.
ReadMoves ==
    /\ rcv.pc = "in read"
    /\ \E k \in 1 .. Least(rcv.nleft, wire.bytes) :
        /\ wire' = [wire EXCEPT !.bytes = @ - k]
        /\ rcv' = [rcv EXCEPT !.nleft = @ - k, !.total = @ + k,
                              !.pc = IF rcv.nleft = k THEN "read" ELSE "in read",
                              !.ret = IF rcv.nleft = k THEN rcv.n ELSE @]
    /\ UNCHANGED <<test, snd>>

\* Mutant: rio_readnr returns nothing for a packet cut short.
ReadShortNothing(r) == [r EXCEPT !.pc = "read", !.ret = 0]

\* rio_readnr returns the part of the packet it has.
ReadShort(r) == [r EXCEPT !.pc = "read", !.ret = r.n - r.nleft]

\* The sender has closed the connection, or it is broken.
ReadEnds ==
    /\ rcv.pc = "in read" /\ wire.bytes = 0
    /\ \/ wire.broken /\ rcv' = [rcv EXCEPT !.pc = "read", !.ret = -1]
       \/ ~ wire.broken /\ snd.pc = "ends" /\ rcv' = ReadShort(rcv)
    /\ UNCHANGED <<test, snd, wire>>

\* doReceive counts the part of a packet, unless the read failed.
ReceiverCounts ==
    /\ rcv.pc = "read"
    /\ rcv' = [rcv EXCEPT !.counted = IF rcv.ret < 0 THEN @ ELSE @ + rcv.ret,
                          !.pc = IF rcv.ret = rcv.n /\ rcv.go THEN "reads" ELSE "ends"]
    /\ UNCHANGED <<test, snd, wire>>

\* A signal while read waits ends rio_readnr; one that comes before read does not.
ReceiverSignal ==
    /\ rcv.go /\ rcv.pc # "ends"
    /\ \/ rcv' = [rcv EXCEPT !.go = FALSE]
       \/ rcv.pc = "in read" /\ wire.bytes = 0 /\ rcv' = [ReadShort(rcv) EXCEPT !.go = FALSE]
    /\ UNCHANGED <<test, snd, wire>>

\* The receiver exits before the sender: what it has not read is reset.
ReceiverCloses ==
    /\ rcv.pc = "ends" /\ snd.pc # "ends" /\ ~ wire.broken
    /\ wire' = [bytes |-> 0, broken |-> TRUE]
    /\ UNCHANGED <<test, snd, rcv>>

\* The network takes the connection down.
ConnectionBreaks ==
    /\ ~ wire.broken /\ rcv.pc # "ends"
    /\ wire' = [bytes |-> 0, broken |-> TRUE]
    /\ UNCHANGED <<test, snd, rcv>>

-----------------------------------------------------------------------------
SenderGoesOn ==
    SenderTests \/ SenderWrites \/ WriteMoves \/ WriteReturns \/ WriteFails \/ SenderCounts
ReceiverGoesOn == ReceiverReads \/ ReadMoves \/ ReadEnds \/ ReceiverCounts

TransferNext ==
    \/ SenderGoesOn \/ SenderSignal
    \/ ReceiverGoesOn \/ ReceiverSignal
    \/ ReceiverCloses \/ ConnectionBreaks

TransferSpec == TransferInit /\ [][TransferNext]_TransferVars

-----------------------------------------------------------------------------
\* What the two sides report of one test agrees: the receiver reports every
\* byte it took from the connection, unless a read failed, which costs less than
\* a packet; the sender reports the whole packets it wrote, so the receiver's
\* count is the larger one when it has read to the end of the connection; a fix
\* test nobody interrupted reports its size.
CountsTrue ==
    /\ rcv.pc = "ends" => IF rcv.ret < 0 THEN rcv.total - rcv.counted \in 0 .. PacketLen - 1
                          ELSE rcv.counted = rcv.total
    /\ snd.pc = "ends" => snd.total - snd.counted \in 0 .. PacketLen - 1
    /\ snd.pc = "ends" /\ rcv.pc = "ends" /\ ~ wire.broken /\ rcv.go
        => /\ rcv.counted = snd.total
           /\ snd.go /\ ~ test.long => snd.counted = test.size /\ rcv.counted = test.size
=============================================================================
