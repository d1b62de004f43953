------------------------------ MODULE ByteStream ------------------------------
(***************************************************************************)
(* What a TCP connection promises its two applications: a reliable byte    *)
(* stream in each direction.  It promises nothing about when bytes arrive, *)
(* and either side may be told at any time that the connection is gone.    *)
(***************************************************************************)
EXTENDS Integers, Sequences

CONSTANTS Hosts, Peer(_), StreamLength

VARIABLES
    written,    \* bytes of its stream each host's stack has taken
    got         \* the bytes each application has read

Init ==
    /\ written = [h \in Hosts |-> 0]
    /\ got = [h \in Hosts |-> <<>>]

\* The stack takes n more bytes of h's stream.
Take(h, n) ==
    /\ written[h] + n <= StreamLength[h]
    /\ written' = [written EXCEPT ![h] = @ + n]
    /\ UNCHANGED got

\* The application of h reads the next n bytes of its peer's stream, which
\* the peer's stack must have taken before.
Give(h, n) ==
    LET read == Len(got[h]) IN
    /\ read + n <= written[Peer(h)]
    /\ got' = [got EXCEPT ![h] = @ \o [k \in 1 .. n |-> read + k]]
    /\ UNCHANGED written

Next ==
    \E h \in Hosts : \E n \in 1 .. StreamLength[h] + StreamLength[Peer(h)] :
        Take(h, n) \/ Give(h, n)

Spec == Init /\ [][Next]_<<written, got>>
=============================================================================
