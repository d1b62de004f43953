----------------------------- MODULE ByteQueue -----------------------------
(***************************************************************************)
(* What the transport layer expects of a socket's input and output buffer: *)
(* a bounded first-in first-out queue of bytes that refuses a chunk it has *)
(* no room for, shows bytes at an offset without removing them, and drops  *)
(* bytes from the front.  RingBuffer implements it.                        *)
(***************************************************************************)
EXTENDS Integers, Sequences

CONSTANTS
    Byte,       \* the values a byte can have
    Capacity,   \* the number of bytes the queue can hold
    Chunks,     \* the chunks callers push
    Lengths     \* the offsets and sizes callers pass

VARIABLES
    q,          \* the bytes held, oldest first
    ret         \* what the last call returned: a code and the bytes copied out

Reply(n, bytes) == [n |-> n, data |-> bytes]

\* The bytes of s after the first k, at most n of them.
Window(s, k, n) ==
    SubSeq(s, k + 1, IF k + n > Len(s) THEN Len(s) ELSE k + n)

Init ==
    /\ q = <<>>
    /\ ret = Reply(0, <<>>)

Push(data) ==
    /\ Len(q) + Len(data) <= Capacity
    /\ q' = q \o data
    /\ ret' = Reply(0, <<>>)

PushRefused(data) ==
    /\ Len(q) + Len(data) > Capacity
    /\ ret' = Reply(-1, <<>>)
    /\ UNCHANGED q

Get(offset, n) ==
    /\ ret' = Reply(Len(Window(q, offset, n)), Window(q, offset, n))
    /\ UNCHANGED q

Consume(n) ==
    /\ ret' = Reply(Len(Window(q, 0, n)), Window(q, 0, n))
    /\ q' = SubSeq(q, Len(Window(q, 0, n)) + 1, Len(q))

Next ==
    \/ \E data \in Chunks : Push(data) \/ PushRefused(data)
    \/ \E offset, n \in Lengths : Get(offset, n)
    \/ \E n \in Lengths : Consume(n)

Spec == Init /\ [][Next]_<<q, ret>>
=============================================================================
