----------------------------- MODULE RingBuffer -----------------------------
(***************************************************************************)
(* src/transport/ring_buffer.c: the circular byte buffer of a socket.      *)
(* A struct ring_buffer_t is a record with the array buf and the indexes   *)
(* st (first byte held) and ed (first free byte); one slot always stays    *)
(* free so that st = ed means empty.  The code masks with size - 1, which  *)
(* for the power-of-two sizes it uses is the remainder modulo size.        *)
(***************************************************************************)
EXTENDS Integers, Sequences

CONSTANTS
    Size,       \* bytes allocated (32768 and 1048576 in the code)
    Byte,       \* the values a byte can have
    Chunks,     \* the chunks callers push
    Lengths     \* the offsets and sizes callers pass to get and consume

ASSUME SizeAssumption == Size \in Nat \ {0}
ASSUME SizeIsPowerOfTwo == \E k \in 0 .. Size : Size = 2 ^ k
ASSUME CallerAssumption == Chunks \subseteq Seq(Byte) /\ Lengths \subseteq Nat

VARIABLES
    r,          \* the struct ring_buffer_t
    ret         \* what the last call returned: a code and the bytes copied out

vars == <<r, ret>>

Index == 0 .. Size - 1

Reply(n, bytes) == [n |-> n, data |-> bytes]

(***************************************************************************)
(* memcpy into and out of the array.  Both are only used on ranges that    *)
(* the caller keeps inside the array; CopyOut of a range outside of it is  *)
(* an error that TLC reports.                                              *)
(***************************************************************************)
CopyIn(buf, at, data) ==
    [i \in Index |-> IF i >= at /\ i < at + Len(data)
                     THEN data[i - at + 1] ELSE buf[i]]

CopyOut(buf, at, n) == [i \in 1 .. n |-> buf[at + i - 1]]

BufferSize(b) == (b.ed - b.st) % Size

\* Mutant: no slot is kept free, so a full buffer looks empty.
NoSlotKeptFree(b) == IF b.st = b.ed THEN Size ELSE (b.st - b.ed) % Size

BufferFreeSize(b) == (b.st - b.ed - 1) % Size

\* Mutant: the mask is forgotten where an index moves forward.
UnmaskedAdvance(i, n) == i + n

Advance(i, n) == (i + n) % Size

\* push_ring_buffer: one copy when the chunk fits before the end of the
\* array, two when it wraps.
PushRingBuffer(b, data) ==
    LET head == Size - b.ed IN
    IF head >= Len(data)
    THEN [b EXCEPT !.buf = CopyIn(@, b.ed, data),
                   !.ed = Advance(@, Len(data))]
    ELSE [b EXCEPT !.buf = CopyIn(CopyIn(@, b.ed, SubSeq(data, 1, head)),
                                  0, SubSeq(data, head + 1, Len(data))),
                   !.ed = Len(data) - head]

\* get_ring_buffer: the bytes copied to the caller, none when the offset is
\* past the end; contiguous, split by the end of the array, or wholly after
\* the wrap.
GetRingBuffer(b, offset, size) ==
    LET held == BufferSize(b)
        n == IF size + offset > held THEN held - offset ELSE size
        head == Size - b.st - offset
    IN  IF offset >= held THEN <<>>
        ELSE IF Size >= b.st + n + offset
        THEN CopyOut(b.buf, b.st + offset, n)
        ELSE IF b.st + offset < Size
        THEN CopyOut(b.buf, b.st + offset, head) \o CopyOut(b.buf, 0, n - head)
        ELSE CopyOut(b.buf, b.st + offset - Size, n)

\* consume_ring_buffer: how many bytes go, the bytes, and the new start.
Consumable(b, size) == IF size > BufferSize(b) THEN BufferSize(b) ELSE size

ConsumedBytes(b, n) ==
    LET head == Size - b.st IN
    IF head >= n THEN CopyOut(b.buf, b.st, n)
    ELSE CopyOut(b.buf, b.st, head) \o CopyOut(b.buf, 0, n - head)

ConsumeRingBuffer(b, n) ==
    [b EXCEPT !.st = IF Size - b.st >= n THEN Advance(@, n)
                     ELSE n - (Size - b.st)]

-----------------------------------------------------------------------------
\* alloc_ring_buffer: malloc leaves the array with arbitrary contents.
Init ==
    /\ r \in [buf : [Index -> Byte], st : {0}, ed : {0}]
    /\ ret = Reply(0, <<>>)

Push(data) ==
    IF Len(data) > BufferFreeSize(r)
    THEN ret' = Reply(-1, <<>>) /\ UNCHANGED r
    ELSE ret' = Reply(0, <<>>) /\ r' = PushRingBuffer(r, data)

Get(offset, size) ==
    /\ ret' = Reply(Len(GetRingBuffer(r, offset, size)),
                    GetRingBuffer(r, offset, size))
    /\ UNCHANGED r

Consume(size) ==
    LET n == Consumable(r, size) IN
    /\ ret' = Reply(n, ConsumedBytes(r, n))
    /\ r' = ConsumeRingBuffer(r, n)

Next ==
    \/ \E data \in Chunks : Push(data)
    \/ \E offset, size \in Lengths : Get(offset, size)
    \/ \E size \in Lengths : Consume(size)

Spec == Init /\ [][Next]_vars

-----------------------------------------------------------------------------
Structs == [buf : [Index -> Byte], st : Index, ed : Index]

\* The struct keeps its shape: both indexes stay inside the array and every
\* slot holds a byte (ring_buffer.c: no memcpy leaves the allocation).
TypeOK ==
    /\ r \in Structs
    /\ ret \in [n : Int, data : Seq(Byte)]

\* The queue the struct stands for.
Contents(b) == [i \in 1 .. BufferSize(b) |-> b.buf[(b.st + i - 1) % Size]]

Queue == INSTANCE ByteQueue WITH q <- Contents(r), Capacity <- Size - 1

\* Every call of ring_buffer.c behaves as the call of a bounded queue of
\* Size - 1 bytes, whatever the wrap-around: nothing is lost, reordered,
\* duplicated or overwritten, and the bytes copied out are the right ones.
ImplementsQueue == Queue!Spec
=============================================================================
