-------------------------- MODULE RingBufferProofs --------------------------
(***************************************************************************)
(* For every buffer size: the ring buffer keeps its shape and implements   *)
(* the bounded queue ByteQueue.  The argument is one lemma per operation   *)
(* that relates the bytes in the array before and after it, byte by byte.  *)
(* The remainder is eliminated first (WrapForward, WrapBackward), which    *)
(* leaves linear arithmetic.                                               *)
(***************************************************************************)
EXTENDS RingBuffer, SequenceTheorems, TLAPS

\* The masked operations without the mask: an index after at most one turn,
\* and the distance from st to ed.
Wrap(x) == IF x < Size THEN x ELSE x - Size

Span(st, ed) == IF ed >= st THEN ed - st ELSE ed - st + Size

\* The slot of the i-th byte held.
Slot(b, i) == Wrap(b.st + i - 1)

\* Which byte of a chunk of n bytes written from slot ed lands in slot s,
\* around the end of the array when needed; 0 when none does.
ByteFor(ed, n, s) ==
    IF s >= ed /\ s < ed + n THEN s - ed + 1
    ELSE IF s + Size < ed + n THEN s + Size - ed + 1 ELSE 0

-----------------------------------------------------------------------------
\* An index that moved forward by less than one turn wraps at most once.
LEMMA WrapForward ==
    ASSUME NEW x \in 0 .. 2 * Size - 1
    PROVE  x % Size = Wrap(x) /\ Wrap(x) \in Index
BY SizeAssumption DEF Wrap, Index

\* A difference of two indexes, the free slot included, wraps at most once.
LEMMA WrapBackward ==
    ASSUME NEW x \in -Size .. Size - 1
    PROVE  x % Size = IF x < 0 THEN x + Size ELSE x
BY SizeAssumption

\* A function on 1..n is a sequence of length n.
LEMMA FunctionIsSeq ==
    ASSUME NEW S, NEW n \in Nat, NEW f \in [1 .. n -> S]
    PROVE  f \in Seq(S) /\ Len(f) = n
<1>1. f \in Seq(S)
  BY SeqDef
<1> QED
  BY <1>1, LenProperties

\* get_buffer_size and get_buffer_free_size without the mask: they add up to
\* one less than the bytes allocated.
LEMMA BufferSizes ==
    ASSUME NEW b \in Structs
    PROVE  /\ BufferSize(b) = Span(b.st, b.ed)
           /\ BufferSize(b) \in Index
           /\ BufferFreeSize(b) = Size - 1 - BufferSize(b)
<1>1. b.st \in Index /\ b.ed \in Index
  BY DEF Structs
<1>2. BufferSize(b) = Span(b.st, b.ed)
  BY <1>1, SizeAssumption, WrapBackward DEF BufferSize, Index, Span
<1>3. BufferFreeSize(b) = IF b.st - b.ed - 1 < 0 THEN b.st - b.ed - 1 + Size
                                                 ELSE b.st - b.ed - 1
  BY <1>1, SizeAssumption, WrapBackward DEF BufferFreeSize, Index
<1> QED
  BY <1>1, <1>2, <1>3, SizeAssumption DEF Index, Span

\* The contents as a sequence: its length, and where each byte lives.
LEMMA ContentsProperties ==
    ASSUME NEW b \in Structs
    PROVE  /\ Contents(b) \in Seq(Byte)
           /\ Len(Contents(b)) = BufferSize(b)
           /\ \A i \in 1 .. BufferSize(b) :
                  Slot(b, i) \in Index /\ Contents(b)[i] = b.buf[Slot(b, i)]
<1>1. b.st \in Index /\ b.ed \in Index /\ b.buf \in [Index -> Byte]
  BY DEF Structs
<1>2. BufferSize(b) \in Index /\ BufferSize(b) \in Nat
  BY BufferSizes, SizeAssumption DEF Index
<1>3. ASSUME NEW i \in 1 .. BufferSize(b)
      PROVE  (b.st + i - 1) % Size = Slot(b, i) /\ Slot(b, i) \in Index
  <2>1. b.st + i - 1 \in 0 .. 2 * Size - 1
    BY <1>1, <1>2, SizeAssumption DEF Index
  <2> QED
    BY <2>1, WrapForward DEF Slot
<1>4. Contents(b) \in [1 .. BufferSize(b) -> Byte]
  BY <1>1, <1>3 DEF Contents
<1> QED
  BY <1>2, <1>3, <1>4, FunctionIsSeq DEF Contents

\* memcpy into the array changes the range copied to, and nothing else.
LEMMA CopyInProperties ==
    ASSUME NEW buf \in [Index -> Byte], NEW data \in Seq(Byte), NEW at \in Nat
    PROVE  /\ CopyIn(buf, at, data) \in [Index -> Byte]
           /\ \A s \in Index :
                  CopyIn(buf, at, data)[s] =
                      IF s >= at /\ s < at + Len(data)
                      THEN data[s - at + 1] ELSE buf[s]
<1>1. Len(data) \in Nat /\ \A i \in 1 .. Len(data) : data[i] \in Byte
  BY LenProperties
<1>2. Index \subseteq Int
  BY SizeAssumption DEF Index
<1>3. ASSUME NEW s \in Index, s >= at /\ s < at + Len(data)
      PROVE  data[s - at + 1] \in Byte
  <2>1. s - at + 1 \in 1 .. Len(data)
    BY <1>1, <1>2, <1>3
  <2> QED
    BY <1>1, <2>1
<1> QED
  BY <1>3 DEF CopyIn

\* memcpy out of a range inside the array returns that range.
LEMMA CopyOutProperties ==
    ASSUME NEW buf \in [Index -> Byte], NEW at \in Nat, NEW n \in Nat,
           at + n <= Size
    PROVE  /\ CopyOut(buf, at, n) \in Seq(Byte)
           /\ Len(CopyOut(buf, at, n)) = n
           /\ \A i \in 1 .. n : CopyOut(buf, at, n)[i] = buf[at + i - 1]
<1>1. \A i \in 1 .. n : at + i - 1 \in Index
  BY SizeAssumption DEF Index
<1>2. CopyOut(buf, at, n) \in [1 .. n -> Byte]
  BY <1>1 DEF CopyOut
<1> QED
  BY <1>2, FunctionIsSeq DEF CopyOut

-----------------------------------------------------------------------------
\* What push_ring_buffer writes, in both of its cases.
LEMMA PushedStruct ==
    ASSUME NEW b \in Structs, NEW data \in Seq(Byte),
           Len(data) <= BufferFreeSize(b)
    PROVE  LET c == PushRingBuffer(b, data)
               n == Len(data)
           IN  /\ c \in Structs
               /\ c.st = b.st
               /\ c.ed = Wrap(b.ed + n)
               /\ \A s \in Index :
                      c.buf[s] = IF ByteFor(b.ed, n, s) = 0 THEN b.buf[s]
                                 ELSE data[ByteFor(b.ed, n, s)]
<1> DEFINE c == PushRingBuffer(b, data)
           n == Len(data)
           head == Size - b.ed
<1>1. /\ b.st \in Index /\ b.ed \in Index /\ b.buf \in [Index -> Byte]
      /\ b = [buf |-> b.buf, st |-> b.st, ed |-> b.ed]
  BY DEF Structs
<1>2. n \in Nat /\ n < Size /\ \A i \in 1 .. n : data[i] \in Byte
  BY BufferSizes, SizeAssumption, LenProperties DEF Index
<1>3. Index \subseteq Nat /\ Size \in Nat /\ \A s \in Index : s < Size
  BY SizeAssumption DEF Index
<1>4. head \in Nat /\ head > 0 /\ b.ed \in Nat /\ b.ed < Size
  BY <1>1, <1>3
<1>5. b.ed + n \in 0 .. 2 * Size - 1
  BY <1>2, <1>3, <1>4
<1>6. (b.ed + n) % Size = Wrap(b.ed + n) /\ Wrap(b.ed + n) \in Index
  BY <1>5, WrapForward
<1>7. CASE head >= n
  <2>1. c = [buf |-> CopyIn(b.buf, b.ed, data), st |-> b.st,
             ed |-> Wrap(b.ed + n)]
    BY <1>1, <1>6, <1>7 DEF PushRingBuffer, Advance
  <2>2. /\ CopyIn(b.buf, b.ed, data) \in [Index -> Byte]
        /\ \A s \in Index :
               CopyIn(b.buf, b.ed, data)[s] =
                   IF s >= b.ed /\ s < b.ed + n
                   THEN data[s - b.ed + 1] ELSE b.buf[s]
    BY <1>1, <1>4, CopyInProperties
  <2>3. \A s \in Index :
            ByteFor(b.ed, n, s) = IF s >= b.ed /\ s < b.ed + n
                                  THEN s - b.ed + 1 ELSE 0
    BY <1>2, <1>3, <1>4, <1>7 DEF ByteFor
  <2>4. ASSUME NEW s \in Index
        PROVE  c.buf[s] = IF ByteFor(b.ed, n, s) = 0 THEN b.buf[s]
                          ELSE data[ByteFor(b.ed, n, s)]
    <3>1. s \in Nat
      BY <1>3
    <3>2. CASE s >= b.ed /\ s < b.ed + n
      <4>1. ByteFor(b.ed, n, s) = s - b.ed + 1 /\ s - b.ed + 1 # 0
        BY <3>1, <3>2, <2>3, <1>2, <1>4
      <4> QED
        BY <4>1, <3>2, <2>1, <2>2
    <3>3. CASE ~(s >= b.ed /\ s < b.ed + n)
      BY <3>3, <2>1, <2>2, <2>3
    <3> QED
      BY <3>2, <3>3
  <2>5. c \in Structs
    BY <1>1, <1>6, <2>1, <2>2 DEF Structs
  <2>6. c.st = b.st /\ c.ed = Wrap(b.ed + n)
    BY <2>1
  <2> QED
    BY <2>4, <2>5, <2>6
<1>8. CASE ~(head >= n)
  <2> DEFINE front == SubSeq(data, 1, head)
             back == SubSeq(data, head + 1, n)
             once == CopyIn(b.buf, b.ed, front)
             twice == CopyIn(once, 0, back)
  <2>1. /\ front \in Seq(Byte) /\ Len(front) = head
        /\ \A i \in 1 .. head : front[i] = data[i]
    BY <1>2, <1>4, <1>8, SubSeqProperties
  <2>2. /\ back \in Seq(Byte) /\ Len(back) = n - head
        /\ \A i \in 1 .. n - head : back[i] = data[head + i]
    BY <1>2, <1>4, <1>8, SubSeqProperties
  <2>3. /\ once \in [Index -> Byte]
        /\ \A s \in Index :
               once[s] = IF s >= b.ed /\ s < b.ed + head
                         THEN front[s - b.ed + 1] ELSE b.buf[s]
    <3> HIDE DEF front
    <3> QED
      BY <1>1, <1>4, <2>1, CopyInProperties
  <2>4. /\ twice \in [Index -> Byte]
        /\ \A s \in Index :
               twice[s] = IF s >= 0 /\ s < 0 + (n - head)
                          THEN back[s - 0 + 1] ELSE once[s]
    <3> HIDE DEF back, once
    <3> QED
      BY <2>2, <2>3, CopyInProperties
  <2>5. c = [buf |-> twice, st |-> b.st, ed |-> n - head]
    BY <1>1, <1>8 DEF PushRingBuffer
  <2>6. n - head \in Index /\ n - head < b.ed /\ n - head = Wrap(b.ed + n)
    BY <1>2, <1>3, <1>4, <1>8, SizeAssumption DEF Index, Wrap
  <2>7. c \in Structs
    BY <1>1, <2>4, <2>5, <2>6 DEF Structs
  <2>8. ASSUME NEW s \in Index
        PROVE  twice[s] = IF ByteFor(b.ed, n, s) = 0 THEN b.buf[s]
                          ELSE data[ByteFor(b.ed, n, s)]
    <3> HIDE DEF once, twice, front, back
    <3>1. s \in Nat /\ s < Size
      BY <1>3
    <3>2. CASE s >= b.ed
      <4>1. /\ s - b.ed + 1 \in 1 .. head /\ s < b.ed + head
            /\ ByteFor(b.ed, n, s) = s - b.ed + 1
        BY <3>1, <3>2, <1>2, <1>3, <1>4, <1>8 DEF ByteFor
      <4>2. ~(s < 0 + (n - head))
        BY <3>1, <3>2, <2>6, <1>2, <1>3, <1>4
      <4>3. s - b.ed + 1 # 0
        BY <3>1, <3>2, <1>4
      <4> QED
        BY <4>1, <4>2, <4>3, <3>2, <2>1, <2>3, <2>4
    <3>3. CASE ~(s >= b.ed) /\ s < n - head
      <4>1. /\ s + 1 \in 1 .. n - head
            /\ ByteFor(b.ed, n, s) = head + (s + 1)
            /\ head + (s + 1) # 0
        <5>1. s + Size < b.ed + n /\ s + Size - b.ed + 1 = head + (s + 1)
          BY <3>1, <3>3, <1>2, <1>3, <1>4, <1>8
        <5>2. s + 1 \in 1 .. n - head /\ head + (s + 1) # 0
          BY <3>1, <3>3, <1>2, <1>3, <1>4, <1>8
        <5> QED
          BY <5>1, <5>2, <3>3 DEF ByteFor
      <4>2. twice[s] = back[s + 1]
        BY <3>1, <3>3, <2>4, <1>2, <1>3, <1>4
      <4> QED
        BY <4>1, <4>2, <2>2
    <3>4. CASE ~(s >= b.ed) /\ ~(s < n - head)
      <4>1. ByteFor(b.ed, n, s) = 0
        BY <3>1, <3>4, <1>2, <1>3, <1>4 DEF ByteFor
      <4>2. twice[s] = once[s] /\ once[s] = b.buf[s]
        BY <3>1, <3>4, <2>3, <2>4, <1>2, <1>3, <1>4
      <4> QED
        BY <4>1, <4>2
    <3> QED
      BY <3>2, <3>3, <3>4
  <2> QED
    BY <2>5, <2>6, <2>7, <2>8
<1> QED
  BY <1>7, <1>8

\* The arithmetic of appending: with k bytes held and room for n more, the
\* span grows by n, and the slot of the i-th byte gets none of the chunk for
\* i <= k and its (i - k)-th byte for the others.
LEMMA AppendArithmetic ==
    ASSUME NEW st \in Index, NEW ed \in Index, NEW n \in Nat,
           Span(st, ed) + n <= Size - 1
    PROVE  LET k == Span(st, ed) IN
           /\ Span(st, Wrap(ed + n)) = k + n
           /\ \A i \in 1 .. k + n :
                  ByteFor(ed, n, Wrap(st + i - 1)) = IF i <= k THEN 0 ELSE i - k
BY SizeAssumption DEF Span, Wrap, ByteFor, Index

\* push_ring_buffer appends the chunk to what is held.
LEMMA PushAppends ==
    ASSUME NEW b \in Structs, NEW data \in Seq(Byte),
           Len(data) <= BufferFreeSize(b)
    PROVE  Contents(PushRingBuffer(b, data)) = Contents(b) \o data
<1> DEFINE c == PushRingBuffer(b, data)
           n == Len(data)
           k == BufferSize(b)
<1>1. /\ c \in Structs
      /\ c.st = b.st
      /\ c.ed = Wrap(b.ed + n)
      /\ \A s \in Index : c.buf[s] = IF ByteFor(b.ed, n, s) = 0 THEN b.buf[s]
                                     ELSE data[ByteFor(b.ed, n, s)]
  BY PushedStruct
<1>2. b.st \in Index /\ b.ed \in Index
  BY DEF Structs
<1>3. /\ k = Span(b.st, b.ed) /\ k \in Nat
      /\ n \in Nat /\ k + n <= Size - 1
  BY BufferSizes, LenProperties, SizeAssumption DEF Index
<1> HIDE DEF c, k, n
<1>4. /\ Span(b.st, Wrap(b.ed + n)) = k + n
      /\ \A i \in 1 .. k + n :
             ByteFor(b.ed, n, Wrap(b.st + i - 1)) = IF i <= k THEN 0 ELSE i - k
  BY <1>2, <1>3, AppendArithmetic
<1>5. /\ Contents(b) \in Seq(Byte) /\ Len(Contents(b)) = k
      /\ \A i \in 1 .. k : Contents(b)[i] = b.buf[Slot(b, i)]
  BY ContentsProperties DEF k
<1>6. /\ Contents(c) \in Seq(Byte) /\ Len(Contents(c)) = k + n
      /\ \A i \in 1 .. k + n : Slot(c, i) \in Index
                                /\ Contents(c)[i] = c.buf[Slot(c, i)]
  BY <1>1, <1>4, ContentsProperties, BufferSizes
<1>7. /\ Contents(b) \o data \in Seq(Byte)
      /\ Len(Contents(b) \o data) = k + n
      /\ \A i \in 1 .. k + n :
             (Contents(b) \o data)[i] = IF i <= k THEN Contents(b)[i]
                                                  ELSE data[i - k]
  <2>1. LET q == Contents(b) IN
        /\ q \o data \in Seq(Byte)
        /\ Len(q \o data) = Len(q) + Len(data)
        /\ \A i \in 1 .. Len(q) + Len(data) :
               (q \o data)[i] = IF i <= Len(q) THEN q[i] ELSE data[i - Len(q)]
    BY <1>5, ConcatProperties
  <2> QED
    BY <1>3, <1>5, <2>1 DEF n
<1>8. ASSUME NEW i \in 1 .. k + n
      PROVE  Contents(c)[i] = (Contents(b) \o data)[i]
  <2>1. i \in Nat /\ 1 <= i /\ i <= k + n
    BY <1>3
  <2>2. Slot(c, i) = Slot(b, i) /\ Slot(b, i) \in Index
    BY <1>1, <1>6 DEF Slot
  <2>3. ByteFor(b.ed, n, Slot(b, i)) = IF i <= k THEN 0 ELSE i - k
    BY <1>4 DEF Slot
  <2>4. CASE i <= k
    <3>1. c.buf[Slot(b, i)] = b.buf[Slot(b, i)]
      BY <2>2, <2>3, <2>4, <1>1
    <3>2. i \in 1 .. k
      BY <2>1, <2>4, <1>3
    <3> QED
      BY <2>2, <2>4, <3>1, <3>2, <1>5, <1>6, <1>7
  <2>5. CASE ~(i <= k)
    <3>1. i - k # 0
      BY <2>1, <2>5, <1>3
    <3>2. c.buf[Slot(b, i)] = data[i - k]
      BY <2>2, <2>3, <2>5, <3>1, <1>1
    <3> QED
      BY <2>2, <2>5, <3>2, <1>6, <1>7
  <2> QED
    BY <2>4, <2>5
<1>9. Contents(c) = Contents(b) \o data
  BY <1>6, <1>7, <1>8, SeqEqual
<1> QED
  BY <1>9 DEF c

-----------------------------------------------------------------------------
\* Reading m bytes from position p on, p at most one turn past the start of
\* the array: in one copy when they lie before or after the end of the array,
\* in two when the end splits them.
WrappedRange(b, p, m) ==
    IF Size >= p + m THEN CopyOut(b.buf, p, m)
    ELSE IF p < Size
    THEN CopyOut(b.buf, p, Size - p) \o CopyOut(b.buf, 0, m - (Size - p))
    ELSE CopyOut(b.buf, p - Size, m)

LEMMA WrappedRangeProperties ==
    ASSUME NEW b \in Structs, NEW p \in Nat, NEW m \in Nat, p + m <= 2 * Size
    PROVE  /\ WrappedRange(b, p, m) \in Seq(Byte)
           /\ Len(WrappedRange(b, p, m)) = m
           /\ \A i \in 1 .. m :
                  WrappedRange(b, p, m)[i] = b.buf[Wrap(p + i - 1)]
<1>1. b.buf \in [Index -> Byte] /\ Size \in Nat
  BY SizeAssumption DEF Structs
<1>2. CASE Size >= p + m
  <2>1. WrappedRange(b, p, m) = CopyOut(b.buf, p, m)
    BY <1>2 DEF WrappedRange
  <2>2. \A i \in 1 .. m : Wrap(p + i - 1) = p + i - 1
    BY <1>1, <1>2 DEF Wrap
  <2>3. /\ CopyOut(b.buf, p, m) \in Seq(Byte)
        /\ Len(CopyOut(b.buf, p, m)) = m
        /\ \A i \in 1 .. m : CopyOut(b.buf, p, m)[i] = b.buf[p + i - 1]
    BY <1>1, <1>2, CopyOutProperties
  <2> QED
    BY <2>1, <2>2, <2>3
<1>3. CASE ~(Size >= p + m) /\ p < Size
  <2> DEFINE head == Size - p
             front == CopyOut(b.buf, p, head)
             back == CopyOut(b.buf, 0, m - head)
  <2>1. head \in Nat /\ p + head <= Size /\ m - head \in Nat
        /\ 0 + (m - head) <= Size
    BY <1>1, <1>3
  <2>2. WrappedRange(b, p, m) = front \o back
    BY <1>3 DEF WrappedRange
  <2>3. /\ front \in Seq(Byte) /\ Len(front) = head
        /\ \A i \in 1 .. head : front[i] = b.buf[p + i - 1]
    <3> HIDE DEF head
    <3> QED
      BY <1>1, <2>1, CopyOutProperties
  <2>4. /\ back \in Seq(Byte) /\ Len(back) = m - head
        /\ \A i \in 1 .. m - head : back[i] = b.buf[0 + i - 1]
    <3> HIDE DEF head
    <3> QED
      BY <1>1, <2>1, CopyOutProperties
  <2> HIDE DEF front, back
  <2>5. /\ front \o back \in Seq(Byte) /\ Len(front \o back) = head + (m - head)
        /\ \A i \in 1 .. head + (m - head) :
               (front \o back)[i] = IF i <= head THEN front[i] ELSE back[i - head]
    <3>1. /\ front \o back \in Seq(Byte)
          /\ Len(front \o back) = Len(front) + Len(back)
          /\ \A i \in 1 .. Len(front) + Len(back) :
                 (front \o back)[i] = IF i <= Len(front) THEN front[i]
                                      ELSE back[i - Len(front)]
      BY <2>3, <2>4, ConcatProperties
    <3> QED
      BY <2>1, <2>3, <2>4, <3>1
  <2>6. head + (m - head) = m
    BY <2>1
  <2>7. ASSUME NEW i \in 1 .. m
        PROVE  (front \o back)[i] = b.buf[Wrap(p + i - 1)]
    <3>1. CASE i <= head
      <4>1. i \in 1 .. head /\ Wrap(p + i - 1) = p + i - 1
        BY <1>1, <2>1, <3>1 DEF Wrap
      <4> QED
        BY <2>3, <2>5, <2>6, <3>1, <4>1
    <3>2. CASE ~(i <= head)
      <4>1. i - head \in 1 .. m - head
            /\ Wrap(p + i - 1) = 0 + (i - head) - 1
        BY <1>1, <2>1, <3>2 DEF Wrap
      <4> QED
        BY <2>4, <2>5, <2>6, <3>2, <4>1
    <3> QED
      BY <3>1, <3>2
  <2> QED
    BY <2>2, <2>5, <2>6, <2>7
<1>4. CASE ~(Size >= p + m) /\ ~(p < Size)
  <2>1. WrappedRange(b, p, m) = CopyOut(b.buf, p - Size, m)
    BY <1>4 DEF WrappedRange
  <2>2. \A i \in 1 .. m : Wrap(p + i - 1) = (p - Size) + i - 1
    BY <1>1, <1>4 DEF Wrap
  <2>3. p - Size \in Nat /\ (p - Size) + m <= Size
    BY <1>1, <1>4
  <2>4. /\ CopyOut(b.buf, p - Size, m) \in Seq(Byte)
        /\ Len(CopyOut(b.buf, p - Size, m)) = m
        /\ \A i \in 1 .. m :
               CopyOut(b.buf, p - Size, m)[i] = b.buf[(p - Size) + i - 1]
    BY <1>1, <2>3, CopyOutProperties
  <2> QED
    BY <2>1, <2>2, <2>4
<1> QED
  BY <1>2, <1>3, <1>4

\* A range of the held bytes, read from the array, is the range of the
\* contents.
LEMMA RangeIsSubSeq ==
    ASSUME NEW b \in Structs, NEW k \in Nat, NEW m \in Nat,
           k + m <= BufferSize(b)
    PROVE  WrappedRange(b, b.st + k, m) = SubSeq(Contents(b), k + 1, k + m)
<1> DEFINE out == WrappedRange(b, b.st + k, m)
           sub == SubSeq(Contents(b), k + 1, k + m)
<1>1. b.st \in Nat /\ b.st < Size /\ Size \in Nat
      /\ BufferSize(b) \in Nat /\ BufferSize(b) < Size
  BY BufferSizes, SizeAssumption DEF Structs, Index
<1>2. b.st + k \in Nat /\ b.st + k + m <= 2 * Size
  BY <1>1
<1>3. /\ out \in Seq(Byte) /\ Len(out) = m
      /\ \A i \in 1 .. m : out[i] = b.buf[Wrap(b.st + k + i - 1)]
  BY <1>2, WrappedRangeProperties
<1>4. /\ Contents(b) \in Seq(Byte) /\ Len(Contents(b)) = BufferSize(b)
      /\ \A i \in 1 .. BufferSize(b) : Contents(b)[i] = b.buf[Slot(b, i)]
  BY ContentsProperties
<1>5. \A i \in 1 .. BufferSize(b) : Contents(b)[i] \in Byte
  BY <1>4, LenProperties
<1>6. \A i \in k + 1 .. k + m : Contents(b)[i] \in Byte
  BY <1>1, <1>5
<1>7. /\ sub \in Seq(Byte) /\ Len(sub) = m
      /\ \A i \in 1 .. m : sub[i] = Contents(b)[k + 1 + i - 1]
  BY <1>6, SubSeqProperties
<1>8. ASSUME NEW i \in 1 .. m
      PROVE  out[i] = sub[i]
  <2>1. k + 1 + i - 1 \in 1 .. BufferSize(b)
        /\ b.st + (k + 1 + i - 1) - 1 = b.st + k + i - 1
    BY <1>1
  <2>2. Contents(b)[k + 1 + i - 1] = b.buf[Wrap(b.st + k + i - 1)]
    BY <1>4, <2>1 DEF Slot
  <2> QED
    BY <1>3, <1>7, <2>2
<1> HIDE DEF out, sub
<1>9. out = sub
  BY <1>3, <1>7, <1>8, SeqEqual
<1> QED
  BY <1>9 DEF out, sub

\* get_ring_buffer returns the window of the contents that was asked for.
LEMMA GetReturnsWindow ==
    ASSUME NEW b \in Structs, NEW offset \in Nat, NEW size \in Nat
    PROVE  /\ GetRingBuffer(b, offset, size)
                = Queue!Window(Contents(b), offset, size)
           /\ GetRingBuffer(b, offset, size) \in Seq(Byte)
<1> DEFINE held == BufferSize(b)
           m == IF size + offset > held THEN held - offset ELSE size
           last == IF offset + size > held THEN held ELSE offset + size
<1>1. b.st \in Nat /\ b.st < Size /\ Size \in Nat
      /\ held \in Nat /\ held < Size
  BY BufferSizes, SizeAssumption DEF Structs, Index
<1>2. Contents(b) \in Seq(Byte) /\ Len(Contents(b)) = held
  BY ContentsProperties
<1>3. Queue!Window(Contents(b), offset, size)
        = SubSeq(Contents(b), offset + 1, last)
  BY <1>2 DEF Queue!Window
<1>4. CASE offset >= held
  <2>1. GetRingBuffer(b, offset, size) = <<>>
    BY <1>4 DEF GetRingBuffer
  <2>2. last \in Int /\ offset + 1 \in Int /\ last < offset + 1
    BY <1>1, <1>4
  <2>3. SubSeq(Contents(b), offset + 1, last) = <<>>
    <3> HIDE DEF last
    <3> QED
      BY <2>2, SubSeqEmpty
  <2>4. <<>> \in Seq(Byte)
    BY EmptySeq
  <2> QED
    BY <1>3, <2>1, <2>3, <2>4
<1>5. CASE ~(offset >= held)
  <2>1. m \in Nat /\ offset + m = last /\ offset + m <= held
    BY <1>1, <1>5
  <2>2. GetRingBuffer(b, offset, size) =
            IF Size >= b.st + m + offset THEN CopyOut(b.buf, b.st + offset, m)
            ELSE IF b.st + offset < Size
            THEN CopyOut(b.buf, b.st + offset, Size - b.st - offset)
                   \o CopyOut(b.buf, 0, m - (Size - b.st - offset))
            ELSE CopyOut(b.buf, b.st + offset - Size, m)
    BY <1>5 DEF GetRingBuffer
  <2> HIDE DEF m, last, held
  <2>3. b.st + m + offset = b.st + offset + m
        /\ Size - b.st - offset = Size - (b.st + offset)
    BY <1>1, <2>1
  <2>4. GetRingBuffer(b, offset, size) = WrappedRange(b, b.st + offset, m)
    BY <2>1, <2>2, <2>3, <1>1 DEF WrappedRange
  <2>5. WrappedRange(b, b.st + offset, m) = SubSeq(Contents(b), offset + 1, last)
    BY <2>1, RangeIsSubSeq DEF held
  <2>6. b.st + offset \in Nat /\ b.st + offset + m <= 2 * Size
    BY <1>1, <2>1
  <2>7. WrappedRange(b, b.st + offset, m) \in Seq(Byte)
    BY <2>1, <2>6, WrappedRangeProperties
  <2> QED
    BY <1>3, <2>4, <2>5, <2>7
<1> QED
  BY <1>4, <1>5

\* The arithmetic of consuming: the span shrinks by n and the slots that
\* stay are the old ones.
LEMMA ConsumeArithmetic ==
    ASSUME NEW st \in Index, NEW ed \in Index, NEW n \in Nat,
           n <= Span(st, ed)
    PROVE  /\ Span(Wrap(st + n), ed) = Span(st, ed) - n
           /\ \A i \in 1 .. Span(st, ed) - n :
                  Wrap(Wrap(st + n) + i - 1) = Wrap(st + (n + i) - 1)
           /\ (IF Size - st >= n THEN Wrap(st + n) ELSE n - (Size - st))
                = Wrap(st + n)
           /\ st + n \in 0 .. 2 * Size - 1
BY SizeAssumption DEF Span, Wrap, Index

\* consume_ring_buffer returns the first bytes held and leaves the others.
LEMMA ConsumeDropsPrefix ==
    ASSUME NEW b \in Structs, NEW n \in Nat, n <= BufferSize(b)
    PROVE  /\ ConsumeRingBuffer(b, n) \in Structs
           /\ ConsumedBytes(b, n) = SubSeq(Contents(b), 1, n)
           /\ ConsumedBytes(b, n) \in Seq(Byte)
           /\ Len(ConsumedBytes(b, n)) = n
           /\ Contents(ConsumeRingBuffer(b, n))
                = SubSeq(Contents(b), n + 1, Len(Contents(b)))
<1> DEFINE c == ConsumeRingBuffer(b, n)
           k == BufferSize(b)
<1>1. /\ b.st \in Index /\ b.ed \in Index /\ b.buf \in [Index -> Byte]
      /\ b = [buf |-> b.buf, st |-> b.st, ed |-> b.ed]
      /\ b.st \in Nat /\ b.st < Size /\ Size \in Nat
  BY SizeAssumption DEF Structs, Index
<1>2. k = Span(b.st, b.ed) /\ k \in Nat /\ k < Size
  BY BufferSizes, SizeAssumption DEF Index
<1>3. /\ Span(Wrap(b.st + n), b.ed) = k - n
      /\ \A i \in 1 .. k - n : Wrap(Wrap(b.st + n) + i - 1) = Wrap(b.st + (n + i) - 1)
      /\ (IF Size - b.st >= n THEN Wrap(b.st + n) ELSE n - (Size - b.st))
           = Wrap(b.st + n)
      /\ b.st + n \in 0 .. 2 * Size - 1
  BY <1>1, <1>2, ConsumeArithmetic
<1>4. (b.st + n) % Size = Wrap(b.st + n) /\ Wrap(b.st + n) \in Index
  BY <1>3, WrapForward
<1>5. c = [buf |-> b.buf, st |-> Wrap(b.st + n), ed |-> b.ed]
  BY <1>1, <1>3, <1>4 DEF ConsumeRingBuffer, Advance
<1>6. c \in Structs
  BY <1>1, <1>4, <1>5 DEF Structs
<1>7. ConsumedBytes(b, n) = SubSeq(Contents(b), 1, n)
      /\ ConsumedBytes(b, n) \in Seq(Byte) /\ Len(ConsumedBytes(b, n)) = n
  <2>1. b.st + 0 = b.st /\ b.st + n <= 2 * Size /\ 0 + n = n /\ 0 + 1 = 1
        /\ (Size - b.st >= n <=> Size >= b.st + n)
    BY <1>1, <1>2
  <2>2. ConsumedBytes(b, n) = WrappedRange(b, b.st, n)
    BY <1>1, <2>1 DEF ConsumedBytes, WrappedRange
  <2>3. WrappedRange(b, b.st + 0, n) = SubSeq(Contents(b), 0 + 1, 0 + n)
    BY <2>1, RangeIsSubSeq
  <2>4. WrappedRange(b, b.st, n) \in Seq(Byte) /\ Len(WrappedRange(b, b.st, n)) = n
    BY <1>1, <2>1, WrappedRangeProperties
  <2> QED
    BY <2>1, <2>2, <2>3, <2>4
<1>8. Contents(c) = SubSeq(Contents(b), n + 1, Len(Contents(b)))
  <2> DEFINE sub == SubSeq(Contents(b), n + 1, k)
  <2>1. /\ Contents(b) \in Seq(Byte) /\ Len(Contents(b)) = k
        /\ \A i \in 1 .. k : Contents(b)[i] = b.buf[Slot(b, i)]
    BY ContentsProperties
  <2>2. \A i \in 1 .. k : Contents(b)[i] \in Byte
    BY <2>1, LenProperties
  <2>3. \A i \in n + 1 .. k : Contents(b)[i] \in Byte
    BY <1>2, <2>2
  <2>4. /\ sub \in Seq(Byte) /\ Len(sub) = k - n
        /\ \A i \in 1 .. k - n : sub[i] = Contents(b)[n + 1 + i - 1]
    BY <1>2, <2>3, SubSeqProperties
  <2>5. BufferSize(c) = k - n
    BY <1>3, <1>5, <1>6, BufferSizes
  <2>6. /\ Contents(c) \in Seq(Byte) /\ Len(Contents(c)) = k - n
        /\ \A i \in 1 .. k - n : Contents(c)[i] = c.buf[Slot(c, i)]
    BY <1>6, <2>5, ContentsProperties
  <2> HIDE DEF c, k, sub
  <2>7. ASSUME NEW i \in 1 .. k - n
        PROVE  Contents(c)[i] = sub[i]
    <3>1. n + 1 + i - 1 \in 1 .. k /\ n + 1 + i - 1 = n + i
      BY <1>2
    <3>2. Slot(c, i) = Slot(b, n + i)
      BY <1>3, <1>5 DEF Slot
    <3>3. c.buf = b.buf
      BY <1>5
    <3> QED
      BY <2>1, <2>4, <2>6, <3>1, <3>2, <3>3
  <2>8. Contents(c) = sub
    BY <2>4, <2>6, <2>7, SeqEqual
  <2> QED
    BY <2>1, <2>8 DEF sub
<1> QED
  BY <1>6, <1>7, <1>8

-----------------------------------------------------------------------------
\* The struct keeps its shape for every buffer size: no index leaves the
\* array (all of ring_buffer.c).
THEOREM TypeCorrect == Spec => []TypeOK
<1>1. Init => TypeOK
  BY SizeAssumption, EmptySeq DEF Init, TypeOK, Structs, Reply, Index
<1>2. TypeOK /\ [Next]_vars => TypeOK'
  <2> SUFFICES ASSUME TypeOK, [Next]_vars
               PROVE  TypeOK'
    OBVIOUS
  <2>1. r \in Structs
    BY DEF TypeOK
  <2>2. ASSUME NEW data \in Chunks, Push(data)
        PROVE  TypeOK'
    <3>1. data \in Seq(Byte)
      BY CallerAssumption
    <3>2. r' \in Structs
      <4>1. CASE Len(data) > BufferFreeSize(r)
        BY <2>1, <2>2, <4>1 DEF Push
      <4>2. CASE ~(Len(data) > BufferFreeSize(r))
        <5>1. Len(data) \in Int /\ BufferFreeSize(r) \in Int
          BY <2>1, <3>1, BufferSizes, LenProperties, SizeAssumption DEF Index
        <5>2. Len(data) <= BufferFreeSize(r)
          BY <4>2, <5>1
        <5>3. r' = PushRingBuffer(r, data)
          BY <2>2, <4>2 DEF Push
        <5> QED
          BY <2>1, <3>1, <5>2, <5>3, PushedStruct
      <4> QED
        BY <4>1, <4>2
    <3>3. ret' \in [n : Int, data : Seq(Byte)]
      <4>1. ret' = Reply(-1, <<>>) \/ ret' = Reply(0, <<>>)
        BY <2>2 DEF Push
      <4>2. <<>> \in Seq(Byte) /\ -1 \in Int /\ 0 \in Int
        BY EmptySeq
      <4>3. \A n \in Int, d \in Seq(Byte) : Reply(n, d) \in [n : Int, data : Seq(Byte)]
        BY DEF Reply
      <4> QED
        BY <4>1, <4>2, <4>3
    <3> QED
      BY <3>2, <3>3 DEF TypeOK
  <2>3. ASSUME NEW offset \in Lengths, NEW size \in Lengths, Get(offset, size)
        PROVE  TypeOK'
    <3>1. offset \in Nat /\ size \in Nat
      BY CallerAssumption
    <3>2. GetRingBuffer(r, offset, size) \in Seq(Byte)
      BY <2>1, <3>1, GetReturnsWindow
    <3>3. Len(GetRingBuffer(r, offset, size)) \in Int
      BY <3>2, LenProperties
    <3> QED
      BY <2>1, <2>3, <3>2, <3>3 DEF Get, Reply, TypeOK
  <2>4. ASSUME NEW size \in Lengths, Consume(size)
        PROVE  TypeOK'
    <3> DEFINE n == Consumable(r, size)
    <3>1. n \in Nat /\ n <= BufferSize(r)
      BY <2>1, CallerAssumption, BufferSizes, SizeAssumption DEF Consumable, Index
    <3>2. ConsumeRingBuffer(r, n) \in Structs /\ ConsumedBytes(r, n) \in Seq(Byte)
      BY <2>1, <3>1, ConsumeDropsPrefix
    <3> QED
      BY <2>4, <3>1, <3>2 DEF Consume, Reply, TypeOK
  <2>5. CASE UNCHANGED vars
    BY <2>5 DEF vars, TypeOK
  <2> QED
    BY <2>2, <2>3, <2>4, <2>5 DEF Next
<1> QED
  BY <1>1, <1>2, PTL DEF Spec

\* Every call of ring_buffer.c is the call of a bounded queue of Size - 1
\* bytes, for every buffer size and every chunk, offset and length.
THEOREM RingBufferIsQueue == Spec => ImplementsQueue
<1>1. Init => Queue!Init
  <2> SUFFICES ASSUME Init
               PROVE  Queue!Init
    OBVIOUS
  <2>1. r \in Structs /\ r.st = 0 /\ r.ed = 0
    BY SizeAssumption DEF Init, Structs, Index
  <2>2. BufferSize(r) = 0
    BY <2>1, BufferSizes, SizeAssumption DEF Span
  <2>3. Contents(r) \in Seq(Byte) /\ Len(Contents(r)) = 0
    BY <2>1, <2>2, ContentsProperties
  <2>4. Contents(r) = <<>>
    BY <2>3, EmptySeq
  <2> QED
    BY <2>4 DEF Init, Reply, Queue!Init, Queue!Reply
<1>2. TypeOK /\ [Next]_vars => [Queue!Next]_<<Contents(r), ret>>
  <2> SUFFICES ASSUME TypeOK, [Next]_vars
               PROVE  [Queue!Next]_<<Contents(r), ret>>
    OBVIOUS
  <2>1. r \in Structs
    BY DEF TypeOK
  <2>2. Contents(r) \in Seq(Byte) /\ Len(Contents(r)) = BufferSize(r)
        /\ BufferSize(r) \in Nat
    BY <2>1, ContentsProperties, BufferSizes, SizeAssumption DEF Index
  <2>3. ASSUME NEW data \in Chunks, Push(data)
        PROVE  Queue!Next
    <3>1. data \in Seq(Byte) /\ Len(data) \in Nat
      BY CallerAssumption, LenProperties
    <3>2. BufferFreeSize(r) = Size - 1 - Len(Contents(r)) /\ Size \in Nat
      BY <2>1, <2>2, BufferSizes, SizeAssumption
    <3>3. CASE Len(data) > BufferFreeSize(r)
      <4>1. Len(Contents(r)) + Len(data) > Size - 1
        BY <2>2, <3>1, <3>2, <3>3
      <4>2. ret' = Reply(-1, <<>>) /\ Contents(r)' = Contents(r)
        BY <2>3, <3>3 DEF Push
      <4>3. Queue!PushRefused(data)
        BY <4>1, <4>2 DEF Queue!PushRefused, Queue!Reply, Reply
      <4> QED
        BY <4>3 DEF Queue!Next
    <3>4. CASE ~(Len(data) > BufferFreeSize(r))
      <4>1. Len(data) <= BufferFreeSize(r) /\ Len(Contents(r)) + Len(data) <= Size - 1
        BY <2>2, <3>1, <3>2, <3>4
      <4>2. ret' = Reply(0, <<>>) /\ r' = PushRingBuffer(r, data)
        BY <2>3, <3>4 DEF Push
      <4>3. Contents(r)' = Contents(PushRingBuffer(r, data))
        BY <4>2
      <4>4. Contents(r)' = Contents(r) \o data
        BY <2>1, <3>1, <4>1, <4>3, PushAppends
      <4>5. Queue!Push(data)
        BY <4>1, <4>2, <4>4 DEF Queue!Push, Queue!Reply, Reply
      <4> QED
        BY <4>5 DEF Queue!Next
    <3> QED
      BY <3>3, <3>4
  <2>4. ASSUME NEW offset \in Lengths, NEW size \in Lengths, Get(offset, size)
        PROVE  Queue!Next
    <3>1. offset \in Nat /\ size \in Nat
      BY CallerAssumption
    <3>2. GetRingBuffer(r, offset, size) = Queue!Window(Contents(r), offset, size)
      BY <2>1, <3>1, GetReturnsWindow
    <3>3. Contents(r)' = Contents(r)
      BY <2>4 DEF Get
    <3>4. Queue!Get(offset, size)
      BY <2>4, <3>2, <3>3 DEF Get, Reply, Queue!Get, Queue!Reply
    <3> QED
      BY <3>4 DEF Queue!Next
  <2>5. ASSUME NEW size \in Lengths, Consume(size)
        PROVE  Queue!Next
    <3> DEFINE n == Consumable(r, size)
               w == Queue!Window(Contents(r), 0, size)
    <3>1. size \in Nat
      BY CallerAssumption
    <3>2. n \in Nat /\ n <= BufferSize(r)
          /\ n = IF 0 + size > BufferSize(r) THEN BufferSize(r) ELSE 0 + size
      BY <2>2, <3>1 DEF Consumable
    <3>3. w = SubSeq(Contents(r), 1, n)
      BY <2>2, <3>2 DEF Queue!Window
    <3> HIDE DEF n
    <3>4. /\ ConsumedBytes(r, n) = SubSeq(Contents(r), 1, n)
          /\ Len(ConsumedBytes(r, n)) = n
          /\ Contents(ConsumeRingBuffer(r, n))
               = SubSeq(Contents(r), n + 1, Len(Contents(r)))
      BY <2>1, <3>2, ConsumeDropsPrefix
    <3>5. ret' = Reply(n, ConsumedBytes(r, n)) /\ r' = ConsumeRingBuffer(r, n)
      BY <2>5 DEF Consume, n
    <3>6. Contents(r)' = SubSeq(Contents(r), n + 1, Len(Contents(r)))
      BY <3>4, <3>5
    <3>7. Queue!Consume(size)
      BY <3>3, <3>4, <3>5, <3>6 DEF Queue!Consume, Queue!Reply, Reply
    <3> QED
      BY <3>7 DEF Queue!Next
  <2>6. CASE UNCHANGED vars
    BY <2>6 DEF vars
  <2> QED
    BY <2>3, <2>4, <2>5, <2>6 DEF Next
<1> QED
  BY <1>1, <1>2, TypeCorrect, PTL DEF Spec, Queue!Spec, ImplementsQueue
=============================================================================
