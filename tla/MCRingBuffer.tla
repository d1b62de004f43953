---------------------------- MODULE MCRingBuffer ----------------------------
\* Model-checking instance of RingBuffer: chunks long enough to wrap and one
\* too long to fit; sizes and offsets on both sides of what is held.
EXTENDS RingBuffer

MCBytes == {0, 1}

MCLengths == 0 .. Size

MCChunks == UNION {[1 .. n -> Byte] : n \in 0 .. Size}

=============================================================================
