SPECIFICATION Spec
CONSTANTS
    Size = 4
    Byte <- MCBytes
    Chunks <- MCChunks
    Lengths <- MCLengths
INVARIANT TypeOK
PROPERTY ImplementsQueue
