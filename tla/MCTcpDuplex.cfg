SPECIFICATION Spec
CONSTANTS
    Client = client
    Server = server
    InCapacity = 1
    OutCapacity = 1
    MSS = 1
    TimeoutTicks = 1
    MaxResets = 3
    StreamLength <- BothWays
    WriteLen = 2
    ReadLen = 2
    Readers = {client, server}
    Closers = {client, server}
    Losses = 1
    LossScope = "synchronized"
    PatientTimers = TRUE
INVARIANT TypeOK
INVARIANT StreamIntegrity
INVARIANT BytesAccounted
INVARIANT CloseFlushes
INVARIANT CallsTracked
INVARIANT OneDeferredFree
