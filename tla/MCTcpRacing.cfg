SPECIFICATION Spec
CONSTANTS
    Client = client
    Server = server
    InCapacity = 2
    OutCapacity = 2
    MSS = 1
    TimeoutTicks = 1
    MaxResets = 2
    StreamLength <- OneWay
    WriteLen = 2
    ReadLen = 2
    Readers = {client, server}
    Closers = {client, server}
    Losses = 1
    LossScope = "synchronized"
    PatientTimers = FALSE
INVARIANT BytesAccounted
INVARIANT NothingSentTooMuch
INVARIANT CallsTracked
PROPERTY NumbersMoveForward
PROPERTY ImplementsStream
