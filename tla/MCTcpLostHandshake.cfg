SPECIFICATION Spec
CONSTANTS
    Client = client
    Server = server
    InCapacity = 2
    OutCapacity = 2
    MSS = 1
    TimeoutTicks = 1
    MaxResets = 3
    StreamLength <- Short
    WriteLen = 1
    ReadLen = 2
    Readers = {server}
    Closers = {}
    Losses = 1
    LossScope = "any"
    PatientTimers = TRUE
INVARIANT StreamIntegrity
