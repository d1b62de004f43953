SPECIFICATION FairSpec
CONSTANTS
    Client = client
    Server = server
    InCapacity = 2
    OutCapacity = 2
    MSS = 1
    TimeoutTicks = 1
    MaxResets = 3
    StreamLength <- OneWay
    WriteLen = 2
    ReadLen = 2
    Readers = {server}
    Closers = {client}
    Losses = 2
    LossScope = "data"
    PatientTimers = TRUE
PROPERTIES Arrival CallsAnswered SocketsReleased
