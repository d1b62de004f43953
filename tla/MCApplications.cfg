SPECIFICATION Spec
CONSTANTS
    MperfWorlds <- TheMperfWorlds
    NoClient = noclient
    PacketLen = 3
    Tests <- TheTests
    Room = 4
    MaxPackets = 3
    Programs <- ThePrograms
    MaxLine = 3
    QueueRoom = 3
    Resets = 1
 
INVARIANT AtMostOneWorker
INVARIANT RepliesTrue
INVARIANT CountsTrue
PROPERTY ControllerReturns
PROPERTY SamplesComplete
CHECK_DEADLOCK FALSE
