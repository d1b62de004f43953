SPECIFICATION Spec
CONSTANTS
    Hosts = {"A", "B", "C"}
    DevicesOf <- LineDevices
    NetOf <- LineNets
    Peer <- LinePeers
    UserRoutes <- LineUserRoutes
    Worlds <- LineWorlds
    Infinity = 4
    MaxUserRoutes = 1
    MaxReply = 8
    RequestIds = 2
    NoDevice = "none"
    BroadcastMAC = "ff"
    Readers = {r1, r2}
    Updater = updater
    Handler = handler
    User = user
    Nobody = nobody
    Neighbours = {n1, n2}
    MaxRecords = 2
    Timeout = 3
    Period = 2
    Losses = 1
    SearchTicks = 1
    NoIp = noip
    NoSlot = noslot
    IpHosts = {"A", "B", "R", "Q"}
    DevsOf <- IpDevs
    SegmentOf <- IpSegments
    RoutesOf <- IpRoutes
    BroadcastAddr = "ff"
    BroadcastIp <- IpBroadcasts
    PacketSets <- IpPacketSets
    LostAddrs = {"x"}
    FragSize = 2
    Unit = 2
    MaxPayload = 3
    HeaderSize = 1
    InitialTTL = 4
    FrameLosses = 1
    veth0 = veth0
    veth1 = veth1
    PcapDevices <- VethDevices
    MayFail = {veth0}
    Senders = {timer}
    NoDev = nodev
    NoThread = nothread
    NoFrame = noframe
INVARIANT NoShortcut
INVARIANT RecordsBounded
INVARIANT NoCountToInfinity
INVARIANT ReadersExcludeWriters
 
 
INVARIANT InitBeforeUse
PROPERTY RoutingSettles
PROPERTY QueriesReturn
PROPERTY PacketsArrive
CHECK_DEADLOCK FALSE
