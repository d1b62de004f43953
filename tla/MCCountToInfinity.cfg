SPECIFICATION RoutingSpec
CONSTANTS
    Hosts = {"A", "B", "C"}
    DevicesOf <- TwinDevices
    NetOf <- TwinNets
    Peer <- TwinPeers
    UserRoutes <- TwinUserRoutes
    Worlds <- TwinWorlds
    Infinity = 16
    MaxUserRoutes = 1
    MaxReply = 8
    RequestIds = 2
    NoDevice = "none"
    BroadcastMAC = "ff"
INVARIANT NoCountToInfinity
CHECK_DEADLOCK FALSE
