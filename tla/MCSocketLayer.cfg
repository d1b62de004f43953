SPECIFICATION Spec
CONSTANTS
    p1 = p1
    p2 = p2
    Processes = {p1, p2}
    SocketIds = {1, 2}
    CallWorlds <- TheCallWorlds
    NoId = noid
    Ids = {1, 2, 3}
    Devices = {veth0}
    AllDevices = any
    BadDevice = bad
    BindTo = {any}
    RouteTo = {veth0}
    ServerPorts = {80}
    ClientPorts = {50000}
    Remotes = {r1, r2}
    Backlogs = {1, 2}
    MaxOpened = 1
    NoSocket = 0
    NoRemote = noremote
INVARIANT MissingPipe
INVARIANT LoneCallerHeard
INVARIANT IdsOwned
 
INVARIANT UniqueConnection
 
INVARIANT IdsSound
 
CHECK_DEADLOCK FALSE
