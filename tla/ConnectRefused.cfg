SPECIFICATION Spec
CONSTANTS
    Objects = {0, 1}
    SYSTEM_DBREF = 0
    Ports = {1}
    MaxConnections = 4
    MaxServers = 1
    MaxPendings = 1
    MaxOut = 2
    Silent = {0, 1}
    MaxOps = 3
    Watched = {3}
INVARIANT SelectSound
CHECK_DEADLOCK FALSE
