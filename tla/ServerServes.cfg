SPECIFICATION FairSpec
CONSTANTS
    Conns = {k1, k2, k3, k4}
    NoConn = NoConn
    Addrs = {a1, a2}
    Backlog = 2
    MaxOpen = 2
    Faults = {"bindFails", "dbFails", "startFails", "clientCrash"}
INVARIANTS
    TypeOK
    OnlyLastIsHeld
PROPERTIES
    KeepsLifecycles
    EveryoneIsServed
CHECK_DEADLOCK FALSE
