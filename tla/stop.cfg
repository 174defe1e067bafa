CONSTANTS
    p1 = p1  p2 = p2  f1 = f1  f2 = f2  f3 = f3  f4 = f4
    NoConn = NoConn
    Conns = {p1, f1}
    Permitted = {p1}
    CheckPeer = TRUE
    Activated = FALSE
    IntIgnored = FALSE
    IdleTimeout = 3
    RefuseLinger = 2
    RefuseMax = 1
    StopGrace = 2
    IoTimeout = 2
    ReqChunks = 2
    MaxFaults = 2
SPECIFICATION Spec
INVARIANTS TypeOK StopBounded
PROPERTIES CutOnlyIfInsisted NoIdleGrace ImplementsService
CHECK_DEADLOCK FALSE
