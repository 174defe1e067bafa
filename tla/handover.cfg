CONSTANTS
    p1 = p1  p2 = p2  f1 = f1  f2 = f2  f3 = f3  f4 = f4
    NoConn = NoConn
    Conns = {p1, f1}
    Permitted = {p1}
    CheckPeer = TRUE
    Activated = FALSE
    IntIgnored = FALSE
    IdleTimeout = 0
    RefuseLinger = 1
    RefuseMax = 1
    StopGrace = 1
    IoTimeout = 1
    ReqChunks = 1
    MaxFaults = 1
SPECIFICATION Spec
INVARIANT OnlyRefusalsInterrupted
CHECK_DEADLOCK FALSE
