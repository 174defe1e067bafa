CONSTANTS
    p1 = p1  p2 = p2  f1 = f1  f2 = f2  f3 = f3  f4 = f4
    NoConn = NoConn
    Conns = {p1, f1, f2, f3}
    Permitted = {p1}
    CheckPeer = TRUE
    Activated = FALSE
    IntIgnored = TRUE
    IdleTimeout = 3
    RefuseLinger = 2
    RefuseMax = 2
    StopGrace = 1
    IoTimeout = 1
    ReqChunks = 1
    MaxFaults = 1
SPECIFICATION Spec
INVARIANTS RefusedTracked RefusedInOrder RefusalsBounded IdleTruthful IdlePrompt
PROPERTIES NoOversleep EndsOnlyWhenAsked
CHECK_DEADLOCK FALSE
SYMMETRY Symmetry
