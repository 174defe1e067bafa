CONSTANTS
    a1 = a1  a2 = a2  a3 = a3  j1 = j1  j2 = j2  k1 = k1
    NoAttempt = NoAttempt  NoJob = NoJob
    Attempts = {a1, a2}
    Jobs = {j1, k1}
    Foreign = {k1}
    Activated = FALSE
    MaxEpochs = 2
    MaxEnds = 0
SPECIFICATION Spec
PROPERTIES UnavailableMeansUnreachable
CHECK_DEADLOCK FALSE
