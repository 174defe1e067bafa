CONSTANTS
    r1 = r1  r2 = r2  r3 = r3  u1 = u1  u2 = u2  g1 = g1
    NoReq = NoReq  Malformed = Malformed  NoName = NoName
    Web = Web  Root = Root
    Reqs = {r1, r2}
    Users = {u1, g1}
    Accounts = {u1}
    MaxFaults = 2
SPECIFICATION FairSpec
INVARIANTS TypeOK StartedOnDemand
PROPERTIES ClearedFindsSocket UsersServed EveryoneAnswered OrphansExit Heals
CHECK_DEADLOCK FALSE
