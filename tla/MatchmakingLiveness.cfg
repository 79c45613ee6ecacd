SPECIFICATION FairSpec
CONSTANTS
    u1 = u1
    u2 = u2
    u3 = u3
    c1a = c1a
    c1b = c1b
    c2 = c2
    c3 = c3
    Users = {u1, u2, u3}
    Conns = {c1a, c2, c3}
    NoConn = none
    Owner <- MCOwner
    Servers = {v1, v2}
    MatchIDs = {m1}
    NoMatch = noMatch
    Removable = {}
    ScanLimit = 2
    MaxScore = 3
    MaxFaults = 1
CHECK_DEADLOCK FALSE
PROPERTIES WaitersAreMatched
