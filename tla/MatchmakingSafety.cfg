SPECIFICATION Spec
CONSTANTS
    u1 = u1
    u2 = u2
    u3 = u3
    c1a = c1a
    c1b = c1b
    c2 = c2
    c3 = c3
    Users = {u1, u2, u3}
    Conns = {c1a, c1b, c2, c3}
    NoConn = none
    Owner <- MCOwner
    Servers = {v1, v2}
    MatchIDs = {m1, m2}
    NoMatch = noMatch
    Removable = {u3}
    ScanLimit = 3
    MaxScore = 3
    MaxFaults = 1
SYMMETRY Symmetry
CHECK_DEADLOCK FALSE
INVARIANTS TypeOK ClaimsAgree OneEntryPerUser ScoresOrder NobodyForgotten
