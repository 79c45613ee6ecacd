SPECIFICATION FairSpec
CONSTANTS
    u1 = u1
    Users = {u1}
    Conns = {1, 2}
    NoConn = 0
    Owner <- OneOwner
    Requests = {r1}
    NoRequest = NoRequest
    SendBuf = 1
    MaxEvents = 2
    MaxFaults = 1
    Crowd = 1
INVARIANTS
    AnswerComesFirst
    NoGap
    OneActivePerUser
    ShutdownReachesAll
    CleanDrain
PROPERTIES
    DueConnectionsEnd
CHECK_DEADLOCK FALSE
