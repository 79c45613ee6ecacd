SPECIFICATION FairSpec
CONSTANTS
    c1 = c1
    c2 = c2
    c3 = c3
    c4 = c4
    c5 = c5
    k1 = k1
    k2 = k2
    k3 = k3
    p1 = p1
    p2 = p2
    p3 = p3
    NoCall = NoCall
    Calls <- MCCalls
    KeyOf <- MCKeyOf
    PayloadOf <- MCPayloadOf
    Hash <- MCHash
    Foreign = {}
INVARIANTS RetriesResolve
PROPERTIES ImplementsLog CallsAnswered
CHECK_DEADLOCK FALSE
