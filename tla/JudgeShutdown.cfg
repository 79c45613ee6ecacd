SPECIFICATION FairSpec
CONSTANTS
    Workers = {w1, w2, w3}
    shutdownGrace = 3
    Unwind = 2
    LastSignal = 4
INVARIANTS CutOnlyAfterGrace EndsInTime
PROPERTIES ShutdownEnds
CHECK_DEADLOCK FALSE
