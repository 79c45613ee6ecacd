SPECIFICATION Spec
CONSTANTS
    NTests = 1
    TotalTimeout = 6
    CompileTimeout = 2
    TestTimeout = 1
    CleanupTimeout = 2
    AttemptLease = 12
    SetupMargin = 1
    Second = 1
    DeleteTimeout = 6
    ApiTime = 0
    Lag = 1
    MaxClock = 24
INVARIANTS
    LeaseCoversAttempt
CHECK_DEADLOCK FALSE
