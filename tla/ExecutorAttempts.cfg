SPECIFICATION FairSpec
CONSTANTS
    NTests = 2
    TotalTimeout = 5
    CompileTimeout = 1
    TestTimeout = 1
    CleanupTimeout = 1
    AttemptLease = 9
    SetupMargin = 1
    Second = 1
    DeleteTimeout = 2
    ApiTime = 1
    Lag = 2
    MaxClock = 18
INVARIANTS
    EndsInWindow
    VerdictIsTrue
    NoFalsePass
    NothingLeaks
PROPERTIES
    SparesTheLiving
    SandboxesGo
    AttemptReturns
CHECK_DEADLOCK FALSE
