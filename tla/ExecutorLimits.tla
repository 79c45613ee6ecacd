--------------------------- MODULE ExecutorLimits ---------------------------
(***************************************************************************)
(* The limits of a judging attempt, as JudgeConfig.Validate and            *)
(* ExecutionRequest.Validate admit them, for both executors.  Times are in *)
(* units of the clock; for Kubernetes one unit is a poll interval.  The    *)
(* calls to its API server have no timeout in the code: ApiTime stands for *)
(* whatever time they take.                                                *)
(***************************************************************************)
EXTENDS Naturals

CONSTANTS
    NTests,          \* len(request.Tests)
    TotalTimeout,
    CompileTimeout,
    TestTimeout,
    CleanupTimeout,
    AttemptLease,    \* also staleResourceAge and staleAge
    SetupMargin,     \* judgeSetupMargin
    Second,          \* units in a second
    DeleteTimeout,   \* of deleteJob, 30 s
    ApiTime,         \* bound: how long a call to the API server takes
    Lag,             \* bound: how late the controllers of the cluster may be
    MaxClock         \* bound: how long the cluster is watched

\* buildJob rounds both down to whole seconds; ttl may be 0.
activeDeadline == (TotalTimeout \div Second + 1) * Second
ttl == (CleanupTimeout \div Second) * Second

Validate ==
    /\ {TotalTimeout, CompileTimeout, TestTimeout, CleanupTimeout} \subseteq Nat \ {0}
    /\ CompileTimeout <= TotalTimeout /\ TestTimeout <= TotalTimeout
    /\ AttemptLease > TotalTimeout + 2 * CleanupTimeout + SetupMargin

\* Nothing more than what Validate demands is assumed of the configuration.
ASSUME LimitsAssumption ==
    /\ Validate
    /\ {NTests, Second, DeleteTimeout} \subseteq Nat \ {0}
    /\ {AttemptLease, SetupMargin, ApiTime, Lag, MaxClock} \subseteq Nat
=============================================================================
