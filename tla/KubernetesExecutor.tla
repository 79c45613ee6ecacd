------------------------- MODULE KubernetesExecutor -------------------------
(***************************************************************************)
(* KubernetesJobExecutor.Execute (internal/judge/kubernetes_executor.go),  *)
(* one attempt with a clock that counts poll intervals: it creates a Job,  *)
(* polls its pod and the Job, and deletes the Job in a deferred call.      *)
(* Every call takes time, ApiTime at most, and the executor's deadline is  *)
(* looked at between calls only.  Job controller, TTL controller and       *)
(* kubelet are modelled from how the code uses them, with a bounded lag.   *)
(* Workers pass a context without a deadline, so that an ended context was *)
(* cancelled.                                                              *)
(***************************************************************************)
EXTENDS ExecutorLimits, Integers

startupGrace == TotalTimeout
window == TotalTimeout + CleanupTimeout + startupGrace

VARIABLES
    pc,        \* the call Execute is in
    clock,
    by,        \* when the call or the sleep has ended
    parent,    \* the context that Execute was given is alive
    start,     \* when awaitOutcome began
    job,       \* the Job as the API server has it
    made,      \* its creation time
    over,      \* when it was over
    pod,       \* the status of its pod
    message,   \* what the terminated pod reports
    ended,     \* when it terminated
    gone,      \* when the cluster removed them before the executor knew enough
    result     \* outcome

vars == <<pc, clock, by, parent, start, job, made, over, pod, message, ended, gone, result>>
clusterVars == <<job, made, over, pod, message, ended, gone>>

deadline == start + window

-----------------------------------------------------------------------------
Kinds == {"pass", "wrong_answer", "compile_error", "runtime_error", "output_limit",
          "timeout"}
Outcomes == [kind : Kinds \cup {"error", "none"}, tests : 0 .. NTests + 1]

Outcome(kind) == [kind |-> kind, tests |-> 0]
None == Outcome("none")
Error == Outcome("error")
Timeout == Outcome("timeout")

\* The termination message of a container: what the harness wrote, which
\* nothing has checked, or nothing that parses, with an exit code.  The count
\* matters with a pass only.
Messages == [kind : Kinds, tests : {0}] \cup [kind : {"pass"}, tests : 0 .. NTests + 1]
              \cup {Outcome("oom"), Outcome("exit0"), Outcome("exit1"), None}

TypeOK ==
    /\ pc \in {"create", "list", "get", "sleep", "delete", "returned"}
    /\ clock \in 0 .. MaxClock
    /\ by \in Nat
    /\ parent \in BOOLEAN
    /\ start \in 0 .. MaxClock
    /\ job \in {"requested", "absent", "active", "complete", "failed", "expired"}
    /\ made \in 0 .. MaxClock
    /\ over \in 0 .. MaxClock
    /\ pod \in {"none", "waiting", "unpullable", "running", "terminated", "killed"}
    /\ message \in Messages
    /\ ended \in 0 .. MaxClock
    /\ gone \in -1 .. MaxClock
    /\ result \in Outcomes

\* Execute has asked for the Job.
Init ==
    /\ pc = "create" /\ clock = 0 /\ by = ApiTime /\ parent = TRUE /\ start = 0
    /\ job = "requested" /\ made = 0 /\ over = 0
    /\ pod = "none" /\ message = None /\ ended = 0 /\ gone = -1
    /\ result = None

-----------------------------------------------------------------------------
(***************************************************************************)
(* Execute.                                                                *)
(***************************************************************************)

\* awaitOutcome returns r: the deferred deletion begins.
Return(r) ==
    /\ result' = r
    /\ pc' = "delete" /\ by' = clock + DeleteTimeout

\* The answer to the creation: awaitOutcome begins with a List.
Create ==
    /\ pc = "create" /\ parent /\ job # "requested"
    /\ start' = clock
    /\ pc' = "list" /\ by' = clock + ApiTime
    /\ UNCHANGED <<clusterVars, clock, parent, result>>

\* A creation that fails may have taken effect or may do so later; its deletion
\* is not deferred.
CreateFails ==
    /\ pc = "create"
    /\ result' = Error /\ pc' = "returned"
    /\ UNCHANGED <<clusterVars, clock, by, parent, start>>

\* Fault: an exit code of zero stands for all tests.
classifyTerminatedCredulous(m) ==
    CASE m.kind = "oom" -> Outcome("runtime_error")
      [] m.kind \in Kinds -> m
      [] m.kind = "exit0" -> [kind |-> "pass", tests |-> NTests]
      [] OTHER -> Outcome("runtime_error")

classifyTerminated(m) ==
    CASE m.kind = "oom" -> Outcome("runtime_error")
      [] m.kind \in Kinds -> m
      [] m.kind = "exit0" -> Outcome("pass")
      [] OTHER -> Outcome("runtime_error")

\* Listing fails, or the pod says how it went, or it cannot be pulled.  What is
\* listed may be older than the answer: what is left of the time of this call
\* is spent before the next, in "get".
List ==
    /\ pc = "list"
    /\ \/ Return(Error)
       \/ parent /\ pod = "terminated" /\ Return(classifyTerminated(message))
       \/ parent /\ pod = "killed" /\ Return(Timeout)
       \/ parent /\ pod = "unpullable" /\ Return(Error)
       \/ /\ parent /\ pod \in {"none", "waiting", "running"}
          /\ pc' = "get" /\ by' = by + ApiTime /\ UNCHANGED result
    /\ UNCHANGED <<clusterVars, clock, parent, start>>

\* Fault: any failed Job is taken for one past its deadline.
jobDeadlineExceededAnyFailure == job \in {"failed", "expired"}

jobDeadlineExceeded == job = "expired"

\* Fault: a cancelled context gives a timeout.
CheckUncancelled ==
    \/ parent /\ jobDeadlineExceeded /\ Return(Timeout)
    \/ ~parent /\ Return(Timeout)
    \/ parent /\ clock >= deadline /\ Return(Timeout)
    \/ parent /\ clock < deadline /\ pc' = "sleep" /\ by' = clock + 1 /\ UNCHANGED result

\* Fault: every poll starts the window again.
CheckRestarts ==
    \/ parent /\ jobDeadlineExceeded /\ Return(Timeout)
    \/ ~parent /\ Return(Error)
    \/ parent /\ pc' = "sleep" /\ by' = clock + 1 /\ UNCHANGED result

\* The Job is asked, and an error taken for "no"; then the context and the
\* executor's own deadline are looked at.
Check ==
    \/ parent /\ jobDeadlineExceeded /\ Return(Timeout)
    \/ ~parent /\ Return(Error)
    \/ parent /\ clock >= deadline /\ Return(Timeout)
    \/ parent /\ clock < deadline /\ pc' = "sleep" /\ by' = clock + 1 /\ UNCHANGED result

Get ==
    /\ pc = "get"
    /\ Check
    /\ UNCHANGED <<clusterVars, clock, parent, start>>

Sleep ==
    /\ pc = "sleep"
    /\ \/ clock >= by /\ pc' = "list" /\ by' = clock + ApiTime /\ UNCHANGED result
       \/ ~parent /\ Return(Error)
    /\ UNCHANGED <<clusterVars, clock, parent, start>>

\* deleteJob, with the pod; an error is only logged.
Delete ==
    /\ pc = "delete"
    /\ \/ job' = "absent" /\ over' = 0 /\ pod' = "none"
       \/ UNCHANGED <<job, over, pod>>
    /\ pc' = "returned"
    /\ UNCHANGED <<clock, by, parent, start, made, message, ended, gone, result>>

\* What the worker makes of the outcome (validateTerminalResult).
Accepted(r) ==
    /\ r.kind \in Kinds
    /\ r.tests <= NTests
    /\ r.kind = "pass" => r.tests = NTests

-----------------------------------------------------------------------------
(***************************************************************************)
(* The cluster.                                                            *)
(***************************************************************************)
Alive == {"waiting", "unpullable", "running"}

callVars == <<pc, clock, by, parent, start, result>>

\* The API server takes the request, which its client may have given up.
Admit ==
    /\ job = "requested" /\ clock <= ApiTime
    /\ job' = "active" /\ made' = clock /\ pod' = "waiting"
    /\ UNCHANGED <<callVars, over, message, ended, gone>>

PodStarts ==
    /\ pod \in {"waiting", "unpullable"}
    /\ pod' \in {"unpullable", "running"}
    /\ UNCHANGED <<callVars, job, made, over, message, ended, gone>>

PodTerminates ==
    /\ pod = "running"
    /\ pod' = "terminated" /\ message' \in Messages \ {None} /\ ended' = clock
    /\ UNCHANGED <<callVars, job, made, over, gone>>

JobFinishes ==
    /\ job = "active" /\ pod = "terminated"
    /\ job' \in {"complete", "failed"} /\ over' = clock
    /\ UNCHANGED <<callVars, made, pod, message, ended, gone>>

\* Fault: buildJob sets no active deadline.
DeadlineUnset == FALSE /\ UNCHANGED vars

\* The active deadline passes: a pod that waits or runs is ended with that
\* reason or deleted; one that has just terminated stays.
DeadlineExceeded ==
    /\ job = "active"
    /\ clock >= made + activeDeadline
    /\ job' = "expired" /\ over' = clock
    /\ pod' \in IF pod \in Alive THEN {"killed", "none"} ELSE {pod}
    /\ UNCHANGED <<callVars, made, message, ended, gone>>

JobExists == job \notin {"requested", "absent"}
JobIsOver == job \in {"complete", "failed", "expired"}

Remove ==
    /\ job' = "absent" /\ over' = 0 /\ pod' = "none"
    /\ gone' = IF result = None THEN clock ELSE gone
    /\ UNCHANGED <<callVars, made, message, ended>>

TTLExpires ==
    /\ JobIsOver
    /\ clock >= over + ttl
    /\ Remove

\* Another executor starts when the Job is older than the lease.
cleanupStaleJobs ==
    /\ JobExists
    /\ clock >= made + AttemptLease
    /\ Remove

\* runJudgeWorkers cancels the work context.
Cancel ==
    /\ parent /\ pc # "returned"
    /\ parent' = FALSE
    /\ UNCHANGED <<clusterVars, pc, clock, by, start, result>>

\* A controller that is due waits no longer than its lag.
Punctual ==
    /\ ~(job = "active" /\ pod \in Alive /\ clock >= made + activeDeadline + Lag)
    /\ ~(job = "active" /\ pod = "terminated" /\ clock >= ended + Lag)
    /\ ~(JobIsOver /\ clock >= over + ttl + Lag)

Tick ==
    /\ IF pc = "returned" THEN job # "absent" ELSE clock < by
    /\ Punctual
    /\ clock < MaxClock
    /\ clock' = clock + 1
    /\ UNCHANGED <<clusterVars, pc, by, parent, start, result>>

Step == Create \/ CreateFails \/ List \/ Get \/ Sleep \/ Delete

Controllers == JobFinishes \/ DeadlineExceeded \/ TTLExpires

Next ==
    \/ Step
    \/ Admit \/ PodStarts \/ PodTerminates
    \/ Controllers \/ cleanupStaleJobs
    \/ Cancel \/ Tick

Spec == Init /\ [][Next]_vars

-----------------------------------------------------------------------------
(***************************************************************************)
(* Properties.                                                             *)
(***************************************************************************)

(***************************************************************************)
(* Every outcome that is not an error is what the pod reported, or a       *)
(* timeout after the total timeout has really passed since the Job was     *)
(* made.  A pod that ended a poll before that has its report kept, with    *)
(* one exception: the TTL ran out, and the cluster removed the pod, before *)
(* the next poll could read it.  That is possible only when the TTL is no  *)
(* longer than the distance of two polls.                                  *)
(***************************************************************************)
PollGap == 3 * ApiTime + 1

LostToTTL == ended + ttl <= gone /\ gone <= ended + PollGap

VerdictKept ==
    result.kind \notin {"none", "error"} =>
        \/ message # None /\ result = classifyTerminated(message)
        \/ /\ result = Timeout
           /\ clock >= made + TotalTimeout
           /\ message # None => ended + PollGap >= made + TotalTimeout \/ LostToTTL

(***************************************************************************)
(* A pass that the worker accepts is the harness's report of all tests,    *)
(* never the exit code of a container that reported nothing.               *)
(***************************************************************************)
NoFalsePass ==
    result.kind = "pass" /\ Accepted(result) =>
        message = [kind |-> "pass", tests |-> NTests]

(***************************************************************************)
(* Calls of ApiTime included, the attempt polls for no longer than its     *)
(* window, which begins with the answer to the creation, and the two calls *)
(* of the last poll; then it deletes the Job.  The controllers may be as   *)
(* late as they like.  The lease may be shorter: see LeaseCoversAttempt of *)
(* SandboxExecutor.                                                        *)
(***************************************************************************)
WindowHolds ==
    /\ pc \in {"list", "get", "sleep"} => clock <= window + 3 * ApiTime
    /\ pc # "returned" => clock <= window + 3 * ApiTime + DeleteTimeout

(***************************************************************************)
(* No sandbox outlives its attempt for good: the Job goes away, even when  *)
(* its creation failed ambiguously or its deletion failed, because of its  *)
(* active deadline and TTL.                                                *)
(***************************************************************************)
SandboxesGo == JobExists ~> ~JobExists
=============================================================================
