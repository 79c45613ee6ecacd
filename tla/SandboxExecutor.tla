-------------------------- MODULE SandboxExecutor ---------------------------
(***************************************************************************)
(* The executor of a judge process (newExecutorForConfig in                *)
(* internal/judge/run.go): Docker or Kubernetes, chosen once from the      *)
(* configuration.  What the worker sees is the same for both, the context  *)
(* it passes (parent), the call (pc, by, clock) and the outcome (result);  *)
(* the daemon or the cluster behind it is not.                             *)
(***************************************************************************)
EXTENDS ExecutorLimits

VARIABLES
    executor,
    pc, clock, by, parent, result,                 \* of the attempt
    k, exists, born, late, known, failed, seen,    \* Docker
    start, job, made, over, pod, message, ended, gone    \* Kubernetes

attemptVars == <<pc, clock, by, parent, result>>
dockerVars == <<k, exists, born, late, known, failed, seen>>
kubernetesVars == <<start, job, made, over, pod, message, ended, gone>>
vars == <<executor, attemptVars, dockerVars, kubernetesVars>>

Docker == INSTANCE DockerExecutor
Kubernetes == INSTANCE KubernetesExecutor

-----------------------------------------------------------------------------
\* The other executor's variables have a value and keep it.
NewDockerExecutor ==
    /\ executor = "docker"
    /\ Docker!Init
    /\ start = 0 /\ job = "absent" /\ made = 0 /\ over = 0
    /\ pod = "none" /\ message = Kubernetes!None /\ ended = 0 /\ gone = 0

NewKubernetesJobExecutor ==
    /\ executor = "kubernetes"
    /\ Kubernetes!Init
    /\ k = 0 /\ exists = {} /\ known = {} /\ failed = {} /\ seen = <<>>
    /\ born = [r \in Docker!Resources |-> 0]
    /\ late = [r \in Docker!Resources |-> "no"]

Init == NewDockerExecutor \/ NewKubernetesJobExecutor

OfDocker(A) == executor = "docker" /\ A /\ UNCHANGED <<executor, kubernetesVars>>
OfKubernetes(A) == executor = "kubernetes" /\ A /\ UNCHANGED <<executor, dockerVars>>

Next == OfDocker(Docker!Next) \/ OfKubernetes(Kubernetes!Next)

Spec == Init /\ [][Next]_vars

(***************************************************************************)
(* The executor's own steps, the controllers of the cluster and time go    *)
(* on; the code under test and its pod need never end or even start, and   *)
(* nobody need start another executor.                                     *)
(***************************************************************************)
FairSpec ==
    /\ Spec
    /\ WF_vars(OfDocker(Docker!Step))
    /\ WF_vars(OfDocker(Docker!Tick))
    /\ WF_vars(OfKubernetes(Kubernetes!Step))
    /\ WF_vars(OfKubernetes(Kubernetes!Controllers))
    /\ WF_vars(OfKubernetes(Kubernetes!Tick))

-----------------------------------------------------------------------------
(***************************************************************************)
(* Properties, of whichever executor the process has.                      *)
(***************************************************************************)

(***************************************************************************)
(* An attempt ends within the window of its executor, whichever call meets *)
(* the deadline and however late the cluster is: with Docker within the    *)
(* lease that Validate asks for (FitsLease), with Kubernetes within a      *)
(* window of its own, to which creation, last poll and deletion add what   *)
(* they take (WindowHolds).                                                *)
(***************************************************************************)
EndsInWindow ==
    /\ executor = "docker" => Docker!FitsLease
    /\ executor = "kubernetes" => Kubernetes!WindowHolds

(***************************************************************************)
(* What JudgeConfig.Validate asks of the lease, in the words of its error  *)
(* (config.go:110): it "must cover total timeout, kill, cleanup, and setup *)
(* margin" of an attempt, so that nobody reclaims one that still runs.     *)
(* With Docker it does (FitsLease); with Kubernetes it need not.           *)
(***************************************************************************)
LeaseCoversAttempt == pc # "returned" => clock < AttemptLease

(***************************************************************************)
(* A verdict is what the code under test did: of Docker's runs the last is *)
(* the reason for it and the earlier ones were fine (VerdictJustified), of *)
(* a pod the report is kept (VerdictKept); a timeout is a limit that has   *)
(* really passed, never the cancellation of an attempt.                    *)
(***************************************************************************)
VerdictIsTrue ==
    /\ executor = "docker" => Docker!VerdictJustified
    /\ executor = "kubernetes" => Kubernetes!VerdictKept

(***************************************************************************)
(* A container that exits with 0 and reports nothing wins no duel: see     *)
(* KubernetesExecutor.                                                     *)
(***************************************************************************)
NoFalsePass == executor = "kubernetes" => Kubernetes!NoFalsePass

(***************************************************************************)
(* Nothing is left in the Docker daemon unaccounted: see DockerExecutor.   *)
(***************************************************************************)
NothingLeaks == executor = "docker" => Docker!NothingLeaks

(***************************************************************************)
(* The removal of stale resources by another executor spares a running     *)
(* attempt of the Docker executor: see DockerExecutor.                     *)
(***************************************************************************)
SparesTheLiving == Docker!SparesTheLiving

(***************************************************************************)
(* No Job stays in the cluster for good: see KubernetesExecutor.           *)
(***************************************************************************)
SandboxesGo == Kubernetes!SandboxesGo

(***************************************************************************)
(* Execute returns, whatever fails and whenever the worker is stopped: it  *)
(* never waits on code that does not end or a pod that does not start.     *)
(***************************************************************************)
AttemptReturns == <>(pc = "returned")
=============================================================================
