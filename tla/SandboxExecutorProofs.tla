----------------------- MODULE SandboxExecutorProofs ------------------------
(***************************************************************************)
(* Proofs about the two executors, for every limit that JudgeConfig        *)
(* validates, every number of tests and however late the cluster is.       *)
(***************************************************************************)
EXTENDS SandboxExecutor, Integers, Sequences, TLAPS

-----------------------------------------------------------------------------
(* The Docker executor.                                                    *)

Working == {"volume", "staging", "stage", "create", "start", "running", "inspect"}
Killing == {"flooded", "stopping", "broken"}

\* Where time can pass: a call before the verdict ends with the total timeout;
\* a kill or a removal has a cleanup timeout from there; after a removal the
\* next creation may begin late, and fails; the cleanup is bounded by itself.
TimesOK ==
    /\ pc \in Working => by <= TotalTimeout
    /\ pc \in Working \ {"create"} => clock <= TotalTimeout
    /\ pc = "create" => clock <= TotalTimeout + CleanupTimeout
    /\ pc \in Killing \cup {"remove"} => clock <= by /\ by <= TotalTimeout + CleanupTimeout
    /\ pc = "cleanup" => clock <= by /\ by <= TotalTimeout + 2 * CleanupTimeout

AllOk(n) == \A j \in 1 .. n : seen[j] = "ok"

\* Where in its runs an attempt is, and what the last of them did.
RunsOK ==
    /\ pc \notin {"cleanup", "returned"} => result = Docker!None
    /\ pc \in {"volume", "staging", "stage"} => k = 0
    /\ pc \in {"volume", "staging", "stage", "create", "start", "running"} =>
         Len(seen) = k /\ AllOk(k)
    /\ pc \in {"flooded", "stopping", "inspect", "remove"} =>
         Len(seen) = k + 1 /\ AllOk(k)
    /\ pc = "flooded" => seen[k + 1] = "flood"
    /\ pc = "stopping" => \/ seen[k + 1] = "overrun"
                          \/ seen[k + 1] = "cancelled" /\ ~parent
    /\ pc = "inspect" => k > 0
    /\ pc \in {"inspect", "remove"} => seen[k + 1] \in {"ok", "nonzero", "oom", "wrong"}
    /\ pc = "remove" /\ k = 0 => seen[1] = "ok"

\* What the daemon has is known to cleanup, or has a reason to be there; and
\* such a reason makes the outcome an error.
LeftoversOK ==
    /\ exists \subseteq known \cup failed \cup {r \in Docker!Resources : late[r] = "done"}
    /\ failed # {} => result.kind = "error"
    /\ \A r \in Docker!Resources : late[r] # "no" => result.kind = "error"
    /\ pc = "returned" => known = {}

DockerInv ==
    Docker!TypeOK /\ TimesOK /\ RunsOK /\ Docker!VerdictJustified /\ LeftoversOK

-----------------------------------------------------------------------------
(* The Kubernetes executor.                                                *)

Polling == {"list", "get", "sleep"}

\* Where time can pass: a poll begins before the executor's own deadline or at
\* it, and its two calls take what they take.
WindowOK ==
    /\ pc # "returned" => clock <= by
    /\ start <= ApiTime
    /\ pc = "create" => by = ApiTime
    /\ pc = "list" => /\ by <= start + Kubernetes!window + ApiTime
                      /\ by <= clock + ApiTime
    /\ pc = "get" => /\ by <= start + Kubernetes!window + 2 * ApiTime
                     /\ by <= clock + 2 * ApiTime
    /\ pc = "sleep" => by <= start + Kubernetes!window /\ by <= clock + 1
    /\ pc = "delete" => by <= start + Kubernetes!window + 2 * ApiTime + DeleteTimeout

\* How the pod's report, the Job and the clock are related.
ClusterOK ==
    /\ job = "requested" =>
         /\ pc \in {"create", "returned"} /\ result.kind \in {"none", "error"}
         /\ pod = "none" /\ message = Kubernetes!None
    /\ made <= clock
    /\ pc \in Polling \cup {"delete"} => made <= start
    /\ pod = "terminated" => message # Kubernetes!None
    /\ message # Kubernetes!None => pod \in {"terminated", "none"} /\ ended <= clock
    /\ job \in {"complete", "failed"} => message # Kubernetes!None
    /\ job = "expired" => pod \notin Kubernetes!Alive
    /\ Kubernetes!JobIsOver /\ message # Kubernetes!None => ended <= over
    /\ job = "expired" \/ pod = "killed" => made + TotalTimeout <= clock
    /\ gone # -1 => job = "absent"

\* A report that the executor has not read yet is not older than a poll, and
\* its pod is still there; or it came as late as the total timeout, or the TTL
\* was faster than the poll.
UnreadOK ==
    pc \in Polling \cup {"create"} /\ message # Kubernetes!None =>
        \/ /\ pod = "terminated"
           /\ pc = "list" => by <= ended + 3 * ApiTime + 1
           /\ pc = "get" => by <= ended + 2 * ApiTime
           /\ pc = "sleep" => by <= ended + 2 * ApiTime + 1
        \/ made + TotalTimeout <= ended + Kubernetes!PollGap
        \/ Kubernetes!LostToTTL

KubernetesInv ==
    /\ Kubernetes!TypeOK /\ WindowOK /\ ClusterOK /\ UnreadOK
    /\ pc \in Polling \cup {"create"} => result = Kubernetes!None
    /\ Kubernetes!VerdictKept

IInv ==
    /\ executor \in {"docker", "kubernetes"}
    /\ executor = "docker" => DockerInv
    /\ executor = "kubernetes" => KubernetesInv
-----------------------------------------------------------------------------
\* The limits are numbers, as far as the proofs need it.
LEMMA Limits ==
    /\ NTests \in Nat \ {0}
    /\ TotalTimeout \in Nat \ {0} /\ CleanupTimeout \in Nat \ {0}
    /\ CompileTimeout \in Nat \ {0} /\ TestTimeout \in Nat \ {0}
    /\ AttemptLease \in Nat /\ SetupMargin \in Nat
    /\ Second \in Nat \ {0} /\ DeleteTimeout \in Nat \ {0}
    /\ MaxClock \in Nat /\ ApiTime \in Nat
    /\ TotalTimeout + 2 * CleanupTimeout + SetupMargin < AttemptLease
BY LimitsAssumption DEF LimitsAssumption, Validate

\* buildJob rounds the active deadline up, never below the total timeout.
LEMMA DeadlineRoundsUp == TotalTimeout < Kubernetes!activeDeadline
<1> DEFINE q == TotalTimeout \div Second
<1>1. TotalTimeout \in Nat /\ Second \in Nat \ {0}
  BY Limits
<1>2. q \in Nat /\ TotalTimeout = Second * q + (TotalTimeout % Second)
      /\ TotalTimeout % Second \in 0 .. Second - 1
  BY <1>1
<1>3. (q + 1) * Second = Second * q + Second
  BY <1>1, <1>2
<1>4. QED
  BY <1>1, <1>2, <1>3 DEF Kubernetes!activeDeadline

LEMMA ClusterTimes ==
    /\ Kubernetes!ttl \in Nat
    /\ Kubernetes!activeDeadline \in Nat
    /\ Kubernetes!window \in Nat /\ TotalTimeout <= Kubernetes!window
    /\ Kubernetes!PollGap = 3 * ApiTime + 1
    /\ Kubernetes!deadline = start + Kubernetes!window
<1>1. Kubernetes!ttl \in Nat
  BY Limits DEF Kubernetes!ttl
<1>2. Kubernetes!activeDeadline \in Nat
  BY Limits DEF Kubernetes!activeDeadline
<1>3. QED
  BY <1>1, <1>2, Limits DEF Kubernetes!window, Kubernetes!startupGrace,
     Kubernetes!PollGap, Kubernetes!deadline

-----------------------------------------------------------------------------
(* The steps of the Kubernetes executor.                                   *)

LEMMA KubernetesInit == Kubernetes!Init => KubernetesInv
<1> SUFFICES ASSUME Kubernetes!Init PROVE KubernetesInv
  OBVIOUS
<1>1. Kubernetes!TypeOK
  BY Limits DEF Kubernetes!Init, Kubernetes!TypeOK, Kubernetes!Messages,
     Kubernetes!Outcomes, Kubernetes!None, Kubernetes!Outcome
<1>2. WindowOK /\ UnreadOK
  BY Limits DEF Kubernetes!Init, WindowOK, UnreadOK, Polling
<1>3. ClusterOK
  BY DEF Kubernetes!Init, ClusterOK, Polling, Kubernetes!JobIsOver, Kubernetes!None,
     Kubernetes!Outcome
<1>4. Kubernetes!VerdictKept
  BY DEF Kubernetes!Init, Kubernetes!VerdictKept, Kubernetes!None, Kubernetes!Outcome
<1>5. QED
  BY <1>1, <1>2, <1>3, <1>4 DEF KubernetesInv, Kubernetes!Init

\* The outcomes that awaitOutcome can return.
LEMMA OutcomeTypes ==
    /\ {Kubernetes!None, Kubernetes!Error, Kubernetes!Timeout} \subseteq Kubernetes!Outcomes
    /\ \A m \in Kubernetes!Messages : Kubernetes!classifyTerminated(m) \in Kubernetes!Outcomes
BY Limits DEF Kubernetes!Outcomes, Kubernetes!None, Kubernetes!Error, Kubernetes!Timeout,
   Kubernetes!Outcome, Kubernetes!Messages, Kubernetes!Kinds, Kubernetes!classifyTerminated

\* What the surroundings of a call leave alone.
LEMMA Surroundings ==
    ASSUME \/ Kubernetes!Admit \/ Kubernetes!PodStarts \/ Kubernetes!PodTerminates
           \/ Kubernetes!JobFinishes \/ Kubernetes!DeadlineExceeded
           \/ Kubernetes!TTLExpires \/ Kubernetes!cleanupStaleJobs
    PROVE  UNCHANGED <<pc, clock, by, parent, start, result>>
BY DEF Kubernetes!Admit, Kubernetes!PodStarts, Kubernetes!PodTerminates,
   Kubernetes!JobFinishes, Kubernetes!DeadlineExceeded, Kubernetes!TTLExpires,
   Kubernetes!cleanupStaleJobs, Kubernetes!Remove, Kubernetes!callVars

LEMMA KubernetesTypes ==
    ASSUME Kubernetes!TypeOK, Kubernetes!Next
    PROVE  Kubernetes!TypeOK'
<1> USE DEF Kubernetes!TypeOK, Kubernetes!clusterVars, Kubernetes!callVars
<1>1. CASE Kubernetes!Create \/ Kubernetes!CreateFails \/ Kubernetes!Delete
  BY <1>1, Limits, OutcomeTypes DEF Kubernetes!Create, Kubernetes!CreateFails,
     Kubernetes!Delete
<1>2. CASE Kubernetes!List
  BY <1>2, Limits, OutcomeTypes DEF Kubernetes!List, Kubernetes!Return
<1>3. CASE Kubernetes!Get \/ Kubernetes!Sleep
  BY <1>3, Limits, OutcomeTypes DEF Kubernetes!Get, Kubernetes!Check, Kubernetes!Sleep,
     Kubernetes!Return
<1>4. CASE Kubernetes!PodTerminates
  <2> HIDE DEF Kubernetes!TypeOK
  <2>1. message' \in Kubernetes!Messages
    BY <1>4 DEF Kubernetes!PodTerminates
  <2>2. QED
    BY <1>4, <2>1 DEF Kubernetes!PodTerminates, Kubernetes!TypeOK
<1>5. CASE Kubernetes!Admit \/ Kubernetes!PodStarts \/ Kubernetes!JobFinishes
  BY <1>5 DEF Kubernetes!Admit, Kubernetes!PodStarts, Kubernetes!JobFinishes
<1>6. CASE Kubernetes!DeadlineExceeded
  BY <1>6 DEF Kubernetes!DeadlineExceeded
<1>7. CASE Kubernetes!TTLExpires \/ Kubernetes!cleanupStaleJobs
  BY <1>7, Limits DEF Kubernetes!TTLExpires, Kubernetes!cleanupStaleJobs, Kubernetes!Remove
<1>8. CASE Kubernetes!Cancel
  BY <1>8 DEF Kubernetes!Cancel
<1>9. CASE Kubernetes!Tick
  BY <1>9, Limits DEF Kubernetes!Tick
<1>10. QED
  BY <1>1, <1>2, <1>3, <1>4, <1>5, <1>6, <1>7, <1>8, <1>9 DEF Kubernetes!Next,
     Kubernetes!Step, Kubernetes!Controllers

\* No step but a poll's moves the executor's own deadline.
LEMMA KubernetesWindow ==
    ASSUME KubernetesInv, Kubernetes!Next
    PROVE  WindowOK'
<1> USE Limits, ClusterTimes DEF KubernetesInv, Kubernetes!TypeOK, WindowOK
<1>1. CASE Kubernetes!Create
  BY <1>1 DEF Kubernetes!Create
<1>2. CASE Kubernetes!CreateFails \/ Kubernetes!Delete
  BY <1>2 DEF Kubernetes!CreateFails, Kubernetes!Delete
<1>3. CASE Kubernetes!List
  BY <1>3 DEF Kubernetes!List, Kubernetes!Return
<1>4. CASE Kubernetes!Get
  BY <1>4 DEF Kubernetes!Get, Kubernetes!Check, Kubernetes!Return
<1>5. CASE Kubernetes!Sleep
  BY <1>5 DEF Kubernetes!Sleep, Kubernetes!Return
<1>6. CASE \/ Kubernetes!Admit \/ Kubernetes!PodStarts \/ Kubernetes!PodTerminates
           \/ Kubernetes!Controllers \/ Kubernetes!cleanupStaleJobs \/ Kubernetes!Cancel
  <2>1. UNCHANGED <<pc, clock, by, start>>
    BY <1>6, Surroundings DEF Kubernetes!Controllers, Kubernetes!Cancel
  <2>2. QED
    BY <2>1
<1>7. CASE Kubernetes!Tick
  BY <1>7 DEF Kubernetes!Tick
<1>8. QED
  BY <1>1, <1>2, <1>3, <1>4, <1>5, <1>6, <1>7 DEF Kubernetes!Next, Kubernetes!Step

LEMMA KubernetesCluster ==
    ASSUME KubernetesInv, Kubernetes!Next
    PROVE  ClusterOK'
<1> USE DEF KubernetesInv, Kubernetes!TypeOK, ClusterOK, Polling, Kubernetes!clusterVars,
        Kubernetes!callVars, Kubernetes!JobIsOver
<1>1. CASE Kubernetes!Create
  BY <1>1 DEF Kubernetes!Create
<1>2. CASE Kubernetes!CreateFails
  BY <1>2 DEF Kubernetes!CreateFails, Kubernetes!Error, Kubernetes!Outcome
<1>3. CASE Kubernetes!Delete
  BY <1>3 DEF Kubernetes!Delete, Kubernetes!Alive
<1>4. CASE Kubernetes!List \/ Kubernetes!Get \/ Kubernetes!Sleep
  <2>1. /\ UNCHANGED <<clock, start, job, made, over, pod, message, ended, gone>>
        /\ pc \in Polling
        /\ pc' \in Polling \cup {"delete"}
    BY <1>4 DEF Kubernetes!List, Kubernetes!Get, Kubernetes!Check, Kubernetes!Sleep,
       Kubernetes!Return
  <2>2. QED
    BY <2>1
<1>5. CASE Kubernetes!Admit
  BY <1>5 DEF Kubernetes!Admit
<1>6. CASE Kubernetes!PodStarts
  BY <1>6 DEF Kubernetes!PodStarts, Kubernetes!Alive
<1>7. CASE Kubernetes!PodTerminates
  <2>1. /\ message = Kubernetes!None /\ job \notin {"complete", "failed", "expired"}
        /\ job # "requested"
    BY <1>7 DEF Kubernetes!PodTerminates, Kubernetes!Alive
  <2>2. QED
    BY <1>7, <2>1 DEF Kubernetes!PodTerminates
<1>8. CASE Kubernetes!JobFinishes
  BY <1>8 DEF Kubernetes!JobFinishes
<1>9. CASE Kubernetes!DeadlineExceeded
  <2>1. made + TotalTimeout <= clock
    BY <1>9, DeadlineRoundsUp, Limits, ClusterTimes DEF Kubernetes!DeadlineExceeded
  <2>2. pod' \notin Kubernetes!Alive /\ (pod' = pod \/ pod \in Kubernetes!Alive)
    BY <1>9 DEF Kubernetes!DeadlineExceeded, Kubernetes!Alive
  <2>3. pod' \in {pod, "killed", "none"}
    BY <1>9 DEF Kubernetes!DeadlineExceeded
  <2>4. QED
    BY <1>9, <2>1, <2>2, <2>3 DEF Kubernetes!DeadlineExceeded, Kubernetes!Alive
<1>10. CASE Kubernetes!TTLExpires \/ Kubernetes!cleanupStaleJobs
  BY <1>10 DEF Kubernetes!TTLExpires, Kubernetes!cleanupStaleJobs, Kubernetes!Remove,
     Kubernetes!JobExists, Kubernetes!Alive
<1>11. CASE Kubernetes!Cancel
  BY <1>11 DEF Kubernetes!Cancel
<1>12. CASE Kubernetes!Tick
  BY <1>12, Limits DEF Kubernetes!Tick
<1>13. QED
  BY <1>1, <1>2, <1>3, <1>4, <1>5, <1>6, <1>7, <1>8, <1>9, <1>10, <1>11, <1>12
     DEF Kubernetes!Next, Kubernetes!Step, Kubernetes!Controllers

\* A report is read at the first poll after it, unless the TTL is faster: Jobs
\* are stale only long after the total timeout.
LEMMA KubernetesUnread ==
    ASSUME KubernetesInv, Kubernetes!Next
    PROVE  UnreadOK'
<1> USE Limits, ClusterTimes DEF KubernetesInv, Kubernetes!TypeOK, UnreadOK, Polling,
        Kubernetes!clusterVars, Kubernetes!callVars, Kubernetes!LostToTTL
<1>1. CASE Kubernetes!Create
  BY <1>1 DEF Kubernetes!Create, WindowOK, ClusterOK
<1>2. CASE Kubernetes!CreateFails \/ Kubernetes!Delete
  BY <1>2 DEF Kubernetes!CreateFails, Kubernetes!Delete
<1>3. CASE Kubernetes!List
  BY <1>3 DEF Kubernetes!List, Kubernetes!Return
<1>4. CASE Kubernetes!Get
  BY <1>4 DEF Kubernetes!Get, Kubernetes!Check, Kubernetes!Return, WindowOK
<1>5. CASE Kubernetes!Sleep
  BY <1>5 DEF Kubernetes!Sleep, Kubernetes!Return, WindowOK
<1>6. CASE Kubernetes!Admit
  BY <1>6 DEF Kubernetes!Admit, ClusterOK
<1>7. CASE Kubernetes!PodStarts
  BY <1>7 DEF Kubernetes!PodStarts, ClusterOK
<1>8. CASE Kubernetes!PodTerminates
  BY <1>8 DEF Kubernetes!PodTerminates, ClusterOK, WindowOK
<1>9. CASE Kubernetes!JobFinishes
  BY <1>9 DEF Kubernetes!JobFinishes
<1>10. CASE Kubernetes!DeadlineExceeded
  BY <1>10 DEF Kubernetes!DeadlineExceeded, Kubernetes!Alive
\* A removal that comes while the report is unread.
<1>11. ASSUME Kubernetes!Remove, Kubernetes!JobExists,
              message # Kubernetes!None =>
                \/ ended + Kubernetes!ttl <= clock
                \/ made + TotalTimeout <= clock
       PROVE  UnreadOK'
  <2> SUFFICES ASSUME pc \in Polling \cup {"create"}, message # Kubernetes!None
               PROVE  \/ made + TotalTimeout <= ended + Kubernetes!PollGap
                      \/ clock = gone' /\ ended + Kubernetes!ttl <= clock
                           /\ clock <= ended + Kubernetes!PollGap
    BY <1>11 DEF Kubernetes!Remove
  <2>1. gone' = clock
    BY <1>11 DEF Kubernetes!Remove
  <2>2. CASE ~Kubernetes!LostToTTL /\ ~(made + TotalTimeout <= ended + Kubernetes!PollGap)
    <3>1. clock <= ended + Kubernetes!PollGap
      BY <2>2 DEF WindowOK, ClusterOK
    <3>2. QED
      BY <1>11, <2>1, <3>1
  <2>3. CASE Kubernetes!LostToTTL
    BY <1>11, <2>3 DEF ClusterOK, Kubernetes!JobExists
  <2>4. QED
    BY <2>2, <2>3
<1>12. CASE Kubernetes!TTLExpires
  BY <1>11, <1>12 DEF Kubernetes!TTLExpires, ClusterOK, Kubernetes!JobIsOver,
     Kubernetes!JobExists
<1>13. CASE Kubernetes!cleanupStaleJobs
  BY <1>11, <1>13 DEF Kubernetes!cleanupStaleJobs
<1>14. CASE Kubernetes!Cancel \/ Kubernetes!Tick
  BY <1>14 DEF Kubernetes!Cancel, Kubernetes!Tick
<1>15. QED
  BY <1>1, <1>2, <1>3, <1>4, <1>5, <1>6, <1>7, <1>8, <1>9, <1>10, <1>12, <1>13, <1>14
     DEF Kubernetes!Next, Kubernetes!Step, Kubernetes!Controllers

\* An outcome is given once, and what it says of the report stays true.
LEMMA KubernetesVerdict ==
    ASSUME KubernetesInv, Kubernetes!Next
    PROVE  /\ pc' \in Polling \cup {"create"} => result' = Kubernetes!None
           /\ Kubernetes!VerdictKept'
<1> DEFINE Kept == Kubernetes!VerdictKept
           Early == pc \in Polling \cup {"create"} => result = Kubernetes!None
           Reported == message # Kubernetes!None =>
                         \/ ended + Kubernetes!PollGap >= made + TotalTimeout
                         \/ Kubernetes!LostToTTL
<1> USE Limits, ClusterTimes DEF KubernetesInv, Kubernetes!TypeOK, Polling,
        Kubernetes!clusterVars, Kubernetes!callVars
<1>1. ASSUME UNCHANGED <<made, message, ended, result>>, clock' \in Nat, clock <= clock',
             result # Kubernetes!None => gone' = gone,
             pc' \in Polling \cup {"create"} => pc \in Polling \cup {"create"}
      PROVE  Early' /\ Kept'
  BY <1>1 DEF Kubernetes!VerdictKept, Kubernetes!LostToTTL, Kubernetes!None,
     Kubernetes!Outcome
<1>2. ASSUME result'.kind \in {"none", "error"},
             pc' \in Polling \cup {"create"} => result' = Kubernetes!None
      PROVE  Early' /\ Kept'
  BY <1>2 DEF Kubernetes!VerdictKept
<1>3. ASSUME result' = Kubernetes!Timeout, pc' = "delete", made + TotalTimeout <= clock,
             Reported, UNCHANGED <<made, message, ended, gone, clock>>
      PROVE  Early' /\ Kept'
  BY <1>3 DEF Kubernetes!VerdictKept, Kubernetes!LostToTTL
<1>4. Kubernetes!Error.kind = "error" /\ Kubernetes!None.kind = "none"
  BY DEF Kubernetes!Error, Kubernetes!None, Kubernetes!Outcome
<1>5. CASE Kubernetes!Create \/ Kubernetes!Delete \/ Kubernetes!Cancel \/ Kubernetes!Tick
  <2>1. /\ UNCHANGED <<made, message, ended, gone, result>>
        /\ clock' \in Nat /\ clock <= clock'
        /\ pc' \in Polling \cup {"create"} => pc \in Polling \cup {"create"}
    BY <1>5 DEF Kubernetes!Create, Kubernetes!Delete, Kubernetes!Cancel, Kubernetes!Tick
  <2>2. QED
    BY <1>1, <2>1
<1>6. CASE \/ Kubernetes!PodStarts \/ Kubernetes!JobFinishes \/ Kubernetes!DeadlineExceeded
           \/ Kubernetes!TTLExpires \/ Kubernetes!cleanupStaleJobs
  <2>1. /\ UNCHANGED <<made, message, ended>>
        /\ result # Kubernetes!None => gone' = gone
    BY <1>6 DEF Kubernetes!PodStarts, Kubernetes!JobFinishes, Kubernetes!DeadlineExceeded,
       Kubernetes!TTLExpires, Kubernetes!cleanupStaleJobs, Kubernetes!Remove
  <2>2. QED
    BY <1>1, <1>6, <2>1, Surroundings
<1>7. CASE Kubernetes!CreateFails
  BY <1>2, <1>4, <1>7 DEF Kubernetes!CreateFails
<1>8. CASE Kubernetes!List
  <2>1. CASE result' = Kubernetes!Error /\ pc' = "delete"
    BY <1>2, <1>4, <2>1
  <2>2. CASE /\ pod = "terminated" /\ pc' = "delete"
             /\ result' = Kubernetes!classifyTerminated(message)
    BY <1>8, <2>2 DEF Kubernetes!List, Kubernetes!VerdictKept, ClusterOK,
       Kubernetes!classifyTerminated, Kubernetes!Outcome, Kubernetes!Kinds
  <2>3. CASE pod = "killed" /\ pc' = "delete" /\ result' = Kubernetes!Timeout
    BY <1>3, <1>8, <2>3 DEF Kubernetes!List, ClusterOK
  <2>4. CASE pc' = "get" /\ result' = result
    BY <1>1, <1>8, <2>4 DEF Kubernetes!List
  <2>5. QED
    BY <1>8, <2>1, <2>2, <2>3, <2>4 DEF Kubernetes!List, Kubernetes!Return
<1>9. CASE Kubernetes!Get
  \* Whichever deadline has passed: the report of a pod that is still there
  \* came after the last List.
  <2>1. ASSUME made + TotalTimeout <= clock PROVE Reported
    BY <1>9, <2>1 DEF Kubernetes!Get, UnreadOK, WindowOK
  <2>2. CASE result' = Kubernetes!Error /\ pc' = "delete"
    BY <1>2, <1>4, <2>2
  <2>3. CASE job = "expired" /\ pc' = "delete" /\ result' = Kubernetes!Timeout
    <3>1. made + TotalTimeout <= clock
      BY <2>3 DEF ClusterOK
    <3>2. QED
      BY <1>3, <1>9, <2>1, <2>3, <3>1 DEF Kubernetes!Get
  <2>4. CASE Kubernetes!deadline <= clock /\ pc' = "delete" /\ result' = Kubernetes!Timeout
    <3>1. made + TotalTimeout <= clock
      BY <1>9, <2>4 DEF Kubernetes!Get, ClusterOK
    <3>2. QED
      BY <1>3, <1>9, <2>1, <2>4, <3>1 DEF Kubernetes!Get
  <2>5. CASE pc' = "sleep" /\ result' = result
    BY <1>1, <1>9, <2>5 DEF Kubernetes!Get
  <2>6. QED
    BY <1>9, <2>2, <2>3, <2>4, <2>5 DEF Kubernetes!Get, Kubernetes!Check,
       Kubernetes!jobDeadlineExceeded, Kubernetes!Return
<1>10. CASE Kubernetes!Sleep
  <2>1. CASE result' = Kubernetes!Error /\ pc' = "delete"
    BY <1>2, <1>4, <2>1
  <2>2. CASE pc' = "list" /\ result' = result
    BY <1>1, <1>10, <2>2 DEF Kubernetes!Sleep
  <2>3. QED
    BY <1>10, <2>1, <2>2 DEF Kubernetes!Sleep, Kubernetes!Return
<1>11. CASE Kubernetes!Admit
  <2>1. result.kind \in {"none", "error"} /\ UNCHANGED <<pc, result>>
    BY <1>11 DEF Kubernetes!Admit, ClusterOK
  <2>2. QED
    BY <1>2, <2>1
<1>12. CASE Kubernetes!PodTerminates
  <2>1. /\ message = Kubernetes!None /\ ended' = clock
        /\ UNCHANGED <<pc, clock, made, gone, result>>
    BY <1>12 DEF Kubernetes!PodTerminates, ClusterOK
  <2>2. QED
    BY <2>1 DEF Kubernetes!VerdictKept
<1>13. QED
  BY <1>5, <1>6, <1>7, <1>8, <1>9, <1>10, <1>11, <1>12 DEF Kubernetes!Next,
     Kubernetes!Step, Kubernetes!Controllers

LEMMA KubernetesNext ==
    ASSUME KubernetesInv, Kubernetes!Next
    PROVE  KubernetesInv'
<1>1. Kubernetes!TypeOK'
  BY KubernetesTypes DEF KubernetesInv
<1>2. QED
  BY <1>1, KubernetesWindow, KubernetesCluster, KubernetesUnread, KubernetesVerdict
     DEF KubernetesInv

-----------------------------------------------------------------------------
(* The steps of the Docker executor.                                       *)

LEMMA DockerInit == Docker!Init => DockerInv
<1> SUFFICES ASSUME Docker!Init PROVE DockerInv
  OBVIOUS
<1>1. Docker!TypeOK
  BY Limits DEF Docker!Init, Docker!TypeOK, Docker!Outcomes, Docker!None
<1>2. TimesOK /\ LeftoversOK
  BY Limits DEF Docker!Init, TimesOK, LeftoversOK, Working, Killing
<1>3. RunsOK /\ Docker!VerdictJustified
  BY DEF Docker!Init, RunsOK, AllOk, Docker!VerdictJustified, Docker!None
<1>4. QED
  BY <1>1, <1>2, <1>3 DEF DockerInv

\* What the calls of an attempt do to the daemon, whichever it is.
LEMMA DockerTypes ==
    ASSUME DockerInv, Docker!Next
    PROVE  Docker!TypeOK'
<1> USE DEF DockerInv, Docker!TypeOK, Docker!daemonVars, Docker!envVars
<1>1. \A n \in 0 .. NTests : Docker!Run(n) \in Docker!Resources
  BY DEF Docker!Resources, Docker!Containers
<1>2. Docker!Creating \in Docker!Resources
  BY <1>1 DEF Docker!Creating, Docker!Resources, Docker!Containers
<1>3. /\ Docker!Error \in Docker!Outcomes /\ Docker!Pass \in Docker!Outcomes
      /\ \A x \in {"compile_error", "output_limit", "timeout", "runtime_error", "wrong_answer"} :
           Docker!Verdict(x) \in Docker!Outcomes
  BY Limits DEF Docker!Outcomes, Docker!Error, Docker!Pass, Docker!Verdict
<1>4. clock + CleanupTimeout \in Nat /\ TotalTimeout \in Nat /\ Docker!StageEnd \in Nat
  BY Limits DEF Docker!StageEnd, Docker!Min
<1>5. CASE Docker!Create
  BY <1>2, <1>4, <1>5 DEF Docker!Create, Docker!Goto
<1>6. CASE Docker!CreateFails
  BY <1>2, <1>3, <1>4, <1>6 DEF Docker!CreateFails, Docker!Return, Docker!Goto
<1>7. CASE Docker!Stage \/ Docker!Start \/ Docker!WaitFails \/ Docker!Inspect
  BY <1>3, <1>4, <1>7 DEF Docker!Stage, Docker!Start, Docker!WaitFails, Docker!Inspect,
     Docker!Return, Docker!Goto
<1>8. CASE Docker!Exits
  BY <1>3, <1>4, <1>8 DEF Docker!Exits, Docker!Return, Docker!Goto, Docker!Runs
<1>9. CASE Docker!Floods \/ Docker!Overruns
  <2>1. PICK x \in Docker!Runs : seen' = Append(seen, x)
    BY <1>9 DEF Docker!Floods, Docker!Overruns, Docker!Runs
  <2>2. QED
    BY <1>3, <1>4, <1>9, <2>1 DEF Docker!Floods, Docker!Overruns, Docker!Return, Docker!Goto
<1>10. CASE Docker!Killed
  BY <1>3, <1>4, <1>10 DEF Docker!Killed, Docker!Return, Docker!Goto,
     Docker!classifyProcessError
<1>11. CASE Docker!RemoveRun
  BY <1>3, <1>4, <1>11, Limits DEF Docker!RemoveRun, Docker!Removed, Docker!Judge, Docker!Return,
     Docker!Goto
<1>12. CASE Docker!Returns \/ Docker!Cancel
  BY <1>12 DEF Docker!Returns, Docker!Cancel, Docker!Goto
<1>13. CASE Docker!Tick
  BY <1>13 DEF Docker!Tick
<1>14. ASSUME NEW r \in Docker!Resources, Docker!Cleanup(r) PROVE Docker!TypeOK'
  BY <1>3, <1>14 DEF Docker!Cleanup, Docker!Removed
<1>15. ASSUME NEW r \in Docker!Resources,
              Docker!TakesEffect(r) \/ Docker!cleanupStaleResources(r)
       PROVE  Docker!TypeOK'
  BY <1>15 DEF Docker!TakesEffect, Docker!cleanupStaleResources, Docker!Removed
<1>16. QED
  BY <1>5, <1>6, <1>7, <1>8, <1>9, <1>10, <1>11, <1>12, <1>13, <1>14, <1>15 DEF Docker!Next

LEMMA DockerTimes ==
    ASSUME DockerInv, Docker!Next
    PROVE  TimesOK'
<1> USE Limits DEF DockerInv, Docker!TypeOK, TimesOK, Working, Killing, Docker!daemonVars,
        Docker!envVars, Docker!Return, Docker!Goto
<1>1. CASE Docker!Create
  <2>1. Docker!StageEnd <= TotalTimeout
    BY DEF Docker!StageEnd, Docker!Min
  <2>2. clock < TotalTimeout
    BY <1>1 DEF Docker!Create, Docker!TotalLive
  <2>3. /\ clock' = clock
        /\ \/ pc' \in {"staging", "stage"} /\ by' = TotalTimeout
           \/ pc' = "start" /\ by' = Docker!StageEnd
    BY <1>1 DEF Docker!Create
  <2>4. QED
    BY <2>1, <2>2, <2>3
<1>2. CASE Docker!CreateFails
  BY <1>2 DEF Docker!CreateFails
<1>3. CASE Docker!Stage \/ Docker!Start
  BY <1>3 DEF Docker!Stage, Docker!Start
<1>4. CASE Docker!Exits
  BY <1>4 DEF Docker!Exits
<1>5. CASE Docker!Floods \/ Docker!Overruns \/ Docker!WaitFails
  BY <1>5 DEF Docker!Floods, Docker!Overruns, Docker!WaitFails
<1>6. CASE Docker!Killed \/ Docker!Inspect
  BY <1>6 DEF Docker!Killed, Docker!Inspect
<1>7. CASE Docker!RemoveRun
  BY <1>7 DEF Docker!RemoveRun, Docker!Judge
<1>8. CASE Docker!Returns
  BY <1>8 DEF Docker!Returns
<1>9. CASE \/ Docker!Cancel
           \/ \E r \in Docker!Resources : \/ Docker!Cleanup(r) \/ Docker!TakesEffect(r)
                                         \/ Docker!cleanupStaleResources(r)
  <2>1. UNCHANGED <<pc, by, clock>>
    BY <1>9 DEF Docker!Cancel, Docker!Cleanup, Docker!TakesEffect,
       Docker!cleanupStaleResources
  <2>2. QED
    BY <2>1
<1>10. CASE Docker!Tick
  BY <1>10 DEF Docker!Tick
<1>11. QED
  BY <1>1, <1>2, <1>3, <1>4, <1>5, <1>6, <1>7, <1>8, <1>9, <1>10 DEF Docker!Next

\* Cleanup knows of every resource from before its creation is tried.
LEMMA DockerLeftovers ==
    ASSUME DockerInv, Docker!Next
    PROVE  LeftoversOK'
<1> USE DEF DockerInv, Docker!TypeOK, LeftoversOK, RunsOK, Docker!daemonVars,
        Docker!envVars, Docker!Return, Docker!Goto
<1>1. ASSUME UNCHANGED <<exists, known, failed, late>>, result' = result \/ result = Docker!None,
             pc' # "returned" \/ pc' = pc
      PROVE  LeftoversOK'
  BY <1>1 DEF Docker!None
<1>2. CASE Docker!Create
  BY <1>2 DEF Docker!Create, Docker!None
<1>3. CASE Docker!CreateFails
  BY <1>3 DEF Docker!CreateFails, Docker!None, Docker!Error
<1>4. CASE \/ Docker!Stage \/ Docker!Start \/ Docker!Exits \/ Docker!Floods \/ Docker!Overruns
           \/ Docker!WaitFails \/ Docker!Killed \/ Docker!Inspect \/ Docker!Cancel \/ Docker!Tick
  BY <1>1, <1>4 DEF Docker!Stage, Docker!Start, Docker!Exits, Docker!Floods,
     Docker!Overruns, Docker!WaitFails, Docker!Killed, Docker!Inspect, Docker!Cancel,
     Docker!Tick
<1>5. CASE Docker!RemoveRun
  BY <1>5 DEF Docker!RemoveRun, Docker!Removed, Docker!Judge, Docker!None
<1>6. CASE Docker!Returns
  BY <1>6 DEF Docker!Returns
<1>7. ASSUME NEW r \in Docker!Resources, Docker!Cleanup(r) PROVE LeftoversOK'
  BY <1>7 DEF Docker!Cleanup, Docker!Removed, Docker!Error
<1>8. ASSUME NEW r \in Docker!Resources,
             Docker!TakesEffect(r) \/ Docker!cleanupStaleResources(r)
      PROVE  LeftoversOK'
  BY <1>8 DEF Docker!TakesEffect, Docker!cleanupStaleResources, Docker!Removed
<1>9. QED
  BY <1>2, <1>3, <1>4, <1>5, <1>6, <1>7, <1>8 DEF Docker!Next

\* The runs of an attempt: what seen holds when the verdict is given.
LEMMA DockerRuns ==
    ASSUME DockerInv, Docker!Next
    PROVE  RunsOK' /\ Docker!VerdictJustified'
<1> USE DEF DockerInv, Docker!TypeOK, Docker!daemonVars, Docker!envVars
<1> DEFINE Good == RunsOK' /\ Docker!VerdictJustified'
<1>1. ASSUME pc' \in {"cleanup", "returned"}, result' = Docker!Error \/ result' = result,
             UNCHANGED <<seen>>
      PROVE  Good
  BY <1>1 DEF RunsOK, Docker!VerdictJustified, Docker!Error, Docker!Last
<1>2. ASSUME UNCHANGED <<seen, k, result>>, pc' = pc, ~parent => ~parent'
      PROVE  Good
  BY <1>2 DEF RunsOK, AllOk, Docker!VerdictJustified, Docker!Last
<1>3. ASSUME UNCHANGED <<seen, k, result>>, result = Docker!None,
             pc \in {"volume", "staging", "stage", "create", "start"},
             pc' \in {"volume", "staging", "stage", "create", "start", "running"},
             pc' \in {"volume", "staging", "stage"} => pc \in {"volume", "staging", "stage"}
      PROVE  Good
  BY <1>3 DEF RunsOK, AllOk, Docker!VerdictJustified, Docker!None
\* A run ends with x: seen grows by it.
<1>4. ASSUME pc = "running", NEW x \in Docker!Runs, seen' = Append(seen, x)
      PROVE  /\ Len(seen') = k + 1 /\ seen'[k + 1] = x
             /\ \A j \in 1 .. k : seen'[j] = "ok"
  BY <1>4 DEF RunsOK, AllOk
<1>5. CASE Docker!Create
  BY <1>3, <1>5 DEF Docker!Create, Docker!Goto, RunsOK
<1>6. CASE Docker!CreateFails
  BY <1>1, <1>6 DEF Docker!CreateFails, Docker!Return, Docker!Goto
<1>7. CASE Docker!Stage \/ Docker!Start
  BY <1>1, <1>3, <1>7 DEF Docker!Stage, Docker!Start, Docker!Return, Docker!Goto, RunsOK
<1>8. CASE Docker!Exits
  <2>1. PICK x \in {"ok", "nonzero", "oom", "wrong"} :
          /\ seen' = Append(seen, x)
          /\ \/ k = 0 /\ x = "nonzero" /\ Docker!Return(Docker!Verdict("compile_error"))
             \/ /\ k = 0 /\ x = "ok"
                /\ Docker!Goto("remove", clock + CleanupTimeout) /\ UNCHANGED result
             \/ k > 0 /\ Docker!Goto("inspect", TotalTimeout) /\ UNCHANGED result
    BY <1>8 DEF Docker!Exits
  <2>2. pc = "running" /\ k' = k /\ result = Docker!None
    BY <1>8 DEF Docker!Exits, RunsOK
  <2>3. /\ Len(seen') = k + 1 /\ seen'[k + 1] = x
        /\ \A j \in 1 .. k : seen'[j] = "ok"
    BY <1>4, <2>1, <2>2 DEF Docker!Runs
  <2>4. RunsOK'
    BY <2>1, <2>2, <2>3 DEF RunsOK, AllOk, Docker!Return, Docker!Goto
  <2>5. Docker!VerdictJustified'
    BY <2>1, <2>2, <2>3 DEF Docker!VerdictJustified, Docker!Return, Docker!Goto,
       Docker!Verdict, Docker!Last, Docker!None
  <2>6. QED
    BY <2>4, <2>5
<1>9. CASE Docker!Floods
  <2>1. /\ pc = "running" /\ k' = k /\ result = Docker!None
        /\ seen' = Append(seen, "flood")
        /\ \/ pc' = "flooded" /\ result' = result
           \/ pc' = "cleanup" /\ result' = Docker!Verdict("output_limit")
    BY <1>9 DEF Docker!Floods, Docker!Return, Docker!Goto, RunsOK
  <2>2. /\ Len(seen') = k + 1 /\ seen'[k + 1] = "flood"
        /\ \A j \in 1 .. k : seen'[j] = "ok"
    BY <1>4, <2>1 DEF Docker!Runs
  <2>3. RunsOK'
    BY <2>1, <2>2 DEF RunsOK, AllOk
  <2>4. Docker!VerdictJustified'
    BY <2>1, <2>2 DEF Docker!VerdictJustified, Docker!Verdict, Docker!Last, Docker!None
  <2>5. QED
    BY <2>3, <2>4
<1>10. CASE Docker!Overruns
  <2>1. PICK x \in {"overrun", "cancelled"} : seen' = Append(seen, x) /\ (x = "cancelled" => ~parent)
    BY <1>10 DEF Docker!Overruns
  <2>2. /\ pc = "running" /\ pc' = "stopping" /\ UNCHANGED <<k, parent, result>>
        /\ result = Docker!None
    BY <1>10 DEF Docker!Overruns, Docker!Goto, RunsOK
  <2>3. /\ Len(seen') = k + 1 /\ seen'[k + 1] = x
        /\ \A j \in 1 .. k : seen'[j] = "ok"
    BY <1>4, <2>1, <2>2 DEF Docker!Runs
  <2>4. QED
    BY <2>1, <2>2, <2>3 DEF RunsOK, AllOk, Docker!VerdictJustified, Docker!None
<1>11. CASE Docker!WaitFails
  BY <1>1, <1>11 DEF Docker!WaitFails, Docker!Return, Docker!Goto, RunsOK,
     Docker!VerdictJustified, Docker!None
<1>12. CASE Docker!Killed
  <2>1. pc' = "cleanup" /\ result' = Docker!classifyProcessError /\ UNCHANGED <<k, seen>>
    BY <1>12 DEF Docker!Killed, Docker!Return, Docker!Goto
  <2>2. CASE result' = Docker!Error
    BY <1>1, <2>1, <2>2
  <2>3. CASE pc = "flooded" /\ result' = Docker!Verdict("output_limit")
    BY <2>1, <2>3 DEF RunsOK, AllOk, Docker!VerdictJustified, Docker!Verdict, Docker!Last
  <2>4. CASE pc = "stopping" /\ parent /\ result' = Docker!Verdict("timeout")
    BY <2>1, <2>4 DEF RunsOK, AllOk, Docker!VerdictJustified, Docker!Verdict, Docker!Last
  <2>5. QED
    BY <1>12, <2>1, <2>2, <2>3, <2>4 DEF Docker!Killed, Docker!classifyProcessError
<1>13. CASE Docker!Inspect
  BY <1>1, <1>13 DEF Docker!Inspect, Docker!Return, Docker!Goto, RunsOK, AllOk,
     Docker!VerdictJustified, Docker!None
<1>14. CASE Docker!RemoveRun
  <2>1. /\ pc = "remove" /\ seen' = seen /\ result = Docker!None
        /\ Len(seen) = k + 1 /\ AllOk(k) /\ Docker!Last = seen[k + 1]
        /\ k = 0 => seen[1] = "ok"
    BY <1>14 DEF Docker!RemoveRun, RunsOK, Docker!Last
  <2>2. CASE pc' = "cleanup" /\ result' = Docker!Error
    BY <1>1, <2>1, <2>2
  <2>3. CASE /\ Docker!Last \in {"nonzero", "oom"} /\ pc' = "cleanup"
             /\ result' = Docker!Verdict("runtime_error")
    BY <2>1, <2>3 DEF RunsOK, AllOk, Docker!VerdictJustified, Docker!Verdict, Docker!Last
  <2>4. CASE /\ Docker!Last = "wrong" /\ pc' = "cleanup"
             /\ result' = Docker!Verdict("wrong_answer")
    BY <2>1, <2>4 DEF RunsOK, AllOk, Docker!VerdictJustified, Docker!Verdict, Docker!Last
  <2>5. CASE /\ Docker!Last = "ok" /\ k < NTests /\ k' = k + 1
             /\ pc' = "create" /\ result' = result
    <3>1. ASSUME NEW j \in 1 .. k + 1 PROVE seen[j] = "ok"
      <4>1. j \in 1 .. k \/ j = k + 1
        OBVIOUS
      <4>2. QED
        BY <2>1, <2>5, <4>1 DEF AllOk
    <3>2. RunsOK'
      BY <2>1, <2>5, <3>1 DEF RunsOK, AllOk
    <3>3. QED
      BY <2>1, <2>5, <3>2 DEF Docker!VerdictJustified, Docker!None
  <2>6. CASE /\ Docker!Last = "ok" /\ k = NTests /\ pc' = "cleanup"
             /\ result' = Docker!Pass
    <3>1. RunsOK'
      BY <2>6 DEF RunsOK
    <3>2. /\ Len(seen') = NTests + 1 /\ seen'[Len(seen')] = "ok"
          /\ \A j \in 1 .. Len(seen') - 1 : seen'[j] = "ok"
      BY <2>1, <2>6 DEF AllOk
    <3>3. QED
      BY <2>6, <3>1, <3>2, Limits DEF Docker!VerdictJustified, Docker!Pass, Docker!Last
  <2>7. QED
    BY <1>14, <2>2, <2>3, <2>4, <2>5, <2>6 DEF Docker!RemoveRun, Docker!Judge,
       Docker!Return, Docker!Goto
<1>15. CASE Docker!Returns \/ \E r \in Docker!Resources : Docker!Cleanup(r)
  BY <1>1, <1>15 DEF Docker!Returns, Docker!Cleanup, Docker!Goto
<1>16. CASE \/ Docker!Cancel \/ Docker!Tick
            \/ \E r \in Docker!Resources :
                 Docker!TakesEffect(r) \/ Docker!cleanupStaleResources(r)
  BY <1>2, <1>16 DEF Docker!Cancel, Docker!Tick, Docker!TakesEffect,
     Docker!cleanupStaleResources
<1>17. QED
  BY <1>5, <1>6, <1>7, <1>8, <1>9, <1>10, <1>11, <1>12, <1>13, <1>14, <1>15, <1>16
     DEF Docker!Next

LEMMA DockerNext ==
    ASSUME DockerInv, Docker!Next
    PROVE  DockerInv'
BY DockerTypes, DockerTimes, DockerRuns, DockerLeftovers DEF DockerInv

-----------------------------------------------------------------------------
(* The composition.                                                        *)

LEMMA IInvInit == Init => IInv
BY DockerInit, KubernetesInit DEF Init, NewDockerExecutor, NewKubernetesJobExecutor, IInv

LEMMA IInvNext == IInv /\ [Next]_vars => IInv'
<1> SUFFICES ASSUME IInv, [Next]_vars PROVE IInv'
  OBVIOUS
<1>1. CASE OfDocker(Docker!Next)
  BY <1>1, DockerNext DEF OfDocker, IInv
<1>2. CASE OfKubernetes(Kubernetes!Next)
  BY <1>2, KubernetesNext DEF OfKubernetes, IInv
<1>3. CASE UNCHANGED vars
  <2>1. /\ UNCHANGED <<executor, pc, clock, by, parent, result>>
        /\ UNCHANGED <<k, exists, born, late, known, failed, seen>>
        /\ UNCHANGED <<start, job, made, over, pod, message, ended, gone>>
    BY <1>3 DEF vars, attemptVars, dockerVars, kubernetesVars
  <2>2. DockerInv => DockerInv'
    BY <2>1 DEF DockerInv, Docker!TypeOK, TimesOK, RunsOK, AllOk, Docker!VerdictJustified,
       Docker!Last, LeftoversOK
  <2>3. KubernetesInv => KubernetesInv'
    BY <2>1 DEF KubernetesInv, Kubernetes!TypeOK, WindowOK, ClusterOK, UnreadOK,
       Kubernetes!VerdictKept, Kubernetes!LostToTTL, Kubernetes!JobIsOver
  <2>4. QED
    BY <2>1, <2>2, <2>3 DEF IInv
<1>4. QED
  BY <1>1, <1>2, <1>3 DEF Next

LEMMA Invariance == Spec => []IInv
BY IInvInit, IInvNext, PTL DEF Spec

LEMMA DockerFits ==
    ASSUME DockerInv
    PROVE  Docker!FitsLease
BY Limits DEF DockerInv, Docker!TypeOK, TimesOK, Working, Killing, Docker!FitsLease

(***************************************************************************)
(* For every configuration that Validate admits and whatever time a call   *)
(* to the API server takes, an attempt of the Docker executor ends within  *)
(* its lease, one of the Kubernetes executor within a window that Validate *)
(* does not compare with the lease: start-up grace, creation, last poll    *)
(* and deletion.                                                           *)
(***************************************************************************)
THEOREM EndsInWindowHolds == Spec => []EndsInWindow
<1>1. IInv => EndsInWindow
  <2>1. KubernetesInv => Kubernetes!WindowHolds
    BY Limits, ClusterTimes DEF KubernetesInv, Kubernetes!TypeOK, WindowOK,
       Kubernetes!WindowHolds
  <2>2. QED
    BY <2>1, DockerFits DEF IInv, EndsInWindow
<1>2. QED
  BY <1>1, Invariance, PTL

(***************************************************************************)
(* Every verdict is what the code under test did, and every timeout a      *)
(* limit that has passed, for every configuration that Validate admits,    *)
(* any number of tests, any lag of the cluster and any time of its calls.  *)
(* A report that came in time is lost only where the TTL may be as short   *)
(* as the distance of two polls, and then to the TTL.                      *)
(***************************************************************************)
THEOREM VerdictIsTrueHolds == Spec => []VerdictIsTrue
<1>1. IInv => VerdictIsTrue
  BY DEF IInv, DockerInv, KubernetesInv, VerdictIsTrue
<1>2. QED
  BY <1>1, Invariance, PTL

(***************************************************************************)
(* A pass that the worker accepts from Kubernetes is the harness's report  *)
(* of all tests.                                                           *)
(***************************************************************************)
THEOREM NoFalsePassHolds == Spec => []NoFalsePass
<1>1. KubernetesInv => Kubernetes!NoFalsePass
  <2> SUFFICES ASSUME KubernetesInv, result.kind = "pass", Kubernetes!Accepted(result)
               PROVE  message = [kind |-> "pass", tests |-> NTests]
    BY DEF Kubernetes!NoFalsePass
  <2>1. result = Kubernetes!classifyTerminated(message)
    BY DEF KubernetesInv, Kubernetes!VerdictKept, Kubernetes!Timeout, Kubernetes!Outcome
  <2>2. result.tests = NTests /\ NTests # 0
    BY Limits DEF Kubernetes!Accepted
  <2>3. message.kind \in Kubernetes!Kinds /\ result = message
    BY <2>1, <2>2 DEF Kubernetes!classifyTerminated, Kubernetes!Outcome
  <2>4. message.kind = "pass" /\ message.tests = NTests
    BY <2>2, <2>3
  <2>5. message \in [kind : Kubernetes!Kinds, tests : {0}]
                  \cup [kind : {"pass"}, tests : 0 .. NTests + 1]
    BY <2>3 DEF KubernetesInv, Kubernetes!TypeOK, Kubernetes!Messages, Kubernetes!Outcome,
       Kubernetes!None, Kubernetes!Kinds
  <2>6. QED
    BY <2>4, <2>5
<1>2. IInv => NoFalsePass
  BY <1>1 DEF IInv, NoFalsePass
<1>3. QED
  BY <1>2, Invariance, PTL

(***************************************************************************)
(* Nothing is left in the Docker daemon unaccounted, whichever call fails  *)
(* and whatever the daemon does late.                                      *)
(***************************************************************************)
THEOREM NothingLeaksHolds == Spec => []NothingLeaks
<1>1. DockerInv => Docker!NothingLeaks
  BY DEF DockerInv, Docker!TypeOK, LeftoversOK, Docker!NothingLeaks
<1>2. IInv => NothingLeaks
  BY <1>1 DEF IInv, NothingLeaks
<1>3. QED
  BY <1>2, Invariance, PTL

(***************************************************************************)
(* No executor that starts takes the resources of a living attempt for     *)
(* stale: the attempt is over before the lease is.                         *)
(***************************************************************************)
THEOREM SparesTheLivingHolds == Spec => SparesTheLiving
<1> DEFINE Spared == pc \notin {"remove", "cleanup", "returned"} => exists \subseteq exists'
<1>1. IInv /\ [Next]_vars => [Spared]_(Docker!vars)
  <2> SUFFICES ASSUME IInv, [Next]_vars, pc \notin {"remove", "cleanup", "returned"}
               PROVE  exists \subseteq exists'
    BY DEF Docker!vars
  <2>1. CASE OfDocker(Docker!Next)
    <3>1. ASSUME NEW r \in Docker!Resources, Docker!cleanupStaleResources(r)
          PROVE  FALSE
      <4>1. Docker!FitsLease /\ Docker!TypeOK
        BY <2>1, DockerFits DEF IInv, OfDocker, DockerInv
      <4>2. QED
        BY <3>1, <4>1, Limits DEF Docker!cleanupStaleResources, Docker!IsStale,
           Docker!FitsLease, Docker!TypeOK
    <3>2. QED
      BY <2>1, <3>1 DEF OfDocker, Docker!Next, Docker!Create, Docker!CreateFails, Docker!Stage,
         Docker!Start, Docker!Exits, Docker!Floods, Docker!Overruns, Docker!WaitFails,
         Docker!Killed, Docker!Inspect, Docker!RemoveRun, Docker!Returns, Docker!Cleanup,
         Docker!Cancel, Docker!Tick, Docker!TakesEffect, Docker!daemonVars
  <2>2. CASE OfKubernetes(Kubernetes!Next) \/ UNCHANGED vars
    BY <2>2 DEF OfKubernetes, vars, dockerVars
  <2>3. QED
    BY <2>1, <2>2 DEF Next
<1>2. QED
  BY <1>1, Invariance, PTL DEF Spec, SparesTheLiving, Docker!SparesTheLiving
=============================================================================
