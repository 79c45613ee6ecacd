--------------------------- MODULE DockerExecutor ---------------------------
(***************************************************************************)
(* DockerExecutor.Execute (internal/judge/docker_executor.go), one attempt *)
(* with a clock: a workspace volume, a staging container, a compile run,   *)
(* one container per test, and the deferred cleanup, under the total       *)
(* timeout, the stage timeouts and the cleanup timeout.                    *)
(*                                                                         *)
(* The clock starts with Execute.  An engine call returns at the latest    *)
(* when its context ends (by); the program's own steps take no time.       *)
(* Attempts share nothing but the daemon: names carry the attempt's ID, so *)
(* another attempt matters only through the removal of stale resources     *)
(* when an executor starts.                                                *)
(***************************************************************************)
EXTENDS ExecutorLimits, Sequences

VARIABLES
    pc,        \* the call Execute is in
    k,         \* the run it belongs to: 0 for compile, n for test n
    clock,
    by,        \* when the context of that call ends
    parent,    \* the context that Execute was given is alive
    exists,    \* resources that the daemon has
    born,      \* when each of them was created
    late,      \* creations that were given up: not yet or since in effect
    known,     \* attemptResources: what cleanup is to remove
    failed,    \* what cleanup could not remove
    seen,      \* what each run, the compilation first, really did
    result     \* outcome

vars == <<pc, k, clock, by, parent, exists, born, late, known, failed, seen, result>>

-----------------------------------------------------------------------------
Volume == <<"volume", 0>>
Staging == <<"staging", 0>>
Run(n) == <<"run", n>>
Containers == {Staging} \cup {Run(n) : n \in 0 .. NTests}
Resources == {Volume} \cup Containers

Runs == {"ok", "nonzero", "oom", "wrong", "flood", "overrun", "cancelled"}
Outcomes == [kind : {"pass", "wrong_answer", "compile_error", "runtime_error",
                     "output_limit", "timeout", "error", "none"},
             tests : 0 .. NTests]

None == [kind |-> "none", tests |-> 0]
Error == [kind |-> "error", tests |-> 0]

\* TestsPassed is the index of the run in request.Tests, 0 for compilation.
Verdict(kind) == [kind |-> kind, tests |-> IF k = 0 THEN 0 ELSE k - 1]
Pass == [kind |-> "pass", tests |-> NTests]

TypeOK ==
    /\ pc \in {"volume", "staging", "stage", "create", "start", "running", "flooded",
               "stopping", "broken", "inspect", "remove", "cleanup", "returned"}
    /\ k \in 0 .. NTests
    /\ clock \in Nat
    /\ by \in Nat
    /\ parent \in BOOLEAN
    /\ exists \in SUBSET Resources
    /\ born \in [Resources -> Nat]
    /\ late \in [Resources -> {"no", "pending", "done"}]
    /\ known \in SUBSET Resources
    /\ failed \in SUBSET Resources
    /\ seen \in Seq(Runs)
    /\ result \in Outcomes

Init ==
    /\ pc = "volume" /\ k = 0
    /\ clock = 0 /\ by = TotalTimeout /\ parent = TRUE
    /\ exists = {} /\ born = [r \in Resources |-> 0]
    /\ late = [r \in Resources |-> "no"]
    /\ known = {} /\ failed = {}
    /\ seen = <<>> /\ result = None

daemonVars == <<exists, born, late>>
envVars == <<clock, parent>>

\* totalCtx, which ends with its parent.
TotalLive == parent /\ clock < TotalTimeout

Min(a, b) == IF a < b THEN a ELSE b

\* compileCtx and testCtx end with totalCtx at the latest.
StageEnd == Min(clock + (IF k = 0 THEN CompileTimeout ELSE TestTimeout), TotalTimeout)

\* The next call, under a context that ends at t.
Goto(to, t) == pc' = to /\ by' = t

\* Fault: every removal has a cleanup timeout of its own.
ReturnUnhurried(r) ==
    /\ result' = r
    /\ Goto("cleanup", clock + CleanupTimeout * 3)

\* Execute returns r: the deferred cleanup begins.
Return(r) ==
    /\ result' = r
    /\ Goto("cleanup", clock + CleanupTimeout)

-----------------------------------------------------------------------------
(***************************************************************************)
(* Creating the workspace and the containers.                              *)
(***************************************************************************)

\* The resource that the call at pc creates.
Creating == CASE pc = "volume" -> Volume
              [] pc = "staging" -> Staging
              [] pc = "create" -> Run(k)
              [] OTHER -> Volume

Create ==
    /\ pc \in {"volume", "staging", "create"}
    /\ TotalLive
    /\ exists' = exists \cup {Creating}
    /\ born' = [born EXCEPT ![Creating] = clock]
    /\ known' = known \cup {Creating}
    /\ CASE pc = "volume" -> Goto("staging", TotalTimeout)
         [] pc = "staging" -> Goto("stage", TotalTimeout)
         [] OTHER -> Goto("start", StageEnd)
    /\ UNCHANGED <<envVars, k, late, failed, seen, result>>

\* Fault: a container is recorded only when its creation succeeded.
CreateFailsUnrecorded ==
    /\ pc \in {"volume", "staging", "create"}
    /\ \/ UNCHANGED daemonVars
       \/ /\ exists' = exists \cup {Creating}
          /\ born' = [born EXCEPT ![Creating] = clock]
          /\ UNCHANGED late
    /\ Return(Error)
    /\ UNCHANGED <<envVars, k, known, failed, seen>>

\* The call fails or its context ends.  The daemon may have created the
\* resource, or may do so later; cleanup will ask for it by its name.
CreateFails ==
    /\ pc \in {"volume", "staging", "create"}
    /\ known' = known \cup {Creating}
    /\ \/ UNCHANGED daemonVars
       \/ /\ exists' = exists \cup {Creating}
          /\ born' = [born EXCEPT ![Creating] = clock]
          /\ UNCHANGED late
       \/ /\ late' = [late EXCEPT ![Creating] = "pending"]
          /\ UNCHANGED <<exists, born>>
    /\ Return(Error)
    /\ UNCHANGED <<envVars, k, failed, seen>>

\* ContainerStart and CopyToContainer of the staging container.
Stage ==
    /\ pc = "stage"
    /\ \/ /\ TotalLive /\ Staging \in exists
          /\ Goto("create", TotalTimeout) /\ UNCHANGED result
       \/ Return(Error)
    /\ UNCHANGED <<envVars, daemonVars, k, known, failed, seen>>

-----------------------------------------------------------------------------
(***************************************************************************)
(* runContainer.                                                           *)
(***************************************************************************)

\* ContainerAttach and ContainerStart, which the stage's timeout covers too.
Start ==
    /\ pc = "start"
    /\ \/ /\ parent /\ clock < by /\ Run(k) \in exists
          /\ Goto("running", by) /\ UNCHANGED result
       \/ Return(Error)
    /\ UNCHANGED <<envVars, daemonVars, k, known, failed, seen>>

\* The process ends by itself and its output has been read.  A compilation
\* that failed is a verdict; the container of one that did not is removed,
\* that of a test inspected first.
Exits ==
    /\ pc = "running"
    /\ \E x \in {"ok", "nonzero", "oom", "wrong"} :
         /\ seen' = Append(seen, x)
         /\ \/ k = 0 /\ x = "nonzero" /\ Return(Verdict("compile_error"))
            \/ /\ k = 0 /\ x = "ok"
               /\ Goto("remove", clock + CleanupTimeout) /\ UNCHANGED result
            \/ k > 0 /\ Goto("inspect", TotalTimeout) /\ UNCHANGED result
    /\ UNCHANGED <<envVars, daemonVars, k, known, failed>>

\* The output exceeds the budget; the container is killed, within a cleanup
\* timeout, unless the process was found to have ended first.
Floods ==
    /\ pc = "running"
    /\ seen' = Append(seen, "flood")
    /\ \/ Goto("flooded", clock + CleanupTimeout) /\ UNCHANGED result
       \/ Return(Verdict("output_limit"))
    /\ UNCHANGED <<envVars, daemonVars, k, known, failed>>

\* Fault: only the end of the parent is noticed.
OverrunsUnnoticed ==
    /\ pc = "running"
    /\ ~parent
    /\ seen' = Append(seen, "cancelled")
    /\ Goto("stopping", clock + CleanupTimeout)
    /\ UNCHANGED <<envVars, daemonVars, k, known, failed, result>>

\* The context ends: the limit has passed or the parent was cancelled.
Overruns ==
    /\ pc = "running"
    /\ clock >= by \/ ~parent
    /\ seen' = Append(seen, IF clock >= by THEN "overrun" ELSE "cancelled")
    /\ Goto("stopping", clock + CleanupTimeout)
    /\ UNCHANGED <<envVars, daemonVars, k, known, failed, result>>

\* Reading fails, and the container is killed, or waiting does.  When the
\* process has closed its output and the context then ends, the select may
\* pick the failed wait, an infrastructure error, before the context.
WaitFails ==
    /\ pc = "running"
    /\ \/ Goto("broken", clock + CleanupTimeout) /\ UNCHANGED result
       \/ Return(Error)
    /\ UNCHANGED <<envVars, daemonVars, k, known, failed, seen>>

\* Fault: a cancelled attempt is taken for one that ran out of time.
classifyIgnoresParent ==
    CASE pc = "flooded" -> Verdict("output_limit")
      [] pc = "broken" -> Error
      [] OTHER -> Verdict("timeout")

\* Workers pass a context without a deadline, so that an ended parent was
\* cancelled.
classifyProcessError ==
    CASE pc = "flooded" -> Verdict("output_limit")
      [] pc = "broken" \/ ~parent -> Error
      [] OTHER -> Verdict("timeout")

\* kill has returned, with or without success.
Killed ==
    /\ pc \in {"flooded", "stopping", "broken"}
    /\ Return(classifyProcessError)
    /\ UNCHANGED <<envVars, daemonVars, k, known, failed, seen>>

-----------------------------------------------------------------------------
(***************************************************************************)
(* After a run.                                                            *)
(***************************************************************************)
Last == seen[Len(seen)]

\* ContainerInspect, for the OOM flag.
Inspect ==
    /\ pc = "inspect"
    /\ \/ /\ TotalLive /\ Run(k) \in exists
          /\ Goto("remove", clock + CleanupTimeout) /\ UNCHANGED result
       \/ Return(Error)
    /\ UNCHANGED <<envVars, daemonVars, k, known, failed, seen>>

\* The end of an iteration: a verdict, an error when the inspection had no
\* state, the next test, or a pass.
Judge ==
    \/ Last \in {"nonzero", "oom"} /\ Return(Verdict("runtime_error")) /\ UNCHANGED k
    \/ k > 0 /\ Return(Error) /\ UNCHANGED k
    \/ Last = "wrong" /\ Return(Verdict("wrong_answer")) /\ UNCHANGED k
    \/ /\ Last = "ok" /\ k < NTests
       /\ k' = k + 1 /\ Goto("create", TotalTimeout) /\ UNCHANGED result
    \/ Last = "ok" /\ k = NTests /\ Return(Pass) /\ UNCHANGED k

\* The daemon removes r; its creation time goes with it.
Removed(r) ==
    /\ exists' = exists \ {r}
    /\ born' = [born EXCEPT ![r] = 0]

RemoveRun ==
    /\ pc = "remove"
    /\ \/ /\ Run(k) \in exists
          /\ Removed(Run(k))
          /\ known' = known \ {Run(k)}
          /\ Judge
       \/ /\ Removed(Run(k)) \/ UNCHANGED <<exists, born>>
          /\ Return(Error) /\ UNCHANGED <<k, known>>
    /\ UNCHANGED <<envVars, late, failed, seen>>

\* Fault: an error of cleanup is logged and the outcome kept.
CleanupKeepsOutcome(r) ==
    /\ pc = "cleanup" /\ r \in known
    /\ r = Staging => known \subseteq {Staging, Volume}
    /\ r = Volume => known = {Volume}
    /\ known' = known \ {r}
    /\ \/ /\ r = Volume => exists \subseteq {Volume}
          /\ Removed(r) /\ UNCHANGED failed
       \/ /\ Removed(r) \/ UNCHANGED <<exists, born>>
          /\ failed' = failed \cup {r}
    /\ UNCHANGED <<envVars, pc, k, by, late, seen, result>>

\* One removal of cleanup: the containers, the last one first, then the
\* volume, which the daemon keeps while a container uses it.  A resource that
\* is not there is no error; a failed call may have removed it all the same.
Cleanup(r) ==
    /\ pc = "cleanup" /\ r \in known
    /\ r = Staging => known \subseteq {Staging, Volume}
    /\ r = Volume => known = {Volume}
    /\ known' = known \ {r}
    /\ \/ /\ r = Volume => exists \subseteq {Volume}
          /\ Removed(r) /\ UNCHANGED <<failed, result>>
       \/ /\ Removed(r) \/ UNCHANGED <<exists, born>>
          /\ failed' = failed \cup {r} /\ result' = Error
    /\ UNCHANGED <<envVars, pc, k, by, late, seen>>

Returns ==
    /\ pc = "cleanup" /\ known = {}
    /\ Goto("returned", clock)
    /\ UNCHANGED <<envVars, daemonVars, k, known, failed, seen, result>>

-----------------------------------------------------------------------------
(***************************************************************************)
(* The surroundings.                                                       *)
(***************************************************************************)

\* runJudgeWorkers cancels the work context.
Cancel ==
    /\ parent /\ pc # "returned"
    /\ parent' = FALSE
    /\ UNCHANGED <<daemonVars, pc, k, clock, by, known, failed, seen, result>>

\* The daemon carries out a creation that was given up.
TakesEffect(r) ==
    /\ late[r] = "pending"
    /\ late' = [late EXCEPT ![r] = "done"]
    /\ exists' = exists \cup {r}
    /\ born' = [born EXCEPT ![r] = clock]
    /\ UNCHANGED <<envVars, pc, k, by, known, failed, seen, result>>

\* Fault: resources are stale after the total timeout.
IsStaleEarly(r) == born[r] + TotalTimeout <= clock

IsStale(r) == born[r] + AttemptLease <= clock

\* Another executor starts and removes what is stale, whoever made it.
cleanupStaleResources(r) ==
    /\ r \in exists /\ IsStale(r)
    /\ r = Volume => exists = {Volume}
    /\ Removed(r)
    /\ UNCHANGED <<envVars, pc, k, by, late, known, failed, seen, result>>

\* Time passes only while the current call may still wait, and after the
\* attempt until what it left behind may be stale.
Tick ==
    /\ IF pc = "returned" THEN exists # {} /\ clock < AttemptLease ELSE clock < by
    /\ clock' = clock + 1
    /\ UNCHANGED <<daemonVars, pc, k, by, parent, known, failed, seen, result>>

Next ==
    \/ Create \/ CreateFails \/ Stage \/ Start
    \/ Exits \/ Floods \/ Overruns \/ WaitFails \/ Killed
    \/ Inspect \/ RemoveRun \/ Returns
    \/ \E r \in Resources : Cleanup(r)
    \/ Cancel \/ Tick
    \/ \E r \in Resources : TakesEffect(r) \/ cleanupStaleResources(r)

Spec == Init /\ [][Next]_vars

\* What the executor does by itself: calls return when their context ends, but
\* the code under test need never end, print or fail.
Step ==
    \/ Create \/ CreateFails \/ Stage \/ Start \/ Overruns \/ Killed
    \/ Inspect \/ RemoveRun \/ Returns
    \/ \E r \in Resources : Cleanup(r)

-----------------------------------------------------------------------------
(***************************************************************************)
(* Properties.                                                             *)
(***************************************************************************)

(***************************************************************************)
(* An attempt takes no longer than the total timeout, one kill or removal  *)
(* and the cleanup, whichever call meets the deadline, and so ends within  *)
(* its lease with the set-up margin to spare.                              *)
(***************************************************************************)
FitsLease ==
    pc # "returned" => clock <= TotalTimeout + 2 * CleanupTimeout
                       /\ clock + SetupMargin < AttemptLease

(***************************************************************************)
(* An outcome that is not an error is what the code under test did: every  *)
(* run before the last was fine, the last one is the reason, TestsPassed   *)
(* counts the tests before it.  A timeout is a limit that really passed,   *)
(* never a cancelled attempt.                                              *)
(***************************************************************************)
VerdictJustified ==
    LET n == Len(seen) IN
    result.kind \notin {"none", "error"} =>
        /\ n > 0
        /\ \A j \in 1 .. n - 1 : seen[j] = "ok"
        /\ result.kind = "pass" => n = NTests + 1 /\ Last = "ok"
        /\ result.kind # "pass" =>
             /\ result.tests = (IF n = 1 THEN 0 ELSE n - 2)
             /\ Last \in (CASE result.kind = "wrong_answer" -> {"wrong"}
                            [] result.kind = "compile_error" -> {"nonzero"}
                            [] result.kind = "runtime_error" -> {"nonzero", "oom"}
                            [] result.kind = "output_limit" -> {"flood"}
                            [] OTHER -> {"overrun"})

(***************************************************************************)
(* What is left in the daemon when Execute returns is accounted for: after *)
(* a verdict nothing is left and nothing can appear, after an error only   *)
(* what a removal failed on or a creation that was given up brought later. *)
(***************************************************************************)
NothingLeaks ==
    pc = "returned" =>
        /\ result.kind # "error" =>
             exists = {} /\ \A r \in Resources : late[r] = "no"
        /\ exists \subseteq failed \cup {r \in Resources : late[r] = "done"}

(***************************************************************************)
(* Until an attempt removes its resources itself it keeps them, although   *)
(* any other executor that starts removes what it takes for stale.         *)
(***************************************************************************)
SparesTheLiving ==
    [][pc \notin {"remove", "cleanup", "returned"} =>
         exists \subseteq exists']_vars
=============================================================================
