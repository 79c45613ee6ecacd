---------------------------- MODULE JudgeWorkers ----------------------------
(***************************************************************************)
(* The worker pool of a judge process and its shutdown: runJudgeWorkers    *)
(* (internal/judge/run.go) and the loop of judgeService.run (service.go).  *)
(* The signal cancels reads at once; running jobs have shutdownGrace.      *)
(*                                                                         *)
(* A clock counts from the start.  Waiting takes time, the program's own   *)
(* steps do not.  What a job does is SubmissionPipeline's concern; here it *)
(* ends by itself or, once its context is cancelled, within Unwind.        *)
(* worker.run returns only when its read context has ended, so the branch  *)
(* of runJudgeWorkers for another error is never taken and left out.       *)
(***************************************************************************)
EXTENDS Naturals

CONSTANTS
    Workers,
    shutdownGrace,   \* total timeout and two cleanup timeouts
    Unwind,          \* how long a cancelled job may take to end
    LastSignal       \* bound: when the process is told to stop at the latest

ASSUME GraceAssumption ==
    /\ shutdownGrace \in Nat \ {0}
    /\ Unwind \in Nat /\ LastSignal \in Nat

VARIABLES
    clock,
    ctx,       \* the process has not been told to stop; readCtx ends with it
    told,      \* when it was
    work,      \* workCtx is alive
    timer,     \* forceStop is set
    forceStop, \* when it fires
    pc,        \* what each worker does
    begun,     \* when its last job began
    stopped,   \* when workCtx was cancelled
    cut,       \* the workers that were in a job at that moment
    loop       \* runJudgeWorkers is in its loop

timerVars == <<timer, forceStop>>
stopVars == <<work, stopped, cut>>
vars == <<clock, ctx, told, timerVars, pc, begun, stopVars, loop>>
processVars == <<clock, ctx, told, timerVars, stopVars, loop>>

TypeOK ==
    /\ clock \in Nat /\ told \in Nat /\ forceStop \in Nat /\ stopped \in Nat
    /\ ctx \in BOOLEAN /\ work \in BOOLEAN /\ timer \in BOOLEAN /\ loop \in BOOLEAN
    /\ pc \in [Workers -> {"top", "reading", "retry", "processing", "done", "counted"}]
    /\ begun \in [Workers -> Nat]
    /\ cut \in SUBSET Workers

Init ==
    /\ clock = 0 /\ ctx = TRUE /\ told = 0 /\ loop = TRUE
    /\ timer = FALSE /\ forceStop = 0
    /\ work = TRUE /\ stopped = 0 /\ cut = {}
    /\ pc = [w \in Workers |-> "top"]
    /\ begun = [w \in Workers |-> 0]

-----------------------------------------------------------------------------
(***************************************************************************)
(* judgeService.run.                                                       *)
(***************************************************************************)
Goto(w, from, to) == pc[w] = from /\ pc' = [pc EXCEPT ![w] = to]

\* Fault: reads use the work context, as jobs do.
TopReadsOn(w) ==
    /\ Goto(w, "top", IF work THEN "reading" ELSE "done")
    /\ UNCHANGED <<processVars, begun>>

Top(w) ==
    /\ Goto(w, "top", IF ctx THEN "reading" ELSE "done")
    /\ UNCHANGED <<processVars, begun>>

\* A job is delivered.
ReadJob(w) ==
    /\ Goto(w, "reading", "processing")
    /\ begun' = [begun EXCEPT ![w] = clock]
    /\ UNCHANGED processVars

\* Nothing came in judgeReadBlock, or the read failed.
ReadNothing(w) ==
    /\ \/ Goto(w, "reading", "top")
       \/ ctx /\ Goto(w, "reading", "retry")
    /\ UNCHANGED <<processVars, begun>>

\* The read is cancelled; a job that Redis has delivered by then stays in the
\* pending list for the reaper.
ReadCancelled(w) ==
    /\ ~ctx
    /\ Goto(w, "reading", "done")
    /\ UNCHANGED <<processVars, begun>>

\* waitJudgeRetry ends by its timer or by the read context.
Retry(w) ==
    /\ Goto(w, "retry", "top") \/ (~ctx /\ Goto(w, "retry", "done"))
    /\ UNCHANGED <<processVars, begun>>

\* processJob returns, with or without an error.
Finish(w) ==
    /\ Goto(w, "processing", "top")
    /\ UNCHANGED <<processVars, begun>>

-----------------------------------------------------------------------------
(***************************************************************************)
(* runJudgeWorkers.                                                        *)
(***************************************************************************)

\* workCtx is cancelled.
CancelWork ==
    /\ work' = FALSE /\ stopped' = clock
    /\ cut' = {w \in Workers : pc[w] = "processing"}

\* Fault: workCtx is a child of ctx.
SignalReachesJobs ==
    /\ ctx /\ clock <= LastSignal
    /\ ctx' = FALSE /\ told' = clock
    /\ CancelWork
    /\ UNCHANGED <<clock, timerVars, pc, begun, loop>>

Signal ==
    /\ ctx /\ clock <= LastSignal
    /\ ctx' = FALSE /\ told' = clock
    /\ UNCHANGED <<clock, timerVars, pc, begun, stopVars, loop>>

\* shutdownSignal is still set; it becomes nil when the timer is made.
SignalUnseen == loop /\ ~ctx /\ work /\ ~timer

\* Fault: the timer is made when the last read has ended.
StartTimerLate ==
    /\ SignalUnseen
    /\ \A w \in Workers : pc[w] \in {"done", "counted"}
    /\ timer' = TRUE /\ forceStop' = clock + shutdownGrace
    /\ UNCHANGED <<clock, ctx, told, pc, begun, stopVars, loop>>

\* The loop sees the signal.
StartTimer ==
    /\ SignalUnseen
    /\ timer' = TRUE /\ forceStop' = clock + shutdownGrace
    /\ UNCHANGED <<clock, ctx, told, pc, begun, stopVars, loop>>

\* Fault: the end of the grace period is only logged.
ForceStopLogged ==
    /\ loop /\ timer /\ clock >= forceStop
    /\ timer' = FALSE
    /\ UNCHANGED <<clock, ctx, told, forceStop, pc, begun, stopVars, loop>>

ForceStop ==
    /\ loop /\ timer /\ clock >= forceStop
    /\ timer' = FALSE
    /\ CancelWork
    /\ UNCHANGED <<clock, ctx, told, forceStop, pc, begun, loop>>

\* The loop receives a worker's return.
Collect(w) ==
    /\ loop
    /\ Goto(w, "done", "counted")
    /\ UNCHANGED <<processVars, begun>>

\* Every worker has returned; the executor is closed after that.
Return ==
    /\ loop
    /\ \A w \in Workers : pc[w] = "counted"
    /\ loop' = FALSE
    /\ UNCHANGED <<clock, ctx, told, timerVars, pc, begun, stopVars>>

\* Time passes while everybody waits: workers in a read, a retry or a job,
\* the loop for a worker or its timer.  A wait on a context that has ended is
\* over, and a job with a cancelled context ends in time.
Waiting ==
    /\ \A w \in Workers :
         \/ pc[w] \in {"reading", "retry"} /\ ctx
         \/ pc[w] = "processing"
         \/ pc[w] = "counted"
    /\ ~SignalUnseen
    /\ timer => clock < forceStop
    /\ \E w \in Workers : pc[w] # "counted"
    /\ ~work /\ (\E w \in Workers : pc[w] = "processing") => clock < stopped + Unwind

Tick ==
    /\ loop /\ Waiting
    /\ ctx => clock < LastSignal
    /\ clock' = clock + 1
    /\ UNCHANGED <<ctx, told, timerVars, pc, begun, stopVars, loop>>

WorkerStep(w) ==
    \/ Top(w) \/ ReadJob(w) \/ ReadNothing(w) \/ ReadCancelled(w)
    \/ Retry(w) \/ Finish(w) \/ Collect(w)

Next ==
    \/ \E w \in Workers : WorkerStep(w)
    \/ Signal \/ StartTimer \/ ForceStop \/ Return \/ Tick

Spec == Init /\ [][Next]_vars

\* Goroutines run, a cancelled read or job ends, and time passes.  A job need
\* not end by itself, nor a process be told to stop.
LoopStep ==
    \/ StartTimer \/ ForceStop \/ Return
    \/ \E w \in Workers : Top(w) \/ ReadCancelled(w) \/ Collect(w)
         \/ (~ctx /\ Retry(w)) \/ (~work /\ Finish(w))

FairSpec == Spec /\ WF_vars(LoopStep) /\ WF_vars(Tick)

-----------------------------------------------------------------------------
(***************************************************************************)
(* Properties.                                                             *)
(***************************************************************************)

(***************************************************************************)
(* A job that shutdown cuts off has run for the whole grace period, which  *)
(* is what a Docker attempt takes at most: no job begins after the signal  *)
(* and none is cancelled by it.                                            *)
(***************************************************************************)
CutOnlyAfterGrace == \A w \in cut : stopped >= begun[w] + shutdownGrace

(***************************************************************************)
(* The process does not end under a worker: when runJudgeWorkers has       *)
(* returned, and the executor is closed, no worker still runs a job.       *)
(***************************************************************************)
NoneAbandoned == ~loop => \A w \in Workers : pc[w] = "counted"

(***************************************************************************)
(* Shutdown is bounded: the grace period and the time a cancelled job      *)
(* takes to end, whatever jobs and reads were going on.                    *)
(***************************************************************************)
EndsInTime == ~ctx /\ loop => clock <= told + shutdownGrace + Unwind

\* A process that is told to stop does stop.
ShutdownEnds == ~ctx ~> ~loop
=============================================================================
