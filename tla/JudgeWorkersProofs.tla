------------------------- MODULE JudgeWorkersProofs -------------------------
(***************************************************************************)
(* Proofs about JudgeWorkers, for every set of workers, every grace period *)
(* and every time that a cancelled job takes to end.                       *)
(***************************************************************************)
EXTENDS JudgeWorkers, TLAPS

(***************************************************************************)
(* Before the signal nothing is stopped.  After it the timer is made in    *)
(* the same instant, fires a grace period later and is not passed by; no   *)
(* read outlives the instant of the signal, so that the jobs that the      *)
(* timer meets began before it.                                            *)
(***************************************************************************)
PhasesOK ==
    /\ ctx => work /\ ~timer
    /\ work => cut = {}
    /\ ~ctx => told <= clock
    /\ loop /\ ~ctx /\ work /\ ~timer => clock = told
    /\ timer => work /\ forceStop = told + shutdownGrace /\ clock <= forceStop
    /\ ~work => /\ ~timer
                /\ stopped = told + shutdownGrace
                /\ stopped <= clock
                /\ loop => clock <= stopped + Unwind

JobsOK ==
    /\ \A w \in Workers : ~ctx /\ pc[w] = "reading" => clock = told
    /\ \A w \in Workers : pc[w] = "processing" =>
         begun[w] <= clock /\ (~ctx => begun[w] <= told)
    /\ \A w \in cut : begun[w] <= told

IInv == TypeOK /\ PhasesOK /\ JobsOK /\ NoneAbandoned

LEMMA InitIInv == Init => IInv
<1> SUFFICES ASSUME Init PROVE IInv
  OBVIOUS
<1>1. TypeOK
  BY DEF Init, TypeOK
<1>2. PhasesOK /\ NoneAbandoned
  BY DEF Init, PhasesOK, NoneAbandoned
<1>3. JobsOK
  BY DEF Init, JobsOK
<1>4. QED
  BY <1>1, <1>2, <1>3 DEF IInv

LEMMA WorkerIInv ==
    ASSUME IInv, NEW w \in Workers, WorkerStep(w)
    PROVE  IInv'
<1>1. TypeOK'
  BY DEF IInv, TypeOK, WorkerStep, Top, ReadJob, ReadNothing, ReadCancelled, Retry,
     Finish, Collect, Goto, processVars, timerVars, stopVars
<1>2. UNCHANGED processVars
  BY DEF WorkerStep, Top, ReadJob, ReadNothing, ReadCancelled, Retry, Finish, Collect
<1>3. PhasesOK'
  BY <1>2 DEF IInv, PhasesOK, processVars, timerVars, stopVars
<1>4. NoneAbandoned'
  BY <1>2 DEF IInv, TypeOK, NoneAbandoned, WorkerStep, Top, ReadJob, ReadNothing,
     ReadCancelled, Retry, Finish, Collect, Goto, processVars
<1>5. JobsOK'
  <2>1. CASE ReadJob(w)
    <3>1. ~ctx => clock = told
      BY <2>1 DEF IInv, JobsOK, ReadJob, Goto
    <3>2. w \notin cut
      BY <3>1, GraceAssumption DEF IInv, PhasesOK, TypeOK
    <3>3. QED
      BY <1>2, <2>1, <3>1, <3>2 DEF IInv, TypeOK, JobsOK, ReadJob, Goto, processVars,
         timerVars, stopVars
  <2>2. CASE Top(w) \/ ReadNothing(w) \/ ReadCancelled(w) \/ Retry(w) \/ Finish(w)
             \/ Collect(w)
    BY <1>2, <2>2 DEF IInv, TypeOK, JobsOK, Top, ReadNothing, ReadCancelled, Retry,
       Finish, Collect, Goto, processVars, timerVars, stopVars
  <2>3. QED
    BY <2>1, <2>2 DEF WorkerStep
<1>6. QED
  BY <1>1, <1>3, <1>4, <1>5 DEF IInv

LEMMA SignalIInv == IInv /\ Signal => IInv'
<1> SUFFICES ASSUME IInv, Signal PROVE IInv'
  OBVIOUS
<1>1. TypeOK'
  BY DEF IInv, TypeOK, Signal, timerVars, stopVars
<1>2. PhasesOK'
  BY DEF IInv, TypeOK, PhasesOK, Signal, timerVars, stopVars
<1>3. JobsOK'
  BY DEF IInv, TypeOK, PhasesOK, JobsOK, Signal, timerVars, stopVars
<1>4. NoneAbandoned'
  BY DEF IInv, NoneAbandoned, Signal
<1>5. QED
  BY <1>1, <1>2, <1>3, <1>4 DEF IInv

LEMMA StartTimerIInv == IInv /\ StartTimer => IInv'
<1> SUFFICES ASSUME IInv, StartTimer PROVE IInv'
  OBVIOUS
<1>1. TypeOK'
  BY GraceAssumption DEF IInv, TypeOK, StartTimer, stopVars
<1>2. PhasesOK'
  BY GraceAssumption DEF IInv, TypeOK, PhasesOK, StartTimer, SignalUnseen, stopVars
<1>3. JobsOK'
  BY DEF IInv, TypeOK, JobsOK, StartTimer, stopVars
<1>4. NoneAbandoned'
  BY DEF IInv, NoneAbandoned, StartTimer
<1>5. QED
  BY <1>1, <1>2, <1>3, <1>4 DEF IInv

(***************************************************************************)
(* The timer fires exactly when the grace period ends, and the jobs that   *)
(* it meets began no later than the signal.                                *)
(***************************************************************************)
LEMMA ForceStopIInv == IInv /\ ForceStop => IInv'
<1> SUFFICES ASSUME IInv, ForceStop PROVE IInv'
  OBVIOUS
<1>1. clock = told + shutdownGrace /\ ~ctx
  BY GraceAssumption DEF IInv, TypeOK, PhasesOK, ForceStop
<1>2. TypeOK'
  BY DEF IInv, TypeOK, ForceStop, CancelWork
<1>3. PhasesOK'
  BY <1>1, GraceAssumption DEF IInv, TypeOK, PhasesOK, ForceStop, CancelWork
<1>4. JobsOK'
  BY <1>1 DEF IInv, TypeOK, JobsOK, ForceStop, CancelWork
<1>5. NoneAbandoned'
  BY DEF IInv, NoneAbandoned, ForceStop
<1>6. QED
  BY <1>2, <1>3, <1>4, <1>5 DEF IInv

LEMMA ReturnIInv == IInv /\ Return => IInv'
<1> SUFFICES ASSUME IInv, Return PROVE IInv'
  OBVIOUS
<1>1. TypeOK' /\ NoneAbandoned'
  BY DEF IInv, TypeOK, NoneAbandoned, Return, timerVars, stopVars
<1>2. PhasesOK'
  BY DEF IInv, PhasesOK, Return, timerVars, stopVars
<1>3. JobsOK'
  BY DEF IInv, JobsOK, Return, timerVars, stopVars
<1>4. QED
  BY <1>1, <1>2, <1>3 DEF IInv

(***************************************************************************)
(* Time stands still for a signal that was not seen, for a timer that is   *)
(* due and for a read that was cancelled.                                  *)
(***************************************************************************)
LEMMA TickIInv == IInv /\ Tick => IInv'
<1> SUFFICES ASSUME IInv, Tick PROVE IInv'
  OBVIOUS
<1>1. TypeOK' /\ NoneAbandoned'
  BY DEF IInv, TypeOK, NoneAbandoned, Tick, timerVars, stopVars
<1>2. ~work => clock < stopped + Unwind
  BY DEF IInv, PhasesOK, Tick, Waiting
<1>3. PhasesOK'
  BY <1>2, GraceAssumption DEF IInv, TypeOK, PhasesOK, Tick, Waiting, SignalUnseen,
     timerVars, stopVars
<1>4. JobsOK'
  BY DEF IInv, TypeOK, JobsOK, Tick, Waiting, timerVars, stopVars
<1>5. QED
  BY <1>1, <1>3, <1>4 DEF IInv

LEMMA NextIInv == IInv /\ [Next]_vars => IInv'
<1>1. IInv /\ UNCHANGED vars => IInv'
  BY DEF IInv, TypeOK, PhasesOK, JobsOK, NoneAbandoned, vars, timerVars, stopVars
<1>2. QED
  BY <1>1, WorkerIInv, SignalIInv, StartTimerIInv, ForceStopIInv, ReturnIInv, TickIInv
  DEF Next

LEMMA Invariance == Spec => []IInv
BY InitIInv, NextIInv, PTL DEF Spec

(***************************************************************************)
(* A job that the shutdown of a judge process cuts off has run for the     *)
(* whole grace period.                                                     *)
(***************************************************************************)
THEOREM GraceKept == Spec => []CutOnlyAfterGrace
<1>1. IInv => CutOnlyAfterGrace
  <2> SUFFICES ASSUME IInv, NEW w \in cut
               PROVE  stopped >= begun[w] + shutdownGrace
    BY DEF CutOnlyAfterGrace
  <2>1. stopped = told + shutdownGrace
    BY DEF IInv, PhasesOK
  <2>2. begun[w] \in Nat /\ begun[w] <= told
    BY DEF IInv, TypeOK, JobsOK
  <2>3. QED
    BY <2>1, <2>2, GraceAssumption DEF IInv, TypeOK
<1>2. QED
  BY <1>1, Invariance, PTL

(***************************************************************************)
(* The process ends no later than the grace period and the unwinding of    *)
(* cancelled jobs after the signal, and not under a worker.                *)
(***************************************************************************)
THEOREM ShutdownBounded == Spec => [](TypeOK /\ EndsInTime /\ NoneAbandoned)
<1>1. IInv => EndsInTime
  BY GraceAssumption DEF IInv, TypeOK, PhasesOK, EndsInTime
<1>2. IInv => TypeOK /\ NoneAbandoned
  BY DEF IInv
<1>3. QED
  BY <1>1, <1>2, Invariance, PTL
=============================================================================
