---------------------- MODULE SubmissionPipelineProofs ----------------------
(***************************************************************************)
(* Proofs about SubmissionPipeline, for every number of players, matches,  *)
(* submissions and workers, every bound and every number of failures.      *)
(***************************************************************************)
EXTENDS SubmissionPipeline, SequenceTheorems, TLAPS

-----------------------------------------------------------------------------
(* The queue and the jobs held by its consumers.                           *)

(***************************************************************************)
(* What the type of the PEL rests on: a reference that a worker or the     *)
(* reaper holds is Gone or a place of the PEL, so that Finalize removes an *)
(* entry that is there; and a job that is executed, published or           *)
(* re-dispatched names a submission.                                       *)
(***************************************************************************)
JobsOK ==
    /\ \A w \in Workers :
        /\ wk[w].job.at <= Len(pel)
        /\ wk[w].pc \in {"execute", "publish"} => wk[w].job.load \in Submissions
    /\ \A j \in rp.jobs : j.at <= Len(pel)
    /\ rp.cur.at <= Len(pel)
    /\ rp.pc \in {"xadd", "mark"} => rp.cur.load \in Submissions

PelEntry == [load : Payloads, idle : BOOLEAN]

(***************************************************************************)
(* Finalize of judge_queue.go removes one entry: the PEL keeps its type    *)
(* and loses exactly one place.                                            *)
(***************************************************************************)
LEMMA RemoveAtType ==
    ASSUME NEW S, NEW q \in Seq(S), NEW i \in 1 .. Len(q)
    PROVE  /\ RemoveAt(q, i) \in Seq(S)
           /\ Len(RemoveAt(q, i)) = Len(q) - 1
<1> DEFINE u == SubSeq(q, 1, i - 1)
           v == SubSeq(q, i + 1, Len(q))
<1>1. u \in Seq(S) /\ Len(u) = i - 1
  BY SubSeqProperties
<1>2. v \in Seq(S) /\ Len(v) = Len(q) - i
  BY SubSeqProperties
<1>3. RemoveAt(q, i) = u \o v
  BY DEF RemoveAt
<1> HIDE DEF u, v
<1>4. u \o v \in Seq(S) /\ Len(u \o v) = Len(u) + Len(v)
  BY <1>1, <1>2, ConcatProperties
<1>5. Len(q) \in Nat
  BY LenProperties
<1>6. QED
  BY <1>1, <1>2, <1>3, <1>4, <1>5

(***************************************************************************)
(* A reference that was good before an entry is finalized is good after.   *)
(***************************************************************************)
LEMMA MovedInRange ==
    ASSUME NEW n \in Nat, NEW at \in 0 .. n, NEW r \in 0 .. n
    PROVE  Moved(r, at) \in 0 .. (IF at = Gone THEN n ELSE n - 1)
BY DEF Moved, Gone

\* A job that a process holds stays a job when an entry is finalized.
LEMMA JobMovedType ==
    ASSUME NEW n \in Nat, NEW at \in 0 .. n,
           NEW j \in Job \cup {NoJob}, j.at <= n
    PROVE  /\ JobMoved(j, at) \in Job \cup {NoJob}
           /\ j \in Job => JobMoved(j, at) \in Job
           /\ JobMoved(j, at).load = j.load
           /\ JobMoved(j, at).at <= (IF at = Gone THEN n ELSE n - 1)
<1>1. CASE j \in Job
  <2>1. Moved(j.at, at) \in 0 .. (IF at = Gone THEN n ELSE n - 1)
    BY <1>1, MovedInRange DEF Job
  <2>2. QED
    BY <1>1, <2>1 DEF JobMoved, Job
<1>2. CASE j = NoJob
  <2>1. Moved(j.at, at) = Gone
    BY <1>2 DEF Moved, NoJob, Gone
  <2>2. JobMoved(j, at) = j
    BY <1>2, <2>1 DEF JobMoved, NoJob
  <2>3. QED
    BY <1>2, <2>1, <2>2 DEF NoJob, Gone
<1>3. QED
  BY <1>1, <1>2

-----------------------------------------------------------------------------
(* Type correctness.                                                       *)

TypeInv == TypeOK /\ JobsOK

\* The initial state is well typed.
LEMMA InitTypeInv == Init => TypeInv
<1> SUFFICES ASSUME Init PROVE TypeInv
  OBVIOUS
<1> USE SubmissionsAssumption, NumbersAssumption, MatchesAssumption DEF Init
<1>1. stream \in Seq(Payloads) /\ pel \in Seq(PelEntry) /\ Len(pel) = 0
  <2>1. \A p \in Payloads : <<p>> \in Seq(Payloads)
    OBVIOUS
  <2>2. << >> \in Seq(Payloads) /\ << >> \in Seq(PelEntry) /\ Len(<< >>) = 0
    BY EmptySeq
  <2>3. QED
    BY <2>1, <2>2
<1>2. row \in [Submissions -> Row]
  BY DEF Row, NoRow, NoResult, Result
<1>3. match \in [Matches -> MatchRow] /\ due \in [Matches -> BOOLEAN]
  BY DEF MatchRow
<1>4. wk \in [Workers -> WorkerState]
  BY DEF WorkerState, IdleWorker, NoResult, Result
<1>5. rp \in ReaperState
  BY DEF ReaperState, IdleReaper
<1>6. TypeOK
  BY <1>1, <1>2, <1>3, <1>4, <1>5 DEF TypeOK, QueueTypeOK, GatewayState, PelEntry
<1>7. JobsOK
  BY <1>1 DEF JobsOK, IdleWorker, IdleReaper, NoJob, Gone
<1>8. QED
  BY <1>6, <1>7 DEF TypeInv

(***************************************************************************)
(* The steps of the gateway, the dispatcher and the clocks touch no job.   *)
(***************************************************************************)
LEMMA MarkEnqueuedType ==
    ASSUME TypeOK, NEW s \in Submissions, MarkEnqueued(s)
    PROVE  row' \in [Submissions -> Row]
BY DEF TypeOK, MarkEnqueued, Row

\* XADD keeps the queue well typed and the PEL as it is.
LEMMA XAddType ==
    ASSUME TypeOK, NEW s \in Submissions, XAdd(s)
    PROVE  QueueTypeOK' /\ UNCHANGED pel
<1>1. s \in Payloads
  BY SubmissionsAssumption
<1>2. stream' \in Seq(Payloads)
  BY <1>1, AppendProperties DEF TypeOK, QueueTypeOK, XAdd, Enqueue
<1>3. QED
  BY <1>2 DEF TypeOK, QueueTypeOK, XAdd, Enqueue

\* The steps of a gateway handler and of the dispatch loop.
LEMMA GatewayTypeInv ==
    ASSUME TypeInv, NEW s \in Submissions, GatewayStep(s) \/ DispatcherStep(s)
    PROVE  TypeInv'
<1> USE DEF TypeInv
<1>1. CASE AcceptLock(s)
  BY <1>1 DEF AcceptLock, TypeOK, QueueTypeOK, GatewayState, JobsOK
<1>2. CASE AcceptCommit(s)
  <2>1. row' \in [Submissions -> Row]
    BY <1>2, NumbersAssumption
    DEF AcceptCommit, TypeOK, Row, NewRow, NoRow, NoResult, Result
  <2>2. QED
    BY <1>2, <2>1 DEF AcceptCommit, TypeOK, QueueTypeOK, GatewayState, JobsOK
<1>3. CASE AcceptReject(s)
  BY <1>3 DEF AcceptReject, TypeOK, QueueTypeOK, GatewayState, JobsOK
<1>4. CASE GatewayXAdd(s)
  <2>1. QueueTypeOK' /\ UNCHANGED pel
    BY <1>4, XAddType DEF GatewayXAdd
  <2>2. QED
    BY <1>4, <2>1 DEF GatewayXAdd, TypeOK, GatewayState, JobsOK
<1>5. CASE GatewayMark(s)
  <2>1. row' \in [Submissions -> Row]
    BY <1>5, MarkEnqueuedType DEF GatewayMark
  <2>2. QED
    BY <1>5, <2>1 DEF GatewayMark, TypeOK, QueueTypeOK, GatewayState, JobsOK
<1>6. CASE GatewayFails(s)
  BY <1>6, NumbersAssumption
  DEF GatewayFails, Fault, TypeOK, QueueTypeOK, GatewayState, JobsOK
<1>7. CASE DispatchPending(s)
  <2>1. QueueTypeOK' /\ UNCHANGED pel
    BY <1>7, XAddType DEF DispatchPending
  <2>2. row' \in [Submissions -> Row]
    BY <1>7, MarkEnqueuedType DEF DispatchPending
  <2>3. QED
    BY <1>7, <2>1, <2>2 DEF DispatchPending, TypeOK, JobsOK
<1>8. CASE DispatchPendingFails(s)
  <2>1. QueueTypeOK' /\ UNCHANGED pel
    BY <1>8, XAddType DEF DispatchPendingFails
  <2>2. QED
    BY <1>8, <2>1, NumbersAssumption DEF DispatchPendingFails, Fault, TypeOK, JobsOK
<1>9. QED
  BY <1>1, <1>2, <1>3, <1>4, <1>5, <1>6, <1>7, <1>8 DEF GatewayStep, DispatcherStep

\* The steps of the clocks.
LEMMA TimeTypeInv ==
    ASSUME TypeInv, TimeStep
    PROVE  TypeInv'
<1> USE DEF TypeInv
<1>1. ASSUME NEW m \in Matches, DeadlinePasses(m)
      PROVE  TypeInv'
  BY <1>1 DEF DeadlinePasses, TypeOK, QueueTypeOK, JobsOK
<1>2. ASSUME NEW s \in Submissions, LeaseRunsOut(s)
      PROVE  TypeInv'
  <2>1. row' \in [Submissions -> Row]
    BY <1>2 DEF LeaseRunsOut, TypeOK, Row
  <2>2. faults' \in 0 .. MaxFaults
    BY <1>2, NumbersAssumption DEF LeaseRunsOut, Fault, TypeOK
  <2>3. QED
    BY <1>2, <2>1, <2>2 DEF LeaseRunsOut, TypeOK, QueueTypeOK, JobsOK
<1>3. ASSUME NEW s \in Submissions, MarkGoesStale(s)
      PROVE  TypeInv'
  <2>1. row' \in [Submissions -> Row]
    BY <1>3 DEF MarkGoesStale, TypeOK, Row
  <2>2. QED
    BY <1>3, <2>1 DEF MarkGoesStale, TypeOK, QueueTypeOK, JobsOK
<1>4. ASSUME NEW i \in DOMAIN pel, EntryGoesIdle(i)
      PROVE  TypeInv'
  <2>1. pel \in Seq(PelEntry) /\ i \in 1 .. Len(pel)
    BY LenProperties DEF TypeOK, QueueTypeOK, PelEntry
  <2>2. [pel[i] EXCEPT !.idle = TRUE] \in PelEntry
    <3>1. pel[i] \in PelEntry
      BY <2>1, ElementOfSeq
    <3>2. QED
      BY <3>1 DEF PelEntry
  <2>3. pel' = [pel EXCEPT ![i] = [pel[i] EXCEPT !.idle = TRUE]]
    BY <1>4 DEF EntryGoesIdle, GoesIdle
  <2>4. pel' \in Seq(PelEntry) /\ Len(pel') = Len(pel)
    BY <2>1, <2>2, <2>3, ExceptSeq
  <2>5. faults' \in 0 .. MaxFaults
    BY <1>4, NumbersAssumption DEF EntryGoesIdle, Fault, TypeOK
  <2>6. QED
    BY <1>4, <2>4, <2>5 DEF EntryGoesIdle, GoesIdle, TypeOK, QueueTypeOK, PelEntry, JobsOK
<1>5. QED
  BY <1>1, <1>2, <1>3, <1>4 DEF TimeStep

(***************************************************************************)
(* Finalize and the references that move with it.                          *)
(***************************************************************************)
LEMMA IdleTypes ==
    /\ IdleWorker \in WorkerState
    /\ IdleReaper \in ReaperState
    /\ NoResult \in Result
    /\ IdleWorker.job.at = 0
    /\ IdleReaper.cur.at = 0
BY NumbersAssumption
DEF IdleWorker, WorkerState, IdleReaper, ReaperState, NoResult, Result, NoJob, Gone

\* XACK and XDEL keep the queue well typed and shorten the PEL by one.
LEMMA FinalizeType ==
    ASSUME TypeInv, NEW at \in 0 .. Len(pel), Finalize(at)
    PROVE  /\ QueueTypeOK'
           /\ Len(pel') = IF at = Gone THEN Len(pel) ELSE Len(pel) - 1
<1>1. pel \in Seq(PelEntry) /\ Len(pel) \in Nat
  BY LenProperties DEF TypeInv, TypeOK, QueueTypeOK, PelEntry
<1>2. CASE at = Gone
  BY <1>2 DEF Finalize, TypeInv, TypeOK, QueueTypeOK
<1>3. CASE at # Gone
  <2>1. at \in 1 .. Len(pel)
    BY <1>1, <1>3 DEF Gone
  <2>2. pel' \in Seq(PelEntry) /\ Len(pel') = Len(pel) - 1
    BY <1>1, <1>3, <2>1, RemoveAtType DEF Finalize
  <2>3. QED
    BY <1>3, <2>2 DEF Finalize, TypeInv, TypeOK, QueueTypeOK, PelEntry
<1>4. QED
  BY <1>2, <1>3

\* The workers' jobs after an entry is finalized.
LEMMA WorkersMovedType ==
    ASSUME TypeInv, NEW at \in 0 .. Len(pel), NEW w \in Workers
    PROVE  /\ WorkersMoved(at)[w] \in WorkerState
           /\ WorkersMoved(at)[w].pc = wk[w].pc
           /\ WorkersMoved(at)[w].job.load = wk[w].job.load
           /\ WorkersMoved(at)[w].job.at <= IF at = Gone THEN Len(pel) ELSE Len(pel) - 1
<1>1. Len(pel) \in Nat
  BY LenProperties DEF TypeInv, TypeOK, QueueTypeOK
<1>2. /\ wk[w] \in WorkerState
      /\ wk[w].job \in Job \cup {NoJob}
      /\ wk[w].job.at <= Len(pel)
  BY DEF TypeInv, TypeOK, JobsOK, WorkerState
<1>3. /\ JobMoved(wk[w].job, at) \in Job \cup {NoJob}
      /\ JobMoved(wk[w].job, at).load = wk[w].job.load
      /\ JobMoved(wk[w].job, at).at <= IF at = Gone THEN Len(pel) ELSE Len(pel) - 1
  BY <1>1, <1>2, JobMovedType
<1>4. WorkersMoved(at)[w] = [wk[w] EXCEPT !.job = JobMoved(wk[w].job, at)]
  BY DEF WorkersMoved
<1>5. QED
  BY <1>2, <1>3, <1>4 DEF WorkerState

\* The reaper's jobs after an entry is finalized.
LEMMA ReaperMovedType ==
    ASSUME TypeInv, NEW at \in 0 .. Len(pel)
    PROVE  /\ ReaperMoved(at) \in ReaperState
           /\ ReaperMoved(at).pc = rp.pc
           /\ ReaperMoved(at).poisoned = rp.poisoned
           /\ ReaperMoved(at).err = rp.err
           /\ ReaperMoved(at).cur.load = rp.cur.load
           /\ ReaperMoved(at).cur.at <= IF at = Gone THEN Len(pel) ELSE Len(pel) - 1
           /\ \A j \in ReaperMoved(at).jobs :
                j.at <= IF at = Gone THEN Len(pel) ELSE Len(pel) - 1
<1>1. Len(pel) \in Nat
  BY LenProperties DEF TypeInv, TypeOK, QueueTypeOK
<1>2. rp \in ReaperState /\ rp.cur \in Job \cup {NoJob} /\ rp.cur.at <= Len(pel)
  BY DEF TypeInv, TypeOK, JobsOK, ReaperState
<1>3. \A j \in rp.jobs : j \in Job /\ j.at <= Len(pel)
  BY DEF TypeInv, TypeOK, JobsOK, ReaperState
<1>4. /\ JobMoved(rp.cur, at) \in Job \cup {NoJob}
      /\ JobMoved(rp.cur, at).load = rp.cur.load
      /\ JobMoved(rp.cur, at).at <= IF at = Gone THEN Len(pel) ELSE Len(pel) - 1
  BY <1>1, <1>2, JobMovedType
<1>5. \A j \in rp.jobs :
        /\ JobMoved(j, at) \in Job
        /\ JobMoved(j, at).at <= IF at = Gone THEN Len(pel) ELSE Len(pel) - 1
  BY <1>1, <1>3, JobMovedType
<1> DEFINE moved == {JobMoved(j, at) : j \in rp.jobs}
<1>6. /\ moved \in SUBSET Job
      /\ \A j \in moved : j.at <= IF at = Gone THEN Len(pel) ELSE Len(pel) - 1
  BY <1>5
<1>7. ReaperMoved(at) = [rp EXCEPT !.jobs = moved, !.cur = JobMoved(rp.cur, at)]
  BY DEF ReaperMoved
<1> HIDE DEF moved
<1>8. QED
  BY <1>2, <1>4, <1>6, <1>7 DEF ReaperState

\* A claim keeps the type of its row: it sets the status, the token and the
\* lease, and counts one attempt.
LEMMA ClaimedRow ==
    ASSUME NEW q \in Row, NEW t \in Tokens
    PROVE  [q EXCEPT !.status = "running", !.attempts = @ + 1,
                     !.token = t, !.lease = "live"] \in Row
<1> DEFINE n == q.attempts + 1
<1>1. n \in Nat
  BY DEF Row
<1> HIDE DEF n
<1>2. [q EXCEPT !.status = "running", !.attempts = n,
                !.token = t, !.lease = "live"] \in Row
  BY <1>1 DEF Row
<1>3. QED
  BY <1>2 DEF n

(***************************************************************************)
(* A step that changes nothing but one worker, whose new job is good.      *)
(***************************************************************************)
LEMMA OneWorkerMoves ==
    ASSUME TypeInv, NEW w \in Workers, NEW u \in WorkerState,
           u.job.at <= Len(pel),
           u.pc \in {"execute", "publish"} => u.job.load \in Submissions,
           wk' = [wk EXCEPT ![w] = u], rp' = rp, pel' = pel
    PROVE  wk' \in [Workers -> WorkerState] /\ JobsOK'
<1>1. wk' \in [Workers -> WorkerState]
  BY DEF TypeInv, TypeOK
<1>2. \A v \in Workers : wk'[v] = IF v = w THEN u ELSE wk[v]
  BY DEF TypeInv, TypeOK
<1>3. QED
  BY <1>1, <1>2 DEF TypeInv, JobsOK

(***************************************************************************)
(* The steps of a judge worker.                                            *)
(***************************************************************************)
LEMMA WorkerTypeInv ==
    ASSUME TypeInv, NEW w \in Workers, WorkerStep(w)
    PROVE  TypeInv'
<1> DEFINE s == wk[w].job.load
<1>0. /\ wk[w] \in WorkerState
      /\ Len(pel) \in Nat
      /\ wk[w].job.at \in 0 .. Len(pel)
  <2>1. Len(pel) \in Nat
    BY LenProperties DEF TypeInv, TypeOK, QueueTypeOK
  <2>2. wk[w] \in WorkerState /\ wk[w].job.at <= Len(pel)
    BY DEF TypeInv, TypeOK, JobsOK
  <2>3. wk[w].job.at \in Nat
    BY <2>2 DEF WorkerState, Job, NoJob, Gone
  <2>4. QED
    BY <2>1, <2>2, <2>3
<1> HIDE DEF s
<1>I. /\ IdleWorker \in WorkerState
      /\ IdleWorker.job.at <= Len(pel)
      /\ IdleWorker.pc \notin {"execute", "publish"}
  BY <1>0, IdleTypes DEF IdleWorker
<1>1. CASE ReadJob(w)
  <2>1. Head(stream) \in Payloads /\ Tail(stream) \in Seq(Payloads)
    BY <1>1, HeadTailProperties DEF ReadJob, Read, TypeInv, TypeOK, QueueTypeOK
  <2>2. pel' \in Seq(PelEntry) /\ Len(pel') = Len(pel) + 1
    <3>1. [load |-> Head(stream), idle |-> FALSE] \in PelEntry /\ pel \in Seq(PelEntry)
      BY <2>1 DEF PelEntry, TypeInv, TypeOK, QueueTypeOK
    <3>2. QED
      BY <1>1, <3>1, AppendProperties DEF ReadJob, Read
  <2>3. JobRead \in Job /\ JobRead.at <= Len(pel')
    BY <1>0, <2>1, <2>2 DEF JobRead, Job
  <2> DEFINE u == [IdleWorker EXCEPT !.pc = "claim", !.job = JobRead]
  <2>4. u \in WorkerState /\ u.job = JobRead /\ u.pc = "claim"
    BY <2>3, IdleTypes DEF WorkerState, IdleWorker
  <2>5. wk' = [wk EXCEPT ![w] = u]
    BY <1>1 DEF ReadJob
  <2> HIDE DEF u
  <2>6. TypeOK'
    BY <1>1, <2>1, <2>2, <2>4, <2>5
    DEF ReadJob, Read, TypeInv, TypeOK, QueueTypeOK, PelEntry
  <2>7. \A v \in Workers : wk[v].job.at \in Nat /\ wk[v].job.at <= Len(pel)
    BY DEF TypeInv, TypeOK, JobsOK, WorkerState, Job, NoJob, Gone
  <2>8. /\ \A j \in rp.jobs : j.at \in Nat /\ j.at <= Len(pel)
        /\ rp.cur.at \in Nat /\ rp.cur.at <= Len(pel)
    BY DEF TypeInv, TypeOK, JobsOK, ReaperState, Job, NoJob, Gone
  <2>9. JobsOK'
    BY <1>0, <1>1, <2>2, <2>3, <2>4, <2>5, <2>7, <2>8
    DEF ReadJob, TypeInv, TypeOK, JobsOK
  <2>10. QED
    BY <2>6, <2>9 DEF TypeInv
<1>2. CASE DiscardJob(w)
  <2> DEFINE u == [wk[w] EXCEPT !.pc = "ack"]
  <2>1. u \in WorkerState /\ u.job = wk[w].job /\ u.pc = "ack"
    BY <1>0 DEF WorkerState
  <2>2. wk' = [wk EXCEPT ![w] = u] /\ rp' = rp /\ pel' = pel
    BY <1>2 DEF DiscardJob
  <2> HIDE DEF u
  <2>3. u.job.at <= Len(pel) /\ u.pc \notin {"execute", "publish"}
    BY <1>0, <2>1
  <2>4. wk' \in [Workers -> WorkerState] /\ JobsOK'
    BY <2>1, <2>2, <2>3, OneWorkerMoves
  <2>5. QED
    BY <1>2, <2>4 DEF DiscardJob, TypeInv, TypeOK, QueueTypeOK
<1>3. CASE ClaimRunning(w)
  <2> DEFINE u == IF row[wk[w].job.load].lease = "live" /\ row[wk[w].job.load].token # NoToken
                    THEN [wk[w] EXCEPT !.pc = "ack"] ELSE IdleWorker
  <2>1. u \in WorkerState /\ u.job.at <= Len(pel) /\ u.pc \notin {"execute", "publish"}
    BY <1>0, IdleTypes DEF WorkerState, IdleWorker
  <2>2. wk' = [wk EXCEPT ![w] = u] /\ rp' = rp /\ pel' = pel
    BY <1>3 DEF ClaimRunning
  <2> HIDE DEF u
  <2>3. wk' \in [Workers -> WorkerState] /\ JobsOK'
    BY <2>1, <2>2, OneWorkerMoves
  <2>4. QED
    BY <1>3, <2>3 DEF ClaimRunning, TypeInv, TypeOK, QueueTypeOK
<1>4. CASE ClaimCompleted(w)
  <2>1. s \in Submissions
    BY <1>4 DEF ClaimCompleted, Discardable, s
  <2>2. row[s].result \in Result /\ match[MatchOf[s]].winner \in Players \cup {NoPlayer}
    BY <2>1, SubmissionsAssumption DEF TypeInv, TypeOK, Row, MatchRow
  <2>B. PICK seen \in {match[MatchOf[s]].winner, NoPlayer} :
          wk' = [wk EXCEPT ![w] = [wk[w] EXCEPT !.pc = "publish", !.result = row[s].result,
                                                !.winner = seen]]
    BY <1>4 DEF ClaimCompleted, s
  <2> DEFINE u == [wk[w] EXCEPT !.pc = "publish", !.result = row[s].result,
                                !.winner = seen]
  <2>3. u \in WorkerState /\ u.job = wk[w].job
    BY <1>0, <2>2 DEF WorkerState
  <2>4. wk' = [wk EXCEPT ![w] = u] /\ rp' = rp /\ pel' = pel
    BY <1>4, <2>B DEF ClaimCompleted
  <2> HIDE DEF u
  <2>A. u.job.at <= Len(pel) /\ u.job.load \in Submissions
    BY <1>0, <2>1, <2>3 DEF s
  <2>5. wk' \in [Workers -> WorkerState] /\ JobsOK'
    BY <2>3, <2>4, <2>A, OneWorkerMoves
  <2>6. QED
    BY <1>4, <2>5 DEF ClaimCompleted, TypeInv, TypeOK, QueueTypeOK
<1>5. CASE ClaimAcquired(w)
  <2>1. s \in Submissions
    BY <1>5 DEF ClaimAcquired, Discardable, s
  <2>2. FreshToken \in Tokens
    BY <1>5 DEF ClaimAcquired, FreshToken
  <2>3. row' \in [Submissions -> Row]
    <3> DEFINE r == [row[s] EXCEPT !.status = "running", !.attempts = @ + 1,
                                   !.token = FreshToken, !.lease = "live"]
    <3>1. row[s] \in Row /\ row \in [Submissions -> Row]
      BY <2>1 DEF TypeInv, TypeOK
    <3>2. r \in Row
      BY <2>2, <3>1, ClaimedRow
    <3>3. row' = [row EXCEPT ![s] = r]
      BY <1>5, <2>1, <3>1 DEF ClaimAcquired, s
    <3> HIDE DEF r
    <3>4. QED
      BY <2>1, <3>1, <3>2, <3>3
  <2> DEFINE u == [wk[w] EXCEPT !.pc = "execute", !.token = FreshToken]
  <2>4. u \in WorkerState /\ u.job = wk[w].job
    BY <1>0, <2>2 DEF WorkerState
  <2>5. wk' = [wk EXCEPT ![w] = u] /\ rp' = rp /\ pel' = pel
    BY <1>0, <1>5 DEF ClaimAcquired, TypeInv, TypeOK, WorkerState
  <2> HIDE DEF u
  <2>A. u.job.at <= Len(pel) /\ u.job.load \in Submissions
    BY <1>0, <2>1, <2>4 DEF s
  <2>6. wk' \in [Workers -> WorkerState] /\ JobsOK'
    BY <2>4, <2>5, <2>A, OneWorkerMoves
  <2>7. QED
    BY <1>5, <2>3, <2>6 DEF ClaimAcquired, TypeInv, TypeOK, QueueTypeOK
<1>6. CASE CompleteApplied(w)
  <2>1. s \in Submissions /\ MatchOf[s] \in Matches /\ Author[s] \in Players
    BY <1>6, SubmissionsAssumption DEF CompleteApplied, TypeInv, JobsOK, s
  <2>2. PICK r \in TerminalResults :
          /\ row' = Completed(s, r)
          /\ match' = MatchAfter(s, r)
          /\ wk' = [wk EXCEPT ![w] = [wk[w] EXCEPT !.pc = "publish", !.token = NoToken,
                                                   !.result = r,
                                                   !.winner = match'[MatchOf[s]].winner]]
    BY <1>6 DEF CompleteApplied, s
  <2>3. r \in Result
    BY DEF TerminalResults
  <2>4. row' \in [Submissions -> Row]
    <3> DEFINE x == [row[s] EXCEPT !.status = "completed", !.result = r,
                                   !.token = NoToken, !.lease = "null"]
    <3>1. row[s] \in Row
      BY <2>1 DEF TypeInv, TypeOK
    <3>2. x \in Row
      BY <2>3, <3>1 DEF Row
    <3>3. row' = [row EXCEPT ![s] = x]
      BY <2>1, <2>2 DEF Completed, TypeInv, TypeOK
    <3> HIDE DEF x
    <3>4. QED
      BY <3>2, <3>3 DEF TypeInv, TypeOK
  <2>5. match' \in [Matches -> MatchRow]
    BY <2>1, <2>2 DEF MatchAfter, TypeInv, TypeOK, MatchRow
  <2> DEFINE u == [wk[w] EXCEPT !.pc = "publish", !.token = NoToken, !.result = r,
                                !.winner = match'[MatchOf[s]].winner]
  <2>6. u \in WorkerState /\ u.job = wk[w].job
    BY <1>0, <2>1, <2>3, <2>5 DEF WorkerState, MatchRow
  <2>7. wk' = [wk EXCEPT ![w] = u] /\ rp' = rp /\ pel' = pel
    BY <1>6, <2>2 DEF CompleteApplied
  <2> HIDE DEF u
  <2>A. u.job.at <= Len(pel) /\ u.job.load \in Submissions
    BY <1>0, <2>1, <2>6 DEF s
  <2>8. wk' \in [Workers -> WorkerState] /\ JobsOK'
    BY <2>6, <2>7, <2>A, OneWorkerMoves
  <2>9. QED
    BY <1>6, <2>4, <2>5, <2>8 DEF CompleteApplied, TypeInv, TypeOK, QueueTypeOK
<1>7. CASE CompleteLost(w) \/ AttemptFails(w)
  <2>1. wk' \in [Workers -> WorkerState] /\ JobsOK'
    BY <1>7, <1>I, OneWorkerMoves DEF CompleteLost, AttemptFails
  <2>2. QED
    BY <1>7, <2>1 DEF CompleteLost, AttemptFails, TypeInv, TypeOK, QueueTypeOK
<1>8. CASE Publish(w)
  <2> DEFINE u == [IdleWorker EXCEPT !.pc = "ack", !.job = wk[w].job]
  <2>1. u \in WorkerState /\ u.job = wk[w].job /\ u.pc = "ack"
    BY <1>0, IdleTypes DEF WorkerState, IdleWorker
  <2>2. wk' = [wk EXCEPT ![w] = u] /\ rp' = rp /\ pel' = pel
    BY <1>8 DEF Publish
  <2> HIDE DEF u
  <2>A. u.job.at <= Len(pel) /\ u.pc \notin {"execute", "publish"}
    BY <1>0, <2>1
  <2>3. wk' \in [Workers -> WorkerState] /\ JobsOK'
    BY <2>1, <2>2, <2>A, OneWorkerMoves
  <2>4. QED
    BY <1>8, <2>3 DEF Publish, TypeInv, TypeOK, QueueTypeOK
<1>9. CASE FinalizeJob(w)
  <2> DEFINE at == wk[w].job.at
  <2>1. at \in 0 .. Len(pel) /\ Finalize(at)
    BY <1>0, <1>9 DEF FinalizeJob
  <2>2. /\ wk' = [WorkersMoved(at) EXCEPT ![w] = IdleWorker]
        /\ rp' = ReaperMoved(at)
        /\ UNCHANGED <<row, match, due, gw, faults>>
    BY <1>9 DEF FinalizeJob
  <2> HIDE DEF at
  <2>3. /\ QueueTypeOK'
        /\ Len(pel') = IF at = Gone THEN Len(pel) ELSE Len(pel) - 1
    BY <2>1, FinalizeType
  <2>4. /\ rp' \in ReaperState
        /\ rp'.cur.at <= Len(pel')
        /\ \A j \in rp'.jobs : j.at <= Len(pel')
        /\ rp'.pc \in {"xadd", "mark"} => rp'.cur.load \in Submissions
    BY <2>1, <2>2, <2>3, ReaperMovedType DEF TypeInv, JobsOK
  <2>5. \A v \in Workers :
          /\ wk'[v] \in WorkerState
          /\ wk'[v].job.at <= Len(pel')
          /\ wk'[v].pc \in {"execute", "publish"} => wk'[v].job.load \in Submissions
    <3> SUFFICES ASSUME NEW v \in Workers
                 PROVE  /\ wk'[v] \in WorkerState
                        /\ wk'[v].job.at <= Len(pel')
                        /\ wk'[v].pc \in {"execute", "publish"}
                             => wk'[v].job.load \in Submissions
      OBVIOUS
    <3>1. Len(pel') \in Nat
      BY <2>3, LenProperties DEF QueueTypeOK
    <3>2. CASE v = w
      BY <2>2, <3>1, <3>2, IdleTypes DEF WorkersMoved, IdleWorker
    <3>3. CASE v # w
      <4>1. wk'[v] = WorkersMoved(at)[v]
        BY <2>2, <3>3 DEF WorkersMoved
      <4>2. QED
        BY <2>1, <2>3, <4>1, WorkersMovedType DEF TypeInv, JobsOK
    <3>4. QED
      BY <3>2, <3>3
  <2>6. wk' \in [Workers -> WorkerState]
    BY <2>2, <2>5 DEF WorkersMoved
  <2>7. QED
    BY <2>2, <2>3, <2>4, <2>5, <2>6 DEF TypeInv, TypeOK, JobsOK
<1>10. CASE WorkerFails(w)
  <2>1. wk' \in [Workers -> WorkerState] /\ JobsOK'
    BY <1>10, <1>I, OneWorkerMoves DEF WorkerFails
  <2>2. faults' \in 0 .. MaxFaults
    BY <1>10, NumbersAssumption DEF WorkerFails, Fault, TypeInv, TypeOK
  <2>3. QED
    BY <1>10, <2>1, <2>2 DEF WorkerFails, TypeInv, TypeOK, QueueTypeOK
<1>11. QED
  BY <1>1, <1>2, <1>3, <1>4, <1>5, <1>6, <1>7, <1>8, <1>9, <1>10 DEF WorkerStep

(***************************************************************************)
(* The steps of the reaper.                                                *)
(***************************************************************************)
LEMMA ReaperMoves ==
    ASSUME TypeInv, NEW r \in ReaperState,
           r.cur.at <= Len(pel), \A j \in r.jobs : j.at <= Len(pel),
           r.pc \in {"xadd", "mark"} => r.cur.load \in Submissions,
           rp' = r, wk' = wk, Len(pel') = Len(pel)
    PROVE  rp' \in ReaperState /\ JobsOK'
BY DEF TypeInv, JobsOK

\* The reaper between two jobs of a sweep.
LEMMA AfterJobType ==
    ASSUME NEW jobs \in SUBSET Job, NEW err \in BOOLEAN
    PROVE  /\ AfterJob(jobs, err) \in ReaperState
           /\ AfterJob(jobs, err).jobs = jobs
           /\ AfterJob(jobs, err).cur.at = 0
           /\ AfterJob(jobs, err).poisoned = {}
           /\ AfterJob(jobs, err).pc \notin {"xadd", "mark"}
<1>1. (jobs # {} /\ err) \in BOOLEAN
  OBVIOUS
<1> DEFINE pc == IF jobs # {} THEN "job" ELSE IF err THEN "idle" ELSE "finalize"
           e == (jobs # {} /\ err)
<1>2. pc \in {"job", "idle", "finalize"}
  OBVIOUS
<1>3. AfterJob(jobs, err) = [IdleReaper EXCEPT !.pc = pc, !.jobs = jobs, !.err = e]
  BY DEF AfterJob
<1> HIDE DEF pc, e
<1>4. e \in BOOLEAN
  BY DEF e
<1>5. QED
  BY <1>2, <1>3, <1>4, IdleTypes DEF IdleReaper, ReaperState

\* reclaimLeases resets or completes the rows of its batch.
LEMMA ReclaimedRowType ==
    ASSUME NEW r \in Row
    PROVE  Reset(r) \in Row /\ Poison(r) \in Row
<1>1. Reset(r) \in Row
  BY DEF Reset, Row
<1>2. [verdict |-> "failed", tests |-> r.result.tests] \in Result
  BY DEF Row, Result, Verdicts
<1>3. Poison(r) = [r EXCEPT !.status = "completed", !.token = NoToken, !.lease = "null",
                            !.result = [verdict |-> "failed", tests |-> r.result.tests]]
  BY DEF Poison
<1>4. Poison(r) \in Row
  BY <1>2, <1>3 DEF Row
<1>5. QED
  BY <1>1, <1>4

\* XAUTOCLAIM keeps the PEL's length and returns jobs that are in it.
LEMMA ReclaimIdleType ==
    ASSUME TypeInv, ReclaimIdle
    PROVE  /\ QueueTypeOK'
           /\ Len(pel') = Len(pel)
           /\ JobsReclaimed \in SUBSET Job
           /\ \A j \in JobsReclaimed : j.at <= Len(pel)
<1>1. pel \in Seq(PelEntry) /\ Len(pel) \in Nat /\ DOMAIN pel = 1 .. Len(pel)
  BY LenProperties DEF TypeInv, TypeOK, QueueTypeOK, PelEntry
<1>2. \A i \in DOMAIN pel : pel[i] \in PelEntry
  BY <1>1, ElementOfSeq
<1> DEFINE e(i) == [pel[i] EXCEPT !.idle = IF i \in IdlePage THEN FALSE ELSE @]
<1>3. \A i \in DOMAIN pel : e(i) \in PelEntry
  BY <1>2 DEF PelEntry
<1>4. pel' = [i \in 1 .. Len(pel) |-> e(i)]
  BY <1>1 DEF ReclaimIdle
<1> HIDE DEF e
<1>5. pel' \in [1 .. Len(pel) -> PelEntry]
  BY <1>1, <1>3, <1>4
<1>6. pel' \in Seq(PelEntry) /\ Len(pel') = Len(pel)
  BY <1>1, <1>5, SeqDef, LenProperties
<1>7. IdlePage \subseteq 1 .. Len(pel)
  BY <1>1 DEF IdlePage
<1>8. \A i \in IdlePage : [at |-> i, load |-> pel[i].load] \in Job
  BY <1>1, <1>2, <1>7 DEF Job, PelEntry
<1>9. QueueTypeOK'
  BY <1>6 DEF ReclaimIdle, TypeInv, TypeOK, QueueTypeOK, PelEntry
<1>10. \A j \in JobsReclaimed : j \in Job /\ j.at <= Len(pel)
  BY <1>1, <1>7, <1>8 DEF JobsReclaimed
<1>11. QED
  BY <1>6, <1>9, <1>10

\* The steps of the reaper's tick.
LEMMA ReaperTypeInv ==
    ASSUME TypeInv, ReaperStep
    PROVE  TypeInv'
<1>0. /\ rp \in ReaperState
      /\ Len(pel) \in Nat
      /\ rp.cur.at \in 0 .. Len(pel)
      /\ \A j \in rp.jobs : j \in Job /\ j.at <= Len(pel)
      /\ rp.jobs \in SUBSET Job /\ rp.err \in BOOLEAN
  <2>1. Len(pel) \in Nat
    BY LenProperties DEF TypeInv, TypeOK, QueueTypeOK
  <2>2. rp \in ReaperState /\ rp.cur.at <= Len(pel)
    BY DEF TypeInv, TypeOK, JobsOK
  <2>3. rp.cur.at \in Nat
    BY <2>2 DEF ReaperState, Job, NoJob, Gone
  <2>4. QED
    BY <2>1, <2>2, <2>3 DEF ReaperState, TypeInv, JobsOK
<1>I. /\ IdleReaper \in ReaperState
      /\ IdleReaper.cur.at <= Len(pel)
      /\ \A j \in IdleReaper.jobs : j.at <= Len(pel)
      /\ IdleReaper.pc \notin {"xadd", "mark"}
  BY <1>0, IdleTypes DEF IdleReaper
<1>1. CASE ReclaimLeases
  <2>1. PICK B \in LeaseBatches :
          LET poisoned == {s \in B : ~Retryable(s)} IN
          /\ row' = [s \in Submissions |->
                       IF s \notin B THEN row[s]
                       ELSE IF Retryable(s) THEN Reset(row[s])
                       ELSE Poison(row[s])]
          /\ rp' = [IdleReaper EXCEPT !.pc = IF poisoned = {} THEN "sweep" ELSE "announce",
                                      !.poisoned = poisoned]
    BY <1>1 DEF ReclaimLeases
  <2>2. \A s \in Submissions : row[s] \in Row /\ Reset(row[s]) \in Row /\ Poison(row[s]) \in Row
    BY ReclaimedRowType DEF TypeInv, TypeOK
  <2>3. row' \in [Submissions -> Row]
    BY <2>1, <2>2
  <2> DEFINE P == {s \in B : ~Retryable(s)}
             pc == IF P = {} THEN "sweep" ELSE "announce"
             r == [IdleReaper EXCEPT !.pc = pc, !.poisoned = P]
  <2>4. P \in SUBSET Submissions
    BY DEF LeaseBatches
  <2>5. pc \in {"sweep", "announce"} /\ rp' = r
    BY <2>1
  <2> HIDE DEF P, pc
  <2>6. /\ r \in ReaperState /\ r.cur.at = 0 /\ r.jobs = {}
        /\ r.pc \notin {"xadd", "mark"}
    BY <2>4, <2>5, IdleTypes DEF IdleReaper, ReaperState
  <2> HIDE DEF r
  <2>A. wk' = wk /\ pel' = pel
    BY <1>1 DEF ReclaimLeases
  <2>7. rp' \in ReaperState /\ JobsOK'
    BY <1>0, <2>5, <2>6, <2>A, ReaperMoves
  <2>8. QED
    BY <1>1, <2>3, <2>7 DEF ReclaimLeases, TypeInv, TypeOK, QueueTypeOK
<1>2. CASE AnnouncePoisoned
  <2> DEFINE r == [IdleReaper EXCEPT !.pc = "sweep"]
  <2>1. /\ r \in ReaperState /\ r.cur.at = 0 /\ r.jobs = {} /\ r.pc = "sweep"
    BY IdleTypes DEF IdleReaper, ReaperState
  <2>2. rp' = r /\ wk' = wk /\ pel' = pel
    BY <1>2 DEF AnnouncePoisoned
  <2> HIDE DEF r
  <2>3. rp' \in ReaperState /\ JobsOK'
    BY <1>0, <2>1, <2>2, ReaperMoves
  <2>4. QED
    BY <1>2, <2>3 DEF AnnouncePoisoned, TypeInv, TypeOK, QueueTypeOK
<1>3. CASE SweepStream
  <2>1. /\ QueueTypeOK'
        /\ Len(pel') = Len(pel)
        /\ JobsReclaimed \in SUBSET Job
        /\ \A j \in JobsReclaimed : j.at <= Len(pel)
    BY <1>3, ReclaimIdleType DEF SweepStream
  <2> DEFINE r == AfterJob(JobsReclaimed, FALSE)
  <2>2. /\ r \in ReaperState /\ r.jobs = JobsReclaimed /\ r.cur.at = 0
        /\ r.pc \notin {"xadd", "mark"}
    BY <2>1, AfterJobType
  <2>3. rp' = r /\ wk' = wk
    BY <1>3 DEF SweepStream
  <2> HIDE DEF r
  <2>4. rp' \in ReaperState /\ JobsOK'
    BY <1>0, <2>1, <2>2, <2>3, ReaperMoves
  <2>5. QED
    BY <1>3, <2>1, <2>4 DEF SweepStream, TypeInv, TypeOK
<1>4. CASE HandleReclaimedJob
  <2>1. PICK j \in rp.jobs :
          rp' = IF Discardable(j.load)
                  THEN [rp EXCEPT !.pc = "ack", !.jobs = rp.jobs \ {j}, !.cur = j]
                ELSE IF row[j.load].status = "running"
                  THEN AfterJob(rp.jobs \ {j}, rp.err)
                ELSE [rp EXCEPT !.pc = "xadd", !.jobs = rp.jobs \ {j}, !.cur = j]
    BY <1>4 DEF HandleReclaimedJob
  <2> DEFINE rest == rp.jobs \ {j}
             a == [rp EXCEPT !.pc = "ack", !.jobs = rest, !.cur = j]
             x == [rp EXCEPT !.pc = "xadd", !.jobs = rest, !.cur = j]
             n == AfterJob(rest, rp.err)
  <2>2. rest \in SUBSET Job /\ \A k \in rest : k.at <= Len(pel)
    BY <1>0
  <2>3. a \in ReaperState /\ a.jobs = rest /\ a.cur = j /\ a.pc = "ack"
    BY <1>0, <2>2 DEF ReaperState
  <2>4. x \in ReaperState /\ x.jobs = rest /\ x.cur = j /\ x.pc = "xadd"
    BY <1>0, <2>2 DEF ReaperState
  <2>5. n \in ReaperState /\ n.jobs = rest /\ n.cur.at = 0 /\ n.pc \notin {"xadd", "mark"}
    <3> HIDE DEF rest
    <3>1. rest \in SUBSET Job /\ rp.err \in BOOLEAN
      BY <1>0, <2>2
    <3>2. QED
      BY <3>1, AfterJobType
  <2>6. /\ rp' \in {a, x, n}
        /\ rp' = x => j.load \in Submissions \/ x \in {a, n}
        /\ wk' = wk /\ pel' = pel
    BY <1>4, <2>1 DEF HandleReclaimedJob, Discardable
  <2> HIDE DEF rest, a, x, n
  <2>7. rp' \in ReaperState /\ JobsOK'
    <3>1. CASE rp' = a
      BY <1>0, <2>2, <2>3, <2>6, <3>1, ReaperMoves
    <3>2. CASE rp' = n
      BY <1>0, <2>2, <2>5, <2>6, <3>2, ReaperMoves
    <3>3. CASE rp' = x
      <4>1. j.load \in Submissions
        BY <2>3, <2>4, <2>5, <2>6, <3>3 DEF n, AfterJob, IdleReaper
      <4>2. QED
        BY <1>0, <2>2, <2>4, <2>6, <3>3, <4>1, ReaperMoves
    <3>4. QED
      BY <2>6, <3>1, <3>2, <3>3
  <2>8. QED
    BY <1>4, <2>7 DEF HandleReclaimedJob, TypeInv, TypeOK, QueueTypeOK
<1>5. CASE ReplacementXAdd
  <2>1. rp.cur.load \in Submissions
    BY <1>5 DEF ReplacementXAdd, TypeInv, JobsOK
  <2>2. QueueTypeOK' /\ pel' = pel
    BY <1>5, <2>1, XAddType DEF ReplacementXAdd, TypeInv
  <2> DEFINE r == [rp EXCEPT !.pc = "mark"]
  <2>3. r \in ReaperState /\ r.cur = rp.cur /\ r.jobs = rp.jobs
    BY <1>0 DEF ReaperState
  <2>4. rp' = r /\ wk' = wk
    BY <1>5 DEF ReplacementXAdd
  <2> HIDE DEF r
  <2>5. rp' \in ReaperState /\ JobsOK'
    BY <1>0, <2>1, <2>2, <2>3, <2>4, ReaperMoves
  <2>6. QED
    BY <1>5, <2>2, <2>5 DEF ReplacementXAdd, TypeInv, TypeOK
<1>6. CASE ReplacementMark
  <2>1. rp.cur.load \in Submissions
    BY <1>6 DEF ReplacementMark, TypeInv, JobsOK
  <2>2. row' \in [Submissions -> Row]
    BY <1>6, <2>1, MarkEnqueuedType DEF ReplacementMark, TypeInv
  <2> DEFINE r == [rp EXCEPT !.pc = "ack"]
  <2>3. r \in ReaperState /\ r.cur = rp.cur /\ r.jobs = rp.jobs
    BY <1>0 DEF ReaperState
  <2>4. rp' = r /\ wk' = wk /\ pel' = pel
    BY <1>6 DEF ReplacementMark
  <2> HIDE DEF r
  <2>5. rp' \in ReaperState /\ JobsOK'
    BY <1>0, <2>1, <2>3, <2>4, ReaperMoves
  <2>6. QED
    BY <1>6, <2>2, <2>5 DEF ReplacementMark, TypeInv, TypeOK, QueueTypeOK
<1>7. CASE FinalizeReclaimed
  <2> DEFINE at == rp.cur.at
             jobs == ReaperMoved(at).jobs
  <2>1. at \in 0 .. Len(pel) /\ Finalize(at)
    BY <1>0, <1>7 DEF FinalizeReclaimed
  <2>2. wk' = WorkersMoved(at) /\ rp' = AfterJob(jobs, rp.err)
    BY <1>7 DEF FinalizeReclaimed
  <2> HIDE DEF at
  <2>3. /\ QueueTypeOK'
        /\ Len(pel') = IF at = Gone THEN Len(pel) ELSE Len(pel) - 1
    BY <2>1, FinalizeType
  <2>4. Len(pel') \in Nat
    BY <2>3, LenProperties DEF QueueTypeOK
  <2>5. /\ jobs \in SUBSET Job
        /\ \A j \in jobs : j.at <= Len(pel')
    BY <2>1, <2>3, ReaperMovedType DEF ReaperState
  <2> HIDE DEF jobs
  <2>6. /\ rp' \in ReaperState /\ rp'.jobs = jobs /\ rp'.cur.at = 0
        /\ rp'.pc \notin {"xadd", "mark"}
    BY <1>0, <2>2, <2>5, AfterJobType
  <2>7. \A v \in Workers :
          /\ wk'[v] \in WorkerState
          /\ wk'[v].job.at <= Len(pel')
          /\ wk'[v].pc \in {"execute", "publish"} => wk'[v].job.load \in Submissions
    BY <2>1, <2>2, <2>3, WorkersMovedType DEF TypeInv, JobsOK
  <2>8. wk' \in [Workers -> WorkerState]
    BY <2>2, <2>7 DEF WorkersMoved
  <2>9. JobsOK'
    BY <2>4, <2>5, <2>6, <2>7 DEF JobsOK
  <2>10. QED
    BY <1>7, <2>3, <2>6, <2>8, <2>9 DEF FinalizeReclaimed, TypeInv, TypeOK
<1>8. CASE ReclaimedJobFails
  <2> DEFINE r == AfterJob(rp.jobs, TRUE)
  <2>1. /\ r \in ReaperState /\ r.jobs = rp.jobs /\ r.cur.at = 0
        /\ r.pc \notin {"xadd", "mark"}
    BY <1>0, AfterJobType
  <2>2. rp' = r /\ wk' = wk /\ pel' = pel
    BY <1>8 DEF ReclaimedJobFails
  <2> HIDE DEF r
  <2>3. rp' \in ReaperState /\ JobsOK'
    BY <1>0, <2>1, <2>2, ReaperMoves
  <2>4. faults' \in 0 .. MaxFaults
    BY <1>8, NumbersAssumption DEF ReclaimedJobFails, Fault, TypeInv, TypeOK
  <2>5. QED
    BY <1>8, <2>3, <2>4 DEF ReclaimedJobFails, TypeInv, TypeOK, QueueTypeOK
<1>9. CASE FinalizeMatches
  <2>1. PICK locked \in SUBSET LockedMatches :
          match' = [m \in Matches |->
                      IF m \in FinalizeBatch(locked) /\ Settled(m)
                        THEN [status |-> "finished", winner |-> decideTiebreakWinner(m)]
                        ELSE match[m]]
    BY <1>9 DEF FinalizeMatches
  <2>2. \A m \in Matches : decideTiebreakWinner(m) \in Players \cup {NoPlayer}
    BY MatchesAssumption DEF decideTiebreakWinner
  <2>3. match' \in [Matches -> MatchRow]
    BY <2>1, <2>2 DEF TypeInv, TypeOK, MatchRow
  <2>4. rp' \in ReaperState /\ JobsOK'
    BY <1>9, <1>I, ReaperMoves DEF FinalizeMatches
  <2>5. QED
    BY <1>9, <2>3, <2>4 DEF FinalizeMatches, TypeInv, TypeOK, QueueTypeOK
<1>10. CASE ReaperFails
  <2>1. rp' \in ReaperState /\ JobsOK'
    BY <1>10, <1>I, ReaperMoves DEF ReaperFails
  <2>2. faults' \in 0 .. MaxFaults
    BY <1>10, NumbersAssumption DEF ReaperFails, Fault, TypeInv, TypeOK
  <2>3. QED
    BY <1>10, <2>1, <2>2 DEF ReaperFails, TypeInv, TypeOK, QueueTypeOK
<1>11. QED
  BY <1>1, <1>2, <1>3, <1>4, <1>5, <1>6, <1>7, <1>8, <1>9, <1>10 DEF ReaperStep

(***************************************************************************)
(* Type correctness, and with it that no consumer of the judge stream ever *)
(* acknowledges an entry that is not pending, in every state the pipeline  *)
(* can reach.                                                              *)
(***************************************************************************)
THEOREM TypeInvariant == Spec => []TypeInv
<1>1. Init => TypeInv
  BY InitTypeInv
<1>2. TypeInv /\ [Next]_vars => TypeInv'
  <2> SUFFICES ASSUME TypeInv, [Next]_vars PROVE TypeInv'
    OBVIOUS
  <2>1. CASE Next
    BY <2>1, GatewayTypeInv, WorkerTypeInv, ReaperTypeInv, TimeTypeInv DEF Next
  <2>2. CASE UNCHANGED vars
    BY <2>2 DEF vars, TypeInv, TypeOK, QueueTypeOK, JobsOK
  <2>3. QED
    BY <2>1, <2>2
<1>3. QED
  BY <1>1, <1>2, PTL DEF Spec

\* Every state the pipeline reaches is well typed; the references into the
\* PEL that JobsOK bounds are what makes this inductive.
THEOREM TypeCorrect == Spec => []TypeOK
<1>1. TypeInv => TypeOK
  BY DEF TypeInv
<1>2. QED
  BY <1>1, TypeInvariant, PTL

=============================================================================
