------------------------ MODULE PipelineSafetyProofs ------------------------
(***************************************************************************)
(* The safety properties of SubmissionPipeline.  The proofs go through one *)
(* lemma, DatabaseSteps: whatever a process does, its effect on the two    *)
(* tables is one of six kinds of change.  Each property is then proved     *)
(* against those six kinds and not against every handler.                  *)
(* That the pipeline implements Duel follows in the same way; that an      *)
(* attempt has one owner, and that what is published is what is stored,    *)
(* goes through what a step may do to a worker.                            *)
(***************************************************************************)
EXTENDS SubmissionPipelineProofs, WellFoundedInduction

-----------------------------------------------------------------------------
(* What a step may do to the tables.                                       *)

\* Accept inserts the row of a submission.
Insert(s) ==
    /\ gw[s] = "locking"
    /\ Admissible(s)
    /\ row' = [row EXCEPT ![s] = NewRow]
    /\ gw' = [gw EXCEPT ![s] = "xadd"]
    /\ match' = match

\* An open row keeps its result and does not complete: a mark, a clock, a
\* claim, which needs a pending row and counts one attempt.
Touch(s) ==
    /\ Open(s)
    /\ row'[s] \in Row
    /\ row' = [row EXCEPT ![s] = row'[s]]
    /\ row'[s].result = row[s].result
    /\ \/ /\ row'[s].status = row[s].status
          /\ row'[s].attempts = row[s].attempts
       \/ /\ row[s].status = "pending"
          /\ row'[s].status = "running"
          /\ row'[s].attempts = row[s].attempts + 1
    /\ match' = match

\* Complete stores the verdict of an attempt.
Judge(s) ==
    /\ row[s].status = "running"
    /\ \E r \in TerminalResults :
        row' = Completed(s, r) /\ match' = MatchAfter(s, r)

\* reclaimLeases resets or gives up a batch of running rows.
Reclaim ==
    /\ \E B \in SUBSET {s \in Submissions : row[s].status = "running"} :
        row' = [s \in Submissions |->
                  IF s \notin B THEN row[s]
                  ELSE IF Retryable(s) THEN Reset(row[s])
                  ELSE Poison(row[s])]
    /\ match' = match

\* finalizeMatches ends expired matches with nothing open.
Decide ==
    /\ row' = row
    /\ \E C \in SUBSET {m \in Matches : match[m].status = "active" /\ due[m] /\ Settled(m)} :
        match' = [m \in Matches |->
                    IF m \in C
                      THEN [status |-> "finished", winner |-> decideTiebreakWinner(m)]
                      ELSE match[m]]

Same == row' = row /\ match' = match

DbStep ==
    \/ \E s \in Submissions : Insert(s) \/ Touch(s) \/ Judge(s)
    \/ Reclaim
    \/ Decide
    \/ Same

\* Dispatch's mark touches at most one field of one row, and no match.
LEMMA MarkTouches ==
    ASSUME TypeInv, NEW s \in Submissions, MarkEnqueued(s), match' = match
    PROVE  Touch(s) \/ Same
<1>1. row \in [Submissions -> Row] /\ row[s] \in Row
  BY DEF TypeInv, TypeOK
<1>2. CASE row[s].status = "pending"
  <2>1. row' = [row EXCEPT ![s].enqueued = "fresh"]
    BY <1>2 DEF MarkEnqueued
  <2>2. row'[s] = [row[s] EXCEPT !.enqueued = "fresh"]
    BY <1>1, <2>1
  <2>3. row'[s] \in Row
    BY <1>1, <2>2 DEF Row
  <2>4. row' = [row EXCEPT ![s] = row'[s]]
    BY <1>1, <2>1, <2>2
  <2>5. row'[s].result = row[s].result /\ row'[s].status = row[s].status
        /\ row'[s].attempts = row[s].attempts
    BY <1>1, <2>2 DEF Row
  <2>6. QED
    BY <1>2, <2>3, <2>4, <2>5 DEF Touch, Open
<1>3. CASE row[s].status # "pending"
  <2>1. row' = [row EXCEPT ![s].enqueued = row[s].enqueued]
    BY <1>3 DEF MarkEnqueued
  <2>2. row' = row
    BY <1>1, <2>1 DEF Row
  <2>3. QED
    BY <2>2 DEF Same
<1>4. QED
  BY <1>2, <1>3

\* The gateway and the dispatcher insert a row or mark it.
LEMMA GatewayDbStep ==
    ASSUME TypeInv, NEW s \in Submissions, GatewayStep(s) \/ DispatcherStep(s)
    PROVE  DbStep
<1>1. CASE AcceptCommit(s)
  BY <1>1 DEF AcceptCommit, DbStep, Insert
<1>2. CASE GatewayMark(s) \/ DispatchPending(s)
  BY <1>2, MarkTouches DEF GatewayMark, DispatchPending, DbStep
<1>3. CASE AcceptLock(s) \/ AcceptReject(s) \/ GatewayXAdd(s) \/ GatewayFails(s)
             \/ DispatchPendingFails(s)
  BY <1>3 DEF AcceptLock, AcceptReject, GatewayXAdd, GatewayFails, DispatchPendingFails,
              DbStep, Same
<1>4. QED
  BY <1>1, <1>2, <1>3 DEF GatewayStep, DispatcherStep

\* The clocks only raise a row's lease and mark flags.
LEMMA TimeDbStep ==
    ASSUME TypeInv, TimeStep
    PROVE  DbStep
<1>1. CASE \E m \in Matches : DeadlinePasses(m)
  BY <1>1 DEF DeadlinePasses, DbStep, Same
<1>2. CASE \E i \in DOMAIN pel : EntryGoesIdle(i)
  BY <1>2 DEF EntryGoesIdle, DbStep, Same
<1>3. CASE \E s \in Submissions : LeaseRunsOut(s) \/ MarkGoesStale(s)
  <2>1. PICK s \in Submissions : LeaseRunsOut(s) \/ MarkGoesStale(s)
    BY <1>3
  <2>2. row \in [Submissions -> Row] /\ row[s] \in Row
    BY DEF TypeInv, TypeOK
  <2> DEFINE x == [row[s] EXCEPT !.lease = "expired"]
             y == [row[s] EXCEPT !.enqueued = "stale"]
  <2>3. \A z \in {x, y} : /\ z \in Row /\ z.result = row[s].result
                          /\ z.status = row[s].status /\ z.attempts = row[s].attempts
    BY <2>2 DEF Row
  <2>4. row' = [row EXCEPT ![s] = x] \/ row' = [row EXCEPT ![s] = y]
    BY <2>1, <2>2 DEF LeaseRunsOut, MarkGoesStale
  <2>5. Open(s) /\ match' = match
    BY <2>1 DEF LeaseRunsOut, MarkGoesStale, Open
  <2> HIDE DEF x, y
  <2>6. row'[s] \in {x, y} /\ row' = [row EXCEPT ![s] = row'[s]]
    BY <2>2, <2>4
  <2>7. Touch(s)
    BY <2>3, <2>5, <2>6 DEF Touch
  <2>8. QED
    BY <2>7 DEF DbStep
<1>4. QED
  BY <1>1, <1>2, <1>3 DEF TimeStep

\* A judge worker claims a row or completes the attempt it owns.
LEMMA WorkerDbStep ==
    ASSUME TypeInv, NEW w \in Workers, WorkerStep(w)
    PROVE  DbStep
<1> DEFINE s == wk[w].job.load
<1>1. CASE ClaimAcquired(w)
  <2>1. s \in Submissions
    BY <1>1 DEF ClaimAcquired, Discardable
  <2>A. FreshToken \in Tokens
    BY <1>1 DEF ClaimAcquired, FreshToken
  <2>2. row \in [Submissions -> Row] /\ row[s] \in Row /\ FreshToken \in Tokens
    BY <2>1, <2>A DEF TypeInv, TypeOK
  <2> DEFINE x == [row[s] EXCEPT !.status = "running", !.attempts = row[s].attempts + 1,
                                 !.token = FreshToken, !.lease = "live"]
  <2>3. /\ x \in Row /\ x.result = row[s].result
        /\ x.status = "running" /\ x.attempts = row[s].attempts + 1
    <3>1. row[s] \in Row /\ row[s].attempts + 1 \in Nat
      BY <2>2 DEF Row
    <3>2. x \in Row
      BY <2>A, <3>1 DEF Row
    <3>3. QED
      BY <3>1, <3>2 DEF Row
  <2>4. row' = [row EXCEPT ![s] = x] /\ match' = match /\ row[s].status = "pending"
    BY <1>1, <2>1, <2>2 DEF ClaimAcquired
  <2> HIDE DEF x, s
  <2>5. row'[s] = x /\ row' = [row EXCEPT ![s] = row'[s]]
    BY <2>1, <2>2, <2>4
  <2>6. Touch(s)
    BY <2>3, <2>4, <2>5 DEF Touch, Open
  <2>7. QED
    BY <2>1, <2>6 DEF DbStep
<1>2. CASE CompleteApplied(w)
  <2>1. s \in Submissions
    BY <1>2 DEF CompleteApplied, TypeInv, JobsOK
  <2>2. Judge(s)
    BY <1>2 DEF CompleteApplied, OwnsAttempt, Judge
  <2>3. QED
    BY <2>1, <2>2 DEF DbStep
<1>3. CASE \/ ReadJob(w) \/ DiscardJob(w) \/ ClaimRunning(w) \/ ClaimCompleted(w)
           \/ CompleteLost(w) \/ AttemptFails(w) \/ Publish(w) \/ FinalizeJob(w)
           \/ WorkerFails(w)
  BY <1>3 DEF ReadJob, DiscardJob, ClaimRunning, ClaimCompleted, CompleteLost,
              AttemptFails, Publish, FinalizeJob, WorkerFails, DbStep, Same
<1>4. QED
  BY <1>1, <1>2, <1>3 DEF WorkerStep

\* The reaper reclaims a batch of leases, marks a row or finishes matches.
LEMMA ReaperDbStep ==
    ASSUME TypeInv, ReaperStep
    PROVE  DbStep
<1>1. CASE ReclaimLeases
  <2>1. PICK B \in LeaseBatches :
          row' = [s \in Submissions |->
                    IF s \notin B THEN row[s]
                    ELSE IF Retryable(s) THEN Reset(row[s])
                    ELSE Poison(row[s])]
    BY <1>1 DEF ReclaimLeases
  <2>2. B \in SUBSET {s \in Submissions : row[s].status = "running"}
    BY DEF LeaseBatches, LeaseExpired
  <2>3. match' = match
    BY <1>1 DEF ReclaimLeases
  <2>4. QED
    BY <2>1, <2>2, <2>3 DEF Reclaim, DbStep
<1>2. CASE ReplacementMark
  <2>1. rp.cur.load \in Submissions
    BY <1>2 DEF ReplacementMark, TypeInv, JobsOK
  <2>2. QED
    BY <1>2, <2>1, MarkTouches DEF ReplacementMark, DbStep
<1>3. CASE FinalizeMatches
  <2>1. PICK locked \in SUBSET LockedMatches :
          match' = [m \in Matches |->
                      IF m \in FinalizeBatch(locked) /\ Settled(m)
                        THEN [status |-> "finished", winner |-> decideTiebreakWinner(m)]
                        ELSE match[m]]
    BY <1>3 DEF FinalizeMatches
  <2> DEFINE C == {m \in FinalizeBatch(locked) : Settled(m)}
  <2>2. C \in SUBSET {m \in Matches : match[m].status = "active" /\ due[m] /\ Settled(m)}
    BY DEF FinalizeBatch
  <2>3. match' = [m \in Matches |->
                    IF m \in C
                      THEN [status |-> "finished", winner |-> decideTiebreakWinner(m)]
                      ELSE match[m]]
    BY <2>1
  <2> HIDE DEF C
  <2>4. row' = row
    BY <1>3 DEF FinalizeMatches
  <2>5. QED
    BY <2>2, <2>3, <2>4 DEF Decide, DbStep
<1>4. CASE \/ AnnouncePoisoned \/ SweepStream \/ HandleReclaimedJob \/ ReplacementXAdd
           \/ FinalizeReclaimed \/ ReclaimedJobFails \/ ReaperFails
  BY <1>4 DEF AnnouncePoisoned, SweepStream, HandleReclaimedJob, ReplacementXAdd,
              FinalizeReclaimed, ReclaimedJobFails, ReaperFails, DbStep, Same
<1>5. QED
  BY <1>1, <1>2, <1>3, <1>4 DEF ReaperStep

(***************************************************************************)
(* Every step of the pipeline changes the tables in one of the six ways.   *)
(***************************************************************************)
LEMMA DatabaseSteps ==
    ASSUME TypeInv, [Next]_vars
    PROVE  DbStep
<1>1. CASE Next
  BY <1>1, GatewayDbStep, WorkerDbStep, ReaperDbStep, TimeDbStep DEF Next
<1>2. CASE UNCHANGED vars
  BY <1>2 DEF vars, DbStep, Same
<1>3. QED
  BY <1>1, <1>2

-----------------------------------------------------------------------------
(* The attempt budget.                                                     *)

(***************************************************************************)
(* AttemptBudget is not inductive by itself: it needs that a row without a *)
(* verdict is not completed, so that a result cannot be left over from an  *)
(* earlier attempt.                                                        *)
(***************************************************************************)
RowsOK ==
    \A s \in Submissions :
        /\ row[s].attempts <= MaxAttempts
        /\ row[s].status = "pending" => row[s].attempts < MaxAttempts
        /\ row[s].result.verdict = "failed" => row[s].attempts = MaxAttempts
        /\ row[s].status # "completed" => row[s].result = NoResult

\* RowsOK is kept by each of the six kinds of table change.
LEMMA RowsStep ==
    ASSUME TypeInv, RowsOK, DbStep
    PROVE  RowsOK'
<1> USE NumbersAssumption
<1>0. row \in [Submissions -> Row] /\ \A t \in Submissions : row[t] \in Row
  BY DEF TypeInv, TypeOK
<1>1. ASSUME NEW s \in Submissions, Insert(s)
      PROVE  RowsOK'
  <2>1. NewRow.attempts = 0 /\ NewRow.status = "pending" /\ NewRow.result = NoResult
        /\ NoResult.verdict = "none"
    BY DEF NewRow, NoRow, NoResult
  <2>2. \A t \in Submissions : row'[t] = IF t = s THEN NewRow ELSE row[t]
    BY <1>0, <1>1 DEF Insert
  <2>3. QED
    BY <2>1, <2>2 DEF RowsOK
<1>2. ASSUME NEW s \in Submissions, Touch(s)
      PROVE  RowsOK'
  <2>1. \A t \in Submissions : t # s => row'[t] = row[t]
    BY <1>0, <1>2 DEF Touch
  <2>2. row'[s].attempts \in Nat /\ row[s].attempts \in Nat
    BY <1>0, <1>2 DEF Touch, Row
  <2>3. row[s].result = NoResult /\ row'[s].result = NoResult /\ NoResult.verdict = "none"
    BY <1>2 DEF RowsOK, Touch, Open, NoResult
  <2>4. /\ row'[s].attempts <= MaxAttempts
        /\ row'[s].status = "pending" => row'[s].attempts < MaxAttempts
    BY <1>2, <2>2 DEF Touch, RowsOK
  <2>5. QED
    BY <2>1, <2>3, <2>4 DEF RowsOK
<1>3. ASSUME NEW s \in Submissions, Judge(s)
      PROVE  RowsOK'
  <2>1. PICK r \in TerminalResults : row' = Completed(s, r)
    BY <1>3 DEF Judge
  <2>2. r.verdict # "failed"
    BY DEF TerminalResults
  <2>3. \A t \in Submissions : t # s => row'[t] = row[t]
    BY <1>0, <2>1 DEF Completed
  <2>4. /\ row'[s].status = "completed" /\ row'[s].result = r
        /\ row'[s].attempts = row[s].attempts
    BY <1>0, <2>1 DEF Completed, Row
  <2>5. QED
    BY <2>2, <2>3, <2>4 DEF RowsOK
<1>4. ASSUME Reclaim
      PROVE  RowsOK'
  <2>1. PICK B \in SUBSET {s \in Submissions : row[s].status = "running"} :
          row' = [s \in Submissions |->
                    IF s \notin B THEN row[s]
                    ELSE IF Retryable(s) THEN Reset(row[s])
                    ELSE Poison(row[s])]
    BY <1>4 DEF Reclaim
  <2> SUFFICES ASSUME NEW s \in Submissions
               PROVE  /\ row'[s].attempts <= MaxAttempts
                      /\ row'[s].status = "pending" => row'[s].attempts < MaxAttempts
                      /\ row'[s].result.verdict = "failed" => row'[s].attempts = MaxAttempts
                      /\ row'[s].status # "completed" => row'[s].result = NoResult
    BY DEF RowsOK
  <2>2. row[s] \in Row /\ row[s].attempts \in Nat /\ row[s].attempts <= MaxAttempts
    BY <1>0 DEF Row, RowsOK
  <2>3. CASE s \notin B
    BY <2>1, <2>3 DEF RowsOK
  <2>4. CASE s \in B /\ Retryable(s)
    <3>1. row'[s] = Reset(row[s]) /\ row[s].result = NoResult
      BY <2>1, <2>4 DEF RowsOK
    <3>2. /\ Reset(row[s]).attempts = row[s].attempts
          /\ Reset(row[s]).result = row[s].result
          /\ Reset(row[s]).status = "pending"
      BY <2>2 DEF Reset, Row
    <3>3. QED
      BY <2>2, <2>4, <3>1, <3>2 DEF Retryable, NoResult
  <2>5. CASE s \in B /\ ~Retryable(s)
    <3>1. row'[s] = Poison(row[s])
      BY <2>1, <2>5
    <3>2. Poison(row[s]).attempts = row[s].attempts /\ Poison(row[s]).status = "completed"
      BY <2>2 DEF Poison, Row
    <3>3. QED
      BY <2>2, <2>5, <3>1, <3>2 DEF Retryable
  <2>6. QED
    BY <2>3, <2>4, <2>5
<1>5. CASE Decide \/ Same
  BY <1>5 DEF Decide, Same, RowsOK
<1>6. QED
  BY <1>1, <1>2, <1>3, <1>4, <1>5 DEF DbStep

(***************************************************************************)
(* No submission is attempted more than MaxAttempts times, although Claim  *)
(* never looks at the counter.                                             *)
(***************************************************************************)
THEOREM RowsInvariant == Spec => []RowsOK
<1>1. Init => RowsOK
  BY NumbersAssumption DEF Init, RowsOK, NoRow, NoResult
<1>2. TypeInv /\ RowsOK /\ [Next]_vars => RowsOK'
  BY RowsStep, DatabaseSteps
<1>3. QED
  BY <1>1, <1>2, TypeInvariant, PTL DEF Spec

\* The attempt budget holds for every MaxAttempts: Claim never finds a
\* pending row that has used it up.
THEOREM AttemptBudgetHolds == Spec => []AttemptBudget
<1>1. RowsOK => AttemptBudget
  BY DEF RowsOK, AttemptBudget
<1>2. QED
  BY <1>1, RowsInvariant, PTL

-----------------------------------------------------------------------------
(* Results and outcomes are final.                                         *)

\* Accept inserts a row only where there is none.
UnadmittedAbsent ==
    \A s \in Submissions : gw[s] \in {"none", "locking"} => row[s].status = "absent"

\* Only Accept's INSERT makes a row.
LEMMA AbsentStays ==
    ASSUME TypeInv, DbStep, NEW s \in Submissions, row[s].status = "absent"
    PROVE  row'[s] = row[s] \/ Insert(s)
<1>0. row \in [Submissions -> Row]
  BY DEF TypeInv, TypeOK
<1>1. CASE \E t \in Submissions : Insert(t)
  BY <1>0, <1>1 DEF Insert
<1>2. CASE \E t \in Submissions : Touch(t)
  <2>1. PICK t \in Submissions : Touch(t)
    BY <1>2
  <2>2. t # s /\ row' = [row EXCEPT ![t] = row'[t]]
    BY <2>1 DEF Touch, Open
  <2>3. QED
    BY <1>0, <2>2
<1>3. CASE \E t \in Submissions : Judge(t)
  BY <1>0, <1>3 DEF Judge, Completed
<1>4. CASE Reclaim
  BY <1>0, <1>4 DEF Reclaim
<1>5. CASE Decide \/ Same
  BY <1>5 DEF Decide, Same
<1>6. QED
  BY <1>1, <1>2, <1>3, <1>4, <1>5 DEF DbStep

\* No step makes a row of a request that Accept has not committed.
LEMMA UnadmittedStep ==
    ASSUME TypeInv, UnadmittedAbsent, [Next]_vars
    PROVE  UnadmittedAbsent'
<1> SUFFICES ASSUME NEW s \in Submissions, gw'[s] \in {"none", "locking"}
             PROVE  row'[s].status = "absent"
  BY DEF UnadmittedAbsent
<1>1. gw \in [Submissions -> GatewayState]
  BY DEF TypeInv, TypeOK
<1>2. gw[s] \in {"none", "locking"}
  <2>1. CASE \E t \in Submissions : GatewayStep(t)
    BY <1>1, <2>1 DEF GatewayStep, AcceptLock, AcceptCommit, AcceptReject, GatewayXAdd,
                      GatewayMark, GatewayFails
  <2>2. CASE gw' = gw
    BY <2>2
  <2>3. CASE Next /\ ~\E t \in Submissions : GatewayStep(t)
    <3>1. ASSUME NEW t \in Submissions, DispatcherStep(t)
          PROVE  gw' = gw
      BY <3>1 DEF DispatcherStep, DispatchPending, DispatchPendingFails
    <3>2. ASSUME NEW w \in Workers, WorkerStep(w)
          PROVE  gw' = gw
      BY <3>2 DEF WorkerStep, ReadJob, DiscardJob, ClaimRunning, ClaimCompleted,
                  ClaimAcquired, CompleteApplied, CompleteLost, AttemptFails, Publish,
                  FinalizeJob, WorkerFails
    <3>3. ASSUME ReaperStep
          PROVE  gw' = gw
      BY <3>3 DEF ReaperStep, ReclaimLeases, AnnouncePoisoned, SweepStream,
                  HandleReclaimedJob, ReplacementXAdd, ReplacementMark, FinalizeReclaimed,
                  ReclaimedJobFails, FinalizeMatches, ReaperFails
    <3>4. ASSUME TimeStep
          PROVE  gw' = gw
      BY <3>4 DEF TimeStep, DeadlinePasses, LeaseRunsOut, MarkGoesStale, EntryGoesIdle
    <3>5. QED
      BY <2>2, <2>3, <3>1, <3>2, <3>3, <3>4 DEF Next
  <2>4. QED
    BY <2>1, <2>2, <2>3 DEF vars
<1>3. row[s].status = "absent"
  BY <1>2 DEF UnadmittedAbsent
<1>4. ~Insert(s)
  BY <1>1 DEF Insert
<1>5. QED
  BY <1>3, <1>4, AbsentStays, DatabaseSteps

\* No kind of table change reaches a completed row.
LEMMA CompletedStays ==
    ASSUME TypeInv, UnadmittedAbsent, DbStep, NEW s \in Submissions,
           row[s].status = "completed"
    PROVE  row'[s] = row[s]
<1>0. row \in [Submissions -> Row]
  BY DEF TypeInv, TypeOK
<1>1. CASE \E t \in Submissions : Insert(t)
  BY <1>0, <1>1 DEF Insert, UnadmittedAbsent
<1>2. CASE \E t \in Submissions : Touch(t)
  <2>1. PICK t \in Submissions : Touch(t)
    BY <1>2
  <2>2. t # s /\ row' = [row EXCEPT ![t] = row'[t]]
    BY <2>1 DEF Touch, Open
  <2>3. QED
    BY <1>0, <2>2
<1>3. CASE \E t \in Submissions : Judge(t)
  BY <1>0, <1>3 DEF Judge, Completed
<1>4. CASE Reclaim
  BY <1>0, <1>4 DEF Reclaim
<1>5. CASE Decide \/ Same
  BY <1>5 DEF Decide, Same
<1>6. QED
  BY <1>1, <1>2, <1>3, <1>4, <1>5 DEF DbStep

\* No kind of table change reaches a finished match.
LEMMA FinishedStays ==
    ASSUME TypeInv, DbStep, NEW m \in Matches, match[m].status = "finished"
    PROVE  match'[m] = match[m]
<1>0. match \in [Matches -> MatchRow]
  BY DEF TypeInv, TypeOK
<1>1. CASE \E s \in Submissions : Insert(s) \/ Touch(s)
  BY <1>1 DEF Insert, Touch
<1>2. CASE \E s \in Submissions : Judge(s)
  BY <1>0, <1>2 DEF Judge, MatchAfter
<1>3. CASE Reclaim \/ Same
  BY <1>3 DEF Reclaim, Same
<1>4. CASE Decide
  BY <1>0, <1>4 DEF Decide
<1>5. QED
  BY <1>1, <1>2, <1>3, <1>4 DEF DbStep

\* Until Accept commits, a request has no row.
THEOREM UnadmittedInvariant == Spec => []UnadmittedAbsent
<1>1. Init => UnadmittedAbsent
  BY DEF Init, UnadmittedAbsent, NoRow
<1>2. TypeInv /\ UnadmittedAbsent /\ [Next]_vars => UnadmittedAbsent'
  BY UnadmittedStep
<1>3. QED
  BY <1>1, <1>2, TypeInvariant, PTL DEF Spec

\* Once completed, a row never changes: Complete's token test, the reaper's
\* status test and the dispatcher's mark all leave it alone.
THEOREM ResultsAreFinalHolds == Spec => ResultsAreFinal
<1>1. TypeInv /\ UnadmittedAbsent /\ [Next]_vars
        => [\A s \in Submissions : row[s].status = "completed" => row'[s] = row[s]]_vars
  BY CompletedStays, DatabaseSteps
<1>2. QED
  BY <1>1, TypeInvariant, UnadmittedInvariant, PTL DEF Spec, ResultsAreFinal

\* Once finished, a match never changes: Complete and finalizeMatches both
\* look at its status under its lock.
THEOREM OutcomesAreFinalHolds == Spec => OutcomesAreFinal
<1>1. TypeInv /\ [Next]_vars
        => [\A m \in Matches : match[m].status = "finished" => match'[m] = match[m]]_vars
  BY FinishedStays, DatabaseSteps
<1>2. QED
  BY <1>1, TypeInvariant, PTL DEF Spec, OutcomesAreFinal

-----------------------------------------------------------------------------
(* How a match ends.                                                       *)

\* A match has no winner while it is active.
ActiveUndecided ==
    \A m \in Matches : match[m].status = "active" => match[m].winner = NoPlayer

DuelInv == ActiveUndecided /\ PassEndsMatch /\ OutcomeAgreesWithScores

\* A deadline that has passed stays passed.
LEMMA DueStays ==
    ASSUME TypeInv, [Next]_vars, NEW m \in Matches, due[m]
    PROVE  due'[m]
<1>0. due \in [Matches -> BOOLEAN]
  BY DEF TypeInv, TypeOK
<1>1. ASSUME NEW s \in Submissions, GatewayStep(s) \/ DispatcherStep(s)
      PROVE  due'[m]
  BY <1>1 DEF GatewayStep, AcceptLock, AcceptCommit, AcceptReject, GatewayXAdd,
              GatewayMark, GatewayFails, DispatcherStep, DispatchPending,
              DispatchPendingFails
<1>2. ASSUME NEW w \in Workers, WorkerStep(w)
      PROVE  due'[m]
  BY <1>2 DEF WorkerStep, ReadJob, DiscardJob, ClaimRunning, ClaimCompleted,
              ClaimAcquired, CompleteApplied, CompleteLost, AttemptFails, Publish,
              FinalizeJob, WorkerFails
<1>3. ASSUME ReaperStep
      PROVE  due'[m]
  BY <1>3 DEF ReaperStep, ReclaimLeases, AnnouncePoisoned, SweepStream,
              HandleReclaimedJob, ReplacementXAdd, ReplacementMark, FinalizeReclaimed,
              ReclaimedJobFails, FinalizeMatches, ReaperFails
<1>4. ASSUME TimeStep
      PROVE  due'[m]
  BY <1>0, <1>4 DEF TimeStep, DeadlinePasses, LeaseRunsOut, MarkGoesStale, EntryGoesIdle
<1>5. CASE UNCHANGED vars
  BY <1>5 DEF vars
<1>6. QED
  BY <1>1, <1>2, <1>3, <1>4, <1>5 DEF Next

\* The tie-break reads only the rows of its match.
LEMMA ScoresKept ==
    ASSUME NEW m \in Matches, \A s \in SubmissionsTo(m) : row'[s] = row[s]
    PROVE  /\ decideTiebreakWinner(m)' = decideTiebreakWinner(m)
           /\ Settled(m)' <=> Settled(m)
<1>1. ASSUME NEW p
      PROVE  Score(m, p)' = Score(m, p)
  <2> DEFINE done == {s \in SubmissionsTo(m) : Author[s] = p /\ row[s].status = "completed"}
             donep == {s \in SubmissionsTo(m) : Author[s] = p /\ row'[s].status = "completed"}
             T == {row[s].result.tests : s \in done}
             Tp == {row'[s].result.tests : s \in donep}
  <2>1. done = donep
    OBVIOUS
  <2>2. T = Tp
    BY <2>1
  <2>3. Score(m, p) = Max({0} \cup T)
    BY DEF Score
  <2>4. Score(m, p)' = Max({0} \cup Tp)
    BY DEF Score, SubmissionsTo
  <2> HIDE DEF T, Tp
  <2>5. QED
    BY <2>2, <2>3, <2>4
<1>2. decideTiebreakWinner(m)' = decideTiebreakWinner(m)
  BY <1>1 DEF decideTiebreakWinner
<1>3. Settled(m)' <=> Settled(m)
  BY DEF Settled, OpenIn, Open, SubmissionsTo
<1>4. QED
  BY <1>2, <1>3

\* A verdict is only on a completed row, and stays.
LEMMA PassStays ==
    ASSUME TypeInv, RowsOK, UnadmittedAbsent, DbStep, NEW s \in Submissions,
           row[s].result.verdict = "pass"
    PROVE  row'[s] = row[s]
<1>1. row[s].status = "completed"
  BY DEF RowsOK, NoResult
<1>2. QED
  BY <1>1, CompletedStays

\* An active match has no winner, before and after each table change.
LEMMA ActiveUndecidedStep ==
    ASSUME TypeInv, ActiveUndecided, DbStep
    PROVE  ActiveUndecided'
<1>0. match \in [Matches -> MatchRow]
  BY DEF TypeInv, TypeOK
<1>1. CASE \E s \in Submissions : Judge(s)
  BY <1>0, <1>1 DEF Judge, MatchAfter, ActiveUndecided
<1>2. CASE Decide
  BY <1>0, <1>2 DEF Decide, ActiveUndecided
<1>3. CASE match' = match
  BY <1>3 DEF ActiveUndecided
<1>4. QED
  BY <1>1, <1>2, <1>3 DEF DbStep, Insert, Touch, Reclaim, Same

\* The Complete that stores a pass leaves its match finished.
LEMMA NewPass ==
    ASSUME TypeInv, RowsOK, ActiveUndecided, DbStep, NEW s \in Submissions,
           row'[s].result.verdict = "pass", row[s].result.verdict # "pass"
    PROVE  match'[MatchOf[s]].status = "finished"
<1>0. row \in [Submissions -> Row] /\ match \in [Matches -> MatchRow] /\ row[s] \in Row
  BY DEF TypeInv, TypeOK
<1>1. CASE \E t \in Submissions : Insert(t)
  BY <1>0, <1>1 DEF Insert, NewRow, NoRow, NoResult
<1>2. CASE \E t \in Submissions : Touch(t)
  <2>1. PICK t \in Submissions : Touch(t)
    BY <1>2
  <2>2. row' = [row EXCEPT ![t] = row'[t]] /\ row'[t].result = row[t].result
    BY <2>1 DEF Touch
  <2>3. QED
    BY <1>0, <2>2
<1>3. ASSUME NEW t \in Submissions, Judge(t)
      PROVE  match'[MatchOf[s]].status = "finished"
  <2>1. PICK r \in TerminalResults : row' = Completed(t, r) /\ match' = MatchAfter(t, r)
    BY <1>3 DEF Judge
  <2>2. t = s
    BY <1>0, <2>1 DEF Completed
  <2>3. row'[s].result = r
    BY <1>0, <2>1, <2>2 DEF Completed, Row
  <2>4. r.verdict = "pass" /\ MatchOf[s] \in Matches
    BY <2>3, SubmissionsAssumption
  <2>5. match[MatchOf[s]].status \in {"active", "finished"}
    BY <1>0, <2>4 DEF MatchRow
  <2>6. QED
    BY <1>0, <2>1, <2>2, <2>4, <2>5 DEF MatchAfter, ActiveUndecided
<1>4. CASE Reclaim
  <2>1. row'[s] \in {row[s], Reset(row[s]), Poison(row[s])}
    BY <1>4 DEF Reclaim
  <2>2. Reset(row[s]).result = row[s].result /\ Poison(row[s]).result.verdict = "failed"
    BY <1>0 DEF Reset, Poison, Row
  <2>3. QED
    BY <2>1, <2>2
<1>5. CASE Decide \/ Same
  BY <1>5 DEF Decide, Same
<1>6. QED
  BY <1>1, <1>2, <1>3, <1>4, <1>5 DEF DbStep

\* PassEndsMatch is kept by every table change.
LEMMA PassEndsMatchStep ==
    ASSUME TypeInv, RowsOK, UnadmittedAbsent, ActiveUndecided, PassEndsMatch, DbStep
    PROVE  PassEndsMatch'
<1> SUFFICES ASSUME NEW s \in Submissions, row'[s].result.verdict = "pass"
             PROVE  match'[MatchOf[s]].status = "finished"
  BY DEF PassEndsMatch
<1>1. CASE row[s].result.verdict = "pass"
  <2>1. MatchOf[s] \in Matches /\ match[MatchOf[s]].status = "finished"
    BY <1>1, SubmissionsAssumption DEF PassEndsMatch
  <2>2. QED
    BY <2>1, FinishedStays
<1>2. CASE row[s].result.verdict # "pass"
  BY <1>2, NewPass
<1>3. QED
  BY <1>1, <1>2

\* A match that ends with this step: by a pass, or on its scores.
LEMMA MatchEnds ==
    ASSUME TypeInv, ActiveUndecided, DbStep, NEW m \in Matches,
           match[m].status = "active", match'[m].status = "finished"
    PROVE  \/ \E s \in SubmissionsTo(m) :
                row'[s].result.verdict = "pass" /\ Author[s] = match'[m].winner
           \/ /\ due[m]
              /\ Settled(m)
              /\ row' = row
              /\ match'[m].winner = decideTiebreakWinner(m)
<1>0. row \in [Submissions -> Row] /\ match \in [Matches -> MatchRow]
  BY DEF TypeInv, TypeOK
<1>1. ASSUME NEW s \in Submissions, Judge(s)
      PROVE  \E t \in SubmissionsTo(m) :
               row'[t].result.verdict = "pass" /\ Author[t] = match'[m].winner
  <2>1. PICK r \in TerminalResults : row' = Completed(s, r) /\ match' = MatchAfter(s, r)
    BY <1>1 DEF Judge
  <2>2. m = MatchOf[s] /\ r.verdict = "pass" /\ match'[m].winner = Author[s]
    BY <1>0, <2>1 DEF MatchAfter
  <2>3. row'[s].result = r
    BY <1>0, <2>1 DEF Completed, Row
  <2>4. s \in SubmissionsTo(m)
    BY <2>2 DEF SubmissionsTo
  <2>5. QED
    BY <2>2, <2>3, <2>4
<1>2. CASE Decide
  BY <1>0, <1>2 DEF Decide
<1>3. CASE match' = match
  BY <1>3
<1>4. QED
  BY <1>1, <1>2, <1>3 DEF DbStep, Insert, Touch, Reclaim, Same

\* A finished match keeps agreeing with its rows, and one that finishes now
\* does.
LEMMA OutcomeStep ==
    ASSUME TypeInv, RowsOK, UnadmittedAbsent, DuelInv, [Next]_vars
    PROVE  OutcomeAgreesWithScores'
<1>0. DbStep
  BY DatabaseSteps
<1>1. row \in [Submissions -> Row] /\ match \in [Matches -> MatchRow]
  BY DEF TypeInv, TypeOK
<1> SUFFICES ASSUME NEW m \in Matches, match'[m].status = "finished"
             PROVE  IF \E s \in SubmissionsTo(m) : row'[s].result.verdict = "pass"
                      THEN \E s \in SubmissionsTo(m) :
                             row'[s].result.verdict = "pass" /\ Author[s] = match'[m].winner
                      ELSE /\ due'[m]
                           /\ Settled(m)'
                           /\ match'[m].winner = decideTiebreakWinner(m)'
  BY DEF OutcomeAgreesWithScores, SubmissionsTo
<1>2. SubmissionsTo(m) \subseteq Submissions
  BY DEF SubmissionsTo
<1>3. CASE match[m].status = "finished" /\ \E s \in SubmissionsTo(m) : row[s].result.verdict = "pass"
  <2>1. PICK s \in SubmissionsTo(m) :
          row[s].result.verdict = "pass" /\ Author[s] = match[m].winner
    BY <1>3 DEF DuelInv, OutcomeAgreesWithScores
  <2>2. row'[s] = row[s] /\ match'[m] = match[m]
    BY <1>0, <1>2, <1>3, <2>1, PassStays, FinishedStays
  <2>3. QED
    BY <2>1, <2>2
<1>4. CASE match[m].status = "finished" /\ ~\E s \in SubmissionsTo(m) : row[s].result.verdict = "pass"
  <2>1. due[m] /\ Settled(m) /\ match[m].winner = decideTiebreakWinner(m)
    BY <1>4 DEF DuelInv, OutcomeAgreesWithScores
  <2>2. \A s \in SubmissionsTo(m) : row'[s] = row[s]
    <3> SUFFICES ASSUME NEW s \in SubmissionsTo(m)
                 PROVE  row'[s] = row[s]
      OBVIOUS
    <3>1. row[s].status \in {"absent", "completed"}
      BY <1>1, <1>2, <2>1 DEF Settled, OpenIn, Open, Row
    <3>2. ~Insert(s)
      BY <1>4 DEF Insert, Admissible, SubmissionsTo
    <3>3. QED
      BY <1>0, <1>2, <3>1, <3>2, AbsentStays, CompletedStays
  <2>3. /\ decideTiebreakWinner(m)' = decideTiebreakWinner(m)
        /\ Settled(m)' <=> Settled(m)
    BY <2>2, ScoresKept
  <2>4. match'[m] = match[m] /\ due'[m]
    BY <1>0, <1>4, <2>1, FinishedStays, DueStays
  <2>5. QED
    BY <1>4, <2>1, <2>2, <2>3, <2>4
<1>5. CASE match[m].status = "active"
  <2>1. CASE \E s \in SubmissionsTo(m) :
               row'[s].result.verdict = "pass" /\ Author[s] = match'[m].winner
    BY <2>1
  <2>2. CASE /\ due[m]
             /\ Settled(m)
             /\ row' = row
             /\ match'[m].winner = decideTiebreakWinner(m)
    <3>1. \A s \in SubmissionsTo(m) : row'[s].result.verdict # "pass"
      BY <1>2, <1>5, <2>2 DEF DuelInv, PassEndsMatch, SubmissionsTo
    <3>2. /\ decideTiebreakWinner(m)' = decideTiebreakWinner(m)
          /\ Settled(m)' <=> Settled(m)
      BY <2>2, ScoresKept
    <3>3. due'[m]
      BY <2>2, DueStays
    <3>4. QED
      BY <2>2, <3>1, <3>2, <3>3
  <2>3. QED
    BY <1>0, <1>5, <2>1, <2>2, MatchEnds DEF DuelInv
<1>6. QED
  BY <1>1, <1>3, <1>4, <1>5 DEF MatchRow

(***************************************************************************)
(* The first pass ends a match, and what a finished match says agrees with *)
(* the judged rows for ever after.                                         *)
(***************************************************************************)
THEOREM DuelInvariant == Spec => []DuelInv
<1>1. Init => DuelInv
  BY SubmissionsAssumption
  DEF Init, DuelInv, ActiveUndecided, PassEndsMatch, OutcomeAgreesWithScores, NoRow, NoResult
<1>2. TypeInv /\ RowsOK /\ UnadmittedAbsent /\ DuelInv /\ [Next]_vars => DuelInv'
  BY ActiveUndecidedStep, PassEndsMatchStep, OutcomeStep, DatabaseSteps DEF DuelInv
<1>3. QED
  BY <1>1, <1>2, TypeInvariant, RowsInvariant, UnadmittedInvariant, PTL DEF Spec

\* A match with a passed submission is finished, for every number of
\* judges: Complete stores the pass and ends the match in one transaction.
THEOREM PassEndsMatchHolds == Spec => []PassEndsMatch
<1>1. DuelInv => PassEndsMatch
  BY DEF DuelInv
<1>2. QED
  BY <1>1, DuelInvariant, PTL

\* The winner of a finished match passed or, if nobody did, has the better
\* score: nothing judged after Complete or finalizeMatches changes that.
THEOREM OutcomeAgreesWithScoresHolds == Spec => []OutcomeAgreesWithScores
<1>1. DuelInv => OutcomeAgreesWithScores
  BY DEF DuelInv
<1>2. QED
  BY <1>1, DuelInvariant, PTL

-----------------------------------------------------------------------------
(* The pipeline implements the duel.                                       *)

\* The largest of some test counts exists.
LEMMA MaxIsLargest ==
    ASSUME NEW n \in Nat, NEW S \in SUBSET (0 .. n), S # {}
    PROVE  Max(S) \in S /\ \A y \in S : y <= Max(S)
<1> DEFINE T == {n - y : y \in S}
<1>1. T \subseteq Nat /\ T # {}
  <2>1. \A y \in S : n - y \in Nat
    OBVIOUS
  <2>2. PICK y \in S : TRUE
    OBVIOUS
  <2>3. n - y \in T
    BY <2>2
  <2>4. QED
    BY <2>1, <2>3
<1>2. PICK d \in T : \A e \in T : ~(<<e, d>> \in OpToRel(<, Nat))
  <2> HIDE DEF T
  <2>1. QED
    BY <1>1, NatLessThanWellFounded, WFMin, Zenon
<1>3. \A e \in T : ~(e < d)
  BY <1>1, <1>2 DEF OpToRel
<1>4. PICK x \in S : d = n - x
  OBVIOUS
<1>5. \A y \in S : x >= y
  BY <1>3, <1>4
<1>6. QED
  BY <1>5 DEF Max

\* finalizeMatch's score of a player: the best of the judged submissions.
LEMMA ScoreIsBest ==
    ASSUME TypeInv, NEW m \in Matches, NEW p
    PROVE  LET done == {s \in Submissions : /\ MatchOf[s] = m /\ Author[s] = p
                                            /\ row[s].status = "completed"}
           IN  /\ Score(m, p) \in Nat
               /\ \A s \in done : row[s].result.tests <= Score(m, p)
               /\ Score(m, p) = 0 \/ \E s \in done : row[s].result.tests = Score(m, p)
<1> DEFINE done == {s \in Submissions : /\ MatchOf[s] = m /\ Author[s] = p
                                        /\ row[s].status = "completed"}
           S == {0} \cup {row[s].result.tests : s \in done}
<1>1. \A s \in Submissions : row[s].result.tests \in 0 .. TotalTests
  BY DEF TypeInv, TypeOK, Row, Result
<1>2. TotalTests \in Nat
  BY NumbersAssumption
<1>3. S \in SUBSET (0 .. TotalTests) /\ S # {}
  BY <1>1, <1>2
<1>4. Max(S) \in S /\ \A y \in S : y <= Max(S)
  <2> HIDE DEF S
  <2>1. QED
    BY <1>2, <1>3, MaxIsLargest
<1>5. Score(m, p) = Max(S)
  <2>1. {s \in SubmissionsTo(m) : Author[s] = p /\ row[s].status = "completed"} = done
    BY DEF SubmissionsTo
  <2>2. QED
    BY <2>1 DEF Score
<1>6. Max(S) \in Nat
  <2> HIDE DEF S
  <2>1. S \subseteq Nat
    BY <1>2, <1>3
  <2>2. QED
    BY <1>4, <2>1, Zenon
<1>7. \A s \in done : row[s].result.tests <= Max(S)
  <2>1. \A s \in done : row[s].result.tests \in S
    OBVIOUS
  <2> HIDE DEF S
  <2>2. QED
    BY <1>4, <2>1
<1>8. Max(S) = 0 \/ \E s \in done : row[s].result.tests = Max(S)
  <2> DEFINE x == Max(S)
  <2>1. x \in S
    BY <1>4
  <2> HIDE DEF x
  <2>2. x = 0 \/ \E s \in done : row[s].result.tests = x
    BY <2>1
  <2>3. QED
    BY <2>2 DEF x
<1>9. QED
  BY <1>5, <1>6, <1>7, <1>8

\* decideTiebreakWinner compares two maxima; the duel asks for a submission
\* that beats all of the other player's.
LEMMA TiebreakIsBest ==
    ASSUME TypeInv, NEW m \in Matches
    PROVE  decideTiebreakWinner(m) = D!Best(m)
<1>1. ASSUME NEW p, NEW q
      PROVE  D!Outscores(m, p, q) <=> Score(m, p) > Score(m, q)
  <2> DEFINE Done(x) == {s \in Submissions : /\ MatchOf[s] = m /\ Author[s] = x
                                             /\ row[s].status = "completed"}
  <2>1. \A s \in Submissions : row[s].result.tests \in Nat
    BY NumbersAssumption DEF TypeInv, TypeOK, Row, Result
  <2>2. \A x : D!Judged(m, x) = Done(x)
    BY DEF D!Judged, Stage
  <2>3. D!Outscores(m, p, q) <=>
          \E s \in Done(p) : /\ row[s].result.tests > 0
                             /\ \A t \in Done(q) : row[s].result.tests > row[t].result.tests
    BY <2>2 DEF D!Outscores, D!Judged
  <2>4. /\ Score(m, p) \in Nat
        /\ \A s \in Done(p) : row[s].result.tests <= Score(m, p)
        /\ Score(m, p) = 0 \/ \E s \in Done(p) : row[s].result.tests = Score(m, p)
    BY ScoreIsBest
  <2>5. /\ Score(m, q) \in Nat
        /\ \A s \in Done(q) : row[s].result.tests <= Score(m, q)
        /\ Score(m, q) = 0 \/ \E s \in Done(q) : row[s].result.tests = Score(m, q)
    BY ScoreIsBest
  <2>6. QED
    BY <2>1, <2>3, <2>4, <2>5
<1>2. QED
  BY <1>1 DEF decideTiebreakWinner, D!Best

LEMMA DuelStarts == Init => D!DuelInit
<1> SUFFICES ASSUME Init PROVE D!DuelInit
  OBVIOUS
<1>1. \A s \in Submissions : /\ Stage(s) = "absent" /\ row[s].result.tests = 0
                             /\ row[s].result.verdict # "pass"
  BY DEF Init, NoRow, NoResult, Stage
<1>2. \A m \in Matches : match[m].status # "finished" /\ match[m].winner = NoPlayer
  BY DEF Init
<1>3. QED
  BY <1>1, <1>2 DEF D!DuelInit, Init

\* A step that the duel does not see.
LEMMA DuelStutters ==
    ASSUME \A s \in Submissions : /\ Stage(s)' = Stage(s) /\ row'[s].result = row[s].result,
           match' = match, due' = due
    PROVE  UNCHANGED D!duelVars
<1>1. [s \in Submissions |-> Stage(s)]' = [s \in Submissions |-> Stage(s)]
  OBVIOUS
<1>2. [s \in Submissions |-> row[s].result.verdict = "pass"]' =
        [s \in Submissions |-> row[s].result.verdict = "pass"]
  OBVIOUS
<1>3. [s \in Submissions |-> row[s].result.tests]' = [s \in Submissions |-> row[s].result.tests]
  OBVIOUS
<1>4. QED
  BY <1>1, <1>2, <1>3 DEF D!duelVars

\* Accept's INSERT is a submission.
LEMMA DuelSubmit ==
    ASSUME TypeInv, RowsOK, UnadmittedAbsent, NEW s \in Submissions, Insert(s), due' = due
    PROVE  D!Submit(s)
<1>0. row \in [Submissions -> Row] /\ MatchOf[s] \in Matches
  BY SubmissionsAssumption DEF TypeInv, TypeOK
<1>1. \A t \in Submissions : row'[t] = IF t = s THEN NewRow ELSE row[t]
  BY <1>0 DEF Insert
<1>2. row[s].status = "absent" /\ row[s].result = NoResult
  BY DEF Insert, UnadmittedAbsent, RowsOK
<1>3. NewRow.status = "pending" /\ NewRow.result = NoResult
  BY DEF NewRow, NoRow
<1>4. \A t \in Submissions : row'[t].result = row[t].result
  BY <1>1, <1>2, <1>3
<1>5. \A t \in Submissions : Stage(t)' = IF t = s THEN "open" ELSE Stage(t)
  BY <1>1, <1>3 DEF Stage
<1>6. match' = match /\ Author[s] \in Members(MatchOf[s]) /\ match[MatchOf[s]].status = "active"
  BY DEF Insert, Admissible
<1>7. Stage(s) = "absent"
  BY <1>2 DEF Stage
<1>8. QED
  BY <1>0, <1>4, <1>5, <1>6, <1>7 DEF D!Submit, Members

\* Complete is a pass that ends an active match, or a fail.
LEMMA DuelJudge ==
    ASSUME TypeInv, RowsOK, ActiveUndecided, NEW s \in Submissions, Judge(s), due' = due
    PROVE  D!Pass(s) \/ D!Fail(s)
<1> DEFINE m == MatchOf[s]
<1>0. /\ row \in [Submissions -> Row] /\ m \in Matches
      /\ match \in [Matches -> MatchRow] /\ row[s] \in Row
  BY SubmissionsAssumption DEF TypeInv, TypeOK
<1>1. PICK r \in TerminalResults : row' = Completed(s, r) /\ match' = MatchAfter(s, r)
  BY DEF Judge
<1>2. \A t \in Submissions : t # s => row'[t] = row[t]
  BY <1>0, <1>1 DEF Completed
<1>3. row'[s].status = "completed" /\ row'[s].result = r
  BY <1>0, <1>1 DEF Completed, Row
<1>4. row[s].status = "running" /\ row[s].result = NoResult
  BY DEF Judge, RowsOK
<1>5. Stage(s) = "open" /\ \A t \in Submissions : Stage(t)' = IF t = s THEN "judged" ELSE Stage(t)
  BY <1>2, <1>3, <1>4 DEF Stage
<1>6. \A t \in Submissions : row'[t].result = IF t = s THEN r ELSE row[t].result
  BY <1>2, <1>3
<1>7. CASE r.verdict = "pass"
  <2>1. r.tests = TotalTests
    BY <1>7 DEF TerminalResults
  <2>2. \A k \in Matches : match'[k].status = "finished" <=>
                             (k = m \/ match[k].status = "finished")
    <3>1. CASE match[m].status = "active"
      BY <1>0, <1>1, <1>7, <3>1 DEF MatchAfter, ActiveUndecided
    <3>2. CASE match[m].status = "finished"
      BY <1>0, <1>1, <1>7, <3>2 DEF MatchAfter, ActiveUndecided
    <3>3. QED
      BY <1>0, <3>1, <3>2 DEF MatchRow
  <2>3. \A k \in Matches : match'[k].winner =
          IF k = m /\ match[m].status # "finished" THEN Author[s] ELSE match[k].winner
    <3>1. CASE match[m].status = "active"
      BY <1>0, <1>1, <1>7, <3>1 DEF MatchAfter, ActiveUndecided
    <3>2. CASE match[m].status = "finished"
      BY <1>0, <1>1, <1>7, <3>2 DEF MatchAfter, ActiveUndecided
    <3>3. QED
      BY <1>0, <3>1, <3>2 DEF MatchRow
  <2> HIDE DEF m
  <2>4. [k \in Matches |-> match[k].status = "finished"]' =
          [[k \in Matches |-> match[k].status = "finished"] EXCEPT ![m] = TRUE]
    BY <1>0, <2>2
  <2>5. [k \in Matches |-> match[k].winner]' =
          [[k \in Matches |-> match[k].winner] EXCEPT ![m] =
             IF match[m].status = "finished" THEN match[m].winner ELSE Author[s]]
    BY <1>0, <2>3
  <2>6. [t \in Submissions |-> row[t].result.verdict = "pass"]' =
          [[t \in Submissions |-> row[t].result.verdict = "pass"] EXCEPT ![s] = TRUE]
    BY <1>6, <1>7
  <2>7. [t \in Submissions |-> row[t].result.tests]' =
          [[t \in Submissions |-> row[t].result.tests] EXCEPT ![s] = TotalTests]
    BY <1>6, <2>1
  <2>8. [t \in Submissions |-> Stage(t)]' =
          [[t \in Submissions |-> Stage(t)] EXCEPT ![s] = "judged"]
    BY <1>5
  <2>9. D!Pass(s)
    BY <1>0, <1>5, <2>4, <2>5, <2>6, <2>7, <2>8 DEF D!Pass, m
  <2>10. QED
    BY <2>9
<1>8. CASE r.verdict # "pass"
  <2>1. match' = match
    BY <1>1, <1>8 DEF MatchAfter
  <2>2. r.tests \in 0 .. TotalTests
    BY DEF TerminalResults, Result
  <2>3. [t \in Submissions |-> row[t].result.verdict = "pass"]' =
          [t \in Submissions |-> row[t].result.verdict = "pass"]
    BY <1>4, <1>6, <1>8 DEF NoResult
  <2>4. [t \in Submissions |-> row[t].result.tests]' =
          [[t \in Submissions |-> row[t].result.tests] EXCEPT ![s] = r.tests]
    BY <1>6
  <2>5. [t \in Submissions |-> Stage(t)]' =
          [[t \in Submissions |-> Stage(t)] EXCEPT ![s] = "judged"]
    BY <1>5
  <2>6. D!Fail(s)
    BY <1>5, <2>1, <2>2, <2>3, <2>4, <2>5 DEF D!Fail
  <2>7. QED
    BY <2>6
<1>9. QED
  BY <1>7, <1>8

\* reclaimLeases gives up the rows it poisons; a reset is not seen.
LEMMA DuelGiveUp ==
    ASSUME TypeInv, RowsOK, Reclaim, due' = due
    PROVE  D!GiveUp
<1>0. \A s \in Submissions : row[s] \in Row
  BY DEF TypeInv, TypeOK
<1>1. PICK B \in SUBSET {s \in Submissions : row[s].status = "running"} :
        row' = [s \in Submissions |->
                  IF s \notin B THEN row[s]
                  ELSE IF Retryable(s) THEN Reset(row[s])
                  ELSE Poison(row[s])]
  BY DEF Reclaim
<1> DEFINE G == {s \in B : ~Retryable(s)}
<1>2. ASSUME NEW s \in Submissions
      PROVE  /\ Stage(s)' = IF s \in G THEN "judged" ELSE Stage(s)
             /\ row'[s].result.tests = row[s].result.tests
             /\ row'[s].result.verdict = "pass" <=> row[s].result.verdict = "pass"
  <2>1. CASE s \notin B
    BY <1>1, <2>1 DEF Stage
  <2>2. CASE s \in B /\ Retryable(s)
    <3>1. row'[s] = Reset(row[s]) /\ row[s].status = "running"
      BY <1>1, <2>2
    <3>2. Reset(row[s]).status = "pending" /\ Reset(row[s]).result = row[s].result
      BY <1>0 DEF Reset, Row
    <3>3. QED
      BY <2>2, <3>1, <3>2 DEF Stage
  <2>3. CASE s \in B /\ ~Retryable(s)
    <3>1. row'[s] = Poison(row[s]) /\ row[s].result.verdict = "none"
      BY <1>1, <2>3 DEF RowsOK, NoResult
    <3>2. /\ Poison(row[s]).status = "completed"
          /\ Poison(row[s]).result = [verdict |-> "failed", tests |-> row[s].result.tests]
      BY <1>0 DEF Poison, Row
    <3>3. QED
      BY <2>3, <3>1, <3>2 DEF Stage
  <2>4. QED
    BY <2>1, <2>2, <2>3
<1>3. G \in SUBSET {s \in Submissions : Stage(s) = "open"}
  BY DEF Stage
<1> HIDE DEF G
<1>4. [s \in Submissions |-> Stage(s)]' =
        [s \in Submissions |-> IF s \in G THEN "judged" ELSE [t \in Submissions |-> Stage(t)][s]]
  BY <1>2
<1>5. [s \in Submissions |-> row[s].result.verdict = "pass"]' =
        [s \in Submissions |-> row[s].result.verdict = "pass"]
  BY <1>2
<1>6. [s \in Submissions |-> row[s].result.tests]' = [s \in Submissions |-> row[s].result.tests]
  BY <1>2
<1>7. match' = match
  BY DEF Reclaim
<1>8. QED
  BY <1>3, <1>4, <1>5, <1>6, <1>7 DEF D!GiveUp

\* finalizeMatches closes expired matches on their scores.
LEMMA DuelClose ==
    ASSUME TypeInv, Decide, due' = due
    PROVE  D!Close
<1>0. match \in [Matches -> MatchRow]
  BY DEF TypeInv, TypeOK
<1>1. PICK C \in SUBSET {m \in Matches : match[m].status = "active" /\ due[m] /\ Settled(m)} :
        match' = [m \in Matches |->
                    IF m \in C
                      THEN [status |-> "finished", winner |-> decideTiebreakWinner(m)]
                      ELSE match[m]]
  BY DEF Decide
<1>2. row' = row
  BY DEF Decide
<1>3. \A m \in Matches : /\ match'[m].status = "finished" <=>
                              (m \in C \/ match[m].status = "finished")
                         /\ match'[m].winner = IF m \in C THEN D!Best(m) ELSE match[m].winner
  BY <1>1, TiebreakIsBest
<1>4. ASSUME NEW m \in C, NEW s \in Submissions, MatchOf[s] = m
      PROVE  Stage(s) # "open"
  <2>1. row[s].status \notin {"pending", "running"} /\ row[s] \in Row
    BY <1>4 DEF Settled, OpenIn, Open, SubmissionsTo, TypeInv, TypeOK
  <2>2. QED
    BY <2>1 DEF Stage, Row
<1>5. C \in SUBSET Matches /\ \A m \in C : match[m].status # "finished" /\ due[m]
  OBVIOUS
<1>6. [m \in Matches |-> match[m].status = "finished"]' =
        [m \in Matches |-> m \in C \/ [k \in Matches |-> match[k].status = "finished"][m]]
  BY <1>3
<1>7. [m \in Matches |-> match[m].winner]' =
        [m \in Matches |-> IF m \in C THEN D!Best(m)
                            ELSE [k \in Matches |-> match[k].winner][m]]
  BY <1>3
<1>8. UNCHANGED <<[s \in Submissions |-> Stage(s)],
                  [s \in Submissions |-> row[s].result.verdict = "pass"],
                  [s \in Submissions |-> row[s].result.tests]>>
  BY <1>2 DEF Stage
<1>9. \A m \in C :
        /\ ~[k \in Matches |-> match[k].status = "finished"][m]
        /\ due[m]
        /\ \A s \in Submissions :
             MatchOf[s] = m => [t \in Submissions |-> Stage(t)][s] # "open"
  BY <1>4, <1>5
<1>10. QED
  BY <1>5, <1>6, <1>7, <1>8, <1>9, Zenon DEF D!Close

\* The clock that the duel sees ticks alone.
LEMMA DueStep ==
    ASSUME [Next]_vars
    PROVE  \/ due' = due
           \/ /\ \E m \in Matches : due' = [due EXCEPT ![m] = TRUE]
              /\ UNCHANGED <<row, match>>
<1>1. ASSUME NEW s \in Submissions, GatewayStep(s) \/ DispatcherStep(s)
      PROVE  due' = due
  BY <1>1 DEF GatewayStep, AcceptLock, AcceptCommit, AcceptReject, GatewayXAdd,
              GatewayMark, GatewayFails, DispatcherStep, DispatchPending,
              DispatchPendingFails
<1>2. ASSUME NEW w \in Workers, WorkerStep(w)
      PROVE  due' = due
  BY <1>2 DEF WorkerStep, ReadJob, DiscardJob, ClaimRunning, ClaimCompleted,
              ClaimAcquired, CompleteApplied, CompleteLost, AttemptFails, Publish,
              FinalizeJob, WorkerFails
<1>3. ASSUME ReaperStep
      PROVE  due' = due
  BY <1>3 DEF ReaperStep, ReclaimLeases, AnnouncePoisoned, SweepStream,
              HandleReclaimedJob, ReplacementXAdd, ReplacementMark, FinalizeReclaimed,
              ReclaimedJobFails, FinalizeMatches, ReaperFails
<1>4. CASE \E m \in Matches : DeadlinePasses(m)
  BY <1>4 DEF DeadlinePasses
<1>5. CASE \/ \E s \in Submissions : LeaseRunsOut(s) \/ MarkGoesStale(s)
           \/ \E i \in DOMAIN pel : EntryGoesIdle(i)
           \/ UNCHANGED vars
  BY <1>5 DEF LeaseRunsOut, MarkGoesStale, EntryGoesIdle, vars
<1>6. QED
  BY <1>1, <1>2, <1>3, <1>4, <1>5 DEF Next, TimeStep

LEMMA DuelSteps ==
    TypeInv /\ RowsOK /\ UnadmittedAbsent /\ DuelInv /\ [Next]_vars
        => [D!DuelNext]_(D!duelVars)
<1> SUFFICES ASSUME TypeInv, RowsOK, UnadmittedAbsent, DuelInv, [Next]_vars
             PROVE  D!DuelNext \/ UNCHANGED D!duelVars
  OBVIOUS
<1>1. ASSUME NEW m \in Matches, due' = [due EXCEPT ![m] = TRUE], UNCHANGED <<row, match>>
      PROVE  D!DuelNext
  <2>1. UNCHANGED <<[s \in Submissions |-> Stage(s)],
                    [s \in Submissions |-> row[s].result.verdict = "pass"],
                    [s \in Submissions |-> row[s].result.tests],
                    [k \in Matches |-> match[k].status = "finished"],
                    [k \in Matches |-> match[k].winner]>>
    BY <1>1 DEF Stage
  <2>2. D!DeadlinePassed(m)
    BY <1>1, <2>1 DEF D!DeadlinePassed
  <2>3. QED
    BY <2>2 DEF D!DuelNext
<1>2. ASSUME due' = due
      PROVE  D!DuelNext \/ UNCHANGED D!duelVars
  <2>1. CASE \E s \in Submissions : Insert(s)
    BY <1>2, <2>1, DuelSubmit DEF D!DuelNext
  <2>2. CASE \E s \in Submissions : Judge(s)
    BY <1>2, <2>2, DuelJudge DEF D!DuelNext, DuelInv
  <2>3. CASE Reclaim
    BY <1>2, <2>3, DuelGiveUp DEF D!DuelNext
  <2>4. CASE Decide
    BY <1>2, <2>4, DuelClose DEF D!DuelNext
  <2>5. ASSUME NEW s \in Submissions, Touch(s)
        PROVE  UNCHANGED D!duelVars
    <3>1. row \in [Submissions -> Row]
      BY DEF TypeInv, TypeOK
    <3>2. \A t \in Submissions : t # s => row'[t] = row[t]
      BY <2>5, <3>1 DEF Touch
    <3>3. row'[s].result = row[s].result /\ match' = match
      BY <2>5 DEF Touch
    <3>4. row[s].status \in {"pending", "running"} /\ row'[s].status \in {"pending", "running"}
      BY <2>5 DEF Touch, Open
    <3>5. \A t \in Submissions : Stage(t)' = Stage(t) /\ row'[t].result = row[t].result
      BY <3>2, <3>3, <3>4 DEF Stage
    <3>6. QED
      BY <1>2, <3>3, <3>5, DuelStutters
  <2>6. CASE Same
    <3>1. \A t \in Submissions : Stage(t)' = Stage(t) /\ row'[t].result = row[t].result
      BY <2>6 DEF Stage, Same
    <3>2. QED
      BY <1>2, <2>6, <3>1, DuelStutters DEF Same
  <2>7. QED
    BY <2>1, <2>2, <2>3, <2>4, <2>5, <2>6, DatabaseSteps DEF DbStep
<1>3. QED
  BY <1>1, <1>2, DueStep

(***************************************************************************)
(* The pipeline implements the duel, for any number of players, matches,   *)
(* judges and failures: what its gateways, dispatchers, judges and reaper  *)
(* do to the two tables is one submission, one verdict, one expiry or one  *)
(* decision on the scores at a time, or nothing at all.                    *)
(***************************************************************************)
THEOREM PipelineImplementsDuel == Spec => ImplementsDuel
BY DuelStarts, DuelSteps, TypeInvariant, RowsInvariant, UnadmittedInvariant, DuelInvariant,
   PTL DEF Spec, ImplementsDuel, D!DuelSpec

-----------------------------------------------------------------------------
(* What a step may do to a worker.                                         *)

\* All that matters of a worker but the place of its entry in the PEL.
Kept(v) ==
    /\ wk'[v].pc = wk[v].pc
    /\ wk'[v].token = wk[v].token
    /\ wk'[v].result = wk[v].result
    /\ wk'[v].winner = wk[v].winner
    /\ wk'[v].job.load = wk[v].job.load

\* Another process finalizing an entry renumbers a worker's job, nothing else.
LEMMA MovedKeeps ==
    ASSUME TypeInv, NEW at \in 0 .. Len(pel), NEW v \in Workers,
           wk'[v] = WorkersMoved(at)[v]
    PROVE  Kept(v)
<1>1. WorkersMoved(at)[v] = [wk[v] EXCEPT !.job = JobMoved(wk[v].job, at)]
  BY DEF WorkersMoved
<1>2. wk[v] \in WorkerState
  BY DEF TypeInv, TypeOK
<1>3. WorkersMoved(at)[v].job.load = wk[v].job.load
  BY WorkersMovedType
<1>4. QED
  BY <1>1, <1>2, <1>3 DEF Kept, WorkerState

\* What one step can do to a worker that executes or publishes afterwards:
\* nothing that matters, a claim, or its own completion.
LEMMA WorkerEffect ==
    ASSUME TypeInv, [Next]_vars, NEW v \in Workers
    PROVE  \/ Kept(v)
           \/ wk'[v].pc \notin {"execute", "publish"}
           \/ ClaimAcquired(v)
           \/ ClaimCompleted(v)
           \/ CompleteApplied(v)
<1>0. wk \in [Workers -> WorkerState] /\ Len(pel) \in Nat
  BY LenProperties DEF TypeInv, TypeOK, QueueTypeOK
<1>1. CASE wk' = wk
  BY <1>1 DEF Kept
<1>2. ASSUME NEW w \in Workers, WorkerStep(w), w # v, ~FinalizeJob(w)
      PROVE  Kept(v)
  <2>1. wk'[v] = wk[v]
    BY <1>0, <1>2 DEF WorkerStep, ReadJob, DiscardJob, ClaimRunning, ClaimCompleted,
                      ClaimAcquired, CompleteApplied, CompleteLost, AttemptFails,
                      Publish, WorkerFails
  <2>2. QED
    BY <2>1 DEF Kept
<1>3. ASSUME NEW w \in Workers, FinalizeJob(w)
      PROVE  Kept(v) \/ wk'[v].pc = "idle"
  <2>1. wk[w].job.at \in 0 .. Len(pel)
    <3>1. wk[w].job \in Job \cup {NoJob} /\ wk[w].job.at <= Len(pel)
      BY DEF TypeInv, TypeOK, JobsOK, WorkerState
    <3>2. wk[w].job.at \in Nat
      BY <3>1 DEF Job, NoJob, Gone
    <3>3. QED
      BY <1>0, <3>1, <3>2
  <2>2. wk' = [WorkersMoved(wk[w].job.at) EXCEPT ![w] = IdleWorker]
    BY <1>3 DEF FinalizeJob
  <2>3. CASE v = w
    BY <2>2, <2>3 DEF WorkersMoved, IdleWorker
  <2>4. CASE v # w
    <3>1. wk'[v] = WorkersMoved(wk[w].job.at)[v]
      BY <2>2, <2>4 DEF WorkersMoved
    <3>2. QED
      BY <2>1, <3>1, MovedKeeps
  <2>5. QED
    BY <2>3, <2>4
<1>4. ASSUME WorkerStep(v), ~FinalizeJob(v)
      PROVE  \/ wk'[v].pc \notin {"execute", "publish"}
             \/ ClaimAcquired(v) \/ ClaimCompleted(v) \/ CompleteApplied(v)
  <2>0. wk[v] \in WorkerState /\ IdleWorker \in WorkerState /\ IdleWorker.pc = "idle"
    BY <1>0, IdleTypes DEF IdleWorker
  <2>1. CASE ReadJob(v)
    <3>1. wk'[v] = [IdleWorker EXCEPT !.pc = "claim", !.job = JobRead]
      BY <1>0, <2>1 DEF ReadJob
    <3>2. QED
      BY <2>0, <3>1 DEF WorkerState
  <2>2. CASE DiscardJob(v) \/ ClaimRunning(v)
    <3>1. wk'[v] \in {[wk[v] EXCEPT !.pc = "ack"], IdleWorker}
      BY <1>0, <2>2 DEF DiscardJob, ClaimRunning
    <3>2. [wk[v] EXCEPT !.pc = "ack"].pc = "ack"
      BY <2>0 DEF WorkerState
    <3>3. QED
      BY <2>0, <3>1, <3>2
  <2>3. CASE CompleteLost(v) \/ AttemptFails(v) \/ WorkerFails(v)
    BY <1>0, <2>0, <2>3 DEF CompleteLost, AttemptFails, WorkerFails
  <2>4. CASE Publish(v)
    <3>1. wk'[v] = [IdleWorker EXCEPT !.pc = "ack", !.job = wk[v].job]
      BY <1>0, <2>4 DEF Publish
    <3>2. QED
      BY <2>0, <3>1 DEF WorkerState
  <2>5. QED
    BY <1>4, <2>1, <2>2, <2>3, <2>4 DEF WorkerStep
<1>5. ASSUME ReaperStep
      PROVE  Kept(v)
  <2>1. CASE FinalizeReclaimed
    <3>1. rp.cur.at \in 0 .. Len(pel)
      <4>1. rp.cur \in Job \cup {NoJob} /\ rp.cur.at <= Len(pel)
        BY DEF TypeInv, TypeOK, JobsOK, ReaperState
      <4>2. rp.cur.at \in Nat
        BY <4>1 DEF Job, NoJob, Gone
      <4>3. QED
        BY <1>0, <4>1, <4>2
    <3>2. QED
      BY <2>1, <3>1, MovedKeeps DEF FinalizeReclaimed
  <2>2. CASE ~FinalizeReclaimed
    BY <1>1, <1>5, <2>2 DEF ReaperStep, ReclaimLeases, AnnouncePoisoned, SweepStream,
         HandleReclaimedJob, ReplacementXAdd, ReplacementMark, ReclaimedJobFails,
         FinalizeMatches, ReaperFails, Kept
  <2>3. QED
    BY <2>1, <2>2
<1>6. ASSUME NEW s \in Submissions, GatewayStep(s) \/ DispatcherStep(s)
      PROVE  wk' = wk
  BY <1>6 DEF GatewayStep, AcceptLock, AcceptCommit, AcceptReject, GatewayXAdd,
              GatewayMark, GatewayFails, DispatcherStep, DispatchPending,
              DispatchPendingFails
<1>7. ASSUME TimeStep
      PROVE  wk' = wk
  BY <1>7 DEF TimeStep, DeadlinePasses, LeaseRunsOut, MarkGoesStale, EntryGoesIdle
<1>8. CASE UNCHANGED vars
  BY <1>1, <1>8 DEF vars
<1>9. CASE Next
  <2>1. ASSUME NEW w \in Workers, WorkerStep(w)
        PROVE  \/ Kept(v)
               \/ wk'[v].pc \notin {"execute", "publish"}
               \/ ClaimAcquired(v) \/ ClaimCompleted(v) \/ CompleteApplied(v)
    BY <1>2, <1>3, <1>4, <2>1
  <2>2. QED
    BY <1>1, <1>5, <1>6, <1>7, <1>9, <2>1 DEF Next
<1>10. QED
  BY <1>8, <1>9

-----------------------------------------------------------------------------
(* An attempt has one owner.                                               *)

\* The tokens of two running attempts differ, whatever rows they are for.
TokensDistinct ==
    \A v, w \in Workers :
        v # w /\ wk[v].pc = "execute" /\ wk[w].pc = "execute"
          => wk[v].token # wk[w].token

\* A claim takes a token that no other worker holds.
LEMMA ClaimIsFresh ==
    ASSUME TypeInv, NEW v \in Workers, NEW u \in Workers, u # v, ClaimAcquired(v)
    PROVE  wk'[u] = wk[u] /\ wk'[v].token # wk[u].token
<1>0. wk \in [Workers -> WorkerState] /\ wk[v] \in WorkerState
  BY DEF TypeInv, TypeOK
<1>1. FreshToken \notin UsedTokens
  BY DEF ClaimAcquired, FreshToken
<1>2. wk[u].token \in UsedTokens
  BY DEF UsedTokens
<1>3. wk' = [wk EXCEPT ![v].pc = "execute", ![v].token = FreshToken]
  BY DEF ClaimAcquired
<1>4. wk'[u] = wk[u] /\ wk'[v].token = FreshToken
  BY <1>0, <1>3 DEF WorkerState
<1>5. QED
  BY <1>1, <1>2, <1>4

\* uuid.New: executing workers keep distinct tokens through every step.
LEMMA TokensStep ==
    ASSUME TypeInv, TokensDistinct, [Next]_vars
    PROVE  TokensDistinct'
<1>0. wk \in [Workers -> WorkerState]
  BY DEF TypeInv, TypeOK
<1> SUFFICES ASSUME NEW v \in Workers, NEW w \in Workers, v # w,
                    wk'[v].pc = "execute", wk'[w].pc = "execute"
             PROVE  wk'[v].token # wk'[w].token
  BY DEF TokensDistinct
<1>1. \A u \in Workers : ClaimCompleted(u) \/ CompleteApplied(u) => wk'[u].pc = "publish"
  <2> SUFFICES ASSUME NEW u \in Workers, ClaimCompleted(u) \/ CompleteApplied(u)
               PROVE  wk'[u].pc = "publish"
    OBVIOUS
  <2>1. wk[u] \in WorkerState
    BY <1>0
  <2>2. CASE ClaimCompleted(u)
    BY <1>0, <2>1, <2>2 DEF ClaimCompleted, WorkerState
  <2>3. CASE CompleteApplied(u)
    <3>1. PICK r \in TerminalResults :
            wk' = [wk EXCEPT ![u] = [wk[u] EXCEPT
                     !.pc = "publish", !.token = NoToken, !.result = r,
                     !.winner = match'[MatchOf[wk[u].job.load]].winner]]
      BY <2>3 DEF CompleteApplied
    <3>2. QED
      BY <1>0, <2>1, <3>1 DEF WorkerState
  <2>4. QED
    BY <2>2, <2>3
<1>2. \A u \in {v, w} : Kept(u) \/ ClaimAcquired(u)
  BY <1>1, WorkerEffect
<1>3. CASE ClaimAcquired(v)
  BY <1>3, ClaimIsFresh
<1>4. CASE ClaimAcquired(w)
  BY <1>4, ClaimIsFresh
<1>5. CASE Kept(v) /\ Kept(w)
  BY <1>5 DEF Kept, TokensDistinct
<1>6. QED
  BY <1>2, <1>3, <1>4, <1>5

(***************************************************************************)
(* At most one worker's Complete can be applied to a claimed row, however  *)
(* often its lease was reclaimed and the row claimed again: the attempt    *)
(* token fences the earlier ones.                                          *)
(***************************************************************************)
THEOREM SingleOwnerHolds == Spec => []SingleOwner
<1>1. Init => TokensDistinct
  BY DEF Init, TokensDistinct, IdleWorker
<1>2. TypeInv /\ TokensDistinct /\ [Next]_vars => TokensDistinct'
  BY TokensStep
<1>3. TokensDistinct => SingleOwner
  BY DEF TokensDistinct, SingleOwner, OwnsAttempt
<1>4. QED
  BY <1>1, <1>2, <1>3, TypeInvariant, PTL DEF Spec

-----------------------------------------------------------------------------
(* What is published is what is stored.                                    *)

PublishTrue(v) ==
    wk[v].pc = "publish" =>
      LET s == wk[v].job.load IN
      /\ row[s].status = "completed"
      /\ wk[v].result = row[s].result
      /\ wk[v].winner # NoPlayer => wk[v].winner = match[MatchOf[s]].winner

PoisonedTrue ==
    \A s \in rp.poisoned :
        /\ row[s].status = "completed"
        /\ row[s].result = [verdict |-> "failed", tests |-> 0]

EventsInv == PoisonedTrue /\ \A v \in Workers : PublishTrue(v)

\* What a judge holds for publishing stays true to the tables.
LEMMA PublishStep ==
    ASSUME TypeInv, RowsOK, UnadmittedAbsent, ActiveUndecided, [Next]_vars,
           NEW v \in Workers, PublishTrue(v)
    PROVE  PublishTrue(v)'
<1>0. /\ wk \in [Workers -> WorkerState] /\ wk[v] \in WorkerState
      /\ row \in [Submissions -> Row] /\ match \in [Matches -> MatchRow]
  BY DEF TypeInv, TypeOK
<1>D. DbStep
  BY DatabaseSteps
<1> DEFINE s == wk[v].job.load
           m == MatchOf[s]
<1>1. CASE wk'[v].pc # "publish"
  BY <1>1 DEF PublishTrue
<1>2. CASE Kept(v) /\ wk'[v].pc = "publish"
  <2>1. s \in Submissions /\ wk[v].pc = "publish"
    BY <1>2 DEF Kept, TypeInv, JobsOK
  <2>2. row'[s] = row[s] /\ row[s].status = "completed"
    BY <1>D, <2>1, CompletedStays DEF PublishTrue
  <2>3. m \in Matches
    BY <2>1, SubmissionsAssumption
  <2>4. wk[v].winner # NoPlayer => match'[m] = match[m]
    <3>1. SUFFICES ASSUME wk[v].winner # NoPlayer PROVE match[m].status = "finished"
      BY <1>D, <2>3, FinishedStays
    <3>2. match[m].winner # NoPlayer
      BY <2>1, <3>1 DEF PublishTrue
    <3>3. QED
      BY <1>0, <2>3, <3>2 DEF ActiveUndecided, MatchRow
  <2>5. QED
    BY <1>2, <2>1, <2>2, <2>4 DEF PublishTrue, Kept
<1>3. CASE ClaimCompleted(v)
  <2>1. PICK seen \in {match[m].winner, NoPlayer} :
          /\ wk'[v] = [wk[v] EXCEPT !.pc = "publish", !.result = row[s].result,
                                    !.winner = seen]
          /\ row[s].status = "completed" /\ row' = row /\ match' = match
    BY <1>0, <1>3 DEF ClaimCompleted
  <2>2. /\ wk'[v].job = wk[v].job /\ wk'[v].result = row[s].result
        /\ wk'[v].winner = seen
    BY <1>0, <2>1 DEF WorkerState
  <2>3. QED
    BY <2>1, <2>2 DEF PublishTrue
<1>4. CASE CompleteApplied(v)
  <2>1. s \in Submissions
    BY <1>4 DEF CompleteApplied, TypeInv, JobsOK
  <2>2. PICK r \in TerminalResults :
          /\ row' = Completed(s, r)
          /\ wk' = [wk EXCEPT ![v] = [wk[v] EXCEPT !.pc = "publish", !.token = NoToken,
                                                   !.result = r,
                                                   !.winner = match'[m].winner]]
    BY <1>4 DEF CompleteApplied
  <2>3. row'[s].status = "completed" /\ row'[s].result = r
    BY <1>0, <2>1, <2>2 DEF Completed, Row
  <2>4. wk'[v].job = wk[v].job /\ wk'[v].result = r /\ wk'[v].winner = match'[m].winner
    BY <1>0, <2>2 DEF WorkerState
  <2>5. QED
    BY <2>3, <2>4 DEF PublishTrue
<1>5. CASE ClaimAcquired(v)
  <2>1. wk'[v].pc = "execute"
    BY <1>0, <1>5 DEF ClaimAcquired, WorkerState
  <2>2. QED
    BY <2>1 DEF PublishTrue
<1>6. QED
  BY <1>1, <1>2, <1>3, <1>4, <1>5, WorkerEffect

\* The reaper's list of given-up submissions is made by reclaimLeases.
LEMMA PoisonedKept ==
    ASSUME TypeInv, [Next]_vars
    PROVE  rp'.poisoned \subseteq rp.poisoned \/ ReclaimLeases
<1>0. rp \in ReaperState /\ IdleReaper.poisoned = {}
  BY DEF TypeInv, TypeOK, IdleReaper
<1>1. CASE rp' = rp
  BY <1>1
<1>2. ASSUME NEW at, rp' = ReaperMoved(at)
      PROVE  rp'.poisoned = rp.poisoned
  BY <1>0, <1>2 DEF ReaperMoved, ReaperState
<1>3. \A jobs, err : AfterJob(jobs, err).poisoned = {}
  BY DEF AfterJob, IdleReaper
<1>4. ASSUME ReaperStep
      PROVE  rp'.poisoned \subseteq rp.poisoned \/ ReclaimLeases
  <2>1. CASE AnnouncePoisoned
    BY <2>1 DEF AnnouncePoisoned, IdleReaper
  <2>2. CASE SweepStream \/ FinalizeReclaimed \/ ReclaimedJobFails
    BY <1>3, <2>2 DEF SweepStream, FinalizeReclaimed, ReclaimedJobFails
  <2>3. CASE HandleReclaimedJob
    BY <1>0, <1>3, <2>3 DEF HandleReclaimedJob, ReaperState
  <2>4. CASE ReplacementXAdd \/ ReplacementMark
    BY <1>0, <2>4 DEF ReplacementXAdd, ReplacementMark, ReaperState
  <2>5. CASE FinalizeMatches \/ ReaperFails
    BY <1>0, <2>5 DEF FinalizeMatches, ReaperFails
  <2>6. QED
    BY <1>4, <2>1, <2>2, <2>3, <2>4, <2>5 DEF ReaperStep
<1>5. ASSUME NEW w \in Workers, WorkerStep(w)
      PROVE  rp' = rp \/ \E at \in {wk[w].job.at} : rp' = ReaperMoved(at)
  BY <1>5 DEF WorkerStep, ReadJob, DiscardJob, ClaimRunning, ClaimCompleted,
              ClaimAcquired, CompleteApplied, CompleteLost, AttemptFails, Publish,
              FinalizeJob, WorkerFails
<1>6. ASSUME NEW s \in Submissions, GatewayStep(s) \/ DispatcherStep(s)
      PROVE  rp' = rp
  BY <1>6 DEF GatewayStep, AcceptLock, AcceptCommit, AcceptReject, GatewayXAdd,
              GatewayMark, GatewayFails, DispatcherStep, DispatchPending,
              DispatchPendingFails
<1>7. ASSUME TimeStep
      PROVE  rp' = rp
  BY <1>7 DEF TimeStep, DeadlinePasses, LeaseRunsOut, MarkGoesStale, EntryGoesIdle
<1>8. CASE UNCHANGED vars
  BY <1>1, <1>8 DEF vars
<1>9. CASE Next
  BY <1>1, <1>2, <1>4, <1>5, <1>6, <1>7, <1>9 DEF Next
<1>10. QED
  BY <1>8, <1>9

\* What the reaper is about to announce stays true to the tables.
LEMMA PoisonedStep ==
    ASSUME TypeInv, RowsOK, UnadmittedAbsent, PoisonedTrue, [Next]_vars
    PROVE  PoisonedTrue'
<1>0. row \in [Submissions -> Row] /\ rp.poisoned \subseteq Submissions
  BY DEF TypeInv, TypeOK, ReaperState
<1>D. DbStep
  BY DatabaseSteps
<1>1. CASE rp'.poisoned \subseteq rp.poisoned
  <2>1. \A s \in rp.poisoned : row'[s] = row[s]
    BY <1>0, <1>D, CompletedStays DEF PoisonedTrue
  <2>2. QED
    BY <1>1, <2>1 DEF PoisonedTrue
<1>2. CASE ReclaimLeases
  <2>1. PICK B \in LeaseBatches :
          /\ row' = [s \in Submissions |->
                       IF s \notin B THEN row[s]
                       ELSE IF Retryable(s) THEN Reset(row[s])
                       ELSE Poison(row[s])]
          /\ rp' = [IdleReaper EXCEPT
                      !.pc = IF {s \in B : ~Retryable(s)} = {} THEN "sweep" ELSE "announce",
                      !.poisoned = {s \in B : ~Retryable(s)}]
    BY <1>2 DEF ReclaimLeases
  <2>2. rp'.poisoned = {s \in B : ~Retryable(s)}
    BY <2>1 DEF IdleReaper
  <2>3. \A s \in B : s \in Submissions /\ row[s].status = "running"
    BY DEF LeaseBatches, LeaseExpired
  <2>4. ASSUME NEW s \in B, ~Retryable(s)
        PROVE  /\ row'[s].status = "completed"
               /\ row'[s].result = [verdict |-> "failed", tests |-> 0]
    <3>1. row'[s] = Poison(row[s]) /\ row[s] \in Row
      BY <1>0, <2>1, <2>3, <2>4
    <3>2. row[s].result.tests = 0
      BY <2>3 DEF RowsOK, NoResult
    <3>3. QED
      BY <3>1, <3>2 DEF Poison, Row
  <2>5. QED
    BY <2>2, <2>4 DEF PoisonedTrue
<1>3. QED
  BY <1>1, <1>2, PoisonedKept

(***************************************************************************)
(* Judges and reaper tell players nothing but what the tables hold.        *)
(***************************************************************************)
THEOREM EventsAreTrueHolds == Spec => []EventsAreTrue
<1>1. Init => EventsInv
  BY DEF Init, EventsInv, PoisonedTrue, PublishTrue, IdleWorker, IdleReaper
<1>2. TypeInv /\ RowsOK /\ UnadmittedAbsent /\ DuelInv /\ EventsInv /\ [Next]_vars
        => EventsInv'
  BY PublishStep, PoisonedStep DEF EventsInv, DuelInv
<1>3. EventsInv => EventsAreTrue
  BY DEF EventsInv, PoisonedTrue, PublishTrue, EventsAreTrue
<1>4. QED
  BY <1>1, <1>2, <1>3, TypeInvariant, RowsInvariant, UnadmittedInvariant, DuelInvariant,
     PTL DEF Spec
=============================================================================
