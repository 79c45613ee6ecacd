------------------------- MODULE SubmissionPipeline -------------------------
(***************************************************************************)
(* The life of a submission, from the gateway's Accept to the end of its   *)
(* match: internal/submission (Accept, Dispatch, DispatchPending),         *)
(* internal/judge (processJob, Claim, Complete) and internal/reaper        *)
(* (reclaimLeases, sweepStream, finalizeMatches), over the PostgreSQL rows *)
(* they share and the Redis Stream of module JudgeQueue.                   *)
(*                                                                         *)
(* Every PostgreSQL transaction that touches nothing else is one step: the *)
(* code takes the row locks it needs before it reads.  Every call to Redis *)
(* and every transaction of a handler is a step of its own, so handlers of *)
(* different processes interleave between them, and a process may fail     *)
(* between any two of its steps.                                           *)
(*                                                                         *)
(* Time enters only as flags that the environment raises: a match deadline *)
(* passes, a lease runs out, an enqueue mark goes stale, a delivered entry *)
(* has been idle too long.  Nothing orders these events against the steps  *)
(* of the processes, which may be arbitrarily slow.                        *)
(***************************************************************************)
EXTENDS JudgeQueue

CONSTANTS
    Players,
    NoPlayer,       \* a NULL winner_id
    Matches,        \* numbers, in the order (deadline, id)
    MatchPlayers,   \* the two match_players of a match, by slot
    Submissions,    \* one per (player_id, request_id)
    Author,         \* the player of a submission
    MatchOf,        \* the match it is sent to
    Workers,        \* judge workers of all judge processes
    Tokens,         \* attempt tokens (uuid.New)
    NoToken,
    TotalTests,     \* test cases of the problem
    MaxAttempts,    \* ReaperConfig.MaxAttempts
    MaxCopies,      \* bound: entries of one submission that re-dispatch adds to
    MaxFaults       \* bound: failures outside a running attempt

ASSUME MatchesAssumption ==
    /\ Matches \subseteq Nat
    /\ NoPlayer \notin Players
    /\ MatchPlayers \in [Matches -> Players \X Players]
    /\ \A m \in Matches : MatchPlayers[m][1] # MatchPlayers[m][2]

ASSUME SubmissionsAssumption ==
    /\ Submissions \subseteq Payloads
    /\ Author \in [Submissions -> Players]
    /\ MatchOf \in [Submissions -> Matches]

ASSUME NumbersAssumption ==
    /\ TotalTests \in Nat \ {0}
    /\ MaxAttempts \in Nat \ {0}
    /\ MaxCopies \in Nat
    /\ MaxFaults \in Nat
    /\ NoToken \notin Tokens

VARIABLES
    row,     \* the submissions table
    match,   \* the matches table: status and winner_id
    due,     \* whether a match's deadline has passed
    gw,      \* the gateway handler of each submission request
    wk,      \* each judge worker's processJob
    rp,      \* the reaper's tick
    faults   \* failures so far

dbVars == <<row, match>>
vars == <<row, match, due, gw, wk, rp, faults, stream, pel>>

-----------------------------------------------------------------------------
(* The rows and the local state of the processes.                          *)

Verdicts == {"pass", "fail", "failed"}   \* "fail" also stands for error and timeout

Result == [verdict : Verdicts \cup {"none"}, tests : 0 .. TotalTests]

NoResult == [verdict |-> "none", tests |-> 0]

\* submissions: 000004_submission_lifecycle.up.sql
Row == [status : {"absent", "pending", "running", "completed"},
        attempts : Nat,
        token : Tokens \cup {NoToken},
        lease : {"null", "live", "expired"},
        enqueued : {"null", "fresh", "stale"},
        result : Result]

NoRow == [status |-> "absent", attempts |-> 0, token |-> NoToken,
          lease |-> "null", enqueued |-> "null", result |-> NoResult]

NewRow == [NoRow EXCEPT !.status = "pending"]

MatchRow == [status : {"active", "finished"}, winner : Players \cup {NoPlayer}]

NoJob == [at |-> Gone, load |-> "none"]

WorkerState == [pc : {"idle", "claim", "execute", "publish", "ack"},
                job : Job \cup {NoJob},
                token : Tokens \cup {NoToken},
                result : Result,
                winner : Players \cup {NoPlayer}]

IdleWorker == [pc |-> "idle", job |-> NoJob, token |-> NoToken,
               result |-> NoResult, winner |-> NoPlayer]

ReaperState == [pc : {"idle", "announce", "sweep", "job", "xadd", "mark", "ack",
                      "finalize"},
                poisoned : SUBSET Submissions,
                jobs : SUBSET Job,
                cur : Job \cup {NoJob},
                err : BOOLEAN]

IdleReaper == [pc |-> "idle", poisoned |-> {}, jobs |-> {}, cur |-> NoJob,
               err |-> FALSE]

GatewayState == {"none", "locking", "xadd", "mark", "done"}

TypeOK ==
    /\ QueueTypeOK
    /\ row \in [Submissions -> Row]
    /\ match \in [Matches -> MatchRow]
    /\ due \in [Matches -> BOOLEAN]
    /\ gw \in [Submissions -> GatewayState]
    /\ wk \in [Workers -> WorkerState]
    /\ rp \in ReaperState
    /\ faults \in 0 .. MaxFaults

\* The stream may already hold an entry no judge can use.
Init ==
    /\ row = [s \in Submissions |-> NoRow]
    /\ match = [m \in Matches |-> [status |-> "active", winner |-> NoPlayer]]
    /\ due = [m \in Matches |-> FALSE]
    /\ gw = [s \in Submissions |-> "none"]
    /\ wk = [w \in Workers |-> IdleWorker]
    /\ rp = IdleReaper
    /\ faults = 0
    /\ stream \in {<< >>} \cup {<<p>> : p \in Payloads \ Submissions}
    /\ pel = << >>

-----------------------------------------------------------------------------
(* What the handlers ask of the rows.                                      *)

SubmissionsTo(m) == {s \in Submissions : MatchOf[s] = m}

Open(s) == row[s].status \in {"pending", "running"}

OpenIn(m) == {s \in SubmissionsTo(m) : Open(s)}

Members(m) == {MatchPlayers[m][1], MatchPlayers[m][2]}

UsedTokens == {row[s].token : s \in Submissions} \cup {wk[w].token : w \in Workers}

\* One more failure.
Fault == faults < MaxFaults /\ faults' = faults + 1

\* Dispatch, its first half: XADD.
XAdd(s) == Enqueue(s)

\* Fault: the mark does not look at the status.
MarkAnyRow(s) == row' = [row EXCEPT ![s].enqueued = "fresh"]

\* Dispatch, its second half: the mark, only on a row that is still pending.
MarkEnqueued(s) ==
    row' = [row EXCEPT ![s].enqueued =
              IF row[s].status = "pending" THEN "fresh" ELSE @]

-----------------------------------------------------------------------------
(* The gateway: Service.Accept, then the best-effort Dispatch.             *)

(***************************************************************************)
(* Accept locks the match row and reads its status, its deadline and the   *)
(* clock in one SELECT ... FOR UPDATE.  The clock may be read before the   *)
(* lock is granted, so the deadline test (here) and the status it is       *)
(* combined with (in AcceptCommit) belong to different moments.  A request *)
(* after the deadline, a retry of an accepted request and a reused request *)
(* ID are answered without a change of state.                              *)
(***************************************************************************)
AcceptLock(s) ==
    /\ gw[s] = "none"
    /\ row[s].status = "absent"
    /\ ~due[MatchOf[s]]
    /\ gw' = [gw EXCEPT ![s] = "locking"]
    /\ UNCHANGED <<row, match, due, wk, rp, faults, stream, pel>>

\* The checks Accept makes once it holds the match row.
Admissible(s) ==
    /\ Author[s] \in Members(MatchOf[s])
    /\ match[MatchOf[s]].status = "active"

AcceptCommit(s) ==
    /\ gw[s] = "locking"
    /\ Admissible(s)
    /\ row' = [row EXCEPT ![s] = NewRow]
    /\ gw' = [gw EXCEPT ![s] = "xadd"]
    /\ UNCHANGED <<match, due, wk, rp, faults, stream, pel>>

\* ErrNotMatchPlayer, ErrMatchNotActive.
AcceptReject(s) ==
    /\ gw[s] = "locking"
    /\ ~Admissible(s)
    /\ gw' = [gw EXCEPT ![s] = "done"]
    /\ UNCHANGED <<row, match, due, wk, rp, faults, stream, pel>>

GatewayXAdd(s) ==
    /\ gw[s] = "xadd"
    /\ XAdd(s)
    /\ gw' = [gw EXCEPT ![s] = "mark"]
    /\ UNCHANGED <<row, match, due, wk, rp, faults>>

GatewayMark(s) ==
    /\ gw[s] = "mark"
    /\ MarkEnqueued(s)
    /\ gw' = [gw EXCEPT ![s] = "done"]
    /\ UNCHANGED <<match, due, wk, rp, faults, stream, pel>>

\* The handler dies or loses PostgreSQL or Redis; an open transaction rolls back.
GatewayFails(s) ==
    /\ gw[s] \in {"locking", "xadd", "mark"}
    /\ Fault
    /\ gw' = [gw EXCEPT ![s] = IF @ = "locking" THEN "none" ELSE "done"]
    /\ UNCHANGED <<row, match, due, wk, rp, stream, pel>>

-----------------------------------------------------------------------------
(* The match role's dispatch loop: Dispatcher.DispatchPending.             *)

\* A pending row that was never enqueued or whose mark is stale.
Dispatchable(s) ==
    /\ row[s].status = "pending"
    /\ row[s].enqueued \in {"null", "stale"}
    /\ Copies(s) < MaxCopies

(***************************************************************************)
(* DispatchPending holds the row locks of its batch while it XADDs, so no  *)
(* one else can act on those rows before the marks are committed: one step *)
(* per row.                                                                *)
(***************************************************************************)
DispatchPending(s) ==
    /\ Dispatchable(s)
    /\ XAdd(s)
    /\ MarkEnqueued(s)
    /\ UNCHANGED <<match, due, gw, wk, rp, faults>>

\* A later XADD or the commit fails: the entry stays, the mark is rolled back.
DispatchPendingFails(s) ==
    /\ Dispatchable(s)
    /\ Fault
    /\ XAdd(s)
    /\ UNCHANGED <<row, match, due, gw, wk, rp>>

-----------------------------------------------------------------------------
(* The judge: judgeService.run and processJob.                             *)

ReadJob(w) ==
    /\ wk[w].pc = "idle"
    /\ Read
    /\ wk' = [wk EXCEPT ![w] = [IdleWorker EXCEPT !.pc = "claim", !.job = JobRead]]
    /\ UNCHANGED <<row, match, due, gw, rp, faults>>

\* DecodeErr, or claimMissing: the entry names no submission.
Discardable(load) == load \in Submissions => row[load].status = "absent"

DiscardJob(w) ==
    /\ wk[w].pc = "claim"
    /\ Discardable(wk[w].job.load)
    /\ wk' = [wk EXCEPT ![w].pc = "ack"]
    /\ UNCHANGED <<row, match, due, gw, rp, faults, stream, pel>>

\* claimRunning and claimExpired: a duplicate of a live attempt is finalized,
\* an entry of an expired attempt stays in the PEL for the reaper.
ClaimRunning(w) ==
    LET s == wk[w].job.load IN
    /\ wk[w].pc = "claim"
    /\ ~Discardable(s)
    /\ row[s].status = "running"
    /\ wk' = [wk EXCEPT ![w] = IF row[s].lease = "live" /\ row[s].token # NoToken
                                 THEN [@ EXCEPT !.pc = "ack"]
                                 ELSE IdleWorker]
    /\ UNCHANGED <<row, match, due, gw, rp, faults, stream, pel>>

(***************************************************************************)
(* claimCompleted: the stored result, and the winner.  Claim locks only    *)
(* the submission row: when it has to wait for a Complete, the row it gets *)
(* is the new one, joined with the match as it was before, without winner. *)
(***************************************************************************)
ClaimCompleted(w) ==
    LET s == wk[w].job.load IN
    /\ wk[w].pc = "claim"
    /\ ~Discardable(s)
    /\ row[s].status = "completed"
    /\ \E seen \in {match[MatchOf[s]].winner, NoPlayer} :
        wk' = [wk EXCEPT ![w] = [@ EXCEPT !.pc = "publish", !.result = row[s].result,
                                          !.winner = seen]]
    /\ UNCHANGED <<row, match, due, gw, rp, faults, stream, pel>>

\* Fault: the token is not generated anew for every claim.
ReusedToken == CHOOSE t \in Tokens : TRUE

\* uuid.New: a token no row and no worker has.
FreshToken == CHOOSE t \in Tokens : t \notin UsedTokens

\* claimAcquired: the row becomes this worker's attempt.
ClaimAcquired(w) ==
    LET s == wk[w].job.load IN
    /\ wk[w].pc = "claim"
    /\ ~Discardable(s)
    /\ row[s].status = "pending"
    /\ Tokens \ UsedTokens # {}
    /\ row' = [row EXCEPT ![s].status = "running", ![s].attempts = @ + 1,
                          ![s].token = FreshToken, ![s].lease = "live"]
    /\ wk' = [wk EXCEPT ![w].pc = "execute", ![w].token = FreshToken]
    /\ UNCHANGED <<match, due, gw, rp, faults, stream, pel>>

\* Fault: tests_passed is not bounded by the number of tests.
UnboundedResults == {[verdict |-> "fail", tests |-> k] : k \in 0 .. TotalTests + 1}

\* What validateTerminalResult lets through.
TerminalResults ==
    {r \in Result : \/ r.verdict = "pass" /\ r.tests = TotalTests
                    \/ r.verdict = "fail"}

\* Complete's ownership test.
OwnsAttempt(w) ==
    LET s == wk[w].job.load
    IN  row[s].status = "running" /\ row[s].token = wk[w].token

\* Complete, on the row: the result is stored and the attempt ends.
Completed(s, r) ==
    [row EXCEPT ![s].status = "completed", ![s].result = r,
                ![s].token = NoToken, ![s].lease = "null"]

\* Fault: a pass after the deadline does not count.
MatchAfterInTime(s, r) ==
    LET m == MatchOf[s] IN
    IF r.verdict = "pass" /\ match[m].status = "active" /\ ~due[m]
      THEN [match EXCEPT ![m] = [status |-> "finished", winner |-> Author[s]]]
      ELSE match

\* Fault: every pass wins, whether or not the match is over.
MatchAfterEveryPass(s, r) ==
    IF r.verdict = "pass"
      THEN [match EXCEPT ![MatchOf[s]] = [status |-> "finished", winner |-> Author[s]]]
      ELSE match

\* Complete, on the match: the first pass into an active match wins it.
MatchAfter(s, r) ==
    LET m == MatchOf[s] IN
    IF /\ r.verdict = "pass"
       /\ match[m].status = "active"
       /\ match[m].winner = NoPlayer
      THEN [match EXCEPT ![m] = [status |-> "finished", winner |-> Author[s]]]
      ELSE match

\* Execute has returned an outcome and Complete stores it.
CompleteApplied(w) ==
    LET s == wk[w].job.load IN
    /\ wk[w].pc = "execute"
    /\ OwnsAttempt(w)
    /\ \E r \in TerminalResults :
        /\ row' = Completed(s, r)
        /\ match' = MatchAfter(s, r)
        /\ wk' = [wk EXCEPT ![w] = [@ EXCEPT !.pc = "publish", !.token = NoToken,
                                             !.result = r,
                                             !.winner = match'[MatchOf[s]].winner]]
    /\ UNCHANGED <<due, gw, rp, faults, stream, pel>>

\* Fault: a lost completion is published like an applied one.
CompleteLostPublishes(w) ==
    /\ wk[w].pc = "execute"
    /\ ~OwnsAttempt(w)
    /\ \E r \in TerminalResults :
        wk' = [wk EXCEPT ![w] = [@ EXCEPT !.pc = "publish", !.token = NoToken,
                                          !.result = r]]
    /\ UNCHANGED <<row, match, due, gw, rp, faults, stream, pel>>

\* completionLostOwnership: an error, the entry stays in the PEL.
CompleteLost(w) ==
    /\ wk[w].pc = "execute"
    /\ ~OwnsAttempt(w)
    /\ wk' = [wk EXCEPT ![w] = IdleWorker]
    /\ UNCHANGED <<row, match, due, gw, rp, faults, stream, pel>>

\* The sandbox fails, or the judge process dies during an attempt.
AttemptFails(w) ==
    /\ wk[w].pc = "execute"
    /\ wk' = [wk EXCEPT ![w] = IdleWorker]
    /\ UNCHANGED <<row, match, due, gw, rp, faults, stream, pel>>

\* publishAndFinalize: both players are told, then the entry is finalized.
Publish(w) ==
    /\ wk[w].pc = "publish"
    /\ wk' = [wk EXCEPT ![w] = [IdleWorker EXCEPT !.pc = "ack", !.job = wk[w].job]]
    /\ UNCHANGED <<row, match, due, gw, rp, faults, stream, pel>>

\* The jobs held by the workers and by the reaper after Finalize(at).
JobMoved(j, at) == [j EXCEPT !.at = Moved(@, at)]

WorkersMoved(at) == [w \in Workers |-> [wk[w] EXCEPT !.job = JobMoved(@, at)]]

ReaperMoved(at) == [rp EXCEPT !.jobs = {JobMoved(j, at) : j \in @},
                              !.cur = JobMoved(@, at)]

FinalizeJob(w) ==
    /\ wk[w].pc = "ack"
    /\ Finalize(wk[w].job.at)
    /\ wk' = [WorkersMoved(wk[w].job.at) EXCEPT ![w] = IdleWorker]
    /\ rp' = ReaperMoved(wk[w].job.at)
    /\ UNCHANGED <<row, match, due, gw, faults>>

\* Claim, publish (to either player) or Finalize fails, or the judge process dies between them.
WorkerFails(w) ==
    /\ wk[w].pc \in {"claim", "publish", "ack"}
    /\ Fault
    /\ wk' = [wk EXCEPT ![w] = IdleWorker]
    /\ UNCHANGED <<row, match, due, gw, rp, stream, pel>>

-----------------------------------------------------------------------------
(* The reaper: service.tick, one tick at a time under the advisory lock.   *)

\* Fault: only rows without a lease are selected.
LeaseMissing(s) == row[s].status = "running" /\ row[s].lease = "null"

\* reclaimLeases: the rows its CTE "expired" can select.
LeaseExpired(s) == row[s].status = "running" /\ row[s].lease # "live"

\* Fault: off by one.
RetryableOnceMore(s) == row[s].attempts <= MaxAttempts

\* reclaimLeases: an expired attempt is reset while attempts remain, and
\* otherwise poisoned: completed as an infrastructure failure.
Retryable(s) == row[s].attempts < MaxAttempts

Reset(r) == [r EXCEPT !.status = "pending", !.token = NoToken, !.lease = "null",
                      !.enqueued = "null"]

Poison(r) == [r EXCEPT !.status = "completed", !.token = NoToken, !.lease = "null",
                       !.result = [verdict |-> "failed", tests |-> @.tests]]

\* Rows that a judge's Claim or Complete may have locked, to be skipped.
LockedRows ==
    {s \in Submissions : \E w \in Workers :
        wk[w].pc \in {"claim", "execute"} /\ wk[w].job.load = s}

\* The first BatchSize expired rows that are not locked, oldest lease first.
LeaseBatches ==
    LET expired == {s \in Submissions : LeaseExpired(s)}
    IN  {B \in SUBSET expired : \E locked \in SUBSET LockedRows :
           /\ B \cap locked = {}
           /\ Cardinality(B) = Min({BatchSize, Cardinality(expired \ locked)})}

ReclaimLeases ==
    /\ rp.pc = "idle"
    /\ \E B \in LeaseBatches :
        LET poisoned == {s \in B : ~Retryable(s)} IN
        /\ row' = [s \in Submissions |->
                     IF s \notin B THEN row[s]
                     ELSE IF Retryable(s) THEN Reset(row[s])
                     ELSE Poison(row[s])]
        /\ rp' = [IdleReaper EXCEPT !.pc = IF poisoned = {} THEN "sweep" ELSE "announce",
                                    !.poisoned = poisoned]
    /\ UNCHANGED <<match, due, gw, wk, faults, stream, pel>>

\* publishEvents, after the commit of reclaimLeases.
AnnouncePoisoned ==
    /\ rp.pc = "announce"
    /\ rp' = [IdleReaper EXCEPT !.pc = "sweep"]
    /\ UNCHANGED <<row, match, due, gw, wk, faults, stream, pel>>

\* After a job: the next one, or the end of sweepStream, which aborts the
\* tick when any job failed.
AfterJob(jobs, err) ==
    [IdleReaper EXCEPT !.pc = IF jobs # {} THEN "job"
                              ELSE IF err THEN "idle" ELSE "finalize",
                       !.jobs = jobs,
                       !.err = jobs # {} /\ err]

SweepStream ==
    /\ rp.pc = "sweep"
    /\ ReclaimIdle
    /\ rp' = AfterJob(JobsReclaimed, FALSE)
    /\ UNCHANGED <<row, match, due, gw, wk, faults>>

\* handleReclaimedJob: look the submission up.  A pending or completed one
\* gets a replacement entry before the old entry is finalized.
HandleReclaimedJob ==
    /\ rp.pc = "job"
    /\ \E j \in rp.jobs :
        LET rest == rp.jobs \ {j} IN
        rp' = IF Discardable(j.load)
                THEN [rp EXCEPT !.pc = "ack", !.jobs = rest, !.cur = j]
              ELSE IF row[j.load].status = "running"
                THEN AfterJob(rest, rp.err)
              ELSE [rp EXCEPT !.pc = "xadd", !.jobs = rest, !.cur = j]
    /\ UNCHANGED <<row, match, due, gw, wk, faults, stream, pel>>

ReplacementXAdd ==
    /\ rp.pc = "xadd"
    /\ XAdd(rp.cur.load)
    /\ rp' = [rp EXCEPT !.pc = "mark"]
    /\ UNCHANGED <<row, match, due, gw, wk, faults>>

ReplacementMark ==
    /\ rp.pc = "mark"
    /\ MarkEnqueued(rp.cur.load)
    /\ rp' = [rp EXCEPT !.pc = "ack"]
    /\ UNCHANGED <<match, due, gw, wk, faults, stream, pel>>

FinalizeReclaimed ==
    /\ rp.pc = "ack"
    /\ Finalize(rp.cur.at)
    /\ wk' = WorkersMoved(rp.cur.at)
    /\ rp' = AfterJob(ReaperMoved(rp.cur.at).jobs, rp.err)
    /\ UNCHANGED <<row, match, due, gw, faults>>

\* One job fails at any of its steps; the sweep goes on with the next.
ReclaimedJobFails ==
    /\ rp.pc \in {"xadd", "mark", "ack"}
    /\ Fault
    /\ rp' = AfterJob(rp.jobs, TRUE)
    /\ UNCHANGED <<row, match, due, gw, wk, stream, pel>>

\* finalizeMatch: the best completed score of a player, 0 when there is none.
Score(m, p) ==
    LET done == {s \in SubmissionsTo(m) : Author[s] = p /\ row[s].status = "completed"}
    IN  Max({0} \cup {row[s].result.tests : s \in done})

decideTiebreakWinner(m) ==
    LET p == MatchPlayers[m][1]
        q == MatchPlayers[m][2]
    IN  IF Score(m, p) > Score(m, q) THEN p
        ELSE IF Score(m, q) > Score(m, p) THEN q
        ELSE NoPlayer

\* finalizeMatches selects the first BatchSize expired active matches that
\* no one has locked.
FinalizeBatch(locked) ==
    LET expired == {m \in Matches \ locked : match[m].status = "active" /\ due[m]}
    IN  {m \in expired : Cardinality({k \in expired : k < m}) < BatchSize}

\* An Accept or a Complete in progress may hold the lock of its match.
LockedMatches ==
    {MatchOf[s] : s \in {t \in Submissions :
        gw[t] = "locking" \/ \E w \in Workers : wk[w].pc = "execute" /\ wk[w].job.load = t}}

\* Fault: pending submissions are not counted as open.
NothingRunning(m) == \A s \in SubmissionsTo(m) : row[s].status # "running"

\* Fault: a submission that was given up counts as open.
NothingGivenUp(m) ==
    OpenIn(m) = {} /\ \A s \in SubmissionsTo(m) : row[s].result.verdict # "failed"

\* finalizeMatch: only a match with no open submission, decided on scores.
Settled(m) == OpenIn(m) = {}

FinalizeMatches ==
    /\ rp.pc = "finalize"
    /\ \E locked \in SUBSET LockedMatches :
        match' = [m \in Matches |->
                    IF m \in FinalizeBatch(locked) /\ Settled(m)
                      THEN [status |-> "finished", winner |-> decideTiebreakWinner(m)]
                      ELSE match[m]]
    /\ rp' = IdleReaper
    /\ UNCHANGED <<row, due, gw, wk, faults, stream, pel>>

\* The tick ends early: PostgreSQL, Redis or the process fails.
ReaperFails ==
    /\ rp.pc # "idle"
    /\ Fault
    /\ rp' = IdleReaper
    /\ UNCHANGED <<row, match, due, gw, wk, stream, pel>>

-----------------------------------------------------------------------------
(* Time.                                                                   *)

\* Worker w is executing an attempt at s.
Attempts(w, s) == wk[w].pc = "execute" /\ wk[w].job.load = s

\* Some process is working on the entry at place i of the PEL.
Held(i) ==
    \/ \E w \in Workers : wk[w].job.at = i
    \/ \E j \in rp.jobs \cup {rp.cur} : j.at = i

DeadlinePasses(m) ==
    /\ ~due[m]
    /\ due' = [due EXCEPT ![m] = TRUE]
    /\ UNCHANGED <<row, match, gw, wk, rp, faults, stream, pel>>

\* JudgeConfig.Validate makes the lease longer than an attempt may take, so
\* a lease that runs out under its worker is a failure: the worker stalls.
LeaseRunsOut(s) ==
    /\ row[s].status = "running"
    /\ row[s].lease = "live"
    /\ IF \E w \in Workers : Attempts(w, s) /\ OwnsAttempt(w)
         THEN Fault ELSE UNCHANGED faults
    /\ row' = [row EXCEPT ![s].lease = "expired"]
    /\ UNCHANGED <<match, due, gw, wk, rp, stream, pel>>

MarkGoesStale(s) ==
    /\ row[s].status = "pending"
    /\ row[s].enqueued = "fresh"
    /\ row' = [row EXCEPT ![s].enqueued = "stale"]
    /\ UNCHANGED <<match, due, gw, wk, rp, faults, stream, pel>>

\* ReaperConfig.Validate makes MinIdle longer than the lease: an entry that
\* goes idle in the hands of a process means that the process stalls.
EntryGoesIdle(i) ==
    /\ GoesIdle(i)
    /\ IF Held(i) THEN Fault ELSE UNCHANGED faults
    /\ UNCHANGED <<row, match, due, gw, wk, rp>>

-----------------------------------------------------------------------------
GatewayStep(s) ==
    \/ AcceptLock(s) \/ AcceptCommit(s) \/ AcceptReject(s)
    \/ GatewayXAdd(s) \/ GatewayMark(s) \/ GatewayFails(s)

DispatcherStep(s) == DispatchPending(s) \/ DispatchPendingFails(s)

WorkerStep(w) ==
    \/ ReadJob(w) \/ DiscardJob(w)
    \/ ClaimRunning(w) \/ ClaimCompleted(w) \/ ClaimAcquired(w)
    \/ CompleteApplied(w) \/ CompleteLost(w) \/ AttemptFails(w)
    \/ Publish(w) \/ FinalizeJob(w) \/ WorkerFails(w)

ReaperStep ==
    \/ ReclaimLeases \/ AnnouncePoisoned
    \/ SweepStream \/ HandleReclaimedJob \/ ReplacementXAdd \/ ReplacementMark
    \/ FinalizeReclaimed \/ ReclaimedJobFails
    \/ FinalizeMatches \/ ReaperFails

TimeStep ==
    \/ \E m \in Matches : DeadlinePasses(m)
    \/ \E s \in Submissions : LeaseRunsOut(s) \/ MarkGoesStale(s)
    \/ \E i \in DOMAIN pel : EntryGoesIdle(i)

Next ==
    \/ \E s \in Submissions : GatewayStep(s) \/ DispatcherStep(s)
    \/ \E w \in Workers : WorkerStep(w)
    \/ ReaperStep
    \/ TimeStep

Spec == Init /\ [][Next]_vars

(***************************************************************************)
(* Fairness: every loop of the program keeps running and every handler     *)
(* that has started goes on, and time passes.  Clients need not submit,    *)
(* and failures may happen at any step: only their number outside a        *)
(* running attempt is bounded (MaxFaults).                                 *)
(***************************************************************************)
GatewayProgress(s) ==
    AcceptCommit(s) \/ AcceptReject(s) \/ GatewayXAdd(s) \/ GatewayMark(s)

WorkerProgress(w) ==
    \/ ReadJob(w) \/ DiscardJob(w)
    \/ ClaimRunning(w) \/ ClaimCompleted(w) \/ ClaimAcquired(w)
    \/ CompleteApplied(w) \/ CompleteLost(w)
    \/ Publish(w) \/ FinalizeJob(w)

ReaperProgress ==
    \/ ReclaimLeases \/ AnnouncePoisoned
    \/ SweepStream \/ HandleReclaimedJob \/ ReplacementXAdd \/ ReplacementMark
    \/ FinalizeReclaimed \/ FinalizeMatches

Fairness ==
    /\ \A s \in Submissions :
        /\ WF_vars(GatewayProgress(s))
        /\ WF_vars(DispatchPending(s))
        /\ WF_vars(LeaseRunsOut(s))
        /\ WF_vars(MarkGoesStale(s))
    /\ \A w \in Workers : WF_vars(WorkerProgress(w))
    /\ WF_vars(ReaperProgress)
    /\ \A m \in Matches : WF_vars(DeadlinePasses(m))
    /\ WF_vars(\E i \in DOMAIN pel : EntryGoesIdle(i))

FairSpec == Spec /\ Fairness

-----------------------------------------------------------------------------
(* Safety.                                                                 *)

(***************************************************************************)
(* A submission is attempted at most MaxAttempts times: Claim never finds  *)
(* a pending row whose budget is spent, although Claim itself does not     *)
(* look at the counter, and a row is given up as an infrastructure failure *)
(* only once the whole budget has been used.                               *)
(***************************************************************************)
AttemptBudget ==
    \A s \in Submissions :
        /\ row[s].attempts <= MaxAttempts
        /\ row[s].status = "pending" => row[s].attempts < MaxAttempts
        /\ row[s].result.verdict = "failed" => row[s].attempts = MaxAttempts

(***************************************************************************)
(* The first pass ends its match: as long as Complete and finalizeMatches  *)
(* leave a match active, none of its submissions has passed.               *)
(***************************************************************************)
PassEndsMatch ==
    \A s \in Submissions :
        row[s].result.verdict = "pass" => match[MatchOf[s]].status = "finished"

(***************************************************************************)
(* How a finished match came to its result, read off the rows at any later *)
(* time.  If anyone passed, the winner did.  Otherwise the deadline has    *)
(* passed, no submission is open, and the winner is still what the scores  *)
(* say: nothing judged or admitted after finalizeMatches changes them.     *)
(***************************************************************************)
OutcomeAgreesWithScores ==
    \A m \in Matches : match[m].status = "finished" =>
        IF \E s \in SubmissionsTo(m) : row[s].result.verdict = "pass"
          THEN \E s \in SubmissionsTo(m) :
                 row[s].result.verdict = "pass" /\ Author[s] = match[m].winner
          ELSE /\ due[m]
               /\ Settled(m)
               /\ match[m].winner = decideTiebreakWinner(m)

(***************************************************************************)
(* No two workers own the same attempt, so at most one Complete can be     *)
(* applied to a claimed row: the others, slow or resumed after their lease *)
(* was reclaimed, fail Complete's ownership test.                          *)
(***************************************************************************)
SingleOwner ==
    \A v, w \in Workers :
        /\ v # w
        /\ wk[v].pc = "execute"
        /\ wk[w].pc = "execute"
        /\ wk[v].job.load = wk[w].job.load
        => ~(OwnsAttempt(v) /\ OwnsAttempt(w))

(***************************************************************************)
(* What players are told is what is stored.  A judge about to publish, on  *)
(* the attempt's own completion or on a redelivery, holds the result of    *)
(* the row, and names a winner only if that player won the match; and the  *)
(* reaper announces an infrastructure failure only of rows given up so.    *)
(***************************************************************************)
EventsAreTrue ==
    /\ \A w \in Workers : wk[w].pc = "publish" =>
        LET s == wk[w].job.load IN
        /\ row[s].status = "completed"
        /\ wk[w].result = row[s].result
        /\ wk[w].winner # NoPlayer => wk[w].winner = match[MatchOf[s]].winner
    /\ \A s \in rp.poisoned :
        row[s].result = [verdict |-> "failed", tests |-> 0]

(***************************************************************************)
(* Results are final: once a row is completed no attempt, late completion, *)
(* reaper tick or dispatch mark changes any of it.                         *)
(***************************************************************************)
ResultsAreFinal ==
    [][\A s \in Submissions : row[s].status = "completed" => row'[s] = row[s]]_vars

(***************************************************************************)
(* Outcomes are final: a finished match stays finished with its winner.    *)
(***************************************************************************)
OutcomesAreFinal ==
    [][\A m \in Matches : match[m].status = "finished" => match'[m] = match[m]]_vars

(***************************************************************************)
(* The pipeline implements module Duel: with retries, duplicates, late     *)
(* completions, crashes and the reaper hidden, what is left of the two     *)
(* tables is a duel judged once per submission and decided once per match. *)
(***************************************************************************)
Stage(s) == CASE row[s].status = "absent"    -> "absent"
              [] row[s].status = "completed" -> "judged"
              [] OTHER                       -> "open"

D == INSTANCE Duel WITH
       stage  <- [s \in Submissions |-> Stage(s)],
       passed <- [s \in Submissions |-> row[s].result.verdict = "pass"],
       score  <- [s \in Submissions |-> row[s].result.tests],
       over   <- [m \in Matches |-> match[m].status = "finished"],
       winner <- [m \in Matches |-> match[m].winner],
       late   <- due

ImplementsDuel == D!DuelSpec

-----------------------------------------------------------------------------
(* Liveness, under FairSpec.                                               *)

(***************************************************************************)
(* Every accepted submission is eventually completed, however many         *)
(* attempts crash and wherever the gateway, the dispatcher, a judge or the *)
(* reaper fails on the way.                                                *)
(***************************************************************************)
SubmissionsComplete ==
    \A s \in Submissions : Open(s) ~> row[s].status = "completed"

(***************************************************************************)
(* Every match eventually finishes.                                        *)
(***************************************************************************)
MatchesFinish ==
    \A m \in Matches : <>(match[m].status = "finished")

(***************************************************************************)
(* The judge stream drains: duplicates, junk and entries abandoned in the  *)
(* PEL are all removed in the end, and replacing an entry never goes on    *)
(* for ever.                                                               *)
(***************************************************************************)
QueueDrains == <>[](stream = << >> /\ pel = << >>)
=============================================================================
