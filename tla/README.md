# CodeDuel in TLA+

CodeDuel lets two players race on a programming problem. A gateway puts them in
a queue, a match role pairs them, judges run their submissions in a sandbox, and
a reaper repairs what crashes leave behind. PostgreSQL is the source of truth;
Redis holds the matchmaking queue, the presence keys and the judge stream.

This directory holds TLA+ modules of that system, TLC configurations that check
them on small instances, and TLAPS proofs of the main safety properties for
every size. All paths below are relative to `src/`.

## 1. Inventory

| Component | State | Operations | Talks to |
|---|---|---|---|
| Judge stream (`internal/redisx/judge_queue.go`) | Redis Stream, pending-entries list of one consumer group | Enqueue, Read, ReclaimIdle, Finalize | called by gateway, match role, judges, reaper |
| Submission acceptance (`internal/submission/service.go`) | row in `submissions`, an advisory lock per request | Accept | locks the `matches` row; then Dispatch |
| Dispatch (`internal/submission/dispatch.go`, `internal/match/dispatch.go`) | `last_enqueued_at` | Dispatch, DispatchPending | XADD to the stream |
| Judge worker (`internal/judge/service.go`, `result.go`) | the job, the claim and the attempt token it holds | run, processJob, publishAndFinalize | stream, store, executor, Pub/Sub |
| Judge store (`internal/judge/store.go`) | `submissions` (status, attempts, token, lease, result), `matches` (status, winner) | Claim, Complete | shared with the reaper and the gateway |
| Reaper (`internal/reaper`) | an advisory lock, one tick at a time | reclaimLeases, sweepStream, finalizeMatches | both tables, the stream, Pub/Sub |
| Matchmaking queue (`internal/redisx/queue.go`, `scripts/*.lua`) | sorted set, member hash, last score | Enqueue, Dequeue, PopPair, Requeue | gateway and match role; reads presence keys |
| Match role (`internal/match`) | popped pair, entries whose requeue failed | step, createMatch, requeueOrRetain, restorePending | queue, `users`, `matches`, `match_players` |
| Active-match claims (`migrations/000007`) | `active_match_players` | triggers on `matches` and `match_players` | gateway and match role read it |
| Gateway connections (`internal/gateway`) | registry, presence keys, send buffers | handleWS, handleInbound, fanout, CloseAll, Wait | queue, submission service, Pub/Sub |
| Match snapshots (`internal/gateway/match_snapshot.go`, `match_http.go`) | a read-only transaction | current, byID | reads the tables the pipeline writes |
| Executors (`internal/judge/*executor.go`) | volumes and containers, Kubernetes Jobs and pods | Execute, cleanup, removal of stale resources | judge worker; Docker daemon, Kubernetes API |
| Judge process (`internal/judge/run.go`) | read context, work context, grace timer | runJudgeWorkers | its workers |
| Accounts (`internal/auth`, `internal/gateway/auth*.go`) | `users`, access tokens | Register, Login, UserByID | every handler authenticates |
| Configuration, wiring, protocol, CLI, deployment | environment | | |

What is hard in this code, and what makes each part correct:

* **Pipeline.** A submission lives in a row and, independently, in zero or more
  stream entries. XADD and the mark in the row are two calls; a claim, its
  execution and its completion are three; leases run out under slow workers;
  entries are duplicated, taken over and replaced. Correct means: the attempt
  budget is kept, one attempt owns a row, results and outcomes are final, the
  winner is the one the results justify, players are told what is stored, and
  everything accepted is eventually judged.
* **Matchmaking.** Players leave the queue before their match exists, several
  processes pop at once, a player may have several connections, commits may be
  ambiguous. Correct means: at most one active match and one queue entry per
  user, first come first served, nobody forgotten, waiting users get matched.
* **Gateway delivery and shutdown.** Three goroutines per connection meet in a
  send buffer; a new connection of a user evicts the old one while that one is
  being cleaned up; shutdown races registration. Correct means: an answer comes
  before the events it leads to and no message is skipped on a connection that
  goes on, one connection per user is active, shutdown reaches every connection
  and waits for it.
* **Acceptance.** A client repeats a request whose answer it did not get, while
  the first one is running or after the match has ended. Correct means: one row
  per request, and an answer that is true of it.
* **Executors.** Every call of an engine may fail, time out, or take effect after
  it has failed; other processes remove what looks stale. Correct means: the
  verdict is what the code under test earned, nothing is left behind, a live
  attempt is spared, and the attempt ends in a time that is known beforehand.
* **Judge shutdown.** The signal, a finishing worker and the timer meet in one
  `select`. Correct means: a job is cut off only after the grace period, and the
  process ends in time and under nobody.
* **Snapshots.** Three queries describe one match while others write to it.
  Correct means: they describe it at one moment, and a later look never goes back.

`PROJECT.json` lists the hazards at their lines with the properties that cover
them. Some behaviours were met that no property is about, because no document
promises more than the code does:

* `internal/reaper/leases.go:129`: poisoned rows are announced after the commit,
  and an announcement that fails is not repeated by the reaper.
* `internal/judge/store.go:204`: a problem whose stored tests do not decode makes
  `Claim` fail before it counts an attempt.
* `internal/gateway/run.go:151`: a presence key that expires while its connection
  lives is refreshed and never set again, and scans throw its owner out.
* `internal/redisx/scripts/dequeue.lua:4`: a player who leaves while the entry is
  popped is back in the queue after a requeue.
* `internal/reaper/service.go:110`: an error in one phase of a tick skips the later
  ones. `MatchesFinish` holds across single failures; an entry that fails at every
  tick keeps matches from being finalized, and nothing promises otherwise.
* `internal/judge/kubernetes_executor.go:333`: the TTL of a Job is the cleanup timeout
  in whole seconds and may be zero, and a poll may take any time. If it runs out
  before the next poll, the report of a finished pod is lost and the verdict is a
  timeout. `VerdictIsTrue` names that case and excludes every other (`LostToTTL`).
* `internal/gateway/match_snapshot.go:83`: `created_at` is the start of the
  inserting transaction, so the order of two matches need not be that of their
  commits; the query puts the active one first.
* `deploy/k8s/base/judge-deployment.yaml:19`: the pod's grace period of 30 s is
  shorter than the judge's own, so that Kubernetes may kill a judge that is still
  finishing a job. The pipeline takes that as a crash.

## 2. Modules

| Module | Models |
|---|---|
| `JudgeQueue` | the stream and its pending-entries list |
| `SubmissionPipeline` | gateway Accept, dispatcher, judge workers, reaper over the two tables and `JudgeQueue` |
| `Duel` | abstract specification: what the pipeline promises two players |
| `ResultEvents` | the pipeline with a history of published result events and their kinds |
| `Matchmaking` | connections, join and leave, queue scripts, match role, claims |
| `GatewayConnections` | connections, registry, delivery and drain of one gateway process |
| `SubmissionAccept` | `Service.Accept` statement by statement, with its locks |
| `RequestLog` | abstract specification: what Accept promises about request IDs |
| `ExecutorLimits` | the timeouts that `JudgeConfig.Validate` admits |
| `DockerExecutor`, `KubernetesExecutor` | one timed attempt of either executor |
| `SandboxExecutor` | the executor that the configuration chooses, one of the two |
| `JudgeWorkers` | the worker pool of a judge process and its shutdown |
| `MatchSnapshot` | the three queries of a match snapshot over the steps of `Duel` |
| `MC...` | instances for TLC; `SandboxExecutor` and `JudgeWorkers` need none |
| `SubmissionPipelineProofs` | type correctness |
| `PipelineSafetyProofs` | budget, finality, outcomes, refinement of `Duel`, ownership of attempts, truth of events |
| `MatchmakingProofs` | claims, queue structure, scores, waiting users, type correctness |
| `JudgeWorkersProofs` | grace period, bounded shutdown |
| `SubmissionAcceptProofs` | retries, refinement of `RequestLog` |
| `SandboxExecutorProofs` | window, verdicts, leftovers of both executors |
| `GatewayProofs` | type correctness, registry and drain, order of answers and events |
| `SnapshotProofs` | a snapshot is of one moment, a later one of a later moment |

How they fit together: `SubmissionPipeline` implements `Duel`, and
`MatchSnapshot` extends `Duel`, so that what a snapshot is checked against is
what the pipeline is shown to commit. `SubmissionAccept` opens up the step with
which a row enters the pipeline; the executor modules open up the execution of
an attempt, which the pipeline takes as any result or a failure, at any time
relative to the lease; `JudgeWorkers` opens up how the attempts of a process end
when it stops, which the pipeline takes as a crash.

Definitions named as faults (`RetryableOnceMore`, `MatchAfterInTime`, ...) are
plausible bugs. No specification uses them; putting one in the place of the
definition below it must make a property fail.

### SubmissionPipeline and JudgeQueue

`row` and `match` are the tables, `gw` the gateway handler of each request, `wk`
the local state of each judge worker, `rp` that of the reaper's tick. A
transaction that touches only PostgreSQL is one step, because the code takes its
row locks before it reads; where it does not, the model splits or chooses:

* `Accept` reads the clock in the statement that waits for the match lock, so
  `AcceptLock` tests the deadline and `AcceptCommit` tests the rest, later.
* `Claim` locks the submission but not the match it joins, so `ClaimCompleted`
  may see the winner or the NULL from before.
* `SKIP LOCKED` makes `ReclaimLeases` and `FinalizeMatches` choose which of the
  rows that may be locked are skipped.

| Action | Code |
|---|---|
| `AcceptLock`, `AcceptCommit`, `AcceptReject` | `Service.Accept` |
| `GatewayXAdd`, `GatewayMark`, `GatewayFails` | `Dispatch` called by `Accept` |
| `DispatchPending`, `DispatchPendingFails` | `Dispatcher.DispatchPending` |
| `ReadJob`, `DiscardJob` | `judgeService.run`, `processJob` |
| `ClaimRunning`, `ClaimCompleted`, `ClaimAcquired` | `postgresStore.Claim` and the switch on its answer |
| `CompleteApplied`, `CompleteLost`, `AttemptFails` | execution and `postgresStore.Complete` |
| `Publish`, `FinalizeJob`, `WorkerFails` | `publishAndFinalize`, `finalizeJob` |
| `ReclaimLeases`, `AnnouncePoisoned` | `reclaimLeases`, `publishEvents` |
| `SweepStream`, `HandleReclaimedJob`, `ReplacementXAdd`, `ReplacementMark`, `FinalizeReclaimed`, `ReclaimedJobFails` | `sweepStream`, `handleReclaimedJob` |
| `FinalizeMatches`, `ReaperFails` | `finalizeMatches`, `tick` |
| `DeadlinePasses`, `LeaseRunsOut`, `MarkGoesStale`, `EntryGoesIdle` | the clocks of PostgreSQL and Redis |

Abstractions of data: verdicts error and timeout are "fail" (neither can win and
all carry a score); a clock comparison is a flag; the entry ID is the place in
the pending-entries list, renumbered when an earlier entry leaves it; tokens are
a finite pool from which an unused one is taken. A lost commit answer is the
commit followed by a failure of the process.

### Duel

Members of an active match may submit, a submission is judged once, the first
pass wins, and otherwise the better score wins after the deadline once nothing
is open. The refinement mapping (`D` in `SubmissionPipeline`) keeps from a row
only absent, open or judged and its result. Accept may admit a submission shortly
after the deadline (see above), and so may `Duel`.

### Matchmaking

A queue member is the JSON of one connection, so a connection stands for it.
`score`, `member`, `last` are the three Redis keys, `sv` each match process with
the entries it holds, `active`, `played`, `claim`, `users` the tables. `waiting`
and `lost` are history variables: who waits, and whose entry a failure took.
A user stops waiting when the connection that is queued leaves or ends, or any of
them while none is queued; an older connection that does so leaves a user waiting
whose newer one is queued (`StopsWaiting`), as `dequeue.lua` means it to.
Each Lua script is one step. `enqueueForMatch` holds a row lock across a Redis
call and so is two steps, `JoinLock` and `JoinEnqueue`, with `LockLost` in
between when the database connection dies.

| Action | Code |
|---|---|
| `Connect`, `Disconnect`, `Cleanup`, `CleanupFails`, `PresenceExpires` | `handleWS`, `conn.serve`, `deletePresence`, `refreshPresence` |
| `JoinLock`, `JoinEnqueue`, `LockLost`, `JoinFails`, `Leave` | `enqueueForMatch`, `enqueue.lua`, `dequeue.lua` |
| `PopPair`, `PopNobody`, `PopPairReplyLost` | `Queue.PopPair`, `pop_pair.lua` |
| `CreateMatch`, `DropIneligible`, `CreateFails`, `CreateAmbiguous` | `step`, `createMatch`, `handleIneligiblePlayers` |
| `Requeue`, `RequeueFails`, `ServerDies` | `requeueOrRetain`, `restorePending`, `requeue.lua` |
| `Finish`, `RemoveUser` | triggers of `000007`; deletion in `000011` |

### GatewayConnections

A connection is a handler (`handleWS`, then the reader), a writer (`writePump`)
and `fanout`, which copies events from Pub/Sub; they share the send buffer and
the closed channel. `srv` is the process: listening, closing the registered
connections one after the other, waiting for the WaitGroup until the drain
timeout. `deliveryMu` is held from `HandleInbound` to the end of the answer's
`Send`. A presence key belongs to the connection that set it; one that a failed
call left to its TTL is "stray". Connections are numbered in the order they are
accepted.

`close()` closes the channel and then the socket, in two steps of whichever
goroutine is in it (`InClose`); a second caller waits for the first
(`closeOnce`). In between `Send` may put a message in the buffer or drop it, and
`writePump` may still write what is there. So an answer can be dropped and the
event after it written, or an event dropped and the next one written: both only
once `close()` has begun, which is how `AnswerComesFirst` and `NoGap` are stated.
`Publish` reaches any subset of the subscriptions, since Pub/Sub loses what comes
while go-redis reconnects or its channel is full (`README.md:105,109`): the promise
concerns what was delivered to the gateway, and a client fetches the snapshot
for the rest.

| Action | Code |
|---|---|
| `Accept`, `SetPresence`, `Subscribe`, `AddAccepted`, `AddRefused`, `Evict`, `SendReady` and the failing forms | `handleWS`, `Registry.Add` |
| `ReadMessage`, `HandleInbound`, `Respond`, `AnswerJams`, `AnswerLost`, `ReadFails` | `readPump`, `handleAndSend`; `Send` of an answer |
| `Publish`, `Fanout`, `EventJams`, `EventLost` | Pub/Sub, `fanout`; `Send` of an event |
| `WriteMessage`, `WriteFails`, `TokenExpires`, `ExpiryCloses`, `WriterClosed`, `WritePumpEnds` | `writePump` |
| `CloseChannel`, `CloseSocket` | `conn.close` |
| `Remove`, `Unsubscribe`, `DeletePresence`, `Close`, `Done` | the deferred calls of `handleWS` |
| `Cancel`, `ListenFails`, `CloseAll`, `CloseNext`, `Drained`, `DrainTimeout` | `Run`, `Registry.CloseAll`, `Wait` |

### SubmissionAccept and RequestLog

Each SQL statement of `Accept` is a step, because it may wait or fail: `Lock`
(advisory lock on the hash of player and request ID), `Find`, `CommitSame`,
`ReadClock` and `LockMatch` (one statement that evaluates the clock, perhaps
waits, then reads), `Reject`, `Insert`, `Commit`. `CommitFails` stores the row or
not. `RequestLog` has a row for good per key and four kinds of answers; it rejects
a call only while there is no row. The mapping is the identity on rows and
answers.

### Executors

Both modules have a clock. The program's own steps take no time, a call of the
Docker engine ends at the latest when its context does, and time may not pass a
deadline that is due. The Kubernetes calls have no timeout in the code, and the
client's defaults set none: creation, `List` and `Get` each take up to `ApiTime`, a
parameter without a limit, and the executor looks at its own deadline only after
both calls of a poll, as the code does. A creation whose answer is lost may still
be admitted (`Admit`). Only deletion has a context of its own, `DeleteTimeout`.
`DockerExecutor` has the daemon's view of the volume and the containers
(`TakesEffect`: a call that has timed out happens later all the same) and the
start of another executor that removes stale resources by age.
`KubernetesExecutor` has the cluster's view of the Job and its pod, with
controllers that act within `Lag` of what triggers them (external, modelled from
how the code uses them). `SandboxExecutor` composes them: context, clock, current
call and outcome are one set of variables, which is what a worker sees of its
executor, and the daemon's and the cluster's state belong to one executor each.

### JudgeWorkers

`clock`, the two contexts, the timer, and a worker that is at the top of its
loop, reading, waiting to retry, running a job, or done. A select with several
ready cases chooses any of them.

### MatchSnapshot

`load` is a request with the tables its transaction sees; the first query takes
them. `begun` is the order in which inserting transactions started, since
`created_at` is `now()`: neither matches nor submissions need commit in it. The
listed submissions are a set of lines; that they are sent oldest first is left
out, which rows are listed is not (`Newest`, `ShownOf`).

## 3. Runs

| Run | Instance | Shows |
|---|---|---|
| `pipeline_attempts` | 1 submission, 2 workers, 2 attempts, 2 failures (1.3 million states) | `TypeOK`; `AttemptBudget`; `SingleOwner`; `EventsAreTrue`; `ResultsAreFinal` |
| `pipeline_duel` | a submission of each player, 2 workers, batches of 2, 1 failure (2 million) | `PassEndsMatch`; `OutcomeAgreesWithScores`; `OutcomesAreFinal`; `ImplementsDuel` |
| `pipeline_liveness` | 2 matches, 1 submission, a junk entry, 1 failure (340 thousand) | `SubmissionsComplete`; `MatchesFinish`; `QueueDrains` |
| `event_ids` | 1 submission, 1 attempt, no failure outside it | **violated**: `RepeatsShareEventID` |
| `matchmaking_safety` | 3 users, 4 connections, 2 match processes, 1 failure (1.2 million) | `TypeOK`; `ClaimsAgree`; `OneEntryPerUser`; `ScoresOrder`; `NobodyForgotten` |
| `matchmaking_liveness` | 3 users, 3 connections, 2 match processes, 1 failure (120 thousand) | `WaitersAreMatched` |
| `gateway_connections` | 2 connections of a user, 1 request, 2 events, buffer of 1, 1 failure (350 thousand) | `AnswerComesFirst`; `NoGap`; `OneActivePerUser`; `ShutdownReachesAll`; `CleanDrain`; `DueConnectionsEnd` |
| `executor_attempts` | 2 tests, total 5, stages 1, cleanup 1, margin 1, lease 9, deletion 2, API calls 1, lag 2 (1.2 million) | `EndsInWindow`; `VerdictIsTrue`; `NoFalsePass`; `NothingLeaks`; `SparesTheLiving`; `SandboxesGo`; `AttemptReturns` |
| `executor_lease` | the shipped limits in units of 5 s: total 6, cleanup 2, lease 12, deletion 6; API calls 0, lag 1 | **violated**: `LeaseCoversAttempt` |
| `judge_shutdown` | 3 workers, grace 3, unwinding 2 (290 thousand) | `CutOnlyAfterGrace`; `EndsInTime`; `ShutdownEnds` |
| `accept_requests` | 5 calls, 3 keys, 2 of which share a hash (210 thousand) | `RetriesResolve`; `ImplementsLog`; `CallsAnswered` |
| `snapshots` | 1 match, 3 submissions, 2 requests, a list of 1 (1.4 million) | `OutcomeExplained`; `NeverGoesBack`; `NothingMissing` |

`TypeOK` of the modules that have no run for it documents their state; adding it
to the invariants of the cfg checks it. `EndsInWindow` and `VerdictIsTrue` stand
for the property of the executor at hand: `FitsLease` and `VerdictJustified` of
`DockerExecutor`, `WindowHolds` and `VerdictKept` of `KubernetesExecutor`.

**Two disagreements.** `README.md:109` tells clients to deduplicate events by
`event_id`, and `StableEventID` exists "so retries can reuse the same identifier". A
submission that is given up is announced by the reaper under the kind
`infrastructure-failed`; if one of its stream entries is delivered later, the
judge repeats the same result under `submission-result`, with another ID.
`event_ids` shows the shortest such behaviour.

`JudgeConfig.Validate` refuses a lease with the words "must cover total timeout,
kill, cleanup, and setup margin" (`internal/config/config.go:110`). The sum it
tests fits a Docker attempt, and `FitsLease` shows that such an attempt ends
before its lease. A Kubernetes attempt waits for the total timeout twice and the
cleanup timeout, and its deletion has 30 seconds of its own: up to 100 s with the
shipped limits (`deploy/k8s/base/config.env:19`), whose lease is 60 s.
`executor_lease` shows an attempt past its lease on a cluster that is hardly ever
late: the active deadline ends the pod, and the deletion is slow. The pipeline
survives it, since the result of an attempt that was reclaimed is refused
(`SingleOwner`, `ResultsAreFinal`), but an attempt of the budget is wasted.
`WindowHolds` says how long a Kubernetes attempt does take; it promises nothing
about the lease.

**Bounds, and why they are enough.**

* `MaxFaults` (1 or 2): failures outside a running attempt. An attempt may crash
  any number of times, since the budget already bounds that. One failure is what
  separates two steps of a handler for good; two let a stalled worker and a
  failing repair meet. Matchmaking safety was also checked once with two
  failures and `ScanLimit` 2 (6.2 million states).
* `MaxCopies` (0 or 1): `DispatchPending` adds an entry only up to that many.
  The gateway and the reaper add theirs without a bound, so duplicates occur in
  every run, and a later `XADD` repeats what an earlier one did.
* `Tokens` (3 or 4): one per worker, one per row and one to spare, so a fresh
  one always exists: `ClaimAcquired` is never blocked.
* `TotalTests = 1`: scores 0 and 1 give less, equal and more.
* `MaxAttempts` 1 and 2: a first attempt that is the last, and one that is not.
* `BatchSize` 1 and 2: with 1, a page that one stuck entry fills, which is the
  case the liveness properties are about.
* `MaxScore = 3`: three new queue entries; a rejoin while queued takes none.
  `ScanLimit` 2 and 3: a window smaller than, and as large as, the queue.
* `MatchIDs`: matches that are active at once; an ID is used again after the end
  of its match.
* Gateway: two connections of one user; one is replaced, and cleaned up, while
  the other is set up or closed. Users share nothing but the process. A buffer of
  1 is full with `ready`, an answer or an event, so every `Send` meets one that is
  full, and one that another goroutine is closing. `MaxEvents` 2: one event lost
  and the next kept. `MaxFaults` 1: one call that fails or one token that expires.
  `Crowd` 1: the request and the events come while only the first connection has
  been accepted, and the second is accepted only where there was no traffic. What
  a connection is sent does not depend on the others; the proofs have no such
  bound to keep, they hold for every `Crowd`.
* Executor times: small numbers that satisfy `Validate`, so that every deadline can
  fall before, on and after each other one. `ApiTime` 1 makes a poll up to four
  units long (`PollGap`), the TTL of 1 is shorter than that, and the total timeout
  is longer, so that a report can be lost to the TTL. `VerdictIsTrue` fails without
  `LostToTTL`, and with a `PollGap` that is shorter by one: the case happens and its
  bounds are exact. `MaxClock` is never reached: what is watched has ended before.
* `executor_lease`: 5 s for a unit, everything else as it is shipped.
* `shutdownGrace` 3 and `LastSignal` 4: a job may have begun before, at and after
  every point of the grace period.
* Accept: a request, its retry, a reuse of its ID with another payload, a key
  that collides in the advisory lock and one that does not.
* `MaxLoads` 2: a snapshot and a later one. `MaxShown` 1: a list that is cut.

Symmetry: workers, match processes and match IDs are interchangeable; so are the
two sides of a duel, because nothing but the slot tells them apart and a
tiebreak gives the same winner in either order. The liveness runs use none. Deadlock is checked in the pipeline runs. Matchmaking may really stop, when
every connection is used up and nobody waits, so its runs do not check it. The
other modules describe something that ends: an attempt, a process that stops, a
bounded number of calls.

**Fairness.** Pipeline: weak fairness of each request handler that has passed
its first step, of the dispatch loop per row, of each worker's loop, of the
reaper's loop and of the clocks. The loops are `for`/`ticker` loops that log an
error and go on, and the clocks are clocks. Nothing is assumed of clients, or of
attempts succeeding. Matchmaking: weak fairness of a join in progress and of
each process's pops and requeues; strong fairness of `createMatch`, because
users may take and release the row locks it needs again and again, and
PostgreSQL queues lock requests, so it gets its turn. Gateway: weak fairness of
the server and, for each connection, of its handler, `fanout`, `close()`, `writePump`
and the latter's case of an expired token (a `select` chooses at random among
ready cases); nothing of clients, which need neither read nor leave (a write that
blocks ends with its timeout), and nothing makes a token expire. Executors:
weak fairness of the program's own steps, of calls that end with their context,
of the clock and, for Kubernetes, of the controllers; the code under test need
never end. Judge process: weak fairness of the loops and the clock; a job need
not end until it is cancelled. Accept: weak fairness of each call, whose
statements end with their lock or their failure.

## 4. Proofs

The theorems hold for every number of players, matches, submissions, workers,
tokens, users, connections, processes, events and failures, and for every bound.
They rest only on the named assumptions of the modules: two distinct members per
match, an author and a match for every submission, a token that is not
`NoToken`, positive `TotalTests`, `MaxAttempts`, `BatchSize`, `MaxShown` and
`SendBuf`, every connection with an owner, finitely many connections, a positive
grace period, and the order of timeouts that `JudgeConfig.Validate` enforces, no
more.

Each proof has one inductive invariant; TLC checked it on an instance of its
module before it was proved.

Pipeline:

* `TypeCorrect`. `TypeOK` alone is not inductive: `RemoveAt` at a place outside
  the list, or a row looked up by a junk payload, would leave the type.
  `TypeInv` adds `JobsOK`: what a worker or the reaper holds past its claim
  names a submission and a place of the list.
* `AttemptBudgetHolds`. Strengthened to `RowsOK`, which also says that a
  running attempt is within the budget and that only a completed row has a
  result. A claim adds one to a counter below the bound, the reaper resets only
  below it.
* `ResultsAreFinalHolds`, `OutcomesAreFinalHolds`: from `TypeInv` and
  `UnadmittedAbsent` (Accept inserts only where there is no row).
* `PassEndsMatchHolds`, `OutcomeAgreesWithScoresHolds`: both with
  `ActiveUndecided` (an active match has no winner) make the inductive `DuelInv`.
  The proofs use the lemma `DatabaseSteps`: whatever a process does, the tables
  see one of six kinds of change.
* `PipelineImplementsDuel`: each of the six kinds is a step of `Duel` or a
  stutter. The reaper compares two maxima and `Duel` asks for a submission that
  beats all of the other player's; `TiebreakIsBest` shows that the two agree, from
  the existence of a maximum (`MaxIsLargest`, by the well-foundedness of `<`).
* `SingleOwnerHolds`: from `TokensDistinct`, since a fresh token is in no row
  and with no worker.
* `EventsAreTrueHolds`: what a worker is about to publish, and what the reaper is
  about to announce, is copied from a row that can no longer change.

Matchmaking:

* `ClaimsAgreeHolds`: with "no user is in two active matches".
* `OneEntryPerUserHolds`: `QueueInv` adds that the hash maps a user to one of
  their own connections and that the entries a process holds belong to different
  users. Without the latter one requeue could put the same user back twice.
* `ScoresOrderHolds`: `HeldApart` says the same of the scores of held entries,
  within a process and between two, so that a requeue meets no equal score.
* `NobodyForgottenHolds`: `WaitInv` adds that a waiting user has no match yet, that
  the connection the hash names for a waiting user is present (so a requeue that
  gives way to that entry forgets nobody) and that a process about to pop holds
  nothing.
* `MatchmakingTypeCorrect`: a process holds at most a pair. A pop takes the two
  lowest scores, which is two entries only because `ScoresOrder` makes scores
  distinct, and the count of the entries ahead means something only because the
  connections are finitely many (`FiniteAssumption`).

Gateway:

* `GatewayTypeCorrect`: with `HandsOK` (a reader that handles a message knows its
  request, and the request is that connection's). No buffer exceeds `SendBuf`.
* `OneActivePerUserHolds`, `ShutdownReachesAllHolds`, `CleanDrainHolds`: all from
  `RegInv`. A served connection is in the registry or condemned; what is
  condemned stays so until it is closed; the WaitGroup counts the connections
  between `Add` and `Done`; a cleaned-up connection has nothing left. `Remove`
  deletes an entry only if it is its own, without which the second part fails.
* `NoGapHolds`: `StreamInv` puts the wire, the send buffer and the subscription's
  inbox of a connection in one line. Its events are always in order and among
  those delivered to the subscription (`Truthful`); until `close()` has begun they
  are also the first of them, and all of them while the connection is subscribed.
  `Gapless` is stated by the events' numbers and not by filtering a sequence, so
  that each step is one lemma about concatenation.
* `AnswerComesFirstHolds`: an event names a request only if that request has taken
  effect, and a request takes effect only while its reader holds `deliveryMu`;
  until the answer is in the buffer, or lost on a connection whose `close()` has
  begun, no such event can enter it. `AnswerInv` says that an answer still to come
  or still in the buffer has none of its events before it.

Executors (`SandboxExecutorProofs`), for all limits that `Validate` admits and every
`ApiTime`, `DeleteTimeout` and `Lag`:

* `EndsInWindowHolds`: for Docker, `TimesOK` bounds the clock and the current call's
  deadline at every point of an attempt by what is left of the total timeout, a
  kill and the cleanup; for Kubernetes, `WindowOK` bounds the end of each call of a
  poll by the window and the calls before it. The window is not compared with the
  lease, which it may exceed.
* `VerdictIsTrueHolds`, `NoFalsePassHolds`: `RunsOK` says how far a Docker attempt has
  come and that every earlier run was fine. For Kubernetes, `UnreadOK` says that a
  report the executor has not read is no older than a poll and still there, or
  came as late as the total timeout, or fell to the TTL; `ClusterOK` relates the
  report, the Job and the clock, so that a timeout is one that has passed.
* `NothingLeaksHolds`, `SparesTheLivingHolds`: what exists is still to be removed,
  or a removal of it failed, or its creation was given up; and nothing of a
  running attempt can be as old as what is stale.

Judge process, acceptance, snapshots:

* `GraceKept`, `ShutdownBounded`: `PhasesOK` relates the contexts, the timer and
  the phases of the stop to the clock; `JobsOK` says that a running job began
  before the signal, or that it is cancelled and within its unwinding. Without
  them a job could begin after the signal and be cut off early.
* `RetriesResolveAlways`, `AcceptImplementsLog`: `LocksOK` (a call past `Lock` and
  not yet done holds the advisory lock of its hash, hence alone) and `RowsOK` (a
  call that has found nothing has no row until its own commit). They hold for
  every set of calls and every hash function. The refinement proof maps each
  statement to a step of `RequestLog` or a stutter.
* `OutcomeExplainedHolds`, `NeverGoesBackHolds`, `NothingMissingHolds`: every
  state of the tables is `Good` (a match that has ended was decided on results
  that no later verdict can change) and every write makes them `Grown`. `LoadOK`
  says that a request's partial answer, and what its user was shown last, are
  what tables of two such moments say, the second no earlier. The rest is
  about one moment (`ShowsExplains`, `ShowsComplete`) or two (`ShowsForward`).
  That `LIMIT` lists as many rows as fit is a bijection between rows and ranks
  (`NewestFacts`).

Only model-checked: the liveness properties (`SubmissionsComplete`,
`MatchesFinish`, `QueueDrains`, `WaitersAreMatched`, `DueConnectionsEnd`,
`SandboxesGo`, `AttemptReturns`, `ShutdownEnds`, `CallsAnswered`), because fairness
and ENABLED are out of the prover's reach. Every safety invariant, action
property and refinement that a passing run checks is also a theorem.

## 5. Not modelled

* Announcements of `match_start` and `match_end`: no step depends on them.
* Accounts: registration, login and `UserByID` are single statements against one
  table with unique keys, around password hashing and signed tokens.
* Decoding of inbound frames and JSON: data only, and without effect on state.
* The text of problems and their tests, file layout in a sandbox, output limits
  beyond "too much output": data the properties do not tell apart. A problem
  whose stored tests do not decode is not among the initial states; migrations
  are the only source of problems.
* Configuration other than the limits of the judge and the order of lease and
  minimum idle time, which are assumptions of the modules.
* HTTP routing and readiness, opening connections, migrations, wiring, CLI and
  deployment: I/O and data.

## 6. Plan

Done, in this order: `JudgeQueue` and `SubmissionPipeline`; `Duel` and the
refinement; `ResultEvents`; `Matchmaking` and the proofs about them;
`GatewayConnections`; the executors; `JudgeWorkers`, `SubmissionAccept` and
`RequestLog` with proofs; `MatchSnapshot`; then a theorem for each safety property
that a run checks.

Next: the steps towards the liveness properties that are safety (a claimed row
has a lease that will run out, a row without an entry is one that
`DispatchPending` selects); that the steps of `SubmissionPipeline`
which open up into `SubmissionAccept` and `JudgeWorkers` are implemented by them.
