---------------------------- MODULE Matchmaking -----------------------------
(***************************************************************************)
(* From join_queue to an active match: the gateway's connections and       *)
(* enqueueForMatch (internal/gateway), the Redis matchmaking queue and its *)
(* four scripts (internal/redisx), the match role's step and createMatch   *)
(* (internal/match), and the active_match_players claims that triggers     *)
(* keep in step with the matches.                                          *)
(*                                                                         *)
(* A queue member is the JSON of one connection (user, presence key,       *)
(* route), so a connection stands for it.  Every script is one step, and   *)
(* so is every transaction; a transaction that calls Redis while it holds  *)
(* a lock (enqueueForMatch) is two.  Several match processes and several   *)
(* gateways run at once: one user may have several live connections.       *)
(***************************************************************************)
EXTENDS Naturals, FiniteSets

CONSTANTS
    Users,
    Conns,       \* connections, each used once (uuid.New)
    NoConn,      \* no member stored for a user
    Owner,       \* the user of a connection
    Servers,     \* match role processes
    MatchIDs,    \* IDs of matches that are active at once
    NoMatch,
    Removable,   \* users that a migration may delete (000011)
    ScanLimit,   \* DefaultScanLimit
    MaxScore,    \* bound: new queue entries in a behaviour
    MaxFaults    \* bound: failures in a behaviour

ASSUME ConnsAssumption ==
    /\ Owner \in [Conns -> Users]
    /\ NoConn \notin Conns
    /\ NoMatch \notin MatchIDs
    /\ Removable \subseteq Users

\* A queue is finite: its entries can be counted.
ASSUME FiniteAssumption == IsFiniteSet(Conns)

ASSUME ScanAssumption ==
    /\ ScanLimit \in Nat \ {0, 1}
    /\ MaxScore \in Nat
    /\ MaxFaults \in Nat

VARIABLES
    h,          \* the handler of each connection
    up,         \* connections whose socket is open
    presence,   \* connections whose presence key exists
    score,      \* QueueKey, the sorted set: the score of a connection, 0 if absent
    member,     \* MembersKey, the hash: the queued connection of each user
    last,       \* LastScoreKey
    sv,         \* each match process: its step and the entries it holds
    users,      \* the users table
    active,     \* matches with status active: the players of each
    played,     \* users that match_players refers to
    claim,      \* active_match_players
    waiting,    \* users who joined, present and without an active match, and
                \* whose queued connection has not since left or been lost and
                \* who have not been matched
    lost,       \* users whose entry a failure took away with it
    faults      \* failures so far

connVars == <<h, up, presence>>
queueVars == <<score, member, last>>
dbVars == <<users, active, played, claim>>
vars == <<h, up, presence, score, member, last, sv, users, active, played, claim,
          waiting, lost, faults>>

-----------------------------------------------------------------------------
Entry == [conn : Conns, score : 1 .. MaxScore]

\* "create": holds the pair it popped.  "requeue": about to put entries back.
\* "pending": a Requeue failed and the entries wait for restorePending.
ServerState == [pc : {"idle", "create", "requeue", "pending"},
                held : {H \in SUBSET Entry : Cardinality(H) <= 2}]

IdleServer == [pc |-> "idle", held |-> {}]

TypeOK ==
    /\ h \in [Conns -> {"none", "idle", "joining", "unlocked", "done"}]
    /\ up \in SUBSET Conns
    /\ presence \in SUBSET Conns
    /\ score \in [Conns -> 0 .. MaxScore]
    /\ member \in [Users -> Conns \cup {NoConn}]
    /\ last \in 0 .. MaxScore
    /\ sv \in [Servers -> ServerState]
    /\ users \in SUBSET Users
    /\ active \in [MatchIDs -> SUBSET Users]
    /\ played \in SUBSET Users
    /\ claim \in [Users -> MatchIDs \cup {NoMatch}]
    /\ waiting \in SUBSET Users
    /\ lost \in SUBSET Users
    /\ faults \in 0 .. MaxFaults

Init ==
    /\ h = [c \in Conns |-> "none"]
    /\ up = {}
    /\ presence = {}
    /\ score = [c \in Conns |-> 0]
    /\ member = [u \in Users |-> NoConn]
    /\ last = 0
    /\ sv = [v \in Servers |-> IdleServer]
    /\ users = Users
    /\ active = [i \in MatchIDs |-> {}]
    /\ played = {}
    /\ claim = [u \in Users |-> NoMatch]
    /\ waiting = {}
    /\ lost = {}
    /\ faults = 0

Fault == faults < MaxFaults /\ faults' = faults + 1

Queued(c) == score[c] # 0

Held(v) == {e.conn : e \in sv[v].held}

Owners(entries) == {Owner[e.conn] : e \in entries}

\* A user row locked by enqueueForMatch.
Locked(u) == \E c \in Conns : Owner[c] = u /\ h[c] = "joining"

-----------------------------------------------------------------------------
(* Connections: handleWS, conn.serve and cleanup.                          *)

\* The presence key is set once, before the user channel is subscribed.
Connect(c) ==
    /\ h[c] = "none"
    /\ Owner[c] \in users
    /\ h' = [h EXCEPT ![c] = "idle"]
    /\ up' = up \cup {c}
    /\ presence' = presence \cup {c}
    /\ UNCHANGED <<queueVars, sv, dbVars, waiting, lost, faults>>

\* The socket closes: the client, a newer connection in the registry, token
\* expiry or shutdown.  A handler in progress goes on.
Disconnect(c) ==
    /\ c \in up
    /\ up' = up \ {c}
    /\ UNCHANGED <<h, presence, queueVars, sv, dbVars, waiting, lost, faults>>

\* Its user waits no longer, but for a newer connection that is queued.
StopsWaiting(c) ==
    waiting' = IF member[Owner[c]] \in {c, NoConn} THEN waiting \ {Owner[c]} ELSE waiting

\* onClose deletes the presence key; the queue entry stays behind.
Cleanup(c) ==
    /\ h[c] = "idle"
    /\ c \notin up
    /\ h' = [h EXCEPT ![c] = "done"]
    /\ presence' = presence \ {c}
    /\ StopsWaiting(c)
    /\ UNCHANGED <<up, queueVars, sv, dbVars, lost, faults>>

\* The gateway dies or Redis does not answer: the key lives until its TTL.
CleanupFails(c) ==
    /\ h[c] \in {"idle", "joining", "unlocked"}
    /\ Fault
    /\ h' = [h EXCEPT ![c] = "done"]
    /\ up' = up \ {c}
    /\ UNCHANGED <<presence, queueVars, sv, dbVars, waiting, lost>>

\* The TTL of a dead connection; for a live one the refresh has to fail, and
\* nothing sets the key again.
PresenceExpires(c) ==
    /\ c \in presence
    /\ IF h[c] = "done" THEN UNCHANGED faults ELSE Fault
    /\ presence' = presence \ {c}
    /\ StopsWaiting(c)
    /\ UNCHANGED <<h, up, queueVars, sv, dbVars, lost>>

-----------------------------------------------------------------------------
(* join_queue and leave_queue.                                             *)

\* enqueueForMatch: lock the user row and look for an active match; with one
\* the answer is already_in_match.
JoinLock(c) ==
    LET u == Owner[c] IN
    /\ h[c] = "idle"
    /\ c \in up
    /\ u \in users
    /\ ~Locked(u)
    /\ claim[u] = NoMatch
    /\ last + Cardinality({d \in Conns : h[d] \in {"joining", "unlocked"}}) < MaxScore
    /\ h' = [h EXCEPT ![c] = "joining"]
    /\ UNCHANGED <<up, presence, queueVars, sv, dbVars, waiting, lost, faults>>

\* Fault: the server's clock is trusted.
ClockScore(now) == now

\* A new score is later than every earlier one, whatever the clock says.
NextScore(now) == IF now <= last THEN last + 1 ELSE now

(***************************************************************************)
(* enqueue.lua: a user who is queued keeps the place, under the connection *)
(* that joined last; anyone else goes to the end.                          *)
(***************************************************************************)
Enqueue(c) ==
    LET u == Owner[c]
        old == member[u]
    IN  /\ IF old # NoConn /\ Queued(old)
             THEN /\ score' = [d \in Conns |->
                                 IF d = c THEN score[old]
                                 ELSE IF d = old THEN 0
                                 ELSE score[d]]
                  /\ UNCHANGED last
             ELSE \E now \in 0 .. last + 1 :
                    /\ score' = [score EXCEPT ![c] = NextScore(now)]
                    /\ last' = NextScore(now)
        /\ member' = [member EXCEPT ![u] = c]

\* The gateway loses its database connection, and with it the lock, while
\* the script is on its way to Redis.
LockLost(c) ==
    /\ h[c] = "joining"
    /\ Fault
    /\ h' = [h EXCEPT ![c] = "unlocked"]
    /\ UNCHANGED <<up, presence, queueVars, sv, dbVars, waiting, lost>>

\* Enqueue runs under the user lock, which the rollback then releases.
JoinEnqueue(c) ==
    /\ h[c] \in {"joining", "unlocked"}
    /\ Enqueue(c)
    /\ h' = [h EXCEPT ![c] = "idle"]
    /\ waiting' = IF c \in presence /\ Owner[c] \in users /\ claim[Owner[c]] = NoMatch
                    THEN waiting \cup {Owner[c]}
                    ELSE waiting \ {Owner[c]}
    /\ lost' = lost \ {Owner[c]}
    /\ UNCHANGED <<up, presence, sv, dbVars, faults>>

\* Redis fails: queue_unavailable.  (A script whose reply is lost is
\* JoinEnqueue with another answer to the client.)
JoinFails(c) ==
    /\ h[c] \in {"joining", "unlocked"}
    /\ Fault
    /\ h' = [h EXCEPT ![c] = "idle"]
    /\ UNCHANGED <<up, presence, queueVars, sv, dbVars, waiting, lost>>

\* Fault: a connection takes the entry of another of its user out.
LeaveAny(c) ==
    LET u == Owner[c] IN
    /\ h[c] = "idle"
    /\ c \in up
    /\ score' = [d \in Conns |-> IF d = member[u] THEN 0 ELSE score[d]]
    /\ member' = [member EXCEPT ![u] = NoConn]
    /\ StopsWaiting(c)
    /\ UNCHANGED <<connVars, last, sv, dbVars, lost, faults>>

\* dequeue.lua: only the connection that is queued can leave.
Leave(c) ==
    LET u == Owner[c] IN
    /\ h[c] = "idle"
    /\ c \in up
    /\ IF member[u] = c
         THEN /\ score' = [score EXCEPT ![c] = 0]
              /\ member' = [member EXCEPT ![u] = NoConn]
         ELSE UNCHANGED <<score, member>>
    /\ StopsWaiting(c)
    /\ UNCHANGED <<connVars, last, sv, dbVars, lost, faults>>

-----------------------------------------------------------------------------
(* The match role: service.step.                                           *)

\* The entries pop_pair.lua looks at, the earliest ScanLimit of the queue.
Scanned ==
    {c \in Conns : Queued(c) /\ Cardinality({d \in Conns : Queued(d) /\ score[d] < score[c]})
                                  < ScanLimit}

\* A scanned entry that is still its user's and whose connection is present.
Valid(c) == member[Owner[c]] = c /\ c \in presence

\* Fault: entries of dead connections are skipped but not removed.
StaleKept == {}

\* Entries that the scan throws away.
Stale == {c \in Scanned : ~Valid(c)}

\* Fault: off by one.
SelectedThree ==
    LET valid == {c \in Scanned : Valid(c)}
    IN  {c \in valid : Cardinality({d \in valid : score[d] < score[c]}) <= 2}

\* The first two valid entries.
Selected ==
    LET valid == {c \in Scanned : Valid(c)}
    IN  {c \in valid : Cardinality({d \in valid : score[d] < score[c]}) < 2}

\* remove_member for a set of connections.
Remove(gone) ==
    /\ score' = [c \in Conns |-> IF c \in gone THEN 0 ELSE score[c]]
    /\ member' = [u \in Users |-> IF member[u] \in gone THEN NoConn ELSE member[u]]
    /\ UNCHANGED last

\* pop_pair.lua finds two players.
PopPair(v) ==
    /\ sv[v].pc = "idle"
    /\ Cardinality(Selected) >= 2
    /\ Remove(Stale \cup Selected)
    /\ sv' = [sv EXCEPT ![v] = [pc |-> "create",
                                held |-> {[conn |-> c, score |-> score[c]] : c \in Selected}]]
    /\ UNCHANGED <<connVars, dbVars, waiting, lost, faults>>

\* It finds fewer, and only cleans up.
PopNobody(v) ==
    /\ sv[v].pc = "idle"
    /\ Cardinality(Selected) < 2
    /\ Stale # {}
    /\ Remove(Stale)
    /\ UNCHANGED <<connVars, sv, dbVars, waiting, lost, faults>>

\* The script runs and its reply is lost: step sees an error and knows no pair.
PopPairReplyLost(v) ==
    /\ sv[v].pc = "idle"
    /\ Cardinality(Selected) >= 2
    /\ Fault
    /\ Remove(Stale \cup Selected)
    /\ lost' = lost \cup {Owner[c] : c \in Selected}
    /\ UNCHANGED <<connVars, sv, dbVars, waiting>>

\* createMatch holds both user rows.
CanLock(v) == sv[v].pc = "create" /\ \A u \in Owners(sv[v].held) : ~Locked(u)

\* Players that do not exist or already have an active match.
Ineligible(v) == {u \in Owners(sv[v].held) : u \notin users \/ claim[u] # NoMatch}

\* INSERT INTO matches and match_players; the trigger claims the players.
InsertMatch(v) ==
    LET pair == Owners(sv[v].held) IN
    \E i \in MatchIDs :
        /\ active[i] = {}
        /\ active' = [active EXCEPT ![i] = pair]
        /\ played' = played \cup pair
        /\ claim' = [u \in Users |-> IF u \in pair THEN i ELSE claim[u]]
        /\ waiting' = waiting \ pair
        /\ UNCHANGED users

\* match_start is then published, best effort: no state depends on it.
CreateMatch(v) ==
    /\ CanLock(v)
    /\ Ineligible(v) = {}
    /\ InsertMatch(v)
    /\ sv' = [sv EXCEPT ![v] = IdleServer]
    /\ UNCHANGED <<connVars, queueVars, lost, faults>>

\* handleIneligiblePlayers: the players at fault are dropped, an opponent
\* goes back to the queue.
DropIneligible(v) ==
    LET eligible == {e \in sv[v].held : Owner[e.conn] \notin Ineligible(v)} IN
    /\ CanLock(v)
    /\ Ineligible(v) # {}
    /\ sv' = [sv EXCEPT ![v] = IF eligible = {} THEN IdleServer
                               ELSE [pc |-> "requeue", held |-> eligible]]
    /\ UNCHANGED <<connVars, queueVars, dbVars, waiting, lost, faults>>

\* createMatch fails and is rolled back.
CreateFails(v) ==
    /\ sv[v].pc = "create"
    /\ Fault
    /\ sv' = [sv EXCEPT ![v].pc = "requeue"]
    /\ UNCHANGED <<connVars, queueVars, dbVars, waiting, lost>>

\* The commit succeeds and its answer is lost: both players are requeued.
CreateAmbiguous(v) ==
    /\ CanLock(v)
    /\ Ineligible(v) = {}
    /\ Fault
    /\ InsertMatch(v)
    /\ sv' = [sv EXCEPT ![v].pc = "requeue"]
    /\ UNCHANGED <<connVars, queueVars, lost>>

\* Fault: the stored member of the user is not looked at.
RestoredBlindly(entries) == {e \in entries : e.conn \in presence}

\* requeue.lua: the entries it puts back.
Restored(entries) ==
    {e \in entries :
        /\ e.conn \in presence
        /\ \/ member[Owner[e.conn]] = NoConn
           \/ member[Owner[e.conn]] = e.conn /\ ~Queued(e.conn)}

\* They get their old score, so their old place.
RestoreEntries(entries) ==
    /\ score' = [c \in Conns |->
                   IF \E e \in Restored(entries) : e.conn = c
                     THEN (CHOOSE e \in Restored(entries) : e.conn = c).score
                     ELSE score[c]]
    /\ member' = [u \in Users |->
                    IF u \in Owners(Restored(entries))
                      THEN (CHOOSE e \in Restored(entries) : Owner[e.conn] = u).conn
                      ELSE member[u]]
    /\ UNCHANGED last

\* requeueOrRetain, or restorePending in a later step.
Requeue(v) ==
    /\ sv[v].pc \in {"requeue", "pending"}
    /\ RestoreEntries(sv[v].held)
    /\ sv' = [sv EXCEPT ![v] = IdleServer]
    /\ UNCHANGED <<connVars, dbVars, waiting, lost, faults>>

\* Fault: the entries of a failed Requeue are not retained.
RequeueForgets(v) ==
    /\ sv[v].pc \in {"requeue", "pending"}
    /\ Fault
    /\ UNCHANGED <<score, member, last>>
    /\ sv' = [sv EXCEPT ![v] = IdleServer]
    /\ UNCHANGED <<connVars, dbVars, waiting, lost>>

\* Requeue fails, with or without effect: the entries are retained.
RequeueFails(v) ==
    /\ sv[v].pc \in {"requeue", "pending"}
    /\ Fault
    /\ RestoreEntries(sv[v].held) \/ UNCHANGED queueVars
    /\ sv' = [sv EXCEPT ![v].pc = "pending"]
    /\ UNCHANGED <<connVars, dbVars, waiting, lost>>

\* A match process dies, or stops with entries pending: they were in memory.
ServerDies(v) ==
    /\ sv[v].held # {}
    /\ Fault
    /\ lost' = lost \cup Owners(sv[v].held)
    /\ sv' = [sv EXCEPT ![v] = IdleServer]
    /\ UNCHANGED <<connVars, queueVars, dbVars, waiting>>

-----------------------------------------------------------------------------
(* The rest of the system, as the tables see it.                           *)

\* Fault: the claims are left behind.
ClaimsKept(i) == claim

\* Trigger sync_active_match_claims.
ClaimsReleased(i) == [u \in Users |-> IF claim[u] = i THEN NoMatch ELSE claim[u]]

\* A judge or the reaper finishes a match.
Finish(i) ==
    /\ active[i] # {}
    /\ active' = [active EXCEPT ![i] = {}]
    /\ claim' = ClaimsReleased(i)
    /\ UNCHANGED <<connVars, queueVars, sv, users, played, waiting, lost, faults>>

\* A user that no match refers to is deleted.
RemoveUser(u) ==
    /\ u \in (Removable \cap users) \ played
    /\ ~Locked(u)
    /\ users' = users \ {u}
    /\ waiting' = waiting \ {u}
    /\ UNCHANGED <<connVars, queueVars, sv, active, played, claim, lost, faults>>

-----------------------------------------------------------------------------
ConnStep(c) ==
    \/ Connect(c) \/ Disconnect(c) \/ Cleanup(c) \/ CleanupFails(c) \/ PresenceExpires(c)
    \/ JoinLock(c) \/ LockLost(c) \/ JoinEnqueue(c) \/ JoinFails(c) \/ Leave(c)

ServerStep(v) ==
    \/ PopPair(v) \/ PopNobody(v) \/ PopPairReplyLost(v)
    \/ CreateMatch(v) \/ DropIneligible(v) \/ CreateFails(v) \/ CreateAmbiguous(v)
    \/ Requeue(v) \/ RequeueFails(v) \/ ServerDies(v)

Next ==
    \/ \E c \in Conns : ConnStep(c)
    \/ \E v \in Servers : ServerStep(v)
    \/ \E i \in MatchIDs : Finish(i)
    \/ \E u \in Users : RemoveUser(u)

Spec == Init /\ [][Next]_vars

(***************************************************************************)
(* Fairness: a join in progress ends, and the match processes keep         *)
(* stepping.  PostgreSQL grants row locks in the order of the requests, so *)
(* createMatch gets its rows even while users keep rejoining.              *)
(***************************************************************************)
Fairness ==
    /\ \A c \in Conns : WF_vars(JoinEnqueue(c))
    /\ \A v \in Servers :
        /\ WF_vars(PopPair(v) \/ PopNobody(v) \/ Requeue(v))
        /\ SF_vars(CreateMatch(v) \/ DropIneligible(v))

FairSpec == Spec /\ Fairness

-----------------------------------------------------------------------------
(***************************************************************************)
(* active_match_players is exactly the players of the active matches, so a *)
(* player has at most one active match, whatever is queued twice, popped   *)
(* by two processes, requeued after an ambiguous commit or finished while  *)
(* its players are being matched again.                                    *)
(***************************************************************************)
ClaimsAgree ==
    \A u \in Users, i \in MatchIDs : claim[u] = i <=> u \in active[i]

(***************************************************************************)
(* The two halves of the queue agree: a user has at most one entry in the  *)
(* sorted set, the one the hash names, however joins by several            *)
(* connections, pops and late requeues interleave.                         *)
(***************************************************************************)
OneEntryPerUser ==
    \A c \in Conns : Queued(c) <=> member[Owner[c]] = c

(***************************************************************************)
(* Scores order the queue: no two users share one, and none is ahead of    *)
(* the last one given out, so that a new entry goes behind every entry     *)
(* that is queued, or popped and on its way back.                          *)
(***************************************************************************)
ScoresOrder ==
    /\ \A c, d \in Conns : c # d /\ Queued(c) /\ Queued(d) => score[c] # score[d]
    /\ \A v \in Servers, c \in Conns : \A e \in sv[v].held :
        /\ Queued(c) /\ Owner[c] # Owner[e.conn] => score[c] # e.score
        /\ e.score <= last
    /\ \A c \in Conns : score[c] <= last

(***************************************************************************)
(* Nobody is forgotten: a user who waits for a match is in the queue, or   *)
(* in the hands of a match process that will match or requeue it, unless   *)
(* its pair was lost with a PopPair reply or with a match process.         *)
(***************************************************************************)
NobodyForgotten ==
    \A u \in waiting \ lost :
        \E c \in presence :
            /\ Owner[c] = u
            /\ Queued(c) \/ \E v \in Servers : c \in Held(v)

(***************************************************************************)
(* Two users who keep waiting are not left waiting: under FairSpec one of  *)
(* them is matched, leaves or drops, even when processes fail, opponents   *)
(* turn out to be ineligible and dead connections fill the queue.          *)
(***************************************************************************)
WaitersAreMatched ==
    \A pair \in {{t, u} : t, u \in Users} : Cardinality(pair) = 2 =>
        (pair \subseteq waiting \ lost ~> ~(pair \subseteq waiting \ lost))
=============================================================================
