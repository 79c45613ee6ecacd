---------------------------- MODULE MatchSnapshot ----------------------------
(***************************************************************************)
(* What a player is shown of a match: matchSnapshotService of              *)
(* internal/gateway/match_snapshot.go, behind GET /api/matches/current and *)
(* GET /api/matches/{id}.                                                  *)
(*                                                                         *)
(* A snapshot is put together from three queries (the match, the players   *)
(* with their best results, the player's own submissions) while the        *)
(* gateway, the judge and the reaper commit to the same tables.  What they *)
(* commit is what module Duel says, which SubmissionPipeline implements;   *)
(* this module adds the creation of matches and the order of created_at.   *)
(***************************************************************************)
EXTENDS Duel, Sequences, FiniteSets, FiniteSetsExt

CONSTANTS
    Users,      \* the players who look
    NoMatch,
    MaxShown,   \* maxSnapshotSubmissions
    MaxLoads    \* bound: requests of one user

ASSUME SnapshotAssumption ==
    /\ Users \subseteq Players
    /\ Author \in [Submissions -> Players]
    /\ MatchOf \in [Submissions -> Matches]
    /\ MatchPlayers \in [Matches -> Players \X Players]
    /\ \A m \in Matches : MatchPlayers[m][1] # MatchPlayers[m][2]
    /\ MaxShown \in Nat \ {0}
    /\ MaxLoads \in Nat
    /\ NoMatch \notin Matches
    /\ NoPlayer \notin Players
    /\ TotalTests \in Nat \ {0}
    /\ Matches \cap Submissions = {}

VARIABLES
    begun,   \* matches and submissions, by the start of the inserting transaction
    made,    \* the matches whose insertion has committed
    load,    \* each user's running request
    shown,   \* the last snapshot each user was sent
    loads    \* the requests each user has made

vars == <<stage, passed, score, over, winner, late, begun, made, load, shown, loads>>

-----------------------------------------------------------------------------
Pair(m) == {MatchPlayers[m][1], MatchPlayers[m][2]}

\* The tables as a transaction that starts now would see them.
Tables == [stage |-> stage, passed |-> passed, score |-> score, over |-> over,
           winner |-> winner, made |-> made]

Accepted(u) == {s \in Submissions : Author[s] = u /\ stage[s] # "absent"}

ActiveOf(u) == {m \in made : u \in Pair(m) /\ ~over[m]}

Line == [id : Submissions, stage : {"open", "judged"}, passed : BOOLEAN,
         score : 0 .. TotalTests]

Outcomes == {"none", "win", "loss", "draw"}

\* An answer lists the submissions oldest first; the lines are kept as a set,
\* in which created_at is the order.
View == [match : Matches \cup {NoMatch}, over : BOOLEAN, outcome : Outcomes,
         best : [Players -> 0 .. TotalTests], lines : SUBSET Line, truncated : BOOLEAN]

NoView == [match |-> NoMatch, over |-> FALSE, outcome |-> "none",
           best |-> [p \in Players |-> 0], lines |-> {}, truncated |-> FALSE]

NoTables == [made |-> {}]

(***************************************************************************)
(* A request: the query it has come to, what it asks for (NoMatch for the  *)
(* current one), its transaction's snapshot of the tables, the answer so   *)
(* far, and, only for a property, the user's accepted submissions when the *)
(* request arrived.                                                        *)
(***************************************************************************)
NoLoad == [pc |-> "idle", ask |-> NoMatch, tables |-> NoTables, view |-> NoView,
           accepted |-> {}]

SnapshotInit ==
    /\ DuelInit
    /\ begun = << >>
    /\ made = {}
    /\ load = [u \in Users |-> NoLoad]
    /\ shown = [u \in Users |-> NoView]
    /\ loads = [u \in Users |-> 0]

-----------------------------------------------------------------------------
(* The writers: the steps of the duel, on matches that exist.              *)

\* A transaction that will insert x starts; created_at is now(), this moment.
\* Nobody submits to a match before it is announced.
Begin(x) ==
    /\ x \notin Range(begun)
    /\ x \in Submissions => MatchOf[x] \in made
    /\ begun' = Append(begun, x)
    /\ UNCHANGED <<duelVars, made, load, shown, loads>>

\* createMatch commits: neither player has an active match.
CreateMatch(m) ==
    /\ m \in Range(begun) \ made
    /\ \A u \in Pair(m) : ActiveOf(u) = {}
    /\ made' = made \cup {m}
    /\ UNCHANGED <<duelVars, begun, load, shown, loads>>

Write ==
    /\ \/ \E s \in Submissions :
            /\ s \in Range(begun)
            /\ Submit(s) \/ Pass(s) \/ Fail(s)
       \/ GiveUp
       \/ \E m \in made : DeadlinePassed(m)
       \/ Close
    /\ UNCHANGED <<begun, made, load, shown, loads>>

-----------------------------------------------------------------------------
(* The reader: matchHTTP.serve and matchSnapshotService.load.              *)

Request(u, ask) ==
    /\ load[u].pc = "idle"
    /\ loads[u] < MaxLoads
    /\ loads' = [loads EXCEPT ![u] = @ + 1]
    /\ load' = [load EXCEPT ![u] = [NoLoad EXCEPT !.pc = "match", !.ask = ask,
                                                  !.accepted = Accepted(u)]]
    /\ UNCHANGED <<duelVars, begun, made, shown>>

Created(x) == CHOOSE i \in 1 .. Len(begun) : begun[i] = x

\* ORDER BY (status = 'active') DESC, created_at DESC
ComesFirst(t, m, n) ==
    \/ ~t.over[m] /\ t.over[n]
    \/ t.over[m] = t.over[n] /\ Created(m) >= Created(n)

\* The match the first query finds for user u in tables t.
FindMatch(t, u, ask) ==
    LET mine == {m \in t.made : u \in Pair(m)}
        found == IF ask = NoMatch
                   THEN {m \in mine : \A n \in mine : ComesFirst(t, m, n)}
                   ELSE mine \cap {ask}
    IN  IF found = {} THEN NoMatch ELSE CHOOSE m \in found : TRUE

\* Fault: whoever is not the winner has lost.
OutcomeNoDraw(t, u, m) ==
    IF ~t.over[m] THEN "none" ELSE IF t.winner[m] = u THEN "win" ELSE "loss"

\* setSnapshotOutcome
Outcome(t, u, m) ==
    IF ~t.over[m] THEN "none"
    ELSE IF t.winner[m] = NoPlayer THEN "draw"
    ELSE IF t.winner[m] = u THEN "win" ELSE "loss"

\* The first query takes the transaction's snapshot.
QueryMatch(u) ==
    LET t == Tables
        m == FindMatch(t, u, load[u].ask)
    IN  /\ load[u].pc = "match"
        /\ m # NoMatch
        /\ load' = [load EXCEPT ![u].pc = "players", ![u].tables = t,
                                ![u].view = [NoView EXCEPT !.match = m,
                                                           !.over = t.over[m],
                                                           !.outcome = Outcome(t, u, m)]]
        /\ UNCHANGED <<duelVars, begun, made, shown, loads>>

\* It finds nothing: null, or 404 for a match that was asked for by its ID.
AnswerNone(u) ==
    /\ load[u].pc = "match"
    /\ FindMatch(Tables, u, load[u].ask) = NoMatch
    /\ shown' = [shown EXCEPT ![u] = NoView]
    /\ load' = [load EXCEPT ![u] = NoLoad]
    /\ UNCHANGED <<duelVars, begun, made, loads>>

\* Fault: READ COMMITTED, every query sees the tables as they are.
VisibleNow(u) == Tables

\* REPEATABLE READ: every query sees the tables as the first one did.
Visible(u) == load[u].tables

\* Fault: the newest result instead of the best.
NewestTests(t, m, p) ==
    LET done == {x \in Submissions : MatchOf[x] = m /\ Author[x] = p
                                         /\ t.stage[x] = "judged"}
    IN  Max({0} \cup {t.score[s] : s \in {x \in done :
                                 \A y \in done : Created(x) >= Created(y)}})

\* COALESCE(best.tests_passed, 0) over the completed submissions of p to m
BestTests(t, m, p) ==
    Max({0} \cup {t.score[s] : s \in {x \in Submissions : MatchOf[x] = m
                                         /\ Author[x] = p /\ t.stage[x] = "judged"}})

QueryPlayers(u) ==
    LET m == load[u].view.match
    IN  /\ load[u].pc = "players"
        /\ load' = [load EXCEPT ![u].pc = "submissions",
                                ![u].view.best = [p \in Players |->
                                     IF p \in Pair(m) THEN BestTests(Visible(u), m, p)
                                     ELSE 0]]
        /\ UNCHANGED <<duelVars, begun, made, shown, loads>>

\* ORDER BY created_at DESC LIMIT n
Newest(rows, n) ==
    {x \in rows : Cardinality({y \in rows : Created(y) > Created(x)}) < n}

\* Fault: the reversal comes before the cut.
ShownOldest(rows) ==
    {x \in rows : Cardinality({y \in rows : Created(y) < Created(x)}) < MaxShown}

\* The rows that the answer lists: what is read is newest first, and cut.
ShownOf(rows) == Newest(rows, MaxShown)

\* Fault: no row more than are shown is asked for.
Limit0 == MaxShown

Limit == MaxShown + 1

\* The user's submissions to m in tables t.
Own(t, m, u) ==
    {x \in Submissions : MatchOf[x] = m /\ Author[x] = u /\ t.stage[x] # "absent"}

OwnRows(t, m, u) == Newest(Own(t, m, u), Limit)

QuerySubmissions(u) ==
    LET t == Visible(u)
        rows == OwnRows(t, load[u].view.match, u)
        line(s) == [id |-> s, stage |-> t.stage[s], passed |-> t.passed[s],
                    score |-> t.score[s]]
    IN  /\ load[u].pc = "submissions"
        /\ load' = [load EXCEPT ![u].pc = "commit",
                                ![u].tables = NoTables,
                                ![u].view.lines = {line(s) : s \in ShownOf(rows)},
                                ![u].view.truncated = Cardinality(rows) > MaxShown]
        /\ UNCHANGED <<duelVars, begun, made, shown, loads>>

\* The transaction ends and the snapshot is sent.
Answer(u) ==
    /\ load[u].pc = "commit"
    /\ shown' = [shown EXCEPT ![u] = load[u].view]
    /\ load' = [load EXCEPT ![u] = NoLoad]
    /\ UNCHANGED <<duelVars, begun, made, loads>>

\* PostgreSQL is lost or the client hangs up: an error, or nobody to tell.
LoadFails(u) ==
    /\ load[u].pc # "idle"
    /\ load' = [load EXCEPT ![u] = NoLoad]
    /\ UNCHANGED <<duelVars, begun, made, shown, loads>>

UserStep(u) ==
    \/ \E ask \in Matches \cup {NoMatch} : Request(u, ask)
    \/ QueryMatch(u) \/ AnswerNone(u) \/ QueryPlayers(u) \/ QuerySubmissions(u)
    \/ Answer(u) \/ LoadFails(u)

SnapshotNext ==
    \/ \E x \in Matches \cup Submissions : Begin(x)
    \/ \E m \in Matches : CreateMatch(m)
    \/ Write
    \/ \E u \in Users : UserStep(u)

SnapshotSpec == SnapshotInit /\ [][SnapshotNext]_vars

-----------------------------------------------------------------------------
(***************************************************************************)
(* The requests and the answers have their types; a running request's      *)
(* tables are read before its second query.                                *)
(***************************************************************************)
TypeOK ==
    /\ Range(begun) \subseteq Matches \cup Submissions
    /\ Len(begun) = Cardinality(Range(begun))
    /\ made \subseteq Range(begun)
    /\ \A u \in Users :
        /\ loads[u] \in 0 .. MaxLoads
        /\ shown[u] \in View
        /\ load[u].view \in View
        /\ load[u].pc \in {"idle", "match", "commit"} <=> load[u].tables = NoTables
        /\ load[u].pc \in {"players", "submissions", "commit"}
              <=> load[u].view.match # NoMatch

Opponent(m, u) == CHOOSE p \in Pair(m) : p # u

\* What snapshot v shows user u of the results explains the outcome it names.
Explained(u, v) ==
    LET own == v.best[u]
        other == v.best[Opponent(v.match, u)]
        listed == {l.score : l \in {x \in v.lines : x.stage = "judged"}}
    IN  /\ v.outcome = "win" => own >= other /\ own > 0
        /\ v.outcome = "loss" => other >= own /\ other > 0
        /\ v.outcome = "draw" => own = other
        /\ v.outcome = "none" => \A l \in v.lines : ~l.passed
        /\ \A k \in listed : k <= own
        /\ ~v.truncated /\ own > 0 => own \in listed

(***************************************************************************)
(* Every snapshot explains itself, although its parts come from three      *)
(* queries and others commit in between: the winner it names has the best  *)
(* result it shows, a draw shows equal results, a match it shows as active *)
(* shows no pass, and the player's best result is that of the listed       *)
(* submissions, unless the list is cut.                                    *)
(***************************************************************************)
OutcomeExplained ==
    \A u \in Users : shown[u].match # NoMatch => Explained(u, shown[u])

\* Snapshot w of the same match is v or from a later moment.
NotBefore(v, w) ==
    /\ v.over => w.over /\ w.outcome = v.outcome
    /\ \A p \in Players : w.best[p] >= v.best[p]
    /\ v.truncated => w.truncated
    /\ Cardinality(w.lines) >= Cardinality(v.lines)
    /\ \A k \in v.lines, l \in w.lines : k.id = l.id /\ k.stage = "judged" => l = k

(***************************************************************************)
(* A player who looks at a match again never sees it go back: it stays     *)
(* over with the same outcome, best results only grow, and a submission    *)
(* listed as judged and listed again is judged the same way.               *)
(***************************************************************************)
NeverGoesBack ==
    [][\A u \in Users :
        (shown[u].match # NoMatch /\ shown'[u].match = shown[u].match) =>
            NotBefore(shown[u], shown'[u])]_shown

(***************************************************************************)
(* What was accepted before the request is in the answer, or the answer    *)
(* says that it is cut and lists MaxShown submissions that are newer.      *)
(***************************************************************************)
NothingMissing ==
    [][\A u \in Users : Answer(u) =>
        LET v == shown'[u]
            ids == {l.id : l \in v.lines}
        IN  \A s \in {x \in load[u].accepted : MatchOf[x] = v.match} :
                \/ s \in ids
                \/ /\ v.truncated
                   /\ Cardinality(ids) = MaxShown
                   /\ \A n \in ids : Created(n) > Created(s)]_vars
=============================================================================
