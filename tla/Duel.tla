-------------------------------- MODULE Duel --------------------------------
(***************************************************************************)
(* What the submission pipeline promises the two players of a match, with  *)
(* no queue, no attempts, no leases and no failures in sight:              *)
(*                                                                         *)
(*   - a member of an active match may submit to it;                       *)
(*   - a submission is judged once;                                        *)
(*   - the first pass into an active match wins it;                        *)
(*   - a match without a pass ends after its deadline, once nothing        *)
(*     submitted to it is open, and the better score wins it.              *)
(***************************************************************************)
EXTENDS Naturals

CONSTANTS Players, NoPlayer, Matches, MatchPlayers, Submissions, Author, MatchOf,
          TotalTests

VARIABLES
    stage,    \* of each submission: absent, open or judged
    passed,   \* whether it passed all tests
    score,    \* the number of tests it passed
    over,     \* whether a match has ended
    winner,   \* its winner, NoPlayer in a draw
    late      \* whether its deadline has passed

duelVars == <<stage, passed, score, over, winner, late>>

DuelInit ==
    /\ stage = [s \in Submissions |-> "absent"]
    /\ passed = [s \in Submissions |-> FALSE]
    /\ score = [s \in Submissions |-> 0]
    /\ over = [m \in Matches |-> FALSE]
    /\ winner = [m \in Matches |-> NoPlayer]
    /\ late = [m \in Matches |-> FALSE]

Submit(s) ==
    /\ stage[s] = "absent"
    /\ ~over[MatchOf[s]]
    /\ Author[s] \in {MatchPlayers[MatchOf[s]][1], MatchPlayers[MatchOf[s]][2]}
    /\ stage' = [stage EXCEPT ![s] = "open"]
    /\ UNCHANGED <<passed, score, over, winner, late>>

Pass(s) ==
    /\ stage[s] = "open"
    /\ stage' = [stage EXCEPT ![s] = "judged"]
    /\ passed' = [passed EXCEPT ![s] = TRUE]
    /\ score' = [score EXCEPT ![s] = TotalTests]
    /\ over' = [over EXCEPT ![MatchOf[s]] = TRUE]
    /\ winner' = [winner EXCEPT ![MatchOf[s]] =
                    IF over[MatchOf[s]] THEN @ ELSE Author[s]]
    /\ UNCHANGED late

Fail(s) ==
    /\ stage[s] = "open"
    /\ stage' = [stage EXCEPT ![s] = "judged"]
    /\ \E k \in 0 .. TotalTests : score' = [score EXCEPT ![s] = k]
    /\ UNCHANGED <<passed, over, winner, late>>

\* Some submissions cannot be judged and count for nothing.
GiveUp ==
    /\ \E S \in SUBSET {s \in Submissions : stage[s] = "open"} :
        stage' = [s \in Submissions |-> IF s \in S THEN "judged" ELSE stage[s]]
    /\ UNCHANGED <<passed, score, over, winner, late>>

DeadlinePassed(m) ==
    /\ late' = [late EXCEPT ![m] = TRUE]
    /\ UNCHANGED <<stage, passed, score, over, winner>>

Judged(m, p) ==
    {s \in Submissions : MatchOf[s] = m /\ Author[s] = p /\ stage[s] = "judged"}

\* Player p has a submission to m that is better than nothing and better
\* than everything of player q.
Outscores(m, p, q) ==
    \E s \in Judged(m, p) :
        /\ score[s] > 0
        /\ \A t \in Judged(m, q) : score[s] > score[t]

Best(m) ==
    LET p == MatchPlayers[m][1]
        q == MatchPlayers[m][2]
    IN  IF Outscores(m, p, q) THEN p
        ELSE IF Outscores(m, q, p) THEN q
        ELSE NoPlayer

\* Some matches end on their scores.
Close ==
    /\ \E C \in SUBSET Matches :
        /\ \A m \in C :
            /\ ~over[m]
            /\ late[m]
            /\ \A s \in Submissions : MatchOf[s] = m => stage[s] # "open"
        /\ over' = [m \in Matches |-> m \in C \/ over[m]]
        /\ winner' = [m \in Matches |-> IF m \in C THEN Best(m) ELSE winner[m]]
    /\ UNCHANGED <<stage, passed, score, late>>

DuelNext ==
    \/ \E s \in Submissions : Submit(s) \/ Pass(s) \/ Fail(s)
    \/ GiveUp
    \/ \E m \in Matches : DeadlinePassed(m)
    \/ Close

DuelSpec == DuelInit /\ [][DuelNext]_duelVars
=============================================================================
