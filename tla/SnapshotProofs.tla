--------------------------- MODULE SnapshotProofs ---------------------------
(***************************************************************************)
(* Proofs about MatchSnapshot, for every number of players, matches,       *)
(* submissions and requests and every length of the list: a snapshot is    *)
(* what the tables said at one moment, and later ones show later moments.  *)
(***************************************************************************)
EXTENDS MatchSnapshot, FiniteSetTheorems, WellFoundedInduction, TLAPS

-----------------------------------------------------------------------------
(* The tables.                                                             *)

TablesType ==
    [stage : [Submissions -> {"absent", "open", "judged"}],
     passed : [Submissions -> BOOLEAN],
     score : [Submissions -> 0 .. TotalTests],
     over : [Matches -> BOOLEAN],
     winner : [Matches -> Players \cup {NoPlayer}],
     made : SUBSET Matches]

\* The judged submissions of player p to match m.
Done(t, m, p) ==
    {s \in Submissions : MatchOf[s] = m /\ Author[s] = p /\ t.stage[s] = "judged"}

\* The winner has a result that nothing of the opponent beats; in a draw
\* neither player is ahead.
Decided(t, m) ==
    /\ t.winner[m] # NoPlayer =>
         /\ t.winner[m] \in Pair(m)
         /\ \E s \in Done(t, m, t.winner[m]) :
              /\ t.score[s] > 0
              /\ \A r \in Submissions : MatchOf[r] = m /\ Author[r] # t.winner[m]
                                            => t.score[r] <= t.score[s]
    /\ t.winner[m] = NoPlayer =>
         \A p, q \in Pair(m) : p # q =>
           \A s \in Done(t, m, p) :
             t.score[s] = 0 \/ \E r \in Done(t, m, q) : t.score[r] >= t.score[s]

\* No later verdict can change that.
Settled(t, m) ==
    \/ \A s \in Submissions : MatchOf[s] = m => t.stage[s] # "open"
    \/ /\ t.winner[m] # NoPlayer
       /\ \E s \in Done(t, m, t.winner[m]) : t.passed[s]

(***************************************************************************)
(* What is true of the tables whenever a transaction looks at them: only   *)
(* what is judged has a result, a pass ends the match, and a match that    *)
(* has ended was decided on results that stand.                            *)
(***************************************************************************)
Good(t) ==
    /\ t \in TablesType
    /\ \A s \in Submissions :
        /\ t.stage[s] # "judged" => t.score[s] = 0 /\ ~t.passed[s]
        /\ t.stage[s] # "absent" => Author[s] \in Pair(MatchOf[s])
        /\ t.passed[s] => t.over[MatchOf[s]] /\ t.score[s] = TotalTests
    /\ \A m \in Matches : t.over[m] => Decided(t, m) /\ Settled(t, m)

\* T is t or later: nothing accepted goes away, and verdicts and outcomes stay.
Grown(t, T) ==
    /\ \A s \in Submissions :
        /\ t.stage[s] # "absent" => T.stage[s] # "absent"
        /\ t.stage[s] = "judged" => /\ T.stage[s] = "judged"
                                    /\ T.passed[s] = t.passed[s]
                                    /\ T.score[s] = t.score[s]
    /\ \A m \in Matches : t.over[m] => T.over[m] /\ T.winner[m] = t.winner[m]

LEMMA GrownTransitive ==
    ASSUME NEW a, NEW b, NEW c, Grown(a, b), Grown(b, c)
    PROVE  Grown(a, c)
BY DEF Grown

LEMMA GrownReflexive == ASSUME NEW t PROVE Grown(t, t)
BY DEF Grown

LEMMA PairFacts ==
    ASSUME NEW m \in Matches
    PROVE  /\ Pair(m) \subseteq Players
           /\ NoPlayer \notin Pair(m)
           /\ \E p, q \in Players : p # q /\ Pair(m) = {p, q}
                                    /\ p = MatchPlayers[m][1] /\ q = MatchPlayers[m][2]
BY SnapshotAssumption DEF SnapshotAssumption, Pair

-----------------------------------------------------------------------------
(* The writers.                                                            *)

LEMMA SubmitTables ==
    ASSUME Good(Tables), NEW s \in Submissions, Submit(s), made' = made
    PROVE  Good(Tables)' /\ Grown(Tables, Tables')
<1>1. /\ stage[s] = "absent" /\ ~over[MatchOf[s]]
      /\ stage' = [stage EXCEPT ![s] = "open"]
      /\ UNCHANGED <<passed, score, over, winner, late, made>>
      /\ Author[s] \in Pair(MatchOf[s])
  BY DEF Submit, Pair
<1>2. Tables' \in TablesType
  BY <1>1 DEF Good, TablesType, Tables
<1>3. \A r \in Submissions : r # s => stage'[r] = stage[r]
  BY <1>1 DEF Good, TablesType, Tables
<1>4. stage'[s] = "open"
  BY <1>1 DEF Good, TablesType, Tables
<1>5. \A m \in Matches : \A p : Done(Tables', m, p) = Done(Tables, m, p)
  BY <1>1, <1>3, <1>4 DEF Done, Tables
<1>6. \A m \in Matches : over[m] => MatchOf[s] # m
  BY <1>1
<1>7. \A m \in Matches : over[m] /\ Decided(Tables, m) => Decided(Tables', m)
  BY <1>1, <1>5 DEF Decided, Tables
<1>8. \A m \in Matches : over[m] /\ Settled(Tables, m) => Settled(Tables', m)
  BY <1>1, <1>3, <1>5, <1>6 DEF Settled, Tables
<1>9. Good(Tables)'
  BY <1>1, <1>2, <1>3, <1>4, <1>7, <1>8 DEF Good, Tables
<1>10. QED
  BY <1>1, <1>3, <1>4, <1>9 DEF Grown, Tables

\* A verdict on s: what stays of the others, and of the ended matches.
LEMMA VerdictTables ==
    ASSUME Good(Tables), NEW s \in Submissions, stage[s] = "open",
           NEW k \in 0 .. TotalTests, NEW b \in BOOLEAN,
           stage' = [stage EXCEPT ![s] = "judged"],
           score' = [score EXCEPT ![s] = k],
           passed' = [passed EXCEPT ![s] = b],
           b => k = TotalTests /\ over'[MatchOf[s]],
           over' \in [Matches -> BOOLEAN],
           winner' \in [Matches -> Players \cup {NoPlayer}],
           \A m \in Matches : m # MatchOf[s] \/ over[m] =>
               over'[m] = over[m] /\ winner'[m] = winner[m],
           over'[MatchOf[s]] /\ ~over[MatchOf[s]] => b /\ winner'[MatchOf[s]] = Author[s],
           made' = made
    PROVE  Good(Tables)' /\ Grown(Tables, Tables')
<1> DEFINE o == MatchOf[s]
<1>0. o \in Matches /\ Author[s] \in Players /\ TotalTests \in Nat \ {0}
      /\ NoPlayer \notin Players
  BY SnapshotAssumption DEF SnapshotAssumption
<1>1. Tables' \in TablesType
  BY DEF Good, TablesType, Tables
<1>2. \A r \in Submissions : r # s =>
        stage'[r] = stage[r] /\ score'[r] = score[r] /\ passed'[r] = passed[r]
  BY DEF Good, TablesType, Tables
<1>3. stage'[s] = "judged" /\ score'[s] = k /\ passed'[s] = b
  BY DEF Good, TablesType, Tables
<1>4. Author[s] \in Pair(o) /\ ~passed[s] /\ score[s] = 0
  BY DEF Good, Tables
<1>5. Grown(Tables, Tables')
  BY <1>2, <1>3 DEF Grown, Tables
<1>6. ASSUME NEW m \in Matches, over'[m] PROVE Decided(Tables', m) /\ Settled(Tables', m)
  <2>1. CASE ~over[m]
    <3>1. m = o /\ b /\ winner'[m] = Author[s] /\ k = TotalTests
      BY <2>1, <1>6
    <3>2. s \in Done(Tables', m, Author[s])
      BY <3>1, <1>3 DEF Done, Tables
    <3>3. \A r \in Submissions : score'[r] \in Nat /\ score'[r] <= score'[s]
      BY <3>1, <1>0, <1>1, <1>3 DEF TablesType, Tables
    <3>4. Settled(Tables', m)
      <4>1. Tables'.winner[m] = Author[s] /\ Tables'.passed[s] /\ Author[s] # NoPlayer
        BY <1>0, <1>3, <3>1 DEF Tables
      <4> HIDE DEF o
      <4>2. QED
        BY <3>2, <4>1 DEF Settled
    <3>5. Decided(Tables', m)
      BY <1>0, <1>3, <1>4, <3>1, <3>2, <3>3 DEF Decided, Tables
    <3>6. QED
      BY <3>4, <3>5
  <2>2. CASE over[m] /\ m # o
    <3>1. Decided(Tables, m) /\ Settled(Tables, m) /\ winner'[m] = winner[m]
      BY <2>2 DEF Good, Tables
    <3>2. \A p : Done(Tables', m, p) = Done(Tables, m, p)
      BY <1>2, <2>2 DEF Done, Tables
    <3>3. \A r \in Submissions : MatchOf[r] = m =>
            stage'[r] = stage[r] /\ score'[r] = score[r] /\ passed'[r] = passed[r]
      BY <1>2, <2>2
    <3>4. \A p : \A r \in Done(Tables, m, p) : r \in Submissions /\ MatchOf[r] = m
      BY DEF Done
    <3>5. Settled(Tables', m)
      BY <3>1, <3>2, <3>3, <3>4 DEF Settled, Tables
    <3>6. Decided(Tables', m)
      BY <3>1, <3>2, <3>3, <3>4 DEF Decided, Tables
    <3>7. QED
      BY <3>5, <3>6
  <2>3. CASE over[m] /\ m = o
    <3>1. Settled(Tables, m) /\ winner'[m] = winner[m]
      BY <2>3 DEF Good, Tables
    <3>2. PICK x \in Done(Tables, m, winner[m]) : passed[x]
      BY <2>3, <3>1 DEF Settled, Tables
    <3>3. winner[m] # NoPlayer
      BY <2>3, <3>1 DEF Settled, Tables
    <3>4. x \in Submissions /\ x # s /\ MatchOf[x] = m /\ Author[x] = winner[m]
          /\ stage[x] = "judged"
      BY <1>4, <3>2 DEF Done, Tables
    <3>5. x \in Done(Tables', m, winner'[m]) /\ passed'[x]
      BY <1>2, <3>1, <3>2, <3>4 DEF Done, Tables
    <3>6. score'[x] = TotalTests
      BY <1>2, <3>2, <3>4 DEF Good, Tables
    <3>7. \A r \in Submissions : score'[r] \in Nat /\ score'[r] <= TotalTests
      BY <1>0, <1>1 DEF TablesType, Tables
    <3>8. winner'[m] \in Pair(m)
      BY <3>1, <3>4 DEF Good, Tables
    <3>9. Decided(Tables', m)
      BY <1>0, <3>1, <3>3, <3>5, <3>6, <3>7, <3>8 DEF Decided, Tables
    <3>10. Settled(Tables', m)
      BY <3>1, <3>3, <3>5 DEF Settled, Tables
    <3>11. QED
      BY <3>9, <3>10
  <2>4. QED
    BY <2>1, <2>2, <2>3
<1>7. ASSUME NEW r \in Submissions
      PROVE  /\ stage'[r] # "judged" => score'[r] = 0 /\ ~passed'[r]
             /\ stage'[r] # "absent" => Author[r] \in Pair(MatchOf[r])
             /\ passed'[r] => over'[MatchOf[r]] /\ score'[r] = TotalTests
  <2>1. CASE r = s
    BY <2>1, <1>3, <1>4
  <2>2. CASE r # s
    <3>1. over[MatchOf[r]] => over'[MatchOf[r]]
      BY SnapshotAssumption DEF SnapshotAssumption
    <3>2. QED
      BY <2>2, <1>2, <3>1 DEF Good, Tables
  <2>3. QED
    BY <2>1, <2>2
<1>8. Good(Tables)'
  BY <1>1, <1>6, <1>7 DEF Good, Tables
<1>9. QED
  BY <1>5, <1>8

LEMMA GiveUpTables ==
    ASSUME Good(Tables), GiveUp, made' = made
    PROVE  Good(Tables)' /\ Grown(Tables, Tables')
<1>1. PICK S \in SUBSET {s \in Submissions : stage[s] = "open"} :
        stage' = [s \in Submissions |-> IF s \in S THEN "judged" ELSE stage[s]]
  BY DEF GiveUp
<1>2. UNCHANGED <<passed, score, over, winner, made>>
  BY DEF GiveUp
<1>3. \A s \in Submissions : /\ stage'[s] = stage[s] \/ stage'[s] = "judged"
                             /\ s \notin S => stage'[s] = stage[s]
                             /\ s \in S => stage[s] = "open" /\ stage'[s] = "judged"
  BY <1>1
<1>4. Tables' \in TablesType
  BY <1>1, <1>2 DEF Good, TablesType, Tables
<1>5. Grown(Tables, Tables')
  BY <1>2, <1>3 DEF Grown, Tables
<1>6. \A m \in Matches : \A p :
        /\ Done(Tables, m, p) \subseteq Done(Tables', m, p)
        /\ \A s \in Done(Tables', m, p) \ Done(Tables, m, p) : score[s] = 0
  BY <1>3 DEF Done, Good, Tables
<1>7. ASSUME NEW m \in Matches, over[m] PROVE Decided(Tables', m) /\ Settled(Tables', m)
  <2>1. Decided(Tables, m) /\ Settled(Tables, m)
    BY <1>7 DEF Good, Tables
  <2>2. Settled(Tables', m)
    BY <1>2, <1>3, <1>6, <2>1 DEF Settled, Tables
  <2>3. Decided(Tables', m)
    BY <1>2, <1>6, <2>1 DEF Decided, Tables
  <2>4. QED
    BY <2>2, <2>3
<1>8. Good(Tables)'
  BY <1>2, <1>3, <1>4, <1>7 DEF Good, Tables
<1>9. QED
  BY <1>5, <1>8

\* Close: the better score is that of a submission that stands.
LEMMA CloseTables ==
    ASSUME Good(Tables), Close, made' = made
    PROVE  Good(Tables)' /\ Grown(Tables, Tables')
<1>1. PICK C \in SUBSET Matches :
        /\ \A m \in C : /\ ~over[m]
                        /\ \A s \in Submissions : MatchOf[s] = m => stage[s] # "open"
        /\ over' = [m \in Matches |-> m \in C \/ over[m]]
        /\ winner' = [m \in Matches |-> IF m \in C THEN Best(m) ELSE winner[m]]
  BY DEF Close
<1>2. UNCHANGED <<stage, passed, score, made>>
  BY DEF Close
<1>3. \A m \in Matches : Best(m) \in Players \cup {NoPlayer}
  BY PairFacts DEF Best
<1>4. Tables' \in TablesType
  BY <1>1, <1>2, <1>3 DEF Good, TablesType, Tables
<1>5. \A m \in Matches : over[m] => m \notin C
  BY <1>1
<1>6. Grown(Tables, Tables')
  BY <1>1, <1>2, <1>5 DEF Grown, Tables
<1>7. \A m \in Matches : \A p : Done(Tables', m, p) = Judged(m, p)
                               /\ Done(Tables, m, p) = Judged(m, p)
  BY <1>2 DEF Done, Judged, Tables
<1>8. ASSUME NEW m \in Matches, over'[m] PROVE Decided(Tables', m) /\ Settled(Tables', m)
  <2>1. CASE m \notin C
    <3>1. over[m] /\ winner'[m] = winner[m]
      BY <1>1, <1>8, <2>1
    <3>2. Decided(Tables, m) /\ Settled(Tables, m)
      BY <3>1 DEF Good, Tables
    <3>3. Settled(Tables', m)
      BY <1>2, <1>7, <3>1, <3>2 DEF Settled, Tables
    <3>4. Decided(Tables', m)
      BY <1>2, <1>7, <3>1, <3>2 DEF Decided, Tables
    <3>5. QED
      BY <3>3, <3>4
  <2>2. CASE m \in C
    <3>1. winner'[m] = Best(m)
      BY <1>1, <2>2
    <3>2. Settled(Tables', m)
      BY <1>1, <1>2, <2>2 DEF Settled, Tables
    <3>3. PICK p, q \in Players :
            /\ p # q /\ Pair(m) = {p, q}
            /\ p = MatchPlayers[m][1] /\ q = MatchPlayers[m][2]
      BY PairFacts
    <3>4. \A s \in Submissions : score[s] \in Nat
      BY SnapshotAssumption DEF Good, TablesType, Tables, SnapshotAssumption
    <3>5. ASSUME NEW x \in {p, q}, NEW y \in {p, q}, x # y, Outscores(m, x, y),
                 winner'[m] = x
          PROVE  Decided(Tables', m)
      <4>1. PICK s \in Judged(m, x) :
              score[s] > 0 /\ \A t \in Judged(m, y) : score[s] > score[t]
        BY <3>5 DEF Outscores
      <4>2. ASSUME NEW r \in Submissions, MatchOf[r] = m, Author[r] # x
            PROVE  score[r] <= score[s]
        <5>1. CASE stage[r] = "judged"
          <6>1. Author[r] = y
            BY <3>3, <3>5, <4>2, <5>1 DEF Good, Tables
          <6>2. r \in Judged(m, y)
            BY <4>2, <5>1, <6>1 DEF Judged
          <6>3. s \in Submissions
            BY DEF Judged
          <6>4. QED
            BY <3>4, <4>1, <6>2, <6>3
        <5>2. CASE stage[r] # "judged"
          <6>1. score[r] = 0 /\ s \in Submissions
            BY <5>2 DEF Good, Judged, Tables
          <6>2. QED
            BY <3>4, <6>1
        <5>3. QED
          BY <5>1, <5>2
      <4>3. x \in Pair(m) /\ x # NoPlayer
        BY <3>3, PairFacts
      <4>4. QED
        BY <1>2, <1>7, <3>5, <4>1, <4>2, <4>3 DEF Decided, Tables
    <3>6. ASSUME ~Outscores(m, p, q), ~Outscores(m, q, p), winner'[m] = NoPlayer
          PROVE  Decided(Tables', m)
      <4>1. \A x, y \in Pair(m) : x # y => ~Outscores(m, x, y)
        BY <3>3, <3>6
      <4>2. ASSUME NEW x \in Pair(m), NEW y \in Pair(m), x # y, NEW s \in Judged(m, x)
            PROVE  score[s] = 0 \/ \E r \in Judged(m, y) : score[r] >= score[s]
        <5>1. score[s] > 0 => \E r \in Judged(m, y) : ~(score[s] > score[r])
          BY <4>1, <4>2 DEF Outscores
        <5>2. \A r \in Judged(m, y) \cup {s} : score[r] \in Nat
          BY <3>4 DEF Judged
        <5>3. QED
          BY <5>1, <5>2
      <4>3. QED
        BY <1>2, <1>7, <3>6, <4>2 DEF Decided, Tables
    <3>7. Decided(Tables', m)
      <4>1. \/ Outscores(m, p, q) /\ winner'[m] = p
            \/ Outscores(m, q, p) /\ winner'[m] = q
            \/ ~Outscores(m, p, q) /\ ~Outscores(m, q, p) /\ winner'[m] = NoPlayer
        BY <3>1, <3>3 DEF Best
      <4>2. QED
        BY <3>3, <3>5, <3>6, <4>1
    <3>8. QED
      BY <3>2, <3>7
  <2>3. QED
    BY <2>1, <2>2
<1>9. \A s \in Submissions : passed[s] => over'[MatchOf[s]]
  BY <1>1, SnapshotAssumption DEF Good, Tables, SnapshotAssumption
<1>10. Good(Tables)'
  BY <1>2, <1>4, <1>8, <1>9 DEF Good, Tables
<1>11. QED
  BY <1>6, <1>10

\* Steps that leave what has been submitted and decided alone.
LEMMA OtherTables ==
    ASSUME Good(Tables), UNCHANGED <<stage, passed, score, over, winner>>,
           made' \subseteq Matches
    PROVE  Good(Tables)' /\ Grown(Tables, Tables')
<1>1. Tables' \in TablesType
  BY DEF Good, TablesType, Tables
<1>2. \A m \in Matches : \A p : Done(Tables', m, p) = Done(Tables, m, p)
  BY DEF Done, Tables
<1>3. \A m \in Matches : Decided(Tables, m) => Decided(Tables', m)
  BY <1>2 DEF Decided, Tables
<1>4. \A m \in Matches : Settled(Tables, m) => Settled(Tables', m)
  BY <1>2 DEF Settled, Tables
<1>5. QED
  BY <1>1, <1>3, <1>4 DEF Good, Grown, Tables

\* Every writer takes the tables from a consistent state to a later one.
LEMMA WriterTables ==
    ASSUME Good(Tables), Write \/ \E m \in Matches : CreateMatch(m)
    PROVE  Good(Tables)' /\ Grown(Tables, Tables')
<1>0. /\ MatchOf \in [Submissions -> Matches] /\ Author \in [Submissions -> Players]
      /\ TotalTests \in Nat
  BY SnapshotAssumption DEF SnapshotAssumption
<1>1. stage \in [Submissions -> {"absent", "open", "judged"}] /\ made \subseteq Matches
      /\ passed \in [Submissions -> BOOLEAN]
      /\ over \in [Matches -> BOOLEAN] /\ winner \in [Matches -> Players \cup {NoPlayer}]
  BY DEF Good, TablesType, Tables
<1>2. ASSUME NEW s \in Submissions, Submit(s), made' = made
      PROVE  Good(Tables)' /\ Grown(Tables, Tables')
  BY <1>2, SubmitTables
<1>3. ASSUME NEW s \in Submissions, Pass(s), made' = made
      PROVE  Good(Tables)' /\ Grown(Tables, Tables')
  <2>1. /\ stage[s] = "open" /\ stage' = [stage EXCEPT ![s] = "judged"]
        /\ passed' = [passed EXCEPT ![s] = TRUE]
        /\ score' = [score EXCEPT ![s] = TotalTests]
        /\ over' = [over EXCEPT ![MatchOf[s]] = TRUE]
        /\ winner' = [winner EXCEPT ![MatchOf[s]] =
                        IF over[MatchOf[s]] THEN winner[MatchOf[s]] ELSE Author[s]]
    BY <1>3 DEF Pass
  <2>2. /\ over' \in [Matches -> BOOLEAN]
        /\ winner' \in [Matches -> Players \cup {NoPlayer}]
        /\ over'[MatchOf[s]]
        /\ \A m \in Matches : m # MatchOf[s] \/ over[m] =>
               over'[m] = over[m] /\ winner'[m] = winner[m]
        /\ ~over[MatchOf[s]] => winner'[MatchOf[s]] = Author[s]
    BY <1>0, <1>1, <2>1
  <2>3. TotalTests \in 0 .. TotalTests
    BY <1>0
  <2> HIDE <1>3
  <2>4. QED
    BY <1>3, <2>1, <2>2, <2>3, VerdictTables
<1>4. ASSUME NEW s \in Submissions, Fail(s), made' = made
      PROVE  Good(Tables)' /\ Grown(Tables, Tables')
  <2>1. PICK k \in 0 .. TotalTests : score' = [score EXCEPT ![s] = k]
    BY <1>4 DEF Fail
  <2>2. stage[s] = "open" /\ stage' = [stage EXCEPT ![s] = "judged"]
        /\ passed' = passed /\ over' = over /\ winner' = winner
    BY <1>4 DEF Fail
  <2>3. ~passed[s]
    BY <2>2 DEF Good, Tables
  <2>4. passed' = [passed EXCEPT ![s] = FALSE]
    BY <1>1, <2>2, <2>3
  <2>5. QED
    BY <1>1, <1>4, <2>1, <2>2, <2>4, VerdictTables
<1>5. CASE Write
  <2>1. made' = made
    BY <1>5 DEF Write
  <2>2. CASE \E s \in Submissions : Submit(s) \/ Pass(s) \/ Fail(s)
    BY <1>2, <1>3, <1>4, <2>1, <2>2
  <2>3. CASE GiveUp
    BY <2>1, <2>3, GiveUpTables
  <2>4. CASE \E m \in made : DeadlinePassed(m)
    <3>1. UNCHANGED <<stage, passed, score, over, winner>>
      BY <2>4 DEF DeadlinePassed
    <3>2. QED
      BY <1>1, <2>1, <3>1, OtherTables
  <2>5. CASE Close
    BY <2>1, <2>5, CloseTables
  <2>6. QED
    BY <1>5, <2>2, <2>3, <2>4, <2>5 DEF Write
<1>6. CASE \E m \in Matches : CreateMatch(m)
  <2>1. UNCHANGED <<stage, passed, score, over, winner>> /\ made' \subseteq Matches
    BY <1>1, <1>6 DEF CreateMatch, duelVars
  <2>2. QED
    BY <2>1, OtherTables
<1>7. QED
  BY <1>5, <1>6

-----------------------------------------------------------------------------
(* The order of created_at.                                                *)

BegunOK ==
    /\ begun \in Seq(Matches \cup Submissions)
    /\ \A i, j \in 1 .. Len(begun) : begun[i] = begun[j] => i = j

LEMMA CreatedFacts ==
    ASSUME BegunOK
    PROVE  /\ \A x \in Range(begun) : Created(x) \in 1 .. Len(begun)
                                      /\ begun[Created(x)] = x
           /\ \A x, y \in Range(begun) : Created(x) = Created(y) => x = y
<1>1. Range(begun) = {begun[i] : i \in 1 .. Len(begun)}
  BY DEF Range, BegunOK
<1>2. ASSUME NEW x \in Range(begun)
      PROVE  Created(x) \in 1 .. Len(begun) /\ begun[Created(x)] = x
  <2>1. \E i \in 1 .. Len(begun) : begun[i] = x
    BY <1>1
  <2>2. QED
    BY <2>1 DEF Created
<1>3. QED
  BY <1>2

\* A transaction that starts now is the newest and moves nothing.
LEMMA BeginKeepsOrder ==
    ASSUME BegunOK, NEW x \in Matches \cup Submissions, x \notin Range(begun),
           begun' = Append(begun, x)
    PROVE  /\ BegunOK'
           /\ Range(begun) \subseteq Range(begun)'
           /\ \A y \in Range(begun) : Created(y)' = Created(y)
<1>1. Len(begun) \in Nat /\ begun \in Seq(Matches \cup Submissions)
  BY DEF BegunOK
<1>2. /\ begun' \in Seq(Matches \cup Submissions)
      /\ Len(begun') = Len(begun) + 1
      /\ \A i \in 1 .. Len(begun) : begun'[i] = begun[i]
      /\ begun'[Len(begun) + 1] = x
  BY <1>1
<1>3. /\ Range(begun) = {begun[i] : i \in 1 .. Len(begun)}
      /\ Range(begun)' = {begun'[i] : i \in 1 .. Len(begun')}
  BY <1>1, <1>2 DEF Range
<1>4. BegunOK'
  <2>1. \A i \in 1 .. Len(begun) : begun'[i] # x
    BY <1>2, <1>3
  <2>2. QED
    BY <1>1, <1>2, <2>1 DEF BegunOK
<1>5. Range(begun) \subseteq Range(begun)'
  BY <1>1, <1>2, <1>3
<1>6. ASSUME NEW y \in Range(begun) PROVE Created(y)' = Created(y)
  <2>1. Created(y) \in 1 .. Len(begun) /\ begun[Created(y)] = y
    BY CreatedFacts
  <2>2. Created(y)' \in 1 .. Len(begun') /\ begun'[Created(y)'] = y
    <3>1. \E i \in 1 .. Len(begun') : begun'[i] = y
      BY <1>3, <1>5
    <3>2. QED
      BY <3>1 DEF Created
  <2>3. begun'[Created(y)] = y /\ Created(y) \in 1 .. Len(begun')
    BY <1>1, <1>2, <2>1
  <2>4. QED
    BY <1>4, <2>2, <2>3 DEF BegunOK
<1>7. QED
  BY <1>4, <1>5, <1>6

\* How many rows are newer than x.
Rank(rows, x) == Cardinality({y \in rows : Created(y) > Created(x)})

LEMMA RankFacts ==
    ASSUME BegunOK, NEW rows \in SUBSET Range(begun)
    PROVE  /\ IsFiniteSet(rows)
           /\ \A x \in rows : Rank(rows, x) \in Nat /\ Rank(rows, x) < Cardinality(rows)
           /\ \A x, y \in rows : Created(x) > Created(y) => Rank(rows, x) < Rank(rows, y)
<1>1. Len(begun) \in Nat
  BY DEF BegunOK
<1>2. IsFiniteSet(rows)
  <2>1. IsFiniteSet(1 .. Len(begun))
    BY <1>1, FS_Interval
  <2>2. begun \in Surjection(1 .. Len(begun), Range(begun))
    BY DEF Surjection, Range, BegunOK
  <2>3. IsFiniteSet(Range(begun))
    BY <2>1, <2>2, FS_Surjection
  <2>4. QED
    BY <2>3, FS_Subset
<1> DEFINE newer(x) == {y \in rows : Created(y) > Created(x)}
<1>3. \A x \in rows : Created(x) \in Nat
  BY CreatedFacts, <1>1
<1>4. ASSUME NEW x \in rows, NEW T \in SUBSET rows, NEW z \in T, newer(x) \subseteq T \ {z}
      PROVE  /\ Cardinality(newer(x)) \in Nat
             /\ Cardinality(newer(x)) < Cardinality(T)
  <2>1. IsFiniteSet(T)
    BY <1>2, <1>4, FS_Subset
  <2>2. IsFiniteSet(newer(x)) /\ Cardinality(newer(x)) <= Cardinality(T)
        /\ (Cardinality(T) = Cardinality(newer(x)) => T = newer(x))
    BY <1>4, <2>1, FS_Subset
  <2>3. T # newer(x)
    BY <1>4
  <2>4. Cardinality(T) \in Nat /\ Cardinality(newer(x)) \in Nat
    BY <2>1, <2>2, FS_CardinalityType
  <2>5. QED
    BY <2>2, <2>3, <2>4
<1>5. ASSUME NEW x \in rows
      PROVE  Rank(rows, x) \in Nat /\ Rank(rows, x) < Cardinality(rows)
  <2>1. newer(x) \subseteq rows \ {x}
    BY <1>3
  <2>2. QED
    BY <1>4, <2>1 DEF Rank
<1>6. ASSUME NEW x \in rows, NEW y \in rows, Created(x) > Created(y)
      PROVE  Rank(rows, x) < Rank(rows, y)
  <2>1. newer(x) \subseteq newer(y) \ {x} /\ x \in newer(y) /\ newer(y) \subseteq rows
    BY <1>3, <1>6
  <2>2. QED
    BY <1>4, <2>1 DEF Rank
<1>7. QED
  BY <1>2, <1>5, <1>6

\* ORDER BY created_at DESC LIMIT n: the n newest rows, or all of them.
LEMMA NewestFacts ==
    ASSUME BegunOK, NEW rows \in SUBSET Range(begun), NEW n \in Nat
    PROVE  /\ Newest(rows, n) \subseteq rows
           /\ Cardinality(Newest(rows, n)) =
                IF Cardinality(rows) <= n THEN Cardinality(rows) ELSE n
           /\ Cardinality(rows) <= n => Newest(rows, n) = rows
           /\ \A x \in Newest(rows, n), y \in rows \ Newest(rows, n) :
                Created(x) > Created(y)
<1> DEFINE N == Cardinality(rows)
           k == IF N <= n THEN N ELSE n
           top == Newest(rows, n)
           f == [x \in rows |-> Rank(rows, x)]
           g == [x \in top |-> Rank(rows, x)]
<1>0. N \in Nat /\ IsFiniteSet(rows)
  BY RankFacts, FS_CardinalityType
<1>1. /\ \A x \in rows : Rank(rows, x) \in Nat /\ Rank(rows, x) < N
      /\ \A x, y \in rows : Created(x) > Created(y) => Rank(rows, x) < Rank(rows, y)
  BY RankFacts
<1>2. top = {x \in rows : Rank(rows, x) < n}
  BY DEF Newest, Rank
<1>3. \A x \in rows : Created(x) \in Nat
  BY CreatedFacts DEF BegunOK
<1>4. \A x, y \in rows : x # y => Created(x) # Created(y)
  BY CreatedFacts
<1>5. \A x, y \in rows : x # y => Rank(rows, x) # Rank(rows, y)
  <2>1. SUFFICES ASSUME NEW x \in rows, NEW y \in rows, x # y
                 PROVE  Rank(rows, x) # Rank(rows, y)
    OBVIOUS
  <2>2. Created(x) > Created(y) \/ Created(y) > Created(x)
    BY <1>3, <1>4, <2>1
  <2>3. QED
    BY <1>1, <2>2
<1> HIDE DEF N, top
<1>6. f \in Surjection(rows, 0 .. N - 1)
  <2>1. f \in [rows -> 0 .. N - 1]
    BY <1>0, <1>1
  <2>2. f \in Injection(rows, 0 .. N - 1)
    BY <1>5, <2>1 DEF Injection, IsInjective
  <2>3. IsFiniteSet(0 .. N - 1) /\ Cardinality(0 .. N - 1) = N
    BY <1>0, FS_Interval
  <2>4. QED
    BY <2>2, <2>3, FS_Injection DEF N
<1>7. g \in Bijection(top, 0 .. k - 1)
  <2>1. \A x \in top : x \in rows /\ Rank(rows, x) \in 0 .. k - 1
    BY <1>0, <1>1, <1>2
  <2>2. g \in Injection(top, 0 .. k - 1)
    BY <1>5, <2>1 DEF Injection, IsInjective
  <2>3. ASSUME NEW i \in 0 .. k - 1 PROVE \E x \in top : g[x] = i
    <3>1. i \in 0 .. N - 1 /\ i < n
      BY <1>0, <2>3
    <3>2. PICK x \in rows : f[x] = i
      BY <1>6, <3>1 DEF Surjection
    <3>3. QED
      BY <1>2, <3>1, <3>2
  <2>4. QED
    BY <2>2, <2>3 DEF Bijection, Injection, Surjection
<1>8. top \subseteq rows /\ IsFiniteSet(top)
  BY <1>0, <1>2, FS_Subset
<1>9. Cardinality(top) = k
  <2>1. k \in Nat
    BY <1>0
  <2>2. \A j \in Nat : Cardinality(0 .. j - 1) = j
    <3>1. TAKE j \in Nat
    <3>2. 0 \in Int /\ j - 1 \in Int /\ (0 > j - 1 <=> j = 0)
      OBVIOUS
    <3>3. Cardinality(0 .. j - 1) = IF 0 > j - 1 THEN 0 ELSE (j - 1) - 0 + 1
      BY <3>2, FS_Interval
    <3>4. QED
      BY <3>3
  <2>3. ExistsBijection(top, 0 .. k - 1)
    BY <1>7 DEF ExistsBijection
  <2>4. Cardinality(0 .. k - 1) = k
    BY <2>1, <2>2
  <2>5. Cardinality(0 .. k - 1) = Cardinality(top)
    BY <1>8, <2>3, FS_Bijection
  <2>6. QED
    BY <2>4, <2>5
<1>10. N <= n => top = rows
  BY <1>0, <1>8, <1>9, FS_Subset DEF N
<1>11. ASSUME NEW x \in top, NEW y \in rows \ top PROVE Created(x) > Created(y)
  <2>1. x \in rows /\ y \in rows /\ Rank(rows, x) < Rank(rows, y)
    BY <1>1, <1>2
  <2>2. ~(Created(y) > Created(x)) /\ Created(x) # Created(y)
    BY <1>1, <1>4, <2>1
  <2>3. QED
    BY <1>3, <2>1, <2>2
<1>12. QED
  BY <1>8, <1>9, <1>10, <1>11 DEF N, top

-----------------------------------------------------------------------------
(* What a snapshot says.                                                   *)

\* The largest of some test counts exists.
LEMMA MaxIsLargest ==
    ASSUME NEW n \in Nat, NEW S \in SUBSET (0 .. n), S # {}
    PROVE  Max(S) \in S /\ \A y \in S : y <= Max(S)
<1> DEFINE T == {n - y : y \in S}
<1>1. T \subseteq Nat /\ T # {}
  <2>1. \A y \in S : n - y \in Nat
    OBVIOUS
  <2>2. PICK y \in S : TRUE
    OBVIOUS
  <2>3. n - y \in T
    BY <2>2
  <2>4. QED
    BY <2>1, <2>3
<1>2. PICK d \in T : \A e \in T : ~(<<e, d>> \in OpToRel(<, Nat))
  <2> HIDE DEF T
  <2>1. QED
    BY <1>1, NatLessThanWellFounded, WFMin, Zenon
<1>3. \A e \in T : ~(e < d)
  BY <1>1, <1>2 DEF OpToRel
<1>4. PICK x \in S : d = n - x
  OBVIOUS
<1>5. \A y \in S : x >= y
  BY <1>3, <1>4
<1>6. QED
  BY <1>5 DEF Max

\* The best result of the second query is one of the judged, or nothing.
LEMMA BestFacts ==
    ASSUME NEW t, Good(t), NEW m, NEW p
    PROVE  /\ BestTests(t, m, p) \in 0 .. TotalTests
           /\ \A s \in Done(t, m, p) : t.score[s] <= BestTests(t, m, p)
           /\ BestTests(t, m, p) = 0
                \/ \E s \in Done(t, m, p) : t.score[s] = BestTests(t, m, p)
<1> DEFINE S == {0} \cup {t.score[s] : s \in Done(t, m, p)}
           b == Max(S)
<1>1. TotalTests \in Nat
  BY SnapshotAssumption DEF SnapshotAssumption
<1>2. S \in SUBSET (0 .. TotalTests) /\ S # {}
  BY <1>1 DEF Good, TablesType, Done
<1>3. b \in S /\ \A y \in S : y <= b
  <2> HIDE DEF S
  <2>1. QED
    BY <1>1, <1>2, MaxIsLargest
<1>4. BestTests(t, m, p) = b
  BY DEF BestTests, Done
<1> HIDE DEF b
<1>5. b \in 0 .. TotalTests
  BY <1>2, <1>3
<1>6. \A s \in Done(t, m, p) : t.score[s] <= b
  BY <1>3
<1>7. b = 0 \/ \E s \in Done(t, m, p) : t.score[s] = b
  BY <1>3
<1>8. QED
  BY <1>4, <1>5, <1>6, <1>7

\* What was accepted has begun.
InBegun(t) == \A s \in Submissions : t.stage[s] # "absent" => s \in Range(begun)

Listed(t, m, u) == ShownOf(OwnRows(t, m, u))

LineOf(t, s) ==
    [id |-> s, stage |-> t.stage[s], passed |-> t.passed[s], score |-> t.score[s]]

\* Two queries with LIMIT, one after the other: the newest MaxShown rows, and
\* whether there are more.
LEMMA ListedFacts ==
    ASSUME BegunOK, NEW t, InBegun(t), NEW m, NEW u
    PROVE  LET own == Own(t, m, u)
               top == Listed(t, m, u)
           IN  /\ IsFiniteSet(own)
               /\ top \subseteq own
               /\ Cardinality(OwnRows(t, m, u)) > MaxShown
                    <=> Cardinality(own) > MaxShown
               /\ Cardinality(top) =
                    IF Cardinality(own) <= MaxShown THEN Cardinality(own) ELSE MaxShown
               /\ Cardinality(own) <= MaxShown => top = own
               /\ \A x \in top, y \in own \ top : Created(x) > Created(y)
<1> DEFINE own == Own(t, m, u)
           rows == OwnRows(t, m, u)
           top == Listed(t, m, u)
<1>1. own \in SUBSET Range(begun)
  BY DEF Own, InBegun
<1>2. IsFiniteSet(own) /\ Cardinality(own) \in Nat
  BY <1>1, RankFacts, FS_CardinalityType
<1>3. MaxShown \in Nat /\ Limit \in Nat /\ Limit = MaxShown + 1
  BY SnapshotAssumption DEF SnapshotAssumption, Limit
<1>4. /\ rows \subseteq own
      /\ Cardinality(rows) = IF Cardinality(own) <= Limit THEN Cardinality(own) ELSE Limit
      /\ Cardinality(own) <= Limit => rows = own
      /\ \A x \in rows, y \in own \ rows : Created(x) > Created(y)
  BY <1>1, <1>3, NewestFacts DEF OwnRows
<1>5. /\ top \subseteq rows
      /\ Cardinality(top) = IF Cardinality(rows) <= MaxShown THEN Cardinality(rows)
                            ELSE MaxShown
      /\ Cardinality(rows) <= MaxShown => top = rows
      /\ \A x \in top, y \in rows \ top : Created(x) > Created(y)
  <2>1. rows \in SUBSET Range(begun)
    BY <1>1, <1>4
  <2>2. QED
    BY <1>3, <2>1, NewestFacts DEF Listed, ShownOf
<1> HIDE DEF own, rows, top
<1>6. Cardinality(rows) > MaxShown <=> Cardinality(own) > MaxShown
  BY <1>2, <1>3, <1>4
<1>7. Cardinality(top) = IF Cardinality(own) <= MaxShown THEN Cardinality(own) ELSE MaxShown
  BY <1>2, <1>3, <1>4, <1>5
<1>8. Cardinality(own) <= MaxShown => top = own
  BY <1>2, <1>3, <1>4, <1>5
<1>9. top \subseteq own /\ \A x \in top, y \in own \ top : Created(x) > Created(y)
  BY <1>4, <1>5
<1>10. QED
  BY <1>2, <1>6, <1>7, <1>8, <1>9 DEF own, rows, top

\* One line for each submission.
LEMMA LinesCount ==
    ASSUME NEW t, NEW S, IsFiniteSet(S)
    PROVE  Cardinality({LineOf(t, s) : s \in S}) = Cardinality(S)
<1> DEFINE L == {LineOf(t, s) : s \in S}
           f == [s \in S |-> LineOf(t, s)]
<1>1. \A s \in S : LineOf(t, s).id = s
  BY DEF LineOf
<1>2. \A r, s \in S : LineOf(t, r) = LineOf(t, s) => r = s
  BY <1>1
<1>3. f \in [S -> L] /\ (\A r, s \in S : f[r] = f[s] => r = s)
      /\ \A l \in L : \E s \in S : f[s] = l
  BY <1>2
<1>4. f \in Bijection(S, L)
  BY <1>3 DEF Bijection, Injection, Surjection, IsInjective
<1>5. ExistsBijection(S, L)
  BY <1>4 DEF ExistsBijection
<1>6. QED
  BY <1>5, FS_Bijection

\* Snapshot v is what tables t say to user u.
Shows(u, t, v) ==
    /\ v.match \in Matches /\ u \in Pair(v.match)
    /\ v.over = t.over[v.match]
    /\ v.outcome = Outcome(t, u, v.match)
    /\ v.best = [p \in Players |-> IF p \in Pair(v.match) THEN BestTests(t, v.match, p)
                                   ELSE 0]
    /\ v.lines = {LineOf(t, s) : s \in Listed(t, v.match, u)}
    /\ v.truncated = (Cardinality(OwnRows(t, v.match, u)) > MaxShown)

LEMMA OpponentFacts ==
    ASSUME NEW m \in Matches, NEW u \in Pair(m)
    PROVE  /\ Opponent(m, u) \in Pair(m) /\ Opponent(m, u) # u
           /\ \A p \in Pair(m) : p = u \/ p = Opponent(m, u)
<1>1. PICK p, q \in Players : p # q /\ Pair(m) = {p, q}
  BY PairFacts
<1>2. \E x \in Pair(m) : x # u
  BY <1>1
<1>3. Opponent(m, u) \in Pair(m) /\ Opponent(m, u) # u
  BY <1>2 DEF Opponent
<1>4. QED
  BY <1>1, <1>3

\* What the tables say at one moment explains itself.
LEMMA ShowsExplains ==
    ASSUME BegunOK, NEW t, Good(t), InBegun(t), NEW u, NEW v, Shows(u, t, v)
    PROVE  Explained(u, v)
<1> DEFINE m == v.match
           o == Opponent(m, u)
           own == BestTests(t, m, u)
           other == BestTests(t, m, o)
<1>1. m \in Matches /\ u \in Pair(m) /\ o \in Pair(m) /\ o # u
      /\ (\A p \in Pair(m) : p = u \/ p = o)
  BY OpponentFacts DEF Shows
<1>2. v.best[u] = own /\ v.best[o] = other
  BY <1>1, PairFacts DEF Shows
<1>3. TotalTests \in Nat /\ t \in TablesType
  BY SnapshotAssumption DEF SnapshotAssumption, Good
<1>4. /\ own \in Nat /\ other \in Nat
      /\ \A s \in Done(t, m, u) : t.score[s] \in Nat /\ t.score[s] <= own
      /\ \A s \in Done(t, m, o) : t.score[s] \in Nat /\ t.score[s] <= other
      /\ own = 0 \/ \E s \in Done(t, m, u) : t.score[s] = own
      /\ other = 0 \/ \E s \in Done(t, m, o) : t.score[s] = other
  <2>1. \A p : \A s \in Done(t, m, p) : t.score[s] \in 0 .. TotalTests
    BY <1>3 DEF TablesType, Done
  <2>2. QED
    BY <1>3, <2>1, BestFacts
<1>5. t.over[m] => Decided(t, m)
  BY <1>1 DEF Good
<1>6. v.outcome = Outcome(t, u, m)
  BY DEF Shows
<1>7. \A r \in Done(t, m, o) : r \in Submissions /\ MatchOf[r] = m /\ Author[r] = o
  BY DEF Done
<1>8. \A r \in Done(t, m, u) : r \in Submissions /\ MatchOf[r] = m /\ Author[r] = u
  BY DEF Done
<1>9. \A l \in v.lines : \E s \in Listed(t, m, u) :
        /\ s \in Submissions /\ MatchOf[s] = m /\ Author[s] = u
        /\ l.stage = t.stage[s] /\ l.passed = t.passed[s] /\ l.score = t.score[s]
  <2>1. Listed(t, m, u) \subseteq Own(t, m, u)
    BY ListedFacts
  <2>2. QED
    BY <2>1 DEF Shows, LineOf, Own
<1> HIDE DEF m, o, own, other
<1>10. v.outcome = "win" => own >= other /\ own > 0
  <2>1. SUFFICES ASSUME v.outcome = "win" PROVE own >= other /\ own > 0
    OBVIOUS
  <2>2. t.over[m] /\ t.winner[m] = u /\ t.winner[m] # NoPlayer
    BY <1>6, <2>1 DEF Outcome
  <2>3. PICK s \in Done(t, m, u) :
          /\ t.score[s] > 0
          /\ \A r \in Submissions : MatchOf[r] = m /\ Author[r] # u
                                      => t.score[r] <= t.score[s]
    BY <1>5, <2>2 DEF Decided
  <2>4. \A r \in Done(t, m, o) : t.score[r] <= t.score[s]
    BY <1>1, <1>7, <2>3
  <2>5. QED
    BY <1>4, <2>3, <2>4
<1>11. v.outcome = "loss" => other >= own /\ other > 0
  <2>1. SUFFICES ASSUME v.outcome = "loss" PROVE other >= own /\ other > 0
    OBVIOUS
  <2>2. t.over[m] /\ t.winner[m] # u /\ t.winner[m] # NoPlayer
    BY <1>6, <2>1 DEF Outcome
  <2>3. t.winner[m] = o
    BY <1>1, <1>5, <2>2 DEF Decided
  <2>4. PICK s \in Done(t, m, o) :
          /\ t.score[s] > 0
          /\ \A r \in Submissions : MatchOf[r] = m /\ Author[r] # o
                                      => t.score[r] <= t.score[s]
    BY <1>5, <2>2, <2>3 DEF Decided
  <2>5. \A r \in Done(t, m, u) : t.score[r] <= t.score[s]
    BY <1>1, <1>8, <2>4
  <2>6. QED
    BY <1>4, <2>4, <2>5
<1>12. v.outcome = "draw" => own = other
  <2>1. SUFFICES ASSUME v.outcome = "draw" PROVE own = other
    OBVIOUS
  <2>2. t.over[m] /\ t.winner[m] = NoPlayer
    BY <1>6, <2>1 DEF Outcome
  <2>3. /\ \A s \in Done(t, m, u) : t.score[s] = 0
             \/ \E r \in Done(t, m, o) : t.score[r] >= t.score[s]
        /\ \A s \in Done(t, m, o) : t.score[s] = 0
             \/ \E r \in Done(t, m, u) : t.score[r] >= t.score[s]
    BY <1>1, <1>5, <2>2 DEF Decided
  <2>4. own <= other
    BY <1>4, <2>3
  <2>5. other <= own
    BY <1>4, <2>3
  <2>6. QED
    BY <1>4, <2>4, <2>5
<1>13. v.outcome = "none" => \A l \in v.lines : ~l.passed
  <2>1. SUFFICES ASSUME v.outcome = "none" PROVE \A l \in v.lines : ~l.passed
    OBVIOUS
  <2>2. ~t.over[m]
    BY <1>6, <2>1 DEF Outcome
  <2>3. QED
    BY <1>9, <2>2 DEF Good
<1>14. \A k \in {l.score : l \in {x \in v.lines : x.stage = "judged"}} : k <= own
  <2>1. \A l \in v.lines : l.stage = "judged" => \E s \in Done(t, m, u) : l.score = t.score[s]
    BY <1>9 DEF Done
  <2>2. QED
    BY <1>4, <2>1
<1>15. ~v.truncated /\ own > 0
         => own \in {l.score : l \in {x \in v.lines : x.stage = "judged"}}
  <2>1. SUFFICES ASSUME ~v.truncated, own > 0
                 PROVE  \E l \in v.lines : l.stage = "judged" /\ l.score = own
    OBVIOUS
  <2>2. PICK s \in Done(t, m, u) : t.score[s] = own
    BY <1>4, <2>1
  <2>3. s \in Own(t, m, u) /\ t.stage[s] = "judged"
    BY DEF Done, Own
  <2>4. Listed(t, m, u) = Own(t, m, u)
    <3>1. MaxShown \in Nat
      BY SnapshotAssumption DEF SnapshotAssumption
    <3>2. ~(Cardinality(Own(t, m, u)) > MaxShown)
      BY <2>1, ListedFacts DEF Shows, m
    <3>3. Cardinality(Own(t, m, u)) \in Nat
      BY ListedFacts, FS_CardinalityType
    <3>4. QED
      BY <3>1, <3>2, <3>3, ListedFacts
  <2>5. LineOf(t, s) \in v.lines
    BY <2>3, <2>4 DEF Shows, m
  <2>6. QED
    BY <2>2, <2>3, <2>5 DEF LineOf
<1>16. QED
  BY <1>2, <1>10, <1>11, <1>12, <1>13, <1>14, <1>15 DEF Explained, m, o

\* A later moment never shows less.
LEMMA ShowsForward ==
    ASSUME BegunOK, NEW t, NEW T, Good(t), Good(T), Grown(t, T), InBegun(T),
           NEW u, NEW v, NEW w, Shows(u, t, v), Shows(u, T, w), v.match = w.match
    PROVE  NotBefore(v, w)
<1> DEFINE m == v.match
           own == Own(t, m, u)
           Own2 == Own(T, m, u)
<1>1. m \in Matches
  BY DEF Shows
<1>2. InBegun(t)
  BY DEF InBegun, Grown
<1>3. v.over => w.over /\ w.outcome = v.outcome
  BY <1>1 DEF Shows, Outcome, Grown
<1>4. \A p \in Players : w.best[p] >= v.best[p]
  <2> TAKE p \in Players
  <2>1. /\ v.best[p] = IF p \in Pair(m) THEN BestTests(t, m, p) ELSE 0
        /\ w.best[p] = IF p \in Pair(m) THEN BestTests(T, m, p) ELSE 0
    BY DEF Shows
  <2>2. /\ BestTests(t, m, p) \in Nat /\ BestTests(T, m, p) \in Nat
        /\ BestTests(t, m, p) = 0
             \/ \E s \in Done(t, m, p) : t.score[s] = BestTests(t, m, p)
        /\ \A s \in Done(T, m, p) : T.score[s] <= BestTests(T, m, p)
    BY BestFacts, SnapshotAssumption DEF SnapshotAssumption
  <2>3. \A s \in Done(t, m, p) : s \in Done(T, m, p) /\ T.score[s] = t.score[s]
    BY DEF Done, Grown
  <2>4. BestTests(T, m, p) >= BestTests(t, m, p)
    BY <2>2, <2>3
  <2>5. QED
    BY <2>1, <2>4
<1>5. own \subseteq Own2
  BY DEF Own, Grown
<1>6. /\ Cardinality(own) \in Nat /\ Cardinality(Own2) \in Nat
      /\ Cardinality(own) <= Cardinality(Own2)
  BY <1>2, <1>5, ListedFacts, FS_Subset, FS_CardinalityType
<1>7. MaxShown \in Nat
  BY SnapshotAssumption DEF SnapshotAssumption
<1>8. v.truncated => w.truncated
  <2>1. v.truncated => Cardinality(own) > MaxShown
    BY <1>2, ListedFacts DEF Shows
  <2>2. Cardinality(Own2) > MaxShown => w.truncated
    BY ListedFacts DEF Shows
  <2>3. QED
    BY <1>6, <1>7, <2>1, <2>2
<1>9. Cardinality(w.lines) >= Cardinality(v.lines)
  <2>1. /\ IsFiniteSet(Listed(t, m, u))
        /\ Cardinality(Listed(t, m, u)) =
             IF Cardinality(own) <= MaxShown THEN Cardinality(own) ELSE MaxShown
    BY <1>2, ListedFacts, FS_Subset
  <2>2. /\ IsFiniteSet(Listed(T, m, u))
        /\ Cardinality(Listed(T, m, u)) =
             IF Cardinality(Own2) <= MaxShown THEN Cardinality(Own2) ELSE MaxShown
    BY ListedFacts, FS_Subset
  <2>3. Cardinality(v.lines) = Cardinality(Listed(t, m, u))
    BY <2>1, LinesCount DEF Shows
  <2>4. Cardinality(w.lines) = Cardinality(Listed(T, m, u))
    BY <2>2, LinesCount DEF Shows
  <2> HIDE DEF own, Own2
  <2>5. QED
    BY <1>6, <1>7, <2>1, <2>2, <2>3, <2>4
<1>10. \A k \in v.lines, l \in w.lines : k.id = l.id /\ k.stage = "judged" => l = k
  <2>1. SUFFICES ASSUME NEW k \in v.lines, NEW l \in w.lines, k.id = l.id,
                        k.stage = "judged"
                 PROVE  l = k
    OBVIOUS
  <2>2. PICK r \in Listed(t, m, u) : k = LineOf(t, r)
    BY DEF Shows
  <2>3. PICK s \in Listed(T, m, u) : l = LineOf(T, s)
    BY DEF Shows
  <2>4. r = s /\ t.stage[r] = "judged"
    BY <2>1, <2>2, <2>3 DEF LineOf
  <2>5. r \in Submissions
    BY <1>2, ListedFacts DEF Own
  <2>6. QED
    BY <2>2, <2>3, <2>4, <2>5 DEF LineOf, Grown
<1>11. QED
  BY <1>3, <1>4, <1>8, <1>9, <1>10 DEF NotBefore

\* What tables t hold of the user's submissions is listed, or older than all
\* that is.
LEMMA ShowsComplete ==
    ASSUME BegunOK, NEW t, InBegun(t), NEW u, NEW v, Shows(u, t, v),
           NEW s \in Submissions, MatchOf[s] = v.match, Author[s] = u,
           t.stage[s] # "absent"
    PROVE  LET ids == {l.id : l \in v.lines}
           IN  \/ s \in ids
               \/ /\ v.truncated
                  /\ Cardinality(ids) = MaxShown
                  /\ \A n \in ids : Created(n) > Created(s)
<1> DEFINE m == v.match
           own == Own(t, m, u)
           top == Listed(t, m, u)
           ids == {l.id : l \in v.lines}
<1>1. ids = top
  <2>1. v.lines = {LineOf(t, x) : x \in top}
    BY DEF Shows
  <2>2. \A x : LineOf(t, x).id = x
    BY DEF LineOf
  <2>3. QED
    BY <2>1, <2>2
<1>2. s \in own
  BY DEF Own
<1>3. /\ IsFiniteSet(own) /\ top \subseteq own
      /\ Cardinality(OwnRows(t, m, u)) > MaxShown <=> Cardinality(own) > MaxShown
      /\ Cardinality(top) = IF Cardinality(own) <= MaxShown THEN Cardinality(own)
                            ELSE MaxShown
      /\ Cardinality(own) <= MaxShown => top = own
      /\ \A x \in top, y \in own \ top : Created(x) > Created(y)
  BY ListedFacts
<1> HIDE DEF own, top, ids
<1>4. Cardinality(own) \in Nat /\ MaxShown \in Nat
  BY <1>3, FS_CardinalityType, SnapshotAssumption DEF SnapshotAssumption
<1>5. CASE s \in top
  BY <1>1, <1>5 DEF ids
<1>6. CASE s \notin top
  <2>1. Cardinality(own) > MaxShown
    BY <1>2, <1>3, <1>4, <1>6
  <2>2. v.truncated /\ Cardinality(ids) = MaxShown
    <3>1. v.truncated = (Cardinality(OwnRows(t, m, u)) > MaxShown)
      BY DEF Shows
    <3>2. Cardinality(OwnRows(t, m, u)) > MaxShown
      BY <1>3, <2>1
    <3>3. v.truncated
      BY <3>1, <3>2, Zenon
    <3>4. Cardinality(top) = MaxShown
      BY <1>3, <1>4, <2>1
    <3>5. ids = top
      BY <1>1
    <3>6. QED
      BY <3>3, <3>4, <3>5
  <2>3. \A n \in ids : Created(n) > Created(s)
    BY <1>1, <1>2, <1>3, <1>6
  <2>4. QED
    BY <2>2, <2>3 DEF ids
<1>7. QED
  BY <1>5, <1>6

\* A transaction that starts later does not change what was shown.
LEMMA ShowsStays ==
    ASSUME BegunOK, NEW x \in Matches \cup Submissions, x \notin Range(begun),
           begun' = Append(begun, x), NEW t, InBegun(t), NEW u, NEW v, Shows(u, t, v)
    PROVE  Shows(u, t, v)'
<1>1. ASSUME NEW rows \in SUBSET Range(begun), NEW n
      PROVE  Newest(rows, n)' = Newest(rows, n)
  <2>1. \A y \in rows : Created(y)' = Created(y)
    BY BeginKeepsOrder
  <2>2. \A z \in rows : {y \in rows : Created(y)' > Created(z)'}
                          = {y \in rows : Created(y) > Created(z)}
    BY <2>1
  <2>3. QED
    BY <2>2 DEF Newest
<1>2. Own(t, v.match, u) \in SUBSET Range(begun)
  BY DEF Own, InBegun
<1>3. OwnRows(t, v.match, u)' = OwnRows(t, v.match, u)
  BY <1>1, <1>2 DEF OwnRows, Own, Limit
<1>4. OwnRows(t, v.match, u) \in SUBSET Range(begun)
  BY <1>2 DEF OwnRows, Newest
<1>5. Listed(t, v.match, u)' = Listed(t, v.match, u)
  BY <1>1, <1>3, <1>4 DEF Listed, ShownOf
<1>6. QED
  BY <1>3, <1>5 DEF Shows, Outcome, BestTests, Pair, LineOf

-----------------------------------------------------------------------------
(* The requests.                                                           *)

LoadType ==
    [pc : {"idle", "match", "players", "submissions", "commit"},
     ask : Matches \cup {NoMatch}, tables : TablesType \cup {NoTables},
     view : View, accepted : SUBSET Submissions]

\* What user u was shown last is what tables no later than T said.
Past(u, T) ==
    shown[u].match # NoMatch =>
        \E t \in TablesType : Good(t) /\ Grown(t, T) /\ Shows(u, t, shown[u])

\* Tables T are those of a moment between the arrival of u's request and now.
Snap(u, T) ==
    /\ Good(T) /\ Grown(T, Tables) /\ Past(u, T)
    /\ \A s \in load[u].accepted : Author[s] = u /\ T.stage[s] # "absent"

\* The first query's part of the answer.
Named(u, t, v) ==
    /\ v.match \in Matches /\ u \in Pair(v.match)
    /\ v.over = t.over[v.match]
    /\ v.outcome = Outcome(t, u, v.match)

\* The second query's.
BestOf(t, m) ==
    [p \in Players |-> IF p \in Pair(m) THEN BestTests(t, m, p) ELSE 0]

(***************************************************************************)
(* A request's answer is put together from the tables of one moment, which *)
(* is not before the moment of what its user was shown last.               *)
(***************************************************************************)
LoadOK(u) ==
    LET l == load[u] IN
    /\ l.pc \in {"idle", "match"} => Past(u, Tables)
    /\ l.pc = "match" => \A s \in l.accepted : Author[s] = u /\ stage[s] # "absent"
    /\ l.pc \in {"players", "submissions"} =>
         Snap(u, l.tables) /\ Named(u, l.tables, l.view)
    /\ l.pc = "submissions" => l.view.best = BestOf(l.tables, l.view.match)
    /\ l.pc = "commit" => \E t \in TablesType : Snap(u, t) /\ Shows(u, t, l.view)

IInv ==
    /\ BegunOK /\ Good(Tables) /\ InBegun(Tables)
    /\ load \in [Users -> LoadType] /\ shown \in [Users -> View]
    /\ \A u \in Users : LoadOK(u)

-----------------------------------------------------------------------------
(* What a step leaves as it is.                                            *)

\* The order of created_at, if it changes, is extended.
Ordered ==
    \/ begun' = begun
    \/ \E x \in Matches \cup Submissions :
         x \notin Range(begun) /\ begun' = Append(begun, x)

LEMMA ShowsKept ==
    ASSUME BegunOK, Ordered, NEW t, InBegun(t), NEW u, NEW v, Shows(u, t, v)
    PROVE  Shows(u, t, v)'
<1>1. CASE begun' = begun
  BY <1>1 DEF Shows, Listed, ShownOf, OwnRows, Own, Newest, Created, Limit, Outcome,
              BestTests, Pair, LineOf
<1>2. CASE \E x \in Matches \cup Submissions :
             x \notin Range(begun) /\ begun' = Append(begun, x)
  BY <1>2, ShowsStays
<1>3. QED
  BY <1>1, <1>2 DEF Ordered

LEMMA PastLater ==
    ASSUME BegunOK, Ordered, NEW u, shown'[u] = shown[u], NEW T, NEW T2, InBegun(T),
           Grown(T, T2), Past(u, T)
    PROVE  Past(u, T2)'
<1>1. SUFFICES ASSUME shown[u].match # NoMatch
               PROVE  \E t \in TablesType :
                        Good(t)' /\ Grown(t, T2)' /\ Shows(u, t, shown[u])'
  BY DEF Past
<1>2. PICK t \in TablesType : Good(t) /\ Grown(t, T) /\ Shows(u, t, shown[u])
  BY <1>1 DEF Past
<1>3. InBegun(t) /\ Grown(t, T2)
  BY <1>2, GrownTransitive DEF InBegun, Grown
<1>4. Shows(u, t, shown[u])'
  BY <1>2, <1>3, ShowsKept
<1>5. Good(t)' /\ Grown(t, T2)'
  BY <1>2, <1>3 DEF Good, Grown, Decided, Settled, Done, Pair, TablesType
<1>6. QED
  BY <1>4, <1>5

LEMMA SnapLater ==
    ASSUME BegunOK, Ordered, InBegun(Tables), Grown(Tables, Tables'), NEW u,
           shown'[u] = shown[u], load'[u].accepted = load[u].accepted,
           NEW T, Snap(u, T)
    PROVE  Snap(u, T)'
<1>1. InBegun(T)
  BY DEF Snap, Grown, InBegun
<1>2. Past(u, T)'
  BY <1>1, PastLater, GrownReflexive DEF Snap
<1>3. Grown(T, Tables')
  BY GrownTransitive DEF Snap
<1>4. Good(T)' /\ Grown(T, Tables)'
  BY <1>3 DEF Snap, Good, Grown, Decided, Settled, Done, Pair, TablesType
<1>5. \A s \in load'[u].accepted : Author[s] = u /\ T.stage[s] # "absent"
  BY DEF Snap
<1>6. QED
  BY <1>2, <1>4, <1>5 DEF Snap

\* The others' steps.
LEMMA LoadKept ==
    ASSUME BegunOK, Ordered, InBegun(Tables), Grown(Tables, Tables'), NEW u \in Users,
           load \in [Users -> LoadType],
           shown'[u] = shown[u], load'[u] = load[u], LoadOK(u)
    PROVE  LoadOK(u)'
<1> DEFINE l == load[u]
<1>1. l \in LoadType
  OBVIOUS
<1>2. l.pc \in {"idle", "match"} => Past(u, Tables)'
  BY PastLater DEF LoadOK
<1>3. l.pc = "match" => \A s \in l.accepted : Author[s] = u /\ stage'[s] # "absent"
  BY <1>1 DEF LoadOK, LoadType, Grown, Tables
<1>4. ASSUME NEW T, Snap(u, T) PROVE Snap(u, T)'
  BY <1>4, SnapLater
<1>5. l.pc \in {"players", "submissions"} => Snap(u, l.tables)'
  BY <1>4 DEF LoadOK
<1>6. l.pc \in {"players", "submissions"} => Named(u, l.tables, l.view)'
  BY DEF LoadOK, Named, Outcome, Pair
<1>7. l.pc = "submissions" => l'.view.best = BestOf(l.tables, l.view.match)'
  BY DEF LoadOK, BestOf, BestTests, Pair
<1>8. l.pc = "commit" => \E t \in TablesType' : Snap(u, t)' /\ Shows(u, t, l.view)'
  <2>1. SUFFICES ASSUME l.pc = "commit"
                 PROVE  \E t \in TablesType' : Snap(u, t)' /\ Shows(u, t, l.view)'
    OBVIOUS
  <2>2. PICK t \in TablesType : Snap(u, t) /\ Shows(u, t, l.view)
    BY <2>1 DEF LoadOK
  <2>3. Snap(u, t)'
    BY <1>4, <2>2
  <2>4. InBegun(t)
    BY <2>2 DEF Snap, Grown, InBegun
  <2>5. Shows(u, t, l.view)'
    BY <2>2, <2>4, ShowsKept
  <2>6. t \in TablesType'
    BY DEF TablesType
  <2>7. QED
    BY <2>3, <2>5, <2>6
<1>9. QED
  BY <1>2, <1>3, <1>5, <1>6, <1>7, <1>8 DEF LoadOK

-----------------------------------------------------------------------------
(* The steps of a request.                                                 *)

LEMMA InitIInv == SnapshotInit => IInv
<1> SUFFICES ASSUME SnapshotInit PROVE IInv
  OBVIOUS
<1>1. BegunOK
  BY DEF SnapshotInit, BegunOK
<1>2. /\ stage = [s \in Submissions |-> "absent"] /\ passed = [s \in Submissions |-> FALSE]
      /\ score = [s \in Submissions |-> 0] /\ over = [m \in Matches |-> FALSE]
      /\ winner = [m \in Matches |-> NoPlayer] /\ made = {}
  BY DEF SnapshotInit, DuelInit
<1>3. Tables \in TablesType
  BY <1>2, SnapshotAssumption DEF TablesType, Tables, SnapshotAssumption
<1>4. Good(Tables) /\ InBegun(Tables)
  BY <1>2, <1>3, SnapshotAssumption DEF Good, InBegun, Tables, SnapshotAssumption
<1>5. NoView \in View
  BY SnapshotAssumption DEF NoView, View, Outcomes, SnapshotAssumption
<1>6. NoLoad \in LoadType
  BY <1>5 DEF NoLoad, LoadType
<1>7. load = [u \in Users |-> NoLoad] /\ shown = [u \in Users |-> NoView]
  BY DEF SnapshotInit
<1>8. load \in [Users -> LoadType] /\ shown \in [Users -> View]
  BY <1>5, <1>6, <1>7
<1>9. \A u \in Users : shown[u].match = NoMatch /\ load[u].pc = "idle"
  BY <1>7 DEF NoView, NoLoad
<1>10. \A u \in Users : LoadOK(u)
  BY <1>9 DEF LoadOK, Past
<1>11. QED
  BY <1>1, <1>4, <1>8, <1>10 DEF IInv

LEMMA NoLoadTyped == NoView \in View /\ NoLoad \in LoadType
<1>1. NoView \in View
  BY SnapshotAssumption DEF NoView, View, Outcomes, SnapshotAssumption
<1>2. QED
  BY <1>1 DEF NoLoad, LoadType

LEMMA FoundFacts ==
    ASSUME NEW t, t \in TablesType, NEW u, NEW ask \in Matches \cup {NoMatch},
           FindMatch(t, u, ask) # NoMatch
    PROVE  FindMatch(t, u, ask) \in Matches /\ u \in Pair(FindMatch(t, u, ask))
<1> DEFINE mine == {m \in t.made : u \in Pair(m)}
           found == IF ask = NoMatch
                      THEN {m \in mine : \A n \in mine : ComesFirst(t, m, n)}
                      ELSE mine \cap {ask}
<1>1. t.made \subseteq Matches
  BY DEF TablesType
<1>2. FindMatch(t, u, ask) = IF found = {} THEN NoMatch ELSE CHOOSE m \in found : TRUE
  BY DEF FindMatch
<1>3. found \subseteq mine
  OBVIOUS
<1> HIDE DEF found
<1>4. found # {} /\ FindMatch(t, u, ask) \in found
  BY <1>2
<1>5. QED
  BY <1>1, <1>3, <1>4

\* The answer that a request has so far keeps its type.
LEMMA LinesTyped ==
    ASSUME NEW t \in TablesType, BegunOK, InBegun(t), NEW m, NEW u
    PROVE  {LineOf(t, s) : s \in Listed(t, m, u)} \subseteq Line
<1>1. Listed(t, m, u) \subseteq Own(t, m, u)
  BY ListedFacts
<1>2. \A s \in Own(t, m, u) : LineOf(t, s) \in Line
  BY DEF Own, LineOf, Line, TablesType
<1>3. QED
  BY <1>1, <1>2

\* A user's step reads the tables and is that user's alone.
LEMMA UserFrame ==
    ASSUME IInv, NEW w \in Users, UserStep(w)
    PROVE  /\ Tables' = Tables /\ begun' = begun
           /\ \A u \in Users \ {w} : load'[u] = load[u] /\ shown'[u] = shown[u]
<1>1. Tables' = Tables /\ begun' = begun
  BY DEF UserStep, Request, QueryMatch, AnswerNone, QueryPlayers, QuerySubmissions, Answer,
         LoadFails, Tables, duelVars
<1>2. \E l : load' = [load EXCEPT ![w] = l]
  BY DEF UserStep, Request, QueryMatch, AnswerNone, QueryPlayers, QuerySubmissions, Answer,
         LoadFails
<1>3. \E v : shown' = shown \/ shown' = [shown EXCEPT ![w] = v]
  BY DEF UserStep, Request, QueryMatch, AnswerNone, QueryPlayers, QuerySubmissions, Answer,
         LoadFails
<1>4. QED
  BY <1>1, <1>2, <1>3 DEF IInv

\* Tables T are still those of a moment for u when only its request moves on.
LEMMA SnapStays ==
    ASSUME IInv, Tables' = Tables, begun' = begun, NEW u \in Users,
           shown'[u] = shown[u], load'[u].accepted = load[u].accepted,
           NEW T, Snap(u, T)
    PROVE  Snap(u, T)'
<1>1. Ordered /\ Grown(Tables, Tables')
  BY GrownReflexive DEF Ordered
<1>2. QED
  BY <1>1, SnapLater DEF IInv

LEMMA PastStays ==
    ASSUME IInv, Tables' = Tables, begun' = begun, NEW u \in Users,
           shown'[u] = shown[u], Past(u, Tables)
    PROVE  Past(u, Tables)'
<1>1. Ordered /\ Grown(Tables, Tables')
  BY GrownReflexive DEF Ordered
<1>2. QED
  BY <1>1, PastLater DEF IInv

\* Whatever stage its request is at, what u was shown is in the past.
LEMMA PastNow ==
    ASSUME IInv, NEW u \in Users
    PROVE  Past(u, Tables)
<1>1. load[u] \in LoadType /\ LoadOK(u)
  BY DEF IInv
<1>2. ASSUME NEW T, Snap(u, T) PROVE Past(u, Tables)
  <2>1. \A t \in TablesType : Grown(t, T) => Grown(t, Tables)
    BY <1>2, GrownTransitive DEF Snap
  <2>2. QED
    BY <1>2, <2>1 DEF Snap, Past
<1>3. QED
  BY <1>1, <1>2 DEF LoadType, LoadOK

LEMMA RequestKeeps ==
    ASSUME IInv, NEW u \in Users, NEW ask \in Matches \cup {NoMatch}, Request(u, ask),
           Tables' = Tables, begun' = begun
    PROVE  load'[u] \in LoadType /\ shown'[u] = shown[u] /\ LoadOK(u)'
<1>1. load[u].pc = "idle" /\ shown' = shown /\ load \in [Users -> LoadType]
  BY DEF Request, IInv
<1>2. load'[u] = [NoLoad EXCEPT !.pc = "match", !.ask = ask, !.accepted = Accepted(u)]
  BY <1>1 DEF Request
<1>3. load'[u].pc = "match" /\ load'[u].accepted = Accepted(u)
  BY <1>2 DEF NoLoad
<1>4. load'[u] \in LoadType
  BY <1>2, NoLoadTyped DEF LoadType, Accepted, NoLoad
<1>5. Past(u, Tables)'
  BY <1>1, PastNow, PastStays
<1>6. \A s \in load'[u].accepted : Author[s] = u /\ stage'[s] # "absent"
  <2>1. stage' = stage
    BY DEF Request, duelVars
  <2>2. QED
    BY <1>3, <2>1 DEF Accepted
<1>7. QED
  BY <1>1, <1>3, <1>4, <1>5, <1>6 DEF LoadOK

LEMMA QueryMatchKeeps ==
    ASSUME IInv, NEW u \in Users, QueryMatch(u), Tables' = Tables, begun' = begun
    PROVE  load'[u] \in LoadType /\ shown'[u] = shown[u] /\ LoadOK(u)'
<1> DEFINE m == FindMatch(Tables, u, load[u].ask)
           v == [NoView EXCEPT !.match = m, !.over = Tables.over[m],
                               !.outcome = Outcome(Tables, u, m)]
<1>1. load[u].pc = "match" /\ shown' = shown /\ load[u] \in LoadType
  BY DEF QueryMatch, IInv
<1>2. m # NoMatch
  BY DEF QueryMatch
<1>3. load'[u] = [load[u] EXCEPT !.pc = "players", !.tables = Tables, !.view = v]
  <2>1. load' = [load EXCEPT ![u].pc = "players", ![u].tables = Tables, ![u].view = v]
    BY DEF QueryMatch
  <2> HIDE DEF m, v
  <2>2. QED
    BY <2>1 DEF IInv
<1>4. m \in Matches /\ u \in Pair(m)
  BY <1>1, <1>2, FoundFacts DEF LoadType, IInv, Good
<1> HIDE DEF m
<1>5. Tables \in TablesType /\ Good(Tables)
  BY DEF IInv, Good
<1>6. /\ v \in View /\ v.match = m /\ v.over = Tables.over[m]
      /\ v.outcome = Outcome(Tables, u, m)
  <2>1. Outcome(Tables, u, m) \in Outcomes
    BY DEF Outcome, Outcomes
  <2>2. Tables.over[m] \in BOOLEAN
    BY <1>4, <1>5 DEF TablesType
  <2>3. QED
    BY <1>4, <2>1, <2>2, NoLoadTyped DEF View, NoView
<1> HIDE DEF v
<1>7. /\ load'[u].pc = "players" /\ load'[u].tables = Tables /\ load'[u].view = v
      /\ load'[u].accepted = load[u].accepted
      /\ load'[u] \in LoadType
  BY <1>1, <1>3, <1>5, <1>6 DEF LoadType
<1>8. Snap(u, Tables)
  <2>1. LoadOK(u)
    BY DEF IInv
  <2>2. \A s \in load[u].accepted : Author[s] = u /\ Tables.stage[s] # "absent"
    BY <1>1, <2>1 DEF LoadOK, Tables
  <2>3. QED
    BY <1>5, <2>2, PastNow, GrownReflexive DEF Snap
<1>9. Snap(u, load[u].tables)'
  <2>1. \A T : Snap(u, T) => Snap(u, T)'
    BY <1>1, <1>7, SnapStays
  <2>2. QED
    BY <1>7, <1>8, <2>1
<1>10. Named(u, load[u].tables, load[u].view)'
  <2>1. Named(u, Tables, v)
    BY <1>4, <1>6 DEF Named
  <2>2. QED
    BY <1>7, <2>1 DEF Named, Outcome, Pair
<1>11. LoadOK(u)'
  BY <1>7, <1>9, <1>10 DEF LoadOK
<1>12. QED
  BY <1>1, <1>7, <1>11

LEMMA QueryPlayersKeeps ==
    ASSUME IInv, NEW u \in Users, QueryPlayers(u), Tables' = Tables, begun' = begun
    PROVE  load'[u] \in LoadType /\ shown'[u] = shown[u] /\ LoadOK(u)'
<1> DEFINE l == load[u]
           m == l.view.match
           v == [l.view EXCEPT !.best = BestOf(l.tables, m)]
<1>1. l.pc = "players" /\ shown' = shown /\ l \in LoadType /\ LoadOK(u)
  BY DEF QueryPlayers, IInv
<1>2. load'[u] = [l EXCEPT !.pc = "submissions", !.view = v]
  BY DEF QueryPlayers, Visible, BestOf, IInv, LoadType, View
<1>3. Snap(u, l.tables) /\ Named(u, l.tables, l.view)
  BY <1>1 DEF LoadOK
<1>4. l.view \in View /\ m \in Matches
  BY <1>1, <1>3 DEF LoadType, Named
<1>5. BestOf(l.tables, m) \in [Players -> 0 .. TotalTests]
  <2>1. Good(l.tables) /\ 0 \in 0 .. TotalTests
    BY <1>3, SnapshotAssumption DEF Snap, SnapshotAssumption
  <2>2. \A p : BestTests(l.tables, m, p) \in 0 .. TotalTests
    BY <2>1, BestFacts
  <2>3. QED
    BY <2>1, <2>2 DEF BestOf
<1>6. /\ v \in View /\ v.match = m /\ v.over = l.view.over
      /\ v.outcome = l.view.outcome /\ v.best = BestOf(l.tables, m)
  BY <1>4, <1>5 DEF View
<1>7. /\ load'[u].pc = "submissions" /\ load'[u].tables = l.tables
      /\ load'[u].view = v /\ load'[u].accepted = l.accepted
      /\ load'[u] \in LoadType
  <2> HIDE DEF v
  <2>1. QED
    BY <1>1, <1>2, <1>6 DEF LoadType
<1> HIDE DEF v, m
<1>8. Snap(u, load[u].tables)'
  <2>1. \A T : Snap(u, T) => Snap(u, T)'
    BY <1>1, <1>7, SnapStays
  <2>2. QED
    BY <1>3, <1>7, <2>1
<1>9. Named(u, load[u].tables, load[u].view)'
  <2>1. Named(u, l.tables, v)
    BY <1>3, <1>6 DEF Named, m
  <2>2. QED
    BY <1>7, <2>1 DEF Named, Outcome, Pair
<1>10. load'[u].view.best = BestOf(load'[u].tables, load'[u].view.match)
  BY <1>6, <1>7 DEF m
<1>11. LoadOK(u)'
  BY <1>7, <1>8, <1>9, <1>10 DEF LoadOK
<1>12. QED
  BY <1>1, <1>7, <1>11

LEMMA QuerySubmissionsKeeps ==
    ASSUME IInv, NEW u \in Users, QuerySubmissions(u), Tables' = Tables, begun' = begun
    PROVE  load'[u] \in LoadType /\ shown'[u] = shown[u] /\ LoadOK(u)'
<1> DEFINE l == load[u]
           t == l.tables
           m == l.view.match
           lines == {LineOf(t, s) : s \in Listed(t, m, u)}
           more == Cardinality(OwnRows(t, m, u)) > MaxShown
           v == [l.view EXCEPT !.lines = lines, !.truncated = more]
<1>1. l.pc = "submissions" /\ shown' = shown /\ l \in LoadType /\ LoadOK(u)
  BY DEF QuerySubmissions, IInv
<1>2. load' = [load EXCEPT ![u].pc = "commit", ![u].tables = NoTables,
                           ![u].view.lines = lines, ![u].view.truncated = more]
  BY DEF QuerySubmissions, Visible, LineOf, Listed
<1>3. Snap(u, t) /\ Named(u, t, l.view) /\ l.view.best = BestOf(t, m)
  BY <1>1 DEF LoadOK
<1>4. l.view \in View
  BY <1>1 DEF LoadType
<1>5. lines \subseteq Line
  <2>1. BegunOK /\ InBegun(t) /\ t \in TablesType
    BY <1>3 DEF IInv, Snap, Grown, InBegun, Good
  <2>2. QED
    BY <2>1, LinesTyped
<1> HIDE DEF lines, more
<1>6. more \in BOOLEAN
  BY DEF more
<1>7. load'[u] = [l EXCEPT !.pc = "commit", !.tables = NoTables, !.view = v]
  BY <1>2, <1>4, <1>1 DEF IInv, LoadType, View
<1>8. /\ v \in View /\ v.match = m /\ v.over = l.view.over
      /\ v.outcome = l.view.outcome /\ v.best = l.view.best
      /\ v.lines = lines /\ v.truncated = more
  BY <1>4, <1>5, <1>6 DEF View
<1>9. /\ load'[u].pc = "commit" /\ load'[u].view = v
      /\ load'[u].accepted = l.accepted /\ load'[u] \in LoadType
  <2> HIDE DEF v
  <2>1. QED
    BY <1>1, <1>7, <1>8 DEF LoadType
<1>10. Shows(u, t, v)
  BY <1>3, <1>8 DEF Shows, Named, BestOf, lines, more
<1> HIDE DEF v
<1>11. \E T \in TablesType' : Snap(u, T)' /\ Shows(u, T, load[u].view)'
  <2>1. \A T : Snap(u, T) => Snap(u, T)'
    BY <1>1, <1>9, SnapStays
  <2>2. PICK T, w : T = t /\ w = v
    OBVIOUS
  <2>3. Snap(u, T) /\ Shows(u, T, w) /\ BegunOK /\ Ordered
    BY <1>3, <1>10, <2>2 DEF IInv, Ordered
  <2>4. T \in TablesType' /\ InBegun(T)
    BY <2>3 DEF IInv, Snap, Good, Grown, InBegun, TablesType
  <2>5. Shows(u, T, w)'
    BY <2>3, <2>4, ShowsKept
  <2>6. load'[u].view = w
    BY <1>9, <2>2
  <2>7. QED
    BY <2>1, <2>3, <2>4, <2>5, <2>6
<1>12. LoadOK(u)'
  BY <1>9, <1>11 DEF LoadOK
<1>13. QED
  BY <1>1, <1>9, <1>12

LEMMA AnswerKeeps ==
    ASSUME IInv, NEW u \in Users, Answer(u), Tables' = Tables, begun' = begun
    PROVE  load'[u] \in LoadType /\ shown'[u] \in View /\ LoadOK(u)'
<1>1. load[u].pc = "commit" /\ load[u] \in LoadType /\ LoadOK(u)
      /\ load' = [load EXCEPT ![u] = NoLoad]
      /\ shown' = [shown EXCEPT ![u] = load[u].view]
  BY DEF Answer, IInv
<1>2. load'[u] = NoLoad /\ shown'[u] = load[u].view
  BY <1>1 DEF IInv
<1>3. load'[u] \in LoadType /\ shown'[u] \in View
  BY <1>1, <1>2, NoLoadTyped DEF LoadType
<1>4. PICK t \in TablesType : \E w : Snap(u, t) /\ Shows(u, t, w) /\ w = load[u].view
  BY <1>1 DEF LoadOK
<1>5. PICK w : Snap(u, t) /\ Shows(u, t, w) /\ w = load[u].view
  BY <1>4
<1>6. BegunOK /\ Ordered /\ InBegun(t)
  BY <1>5 DEF IInv, Ordered, Snap, Grown, InBegun
<1>7. Shows(u, t, w)' /\ shown'[u] = w
  BY <1>2, <1>5, <1>6, ShowsKept
<1>8. Good(t)' /\ Grown(t, Tables)' /\ t \in TablesType'
  BY <1>5 DEF Snap, Good, Grown, Decided, Settled, Done, Pair, TablesType
<1>9. Past(u, Tables)'
  BY <1>7, <1>8 DEF Past
<1>10. load'[u].pc = "idle"
  BY <1>2 DEF NoLoad
<1>11. QED
  BY <1>3, <1>9, <1>10 DEF LoadOK

LEMMA AnswerNoneKeeps ==
    ASSUME IInv, NEW u \in Users, AnswerNone(u)
    PROVE  load'[u] \in LoadType /\ shown'[u] \in View /\ LoadOK(u)'
<1>1. load'[u] = NoLoad /\ shown'[u] = NoView
  BY DEF AnswerNone, IInv
<1>2. load'[u].pc = "idle" /\ shown'[u].match = NoMatch
  BY <1>1 DEF NoLoad, NoView
<1>3. QED
  BY <1>1, <1>2, NoLoadTyped DEF LoadOK, Past

LEMMA LoadFailsKeeps ==
    ASSUME IInv, NEW u \in Users, LoadFails(u), Tables' = Tables, begun' = begun
    PROVE  load'[u] \in LoadType /\ shown'[u] = shown[u] /\ LoadOK(u)'
<1>1. load'[u] = NoLoad /\ shown' = shown
  BY DEF LoadFails, IInv
<1>2. load'[u].pc = "idle"
  BY <1>1 DEF NoLoad
<1>3. Past(u, Tables)'
  BY <1>1, PastNow, PastStays
<1>4. QED
  BY <1>1, <1>2, <1>3, NoLoadTyped DEF LoadOK

LEMMA UserKeeps ==
    ASSUME IInv, NEW w \in Users, UserStep(w)
    PROVE  IInv'
<1>1. /\ Tables' = Tables /\ begun' = begun
      /\ \A u \in Users \ {w} : load'[u] = load[u] /\ shown'[u] = shown[u]
  BY UserFrame
<1>2. load'[w] \in LoadType /\ shown'[w] \in View /\ LoadOK(w)'
  <2>1. shown[w] \in View
    BY DEF IInv
  <2>2. ASSUME NEW ask \in Matches \cup {NoMatch}, Request(w, ask)
        PROVE  load'[w] \in LoadType /\ shown'[w] \in View /\ LoadOK(w)'
    BY <1>1, <2>1, <2>2, RequestKeeps
  <2>3. CASE QueryMatch(w)
    BY <1>1, <2>1, <2>3, QueryMatchKeeps
  <2>4. CASE AnswerNone(w)
    BY <2>4, AnswerNoneKeeps
  <2>5. CASE QueryPlayers(w)
    BY <1>1, <2>1, <2>5, QueryPlayersKeeps
  <2>6. CASE QuerySubmissions(w)
    BY <1>1, <2>1, <2>6, QuerySubmissionsKeeps
  <2>7. CASE Answer(w)
    BY <1>1, <2>7, AnswerKeeps
  <2>8. CASE LoadFails(w)
    BY <1>1, <2>1, <2>8, LoadFailsKeeps
  <2>9. QED
    BY <2>2, <2>3, <2>4, <2>5, <2>6, <2>7, <2>8 DEF UserStep
<1>3. \A u \in Users \ {w} : LoadOK(u)'
  <2>1. TAKE u \in Users \ {w}
  <2>2. Ordered /\ Grown(Tables, Tables')
    BY <1>1, GrownReflexive DEF Ordered
  <2>3. QED
    BY <1>1, <2>2, LoadKept DEF IInv
<1>4. load' \in [Users -> LoadType] /\ shown' \in [Users -> View]
  <2>1. \E l, v : load' = [load EXCEPT ![w] = l]
                  /\ (shown' = shown \/ shown' = [shown EXCEPT ![w] = v])
    BY DEF UserStep, Request, QueryMatch, AnswerNone, QueryPlayers, QuerySubmissions, Answer,
           LoadFails
  <2>2. QED
    BY <1>2, <2>1 DEF IInv
<1>5. Good(Tables)' /\ BegunOK' /\ InBegun(Tables)'
  <2>1. Good(Tables) /\ BegunOK /\ InBegun(Tables)
    BY DEF IInv
  <2>2. BegunOK'
    BY <1>1, <2>1 DEF BegunOK
  <2>3. PICK T : T = Tables
    OBVIOUS
  <2>4. Good(T) /\ InBegun(T) /\ Tables' = T
    BY <1>1, <2>1, <2>3
  <2>5. Good(T)' /\ InBegun(T)'
    BY <1>1, <2>4 DEF Good, Decided, Settled, Done, Pair, TablesType, InBegun
  <2>6. QED
    BY <2>2, <2>4, <2>5
<1>6. QED
  BY <1>2, <1>3, <1>4, <1>5 DEF IInv, LoadType, View, TablesType, Line

-----------------------------------------------------------------------------
(* The invariant, and the properties.                                      *)

\* The writers, and whoever starts a transaction, leave the requests alone.
LEMMA OthersKeep ==
    ASSUME IInv, Ordered, UNCHANGED <<load, shown>>, Good(Tables)',
           Grown(Tables, Tables'), BegunOK', InBegun(Tables)'
    PROVE  IInv'
<1>1. \A u \in Users : LoadOK(u)'
  <2>1. TAKE u \in Users
  <2>2. QED
    BY LoadKept DEF IInv
<1>2. QED
  BY <1>1 DEF IInv, LoadType, View, TablesType, Line

LEMMA WriterKeeps ==
    ASSUME IInv, Write \/ \E m \in Matches : CreateMatch(m)
    PROVE  IInv'
<1>1. Good(Tables)' /\ Grown(Tables, Tables')
  BY WriterTables DEF IInv
<1>2. UNCHANGED <<load, shown, begun>>
  BY DEF Write, CreateMatch
<1>3. \A s \in Submissions : stage'[s] # "absent" => s \in Range(begun)
  <2>1. stage \in [Submissions -> {"absent", "open", "judged"}]
    BY DEF IInv, Good, TablesType, Tables
  <2>2. \A s \in Submissions : stage[s] # "absent" => s \in Range(begun)
    BY DEF IInv, InBegun, Tables
  <2>3. CASE \E s \in Submissions : s \in Range(begun) /\ (Submit(s) \/ Pass(s) \/ Fail(s))
    BY <2>1, <2>2, <2>3 DEF Submit, Pass, Fail
  <2>4. CASE GiveUp
    BY <2>1, <2>2, <2>4 DEF GiveUp
  <2>5. CASE UNCHANGED stage
    BY <2>2, <2>5
  <2>6. QED
    BY <2>3, <2>4, <2>5 DEF Write, CreateMatch, DeadlinePassed, Close, duelVars
<1>4. InBegun(Tables)' /\ BegunOK' /\ Ordered
  BY <1>2, <1>3 DEF InBegun, Tables, IInv, BegunOK, Ordered, Range
<1>5. QED
  BY <1>1, <1>2, <1>4, OthersKeep

LEMMA BeginKeeps ==
    ASSUME IInv, NEW x \in Matches \cup Submissions, Begin(x)
    PROVE  IInv'
<1>1. /\ x \notin Range(begun) /\ begun' = Append(begun, x)
      /\ UNCHANGED <<load, shown>>
      /\ UNCHANGED <<stage, passed, score, over, winner, made>>
  BY DEF Begin, duelVars
<1>2. Good(Tables)' /\ Grown(Tables, Tables')
  <2>1. made' \subseteq Matches
    BY <1>1 DEF IInv, Good, TablesType, Tables
  <2>2. QED
    BY <1>1, <2>1, OtherTables DEF IInv
<1>3. BegunOK' /\ Range(begun) \subseteq Range(begun)' /\ Ordered
  BY <1>1, BeginKeepsOrder DEF IInv, Ordered
<1>4. InBegun(Tables)'
  BY <1>1, <1>3 DEF IInv, InBegun, Tables
<1>5. QED
  BY <1>1, <1>2, <1>3, <1>4, OthersKeep

LEMMA StepIInv == IInv /\ [SnapshotNext]_vars => IInv'
<1> SUFFICES ASSUME IInv, [SnapshotNext]_vars PROVE IInv'
  OBVIOUS
<1>1. CASE \E x \in Matches \cup Submissions : Begin(x)
  BY <1>1, BeginKeeps
<1>2. CASE Write \/ \E m \in Matches : CreateMatch(m)
  BY <1>2, WriterKeeps
<1>3. CASE \E u \in Users : UserStep(u)
  BY <1>3, UserKeeps
<1>4. CASE UNCHANGED vars
  <2>1. UNCHANGED <<load, shown, begun, stage, passed, score, over, winner, made>>
    BY <1>4 DEF vars
  <2>2. Good(Tables)' /\ Grown(Tables, Tables')
    <3>1. made' \subseteq Matches
      BY <2>1 DEF IInv, Good, TablesType, Tables
    <3>2. QED
      BY <2>1, <3>1, OtherTables DEF IInv
  <2>3. BegunOK' /\ InBegun(Tables)' /\ Ordered
    BY <2>1 DEF IInv, BegunOK, InBegun, Tables, Ordered, Range
  <2>4. QED
    BY <2>1, <2>2, <2>3, OthersKeep
<1>5. QED
  BY <1>1, <1>2, <1>3, <1>4 DEF SnapshotNext

LEMMA IInvHolds == SnapshotSpec => []IInv
BY InitIInv, StepIInv, PTL DEF SnapshotSpec

(***************************************************************************)
(* Every snapshot explains the outcome it names: whatever the gateway, the *)
(* judges and the reaper commit between its three queries, it is what the  *)
(* tables said at one moment, and what they say always explains itself.    *)
(***************************************************************************)
THEOREM OutcomeExplainedHolds == SnapshotSpec => []OutcomeExplained
<1>1. IInv => OutcomeExplained
  <2>1. SUFFICES ASSUME IInv, NEW u \in Users, shown[u].match # NoMatch
                 PROVE  Explained(u, shown[u])
    BY DEF OutcomeExplained
  <2>2. PICK t \in TablesType : Good(t) /\ Grown(t, Tables) /\ Shows(u, t, shown[u])
    BY <2>1, PastNow DEF Past
  <2>3. BegunOK /\ InBegun(t)
    BY <2>1, <2>2 DEF IInv, InBegun, Grown
  <2>4. QED
    BY <2>2, <2>3, ShowsExplains
<1>2. QED
  BY <1>1, IInvHolds, PTL

(***************************************************************************)
(* A player who looks again never sees a match go back: the tables of a    *)
(* request are no older than those of the request before it.               *)
(***************************************************************************)
THEOREM NeverGoesBackHolds == SnapshotSpec => NeverGoesBack
<1> DEFINE Forward == \A u \in Users :
                        (shown[u].match # NoMatch /\ shown'[u].match = shown[u].match) =>
                            NotBefore(shown[u], shown'[u])
<1>1. ASSUME IInv, SnapshotNext PROVE Forward
  <2>1. SUFFICES ASSUME NEW u \in Users, shown[u].match # NoMatch,
                        shown'[u].match = shown[u].match
                 PROVE  NotBefore(shown[u], shown'[u])
    OBVIOUS
  <2>2. BegunOK /\ InBegun(Tables)
    BY <1>1 DEF IInv
  <2>3. CASE shown'[u] = shown[u]
    <3>1. PICK t \in TablesType : Good(t) /\ Grown(t, Tables) /\ Shows(u, t, shown[u])
      BY <1>1, <2>1, PastNow DEF Past
    <3>2. InBegun(t)
      BY <2>2, <3>1 DEF InBegun, Grown
    <3>3. QED
      BY <2>2, <2>3, <3>1, <3>2, ShowsForward, GrownReflexive
  <2>4. CASE shown'[u] # shown[u]
    <3>1. AnswerNone(u) \/ Answer(u)
      <4>1. PICK w \in Users : UserStep(w)
        BY <1>1, <2>4 DEF SnapshotNext, Begin, CreateMatch, Write
      <4>2. w = u
        BY <1>1, <2>4, <4>1, UserFrame
      <4>3. QED
        BY <2>4, <4>1, <4>2 DEF UserStep, Request, QueryMatch, QueryPlayers,
                                QuerySubmissions, LoadFails
    <3>2. ~AnswerNone(u)
      BY <1>1, <2>1 DEF AnswerNone, IInv, NoView
    <3>3. load[u].pc = "commit" /\ shown'[u] = load[u].view
      BY <1>1, <3>1, <3>2 DEF Answer, IInv
    <3>4. PICK T \in TablesType : Snap(u, T) /\ Shows(u, T, load[u].view)
      BY <1>1, <3>3 DEF IInv, LoadOK
    <3>5. PICK t \in TablesType : Good(t) /\ Grown(t, T) /\ Shows(u, t, shown[u])
      BY <2>1, <3>4 DEF Snap, Past
    <3>6. Good(T) /\ InBegun(T)
      BY <2>2, <3>4 DEF Snap, InBegun, Grown
    <3>7. QED
      BY <2>1, <2>2, <3>3, <3>4, <3>5, <3>6, ShowsForward
  <2>5. QED
    BY <2>3, <2>4
<1>2. ASSUME IInv, [SnapshotNext]_vars PROVE [Forward]_shown
  BY <1>1, <1>2 DEF vars
<1>3. QED
  BY <1>2, IInvHolds, PTL DEF SnapshotSpec, NeverGoesBack

(***************************************************************************)
(* What was accepted before a request is in its answer, or the answer says *)
(* that it is cut and lists only newer submissions, as many as fit.        *)
(***************************************************************************)
THEOREM NothingMissingHolds == SnapshotSpec => NothingMissing
<1> DEFINE Complete == \A u \in Users : Answer(u) =>
                LET v == shown'[u]
                    ids == {l.id : l \in v.lines}
                IN  \A s \in {x \in load[u].accepted : MatchOf[x] = v.match} :
                        \/ s \in ids
                        \/ /\ v.truncated
                           /\ Cardinality(ids) = MaxShown
                           /\ \A n \in ids : Created(n) > Created(s)
<1>1. ASSUME IInv PROVE Complete
  <2>1. SUFFICES ASSUME NEW u \in Users, Answer(u),
                        NEW s \in load[u].accepted, MatchOf[s] = shown'[u].match
                 PROVE  LET v == shown'[u]
                            ids == {l.id : l \in v.lines}
                        IN  \/ s \in ids
                            \/ /\ v.truncated
                               /\ Cardinality(ids) = MaxShown
                               /\ \A n \in ids : Created(n) > Created(s)
    OBVIOUS
  <2>2. load[u].pc = "commit" /\ shown'[u] = load[u].view /\ load[u] \in LoadType
    BY <1>1, <2>1 DEF Answer, IInv
  <2>3. PICK T \in TablesType : Snap(u, T) /\ Shows(u, T, load[u].view)
    BY <1>1, <2>2 DEF IInv, LoadOK
  <2>4. BegunOK /\ InBegun(T)
    BY <1>1, <2>3 DEF IInv, Snap, InBegun, Grown
  <2>5. s \in Submissions /\ Author[s] = u /\ T.stage[s] # "absent"
    BY <2>2, <2>3 DEF LoadType, Snap
  <2>6. QED
    BY <2>1, <2>2, <2>3, <2>4, <2>5, ShowsComplete
<1>2. ASSUME IInv, [SnapshotNext]_vars PROVE [Complete]_vars
  BY <1>1, <1>2
<1>3. QED
  BY <1>2, IInvHolds, PTL DEF SnapshotSpec, NothingMissing
=============================================================================
