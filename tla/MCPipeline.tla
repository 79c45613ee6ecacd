----------------------------- MODULE MCPipeline -----------------------------
(***************************************************************************)
(* Instances of SubmissionPipeline for TLC: two players, alice and bob,    *)
(* and their submissions s1 and s2.                                        *)
(***************************************************************************)
EXTENDS SubmissionPipeline, TLC

CONSTANTS alice, bob, s1, s2

MCMatchPlayers == [m \in Matches |-> <<alice, bob>>]
MCAuthor == [s \in Submissions |-> IF s = s1 THEN alice ELSE bob]
MCMatchOf == [s \in Submissions |-> 1]

(***************************************************************************)
(* Judge workers are interchangeable, and so are the two sides of a duel:  *)
(* nothing but the order of match_players tells them apart, and a tiebreak *)
(* gives the same winner in either order.                                  *)
(***************************************************************************)
WorkerSymmetry == Permutations(Workers)

Swap(a, b) == (a :> b) @@ (b :> a)

DuelSymmetry ==
    {f @@ g : f \in WorkerSymmetry,
              g \in {<< >>, Swap(alice, bob) @@ Swap(s1, s2)}}
=============================================================================
