----------------------------- MODULE MCSnapshot -----------------------------
(***************************************************************************)
(* Player p1 looks at her match against p2, to which she has two           *)
(* submissions and he one; the list has room for one.                      *)
(***************************************************************************)
EXTENDS MatchSnapshot, TLC

CONSTANTS p1, p2

MCMatchPlayers == <<<<p1, p2>>>>
MCAuthor == (11 :> p1) @@ (12 :> p1) @@ (13 :> p2)
MCMatchOf == [s \in Submissions |-> 1]
=============================================================================
