------------------------------ MODULE MCEvents ------------------------------
(* An instance of ResultEvents for TLC: one submission of one player.      *)
EXTENDS ResultEvents

CONSTANTS alice, bob, s1

MCMatchPlayers == [m \in Matches |-> <<alice, bob>>]
MCAuthor == [s \in Submissions |-> alice]
MCMatchOf == [s \in Submissions |-> 1]
=============================================================================
