--------------------------- MODULE MCMatchmaking ----------------------------
(***************************************************************************)
(* Three users, the first with two connections, for TLC.                   *)
(***************************************************************************)
EXTENDS Matchmaking, TLC

CONSTANTS u1, u2, u3, c1a, c1b, c2, c3

MCOwner ==
    [c \in Conns |-> CASE c \in {c1a, c1b} -> u1 [] c = c2 -> u2 [] OTHER -> u3]

Symmetry == Permutations(Servers) \cup Permutations(MatchIDs)
=============================================================================
