SPECIFICATION Spec
CONSTANTS
  alice = alice
  bob = bob
  s1 = s1
  s2 = s2
  NoPlayer = NoPlayer
  NoToken = NoToken
  MatchPlayers <- MCMatchPlayers
  Author <- MCAuthor
  MatchOf <- MCMatchOf
  Players = {alice, bob}
  Matches = {1}
  Submissions = {s1, s2}
  Payloads = {s1, s2}
  Workers = {w1, w2}
  Tokens = {1, 2, 3, 4}
  BatchSize = 2
  TotalTests = 1
  MaxAttempts = 1
  MaxCopies = 0
  MaxFaults = 1
INVARIANTS
  PassEndsMatch
  OutcomeAgreesWithScores
PROPERTIES
  OutcomesAreFinal
  ImplementsDuel
SYMMETRY DuelSymmetry
