SPECIFICATION Spec
CONSTANTS
  alice = alice
  bob = bob
  s1 = s1
  s2 = s2
  NoPlayer = NoPlayer
  NoToken = NoToken
  MatchPlayers <- MCMatchPlayers
  Author <- MCAuthor
  MatchOf <- MCMatchOf
  Players = {alice, bob}
  Matches = {1}
  Submissions = {s1}
  Payloads = {s1}
  Workers = {w1, w2}
  Tokens = {1, 2, 3, 4}
  BatchSize = 1
  TotalTests = 1
  MaxAttempts = 2
  MaxCopies = 1
  MaxFaults = 2
INVARIANTS
  TypeOK
  AttemptBudget
  SingleOwner
  EventsAreTrue
PROPERTIES
  ResultsAreFinal
SYMMETRY WorkerSymmetry
