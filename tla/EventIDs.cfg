SPECIFICATION EventsSpec
CONSTANTS
  alice = alice
  bob = bob
  s1 = s1
  NoPlayer = NoPlayer
  NoToken = NoToken
  MatchPlayers <- MCMatchPlayers
  Author <- MCAuthor
  MatchOf <- MCMatchOf
  Players = {alice, bob}
  Matches = {1}
  Submissions = {s1}
  Payloads = {s1}
  Workers = {w1}
  Tokens = {1, 2, 3}
  BatchSize = 1
  TotalTests = 1
  MaxAttempts = 1
  MaxCopies = 1
  MaxFaults = 0
INVARIANTS
  RepeatsShareEventID
