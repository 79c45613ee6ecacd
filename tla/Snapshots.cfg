SPECIFICATION SnapshotSpec
CONSTANTS
    p1 = p1
    p2 = p2
    NoPlayer = NoPlayer
    NoMatch = NoMatch
    Players = {p1, p2}
    Users = {p1}
    Matches = {1}
    MatchPlayers <- MCMatchPlayers
    Submissions = {11, 12, 13}
    Author <- MCAuthor
    MatchOf <- MCMatchOf
    TotalTests = 1
    MaxShown = 1
    MaxLoads = 2
INVARIANTS
    OutcomeExplained
PROPERTIES
    NeverGoesBack
    NothingMissing
CHECK_DEADLOCK FALSE
