SPECIFICATION Spec
CONSTANTS
  Subs = {1, 2, 3}
  Entries = {1, 2}
  Phases = {"p"}
  Users = {"u", "v"}
  EntryOf <- MCEntryOf
  PhaseOf <- MCOnePhase
  MembersOf <- MCShared
  Scores = {1, 2}
  HigherIsBetter <- MCHigher
  Mode <- MCBest
  ScaleScores = FALSE
  Bridges = {b1}
  Handlers = {h1}
  BatchSize = 1
  Requests = {"final"}
  Faults = {}
  MaxRequests = 1
CHECK_DEADLOCK FALSE
INVARIANTS TypeOK TaskRowsFollow ContestBoardFollows RankingFollows PageInOrder
