SPECIFICATION FairSpec
CONSTANTS
  Subs = {1, 2}
  Entries = {1, 2}
  Phases = {"p"}
  Users = {"u", "v"}
  EntryOf <- MCEntryOf
  PhaseOf <- MCOnePhase
  MembersOf <- MCOwnMembers
  Scores = {1}
  HigherIsBetter <- MCHigher
  Mode <- MCBest
  ScaleScores = FALSE
  Bridges = {b1}
  Handlers = {}
  BatchSize = 1
  Requests = {"rejudge"}
  Faults = {"incremental", "full"}
  MaxRequests = 1
CHECK_DEADLOCK FALSE
PROPERTY ResultsReachBoard
