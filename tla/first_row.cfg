SPECIFICATION Spec
CONSTANTS
  Subs = {1, 2, 3}
  Entries = {1, 2}
  Phases = {"p"}
  Users = {"u", "v"}
  EntryOf <- MCEntryOf
  PhaseOf <- MCOnePhase
  MembersOf <- MCOwnMembers
  Scores = {1, 2}
  HigherIsBetter <- MCHigher
  Mode <- MCBest
  ScaleScores = FALSE
  Bridges = {b1}
  Handlers = {}
  BatchSize = 1
  Requests = {}
  Faults = {}
  MaxRequests = 0
CHECK_DEADLOCK FALSE
INVARIANT TaskRowPublished
