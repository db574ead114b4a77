SPECIFICATION Spec
CONSTANTS
  Subs = {1, 2}
  Entries = {1, 2}
  Phases = {"p", "q"}
  Users = {"u", "v"}
  EntryOf <- MCEntryOf
  PhaseOf <- MCTwoPhases
  MembersOf <- MCOwnMembers
  Scores = {1}
  HigherIsBetter <- MCHigher
  Mode <- MCLatest
  ScaleScores = FALSE
  Bridges = {b1}
  Handlers = {h1}
  BatchSize = 2
  Requests = {"task", "contest", "global", "disqualify"}
  Faults = {"full", "read", "emit", "boards", "crash"}
  MaxRequests = 1
CHECK_DEADLOCK FALSE
INVARIANT ChosenIsOwn
