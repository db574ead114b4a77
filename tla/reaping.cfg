SPECIFICATION FairSpec
CONSTANTS
  Submissions = {s1}
  FinalSubs = {}
  Workers = {w1, w2}
  ProfileOf <- MCTwo
  Verdicts = {"done"}
  Handlers = {h1, h2}
  None = None
  CandidateLimit = 2
  UseNextJob = FALSE
  PollsPerWorker = 2
  MaxUploads = 1
  MaxAttempts = 2
  MaxStream = 1
INVARIANT JobInOnePlace
PROPERTIES ClaimsEnd RunningEnds TerminalStays
