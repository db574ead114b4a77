SPECIFICATION Spec
CONSTANTS
  Submissions = {s1}
  FinalSubs = {}
  Workers = {w1, w2}
  ProfileOf <- MCTwo
  Verdicts = {"done"}
  Handlers = {h1, h2}
  None = None
  CandidateLimit = 2
  UseNextJob = FALSE
  PollsPerWorker = 1
  MaxUploads = 2
  MaxAttempts = 2
  MaxStream = 1
SYMMETRY Symmetry
INVARIANTS TypeOK Fenced
PROPERTIES NewestAttemptWins ImplementsLease
