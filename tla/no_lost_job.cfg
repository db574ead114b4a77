SPECIFICATION ReliableSpec
CONSTANTS
  Submissions = {s1, s2}
  FinalSubs = {s2}
  Workers = {w1}
  ProfileOf <- MCExclusive
  Verdicts = {"done", "failed"}
  Handlers = {h1, h2}
  None = None
  CandidateLimit = 2
  UseNextJob = TRUE
  PollsPerWorker = 1
  MaxUploads = 1
  MaxAttempts = 2
  MaxStream = 1
SYMMETRY Symmetry
INVARIANTS NoLostJob CommittedIsAnnounced CapacityRespected
