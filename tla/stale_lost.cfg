SPECIFICATION FairSpec
CONSTANTS
  Submissions = {s1}
  FinalSubs = {}
  Workers = {w1}
  ProfileOf <- MCSingle
  Verdicts = {"done"}
  Handlers = {h1, h2}
  None = None
  CandidateLimit = 2
  UseNextJob = FALSE
  PollsPerWorker = 1
  MaxUploads = 1
  MaxAttempts = 2
  MaxStream = 1
PROPERTIES StaleJobRequeued
