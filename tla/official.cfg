SPECIFICATION OfficialSpec
CONSTANTS
  Submissions = {s1}
  FinalSubs = {}
  Workers = {w1}
  ProfileOf <- MCSingle
  Verdicts = {"done"}
  Handlers = {h1}
  None = None
  CandidateLimit = 2
  UseNextJob = FALSE
  PollsPerWorker = 1
  MaxUploads = 1
  MaxAttempts = 1
  MaxStream = 1
  Batch = 10
PROPERTIES FinishedNotJudgedAgain
