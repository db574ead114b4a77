SPECIFICATION Spec
CONSTANTS
  w1 = w1
  w2 = w2
  s1 = s1
  s2 = s2
  None = None
  Workers = {w1, w2}
  Submissions = {s1, s2}
  FinalSubs = {s2}
  Handlers = {h1, h2}
  ProfileOf <- MCProfileOf
  BenchmarkOf <- MCBenchmarkOf
  OutputDemand <- MCOutputDemand
  FinalDemand <- MCFinalDemand
  BytesOf <- MCBytesOf
  Approved = {w2}
  History <- MCHistory
  RunOf <- MCRunOf
  MaxApprovals <- MCMaxApprovals
  MaxAttempts = 2
SYMMETRY Symmetry
CHECK_DEADLOCK FALSE
INVARIANTS
  TypeOK
  CountersMatchEvents
  OutcomeRecordedOnce
  FreeSlotsAreClaimable
  BestWorkerCanTakeIt
  CorrectionFollowsRuns
PROPERTY ImplementsLease
