SPECIFICATION Spec
CONSTANTS
  Users = {u1, u2}
  Teams = {t1, t2}
  Entries = {e1, e2}
  Subs = {s1, s2, s3, s4, s5, s6}
  Phases = {p1, p2}
  Handlers = {h1, h2}
  Modes = {"official"}
  Limit <- MCLimit
  None = None
  Gone = Gone
  MaxRequests = 3
  Faults = TRUE
  FileLists <- MCFileLists
  SizeLimit <- MCSizeLimit
  Registered <- MCRegistered
  e1 = e1
  u1 = u1
  p1 = p1
  p2 = p2
  s1 = s1
  s2 = s2
  s3 = s3
  t1 = t1
  u2 = u2
  Owned <- MCOwned
  Lineups <- MCLineups
  Submitted <- MCSubmitted
SYMMETRY Symmetry
CHECK_DEADLOCK FALSE
INVARIANTS TypeOK SubmissionsAnchored Consented OneEntryPerMode LimitOvershoot FilesCoverCount QueuedFits FinalsBounded
