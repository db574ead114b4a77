SPECIFICATION Spec
CONSTANTS
  c1 = c1
  t1 = t1
  None = None
  Gone = Gone
  Contests = {c1, c2}
  Tasks = {t1, t2}
  Phases = {p1}
  SetKeys <- MCSetKeys
  StandardKeys <- MCStandardKeys
  AssetKeys <- MCAssetKeys
  Schemas <- MCSchemas
  Limits = {1}
  Handlers = {h1, h2}
  MaxRequests = 4
  Faults = TRUE
  Drafts = {c1}
  Schema <- MCDefault
  Prepared <- MCPrepared
  AssetLists <- MCAssetLists
  Frozen = {TRUE}
  Urls <- MCUrls
SYMMETRY Symmetry
CHECK_DEADLOCK FALSE
INVARIANTS TypeOK VerifiedStaysReady PhasesAnchored SeedingCompletes
PROPERTIES UsedPhasesKept StatementStaysServed
