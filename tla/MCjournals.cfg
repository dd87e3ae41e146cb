SPECIFICATION JournalsSpec
CONSTANTS
  p1 = p1
  p2 = p2
  s1 = s1
  s2 = s2
  None = None
  Processes = {p1, p2}
  Attempts = {"a1"}
  MaxTime = 0
  Scopes = {s1, s2}
  MaxLease = 3
  MaxEpoch = 1
  FieldSets = {{"city"}, {"city", "phone"}}
  Batches = {1, 2}
  MaxTabLease = 3
  Tasks = {"read", "effect"}
  Reads = {"read"}
  Runnable = {"read"}
  RetryBudget = 1
  MaxFaults = 2
  Threads = {p1, p2}
  Urls = {s1, s2}
  NoUrl = NoUrl
  PreviewTarget = 1
  SuccessTarget = 1
  SlotCap = 2
  Orders = {1, 2, 3}
  Owner = Owner
  RecoveryBudget = 2
  PipelineJobs = {"j1"}
  Selections = {{"discover", "score"}, {"discover", "enrich", "score"}, {"tailor", "pdf"}, {"tailor", "cover", "pdf"}}
  FailureBudget = 2
  Nodes = {1, 2, 3, 4}
  Deps <- ChainDeps
  Required <- ChainDeps
  Claims <- ChainClaims
  Largest <- ChainLargest
  Conflicts <- ChainConflicts
  Retries <- FirstRetries
  Rank <- SecondFirst
  Counting = {3, 4}
  Timed = {1, 3}
  Resources = {"lane"}
  CapacityOf <- TwoLanes
  ConflictKeys = {"page"}
  GraphWorkers = 2
  GraphTarget = 1
  Calls = {"look", "type"}
  Effectful = {"type"}
SYMMETRY JournalSymmetry
INVARIANTS
  JournalsTypeOK
  UploadsAgree
  BatchIsExact
  CancelHolds
  EffectsOnce
  ClaimsBounded
  RunAccounts
  VerdictsAgree
  EffectsExact
  StagesDrain
  GraphIsScheduled
  SupervisedTurn
PROPERTIES
  LegacyBeforeUpload
CHECK_DEADLOCK FALSE
