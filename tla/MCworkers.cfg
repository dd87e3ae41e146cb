SPECIFICATION Spec
CONSTANTS
  j1 = j1
  j2 = j2
  w1 = w1
  w2 = w2
  b1 = b1
  b2 = b2
  None = None
  Jobs = {j1}
  Attempts = {a1, a2}
  Batches = {b1, b2}
  Receipts = {r1}
  Workers = {w1, w2}
  Posting <- OwnPosting
  Run <- OwnRun
  BatchOf <- BatchEach
  DryRun = {}
  HostBatch = b2
  Commands = {"reconcile"}
  MaxSubmissions = 1
  SuccessTarget = None
  Lease = 2
  Hour = 3
  HourlyMax = 2
  Gap = 0
  MaxTime = 2
SYMMETRY AttemptSymmetry
INVARIANTS
  SystemTypeOK
  OneAttemptPerJob
  NoRetryAfterSubmit
  NoSecondSubmission
PROPERTIES
  RecoveryKeepsSubmit
CHECK_DEADLOCK FALSE
