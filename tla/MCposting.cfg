SPECIFICATION Spec
CONSTANTS
  j1 = j1
  j2 = j2
  w1 = w1
  w2 = w2
  b1 = b1
  b2 = b2
  None = None
  Jobs = {j1, j2}
  Attempts = {a1, a2}
  Batches = {b1}
  Receipts = {}
  Workers = {w1, w2}
  Posting <- OnePosting
  Run <- OneRun
  BatchOf <- OneBatch
  DryRun = {}
  HostBatch = None
  Commands = {}
  MaxSubmissions = 2
  SuccessTarget = None
  Lease = 2
  Hour = 3
  HourlyMax = 2
  Gap = 0
  MaxTime = 2
SYMMETRY AttemptSymmetry
INVARIANTS
  NoSecondSubmission
CHECK_DEADLOCK FALSE
