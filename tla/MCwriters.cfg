SPECIFICATION Spec
CONSTANTS
  j1 = j1
  j2 = j2
  w1 = w1
  w2 = w2
  b1 = b1
  b2 = b2
  None = None
  Jobs = {j1, j2}
  Attempts = {a1, a2}
  Batches = {b1}
  Receipts = {r1, r2}
  Workers = {w1, w2}
  Posting <- OwnPosting
  Run <- OwnRun
  BatchOf <- OneBatch
  DryRun = {}
  HostBatch = None
  Commands = {}
  MaxSubmissions = 2
  SuccessTarget = 1
  Lease = 2
  Hour = 3
  HourlyMax = 2
  Gap = 1
  MaxTime = 2
SYMMETRY WorkerSymmetry
INVARIANTS
  SingleWriter
  OneSubmitter
  ClaimsSpaced
  TargetNotExceeded
CHECK_DEADLOCK FALSE
