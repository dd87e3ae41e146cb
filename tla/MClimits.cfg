SPECIFICATION Spec
CONSTANTS
  j1 = j1
  j2 = j2
  w1 = w1
  w2 = w2
  b1 = b1
  b2 = b2
  None = None
  Jobs = {j1, j2}
  Attempts = {a1, a2}
  Batches = {b1, b2}
  Receipts = {}
  Workers = {w1}
  Posting <- OwnPosting
  Run <- OwnRun
  BatchOf <- BatchEach
  DryRun = {}
  HostBatch = b2
  Commands = {"reset", "mark_applied"}
  MaxSubmissions = 1
  SuccessTarget = None
  Lease = 2
  Hour = 1
  HourlyMax = 1
  Gap = 0
  MaxTime = 2
SYMMETRY JobSymmetry
INVARIANTS
  GatesMatchUses
  BatchCapacity
  RollingCap
CHECK_DEADLOCK FALSE
