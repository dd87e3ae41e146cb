SPECIFICATION RuntimeSpec
CONSTANTS
  p1 = p1
  p2 = p2
  a1 = a1
  a2 = a2
  l1 = l1
  l2 = l2
  f1 = f1
  f2 = f2
  None = None
  Processes = {p1, p2}
  Attempts = {a1, a2}
  MaxTime = 3
  Cells = {c1, c2}
  Hosts = {h1}
  CellLease = 2
  Leases = {l1, l2}
  Runtimes = {r1, r2}
  Profiles = {f1, f2}
  TurnTtl = 2
  HandoffTtl = 1
  DefaultTtl = 2
  Turns = {1, 2, 3}
  SingleWorker = {p1, p2}
  Postings = {"old", "new"}
  Shifts <- ShortShifts
  Together = 2
  MaxChanges = 1
  MaxScores = 2
  TailorTries = 2
  LetterTries = 2
SYMMETRY RuntimeSymmetry
INVARIANTS
  RuntimeTypeOK
  TablesAgree
  LeasesAgree
  OneWorkingAgent
  WorkingIsRecorded
  UnknownSubmitIsLast
  OneBrowser
  MaterialsAgree
PROPERTIES
  ImplementsExclusion
  OnlyHolderEnds
CHECK_DEADLOCK FALSE
