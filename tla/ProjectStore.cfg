CONSTANTS
  s1 = s1
  s2 = s2
  s3 = s3
  e1 = e1
  e2 = e2
  Procs = {p1, p2}
  Snapshots = {s1, s2}
  Evidence = {e1, e2}
  Refs <- MCRefs2
  MaxSnapshots = 2
  MaxEvidence = 2
  None = None
  Free = Free
  DeadOwner = DeadOwner
  TornLock = TornLock
SYMMETRY ProcSymmetry
SPECIFICATION Spec
INVARIANTS
  RecordsBeforeManifest
  InventoryIsCited
  AppendIsFresh
  AckedIsDurable
  SuccessLeavesNoStaging
  ConflictsAreRaces
PROPERTY AppendOnlyLog
