CONSTANTS
  s1 = s1
  s2 = s2
  s3 = s3
  e1 = e1
  Procs = {p1}
  Snapshots = {s1, s2, s3}
  Evidence = {e1}
  Refs <- MCRefs
  MaxSnapshots = 3
  MaxEvidence = 1
  MaxFaults = 0
  None = None
  Free = Free
  DeadOwner = DeadOwner
  TornLock = TornLock
SYMMETRY SnapshotSymmetry
SPECIFICATION ReadersSpec
INVARIANTS
  ReadersFindTheirRecords
  ComparedAreNeighbours
  DisagreementsAreRaces
  ExportHoldsWhatItVerified
