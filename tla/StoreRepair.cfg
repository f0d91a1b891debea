CONSTANTS
  s1 = s1
  s2 = s2
  e1 = e1
  Procs = {p1, p2}
  Snapshots = {s1, s2}
  Evidence = {e1}
  Refs <- MCRefs
  MaxDamage = 1
  MaxFaults = 1
  Free = Free
  DeadOwner = DeadOwner
  TornLock = TornLock
SYMMETRY Symmetry
SPECIFICATION Spec
INVARIANTS
  OriginalsPreserved
  ReceiptMeansVerified
PROPERTY RepairKeepsTheGood
