CONSTANTS
  s1 = s1
  s2 = s2
  e1 = e1
  Procs = {p1}
  Snapshots = {s1, s2}
  Evidence = {e1}
  Refs <- MCRefs
  MaxDamage = 2
  MaxFaults = 1
  Free = Free
  DeadOwner = DeadOwner
  TornLock = TornLock
SPECIFICATION RepairSpec
PROPERTY RepairsConverge
