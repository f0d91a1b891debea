CONSTANTS
  Procs = {p1, p2, p3}
  Threshold = 1
  MaxLag = 2
  MaxFaults = 2
  PidReuse = FALSE
  Nobody = Nobody
  NoFile = NoFile
  TornLock = TornLock
SPECIFICATION FairSpec
INVARIANTS
  ExclusionUnlessRaced
  JudgementsSound
PROPERTIES
  LockUntilRaced
  OrphansReclaimed
