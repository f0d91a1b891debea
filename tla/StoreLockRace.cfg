CONSTANTS
  Procs = {p1, p2, p3}
  Threshold = 1
  MaxLag = 1
  MaxFaults = 1
  PidReuse = FALSE
  Nobody = Nobody
  NoFile = NoFile
  TornLock = TornLock
SPECIFICATION Spec
INVARIANT MutualExclusion
