CONSTANTS
  s1 = s1
  s2 = s2
  s3 = s3
  e1 = e1
  e2 = e2
  Procs = {p1}
  Snapshots = {s1, s2, s3}
  Evidence = {e1, e2}
  Refs <- MCRefs
  MaxSnapshots = 2
  MaxEvidence = 2
  None = None
  Free = Free
  DeadOwner = DeadOwner
  TornLock = TornLock
SPECIFICATION RetrySpec
INVARIANT WithinLimits
PROPERTY CapturesSucceed
CHECK_DEADLOCK FALSE
