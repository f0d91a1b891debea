CONSTANTS
  Procs = {p1, p2}
  Snapshots <- MCSnapshots
  Inherited <- MCInherited
  Time <- MCTime
  LatestV1 = 3
  None = None
  Free = Free
SPECIFICATION Spec
INVARIANTS
  MigrationKeepsAll
  BackupIsWhatWasMigrated
PROPERTY ChronologyIsKept
