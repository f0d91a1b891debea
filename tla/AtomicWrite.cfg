CONSTANTS
  Writers = {w1, w2}
  Values = {v1, v2, v3}
  DirSync = TRUE
  Torn = Torn
  NoFile = NoFile
SPECIFICATION Spec
INVARIANTS
  NeverTorn
  ReportsAreTrue
  FailureLeavesNoTemp
CHECK_DEADLOCK FALSE
