CONSTANTS
  v1 = v1
  shim = shim
  Installers = {i1, i2}
  Versions = {v1}
  ShimNames <- MCShimNames
  Manifest = Manifest
  Absent = Absent
  Dangling = Dangling
  Foreign = Foreign
  MaxFaults = 1
SPECIFICATION Spec
INVARIANTS
  FailureLeavesPrefix
  PreviousSurvives
  SuccessIsComplete
PROPERTY ForceIsNeeded
SYMMETRY InstallerSymmetry
