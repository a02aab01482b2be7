SPECIFICATION Spec
SYMMETRY Symmetric
CONSTANTS
  p1 = p1
  p2 = p2
  Procs <- MCProcs
  Ids <- MCIds
  LegacyId = 1
  Big <- MCBig
  MaxVer = 3
  MaxOps = 4
  MaxFaults = 2
  MaxSwitches = 1
INVARIANTS KeepsSecrets StaysRemoved RemovalCleans
CONSTRAINT Unraced
CHECK_DEADLOCK FALSE
