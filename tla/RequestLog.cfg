SPECIFICATION Spec
CONSTANTS
  MaxRecords = 4
  QueueCap = 1
  MaxLines = 2
  MaxDay = 1
  MaxErrors = 1
  MaxCrashes = 1
  MaxQueries = 1
INVARIANTS Accounted ShutdownIndexed DetailFinds
