SPECIFICATION Spec
CONSTANTS
  NumIntents = 1
  RecordOf <- MC_DistinctRecords
  Sessions = {1, 2, 3, 4, 5, 6, 7, 8, 9}
  Handlers = {1, 2}
  GenerationFaults = FALSE
  MaxTimeouts = 1
  MaxFaults = 0
  MaxCrashes = 0
INVARIANTS
  PermanentMeansNotWritten
CHECK_DEADLOCK FALSE
