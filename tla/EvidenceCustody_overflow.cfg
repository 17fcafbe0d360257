SPECIFICATION Spec
CONSTANTS
  QueueCapacity = 2
  HistoryCapacity = 3
  CheckpointEachIntent = TRUE
  PayloadMayExceed = TRUE
  WriterRejects = FALSE
  MaxBatch = 2
  MaxEmissions = 4
  MaxStops = 2
  MaxRetries = 1
  MaxReplacements = 1
  NoCheckpoint = NoCheckpoint
INVARIANTS
  CheckpointRestorable
CHECK_DEADLOCK FALSE
