SPECIFICATION Spec
CONSTANTS
  QueueCapacity = 2
  HistoryCapacity = 3
  CheckpointEachIntent = FALSE
  PayloadMayExceed = FALSE
  WriterRejects = FALSE
  MaxBatch = 2
  MaxEmissions = 4
  MaxStops = 2
  MaxRetries = 1
  MaxReplacements = 1
  NoCheckpoint = NoCheckpoint
INVARIANTS
  OneRecordPerSequence
CHECK_DEADLOCK FALSE
