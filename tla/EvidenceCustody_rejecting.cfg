SPECIFICATION FairSpec
CONSTANTS
  QueueCapacity = 2
  HistoryCapacity = 3
  CheckpointEachIntent = FALSE
  PayloadMayExceed = TRUE
  WriterRejects = TRUE
  MaxBatch = 2
  MaxEmissions = 2
  MaxStops = 2
  MaxRetries = 1
  MaxReplacements = 1
  NoCheckpoint = NoCheckpoint
INVARIANTS
  LineageLinked
  QueueIsOwedHistory
  DurableLineage
PROPERTIES
  ImplementsOutbox
  OwedIsDelivered
CHECK_DEADLOCK FALSE
