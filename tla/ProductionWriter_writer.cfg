SPECIFICATION FairSpec
CONSTANTS
  NumIntents = 3
  RecordOf <- MC_SharedRecord
  Sessions = {1, 2, 3, 4, 5, 6, 7, 8, 9}
  Handlers = {1, 2}
  GenerationFaults = TRUE
  MaxTimeouts = 1
  MaxFaults = 1
  MaxCrashes = 1
INVARIANTS
  TypeOK
  GenerationsContiguous
  AcceptanceOwnsGeneration
PROPERTIES
  EveryIntentAnswered
  ImplementsEvidenceLog
CHECK_DEADLOCK FALSE
