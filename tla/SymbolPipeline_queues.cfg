SPECIFICATION FairSpec
CONSTANTS
  Symbols = {"A", "B", "C"}
  Events <- MC_Events
  EventWork <- MC_EventWork
  ReadinessCapacity = 2
  CompositionCapacity = 1
  MaxTracked = 2
  EventCapacity = 1
  SaveMidWork = TRUE
  PulsePriority = 60
  MaxTime = 2
  MaxPulses = 1
  MaxStops = 1
  NoWork = NoWork
  NoCheckpoint = NoCheckpoint
INVARIANTS
  TypeOK
  BoundedAndRestorable
  NothingForgotten
PROPERTIES
  BoundHasLeastPriority
  DisplaceableRequestAnswered
CHECK_DEADLOCK FALSE
