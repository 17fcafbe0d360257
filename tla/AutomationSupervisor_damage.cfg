SPECIFICATION FairSpec
CONSTANTS
  Services = {s1}
  Jobs <- Day
  Order <- DayOrder
  Kind <- DayKind
  Scheduled <- DayScheduled
  Latest <- DayLatest
  Dependency <- DayDependency
  None = None
  RetainedGenerations = 2
  MaxTime = 3
  MaxFaults = 2
  MaxLaunches = 3
INVARIANTS
  TypeOK
  LaunchedAfterDependency
PROPERTIES
  LedgerSpec
  EveryJobAnswered
CHECK_DEADLOCK FALSE
