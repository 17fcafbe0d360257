SPECIFICATION FairSpec
CONSTANTS
  Services = {s1, s2}
  Jobs <- Pair
  Order <- PairOrder
  Kind <- PairKind
  Scheduled <- PairScheduled
  Latest <- PairLatest
  Dependency <- PairDependency
  None = None
  RetainedGenerations = 2
  MaxTime = 2
  MaxFaults = 1
  MaxLaunches = 3
INVARIANTS
  NeverContradicts
PROPERTIES
  LedgerSpec
CHECK_DEADLOCK FALSE
