SPECIFICATION Spec
CONSTANTS
  Services = {s1}
  Jobs <- Day
  Order <- DayOrder
  Kind <- DayKind
  Scheduled <- DayScheduled
  Latest <- DayLatest
  Dependency <- DayDependency
  None = None
  RetainedGenerations = 2
  MaxTime = 3
  MaxFaults = 0
  MaxLaunches = 3
INVARIANT
  NoLateStart
CHECK_DEADLOCK FALSE
