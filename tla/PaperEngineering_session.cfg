SPECIFICATION FairSpec
CONSTANTS
  MaxQty = 2
  MaxFaults = 2
  MaxRestarts = 2
INVARIANTS
  TypeOK
  FlatClaimsHold
  CompletedIsFlat
  ActiveIsCovered
PROPERTIES
  PositionIsManaged
  ImplementsTradeRecord
CHECK_DEADLOCK FALSE
