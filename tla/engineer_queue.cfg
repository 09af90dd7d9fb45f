SPECIFICATION FairSpec
CONSTANTS
  N = 3
  Workers = {"w1"}
  Polls = {"reorder"}
  Syncs = {}
  Slots = 1
  MaxRetries = 2
  MaxCopies = 2
  Overlap = FALSE
  Faults = {"raise", "redeliver", "crash", "broker", "rollback"}
  MaxFaults = 2
INVARIANTS
  TypeOK
  ClaimsAreBounded
  OneMessage
  ClaimedIsOnItsWay
PROPERTIES
  EveryCalculationEnds
CHECK_DEADLOCK FALSE
