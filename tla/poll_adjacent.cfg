SPECIFICATION FairSpec
CONSTANTS
  Letters = {1, 2, 3, 4}
  Arrival <- Workdays
  Dated <- WorkdayDates
  Demo = {3}
  CatchupDays = 7
  MaxUids = 2
  HeaderCap = 4
  Budgets = {1}
  Threshold = 2
  LastDay = 3
  Patience = 1
  MaxFaults = 1
  MaxCopies = 1
INVARIANTS
  TypeOK
  NothingOutOfReach
PROPERTIES
  EveryLetterIsTakenOn
CHECK_DEADLOCK FALSE
