SPECIFICATION Spec
CONSTANTS
  Sources <- MCSources
  FirstTier <- MCFirstTier
  Inputs <- MCInputs
INVARIANTS TypeOK EarlierDeadlineFirst NothingTwice
PROPERTY Promise
CHECK_DEADLOCK FALSE
