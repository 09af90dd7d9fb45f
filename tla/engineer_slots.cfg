SPECIFICATION Spec
CONSTANTS
  N = 2
  Workers = {"w1"}
  Polls = {"reorder"}
  Syncs = {}
  Slots = 1
  MaxRetries = 2
  MaxCopies = 2
  Overlap = FALSE
  Faults = {}
  MaxFaults = 0
INVARIANTS
  ActiveSlots
CHECK_DEADLOCK FALSE
