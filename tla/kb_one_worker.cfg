SPECIFICATION Spec
CONSTANTS
  s1 = s1
  s2 = s2
  c1 = c1
  c2 = c2
  Sources = {s1}
  Workers = {"w1"}
  Clients = {c1, c2}
  MaxJobs = 3
  ClientJobs = 3
  Starts = {"full"}
  Retries = {s1}
  Stops = {"cancel", "force", "archive", "exclude", "confirm"}
  MaxCalls = 3
  Faults = {"broker", "inspect", "early", "precheck", "source", "raise", "crash", "redeliver", "slow"}
  MaxFaults = 1
INVARIANTS
  TypeOK
  
  ReadyIsSearchable
PROPERTIES
  StopIsFinal
SYMMETRY AnyClient
CHECK_DEADLOCK FALSE
