SPECIFICATION FairSpec
CONSTANTS
  s1 = s1
  s2 = s2
  c1 = c1
  c2 = c2
  Sources = {s1}
  Workers = {"w1", "w2"}
  Clients = {c1}
  MaxJobs = 4
  ClientJobs = 1
  Starts = {"full"}
  Retries = {}
  Stops = {"cancel"}
  MaxCalls = 2
  Faults = {"broker", "inspect", "early", "source", "raise", "crash", "slow"}
  MaxFaults = 2
PROPERTIES
  JobsSettle
  
CHECK_DEADLOCK FALSE
