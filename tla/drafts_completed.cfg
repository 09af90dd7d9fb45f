SPECIFICATION Spec
CONSTANTS
  w1 = w1
  c1 = c1
  Workers = {w1}
  Clients = {c1}
  Beat = beat
  Docs <- FourDocs
  None = None
  Kinds = {"series"}
  Leads = {"ahead"}
  Faults = {}
  MaxEvents = 1
INVARIANTS
  CompletedMeansClosed
CHECK_DEADLOCK FALSE
