SPECIFICATION FairSpec
CONSTANTS
  w1 = w1
  c1 = c1
  Workers = {w1}
  Clients = {c1}
  Beat = beat
  Docs <- FourDocs
  None = None
  Kinds = {"series", "memo"}
  Leads = {"ahead"}
  Faults = {"onec", "read", "delete", "refuse", "crash", "copy"}
  MaxEvents = 2
INVARIANTS
  TypeOK
  RefIsLive
  DraftIsOnTheWay
PROPERTIES
  DraftComes
CHECK_DEADLOCK FALSE
