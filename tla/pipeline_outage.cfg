SPECIFICATION FairSpec
CONSTANTS
  m1 = m1
  m2 = m2
  r1 = r1
  r2 = r2
  Mails = {m1}
  Addresses = {r1}
  To <- OneRecipient
  Info <- AllAttempts
  Verdicts = {"gray", "review", "register"}
  MailWorkers = {"w1"}
  ErpWorkers = {"e1"}
  RetryMax = 2
  Threshold = 3
  RecoverLimit = 2
  Faults = {"raise", "crash", "lost"}
  MaxFaults = 2
  Chronic = {"erp", "attach"}
  Decisions = {"approve"}
  MaxDecisions = 2
  MaxCopies = 1
INVARIANTS
  DuplicatesAreCounted
  DoneIsRegisteredOrPending
PROPERTIES
  RetriesEnd
  OutageIsReported
  EveryAttemptSettles
CHECK_DEADLOCK FALSE
