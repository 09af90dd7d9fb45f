SPECIFICATION FairSpec
CONSTANTS
  m1 = m1
  m2 = m2
  r1 = r1
  r2 = r2
  Mails = {m1, m2}
  Addresses = {r1}
  To <- OneRecipient
  Info <- AllAttempts
  Verdicts = {"noerp"}
  MailWorkers = {"w1"}
  ErpWorkers = {"e1"}
  RetryMax = 2
  Threshold = 2
  RecoverLimit = 2
  Faults = {"raise"}
  MaxFaults = 2
  Chronic = {}
  Decisions = {}
  MaxDecisions = 0
  MaxCopies = 1
PROPERTIES
  StaleIsRecovered
CHECK_DEADLOCK FALSE
