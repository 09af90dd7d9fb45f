SPECIFICATION FairSpec
CONSTANTS
  m1 = m1
  m2 = m2
  r1 = r1
  r2 = r2
  Mails = {m1}
  Addresses = {r1, r2}
  To <- TwoRecipients
  Info <- AllAttempts
  Verdicts = {"spam", "gray", "review", "dialog", "noerp", "register"}
  MailWorkers = {"w1"}
  ErpWorkers = {"e1"}
  RetryMax = 2
  Threshold = 3
  RecoverLimit = 2
  Faults = {"erp", "attach", "raise"}
  MaxFaults = 3
  Chronic = {}
  Decisions = {}
  MaxDecisions = 0
  MaxCopies = 2
INVARIANTS
  AtMostOneDocument
PROPERTIES
  EveryAttemptSettles
CHECK_DEADLOCK FALSE
