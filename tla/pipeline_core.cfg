SPECIFICATION Spec
CONSTANTS
  m1 = m1
  m2 = m2
  r1 = r1
  r2 = r2
  Mails = {m1}
  Addresses = {r1}
  To <- OneRecipient
  Info <- AllAttempts
  Verdicts = {"spam", "gray", "review", "dialog", "noerp", "register"}
  MailWorkers = {"w1", "w2"}
  ErpWorkers = {"e1"}
  RetryMax = 2
  Threshold = 3
  RecoverLimit = 2
  Faults = {"crash", "kill", "raise", "db", "broker", "erp", "lost", "attach"}
  MaxFaults = 1
  Chronic = {}
  Decisions = {"mark_spam", "mark_not_spam", "approve", "correct", "verify", "reanalyze", "restore", "retry_erp"}
  MaxDecisions = 1
  MaxCopies = 1
INVARIANTS
  TypeOK
  ClaimedDocumentExists
PROPERTIES
  LedgerSpec
CHECK_DEADLOCK FALSE
