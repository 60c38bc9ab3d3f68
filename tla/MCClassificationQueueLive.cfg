SPECIFICATION FairSpec
CONSTANTS
  Leads = {1, 2}
  Workers = {w1, w2}
  NoWorker = NoWorker
  NoLead = NoLead
  BatchLimit = 1
  ClaimTimeout = 1
  RetryAfter = 1
  MaxAttempts = 2
  ModelRetries = 0
  MaxLate = 0
PROPERTY
  EveryLeadResolved
