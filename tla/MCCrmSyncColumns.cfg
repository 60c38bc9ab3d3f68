SPECIFICATION FairSpec
CONSTANTS
  Leads = {l1}
  Workers = {w1, w2}
  Admins = {a1}
  NoWorker = NoWorker
  NoLead = NoLead
  NoRequest = NoRequest
  BatchLimit = 1
  ClaimTimeout = 1
  RetryBase = 1
  RetryMax = 2
  MaxAttempts = 2
  ReturnedColumns = {"lead"}
  MaxLate = 1
  MaxManual = 2
PROPERTY
  DueIsClaimed
