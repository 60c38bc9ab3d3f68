SPECIFICATION Spec
CONSTANTS
  Leads = {1, 2}
  Workers = {w1, w2}
  NoWorker = NoWorker
  NoLead = NoLead
  BatchLimit = 2
  ClaimTimeout = 2
  RetryAfter = 2
  MaxAttempts = 2
  ModelRetries = 2
  MaxLate = 0
PROPERTY
  RetryWaitsFromFailure
