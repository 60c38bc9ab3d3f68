SPECIFICATION Spec
CONSTANTS
  Leads = {1, 2}
  Workers = {w1, w2}
  NoWorker = NoWorker
  NoLead = NoLead
  BatchLimit = 2
  ClaimTimeout = 1
  RetryAfter = 1
  MaxAttempts = 2
  ModelRetries = 0
  MaxLate = 1
SYMMETRY WorkerSymmetry
INVARIANTS
  TypeOK
  LeaseHonoured
  SavedOnce
  ClaimsOnlyPending
PROPERTIES
  SettledIsFinal
  LeaseSpec
