SPECIFICATION Spec
CONSTANTS
  Leads = {l1, l2}
  Workers = {w1, w2}
  Admins = {a1}
  NoWorker = NoWorker
  NoLead = NoLead
  NoRequest = NoRequest
  BatchLimit = 2
  ClaimTimeout = 1
  RetryBase = 1
  RetryMax = 2
  MaxAttempts = 2
  ReturnedColumns = {"lead", "integration_error"}
  MaxLate = 1
  MaxManual = 2
SYMMETRY CrmSymmetry
INVARIANTS
  TypeOK
  LeaseHonoured
  RetriesAreBought
  ClaimsOnlyScheduled
PROPERTIES
  SyncedUnlessManual
  ExhaustedIsSpent
