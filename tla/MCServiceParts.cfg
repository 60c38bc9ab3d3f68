SPECIFICATION ServiceSpec
CONSTANTS
  Keys = {k1, k2}
  Submissions = {s1, s2, s3}
  Nobody = Nobody
  Window = 2
  LastDay = 2
  MaxLate = 2
  MaxBytes = 2
  MaxMessages = 3
  Proxies = {p1, p2}
  Clients = {c1, c2}
  MaxHops = 3
  MaxClaimed = 2
  MaxProxies = 2
  PageLeads = {s1, s2, s3}
  MaxTime = 2
  MaxLimit = 2
  QueueLeads = {q1, q2}
  CountAttempts = 2
  ClaimAttempts = 3
  BackoffTime = 1
  LastTick = 2
  MaxPieces = 6
  Cap = 2
  MaxSet = 2
  MaxDelays = 4
  Callers = {s1, s2, s3}
  Overflow = Overflow
  PerMinute = 2
  PerHour = 3
  Minute = 2
  Hour = 4
  MaxTracked = 1
  CleanupInterval = 3
SYMMETRY ServiceSymmetry
INVARIANTS
  ServiceTypeOK
  AnswersAgree
  BodyPassedOn
  KeyIsTheClients
  WalkMissesNothing
  MetricsOffByMovers
  AnswersAreUnderstood
  AcceptedMeansUsable
  KeyLimits
PROPERTIES
  StoreSpec
  RetryAfterIsExact
CHECK_DEADLOCK FALSE
