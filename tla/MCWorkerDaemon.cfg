SPECIFICATION FairSpec
CONSTANTS
  BatchLimit = 1
  StalledLimit = 2
  CrashLimit = 2
  MinSample = 1
  ErrorPercent = 50
  Cooldown = 3
INVARIANT
  TypeOK
PROPERTIES
  IncidentKeysFresh
  ShutdownTakesEffect
  StuckQueueReported
  ProcessingGoesOn
