SPECIFICATION LimiterSpec
CONSTANTS
  Callers = {c1, c2, c3}
  Overflow = Overflow
  PerMinute = 1
  PerHour = 2
  Minute = 2
  Hour = 4
  MaxTracked = 2
  CleanupInterval = 3
SYMMETRY ClientSymmetry
INVARIANT
  ClientLimit
