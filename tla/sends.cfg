\* Three sends, two of them the same message, and reads beside them.
SPECIFICATION FairSpec
CONSTANTS
  s1 = s1  s2 = s2  s3 = s3
  Calls = {s1, s2, s3}
  Account <- Owners
  Plans <- Plenty
  Window = 2
  Capacity = 150
  RefillPerSec = 50
  Micro = 1
  TicksPerMicro = 2
  ProjectDaily = 120
  DayTicks = 2
  MaxRetries = 1
  BaseDelay = 1
  RetryAfters = {0}
  MaxClock = 2
  MaxFaults = 1
INVARIANTS SentOnceWithinWindow WithinQuota HintIsTight
PROPERTY SendsEnd
CHECK_DEADLOCK FALSE
