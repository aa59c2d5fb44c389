\* Two calls, and futures dropped at any await.
SPECIFICATION FairSpec
CONSTANTS
  c1 = c1  c2 = c2  c3 = c3
  Calls = {c1, c2}
  Nobody = Nobody
  Buffer = 1
  Lifetimes = {1, 2}
  CoolMax = 2
  Cancels = TRUE
  MaxTime = 2
  MaxGrants = 3
  MaxFaults = 1
INVARIANTS OneRefresher RetryWithNewerToken OneRenewal
PROPERTY CallsEnd
