\* Two concurrent tool calls over one audit log.
SPECIFICATION FairSpec
CONSTANTS
  c1 = c1  c2 = c2  a1 = a1  a2 = a2  a3 = a3
  Calls = {c1, c2}
  RotateModes <- DailyOrSize
  DeleteAfter = 1
  MaxDay = 1
  MaxFaults = 1
  Plans <- MailPlans
  Env <- Built
  Accounts = {a1, a2}
  MaxBatch = 2
  Slots = 1
  PerAccount = 1
  TotalTime = 2
INVARIANTS IntentOutlivesChange OnlyAskedFor ReplyTruth FanoutComplete
PROPERTY SweepSparesYoungRows FanoutEnds
CHECK_DEADLOCK FALSE
