\* Passes of the background task and of sync_on_read reads that overlap.
SPECIFICATION FairSpec
CONSTANTS
  m1 = m1  m2 = m2  t1 = t1  l1 = l1  r1 = r1  r2 = r2  bg = bg  q1 = q1
  Messages = {m1}
  Threads = {t1}
  Labels = {l1}
  ThreadOf <- OneThread
  MaxEvents = 3
  Queries = {q1}
  Tasks <- AllTasks
  PageSize = 2
  MaxPages = 3
  MaxFaults = 1
  Readers = {r1}
  Background = bg
  SyncOnRead = TRUE
  BackgroundSync = TRUE
  Reads = {"thread"}
  Upkeep = {"forget", "drop_labels"}
INVARIANTS HitShowsItsMessages
PROPERTY EventuallyCaughtUp ReadsEnd
