\* Full-thread reads, one sync pass at a time (sync_on_read off).
SPECIFICATION Spec
CONSTANTS
  m1 = m1  m2 = m2  t1 = t1  l1 = l1  r1 = r1  r2 = r2  bg = bg  q1 = q1
  Messages = {m1, m2}
  Threads = {t1}
  Labels = {l1}
  ThreadOf <- OneThread
  MaxEvents = 3
  Queries = {q1}
  Tasks <- AllTasks
  PageSize = 1
  MaxPages = 3
  MaxFaults = 2
  Readers = {r1}
  Background = bg
  SyncOnRead = FALSE
  BackgroundSync = TRUE
  Reads = {"thread"}
  Upkeep = {"forget", "purge"}
SYMMETRY MessageSymmetry
INVARIANTS ThreadHitCoherent ServedThreadCoherent
PROPERTY WatermarkMonotone NoRecordSkipped
