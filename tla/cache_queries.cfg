\* Memoised queries and summaries of two readers, one pass at a time, with upkeep.
SPECIFICATION Spec
CONSTANTS
  m1 = m1  m2 = m2  t1 = t1  l1 = l1  r1 = r1  r2 = r2  bg = bg  q1 = q1
  Messages = {m1}
  Threads = {t1}
  Labels = {l1}
  ThreadOf <- OneThread
  MaxEvents = 2
  Queries = {q1}
  Tasks <- AllTasks
  PageSize = 1
  MaxPages = 3
  MaxFaults = 1
  Readers = {r1, r2}
  Background = bg
  SyncOnRead = FALSE
  BackgroundSync = TRUE
  Reads = {"query", "summary"}
  Upkeep = {"forget", "evict", "expire", "drop_queries", "drop_labels"}
SYMMETRY QuerySymmetry
INVARIANTS QueryHitFresh QueryHitNeverSilentlyStale
