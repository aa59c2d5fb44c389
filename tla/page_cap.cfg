\* More history than one call reads (MAX_HISTORY_PAGES_PER_CALL = 1).
SPECIFICATION Spec
CONSTANTS
  m1 = m1  m2 = m2  t1 = t1  l1 = l1  r1 = r1  r2 = r2  bg = bg  q1 = q1
  Messages = {m1, m2}
  Threads = {t1}
  Labels = {l1}
  ThreadOf <- OneThread
  MaxEvents = 4
  Queries = {q1}
  Tasks <- AllTasks
  PageSize = 1
  MaxPages = 1
  MaxFaults = 0
  Readers = {r1}
  Background = bg
  SyncOnRead = FALSE
  BackgroundSync = TRUE
  Reads = {"thread"}
  Upkeep = {}
SYMMETRY MessageSymmetry
PROPERTY NoRecordSkipped
