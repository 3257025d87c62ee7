SPECIFICATION FairSpec
CONSTANTS
  i1 = i1
  i2 = i2
  a1 = a1
  b1 = b1
  a2 = a2
  s1 = s1
  s2 = s2
  f1 = f1
  f2 = f2
  w1 = w1
  w2 = w2
  None = None
  Items = {i1, i2}
  Answers = {a1}
  ItemOf <- MCItemOf
  Batches <- MCBatches
  MaxRawEvents = 1000
  Submitters = {s1}
  Flushers = {}
  Sweepers = {w1}
  Events = {"viewActive", "restart", "settings", "deleteSet", "crash", "flushError", "deleteError", "loseEverything", "evict", "lockExpiry"}
  MaxFaults = 2
INVARIANTS TypeOK 
PROPERTIES  LockFreed
CHECK_DEADLOCK FALSE
