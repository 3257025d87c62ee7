SPECIFICATION Spec
CONSTANTS
  i1 = i1
  i2 = i2
  a1 = a1
  b1 = b1
  a2 = a2
  s1 = s1
  s2 = s2
  f1 = f1
  f2 = f2
  w1 = w1
  w2 = w2
  None = None
  Items = {i1, i2}
  Answers = {a1, a2}
  ItemOf <- MCItemOf
  Batches <- MCBatches
  MaxRawEvents = 1000
  Submitters = {s1}
  Flushers = {f1, f2}
  Sweepers = {w1}
  Events = {"crash", "flushError"}
  MaxFaults = 1
INVARIANTS AppliedAtMostOnce OneFlusher 
CHECK_DEADLOCK FALSE
