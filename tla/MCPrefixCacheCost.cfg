CONSTANTS
  NoId = NoId
  CacheId = {c1, c2, c3}
  c1 = c1
  c2 = c2
  c3 = c3
  Batch = TRUE
  KvBlockSize = 1
  MaxSeqLen = 5
  Time = {1, 3}
  LeastTime = 1
  MostTime = 3
  AutoThreshold = TRUE
  MinHit = 2
  HostOffload = TRUE
  MarginNum = 9
  MarginDen = 10
  AlphaNum = 1
  AlphaDen = 2
SPECIFICATION CostSpec
INVARIANTS
  KeepIsExact
CHECK_DEADLOCK FALSE
