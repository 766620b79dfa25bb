CONSTANTS
  None = None
  r1 = r1
  r2 = r2
  r3 = r3
  r4 = r4
  Req = {r1, r2, r3, r4}
  BlockSize = 2
  MaxSlots = 2
  NModels = 1
  EnablePrefixCaching = TRUE
  Block <- ThreeBlocks
  Prompt <- TextPrompts
  MaxOut = 2
  MaxSeqs = 2
  Chunk = 2
  TokenBudget = 4
  Cache = {1, 2, 3, 4, 5, 6, 7, 8, 9, 10, 11, 12}
  Batch = TRUE
  HostOffloads = {FALSE, TRUE}
  MinHit = 0
  Images = {}
  Session <- OneSession
  LogprobReqs = {}
  Cap = 2
  Costs <- FreeCosts
  Tok = {"a"}
  Abortable = {r2, r3, r4}
SPECIFICATION Spec
INVARIANTS
  TypeOK
  CacheHoldsOwnTokens
  SnapshotsAreHonest
  NoCacheIsShared
  RowsKeepTheirSlots
  SlotsFollowRequests
  SnapshotsAreReclaimable
PROPERTIES
  OnlyLiveKVIsSaved
  AnswersAsIfAlone
