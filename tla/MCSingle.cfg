CONSTANTS
  None = None
  r1 = r1
  r2 = r2
  r3 = r3
  r4 = r4
  Req = {r1, r2, r3, r4}
  BlockSize = 3
  MaxSlots = 1
  NModels = 1
  EnablePrefixCaching = TRUE
  Block <- TwoBlocks
  Prompt <- ImagePrompts
  MaxOut = 2
  MaxSeqs = 2
  Chunk = 3
  TokenBudget = 3
  Cache = {1, 2, 3, 4, 5, 6, 7, 8, 9, 10, 11, 12}
  Batch = FALSE
  HostOffloads = {FALSE, TRUE}
  MinHit = 2
  Images = {"x", "y"}
  Session <- OneSession
  LogprobReqs = {r3}
  Cap = 2
  Costs <- FreeCosts
  Tok = {"a"}
  Abortable = {r1, r2}
SPECIFICATION FairSpec
INVARIANT
  CacheHoldsOwnTokens
PROPERTIES
  AnswersAsIfAlone
  EveryRequestEnds
