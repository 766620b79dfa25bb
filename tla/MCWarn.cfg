CONSTANTS
  None = None
  r1 = r1
  r2 = r2
  r3 = r3
  r4 = r4
  Req = {r1, r2, r3, r4}
  BlockSize = 3
  MaxSlots = 1
  NModels = 1
  EnablePrefixCaching = TRUE
  Block <- FourBlocks
  Prompt <- SharedByAnswer
  MaxOut = 5
  MaxSeqs = 4
  Chunk = 4
  TokenBudget = 4
  Cache = {1, 2, 3, 4, 5, 6, 7, 8, 9, 10, 11, 12}
  Batch = FALSE
  HostOffloads = {FALSE}
  MinHit = 0
  Images = {}
  Session <- OneSession
  LogprobReqs = {}
  Cap = 2
  Costs <- FreeCosts
  Tok = {"a"}
  Abortable = {}
SPECIFICATION Spec
INVARIANTS
  LivePrefixIsNeverIncomplete
