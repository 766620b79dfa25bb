CONSTANTS
  None = None
  r1 = r1
  r2 = r2
  r3 = r3
  Req = {r1, r2, r3}
  Block = {1}
  BlockSize = 2
  MaxSlots = 3
  NModels = 2
  EnablePrefixCaching = TRUE
  Prefixes <- MCPrefixes
  BlockTables <- MCBlockTables
  Ranks <- MCRanks
  Caps = {0, 1, 2}
SYMMETRY Symmetry
SPECIFICATION Spec
INVARIANTS
  SlotsConsistent
  IndexIsCurrent
  NothingUsableIsStale
PROPERTIES
  EvictsOldestFirst
  FinishRespectsCap
