CONSTANTS
  None = None
  r1 = r1
  r2 = r2
  r3 = r3
  Req = {r1, r2, r3}
  PromptLen <- Lengths
  Wants = {r1, r2}
  Batches = {TRUE, FALSE}
  Modes = {"full_sequence", "last_token"}
  TokenCap = 2
  Chunk = 3
  MaxOut = 2
SPECIFICATION Spec
INVARIANTS
  RowsRunWhole
  TableFollowsPosition
PROPERTY
  EchoesPrompts
