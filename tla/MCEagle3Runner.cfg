CONSTANTS
  None = None
  r1 = r1
  r2 = r2
  r3 = r3
  Req = {r1, r2, r3}
  Tok = {0, 1, 2, 3}
  Prompt <- Prompts
  MaxTokens <- Limits
  MaxModelLen = 6
  Stop = {3}
  Follows <- FollowsSome
  Accepts = 2
  MaxSeqs = 2
  Chunk = 3
  MaxPreemptions = 2
SPECIFICATION FairSpec
INVARIANTS
  RunnerFollowsText
  ExhaustedIsFinished
PROPERTIES
  TextAsGenerated
  EveryRequestEnds
