CONSTANTS
  None = None
  BlockSize = 2
  Requests <- MCRequests
  Stores <- MCStores
  BlockOwners <- MCBlockOwners
SPECIFICATION WalkSpec
INVARIANTS
  WalkAgreesWithDirectMatch
  MatchIsSound
CHECK_DEADLOCK FALSE
