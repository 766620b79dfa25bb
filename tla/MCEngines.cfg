CONSTANTS
  None = None
  Nobody = Nobody
  Single = Single
  Size = 3
  LocalSize = 2
  Role = {"", "text_"}
  Unprefixed = ""
  Serves <- AllServes
  Helper = Helper
  w1 = w1
  w2 = w2
  Worker = {w1, w2}
  Traced = 1
  llm = llm
  other = other
  Llm = {llm, other}
  Host = llm
  DefaultChunk = 2
  BatchChunk = 2
  LengthLimit = 2
  Setups <- AllSetups
  Launches <- AllLaunches
SPECIFICATION HostSpec
INVARIANTS
  CardsAreDistinct
  OpensItsCard
  AcceptedIsServed
  ClaimIsTheRecording
  LimitsFitTheModel
  RequestsJudgedByTheirEngine
PROPERTY
  WindowsAreNotTakenOver
CHECK_DEADLOCK FALSE
