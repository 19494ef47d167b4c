SPECIFICATION FairSpec
CONSTANTS
  Stream = 2
  n1 = n1
  n2 = n2
  n3 = n3
  NodeList <- MCNodes
  Cap = 2
  Req <- MCReq
  Eligible <- MCEligible
  ModelNodes = 2
  TopK = 1
  Attempts = 2
  Confirm = 2
  MaxFaults = 1
  MaxMoves = 2
  NoJob = NoJob
  AnyNode = AnyNode
INVARIANTS DrainedMeansOver
PROPERTIES PinsAreSound StreamEnds
CHECK_DEADLOCK FALSE
