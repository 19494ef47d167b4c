SPECIFICATION FairSpec
CONSTANTS
  NJobs = 2
  Nodes = {n1}
  Cap = 2
  Req <- MCReq
  TopK = 2
  MaxJobs = 2
  MaxFaults = 2
  MaxEdits = 1
  MaxCrashes = 1
  Garbles = TRUE
INVARIANTS ResetClearsBand RankedInPolicyOrder RollBackRestores
PROPERTIES LeftoverRanksAreReset
