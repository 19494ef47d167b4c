SPECIFICATION Spec
CONSTANTS
  Capacity = 3
  NSteps = 2
  Ones = Ones
  Power <- MCPower
  Envs = {1, 2}
  EpisodeCap = 4
  Warmup = 2
  UpdateEvery = 2
  TotalSteps = 9
  Stage = 4
  NJobs = 2
  NodeCount = 2
  Mps = 2
  MpsReq <- MCMpsReq
  TopK = 2
  MaxFaults = 2
  MaxEpisodes = 3
  Programs = {"sim_train", "single", "rollouts", "vector", "rlpd"}
INVARIANTS MemoryIsSound RowsTellWhatHappened
PROPERTIES ImplementsSync
CHECK_DEADLOCK FALSE
