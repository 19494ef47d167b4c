SPECIFICATION Spec
CONSTANTS
  Jobs = {1, 2, 3, 4}
  NNodes = 2
  NGpus = 2
  Mps = 2
  GpuCount <- MCGpuCount
  MpsReq <- MCMpsReq
  RamReq <- MCRamReq
  Ram <- MCRam
  Overcommit = 200
  Drivers = {"fcfs", "backfill", "joint", "job_only", "placement_only"}
  Submits <- MCSubmits
  Runtime <- MCRuntime
  Pool <- MCPool
  Fixed <- MCFixed
  NoClass = NoClass
  Warm = 0
  Cold = 1
  ColdAfter = 2
  Slowdown = 1
  OomDelay = 2
  Modes = {"pack", "isolate"}
  TopK = 2
  MaxSteps = 12
INVARIANTS AccountsBalance NobodyStranded MaskIsSound
PROPERTIES DispatchRespectsOrder
CHECK_DEADLOCK FALSE
