SPECIFICATION Spec
CONSTANTS
  Min = 0
  Max = 2
  UpStep = 1
  DownStep = 1
  Cooldown = 2
  ProvTimeout = 1
  RetryDelay = 1
  DrainTimeout = 1
  Horizon = 2
  MaxQueue = 1
  MaxCrashes = 2
  Faults = {"crash", "squeue", "podLoss"}
INVARIANTS SafeInv
PROPERTIES ScaleActionsSpareJobs
