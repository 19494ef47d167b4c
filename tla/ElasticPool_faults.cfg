SPECIFICATION Spec
CONSTANTS
  Min = 0
  Max = 2
  UpStep = 1
  DownStep = 2
  Cooldown = 1
  ProvTimeout = 2
  RetryDelay = 1
  DrainTimeout = 1
  Horizon = 2
  MaxQueue = 1
  MaxCrashes = 2
  Faults = {"crash", "squeue", "kubeWrite", "podLoss"}
PROPERTIES CooldownAfterScaleDown OnlyResumedNodesLoseJobs OnlyTheseForget
