SPECIFICATION Spec
CONSTANTS
  Min = 1
  Max = 3
  UpStep = 1
  DownStep = 1
  Cooldown = 2
  ProvTimeout = 1
  RetryDelay = 1
  DrainTimeout = 1
  Horizon = 2
  MaxQueue = 1
  MaxCrashes = 1
  Faults = {"crash", "scontrol"}
INVARIANTS TypeOK ReplicasWithinBounds UnreadyPodsHaveMarker
PROPERTIES CooldownAfterScaleUp
