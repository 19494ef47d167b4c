SPECIFICATION FragmentationSpec
CONSTANTS
  NJobs = 3
  n1 = n1
  n2 = n2
  Nodes = {n1, n2}
  Total <- MCTotal
  Prio <- MCPrio
  Mps <- MCMps
  PerNode = 1
  Parts = 2
  PartOf <- MCPartOf
  Gap = 0
  MinInterval = 1
  Hour = 2
  MaxPerHour = 2
  MaxTargets = 1
  MaxFaults = 2
INVARIANTS RateCapHolds RequeuesAreMeant
CHECK_DEADLOCK FALSE
