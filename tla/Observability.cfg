SPECIFICATION Spec
CONSTANTS
  NJobs = 2
  NOld = 1
  HistoryLimit = 2
  MaxUnusual = 1
  PartitionOf <- MCPartitionOf
  MaxRequeues = 1
  Stream <- MCStream
  NodeList <- MCNodeList
  NodeMps = 2
  Arms = {"priority", "reorder", "backfill"}
  MaxTroubles = 2
  Observers = {"gui", "spans", "experiment", "collector"}
  NPools = 2
  Partition <- MCPartition
  Member <- MCMember
  Prefixed <- MCPrefixed
  Dashed <- MCPrefixed
  Fallback = {2}
  NodeCpus <- MCNodeCpus
  NodeMem <- MCNodeMem
  SlurmJobs = {1, 2}
  Part <- MCPart
  Asks <- MCAsks
  Cpus <- MCCpus
  Mem <- MCMem
  PerCpu <- MCPerCpu
INVARIANTS NothingVanishes EventsBringAPoll OpenSpansAreTracked  NoPoolLooksIdleUnderAJob SteadyJobsAreCounted
CHECK_DEADLOCK FALSE
