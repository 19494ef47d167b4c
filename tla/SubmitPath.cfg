SPECIFICATION FairSpec
CONSTANTS
  NJobs = 2
  Mps <- MCMps
  n1 = n1
  n2 = n2
  small = small
  large = large
  NodeSeq <- MCNodeSeq
  Names <- MCNodeSeq
  Total <- MCTotal
  Cards <- MCCards
  Gpus = 1
  MpsPerGpu = 2
  TopK = 2
  TTL = 0
  Ckpts = {small, large}
  Shape <- MCShape
  FirstShadow = FALSE
  MaxModels = 2
  Deployments <- MCDeployments
  MaxFaults <- MCMaxFaults
INVARIANTS SelectFitsModel OneModelPredicts
PROPERTIES PinHadRoom SubmissionsEnd
CHECK_DEADLOCK FALSE
