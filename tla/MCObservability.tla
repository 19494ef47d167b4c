--------------------------- MODULE MCObservability ---------------------------
EXTENDS Observability
Job(arrival, mps, runtime) == [arrival |-> arrival, mps |-> mps, runtime |-> runtime]
MCPartitionOf == <<"cpu", "gpu", "gpu">>
MCStream      == <<Job(0, 2, 2), Job(0, 1, 1), Job(1, 2, 1)>>
MCNodeList    == <<"rtx4070", "rtx3080">>

(* The name of the first pool is a prefix of the second's, which is the fallback: a job    *)
(* that asks for nothing waits for the second and runs on the first; partition 3 is shared. *)
MCPartition == <<1, 2>>
MCMember    == <<{1}, {2, 3}>>
MCPrefixed  == <<{1, 2}, {2}>>
MCNodeCpus  == <<4, 4>>
MCNodeMem   == <<8, 0>>
MCPart      == <<1, 2>>
MCAsks      == <<{}, {2}>>
MCCpus      == <<4, 1>>
MCMem       == <<3, 1>>
MCPerCpu    == <<TRUE, FALSE>>
=============================================================================
