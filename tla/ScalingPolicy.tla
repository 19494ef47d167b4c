--------------------------- MODULE ScalingPolicy ---------------------------
(***************************************************************************)
(* The scaling policy of the elastic operator (operator/policy.py): a pure *)
(* function from an observed pool state to a scaling decision.  The        *)
(* decision is all that the reconcile pass of ElasticPool asks of it.      *)
(***************************************************************************)
EXTENDS Integers

CONSTANTS
  Min, Max,          \* replica bounds of the pool
  UpStep, DownStep   \* replicas added / removed by one decision

\* What main.validate_config enforces before the operator starts.
ASSUME PolicyAssumption ==
  /\ Min \in Nat /\ Max \in Nat /\ Min <= Max
  /\ UpStep \in Nat \ {0} /\ DownStep \in Nat \ {0}

Larger(a, b)  == IF a > b THEN a ELSE b
Smaller(a, b) == IF a < b THEN a ELSE b

\* policy.clamp: with low > high the lower bound wins.
Clamp(v, low, high) == Larger(low, Smaller(v, high))

(***************************************************************************)
(* An observation is a PartitionState: desired replicas, pending jobs,     *)
(* those of them blocked by resources, running jobs, nodes with work.      *)
(***************************************************************************)
Observation == [cur : Nat, pend : Nat, need : Nat, run : Nat, busy : Nat]

Decision(cur, target) ==
  [target |-> target,
   action |-> IF target > cur THEN "scale_up"
              ELSE IF target < cur THEN "scale_down" ELSE "keep"]

SafeFloorBusyOnly(o) == o.busy  \* variant: forgets the minimum

\* A scale-down never goes below the nodes that have work.
SafeFloor(o) == Larger(Min, o.busy)

GrowTargetUncapped(o) == o.cur + UpStep   \* variant: forgets the upper bound
GrowTarget(o) == Clamp(o.cur + UpStep, Min, Max)

ShrinkTargetAboveFloor(o) == Clamp(o.cur - DownStep, SafeFloor(o) + 1, Max)   \* variant: off by one
ShrinkTarget(o) == Clamp(o.cur - DownStep, SafeFloor(o), Max)

\* The queue holds nothing that would make the pool grow or stay.
NoDemand(o) == o.need = 0 /\ o.pend = 0

\* Running jobs keep a pool that would shrink as it is.
PinnedByJobs(o) == ShrinkTarget(o) < o.cur /\ o.run > 0

Target(o) ==
  IF o.need > 0 THEN GrowTarget(o)
  ELSE IF ~NoDemand(o) \/ PinnedByJobs(o) THEN o.cur
  ELSE ShrinkTarget(o)

(***************************************************************************)
(* CheckpointAwareQueuePolicy.evaluate.  Its two checkpoint arguments are  *)
(* not parameters here: the body never reads them.                         *)
(***************************************************************************)
Evaluate(o) == Decision(o.cur, Target(o))

-----------------------------------------------------------------------------
(* Properties *)

\* What the policy sees once its decision took effect and the load has stayed.
Followed(o) == [o EXCEPT !.cur = Target(o)]

\* Under a load that stays the pool goes in one direction and rests where it should: at
\* its maximum while jobs lack resources, at its busy nodes or its minimum when nothing
\* waits or runs.  That holds also from replicas outside the bounds, and with more busy
\* nodes than the bounds allow (evaluate).
PolicyIsSteady ==
  \A o \in Observation :
    /\ Target(o) > o.cur => Target(Followed(o)) >= Target(o)
    /\ Target(o) < o.cur => Target(Followed(o)) <= Target(o)
    /\ o.need > 0 => (Target(o) = o.cur <=> o.cur = Max)
    /\ NoDemand(o) /\ o.run = 0 => (Target(o) = o.cur <=> o.cur = SafeFloor(o))
=============================================================================
