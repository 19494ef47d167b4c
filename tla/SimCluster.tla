----------------------------- MODULE SimCluster -----------------------------
(* The cluster of the simulator (src/sim/cluster.py): GPUs with MPS slots,   *)
(* host RAM, and the two planners. A value c of a cluster is a record        *)
(*   free    the free MPS slots of every GPU,                                *)
(*   used    the host RAM in use on every node,                              *)
(*   active  the GPUs of every job that holds an allocation.                 *)
(* A plan is a set of GPUs <<node, gpu>>: a job takes Share of each of them. *)
EXTENDS Integers, Sequences, FiniteSets, SequencesExt

CONSTANTS Jobs,       \* the trace; job ids are distinct numbers
          NNodes, NGpus, Mps,
          GpuCount, MpsReq, RamReq,   \* what each job asks for
          Ram,                        \* usable host RAM of each node
          Overcommit                  \* ram_overcommit, in percent

Nodes == 1 .. NNodes
Gpus == 1 .. NGpus
Slots == Nodes \X Gpus

ASSUME ClusterAssumption ==
    /\ Jobs \subseteq Nat /\ IsFiniteSet(Jobs)
    /\ NNodes \in Nat \ {0} /\ NGpus \in Nat \ {0} /\ Mps \in Nat \ {0}
    /\ GpuCount \in [Jobs -> Nat] /\ RamReq \in [Jobs -> Nat]
    /\ MpsReq \in [Jobs -> 1 .. Mps]
    /\ Ram \in [Nodes -> Nat] /\ Overcommit \in Nat

EmptyCluster == [free |-> [s \in Slots |-> Mps],
                 used |-> [n \in Nodes |-> 0],
                 active |-> [j \in {} |-> {}]]

Fractional(j) == GpuCount[j] = 1 /\ MpsReq[j] < Mps
Share(j) == IF Fractional(j) THEN MpsReq[j] ELSE Mps
Hosts(plan) == {s[1] : s \in plan}

Budget(n) == (Ram[n] * Overcommit) \div 100
RamOk(c, j, n) == c.used[n] + RamReq[j] <= Budget(n)
WholeFree(c, n) == {g \in Gpus : c.free[<<n, g>>] = Mps}
\* GPUs node by node
Before(s, t) == s[1] < t[1] \/ (s[1] = t[1] /\ s[2] < t[2])

(* Whole GPUs on hosts with RAM, as many as the job asks for, where below[s] *)
(* are the GPUs that come before s. A planner answers {} or a set with one   *)
(* plan.                                                                     *)
Whole(c, j) == {s \in Slots : c.free[s] = Mps /\ RamOk(c, j, s[1])}
Fill(c, j, below) ==
    LET whole == Whole(c, j) IN
    IF Cardinality(whole) >= GpuCount[j]
    THEN {{s \in whole : Cardinality(whole \cap below[s]) < GpuCount[j]}} ELSE {}

(* _plan_on: the requested GPU, the others of its node, the other nodes.     *)
Nearer(u, t, s) ==
    /\ t # s
    /\ \/ u = s
       \/ u[1] = s[1] /\ t[1] # s[1]
       \/ (u[1] = s[1] <=> t[1] = s[1]) /\ Before(u, t)

PlanOn(c, j, s) ==
    IF Fractional(j)
    THEN {p \in {{s}} : c.free[s] >= MpsReq[j] /\ RamOk(c, j, s[1])}
    ELSE Fill(c, j, [t \in Slots |-> {u \in Slots : Nearer(u, t, s)}])

(* Plan: a fraction goes to the first node with room, there to the GPU that  *)
(* it fills best; whole GPUs come from the nodes with most of them free.     *)
Fits(c, j, t) == RamOk(c, j, t[1]) /\ c.free[t] >= MpsReq[j]
BestFit(c, j) ==
    {s \in Slots :
        /\ Fits(c, j, s)
        /\ \A t \in Slots \ {s} : Fits(c, j, t) =>
              \/ s[1] < t[1]
              \/ s[1] = t[1] /\ c.free[s] < c.free[t]
              \/ s[1] = t[1] /\ c.free[s] = c.free[t] /\ s[2] < t[2]}

Emptier(c, u, t) ==
    LET whole(n) == Cardinality(WholeFree(c, n)) IN
    whole(u[1]) > whole(t[1]) \/ (whole(u[1]) = whole(t[1]) /\ Before(u, t))

Plan(c, j) ==
    IF Fractional(j) THEN {{s} : s \in BestFit(c, j)}
                     ELSE Fill(c, j, [t \in Slots |-> {u \in Slots : Emptier(c, u, t)}])

CanAllocate(c, j) == Plan(c, j) # {}
CanAllocateOn(c, j, s) == PlanOn(c, j, s) # {}

Allocate(c, j, plan) ==
    [free |-> [s \in Slots |-> IF s \in plan THEN c.free[s] - Share(j) ELSE c.free[s]],
     used |-> [n \in Nodes |-> IF n \in Hosts(plan) THEN c.used[n] + RamReq[j] ELSE c.used[n]],
     active |-> [k \in (DOMAIN c.active) \cup {j} |-> IF k = j THEN plan ELSE c.active[k]]]

\* mutant: the RAM of a job that spans nodes is released on one of them only
ReleaseFirstHost(c, j) ==
    IF j \notin DOMAIN c.active THEN c
    ELSE LET plan == c.active[j]
             host == CHOOSE n \in Hosts(plan) \cup {0} : n > 0 \/ plan = {} IN
    [free |-> [s \in Slots |-> IF s \in plan THEN c.free[s] + Share(j) ELSE c.free[s]],
     used |-> [n \in Nodes |-> IF n = host THEN c.used[n] - RamReq[j] ELSE c.used[n]],
     active |-> [k \in (DOMAIN c.active) \ {j} |-> c.active[k]]]

Release(c, j) ==
    IF j \notin DOMAIN c.active THEN c
    ELSE LET plan == c.active[j] IN
    [free |-> [s \in Slots |-> IF s \in plan THEN c.free[s] + Share(j) ELSE c.free[s]],
     used |-> [n \in Nodes |-> IF n \in Hosts(plan)
                               THEN (IF c.used[n] > RamReq[j] THEN c.used[n] - RamReq[j] ELSE 0)
                               ELSE c.used[n]],
     active |-> [k \in (DOMAIN c.active) \ {j} |-> c.active[k]]]
=============================================================================
