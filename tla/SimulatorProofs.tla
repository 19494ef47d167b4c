--------------------------- MODULE SimulatorProofs ---------------------------
(***************************************************************************)
(* For every trace, cluster, scheduler and length of an episode: what the  *)
(* simulated cluster has free and what its jobs hold make up the cluster,  *)
(* the scheduler of the runner does what its order asks for, the caller of *)
(* the learning environment holds the mask of the state that its action    *)
(* meets, and nobody is left behind.                                       *)
(***************************************************************************)
EXTENDS Simulator, FiniteSetTheorems, NaturalsInduction, WellFoundedInduction, TLAPS

\* The bookkeeping of a cluster.
ClusterOk(c) ==
  /\ c.free \in [Slots -> Int] /\ c.used \in [Nodes -> Int]
  /\ DOMAIN c.active \subseteq Jobs /\ \A j \in DOMAIN c.active : c.active[j] \subseteq Slots
  /\ Balanced(c)

\* A job that is to arrive or that runs has one event, a job that waits has none.
QueueOk(c, queue, E) ==
  /\ queue \subseteq Jobs
  /\ \A e \in E : /\ e.kind \in {"submit", "end"} /\ e.job \in Jobs \ queue
                  /\ e.kind = "end" <=> e.job \in DOMAIN c.active
  /\ \A e, f \in E : e.job = f.job => e = f
  /\ \A j \in DOMAIN c.active : j \notin queue /\ \E e \in E : e.job = j

\* Jobs that are not done are in the queue or have an event.
Undone(s) == s.pending \cup {e.job : e \in s.events}
EpisodeOk(s) ==
  /\ ClusterOk(s.cluster) /\ QueueOk(s.cluster, s.pending, s.events)
  /\ IsFiniteSet(s.events) /\ \A e \in s.events : e.t \in Nat /\ e.seq \in Nat
  /\ s.now \in Nat /\ s.completed \in Nat
  /\ s.completed + Cardinality(Undone(s)) = Cardinality(Jobs)

RunnerInv ==
  /\ ClusterOk(cluster) /\ QueueOk(cluster, pending, events)
  /\ pending # {} => \E j \in pending : ~CanAllocate(cluster, j)

EnvInv ==
  /\ EpisodeOk(Episode) /\ (Jobs # {} => AtDecision(Episode)) /\ seq \in Nat /\ submit \in Submits
  /\ mask \in Masks(Episode, submit)

-----------------------------------------------------------------------------
(* What jobs hold                                                            *)

LEMMA BudgetIsNat == \A n \in Nodes : Budget(n) \in Nat
<1> SUFFICES ASSUME NEW n \in Nodes PROVE Budget(n) \in Nat
  OBVIOUS
<1>1. Ram[n] \in Nat /\ Overcommit \in Nat
  BY ClusterAssumption
<1>2. Ram[n] * Overcommit \in Nat
  BY <1>1
<1> DEFINE all == Ram[n] * Overcommit
<1>3. all \div 100 \in Nat
  <2> HIDE DEF all
  <2>1. all \in Nat
    BY <1>2 DEF all
  <2> QED
    BY <2>1
<1> QED
  BY <1>3 DEF Budget

LEMMA UnitsAreFinite ==
  ASSUME NEW S \in SUBSET Jobs, NEW amount \in [Jobs -> Nat]
  PROVE  IsFiniteSet(Units(S, amount)) /\ Cardinality(Units(S, amount)) \in Nat
<1> DEFINE T == {{j} \X (1 .. amount[j]) : j \in S}
           f == [j \in S |-> {j} \X (1 .. amount[j])]
<1>1. IsFiniteSet(S)
  BY FS_Subset, ClusterAssumption
<1>2. f \in Surjection(S, T)
  BY DEF Surjection
<1>3. IsFiniteSet(T)
  BY <1>1, <1>2, FS_Surjection
<1>4. ASSUME NEW j \in S PROVE IsFiniteSet({j} \X (1 .. amount[j]))
  <2>1. 1 \in Int /\ amount[j] \in Int
    OBVIOUS
  <2>2. IsFiniteSet(1 .. amount[j]) /\ IsFiniteSet({j})
    BY <2>1, FS_Interval, FS_Singleton
  <2> QED
    BY <2>2, FS_Product
<1>5. IsFiniteSet(UNION T)
  BY <1>3, <1>4, FS_UNION
<1> QED
  BY <1>5, FS_CardinalityType DEF Units

LEMMA UnitsAdd ==
  ASSUME NEW S \in SUBSET Jobs, NEW j \in Jobs \ S, NEW amount \in [Jobs -> Nat]
  PROVE  Cardinality(Units(S \cup {j}, amount)) = Cardinality(Units(S, amount)) + amount[j]
<1> DEFINE U == Units(S, amount)
           V == {j} \X (1 .. amount[j])
<1>0. Units(S, amount) = U /\ {j} \X (1 .. amount[j]) = V
  OBVIOUS
<1>1. Units(S \cup {j}, amount) = U \cup V
  BY DEF Units
<1>2. U \cap V = {}
  BY DEF Units
<1>3. IsFiniteSet(U) /\ Cardinality(U) \in Nat
  BY UnitsAreFinite
<1>4. IsFiniteSet(V) /\ Cardinality(V) = amount[j]
  <2>1. 1 \in Int /\ amount[j] \in Int
    OBVIOUS
  <2>2. IsFiniteSet(1 .. amount[j]) /\ IsFiniteSet({j}) /\ Cardinality({j}) = 1
    BY <2>1, FS_Interval, FS_Singleton
  <2>3. Cardinality(1 .. amount[j]) = amount[j]
    BY <2>1, FS_Interval
  <2>4. Cardinality(V) = Cardinality({j}) * Cardinality(1 .. amount[j]) /\ IsFiniteSet(V)
    BY <2>2, FS_Product
  <2> QED
    BY <2>2, <2>3, <2>4
<1> HIDE DEF U, V
<1>5. Cardinality(U \cup V) = Cardinality(U) + Cardinality(V) - Cardinality({})
  BY <1>2, <1>3, <1>4, FS_Union
<1>6. Cardinality({}) = 0
  BY FS_EmptySet
<1>7. Cardinality(U \cup V) = Cardinality(U) + amount[j]
  BY <1>3, <1>4, <1>5, <1>6
<1> QED
  BY <1>0, <1>1, <1>7

LEMMA SharesAreUnits ==
  /\ Shares \in [Jobs -> Nat] /\ RamReq \in [Jobs -> Nat]
  /\ \A j \in Jobs : Shares[j] = Share(j)
  /\ \A j \in Jobs : Share(j) \in 1 .. Mps /\ (Fractional(j) => Share(j) = MpsReq[j])
                     /\ (~Fractional(j) => Share(j) = Mps)
BY ClusterAssumption DEF Shares, Share

(* A planner only takes GPUs that have what the job needs, on hosts with RAM. *)
HasRoom(c, j, plan) ==
  /\ plan \subseteq Slots
  /\ \A s \in plan : c.free[s] >= Share(j) /\ RamOk(c, j, s[1])

LEMMA PlansHaveRoom ==
  ASSUME NEW c, NEW j \in Jobs, c.free \in [Slots -> Int]
  PROVE  /\ \A plan \in Plan(c, j) : HasRoom(c, j, plan)
         /\ \A s \in Slots : \A plan \in PlanOn(c, j, s) : HasRoom(c, j, plan)
<1>1. ASSUME NEW below, NEW plan \in Fill(c, j, below), ~Fractional(j) PROVE HasRoom(c, j, plan)
  <2>1. plan \subseteq Whole(c, j)
    BY <1>1 DEF Fill
  <2> QED
    BY <1>1, <2>1, SharesAreUnits, ClusterAssumption DEF Whole, HasRoom
<1>2. ASSUME NEW plan \in Plan(c, j) PROVE HasRoom(c, j, plan)
  <2>1. CASE Fractional(j)
    <3>1. PICK s \in BestFit(c, j) : plan = {s}
      BY <1>2, <2>1 DEF Plan
    <3>2. s \in Slots /\ Fits(c, j, s)
      BY DEF BestFit
    <3> QED
      BY <2>1, <3>1, <3>2, SharesAreUnits DEF HasRoom, Fits
  <2>2. CASE ~Fractional(j)
    BY <1>1, <1>2, <2>2 DEF Plan
  <2> QED
    BY <2>1, <2>2
<1>3. ASSUME NEW s \in Slots, NEW plan \in PlanOn(c, j, s) PROVE HasRoom(c, j, plan)
  <2>1. CASE Fractional(j)
    BY <1>3, <2>1, SharesAreUnits DEF HasRoom, PlanOn
  <2>2. CASE ~Fractional(j)
    BY <1>1, <1>3, <2>2 DEF PlanOn
  <2> QED
    BY <2>1, <2>2
<1> QED
  BY <1>2, <1>3

LEMMA AllocateKeeps ==
  ASSUME NEW c, NEW j \in Jobs, NEW plan, ClusterOk(c), j \notin DOMAIN c.active,
         HasRoom(c, j, plan)
  PROVE  /\ ClusterOk(Allocate(c, j, plan))
         /\ DOMAIN Allocate(c, j, plan).active = (DOMAIN c.active) \cup {j}
<1> DEFINE d == Allocate(c, j, plan)
<1>1. /\ d.free = [s \in Slots |-> IF s \in plan THEN c.free[s] - Share(j) ELSE c.free[s]]
      /\ d.used = [n \in Nodes |-> IF n \in Hosts(plan) THEN c.used[n] + RamReq[j] ELSE c.used[n]]
      /\ d.active = [k \in (DOMAIN c.active) \cup {j} |-> IF k = j THEN plan ELSE c.active[k]]
  BY DEF Allocate
<1> HIDE DEF d
<1>2. /\ c.free \in [Slots -> Int] /\ c.used \in [Nodes -> Int]
      /\ DOMAIN c.active \subseteq Jobs /\ \A k \in DOMAIN c.active : c.active[k] \subseteq Slots
      /\ plan \subseteq Slots /\ \A s \in plan : c.free[s] >= Share(j) /\ RamOk(c, j, s[1])
  BY DEF ClusterOk, HasRoom
<1>3. d.free \in [Slots -> Int] /\ d.used \in [Nodes -> Int]
  BY <1>1, <1>2, SharesAreUnits
<1>4. /\ DOMAIN d.active = (DOMAIN c.active) \cup {j}
      /\ \A k \in DOMAIN d.active : d.active[k] \subseteq Slots
  BY <1>1, <1>2
<1>5. ASSUME NEW s \in Slots
      PROVE  d.free[s] >= 0 /\ d.free[s] + Cardinality(Units(Holders(d, s), Shares)) = Mps
  <2>1. Holders(c, s) \in SUBSET Jobs /\ j \in Jobs \ Holders(c, s)
    BY <1>2 DEF Holders
  <2>2. c.free[s] >= 0 /\ c.free[s] + Cardinality(Units(Holders(c, s), Shares)) = Mps
    BY DEF ClusterOk, Balanced
  <2>3. Cardinality(Units(Holders(c, s), Shares)) \in Nat
    BY <2>1, UnitsAreFinite, SharesAreUnits
  <2>4. CASE s \in plan
    <3>1. Holders(d, s) = Holders(c, s) \cup {j}
      BY <1>1, <2>4 DEF Holders
    <3>2. Cardinality(Units(Holders(d, s), Shares))
            = Cardinality(Units(Holders(c, s), Shares)) + Shares[j]
      BY <2>1, <3>1, UnitsAdd, SharesAreUnits
    <3> QED
      BY <1>1, <1>2, <2>2, <2>3, <2>4, <3>2, SharesAreUnits
  <2>5. CASE s \notin plan
    <3>1. Holders(d, s) = Holders(c, s)
      BY <1>1, <1>2, <2>5 DEF Holders
    <3> QED
      BY <1>1, <2>2, <2>5, <3>1
  <2> QED
    BY <2>4, <2>5
<1>6. ASSUME NEW n \in Nodes
      PROVE  d.used[n] <= Budget(n) /\ d.used[n] = Cardinality(Units(Guests(d, n), RamReq))
  <2>1. Guests(c, n) \in SUBSET Jobs /\ j \in Jobs \ Guests(c, n)
    BY <1>2 DEF Guests
  <2>2. c.used[n] <= Budget(n) /\ c.used[n] = Cardinality(Units(Guests(c, n), RamReq))
    BY DEF ClusterOk, Balanced
  <2>3. CASE n \in Hosts(plan)
    <3>1. Guests(d, n) = Guests(c, n) \cup {j}
      BY <1>1, <2>3 DEF Guests
    <3>2. Cardinality(Units(Guests(d, n), RamReq))
            = Cardinality(Units(Guests(c, n), RamReq)) + RamReq[j]
      BY <2>1, <3>1, UnitsAdd, SharesAreUnits
    <3>3. PICK s \in plan : n = s[1]
      BY <2>3 DEF Hosts
    <3>4. c.used[n] + RamReq[j] <= Budget(n)
      BY <1>2, <3>3 DEF RamOk
    <3> QED
      BY <1>1, <2>2, <2>3, <3>2, <3>4
  <2>4. CASE n \notin Hosts(plan)
    <3>1. Guests(d, n) = Guests(c, n)
      BY <1>1, <1>2, <2>4 DEF Guests
    <3> QED
      BY <1>1, <2>2, <2>4, <3>1
  <2> QED
    BY <2>3, <2>4
<1>7. Balanced(d)
  BY <1>5, <1>6 DEF Balanced
<1>8. ClusterOk(d)
  BY <1>2, <1>3, <1>4, <1>7 DEF ClusterOk
<1> QED
  BY <1>4, <1>8 DEF d

LEMMA ReleaseKeeps ==
  ASSUME NEW c, NEW j \in Jobs, ClusterOk(c)
  PROVE  /\ ClusterOk(Release(c, j))
         /\ DOMAIN Release(c, j).active = (DOMAIN c.active) \ {j}
<1>1. CASE j \notin DOMAIN c.active
  BY <1>1 DEF Release
<1>2. CASE j \in DOMAIN c.active
  <2> DEFINE d == Release(c, j)
             plan == c.active[j]
  <2>1. /\ d.free = [s \in Slots |-> IF s \in plan THEN c.free[s] + Share(j) ELSE c.free[s]]
        /\ d.used = [n \in Nodes |-> IF n \in Hosts(plan)
                                     THEN (IF c.used[n] > RamReq[j] THEN c.used[n] - RamReq[j] ELSE 0)
                                     ELSE c.used[n]]
        /\ d.active = [k \in (DOMAIN c.active) \ {j} |-> c.active[k]]
    BY <1>2 DEF Release
  <2>0. plan = c.active[j]
    OBVIOUS
  <2> HIDE DEF d, plan
  <2>2. /\ c.free \in [Slots -> Int] /\ c.used \in [Nodes -> Int]
        /\ DOMAIN c.active \subseteq Jobs /\ \A k \in DOMAIN c.active : c.active[k] \subseteq Slots
        /\ plan \subseteq Slots
    BY <1>2, <2>0 DEF ClusterOk
  <2>3. d.free \in [Slots -> Int] /\ d.used \in [Nodes -> Int]
    BY <2>1, <2>2, SharesAreUnits
  <2>4. /\ DOMAIN d.active = (DOMAIN c.active) \ {j}
        /\ \A k \in DOMAIN d.active : d.active[k] \subseteq Slots
    BY <2>1, <2>2
  <2>5. ASSUME NEW s \in Slots
        PROVE  d.free[s] >= 0 /\ d.free[s] + Cardinality(Units(Holders(d, s), Shares)) = Mps
    <3>1. Holders(d, s) \in SUBSET Jobs /\ j \in Jobs \ Holders(d, s)
      BY <2>2, <2>4 DEF Holders
    <3>2. c.free[s] >= 0 /\ c.free[s] + Cardinality(Units(Holders(c, s), Shares)) = Mps
      BY DEF ClusterOk, Balanced
    <3>3. Cardinality(Units(Holders(d, s), Shares)) \in Nat
      BY <3>1, UnitsAreFinite, SharesAreUnits
    <3>4. CASE s \in plan
      <4>1. Holders(c, s) = Holders(d, s) \cup {j}
        BY <1>2, <2>0, <2>1, <3>4 DEF Holders
      <4>2. Cardinality(Units(Holders(c, s), Shares))
              = Cardinality(Units(Holders(d, s), Shares)) + Shares[j]
        BY <3>1, <4>1, UnitsAdd, SharesAreUnits
      <4> QED
        BY <2>1, <2>2, <3>2, <3>3, <3>4, <4>2, SharesAreUnits
    <3>5. CASE s \notin plan
      <4>1. Holders(d, s) = Holders(c, s)
        BY <2>0, <2>1, <2>2, <3>5 DEF Holders
      <4> QED
        BY <2>1, <3>2, <3>5, <4>1
    <3> QED
      BY <3>4, <3>5
  <2>6. ASSUME NEW n \in Nodes
        PROVE  d.used[n] <= Budget(n) /\ d.used[n] = Cardinality(Units(Guests(d, n), RamReq))
    <3>1. Guests(d, n) \in SUBSET Jobs /\ j \in Jobs \ Guests(d, n)
      BY <2>2, <2>4 DEF Guests
    <3>2. c.used[n] <= Budget(n) /\ c.used[n] = Cardinality(Units(Guests(c, n), RamReq))
      BY DEF ClusterOk, Balanced
    <3>3. Cardinality(Units(Guests(d, n), RamReq)) \in Nat
      BY <3>1, UnitsAreFinite, SharesAreUnits
    <3>4. CASE n \in Hosts(plan)
      <4>1. Guests(c, n) = Guests(d, n) \cup {j}
        BY <1>2, <2>0, <2>1, <3>4 DEF Guests
      <4>2. Cardinality(Units(Guests(c, n), RamReq))
              = Cardinality(Units(Guests(d, n), RamReq)) + RamReq[j]
        BY <3>1, <4>1, UnitsAdd, SharesAreUnits
      <4>3. Budget(n) \in Nat /\ RamReq[j] \in Nat
        BY ClusterAssumption, BudgetIsNat
      <4> QED
        BY <2>1, <2>2, <3>2, <3>3, <3>4, <4>2, <4>3
    <3>5. CASE n \notin Hosts(plan)
      <4>1. Guests(d, n) = Guests(c, n)
        BY <2>0, <2>1, <2>2, <3>5 DEF Guests
      <4> QED
        BY <2>1, <3>2, <3>5, <4>1
    <3> QED
      BY <3>4, <3>5
  <2>7. Balanced(d)
    BY <2>5, <2>6 DEF Balanced
  <2>8. ClusterOk(d)
    BY <2>2, <2>3, <2>4, <2>7 DEF ClusterOk
  <2> QED
    BY <2>4, <2>8 DEF d
<1> QED
  BY <1>1, <1>2

LEMMA LeastNumber ==
  ASSUME NEW T \in SUBSET Nat, T # {}
  PROVE  \E l \in T : \A t \in T : l <= t
<1> DEFINE R == OpToRel(<, Nat)
<1>1. IsWellFoundedOn(R, Nat)
  BY NatLessThanWellFounded
<1>2. \E l \in T : \A t \in T : ~ (<<t, l>> \in R)
  <2> HIDE DEF R
  <2> QED
    BY <1>1, WFMin, Zenon
<1>3. PICK l \in T : \A t \in T : ~ (<<t, l>> \in R)
  BY <1>2
<1>4. \A t \in T : <<t, l>> \in Nat \X Nat
  OBVIOUS
<1>5. \A t \in T : ~ (t < l)
  BY <1>3, <1>4 DEF OpToRel
<1> QED
  BY <1>5

LEMMA UpTo ==
  ASSUME NEW n \in Nat, NEW T \in SUBSET Nat, 0 \in T, \A k \in 0 .. n - 1 : k \in T => k + 1 \in T
  PROVE  0 .. n \subseteq T
<1> SUFFICES ASSUME ~ (0 .. n \subseteq T) PROVE FALSE
  OBVIOUS
<1> DEFINE U == (0 .. n) \ T
<1>1. U \in SUBSET Nat /\ U # {}
  OBVIOUS
<1> HIDE DEF U
<1>2. PICK l \in U : \A u \in U : l <= u
  BY <1>1, LeastNumber
<1>3. l \in 1 .. n
  BY <1>2 DEF U
<1>4. l - 1 \in 0 .. n - 1 /\ l - 1 \notin U
  BY <1>2, <1>3
<1>5. l - 1 \in T
  BY <1>4 DEF U
<1>6. (l - 1) + 1 \in T
  BY <1>4, <1>5
<1> QED
  BY <1>2, <1>3, <1>6 DEF U

-----------------------------------------------------------------------------
(* What fits                                                                 *)

LEMMA SlotsAreFinite ==
  /\ IsFiniteSet(Slots) /\ <<1, 1>> \in Slots
  /\ \A S \in SUBSET Slots : IsFiniteSet(S) /\ Cardinality(S) \in Nat
<1>1. 1 \in Int /\ NNodes \in Int /\ NGpus \in Int /\ NNodes >= 1 /\ NGpus >= 1
  BY ClusterAssumption
<1>2. IsFiniteSet(Nodes) /\ IsFiniteSet(Gpus)
  BY <1>1, FS_Interval DEF Nodes, Gpus
<1>3. IsFiniteSet(Slots)
  BY <1>2, FS_Product DEF Slots
<1>4. <<1, 1>> \in Slots
  BY <1>1 DEF Slots, Nodes, Gpus
<1> QED
  BY <1>3, <1>4, FS_Subset, FS_CardinalityType

LEMMA BestFitExists ==
  ASSUME NEW c, NEW j \in Jobs, c.free \in [Slots -> Int], NEW r \in Slots, Fits(c, j, r)
  PROVE  BestFit(c, j) # {}
<1> DEFINE F == {s \in Slots : Fits(c, j, s)}
<1>1. \A s \in F : /\ s \in Slots /\ s[1] \in Nat /\ s[2] \in Nat /\ s = <<s[1], s[2]>>
                   /\ c.free[s] \in Nat
  BY SMTT(30), ClusterAssumption DEF Fits, Slots, Nodes, Gpus
<1>2. PICK s1 \in F : \A t \in F : s1[1] <= t[1]
  <2> DEFINE T == {s[1] : s \in F}
  <2>1. T \in SUBSET Nat /\ T # {}
    BY <1>1
  <2> HIDE DEF F
  <2>2. PICK l \in T : \A t \in T : l <= t
    BY <2>1, LeastNumber
  <2> QED
    BY <2>2
<1>3. PICK s2 \in F : s2[1] = s1[1] /\ \A t \in F : t[1] = s1[1] => c.free[s2] <= c.free[t]
  <2> DEFINE T == {c.free[s] : s \in {t \in F : t[1] = s1[1]}}
  <2>1. T \in SUBSET Nat /\ T # {}
    BY <1>1
  <2> HIDE DEF F
  <2>2. PICK l \in T : \A t \in T : l <= t
    BY <2>1, LeastNumber
  <2> QED
    BY <2>2
<1>4. PICK s3 \in F : /\ s3[1] = s1[1] /\ c.free[s3] = c.free[s2]
                      /\ \A t \in F : t[1] = s1[1] /\ c.free[t] = c.free[s2] => s3[2] <= t[2]
  <2> DEFINE T == {s[2] : s \in {t \in F : t[1] = s1[1] /\ c.free[t] = c.free[s2]}}
  <2>1. T \in SUBSET Nat /\ T # {}
    BY <1>1, <1>3
  <2> HIDE DEF F
  <2>2. PICK l \in T : \A t \in T : l <= t
    BY <2>1, LeastNumber
  <2> QED
    BY <2>2
<1>5. ASSUME NEW t \in Slots \ {s3}, Fits(c, j, t)
      PROVE  \/ s3[1] < t[1]
             \/ s3[1] = t[1] /\ c.free[s3] < c.free[t]
             \/ s3[1] = t[1] /\ c.free[s3] = c.free[t] /\ s3[2] < t[2]
  <2>1. t \in F
    BY <1>5
  <2>2. t[1] # s3[1] \/ t[2] # s3[2]
    BY <1>1, <2>1
  <2> HIDE DEF F
  <2> QED
    BY <1>1, <1>2, <1>3, <1>4, <2>1, <2>2
<1>6. s3 \in BestFit(c, j)
  BY <1>5 DEF BestFit
<1> QED
  BY <1>6

LEMMA WhatFits ==
  ASSUME NEW c, NEW j \in Jobs, c.free \in [Slots -> Int]
  PROVE  CanAllocate(c, j) <=> IF Fractional(j) THEN \E s \in Slots : Fits(c, j, s)
                               ELSE Cardinality(Whole(c, j)) >= GpuCount[j]
<1>1. CASE Fractional(j)
  <2>1. CanAllocate(c, j) <=> BestFit(c, j) # {}
    BY <1>1 DEF CanAllocate, Plan
  <2>2. BestFit(c, j) # {} => \E s \in Slots : Fits(c, j, s)
    BY DEF BestFit
  <2>3. (\E s \in Slots : Fits(c, j, s)) => BestFit(c, j) # {}
    BY BestFitExists
  <2> QED
    BY <1>1, <2>1, <2>2, <2>3
<1>2. CASE ~Fractional(j)
  BY <1>2 DEF CanAllocate, Plan, Fill
<1> QED
  BY <1>1, <1>2

\* can_allocate and can_allocate_on agree.
LEMMA FitsSomewhere ==
  ASSUME NEW c, NEW j \in Jobs, c.free \in [Slots -> Int], CanAllocate(c, j)
  PROVE  \E s \in Slots : CanAllocateOn(c, j, s)
<1>1. CASE Fractional(j)
  <2>1. PICK s \in Slots : Fits(c, j, s)
    BY <1>1, WhatFits
  <2>2. {s} \in PlanOn(c, j, s)
    BY <1>1, <2>1 DEF PlanOn, Fits
  <2> QED
    BY <2>2 DEF CanAllocateOn
<1>2. CASE ~Fractional(j)
  <2>1. Cardinality(Whole(c, j)) >= GpuCount[j]
    BY <1>2, WhatFits
  <2>2. PlanOn(c, j, <<1, 1>>) # {}
    BY <1>2, <2>1 DEF PlanOn, Fill
  <2> QED
    BY <2>2, SlotsAreFinite DEF CanAllocateOn
<1> QED
  BY <1>1, <1>2

\* What does not fit does not fit after an allocation either.
LEMMA NothingIsGained ==
  ASSUME NEW c, NEW d, NEW j \in Jobs, ClusterOk(c), ClusterOk(d),
         \A s \in Slots : d.free[s] <= c.free[s], \A n \in Nodes : c.used[n] <= d.used[n],
         CanAllocate(d, j)
  PROVE  CanAllocate(c, j)
<1>1. /\ c.free \in [Slots -> Int] /\ c.used \in [Nodes -> Int]
      /\ d.free \in [Slots -> Int] /\ d.used \in [Nodes -> Int]
  BY DEF ClusterOk
<1>2. ASSUME NEW n \in Nodes, RamOk(d, j, n) PROVE RamOk(c, j, n)
  <2>1. RamReq[j] \in Nat /\ Budget(n) \in Nat
    BY ClusterAssumption, BudgetIsNat
  <2> QED
    BY <1>1, <1>2, <2>1 DEF RamOk
<1>3. \A s \in Slots : s[1] \in Nodes
  BY DEF Slots
<1>4. CASE Fractional(j)
  <2>1. PICK s \in Slots : Fits(d, j, s)
    BY <1>1, <1>4, WhatFits
  <2>2. Fits(c, j, s)
    BY <1>1, <1>2, <1>3, <2>1, ClusterAssumption DEF Fits
  <2> QED
    BY <1>1, <1>4, <2>2, WhatFits
<1>5. CASE ~Fractional(j)
  <2>1. \A s \in Slots : c.free[s] <= Mps
    <3> SUFFICES ASSUME NEW s \in Slots PROVE c.free[s] <= Mps
      OBVIOUS
    <3>1. c.free[s] + Cardinality(Units(Holders(c, s), Shares)) = Mps
      BY DEF ClusterOk, Balanced
    <3>2. Holders(c, s) \in SUBSET Jobs
      BY DEF Holders, ClusterOk
    <3>3. Cardinality(Units(Holders(c, s), Shares)) \in Nat
      BY <3>2, UnitsAreFinite, SharesAreUnits
    <3> QED
      BY <1>1, <3>1, <3>3, ClusterAssumption
  <2>2. Whole(d, j) \subseteq Whole(c, j)
    BY <1>1, <1>2, <1>3, <2>1, ClusterAssumption DEF Whole
  <2>3. Whole(c, j) \subseteq Slots /\ Whole(d, j) \subseteq Slots
    BY DEF Whole
  <2>4. /\ IsFiniteSet(Whole(c, j))
        /\ Cardinality(Whole(c, j)) \in Nat /\ Cardinality(Whole(d, j)) \in Nat
    BY <2>3, SlotsAreFinite
  <2>5. Cardinality(Whole(d, j)) <= Cardinality(Whole(c, j))
    BY <2>2, <2>4, FS_Subset
  <2>6. Cardinality(Whole(d, j)) >= GpuCount[j] /\ GpuCount[j] \in Nat
    BY <1>1, <1>5, WhatFits, ClusterAssumption
  <2>7. Cardinality(Whole(c, j)) >= GpuCount[j]
    BY <2>4, <2>5, <2>6
  <2> QED
    BY <1>1, <1>5, <2>7, WhatFits
<1> QED
  BY <1>4, <1>5

LEMMA NoUnits == \A amount : Cardinality(Units({}, amount)) = 0
<1> SUFFICES ASSUME NEW amount PROVE Cardinality(Units({}, amount)) = 0
  OBVIOUS
<1>1. Units({}, amount) = {}
  BY DEF Units
<1> QED
  BY <1>1, FS_EmptySet

LEMMA EmptyOk == ClusterOk(EmptyCluster) /\ DOMAIN EmptyCluster.active = {}
<1> DEFINE c == EmptyCluster
<1>1. /\ c.free = [s \in Slots |-> Mps] /\ c.used = [n \in Nodes |-> 0]
      /\ DOMAIN c.active = {}
  BY DEF EmptyCluster
<1> HIDE DEF c
<1>2. \A s \in Slots : Holders(c, s) = {}
  BY <1>1 DEF Holders
<1>3. \A n \in Nodes : Guests(c, n) = {}
  BY <1>1 DEF Guests
<1>4. Mps \in Nat /\ \A n \in Nodes : Budget(n) \in Nat
  BY ClusterAssumption, BudgetIsNat
<1>5. Balanced(c)
  <2>1. \A s \in Slots : c.free[s] >= 0 /\ c.free[s] + Cardinality(Units(Holders(c, s), Shares)) = Mps
    BY <1>1, <1>2, <1>4, NoUnits
  <2>2. \A n \in Nodes : c.used[n] <= Budget(n) /\ c.used[n] = Cardinality(Units(Guests(c, n), RamReq))
    BY <1>1, <1>3, <1>4, NoUnits
  <2> QED
    BY <2>1, <2>2 DEF Balanced
<1>6. ClusterOk(c)
  BY <1>1, <1>4, <1>5 DEF ClusterOk
<1> QED
  BY <1>1, <1>6 DEF c

\* A cluster without jobs has room for every job.
LEMMA EmptyFits ==
  ASSUME NEW c, ClusterOk(c), DOMAIN c.active = {}, NEW j \in Jobs
  PROVE  CanAllocate(c, j)
<1>1. \A s \in Slots : Holders(c, s) = {}
  BY DEF Holders
<1>2. \A n \in Nodes : Guests(c, n) = {}
  BY DEF Guests
<1>3. c.free \in [Slots -> Int] /\ Mps \in Nat
  BY ClusterAssumption DEF ClusterOk
<1>4. \A s \in Slots : c.free[s] = Mps
  BY <1>1, <1>3, NoUnits DEF ClusterOk, Balanced
<1>5. \A n \in Nodes : c.used[n] = 0
  BY <1>2, NoUnits DEF ClusterOk, Balanced
<1>6. /\ \A s \in Slots : c.free[s] <= Mps /\ EmptyCluster.free[s] = Mps
      /\ \A n \in Nodes : EmptyCluster.used[n] = 0
  BY <1>3, <1>4 DEF EmptyCluster
<1>7. /\ \A s \in Slots : EmptyCluster.free[s] <= c.free[s]
      /\ \A n \in Nodes : c.used[n] <= EmptyCluster.used[n]
  BY <1>3, <1>4, <1>5, <1>6
<1> QED
  BY <1>7, EmptyOk, NothingIsGained, SimulatorAssumption

-----------------------------------------------------------------------------
(* The queue and the events                                                  *)

LEMMA StartKeepsQueue ==
  ASSUME NEW c, NEW queue, NEW E, QueueOk(c, queue, E), NEW j \in queue,
         NEW d, DOMAIN d.active = (DOMAIN c.active) \cup {j},
         NEW e, e.kind = "end", e.job = j
  PROVE  QueueOk(d, queue \ {j}, E \cup {e})
<1>1. \A f \in E : f.job # j
  BY DEF QueueOk
<1>2. \A f \in E : /\ f.kind \in {"submit", "end"} /\ f.job \in Jobs \ (queue \ {j})
                   /\ f.kind = "end" <=> f.job \in DOMAIN d.active
  BY <1>1 DEF QueueOk
<1>3. \A f, g \in E \cup {e} : f.job = g.job => f = g
  BY <1>1 DEF QueueOk
<1>4. \A k \in DOMAIN d.active : k \notin queue \ {j} /\ \E f \in E \cup {e} : f.job = k
  BY DEF QueueOk
<1>5. queue \subseteq Jobs
  BY DEF QueueOk
<1> QED
  BY <1>2, <1>3, <1>4, <1>5 DEF QueueOk

LEMMA SubmitKeepsQueue ==
  ASSUME NEW c, NEW queue, NEW E, QueueOk(c, queue, E), NEW e \in E, e.kind = "submit"
  PROVE  QueueOk(c, queue \cup {e.job}, E \ {e})
<1>1. e.job \notin DOMAIN c.active /\ e.job \in Jobs \ queue
  BY DEF QueueOk
<1>2. \A f \in E \ {e} : f.job # e.job
  BY DEF QueueOk
<1> QED
  BY <1>1, <1>2 DEF QueueOk

LEMMA EndKeepsQueue ==
  ASSUME NEW c, NEW queue, NEW E, QueueOk(c, queue, E), NEW e \in E, e.kind = "end",
         NEW d, DOMAIN d.active = (DOMAIN c.active) \ {e.job}
  PROVE  QueueOk(d, queue, E \ {e})
<1>1. \A f \in E \ {e} : f.job # e.job
  BY DEF QueueOk
<1>2. \A f \in E \ {e} : /\ f.kind \in {"submit", "end"} /\ f.job \in Jobs \ queue
                         /\ f.kind = "end" <=> f.job \in DOMAIN d.active
  BY <1>1 DEF QueueOk
<1>3. \A k \in DOMAIN d.active : k \notin queue /\ \E f \in E \ {e} : f.job = k
  BY DEF QueueOk
<1> QED
  BY <1>2, <1>3 DEF QueueOk

-----------------------------------------------------------------------------
(* try_dispatch. The walks of the model are defined by recursion: WalkExists *)
(* shows that such functions exist.                                          *)

WalkStep(walking, f, d, order, t, ends, k) ==
  IF k = 0 THEN d
  ELSE IF walking = "jobs" THEN Consider(f[k - 1], order[k], t, ends) ELSE Onward(f[k - 1])
IsWalk(f, walking, d, order, t, ends, n) ==
  f = [k \in 0 .. n |-> WalkStep(walking, f, d, order, t, ends, k)]

LEMMA WalkExists ==
  ASSUME NEW walking, NEW d, NEW order, NEW t, NEW ends, NEW n \in Nat
  PROVE  \E f : IsWalk(f, walking, d, order, t, ends, n)
<1> DEFINE Step(f, k) == WalkStep(walking, f, d, order, t, ends, k)
           Good(f, k) == f = [h \in 0 .. n |-> f[h]] /\ \A h \in 0 .. k : f[h] = Step(f, h)
           T == {k \in Nat : \E f : Good(f, k)}
<1>0. ASSUME NEW f, NEW g, NEW h, h = 0 \/ g[h - 1] = f[h - 1]
      PROVE  Step(g, h) = Step(f, h)
  BY <1>0 DEF WalkStep
<1>1. 0 \in T
  <2> DEFINE f == [h \in 0 .. n |-> d]
  <2>1. f = [h \in 0 .. n |-> f[h]] /\ f[0] = d
    OBVIOUS
  <2> HIDE DEF f
  <2>2. Good(f, 0)
    BY <2>1 DEF WalkStep
  <2> QED
    BY <2>2
<1> HIDE DEF Step
<1>2. ASSUME NEW k \in 0 .. n - 1, k \in T
      PROVE  k + 1 \in T
  <2>1. PICK f : Good(f, k)
    BY <1>2
  <2> DEFINE g == [h \in 0 .. n |-> IF h = k + 1 THEN Step(f, h) ELSE f[h]]
  <2>2. k + 1 \in 0 .. n /\ k \in Nat /\ 0 .. k + 1 \subseteq 0 .. n
    OBVIOUS
  <2>3. g = [h \in 0 .. n |-> g[h]] /\ g[k + 1] = Step(f, k + 1)
        /\ \A h \in 0 .. k : h \in 0 .. n /\ g[h] = f[h]
    BY <2>2
  <2> HIDE DEF g
  <2>4. ASSUME NEW h \in 0 .. k + 1
        PROVE  Step(g, h) = Step(f, h)
    <3>1. CASE h = 0
      BY <1>0, <3>1
    <3>2. CASE h # 0
      <4>1. h - 1 \in 0 .. k
        BY <2>2, <3>2
      <4> QED
        BY <1>0, <2>3, <4>1
    <3> QED
      BY <3>1, <3>2
  <2>5. ASSUME NEW h \in 0 .. k + 1
        PROVE  g[h] = Step(g, h)
    <3>1. h = k + 1 \/ h \in 0 .. k
      BY <2>2
    <3> QED
      BY <2>1, <2>3, <2>4, <3>1
  <2>6. Good(g, k + 1)
    BY <2>3, <2>5
  <2> QED
    BY <2>2, <2>6
<1>3. T \in SUBSET Nat
  OBVIOUS
<1>4. n \in T
  <2> HIDE DEF T
  <2>1. 0 .. n \subseteq T
    BY <1>1, <1>2, <1>3, UpTo
  <2> QED
    BY <2>1
<1>5. PICK f : Good(f, n)
  BY <1>4
<1>6. f = [k \in 0 .. n |-> Step(f, k)]
  BY <1>5
<1> QED
  BY <1>6 DEF Step, IsWalk

\* try_dispatch job by job.
DispatchWalk(f, d, order, t, ends) ==
  /\ Dispatched(d, order, t, ends) = f[Len(order)] /\ f[0] = d
  /\ \A k \in 1 .. Len(order) : f[k] = Consider(f[k - 1], order[k], t, ends)

LEMMA DispatchedIs ==
  ASSUME NEW d, NEW order, NEW t, NEW ends, Len(order) \in Nat
  PROVE  \E f : DispatchWalk(f, d, order, t, ends)
<1> DEFINE n == Len(order)
           f == CHOOSE g : g = [k \in 0 .. n |-> IF k = 0 THEN d ELSE Consider(g[k - 1], order[k], t, ends)]
<1>1. Dispatched(d, order, t, ends) = f[n]
  BY DEF Dispatched
<1>2. PICK h : IsWalk(h, "jobs", d, order, t, ends, n)
  BY WalkExists
<1>3. \A k \in 0 .. n : WalkStep("jobs", h, d, order, t, ends, k)
                          = IF k = 0 THEN d ELSE Consider(h[k - 1], order[k], t, ends)
  BY DEF WalkStep
<1>4. h = [k \in 0 .. n |-> IF k = 0 THEN d ELSE Consider(h[k - 1], order[k], t, ends)]
  BY <1>2, <1>3 DEF IsWalk
<1>5. f = [k \in 0 .. n |-> IF k = 0 THEN d ELSE Consider(f[k - 1], order[k], t, ends)]
  BY <1>4
<1> HIDE DEF f
<1>6. f[0] = d
  BY <1>5
<1>7. ASSUME NEW k \in 1 .. n
      PROVE  f[k] = Consider(f[k - 1], order[k], t, ends)
  <2>1. k \in 0 .. n /\ k # 0
    OBVIOUS
  <2> QED
    BY <1>5, <2>1
<1> QED
  BY <1>1, <1>6, <1>7 DEF DispatchWalk

\* The state of a walk is a record.
Shaped(d) == d = [x \in {"cluster", "pending", "events", "active", "seq", "blocked"} |-> d[x]]

LEMMA StartsIs ==
  ASSUME NEW d, NEW j, NEW plan, NEW t, NEW ends
  PROVE  LET e == Starts(d, j, plan, t, ends) IN
         /\ Shaped(e) /\ e.cluster = Allocate(d.cluster, j, plan) /\ e.pending = d.pending \ {j}
         /\ e.events = d.events \cup
              {Event(t + StartLatency(d.active, j, t, ends) + Runtime[j], d.seq, "end", j)}
         /\ ~e.blocked
<1> DEFINE e == Starts(d, j, plan, t, ends)
<1>1. Shaped(e)
  BY DEF Starts, Shaped
<1>2. /\ e.cluster = Allocate(d.cluster, j, plan) /\ e.pending = d.pending \ {j}
      /\ e.events = d.events \cup
           {Event(t + StartLatency(d.active, j, t, ends) + Runtime[j], d.seq, "end", j)}
  BY DEF Starts
<1>3. ~e.blocked
  BY DEF Starts
<1> QED
  BY <1>1, <1>2, <1>3

LEMMA SkipIs ==
  ASSUME NEW d, Shaped(d), NEW v
  PROVE  LET e == [d EXCEPT !.blocked = v] IN
         /\ Shaped(e) /\ e.cluster = d.cluster /\ e.pending = d.pending /\ e.events = d.events
         /\ e.blocked = v
<1> DEFINE e == [d EXCEPT !.blocked = v]
<1>1. DOMAIN d = {"cluster", "pending", "events", "active", "seq", "blocked"}
  BY DEF Shaped
<1>2. e = [x \in DOMAIN d |-> IF x = "blocked" THEN v ELSE d[x]]
  BY DEF Shaped
<1> HIDE DEF e
<1> QED
  BY <1>1, <1>2 DEF Shaped, e

LEMMA AllocatesLess ==
  ASSUME NEW c, NEW j \in Jobs, NEW plan, ClusterOk(c)
  PROVE  LET d == Allocate(c, j, plan) IN
         (\A s \in Slots : d.free[s] <= c.free[s]) /\ \A n \in Nodes : c.used[n] <= d.used[n]
<1>1. c.free \in [Slots -> Int] /\ c.used \in [Nodes -> Int] /\ RamReq[j] \in Nat /\ Share(j) \in Nat
  BY SharesAreUnits, ClusterAssumption DEF ClusterOk
<1>2. \A s \in Slots : Allocate(c, j, plan).free[s] <= c.free[s]
  BY <1>1 DEF Allocate
<1>3. \A n \in Nodes : c.used[n] <= Allocate(c, j, plan).used[n]
  BY <1>1 DEF Allocate
<1> QED
  BY <1>2, <1>3

(* What holds when the walk has gone through k jobs of the order: with       *)
(* backfill none of them that waits fits; without it they start one after    *)
(* the other up to the first that does not fit.                              *)
WalkHolds(d, c, queue, order, k) ==
  /\ Shaped(d) /\ ClusterOk(d.cluster) /\ QueueOk(d.cluster, d.pending, d.events)
  /\ d.pending \subseteq queue
  /\ DOMAIN d.cluster.active \subseteq (DOMAIN c.active) \cup (queue \ d.pending)
  /\ \A i \in k + 1 .. Len(order) : order[i] \in d.pending
WalkBackfilled(d, order, k) ==
  ~d.blocked /\ \A i \in 1 .. k : order[i] \in d.pending => ~CanAllocate(d.cluster, order[i])
WalkInOrder(d, order, k, m) ==
  /\ d.pending = {order[i] : i \in m + 1 .. Len(order)}
  /\ d.blocked <=> m < k
  /\ m < k => ~CanAllocate(d.cluster, order[m + 1])
WalkOk(d, c, queue, order, k) ==
  /\ WalkHolds(d, c, queue, order, k)
  /\ Backfill => WalkBackfilled(d, order, k)
  /\ ~Backfill => \E m \in 0 .. k : WalkInOrder(d, order, k, m)

LEMMA ConsiderKeeps ==
  ASSUME NEW c, NEW queue, NEW n \in Nat, NEW order, Len(order) = n,
         \A i \in 1 .. n : order[i] \in queue,
         \A i, h \in 1 .. n : order[i] = order[h] => i = h,
         NEW k \in 0 .. n - 1, NEW d, WalkOk(d, c, queue, order, k), NEW t, NEW ends
  PROVE  WalkOk(Consider(d, order[k + 1], t, ends), c, queue, order, k + 1)
<1> DEFINE j == order[k + 1]
           e == Consider(d, j, t, ends)
<1>1. k + 1 \in 1 .. n /\ k \in Nat /\ k + 1 \in k + 1 .. n
  OBVIOUS
<1>2. /\ j \in d.pending /\ j \in queue /\ j \in Jobs /\ j \notin DOMAIN d.cluster.active
      /\ \A i \in 1 .. n : order[i] = j => i = k + 1
  BY <1>1 DEF WalkOk, WalkHolds, QueueOk
<1>0. j = order[k + 1]
  OBVIOUS
<1> SUFFICES WalkOk(e, c, queue, order, k + 1)
  OBVIOUS
<1> HIDE DEF j
<1>3. d.cluster.free \in [Slots -> Int]
  BY DEF WalkOk, WalkHolds, ClusterOk
<1>4. \A i \in k + 2 .. n : i \in k + 1 .. n /\ i # k + 1 /\ i \in 1 .. n
  OBVIOUS
<1>5. CASE ~d.blocked /\ CanAllocate(d.cluster, j)
  <2> DEFINE plan == CHOOSE p \in Plan(d.cluster, j) : TRUE
             x == Event(t + StartLatency(d.active, j, t, ends) + Runtime[j], d.seq, "end", j)
  <2>1. plan \in Plan(d.cluster, j)
    BY <1>5 DEF CanAllocate
  <2>2. e = Starts(d, j, plan, t, ends)
    BY <1>5 DEF Consider, CanAllocate
  <2> HIDE DEF plan
  <2>3. x.kind = "end" /\ x.job = j
    BY DEF Event
  <2> HIDE DEF e
  <2>4. /\ Shaped(e) /\ e.cluster = Allocate(d.cluster, j, plan) /\ e.pending = d.pending \ {j}
        /\ e.events = d.events \cup {x} /\ ~e.blocked
    BY <2>2, StartsIs
  <2> HIDE DEF x
  <2>5. HasRoom(d.cluster, j, plan)
    BY <1>2, <1>3, <2>1, PlansHaveRoom
  <2>6. ClusterOk(e.cluster) /\ DOMAIN e.cluster.active = (DOMAIN d.cluster.active) \cup {j}
    BY <1>2, <2>4, <2>5, AllocateKeeps DEF WalkOk, WalkHolds
  <2>7. QueueOk(e.cluster, e.pending, e.events)
    BY <1>2, <2>3, <2>4, <2>6, StartKeepsQueue DEF WalkOk, WalkHolds
  <2>8. \A i \in (k + 1) + 1 .. n : order[i] \in e.pending
    BY <1>0, <1>2, <1>4, <2>4 DEF WalkOk, WalkHolds
  <2>12. WalkHolds(e, c, queue, order, k + 1)
    BY <1>2, <2>4, <2>6, <2>7, <2>8 DEF WalkOk, WalkHolds
  <2>9. ASSUME NEW i \in Jobs, CanAllocate(e.cluster, i)
        PROVE  CanAllocate(d.cluster, i)
    BY <1>2, <2>4, <2>6, <2>9, AllocatesLess, NothingIsGained DEF WalkOk, WalkHolds
  <2>10. CASE Backfill
    <3>1. ASSUME NEW i \in 1 .. k + 1, order[i] \in e.pending
          PROVE  ~CanAllocate(e.cluster, order[i])
      <4>1. order[i] \in d.pending /\ order[i] # j /\ order[i] \in Jobs
        BY <2>4, <3>1 DEF WalkOk, WalkHolds, QueueOk
      <4>2. i \in 1 .. k
        BY <1>0, <4>1
      <4> QED
        BY <2>9, <2>10, <4>1, <4>2 DEF WalkOk, WalkBackfilled
    <3>2. WalkBackfilled(e, order, k + 1)
      BY <2>4, <3>1 DEF WalkBackfilled
    <3> QED
      BY <2>10, <2>12, <3>2 DEF WalkOk
  <2>11. CASE ~Backfill
    <3>1. PICK m \in 0 .. k : WalkInOrder(d, order, k, m)
      BY <2>11 DEF WalkOk
    <3>2. m = k
      BY <1>5, <3>1 DEF WalkInOrder
    <3>3. e.pending = {order[i] : i \in (k + 1) + 1 .. n}
      BY <1>0, <1>1, <1>2, <1>4, <2>4, <3>1, <3>2 DEF WalkInOrder
    <3>4. e.blocked <=> k + 1 < k + 1
      BY <2>4
    <3>5. k + 1 \in 0 .. k + 1 /\ ~(k + 1 < k + 1)
      OBVIOUS
    <3>6. WalkInOrder(e, order, k + 1, k + 1)
      BY <3>3, <3>4, <3>5 DEF WalkInOrder
    <3> QED
      BY <2>11, <2>12, <3>5, <3>6 DEF WalkOk
  <2> QED
    BY <2>10, <2>11
<1>6. CASE d.blocked \/ ~CanAllocate(d.cluster, j)
  <2>1. e = [d EXCEPT !.blocked = @ \/ ~Backfill]
    BY <1>6 DEF Consider, CanAllocate
  <2>2. e = [d EXCEPT !.blocked = d.blocked \/ ~Backfill]
    BY <2>1
  <2> HIDE DEF e
  <2>3. /\ Shaped(e) /\ e.cluster = d.cluster /\ e.pending = d.pending /\ e.events = d.events
        /\ e.blocked = (d.blocked \/ ~Backfill)
    BY <2>2, SkipIs DEF WalkOk, WalkHolds
  <2>7. e.blocked <=> d.blocked \/ ~Backfill
    BY <2>3
  <2>4. \A i \in (k + 1) + 1 .. n : order[i] \in e.pending
    BY <1>4, <2>3 DEF WalkOk, WalkHolds
  <2>8. WalkHolds(e, c, queue, order, k + 1)
    BY <2>3, <2>4 DEF WalkOk, WalkHolds
  <2>5. CASE Backfill
    <3>1. ~d.blocked /\ ~e.blocked
      BY <2>5, <2>7 DEF WalkOk, WalkBackfilled
    <3>2. \A i \in 1 .. k + 1 : i \in 1 .. k \/ i = k + 1
      OBVIOUS
    <3>3. \A i \in 1 .. k + 1 : order[i] \in e.pending => ~CanAllocate(e.cluster, order[i])
      BY <1>0, <1>6, <2>3, <2>5, <3>1, <3>2 DEF WalkOk, WalkBackfilled
    <3>4. WalkBackfilled(e, order, k + 1)
      BY <3>1, <3>3 DEF WalkBackfilled
    <3> QED
      BY <2>5, <2>8, <3>4 DEF WalkOk
  <2>6. CASE ~Backfill
    <3>1. PICK m \in 0 .. k : WalkInOrder(d, order, k, m)
      BY <2>6 DEF WalkOk
    <3>2. m \in 0 .. k + 1 /\ m < k + 1
      OBVIOUS
    <3>3. ~CanAllocate(e.cluster, order[m + 1])
      <4>1. CASE m < k
        BY <2>3, <3>1, <4>1 DEF WalkInOrder
      <4>2. CASE m = k
        BY <1>0, <1>6, <2>3, <3>1, <4>2 DEF WalkInOrder
      <4> QED
        BY <4>1, <4>2
    <3>5. e.blocked <=> m < k + 1
      BY <2>6, <2>7, <3>2
    <3>6. WalkInOrder(e, order, k + 1, m)
      BY <2>3, <3>1, <3>3, <3>5 DEF WalkInOrder
    <3> QED
      BY <2>6, <2>8, <3>2, <3>6 DEF WalkOk
  <2> QED
    BY <2>5, <2>6
<1> QED
  BY <1>5, <1>6

LEMMA OrderIs ==
  ASSUME NEW queue \in SUBSET Jobs, NEW order \in SetToSeqs(queue)
  PROVE  /\ Len(order) \in Nat /\ DOMAIN order = 1 .. Len(order)
         /\ \A i \in 1 .. Len(order) : order[i] \in queue
         /\ \A i, h \in 1 .. Len(order) : order[i] = order[h] => i = h
         /\ \A j \in queue : \E i \in 1 .. Len(order) : order[i] = j
<1> DEFINE n == Cardinality(queue)
<1>1. IsFiniteSet(queue) /\ n \in Nat
  BY ClusterAssumption, FS_Subset, FS_CardinalityType
<1>2. order \in [1 .. n -> queue] /\ \A i, h \in 1 .. n : i # h => order[i] # order[h]
  BY DEF SetToSeqs
<1>3. 1 \in Int /\ n \in Int
  BY <1>1
<1> HIDE DEF n
<1>4. Cardinality(1 .. n) = n
  BY <1>1, <1>3, FS_Interval
<1>5. order \in Injection(1 .. n, queue)
  BY <1>2 DEF Injection, IsInjective
<1>6. order \in Surjection(1 .. n, queue)
  BY <1>1, <1>4, <1>5, FS_Injection DEF n
<1>7. \A j \in queue : \E i \in 1 .. n : order[i] = j
  BY <1>6 DEF Surjection
<1>8. Len(order) = n
  BY <1>1, <1>2
<1> QED
  BY <1>1, <1>2, <1>7, <1>8

(* What try_dispatch achieves: what its order asks for, and that somebody    *)
(* who waits does not fit.                                                   *)
InOrder(c) ==
  IF Backfill THEN \A j \in pending' : ~CanAllocate(cluster', j)
  ELSE \A j \in pending' :
         /\ (\A i \in pending' \ {j} : Earlier(submit, j, i)) => ~CanAllocate(cluster', j)
         /\ \A i \in (DOMAIN cluster'.active) \ DOMAIN c.active : Earlier(submit, i, j)
Dispatches(c) ==
  /\ ClusterOk(cluster') /\ QueueOk(cluster', pending', events') /\ InOrder(c)
  /\ pending' # {} => \E j \in pending' : ~CanAllocate(cluster', j)

LEMMA EarlierIsOrder ==
  ASSUME NEW sub \in Submits, NEW i \in Jobs, NEW j \in Jobs
  PROVE  /\ Earlier(sub, i, j) => ~Earlier(sub, j, i)
         /\ i # j => Earlier(sub, i, j) \/ Earlier(sub, j, i)
<1>1. sub[i] \in Nat /\ sub[j] \in Nat /\ i \in Nat /\ j \in Nat
  BY ClusterAssumption, SimulatorAssumption
<1> QED
  BY <1>1 DEF Earlier

LEMMA DispatchKeeps ==
  ASSUME driver \in Runners, submit \in Submits, NEW c, NEW queue, NEW E, NEW act, NEW t, NEW ends,
         ClusterOk(c), QueueOk(c, queue, E), Dispatch(c, queue, E, act, t, ends)
  PROVE  Dispatches(c)
<1> DEFINE d0 == [cluster |-> c, pending |-> queue, events |-> E, active |-> act,
                  seq |-> seq, blocked |-> FALSE]
<1>1. PICK order \in Orders(queue) :
        LET d == Dispatched(d0, order, t, ends) IN
        cluster' = d.cluster /\ pending' = d.pending /\ events' = d.events
  BY DEF Dispatch
<1>2. order \in SetToSeqs(queue) /\ queue \in SUBSET Jobs
  BY DEF Orders, QueueOk
<1> DEFINE n == Len(order)
<1>3. /\ n \in Nat /\ DOMAIN order = 1 .. n /\ \A i \in 1 .. n : order[i] \in queue
      /\ \A i, h \in 1 .. n : order[i] = order[h] => i = h
      /\ \A j \in queue : \E i \in 1 .. n : order[i] = j
  BY <1>2, OrderIs
<1>4. Shaped(d0) /\ ~d0.blocked
  BY DEF Shaped
<1>5. d0.cluster = c /\ d0.pending = queue /\ d0.events = E
  OBVIOUS
<1> HIDE DEF d0
<1>6. PICK f : DispatchWalk(f, d0, order, t, ends)
  BY <1>3, DispatchedIs
<1> HIDE DEF n
<1>7. /\ cluster' = f[n].cluster /\ pending' = f[n].pending /\ events' = f[n].events /\ f[0] = d0
      /\ \A k \in 1 .. n : f[k] = Consider(f[k - 1], order[k], t, ends)
  BY <1>1, <1>6 DEF DispatchWalk, n
<1> DEFINE T == {k \in Nat : k <= n => WalkOk(f[k], c, queue, order, k)}
<1>8. 0 \in T
  <2>1. WalkHolds(d0, c, queue, order, 0)
    BY <1>3, <1>4, <1>5 DEF WalkHolds, n
  <2>2. WalkBackfilled(d0, order, 0)
    BY <1>4 DEF WalkBackfilled
  <2>3. WalkInOrder(d0, order, 0, 0)
    <3>1. queue = {order[i] : i \in 0 + 1 .. n}
      BY <1>3
    <3> QED
      BY <1>4, <1>5, <3>1 DEF WalkInOrder, n
  <2>4. WalkOk(d0, c, queue, order, 0)
    BY <2>1, <2>2, <2>3 DEF WalkOk
  <2> QED
    BY <1>7, <2>4
<1>9. ASSUME NEW k \in 0 .. n - 1, k \in T
      PROVE  k + 1 \in T
  <2>1. k <= n /\ k + 1 \in 1 .. n /\ (k + 1) - 1 = k /\ k + 1 \in Nat
    BY <1>3
  <2>2. WalkOk(f[k], c, queue, order, k)
    BY <1>9, <2>1
  <2>3. f[k + 1] = Consider(f[k], order[k + 1], t, ends)
    BY <1>7, <2>1
  <2> HIDE DEF T
  <2>4. /\ Len(order) = n /\ \A i \in 1 .. n : order[i] \in queue
        /\ \A i, h \in 1 .. n : order[i] = order[h] => i = h
    BY <1>3 DEF n
  <2>5. WalkOk(Consider(f[k], order[k + 1], t, ends), c, queue, order, k + 1)
    BY <1>3, <2>2, <2>4, ConsiderKeeps
  <2>6. WalkOk(f[k + 1], c, queue, order, k + 1)
    BY <2>3, <2>5
  <2> QED
    BY <2>1, <2>6 DEF T
<1>10. n \in T
  <2>1. T \in SUBSET Nat
    OBVIOUS
  <2> HIDE DEF T
  <2>2. 0 .. n \subseteq T
    BY <1>3, <1>8, <1>9, <2>1, UpTo
  <2> QED
    BY <1>3, <2>2
<1>11. WalkOk(f[n], c, queue, order, n)
  BY <1>3, <1>10
<1> HIDE DEF T
<1>12. /\ ClusterOk(cluster') /\ QueueOk(cluster', pending', events') /\ pending' \subseteq queue
       /\ DOMAIN cluster'.active \subseteq (DOMAIN c.active) \cup (queue \ pending')
  BY <1>7, <1>11 DEF WalkOk, WalkHolds
<1>13. CASE Backfill
  <2>1. \A j \in pending' : ~CanAllocate(cluster', j)
    BY <1>3, <1>7, <1>11, <1>12, <1>13 DEF WalkOk, WalkBackfilled
  <2> QED
    BY <1>12, <1>13, <2>1 DEF Dispatches, InOrder
<1>14. CASE ~Backfill
  <2>1. PICK m \in 0 .. n : WalkInOrder(f[n], order, n, m)
    BY <1>11, <1>14 DEF WalkOk
  <2>2. /\ pending' = {order[i] : i \in m + 1 .. n}
        /\ m < n => ~CanAllocate(cluster', order[m + 1])
    BY <1>7, <2>1 DEF WalkInOrder, n
  <2>3. \A i, k \in 1 .. n : i < k => Earlier(submit, order[i], order[k])
    BY <1>1, <1>3, <1>14 DEF Orders, Backfill, Runners
  <2>4. \A i \in m + 1 .. n : i \in 1 .. n
    BY <1>3
  <2>5. ASSUME NEW j \in pending', \A i \in pending' \ {j} : Earlier(submit, j, i)
        PROVE  ~CanAllocate(cluster', j)
    <3>1. PICK i \in m + 1 .. n : j = order[i]
      BY <2>2
    <3>2. m < n /\ m + 1 \in m + 1 .. n
      BY <1>3
    <3>3. CASE i = m + 1
      BY <2>2, <3>1, <3>2, <3>3
    <3>4. CASE i # m + 1
      <4>1. m + 1 < i /\ m + 1 \in 1 .. n /\ i \in 1 .. n
        BY <1>3, <3>4
      <4>2. Earlier(submit, order[m + 1], j)
        BY <2>3, <3>1, <4>1
      <4>3. order[m + 1] \in pending' \ {j}
        BY <1>3, <2>2, <3>1, <3>2, <3>4, <4>1
      <4>4. Earlier(submit, j, order[m + 1])
        BY <2>5, <4>3
      <4> QED
        BY <1>2, <1>12, <4>2, <4>3, <4>4, EarlierIsOrder
    <3> QED
      BY <3>3, <3>4
  <2>6. ASSUME NEW j \in pending', NEW i \in (DOMAIN cluster'.active) \ DOMAIN c.active
        PROVE  Earlier(submit, i, j)
    <3>1. i \in queue \ pending'
      BY <1>12
    <3>2. PICK h \in 1 .. n : i = order[h]
      BY <1>3, <3>1
    <3>3. PICK k \in m + 1 .. n : j = order[k]
      BY <2>2
    <3>4. h \notin m + 1 .. n
      BY <2>2, <3>1, <3>2
    <3>5. h < k /\ k \in 1 .. n
      BY <1>3, <3>4
    <3> QED
      BY <2>3, <3>2, <3>3, <3>5
  <2>7. ASSUME pending' # {}
        PROVE  \E j \in pending' : ~CanAllocate(cluster', j)
    <3>1. m < n /\ m + 1 \in m + 1 .. n
      BY <1>3, <2>2, <2>7
    <3> QED
      BY <2>2, <3>1
  <2> QED
    BY <1>12, <1>14, <2>5, <2>6, <2>7 DEF Dispatches, InOrder
<1> QED
  BY <1>13, <1>14

LEMMA RunSubmitKeeps ==
  ASSUME driver \in Runners, submit \in Submits, RunnerInv, RunSubmit
  PROVE  Dispatches(cluster)
<1>1. PICK e \in events : /\ e.kind = "submit"
        /\ Dispatch(cluster, pending \cup {e.job}, events \ {e}, active, e.t, lastEnd)
  BY DEF RunSubmit, Heads
<1>2. QueueOk(cluster, pending \cup {e.job}, events \ {e})
  BY <1>1, SubmitKeepsQueue DEF RunnerInv
<1> QED
  BY <1>1, <1>2, DispatchKeeps DEF RunnerInv

LEMMA RunEndKeeps ==
  ASSUME driver \in Runners, submit \in Submits, RunnerInv, RunEnd
  PROVE  Dispatches(cluster)
<1>1. PICK e \in events : /\ e.kind = "end"
        /\ \E act, ends : Dispatch(Release(cluster, e.job), pending, events \ {e}, act, e.t, ends)
  BY DEF RunEnd, Heads
<1>2. PICK act, ends : Dispatch(Release(cluster, e.job), pending, events \ {e}, act, e.t, ends)
  BY <1>1
<1>3. e.job \in DOMAIN cluster.active /\ e.job \in Jobs
  BY <1>1 DEF RunnerInv, QueueOk
<1>4. /\ ClusterOk(Release(cluster, e.job))
      /\ DOMAIN Release(cluster, e.job).active = (DOMAIN cluster.active) \ {e.job}
  BY <1>3, ReleaseKeeps DEF RunnerInv
<1> DEFINE c == Release(cluster, e.job)
<1> HIDE DEF c
<1>5. ClusterOk(c) /\ DOMAIN c.active = (DOMAIN cluster.active) \ {e.job}
  BY <1>4 DEF c
<1>6. QueueOk(c, pending, events \ {e})
  BY <1>1, <1>5, EndKeepsQueue DEF RunnerInv
<1>7. Dispatch(c, pending, events \ {e}, act, e.t, ends)
  BY <1>2 DEF c
<1>8. Dispatches(c)
  BY <1>5, <1>6, <1>7, DispatchKeeps
<1>9. InOrder(cluster)
  BY <1>5, <1>8 DEF Dispatches, InOrder
<1> QED
  BY <1>8, <1>9 DEF Dispatches

-----------------------------------------------------------------------------
(* The environment                                                           *)

LEMMA LeastPair ==
  ASSUME NEW T \in SUBSET (Nat \X Nat), T # {}
  PROVE  \E p \in T : \A q \in T : p[1] < q[1] \/ (p[1] = q[1] /\ p[2] <= q[2])
<1>1. PICK p1 \in T : \A q \in T : p1[1] <= q[1]
  <2> DEFINE U == {q[1] : q \in T}
  <2>1. U \in SUBSET Nat /\ U # {}
    OBVIOUS
  <2>2. PICK l \in U : \A u \in U : l <= u
    <3> HIDE DEF U
    <3> QED
      BY <2>1, LeastNumber
  <2> QED
    BY <2>2
<1>2. PICK p2 \in T : p2[1] = p1[1] /\ \A q \in T : q[1] = p1[1] => p2[2] <= q[2]
  <2> DEFINE U == {q[2] : q \in {r \in T : r[1] = p1[1]}}
  <2>1. U \in SUBSET Nat /\ U # {}
    OBVIOUS
  <2>2. PICK l \in U : \A u \in U : l <= u
    <3> HIDE DEF U
    <3> QED
      BY <2>1, LeastNumber
  <2> QED
    BY <2>2
<1>3. ASSUME NEW q \in T
      PROVE  p2[1] < q[1] \/ (p2[1] = q[1] /\ p2[2] <= q[2])
  <2>1. q[1] \in Nat /\ p1[1] \in Nat
    OBVIOUS
  <2> QED
    BY <1>1, <1>2, <2>1
<1> QED
  BY <1>3

LEMMA HeadExists ==
  ASSUME NEW E, E # {}, \A e \in E : e.t \in Nat /\ e.seq \in Nat
  PROVE  Heads(E) # {}
<1> DEFINE T == {<<e.t, e.seq>> : e \in E}
<1>1. T \in SUBSET (Nat \X Nat) /\ T # {}
  <2>1. \A e \in E : <<e.t, e.seq>> \in Nat \X Nat
    OBVIOUS
  <2> QED
    BY <2>1, Zenon
<1>2. PICK p \in T : \A q \in T : p[1] < q[1] \/ (p[1] = q[1] /\ p[2] <= q[2])
  <2> HIDE DEF T
  <2> QED
    BY <1>1, LeastPair
<1>3. PICK e \in E : p = <<e.t, e.seq>>
  OBVIOUS
<1>4. ASSUME NEW f \in E PROVE ~Sooner(f, e)
  <2>1. <<f.t, f.seq>> \in T
    OBVIOUS
  <2>2. e.t < f.t \/ (e.t = f.t /\ e.seq <= f.seq)
    BY <1>2, <1>3, <2>1
  <2> QED
    BY <2>2 DEF Sooner
<1> QED
  BY <1>4 DEF Heads

LEMMA FirstJobExists ==
  ASSUME NEW queue \in SUBSET Jobs, queue # {}, NEW sub \in Submits
  PROVE  \E j \in queue : \A i \in queue : ~Earlier(sub, i, j)
<1> DEFINE T == {<<sub[j], j>> : j \in queue}
<1>1. \A j \in queue : sub[j] \in Nat /\ j \in Nat
  BY ClusterAssumption, SimulatorAssumption
<1>2. T \in SUBSET (Nat \X Nat) /\ T # {}
  <2>1. \A j \in queue : <<sub[j], j>> \in Nat \X Nat
    BY <1>1
  <2> QED
    BY <2>1, Zenon
<1>3. PICK p \in T : \A q \in T : p[1] < q[1] \/ (p[1] = q[1] /\ p[2] <= q[2])
  <2> HIDE DEF T
  <2> QED
    BY <1>2, LeastPair
<1>4. PICK j \in queue : p = <<sub[j], j>>
  OBVIOUS
<1>5. ASSUME NEW i \in queue PROVE ~Earlier(sub, i, j)
  <2>1. <<sub[i], i>> \in T
    OBVIOUS
  <2>2. sub[j] < sub[i] \/ (sub[j] = sub[i] /\ j <= i)
    BY <1>3, <1>4, <2>1
  <2> QED
    BY <1>1, <2>2 DEF Earlier
<1> QED
  BY <1>5

LEMMA UndoneIsFinite ==
  ASSUME NEW s, QueueOk(s.cluster, s.pending, s.events)
  PROVE  Undone(s) \subseteq Jobs /\ IsFiniteSet(Undone(s)) /\ Cardinality(Undone(s)) \in Nat
<1>1. Undone(s) \subseteq Jobs
  BY DEF Undone, QueueOk
<1> QED
  BY <1>1, ClusterAssumption, FS_Subset, FS_CardinalityType

LEMMA HappenKeeps ==
  ASSUME NEW s, EpisodeOk(s), NEW e \in s.events
  PROVE  LET r == Happen(s, e) IN
         /\ EpisodeOk(r) /\ r.events = s.events \ {e}
         /\ DOMAIN s.cluster.active = {} =>
              DOMAIN r.cluster.active = {} /\ r.completed = s.completed
<1> DEFINE r == Happen(s, e)
<1>1. /\ r.cluster = IF e.kind = "end" THEN Release(s.cluster, e.job) ELSE s.cluster
      /\ r.pending = IF e.kind = "submit" THEN s.pending \cup {e.job} ELSE s.pending
      /\ r.completed = IF e.kind = "end" THEN s.completed + 1 ELSE s.completed
      /\ r.events = s.events \ {e} /\ r.now = e.t
  BY DEF Happen
<1> HIDE DEF r
<1>2. /\ ClusterOk(s.cluster) /\ QueueOk(s.cluster, s.pending, s.events)
      /\ e.kind \in {"submit", "end"} /\ e.job \in Jobs \ s.pending
      /\ \A f \in s.events : f.job = e.job => f = e
      /\ e.kind = "end" <=> e.job \in DOMAIN s.cluster.active
  BY DEF EpisodeOk, QueueOk
<1>3. IsFiniteSet(r.events) /\ \A f \in r.events : f.t \in Nat /\ f.seq \in Nat
  BY <1>1, FS_RemoveElement DEF EpisodeOk
<1>4. r.now \in Nat /\ r.completed \in Nat
  BY <1>1 DEF EpisodeOk
<1>5. CASE e.kind = "submit"
  <2>1. r.cluster = s.cluster /\ r.pending = s.pending \cup {e.job} /\ r.completed = s.completed
    BY <1>1, <1>5
  <2>2. QueueOk(r.cluster, r.pending, r.events)
    BY <1>1, <1>2, <1>5, <2>1, SubmitKeepsQueue
  <2>3. Undone(r) = Undone(s)
    BY <1>1, <2>1 DEF Undone
  <2>4. EpisodeOk(r)
    BY <1>2, <1>3, <1>4, <2>1, <2>2, <2>3 DEF EpisodeOk
  <2> QED
    BY <1>1, <2>1, <2>4 DEF r
<1>6. CASE e.kind = "end"
  <2>1. /\ r.cluster = Release(s.cluster, e.job) /\ r.pending = s.pending
        /\ r.completed = s.completed + 1
    BY <1>1, <1>6
  <2>2. ClusterOk(r.cluster) /\ DOMAIN r.cluster.active = (DOMAIN s.cluster.active) \ {e.job}
    BY <1>2, <2>1, ReleaseKeeps
  <2>3. QueueOk(r.cluster, r.pending, r.events)
    BY <1>1, <1>2, <1>6, <2>1, <2>2, EndKeepsQueue
  <2>4. Undone(r) = Undone(s) \ {e.job} /\ e.job \in Undone(s)
    BY <1>1, <1>2, <2>1 DEF Undone
  <2>5. Cardinality(Undone(r)) = Cardinality(Undone(s)) - 1
    BY <1>2, <2>4, UndoneIsFinite, FS_RemoveElement
  <2>6. Cardinality(Undone(s)) \in Nat /\ s.completed \in Nat
    BY <1>2, UndoneIsFinite DEF EpisodeOk
  <2>7. r.completed + Cardinality(Undone(r)) = Cardinality(Jobs)
    BY <2>1, <2>5, <2>6 DEF EpisodeOk
  <2>8. EpisodeOk(r)
    BY <1>3, <1>4, <2>2, <2>3, <2>7 DEF EpisodeOk
  <2>9. DOMAIN s.cluster.active # {}
    BY <1>2, <1>6
  <2> QED
    BY <1>1, <2>8, <2>9 DEF r
<1> QED
  BY <1>2, <1>5, <1>6

LEMMA PlacedKeeps ==
  ASSUME seq \in Nat, NEW s, EpisodeOk(s), NEW j \in s.pending, NEW plan, HasRoom(s.cluster, j, plan),
         NEW r \in Placed(s, j, plan)
  PROVE  EpisodeOk(r)
<1> DEFINE c == Allocate(s.cluster, j, plan)
<1>1. PICK x \in Realized(c, j) :
        r = [cluster |-> c, pending |-> s.pending \ {j}, completed |-> s.completed, now |-> s.now,
             events |-> s.events \cup {Event(s.now + x, seq, "end", j)}]
  BY DEF Placed
<1> DEFINE e == Event(s.now + x, seq, "end", j)
<1>2. /\ r.cluster = c /\ r.pending = s.pending \ {j} /\ r.completed = s.completed
      /\ r.now = s.now /\ r.events = s.events \cup {e}
  BY <1>1
<1>3. e.t = s.now + x /\ e.seq = seq /\ e.kind = "end" /\ e.job = j
  BY DEF Event
<1>4. /\ ClusterOk(s.cluster) /\ QueueOk(s.cluster, s.pending, s.events) /\ j \in Jobs
      /\ j \notin DOMAIN s.cluster.active
  BY DEF EpisodeOk, QueueOk
<1>5. ClusterOk(c) /\ DOMAIN c.active = (DOMAIN s.cluster.active) \cup {j}
  BY <1>4, AllocateKeeps
<1>6. x \in Nat
  <2>1. CoResidents(c, j) \subseteq Jobs
    BY <1>5 DEF CoResidents, ClusterOk
  <2>2. Cardinality(CoResidents(c, j)) \in Nat
    BY <2>1, ClusterAssumption, FS_Subset, FS_CardinalityType
  <2>3. Runtime[j] \in Nat /\ Slowdown \in Nat /\ OomDelay \in Nat
    BY <1>4, SimulatorAssumption
  <2>4. Slowdown * Cardinality(CoResidents(c, j)) \in Nat
    BY <2>2, <2>3
  <2> HIDE DEF c
  <2>5. PICK oom \in {0, OomDelay} : x = Runtime[j] + Slowdown * Cardinality(CoResidents(c, j)) + oom
    BY DEF Realized
  <2> QED
    BY <2>3, <2>4, <2>5
<1> HIDE DEF c, e
<1>7. QueueOk(r.cluster, r.pending, r.events)
  BY <1>2, <1>3, <1>4, <1>5, StartKeepsQueue
<1>8. IsFiniteSet(r.events)
  BY <1>2, FS_AddElement DEF EpisodeOk
<1>9. \A f \in r.events : f.t \in Nat /\ f.seq \in Nat
  BY <1>2, <1>3, <1>6 DEF EpisodeOk
<1>10. Undone(r) = Undone(s)
  BY <1>2, <1>3 DEF Undone
<1>11. s.now \in Nat /\ s.completed \in Nat /\ s.completed + Cardinality(Undone(s)) = Cardinality(Jobs)
  BY DEF EpisodeOk
<1> QED
  BY <1>2, <1>5, <1>7, <1>8, <1>9, <1>10, <1>11 DEF EpisodeOk

\* _advance_to_decision event by event.
AdvanceWalk(f, s) ==
  /\ Advance(s) = f[Cardinality(s.events)] /\ f[0] = s
  /\ \A k \in 1 .. Cardinality(s.events) : f[k] = Onward(f[k - 1])

LEMMA AdvanceIs ==
  ASSUME NEW s, Cardinality(s.events) \in Nat
  PROVE  \E f : AdvanceWalk(f, s)
<1> DEFINE n == Cardinality(s.events)
           f == CHOOSE g : g = [k \in 0 .. n |-> IF k = 0 THEN s ELSE Onward(g[k - 1])]
<1>1. Advance(s) = f[n]
  BY DEF Advance
<1>2. PICK h : IsWalk(h, "events", s, s, s, s, n)
  BY WalkExists
<1>3. \A k \in 0 .. n : WalkStep("events", h, s, s, s, s, k) = IF k = 0 THEN s ELSE Onward(h[k - 1])
  BY DEF WalkStep
<1>4. h = [k \in 0 .. n |-> IF k = 0 THEN s ELSE Onward(h[k - 1])]
  BY <1>2, <1>3 DEF IsWalk
<1>5. f = [k \in 0 .. n |-> IF k = 0 THEN s ELSE Onward(f[k - 1])]
  BY <1>4
<1> HIDE DEF f
<1>6. f[0] = s
  BY <1>5
<1>7. ASSUME NEW k \in 1 .. n
      PROVE  f[k] = Onward(f[k - 1])
  <2>1. k \in 0 .. n /\ k # 0
    OBVIOUS
  <2> QED
    BY <1>5, <2>1
<1> QED
  BY <1>1, <1>6, <1>7 DEF AdvanceWalk

\* r is reached from s by events alone.
Reached(s, r) ==
  /\ EpisodeOk(r)
  /\ DOMAIN s.cluster.active = {} => DOMAIN r.cluster.active = {} /\ r.completed = s.completed

LEMMA OnwardKeeps ==
  ASSUME NEW s, NEW r, Reached(s, r), AtDecision(r) \/ r.events # {}
  PROVE  /\ Reached(s, Onward(r))
         /\ AtDecision(r) => AtDecision(Onward(r))
         /\ ~AtDecision(r) => Cardinality(Onward(r).events) = Cardinality(r.events) - 1
<1>1. CASE AtDecision(r)
  BY <1>1 DEF Onward
<1>2. CASE ~AtDecision(r)
  <2> DEFINE e == CHOOSE x \in Heads(r.events) : TRUE
  <2>1. Heads(r.events) # {}
    BY <1>2, HeadExists DEF Reached, EpisodeOk
  <2>2. e \in Heads(r.events)
    BY <2>1
  <2>3. Onward(r) = Happen(r, e)
    BY <1>2 DEF Onward
  <2> HIDE DEF e
  <2>4. e \in r.events
    BY <2>2 DEF Heads
  <2> DEFINE x == Happen(r, e)
  <2>5. /\ EpisodeOk(x) /\ x.events = r.events \ {e}
        /\ DOMAIN r.cluster.active = {} => DOMAIN x.cluster.active = {} /\ x.completed = r.completed
    BY <2>4, HappenKeeps DEF Reached
  <2>6. Cardinality(r.events \ {e}) = Cardinality(r.events) - 1
    BY <2>4, FS_RemoveElement DEF Reached, EpisodeOk
  <2> HIDE DEF x
  <2>7. Reached(s, x)
    BY <2>5 DEF Reached
  <2> QED
    BY <1>2, <2>3, <2>5, <2>6, <2>7 DEF x
<1> QED
  BY <1>1, <1>2

LEMMA AdvanceKeeps ==
  ASSUME NEW s, EpisodeOk(s)
  PROVE  Reached(s, Advance(s)) /\ (AtDecision(Advance(s)) \/ Advance(s).events = {})
<1> DEFINE n == Cardinality(s.events)
<1>1. n \in Nat
  BY FS_CardinalityType DEF EpisodeOk
<1>2. PICK f : AdvanceWalk(f, s)
  BY <1>1, AdvanceIs
<1>3. /\ Advance(s) = f[n] /\ f[0] = s /\ \A k \in 1 .. n : f[k] = Onward(f[k - 1])
      /\ Cardinality(s.events) = n
  BY <1>2 DEF AdvanceWalk
<1> HIDE DEF n
<1> DEFINE Good(k) == /\ Reached(s, f[k])
                      /\ AtDecision(f[k]) \/ Cardinality(f[k].events) = n - k
           T == {k \in Nat : k <= n => Good(k)}
<1>4. 0 \in T
  <2>1. Reached(s, s)
    BY DEF Reached
  <2> QED
    BY <1>1, <1>3, <2>1
<1>5. ASSUME NEW k \in 0 .. n - 1, k \in T
      PROVE  k + 1 \in T
  <2>1. k <= n /\ k + 1 \in 1 .. n /\ (k + 1) - 1 = k /\ k + 1 \in Nat /\ k \in Nat /\ n - k # 0
    BY <1>1
  <2>2. Good(k)
    BY <1>5, <2>1
  <2>3. f[k + 1] = Onward(f[k])
    BY <1>3, <2>1
  <2>4. AtDecision(f[k]) \/ f[k].events # {}
    <3>1. Cardinality({}) = 0
      BY FS_EmptySet
    <3> QED
      BY <2>1, <2>2, <3>1
  <2>5. /\ Reached(s, Onward(f[k])) /\ (AtDecision(f[k]) => AtDecision(Onward(f[k])))
        /\ ~AtDecision(f[k]) => Cardinality(Onward(f[k]).events) = Cardinality(f[k].events) - 1
    BY <2>2, <2>4, OnwardKeeps
  <2>6. (n - k) - 1 = n - (k + 1)
    BY <1>1
  <2>7. Good(k + 1)
    BY <2>2, <2>3, <2>5, <2>6
  <2> QED
    BY <2>1, <2>7
<1>6. n \in T
  <2>1. T \in SUBSET Nat
    OBVIOUS
  <2> HIDE DEF T
  <2>2. 0 .. n \subseteq T
    BY <1>1, <1>4, <1>5, <2>1, UpTo
  <2> QED
    BY <1>1, <2>2
<1>7. Reached(s, f[n]) /\ (AtDecision(f[n]) \/ Cardinality(f[n].events) = 0)
  BY <1>1, <1>6
<1>8. IsFiniteSet(f[n].events)
  BY <1>7 DEF Reached, EpisodeOk
<1>9. Cardinality(f[n].events) = 0 => f[n].events = {}
  BY <1>8, FS_EmptySet
<1> QED
  BY <1>3, <1>7, <1>9

\* When nothing is to come and nobody fits, every job is done.
LEMMA AllDone ==
  ASSUME NEW s, EpisodeOk(s), s.events = {}, ~AtDecision(s)
  PROVE  s.completed = Cardinality(Jobs) /\ s.pending = {}
<1>1. DOMAIN s.cluster.active = {} /\ ClusterOk(s.cluster) /\ s.pending \subseteq Jobs
  BY DEF EpisodeOk, QueueOk
<1>2. s.pending = {}
  BY <1>1, EmptyFits DEF AtDecision
<1>3. Undone(s) = {}
  BY <1>2 DEF Undone
<1>4. Cardinality(Undone(s)) = 0
  BY <1>3, FS_EmptySet
<1>5. s.completed = Cardinality(Jobs)
  BY <1>4 DEF EpisodeOk
<1> QED
  BY <1>2, <1>5

LEMMA ArrivalsAre ==
  ASSUME NEW sub \in Submits
  PROVE  /\ QueueOk(EmptyCluster, {}, Arrivals(sub)) /\ IsFiniteSet(Arrivals(sub))
         /\ \A e \in Arrivals(sub) : e.t \in Nat /\ e.seq \in Nat
         /\ {e.job : e \in Arrivals(sub)} = Jobs
<1> DEFINE rank(j) == Cardinality({i \in Jobs : Earlier(sub, i, j)}) + 1
           f == [j \in Jobs |-> Event(sub[j], rank(j), "submit", j)]
<1>1. ASSUME NEW j \in Jobs PROVE rank(j) \in Nat /\ sub[j] \in Nat
  <2>1. {i \in Jobs : Earlier(sub, i, j)} \subseteq Jobs
    OBVIOUS
  <2>2. Cardinality({i \in Jobs : Earlier(sub, i, j)}) \in Nat
    BY <2>1, ClusterAssumption, FS_Subset, FS_CardinalityType
  <2> QED
    BY <2>2, SimulatorAssumption
<1>2. Arrivals(sub) = {f[j] : j \in Jobs}
  BY DEF Arrivals
<1>3. \A j \in Jobs : /\ f[j].t = sub[j] /\ f[j].seq = rank(j)
                      /\ f[j].kind = "submit" /\ f[j].job = j
  BY DEF Event
<1>4. f = [j \in Jobs |-> f[j]]
  OBVIOUS
<1> HIDE DEF f, rank
<1>5. f \in Surjection(Jobs, Arrivals(sub))
  BY <1>2, <1>4 DEF Surjection
<1>6. IsFiniteSet(Arrivals(sub))
  BY <1>5, ClusterAssumption, FS_Surjection
<1>7. DOMAIN EmptyCluster.active = {}
  BY EmptyOk
<1>8. QueueOk(EmptyCluster, {}, Arrivals(sub))
  <2>1. ASSUME NEW e \in Arrivals(sub)
        PROVE  e.kind = "submit" /\ e.job \in Jobs /\ e = f[e.job]
    BY <1>2, <1>3
  <2> QED
    BY <1>7, <2>1 DEF QueueOk
<1>9. \A e \in Arrivals(sub) : e.t \in Nat /\ e.seq \in Nat
  BY <1>1, <1>2, <1>3
<1>10. {e.job : e \in Arrivals(sub)} = Jobs
  BY <1>2, <1>3
<1> QED
  BY <1>6, <1>8, <1>9, <1>10

LEMMA FreshIsReady ==
  ASSUME NEW sub \in Submits
  PROVE  EpisodeOk(Fresh(sub)) /\ (Jobs # {} => AtDecision(Fresh(sub)))
<1> DEFINE s == [cluster |-> EmptyCluster, pending |-> {}, events |-> Arrivals(sub),
                 now |-> 0, completed |-> 0]
           r == Fresh(sub)
<1>1. /\ s.cluster = EmptyCluster /\ s.pending = {} /\ s.events = Arrivals(sub)
      /\ s.now = 0 /\ s.completed = 0 /\ r = Advance(s)
  BY DEF Fresh
<1> HIDE DEF s, r
<1>2. Undone(s) = Jobs
  BY <1>1, ArrivalsAre DEF Undone
<1>3. Cardinality(Jobs) \in Nat /\ (Jobs # {} => Cardinality(Jobs) # 0)
  BY ClusterAssumption, FS_CardinalityType, FS_EmptySet
<1>4. EpisodeOk(s)
  BY <1>1, <1>2, <1>3, EmptyOk, ArrivalsAre DEF EpisodeOk
<1>5. Reached(s, r) /\ (AtDecision(r) \/ r.events = {})
  BY <1>1, <1>4, AdvanceKeeps
<1>6. EpisodeOk(r) /\ r.completed = 0
  BY <1>1, <1>5, EmptyOk DEF Reached
<1>7. Jobs # {} => AtDecision(r)
  BY <1>3, <1>5, <1>6, AllDone
<1> QED
  BY <1>6, <1>7 DEF r

LEMMA TakenKeeps ==
  ASSUME EnvInv, NEW a \in mask, NEW s \in Taken(Episode, a)
  PROVE  EpisodeOk(s)
<1> DEFINE x == Episode
<1>1. EpisodeOk(x) /\ seq \in Nat
  BY DEF EnvInv
<1>2. mask \subseteq Legal(x, submit) \cup {NoOp}
  BY DEF EnvInv, Masks, FirstFits
<1> HIDE DEF x
<1>3. CASE Plans(x, a) # {}
  <2>1. PICK p \in Plans(x, a) : s \in Placed(x, p[1], p[2])
    BY <1>3 DEF Taken, x
  <2>2. a # NoOp
    BY <1>3 DEF Plans
  <2>3. a[2] \in Slots
    BY <1>2, <2>2 DEF Legal
  <2>4. PICK j \in Window(x.pending, submit, a[1]) :
          \E plan \in PlanOn(x.cluster, j, a[2]) : p = <<j, plan>>
    BY <2>1, <2>2 DEF Plans
  <2>5. PICK plan \in PlanOn(x.cluster, j, a[2]) : p = <<j, plan>>
    BY <2>4
  <2>6. j \in x.pending /\ j \in Jobs /\ x.cluster.free \in [Slots -> Int]
    BY <1>1 DEF Window, EpisodeOk, QueueOk, ClusterOk
  <2>7. HasRoom(x.cluster, j, plan)
    BY <2>3, <2>6, PlansHaveRoom
  <2>8. s \in Placed(x, j, plan)
    BY <2>1, <2>5
  <2> QED
    BY <1>1, <2>6, <2>7, <2>8, PlacedKeeps
<1>4. CASE Plans(x, a) = {} /\ x.events # {}
  <2>1. PICK e \in Heads(x.events) : s = Happen(x, e)
    BY <1>4 DEF Taken, x
  <2>2. e \in x.events
    BY DEF Heads
  <2> QED
    BY <1>1, <2>1, <2>2, HappenKeeps
<1>5. CASE Plans(x, a) = {} /\ x.events = {}
  BY <1>1, <1>5 DEF Taken, x
<1> QED
  BY <1>3, <1>4, <1>5

LEMMA ContinueKeeps ==
  ASSUME driver' = driver, NEW s, NEW sub \in Submits, EpisodeOk(s), Jobs # {} => AtDecision(s),
         seq' \in Nat, Continue(s, sub)
  PROVE  EnvInv'
<1>1. /\ cluster' = s.cluster /\ pending' = s.pending /\ events' = s.events
      /\ now' = s.now /\ completed' = s.completed
      /\ submit' = sub /\ mask' \in Masks(s, sub)
  BY DEF Continue
<1>2. EpisodeOk(Episode)'
  BY <1>1 DEF EpisodeOk, Undone, Episode
<1>3. Jobs # {} => AtDecision(Episode)'
  BY <1>1 DEF AtDecision, Episode
<1>4. Legal(Episode, submit)' = Legal(s, sub)
  BY <1>1 DEF Legal, Episode
<1>5. (mask \in Masks(Episode, submit))'
  BY <1>1, <1>4 DEF Masks
<1> QED
  BY <1>1, <1>2, <1>3, <1>5 DEF EnvInv

LEMMA EnvStepKeeps ==
  ASSUME EnvInv, NEW a \in mask, EnvStep(a)
  PROVE  EnvInv'
<1>1. PICK t \in Taken(Episode, a) : LET s == Advance(t) IN
        \/ ~Over(s) /\ Continue(s, submit)
           /\ seq' = (IF Plans(Episode, a) # {} THEN seq + 1 ELSE seq)
        \/ Over(s) /\ (\E sub \in Submits : Continue(Fresh(sub), sub))
           /\ seq' = Cardinality(Jobs) + 1
  BY DEF EnvStep
<1> DEFINE s == Advance(t)
<1>2. driver' = driver
  BY DEF EnvStep
<1>3. seq \in Nat /\ submit \in Submits /\ Cardinality(Jobs) \in Nat
  BY ClusterAssumption, FS_CardinalityType DEF EnvInv
<1>4. EpisodeOk(s) /\ (AtDecision(s) \/ s.events = {})
  BY TakenKeeps, AdvanceKeeps DEF Reached
<1> HIDE DEF s
<1>5. CASE ~Over(s) /\ Continue(s, submit) /\ seq' = (IF Plans(Episode, a) # {} THEN seq + 1 ELSE seq)
  <2>1. AtDecision(s)
    <3> SUFFICES ASSUME ~AtDecision(s) PROVE FALSE
      OBVIOUS
    <3>1. s.events = {} /\ s.completed = Cardinality(Jobs)
      BY <1>4, AllDone
    <3> QED
      BY <1>3, <1>5, <3>1 DEF Over
  <2>2. seq' \in Nat
    BY <1>3, <1>5
  <2> QED
    BY <1>2, <1>3, <1>4, <1>5, <2>1, <2>2, ContinueKeeps
<1>6. ASSUME NEW sub \in Submits, Continue(Fresh(sub), sub), seq' = Cardinality(Jobs) + 1
      PROVE  EnvInv'
  <2>1. EpisodeOk(Fresh(sub)) /\ (Jobs # {} => AtDecision(Fresh(sub))) /\ seq' \in Nat
    BY <1>3, <1>6, FreshIsReady
  <2> QED
    BY <1>2, <1>6, <2>1, ContinueKeeps
<1> QED
  BY <1>1, <1>5, <1>6 DEF s

-----------------------------------------------------------------------------
(* The invariant of both drivers                                             *)

SimInv ==
  /\ submit \in Submits
  /\ driver \in Runners => RunnerInv
  /\ driver \notin Runners => EnvInv

LEMMA InitHolds ==
  ASSUME Init
  PROVE  SimInv
<1>1. submit \in Submits
  BY DEF Init
<1>2. CASE driver \in Runners
  <2>1. cluster = EmptyCluster /\ pending = {} /\ events = Arrivals(submit)
    BY <1>2 DEF Init
  <2>2. RunnerInv
    BY <1>1, <2>1, EmptyOk, ArrivalsAre DEF RunnerInv
  <2> QED
    BY <1>1, <1>2, <2>2 DEF SimInv
<1>3. CASE driver \notin Runners
  <2> DEFINE s == Fresh(submit)
  <2>1. EpisodeOk(s) /\ (Jobs # {} => AtDecision(s))
    BY <1>1, FreshIsReady
  <2>2. /\ cluster = s.cluster /\ pending = s.pending /\ events = s.events
        /\ now = s.now /\ completed = s.completed /\ mask \in Masks(s, submit)
    BY <1>3 DEF Init
  <2> HIDE DEF s
  <2>3. seq \in Nat
    BY ClusterAssumption, FS_CardinalityType DEF Init
  <2>4. EpisodeOk(Episode)
    BY <2>1, <2>2 DEF EpisodeOk, Undone, Episode
  <2>5. Jobs # {} => AtDecision(Episode)
    BY <2>1, <2>2 DEF AtDecision, Episode
  <2>6. Legal(Episode, submit) = Legal(s, submit)
    BY <2>2 DEF Legal, Episode
  <2>7. mask \in Masks(Episode, submit)
    BY <2>2, <2>6 DEF Masks
  <2> QED
    BY <1>1, <1>3, <2>3, <2>4, <2>5, <2>7 DEF SimInv, EnvInv
<1> QED
  BY <1>2, <1>3

LEMMA StepKeeps ==
  ASSUME SimInv, [Next]_vars
  PROVE  SimInv' /\ (vars' # vars /\ driver \in Runners => Dispatches(cluster))
<1>1. CASE RunSubmit \/ RunEnd
  <2>1. driver \in Runners /\ driver' = driver /\ submit' = submit
    BY <1>1 DEF RunSubmit, RunEnd
  <2>2. Dispatches(cluster)
    BY <1>1, <2>1, RunSubmitKeeps, RunEndKeeps DEF SimInv
  <2>3. RunnerInv'
    BY <2>2 DEF Dispatches, RunnerInv
  <2> QED
    BY <2>1, <2>2, <2>3 DEF SimInv
<1>2. ASSUME NEW a \in mask, EnvStep(a)
      PROVE  SimInv' /\ driver \notin Runners
  <2>1. driver \notin Runners /\ driver' = driver
    BY <1>2 DEF EnvStep
  <2>2. EnvInv'
    BY <1>2, <2>1, EnvStepKeeps DEF SimInv
  <2> QED
    BY <2>1, <2>2 DEF SimInv, EnvInv
<1>3. CASE UNCHANGED vars
  <2>1. /\ driver' = driver /\ submit' = submit /\ cluster' = cluster /\ pending' = pending
        /\ events' = events /\ seq' = seq /\ now' = now /\ completed' = completed /\ mask' = mask
    BY <1>3 DEF vars, counters
  <2>2. RunnerInv => RunnerInv'
    BY <2>1 DEF RunnerInv
  <2>3. EnvInv => EnvInv'
    BY <2>1 DEF EnvInv, Episode, Masks, EpisodeOk, Undone, AtDecision, Legal
  <2> QED
    BY <1>3, <2>1, <2>2, <2>3 DEF SimInv
<1> QED
  BY <1>1, <1>2, <1>3 DEF Next

-----------------------------------------------------------------------------
(* The mask                                                                  *)

LEMMA ActionsAre ==
  /\ \A a \in (1 .. TopK) \X Slots \X Modes : a # NoOp
  /\ \A k \in 1 .. TopK, s \in Slots : <<k, s, "pack">> \in (1 .. TopK) \X Slots \X Modes
  /\ Slots \subseteq Nat \X Nat
  /\ TopK \in Nat /\ 1 \in 1 .. TopK
<1>1. \A a \in (1 .. TopK) \X Slots \X Modes : a # NoOp
  BY SMTT(30) DEF NoOp
<1>2. TopK \in Nat /\ 1 \in 1 .. TopK /\ "pack" \in Modes
  BY SimulatorAssumption
<1>3. Slots \subseteq Nat \X Nat
  BY DEF Slots, Nodes, Gpus
<1> QED
  BY <1>1, <1>2, <1>3

LEMMA PackIsLegal ==
  ASSUME Jobs # {}, EnvInv, Cardinality(pending) <= TopK \/ events = {}
  PROVE  \E a \in Legal(Episode, submit) : a[3] = "pack"
<1>1. /\ ClusterOk(cluster) /\ QueueOk(cluster, pending, events) /\ submit \in Submits
      /\ cluster.free \in [Slots -> Int] /\ pending \in SUBSET Jobs
  BY DEF EnvInv, EpisodeOk, Episode, ClusterOk, QueueOk
<1>2. PICK j \in pending : CanAllocate(cluster, j)
  BY DEF EnvInv, AtDecision, Episode
<1>3. ASSUME NEW k \in 1 .. TopK, NEW i \in Window(pending, submit, k), CanAllocate(cluster, i)
      PROVE  \E a \in Legal(Episode, submit) : a[3] = "pack"
  <2>1. i \in Jobs
    BY <1>1 DEF Window
  <2>2. PICK s \in Slots : CanAllocateOn(cluster, i, s)
    BY <1>1, <1>3, <2>1, FitsSomewhere
  <2>3. <<k, s, "pack">> \in Legal(Episode, submit)
    BY <1>3, <2>2, ActionsAre DEF Legal, Episode
  <2> QED
    BY <2>3
<1>4. CASE events = {}
  <2>1. DOMAIN cluster.active = {}
    BY <1>1, <1>4 DEF QueueOk
  <2>2. PICK i \in pending : \A h \in pending : ~Earlier(submit, h, i)
    BY <1>1, <1>2, FirstJobExists
  <2>3. {h \in pending : Earlier(submit, h, i)} = {}
    BY <2>2
  <2>4. Cardinality({h \in pending : Earlier(submit, h, i)}) = 1 - 1
    BY <2>3, FS_EmptySet
  <2>5. i \in Window(pending, submit, 1)
    BY <2>4, ActionsAre DEF Window
  <2>6. CanAllocate(cluster, i)
    BY <1>1, <2>1, EmptyFits
  <2> QED
    BY <1>3, <2>5, <2>6, ActionsAre
<1>5. CASE Cardinality(pending) <= TopK
  <2> DEFINE before == {h \in pending : Earlier(submit, h, j)}
  <2>1. IsFiniteSet(pending) /\ Cardinality(pending) \in Nat
    BY <1>1, ClusterAssumption, FS_Subset, FS_CardinalityType
  <2>2. j \notin before
    BY <1>1, EarlierIsOrder
  <2>3. before \subseteq pending /\ before # pending
    BY <2>2
  <2>4. /\ Cardinality(before) \in Nat /\ Cardinality(before) <= Cardinality(pending)
        /\ Cardinality(before) # Cardinality(pending)
    <3> HIDE DEF before
    <3> QED
      BY <2>1, <2>3, FS_Subset, FS_CardinalityType
  <2>5. Cardinality(before) + 1 \in 1 .. TopK /\ (Cardinality(before) + 1) - 1 = Cardinality(before)
    <3> HIDE DEF before
    <3> QED
      BY <1>5, <2>1, <2>4, ActionsAre
  <2>6. j \in Window(pending, submit, Cardinality(before) + 1)
    BY <2>5 DEF Window
  <2> HIDE DEF before
  <2> QED
    BY <1>2, <1>3, <2>5, <2>6
<1> QED
  BY <1>4, <1>5

LEMMA MaskHasActions ==
  ASSUME EnvInv, NEW a \in Legal(Episode, submit), a[3] = "pack"
  PROVE  mask # {NoOp}
<1> DEFINE legal == Legal(Episode, submit)
<1>1. \A b \in legal : b \in (1 .. TopK) \X Slots \X Modes /\ b # NoOp
  BY ActionsAre DEF Legal
<1>2. mask \in Masks(Episode, submit)
  BY DEF EnvInv
<1>3. CASE driver = "job_only"
  <2> DEFINE T == {b[2] : b \in {b \in legal : b[1] = a[1]}}
  <2>1. T \in SUBSET (Nat \X Nat) /\ T # {}
    <3>1. \A b \in legal : b[2] \in Nat \X Nat
      BY <1>1, ActionsAre
    <3> QED
      BY <3>1, Zenon
  <2>2. PICK p \in T : \A q \in T : p[1] < q[1] \/ (p[1] = q[1] /\ p[2] <= q[2])
    <3> HIDE DEF T
    <3> QED
      BY <2>1, LeastPair
  <2>3. PICK b \in legal : b[1] = a[1] /\ p = b[2]
    OBVIOUS
  <2> DEFINE x == <<a[1], b[2], "pack">>
  <2>4. x \in legal
    <3>1. b[1] \in 1 .. TopK /\ b[2] \in Slots
      BY <1>1
    <3>2. x \in (1 .. TopK) \X Slots \X Modes
      BY <2>3, <3>1, ActionsAre
    <3>3. \E j \in Window(Episode.pending, submit, b[1]) : CanAllocateOn(Episode.cluster, j, b[2])
      BY DEF Legal
    <3> QED
      BY <2>3, <3>2, <3>3 DEF Legal
  <2>5. ASSUME NEW c \in legal, c[1] = x[1] PROVE ~Before(c[2], x[2])
    <3>1. c[2] \in T
      BY <2>5
    <3>2. p[1] < c[2][1] \/ (p[1] = c[2][1] /\ p[2] <= c[2][2])
      BY <2>2, <3>1
    <3>3. c[2] \in Nat \X Nat /\ p \in Nat \X Nat
      BY <2>1, <3>1
    <3> QED
      BY <2>3, <3>2, <3>3 DEF Before
  <2>6. x \in FirstFits(legal)
    BY <2>4, <2>5 DEF FirstFits
  <2>7. x \in mask
    BY <1>2, <1>3, <2>6 DEF Masks
  <2> QED
    BY <1>1, <2>4, <2>7
<1>4. CASE driver = "placement_only"
  <2>1. PICK head \in {b[1] : b \in legal} : mask = {b \in legal : b[1] = head} \cup {NoOp}
    BY <1>2, <1>4 DEF Masks
  <2>2. PICK b \in legal : b[1] = head
    BY <2>1
  <2> QED
    BY <1>1, <2>1, <2>2
<1>5. CASE driver \notin {"job_only", "placement_only"}
  <2>1. a \in mask
    BY <1>2, <1>5 DEF Masks
  <2> QED
    BY <1>1, <2>1
<1> QED
  BY <1>3, <1>4, <1>5

-----------------------------------------------------------------------------
(* Theorems                                                                  *)

LEMMA SimulatorInvariant == Spec => []SimInv
<1>1. Init => SimInv
  BY InitHolds
<1>2. SimInv /\ [Next]_vars => SimInv'
  BY StepKeeps
<1> QED
  BY <1>1, <1>2, PTL DEF Spec

(* On every GPU and host what is free and what the jobs hold make up what    *)
(* there is, whatever is allocated and released in whatever order            *)
(* (cluster.py, allocate and release).                                       *)
THEOREM AccountsStayBalanced == Spec => []AccountsBalance
<1>1. SimInv => AccountsBalance
  BY DEF SimInv, RunnerInv, EnvInv, EpisodeOk, Episode, ClusterOk, AccountsBalance
<1> QED
  BY <1>1, SimulatorInvariant, PTL

(* Whoever calls step holds a mask whose actions all place their job, also   *)
(* right after the reset that _step_one does by itself.                      *)
THEOREM MasksStaySound == Spec => []MaskIsSound
<1>1. SimInv => MaskIsSound
  <2> SUFFICES ASSUME EnvInv, NEW a \in mask \ {NoOp}
               PROVE  \E j \in Window(pending, submit, a[1]) : PlanOn(cluster, j, a[2]) # {}
    BY DEF SimInv, MaskIsSound
  <2>1. mask \subseteq Legal(Episode, submit) \cup {NoOp}
    BY DEF EnvInv, Masks, FirstFits
  <2>2. a \in Legal(Episode, submit)
    BY <2>1
  <2> QED
    BY <2>2 DEF Legal, Episode, CanAllocateOn
<1> QED
  BY <1>1, SimulatorInvariant, PTL

(* try_dispatch leaves nobody waiting who fits, with backfill, and lets      *)
(* nobody pass, without it: whatever the cluster, the trace and the order.   *)
THEOREM DispatchKeepsOrder == Spec => DispatchRespectsOrder
<1> DEFINE Respected ==
      driver \in Runners =>
        IF Backfill THEN \A j \in pending' : ~CanAllocate(cluster', j)
        ELSE \A j \in pending' :
               /\ (\A i \in pending' \ {j} : Earlier(submit, j, i)) => ~CanAllocate(cluster', j)
               /\ \A i \in Started : Earlier(submit, i, j)
<1>1. SimInv /\ [Next]_vars => [Respected]_vars
  <2> SUFFICES ASSUME SimInv, [Next]_vars, vars' # vars, driver \in Runners PROVE Respected
    OBVIOUS
  <2>1. InOrder(cluster)
    BY StepKeeps DEF Dispatches
  <2> QED
    BY <2>1 DEF InOrder, Started
<1>2. Spec => [][Respected]_vars
  BY <1>1, SimulatorInvariant, PTL DEF Spec
<1> QED
  BY <1>2 DEF DispatchRespectsOrder

(* With at least one job in the trace: a run ends with every job done, and   *)
(* the environment only asks for decisions that somebody can take, unless    *)
(* the window of top_k jobs hides the one that fits and there is an event    *)
(* left that changes that. can_allocate ends _advance_to_decision and        *)
(* can_allocate_on makes the mask: they agree.                               *)
THEOREM NobodyIsStranded ==
  ASSUME Jobs # {} PROVE Spec => []NobodyStranded
<1>1. ASSUME SimInv PROVE NobodyStranded
  <2>1. CASE driver \in Runners
    <3> SUFFICES ASSUME events = {} PROVE pending = {} /\ DOMAIN cluster.active = {}
      BY <2>1 DEF NobodyStranded
    <3>1. RunnerInv
      BY <1>1, <2>1 DEF SimInv
    <3>2. DOMAIN cluster.active = {} /\ ClusterOk(cluster) /\ pending \subseteq Jobs
      BY <3>1 DEF RunnerInv, QueueOk
    <3>3. \A j \in pending : CanAllocate(cluster, j)
      BY <3>2, EmptyFits
    <3> QED
      BY <3>1, <3>2, <3>3 DEF RunnerInv
  <2>2. CASE driver \notin Runners
    <3> SUFFICES ASSUME mask = {NoOp} PROVE Cardinality(pending) > TopK /\ events # {}
      BY <2>2 DEF NobodyStranded
    <3>1. EnvInv
      BY <1>1, <2>2 DEF SimInv
    <3>2. ~ (Cardinality(pending) <= TopK) /\ events # {}
      BY <3>1, PackIsLegal, MaskHasActions
    <3>3. pending \subseteq Jobs
      BY <3>1 DEF EnvInv, EpisodeOk, Episode, QueueOk
    <3>4. Cardinality(pending) \in Nat /\ TopK \in Nat
      BY <3>3, ClusterAssumption, ActionsAre, FS_Subset, FS_CardinalityType
    <3> QED
      BY <3>2, <3>4
  <2> QED
    BY <2>1, <2>2
<1> QED
  BY <1>1, SimulatorInvariant, PTL

=============================================================================
