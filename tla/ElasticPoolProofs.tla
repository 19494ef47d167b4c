------------------------- MODULE ElasticPoolProofs -------------------------
(***************************************************************************)
(* Proofs about ElasticPool, for every size of the pool, every timeout and *)
(* every queue: types, bounds and markers hold whichever calls fail, and,  *)
(* with the timing of the chart, in which ways alone a scale action loses  *)
(* a job, a pod its marker and a node its service.                         *)
(***************************************************************************)
EXTENDS ElasticPool, FiniteSetTheorems, TLAPS

(* The policy *)

\* What a decision of the policy says about its target: it lies within the replicas
\* the pool can have, and the action names the direction (policy._to_decision).
LEMMA EvaluateTarget ==
  ASSUME NEW o \in Observation, o.cur \in 0 .. Max, o.busy \in 0 .. Max
  PROVE  /\ Evaluate(o).target \in 0 .. Max
         /\ Evaluate(o).action = "scale_up" <=> Evaluate(o).target > o.cur
         /\ Evaluate(o).action = "scale_down" <=> Evaluate(o).target < o.cur
<1>1. GrowTarget(o) \in 0 .. Max
  BY PolicyAssumption DEF GrowTarget, Clamp, Larger, Smaller, Observation
<1>2. ShrinkTarget(o) \in 0 .. Max
  BY PolicyAssumption DEF ShrinkTarget, SafeFloor, Clamp, Larger, Smaller, Observation
<1>3. Target(o) \in 0 .. Max
  BY <1>1, <1>2 DEF Target, NoDemand, PinnedByJobs, Observation
<1>4. /\ Evaluate(o).target = Target(o)
      /\ Evaluate(o).action = IF Target(o) > o.cur THEN "scale_up"
                              ELSE IF Target(o) < o.cur THEN "scale_down" ELSE "keep"
  BY DEF Evaluate, Decision
<1> QED
  BY <1>3, <1>4, PolicyAssumption

\* Under a load that stays the pool goes in one direction and rests at its maximum or at
\* the floor of the load, for any bounds, steps and load (CheckpointAwareQueuePolicy).
THEOREM PolicyKeepsDirection == PolicyIsSteady
<1> SUFFICES ASSUME NEW o \in Observation
             PROVE  /\ Target(o) > o.cur => Target(Followed(o)) >= Target(o)
                    /\ Target(o) < o.cur => Target(Followed(o)) <= Target(o)
                    /\ o.need > 0 => (Target(o) = o.cur <=> o.cur = Max)
                    /\ NoDemand(o) /\ o.run = 0 => (Target(o) = o.cur <=> o.cur = SafeFloor(o))
  BY DEF PolicyIsSteady
<1> DEFINE c == o.cur
           t == Target(o)
           f == SafeFloor(o)
           p == Followed(o)
<1>1. c \in Nat /\ o.pend \in Nat /\ o.need \in Nat /\ o.run \in Nat /\ o.busy \in Nat
  BY DEF Observation
<1>2. Min \in Nat /\ Max \in Nat /\ Min <= Max /\ UpStep \in Nat \ {0} /\ DownStep \in Nat \ {0}
  BY PolicyAssumption
<1>3. p.cur = t /\ p.need = o.need /\ p.pend = o.pend /\ p.run = o.run /\ p.busy = o.busy
  BY DEF Followed, Observation
<1>4. f \in Nat /\ SafeFloor(p) = f
  BY <1>1, <1>2, <1>3 DEF SafeFloor, Larger
<1>5. CASE o.need > 0
  <2>1. t = Clamp(c + UpStep, Min, Max) /\ Target(p) = Clamp(t + UpStep, Min, Max) /\ ~NoDemand(o)
    BY <1>1, <1>3, <1>5 DEF Target, GrowTarget, NoDemand
  <2> QED
    BY <1>1, <1>2, <2>1 DEF Clamp, Larger, Smaller
<1>6. CASE o.need = 0 /\ o.pend # 0
  BY <1>1, <1>6 DEF Target, NoDemand
<1>7. CASE o.need = 0 /\ o.pend = 0
  <2> DEFINE s == ShrinkTarget(o)
  <2>1. s = Clamp(c - DownStep, f, Max) /\ ShrinkTarget(p) = Clamp(t - DownStep, f, Max)
    BY <1>3, <1>4 DEF ShrinkTarget
  <2>2. t = IF s < c /\ o.run > 0 THEN c ELSE s
    BY <1>1, <1>7 DEF Target, NoDemand, PinnedByJobs
  <2>3. Target(p) = IF ShrinkTarget(p) < t /\ o.run > 0 THEN t ELSE ShrinkTarget(p)
    BY <1>1, <1>3, <1>7 DEF Target, NoDemand, PinnedByJobs
  <2>4. s \in Nat /\ t \in Nat
    BY <1>1, <1>2, <1>4, <2>1, <2>2 DEF Clamp, Larger, Smaller
  <2>5. t > c => t = f /\ ShrinkTarget(p) = f
    BY <1>1, <1>2, <1>4, <2>1, <2>2, <2>4 DEF Clamp, Larger, Smaller
  <2>6. t < c => t = s /\ f <= t /\ ShrinkTarget(p) <= t
    BY <1>1, <1>2, <1>4, <2>1, <2>2, <2>4 DEF Clamp, Larger, Smaller
  <2>7. o.run = 0 => (t = c <=> c = f)
    BY <1>1, <1>2, <1>4, <2>1, <2>2, <2>4 DEF Clamp, Larger, Smaller
  <2> HIDE DEF s, t, f, c, p
  <2>8. (t > c => Target(p) >= t) /\ (t < c => Target(p) <= t)
    BY <1>1, <1>4, <2>3, <2>4, <2>5, <2>6
  <2> QED
    BY <1>7, <2>7, <2>8 DEF t, f, c, p
<1> QED
  BY <1>1, <1>5, <1>6, <1>7

\* A set of ordinals is finite and has at most Max elements.
LEMMA CardinalityInRange ==
  ASSUME NEW S \in SUBSET Ord
  PROVE  Cardinality(S) \in 0 .. Max
<1>1. Max \in Nat
  BY PolicyAssumption
<1>2. IsFiniteSet(Ord) /\ Cardinality(Ord) = Max
  BY <1>1, FS_Interval DEF Ord
<1>3. Cardinality(S) \in Nat /\ Cardinality(S) <= Max
  BY <1>2, FS_Subset, FS_CardinalityType
<1> QED
  BY <1>1, <1>3

-----------------------------------------------------------------------------
(* Types of the helpers *)

\* Whatever part of a Slurm command takes effect, every node keeps a state.
LEMMA MarkedType ==
  ASSUME node \in [Ord -> NodeStates], NEW S, NEW st \in NodeStates, NEW n \in Marked(S, st)
  PROVE  n \in [Ord -> NodeStates]
  BY DEF Marked

\* Whichever annotations are written, the StatefulSet carries well-formed ones.
LEMMA WrittenType ==
  ASSUME saved \in Annotations, NEW new \in Annotations, NEW s \in Written(new)
  PROVE  s \in Annotations
  BY DEF Written, Faulty, Annotations

\* Ages and markers stay within the horizon when time passes.
LEMMA AgingType ==
  /\ \A a \in Age : Later(a) \in Age /\ Sooner(a) \in Age
  /\ \A m \in Marker : Older(m) \in Marker
<1>1. \A a \in Age : Later(a) \in Age /\ Sooner(a) \in Age
  BY PoolAssumption DEF Age, Later, Sooner
<1>2. \A m \in Marker : Older(m) \in Marker
  BY <1>1 DEF Older, Marker
<1> QED
  BY <1>1, <1>2

\* The markers and ages the code starts from are well formed.
LEMMA InitialTypes ==
  /\ NoMarker \in Marker /\ NoObs \in Observation /\ NoAges \in [Ord -> Age]
  /\ 0 \in Age /\ Horizon \in Age /\ RetryDelay \in Age
  /\ 0 \in 0 .. Max
  BY PolicyAssumption, PoolAssumption
  DEF NoMarker, Marker, NoObs, Observation, NoAges, Age

\* Scaling the StatefulSet keeps the pods below its replicas and the jobs on its pods.
LEMMA ScaleType ==
  ASSUME TypeOK, NEW n \in 0 .. Max, Scale(n)
  PROVE  /\ replicas' \in 0 .. Max
         /\ up' \subseteq {i \in Ord : i < replicas'}
         /\ busy' \subseteq up'
  BY DEF TypeOK, Scale

-----------------------------------------------------------------------------
(* Type correctness *)

\* The operator starts from well-formed state.
LEMMA TypeInit == Init => TypeOK
<1> SUFFICES ASSUME Init PROVE TypeOK
  OBVIOUS
<1>1. Min .. Max \subseteq 0 .. Max
  BY PolicyAssumption
<1>2. node \in [Ord -> NodeStates]
  BY DEF Init, NodeStates
<1>3. saved \in Annotations
  BY InitialTypes DEF Init, Annotations
<1>4. obs \in Observation /\ obs.cur \in 0 .. Max /\ obs.busy \in 0 .. Max
  BY InitialTypes DEF Init, NoObs
<1> QED
  BY <1>1, <1>2, <1>3, <1>4, InitialTypes, PoolAssumption DEF Init, TypeOK, Steps

\* The steps of a reconcile pass keep the types.
LEMMA TypePass == TypeOK /\ Pass => TypeOK'
<1> SUFFICES ASSUME TypeOK, Pass PROVE TypeOK'
  OBVIOUS
<1> USE InitialTypes DEF TypeOK, Steps
<1>0. ASSUME EndPass
      PROVE  pc' \in Steps /\ obs' \in Observation /\ obs'.cur \in 0 .. Max
             /\ obs'.busy \in 0 .. Max /\ goal' \in 0 .. Max
  BY <1>0 DEF EndPass, NoObs
<1>00. /\ Chosen.target \in 0 .. Max
       /\ Chosen.action = "scale_up" => Chosen.target > obs.cur
  BY EvaluateTarget DEF Chosen
<1>1. CASE ListJobs
  <2>1. Cardinality(busy) \in Nat
    BY CardinalityInRange DEF Ord
  <2> DEFINE listing == [NoObs EXCEPT !.pend = waiting + blocked, !.need = blocked, !.run = Cardinality(busy)]
  <2>2. waiting + blocked \in Nat /\ blocked \in Nat
    BY PoolAssumption
  <2>3. listing \in Observation /\ listing.cur = NoObs.cur /\ listing.busy = NoObs.busy
    BY <2>1, <2>2 DEF Observation
  <2>4. obs' \in {listing, NoObs}
    BY <1>1 DEF ListJobs, Faulty
  <2>5. obs' \in Observation /\ obs'.cur \in 0 .. Max /\ obs'.busy \in 0 .. Max
    BY <2>3, <2>4 DEF NoObs
  <2> QED
    BY <1>1, <2>5 DEF ListJobs, kubeVars, slurmVars, queueVars, memory, history
<1>2. CASE ReadPool
  <2>1. \A S \in SUBSET busy : Cardinality(S) \in 0 .. Max
    BY CardinalityInRange
  <2>2. BusyReadings \subseteq 0 .. Max
    BY <2>1 DEF BusyReadings, Faulty
  <2>3. PICK c \in 0 .. Max, b \in 0 .. Max : obs' = [obs EXCEPT !.cur = c, !.busy = b]
    BY <1>2, <2>2 DEF ReadPool, Faulty
  <2>4. c \in Nat /\ b \in Nat
    BY PolicyAssumption
  <2>5. obs' \in Observation /\ obs'.cur = c /\ obs'.busy = b
    BY <2>3, <2>4 DEF Observation
  <2> QED
    BY <1>2, <2>5 DEF ReadPool, kubeVars, slurmVars, queueVars, memory, history
<1>3. CASE StillProvisioning
  BY <1>3 DEF StillProvisioning, kubeVars, slurmVars, queueVars, memory, history
<1>4. CASE Provisioned
  <2>1. node' \in [Ord -> NodeStates]
    BY <1>4, MarkedType DEF Provisioned, NodeStates
  <2>2. [saved EXCEPT !.prov = NoMarker, !.retry = 0] \in Annotations
    BY DEF Annotations
  <2>3. saved' \in Annotations
    BY <1>4, <2>2, WrittenType DEF Provisioned
  <2> QED
    BY <1>4, <2>1, <2>3 DEF Provisioned, kubeVars, queueVars, history
<1>5. CASE RollBack
  <2>1. node' \in [Ord -> NodeStates]
    BY <1>5, MarkedType DEF RollBack, GivesUp, NodeStates
  <2>2. prov.from \in 0 .. Max
    BY DEF Marker
  <2>3. /\ replicas' \in 0 .. Max
        /\ up' \subseteq {i \in Ord : i < replicas'}
        /\ busy' \subseteq up'
    BY <1>5, <2>2, ScaleType DEF RollBack
  <2> QED
    BY <1>5, <2>1, <2>3 DEF RollBack, queueVars, history
<1>6. CASE RollBackRefused
  <2>1. node' \in [Ord -> NodeStates]
    BY <1>6, MarkedType DEF RollBackRefused, GivesUp, NodeStates
  <2> QED
    BY <1>6, <1>0, <2>1 DEF RollBackRefused, kubeVars, queueVars, memory, history
<1>7. CASE SaveRollBack
  <2>1. [prov |-> NoMarker, since |-> since, retry |-> retry] \in Annotations
    BY DEF Annotations
  <2>2. saved' \in Annotations
    BY <1>7, <2>1, WrittenType DEF SaveRollBack
  <2> QED
    BY <1>7, <2>2 DEF SaveRollBack, kubeVars, slurmVars, queueVars, memory, history
<1>8. CASE Keep
  BY <1>8, <1>0 DEF Keep, kubeVars, slurmVars, queueVars, memory, history
<1>9. CASE BeginScaleUp
  <2>1. node' \in [Ord -> NodeStates]
    BY <1>9, MarkedType DEF BeginScaleUp, NodeStates
  <2>2. NewMarker \in Marker
    BY <1>00 DEF NewMarker, Marker
  <2>3. saved' \in Annotations /\ prov' \in Marker
    BY <1>9, <2>2 DEF BeginScaleUp, Annotations
  <2>4. pc' \in Steps /\ obs' \in Observation /\ obs'.cur \in 0 .. Max
        /\ obs'.busy \in 0 .. Max /\ goal' \in 0 .. Max
    BY <1>9, <1>0, <1>00 DEF BeginScaleUp
  <2> QED
    BY <1>9, <2>1, <2>3, <2>4 DEF BeginScaleUp, kubeVars, queueVars, history
<1>10. CASE Raise
  <2>1. /\ replicas' \in 0 .. Max
        /\ up' \subseteq {i \in Ord : i < replicas'}
        /\ busy' \subseteq up'
    BY <1>10, ScaleType DEF Raise
  <2> QED
    BY <1>10, <2>1 DEF Raise, queueVars
<1>11. CASE RaiseRefused
  BY <1>11, <1>0 DEF RaiseRefused, kubeVars, slurmVars, queueVars, memory, history
<1>12. CASE SaveScaleUp
  <2>1. [saved EXCEPT !.since = since, !.retry = 0] \in Annotations
    BY DEF Annotations
  <2>2. saved' \in Annotations
    BY <1>12, <2>1, WrittenType DEF SaveScaleUp
  <2> QED
    BY <1>12, <1>0, <2>2 DEF SaveScaleUp, kubeVars, slurmVars, queueVars, memory, history
<1>13. CASE BeginDrain
  <2>1. node' \in [Ord -> NodeStates]
    BY <1>13, MarkedType DEF BeginDrain, NodeStates
  <2>2. draining' \subseteq Ord
    BY <1>13 DEF BeginDrain, DrainTargets, Span
  <2>3. drainAge' \in [Ord -> Age]
    BY <1>13 DEF BeginDrain
  <2> QED
    BY <1>13, <1>00, <2>1, <2>2, <2>3 DEF BeginDrain, kubeVars, queueVars, history
<1>14. CASE CheckDrained
  <2>1. node' \in [Ord -> NodeStates]
    BY <1>14, MarkedType DEF CheckDrained, NodeStates
  <2>2. busy' \subseteq up'
    BY <1>14 DEF CheckDrained, kubeVars
  <2>3. pc' \in Steps /\ obs' \in Observation /\ obs'.cur \in 0 .. Max
        /\ obs'.busy \in 0 .. Max /\ goal' \in 0 .. Max
    BY <1>14, <1>0 DEF CheckDrained
  <2> QED
    BY <1>14, <2>1, <2>2, <2>3 DEF CheckDrained, kubeVars, queueVars, memory, history
<1>15. CASE Shrink
  <2>1. node' \in [Ord -> NodeStates]
    BY <1>15, MarkedType DEF Shrink, NodeStates
  <2>2. /\ replicas' \in 0 .. Max
        /\ up' \subseteq {i \in Ord : i < replicas'}
        /\ busy' \subseteq up'
    BY <1>15, ScaleType DEF Shrink
  <2> QED
    BY <1>15, <2>1, <2>2 DEF Shrink, queueVars, history
<1>16. CASE ShrinkRefused
  BY <1>16, <1>0 DEF ShrinkRefused, kubeVars, slurmVars, queueVars, memory, history
<1>17. CASE SaveScaleDown
  <2>1. [saved EXCEPT !.since = since] \in Annotations
    BY DEF Annotations
  <2>2. saved' \in Annotations
    BY <1>17, <2>1, WrittenType DEF SaveScaleDown
  <2> QED
    BY <1>17, <1>0, <2>2 DEF SaveScaleDown, kubeVars, slurmVars, queueVars, memory
<1> QED
  BY <1>1, <1>2, <1>3, <1>4, <1>5, <1>6, <1>7, <1>8, <1>9, <1>10, <1>11, <1>12,
     <1>13, <1>14, <1>15, <1>16, <1>17 DEF Pass

\* A process that ends between two calls leaves nodes half marked, an annotation of two
\* written, or the replicas patched and nothing else.
LEMMA HalfDone ==
  ASSUME TypeOK, CrashAmid
  PROVE  /\ node' \in [Ord -> NodeStates]
         /\ saved' \in Annotations
         /\ saved'.prov \in {saved.prov, NoMarker}
         /\ saved'.since = saved.since \/ (pc \in {"saveBack", "saveUp"} /\ saved'.since = since)
         /\ saved'.prov # saved.prov => (pc = "observed" /\ ProvisionedHalf) \/ pc = "saveBack"
         /\ UNCHANGED <<kubeVars, node>> \/ (pc \in {"decide", "drained", "observed"} /\ UNCHANGED <<kubeVars>>)
              \/ (pc = "shrink" /\ Scale(goal) /\ UNCHANGED saved)
         /\ busy' \subseteq up' /\ busy' \subseteq busy
<1> USE DEF TypeOK
<1>1. \A S, st : st \in NodeStates => \A n \in PartlyMarked(S, st) : n \in [Ord -> NodeStates]
  BY DEF PartlyMarked
<1>2. {"active", "future", "drain", "down"} \subseteq NodeStates
  BY DEF NodeStates
<1>3. \A new \in Annotations : \A s \in Written(new) :
          s \in Annotations /\ s.prov \in {saved.prov, new.prov} /\ s.since \in {saved.since, new.since}
  BY DEF Written, Faulty, Annotations
<1>4. /\ [saved EXCEPT !.prov = NoMarker] \in Annotations
      /\ [saved EXCEPT !.prov = NoMarker].prov = NoMarker /\ [saved EXCEPT !.prov = NoMarker].since = saved.since
      /\ [saved EXCEPT !.prov = NoMarker, !.retry = 0] \in Annotations
      /\ [saved EXCEPT !.prov = NoMarker, !.retry = 0].prov = NoMarker
      /\ [saved EXCEPT !.prov = NoMarker, !.retry = 0].since = saved.since
      /\ [saved EXCEPT !.prov = NoMarker, !.since = since] \in Annotations
      /\ [saved EXCEPT !.prov = NoMarker, !.since = since].prov = NoMarker
      /\ [saved EXCEPT !.prov = NoMarker, !.since = since].since = since
      /\ [saved EXCEPT !.since = since] \in Annotations
      /\ [saved EXCEPT !.since = since].prov = saved.prov /\ [saved EXCEPT !.since = since].since = since
  BY InitialTypes DEF Annotations
<1>5. CASE ProvisionedHalf
  <2>1. node' \in [Ord -> NodeStates]
    BY <1>1, <1>2, <1>5 DEF ProvisionedHalf
  <2>2. /\ saved' \in Annotations /\ saved'.prov \in {saved.prov, NoMarker} /\ saved'.since = saved.since
    BY <1>3, <1>4, <1>5 DEF ProvisionedHalf
  <2> QED
    BY <1>5, <2>1, <2>2 DEF ProvisionedHalf, kubeVars
<1>6. CASE SaveHalf
  <2>1. /\ saved' \in Annotations /\ saved'.prov \in {saved.prov, NoMarker}
        /\ saved'.since \in {saved.since, since} /\ (pc = "saveUp" => saved'.prov = saved.prov)
    BY <1>3, <1>4, <1>6 DEF SaveHalf
  <2> QED
    BY <1>6, <2>1 DEF SaveHalf, kubeVars, slurmVars
<1>7. CASE RollBackHalf \/ UndrainHalf \/ DrainHalf \/ KillHalf
  <2>1. node' \in [Ord -> NodeStates]
    BY <1>1, <1>2, <1>7 DEF RollBackHalf, UndrainHalf, DrainHalf, KillHalf
  <2> QED
    BY <1>7, <2>1 DEF RollBackHalf, UndrainHalf, DrainHalf, KillHalf, kubeVars
<1>8. CASE ShrinkHalf
  <2>1. node' \in [Ord -> NodeStates]
    BY <1>1, <1>2, <1>8 DEF ShrinkHalf
  <2>2. busy' \subseteq up' /\ busy' \subseteq busy
    BY <1>8 DEF ShrinkHalf, Scale
  <2> QED
    BY <1>8, <2>1, <2>2 DEF ShrinkHalf
<1> QED
  BY <1>5, <1>6, <1>7, <1>8 DEF CrashAmid

\* Restarts of the operator keep the types.
LEMMA TypeRestart == TypeOK /\ (Crash \/ CrashAmid \/ Restart) => TypeOK'
<1> SUFFICES ASSUME TypeOK, Crash \/ CrashAmid \/ Restart PROVE TypeOK'
  OBVIOUS
<1> USE InitialTypes DEF TypeOK, Steps
<1>0. ASSUME ProcessEnds
      PROVE  /\ obs' \in Observation /\ obs'.cur \in 0 .. Max /\ obs'.busy \in 0 .. Max
             /\ crashes' \in 0 .. MaxCrashes /\ pc' \in Steps /\ goal' \in 0 .. Max
             /\ prov' \in Marker /\ since' \in Age /\ retry' \in Age
             /\ draining' \subseteq Ord /\ drainAge' \in [Ord -> Age]
  <2>1. obs' \in Observation /\ obs'.cur \in 0 .. Max /\ obs'.busy \in 0 .. Max
    BY <1>0 DEF ProcessEnds, NoObs
  <2>2. crashes' \in 0 .. MaxCrashes
    BY <1>0, PoolAssumption DEF ProcessEnds
  <2> QED
    BY <1>0, <2>1, <2>2 DEF ProcessEnds
<1>1. CASE Crash
  BY <1>0, <1>1 DEF Crash, kubeVars, slurmVars, queueVars, history
<1>a. CASE CrashAmid
  <2>1. replicas' \in 0 .. Max /\ up' \subseteq {i \in Ord : i < replicas'}
    <3>1. UNCHANGED <<replicas, up>> \/ Scale(goal)
      BY <1>a, HalfDone DEF kubeVars
    <3> QED
      BY <3>1, ScaleType
  <2>2. UNCHANGED <<queueVars, history>> /\ ProcessEnds
    BY <1>a DEF CrashAmid
  <2> QED
    BY <1>0, <1>a, <2>1, <2>2, HalfDone DEF queueVars, history
<1>2. CASE Restart
  <2>1. PICK s \in Age, m \in Marker, t \in Age :
          /\ prov' = IF InFlight(m) THEN m ELSE NoMarker
          /\ since' = RestoredSince(s, m)
          /\ retry' = t
    BY <1>2 DEF Restart, Faulty, Annotations
  <2>2. prov' \in Marker /\ since' \in Age /\ retry' \in Age
    BY <2>1 DEF RestoredSince, Smaller, Marker
  <2> QED
    BY <1>2, <2>2 DEF Restart, kubeVars, slurmVars, queueVars, history
<1> QED
  BY <1>1, <1>2, <1>a

\* Jobs, pods and the passing of time keep the types.
LEMMA TypeWorld == TypeOK /\ (World \/ Tick) => TypeOK'
<1> SUFFICES ASSUME TypeOK, World \/ Tick PROVE TypeOK'
  OBVIOUS
<1> USE DEF TypeOK
<1>1. CASE Submit
  <2>1. waiting' \in 0 .. MaxQueue /\ blocked' \in 0 .. MaxQueue
    BY <1>1, PoolAssumption DEF Submit
  <2> QED
    BY <1>1, <2>1 DEF Submit, kubeVars, slurmVars, passVars, memory, history
<1>2. CASE Cancel
  <2>1. waiting' \in 0 .. MaxQueue /\ blocked' \in 0 .. MaxQueue
    BY <1>2, PoolAssumption DEF Cancel
  <2> QED
    BY <1>2, <2>1 DEF Cancel, kubeVars, slurmVars, passVars, memory, history
<1>3. ASSUME NEW i \in Ord, Start(i) PROVE TypeOK'
  <2>1. waiting' \in 0 .. MaxQueue /\ blocked' \in 0 .. MaxQueue
    BY <1>3, PoolAssumption DEF Start
  <2> QED
    BY <1>3, <2>1 DEF Start, Usable, kubeVars, passVars, memory, history
<1>4. ASSUME NEW i \in Ord, Finish(i) PROVE TypeOK'
  BY <1>4 DEF Finish, kubeVars, queueVars, passVars, memory, history
<1>5. ASSUME NEW i \in Ord, PodReady(i) PROVE TypeOK'
  BY <1>5 DEF PodReady, slurmVars, queueVars, passVars, memory, history
<1>6. ASSUME NEW i \in Ord, PodLost(i) PROVE TypeOK'
  BY <1>6 DEF PodLost, queueVars, passVars, memory, history
<1>7. CASE Tick
  <2>1. saved' \in Annotations
    BY <1>7, AgingType DEF Tick, Annotations
  <2>2. prov' \in Marker /\ since' \in Age /\ retry' \in Age
    BY <1>7, AgingType DEF Tick
  <2>3. drainAge' \in [Ord -> Age]
    BY <1>7, AgingType, InitialTypes DEF Tick
  <2>4. grown' \in Age /\ shrunk' \in Age
    BY <1>7, AgingType DEF Tick
  <2> QED
    BY <1>7, <2>1, <2>2, <2>3, <2>4 DEF Tick, kubeVars, slurmVars, queueVars, passVars
<1> QED
  BY <1>1, <1>2, <1>3, <1>4, <1>5, <1>6, <1>7 DEF World

\* The operator's memory, its annotations and the pool stay well formed: no decision on
\* a stale observation, no rollback and no restored annotation leaves the pool's range
\* of replicas, and a job only runs on a pod that is Ready.
THEOREM TypeCorrect == Spec => []TypeOK
<1>1. Init => TypeOK
  BY TypeInit
<1>2. TypeOK /\ [Next]_vars => TypeOK'
  <2> SUFFICES ASSUME TypeOK, [Next]_vars PROVE TypeOK'
    OBVIOUS
  <2>1. CASE Next
    BY <2>1, TypePass, TypeRestart, TypeWorld DEF Next
  <2>2. CASE UNCHANGED vars
    BY <2>2 DEF vars, kubeVars, slurmVars, queueVars, passVars, memory, history, TypeOK
  <2> QED
    BY <2>1, <2>2
<1> QED
  BY <1>1, <1>2, PTL DEF Spec

-----------------------------------------------------------------------------
(* The marker is written first *)

\* Between the marker and the patch of the replicas, the StatefulSet carries the marker.
RaiseInv == pc = "raise" => InFlight(saved.prov) /\ saved.prov.to = goal

LEMMA RaiseStep == TypeOK /\ RaiseInv /\ [Next]_vars => RaiseInv'
<1> SUFFICES ASSUME TypeOK, RaiseInv, [Next]_vars, pc' = "raise"
             PROVE  InFlight(saved'.prov) /\ saved'.prov.to = goal'
  BY DEF RaiseInv, InFlight
<1>1. CASE BeginScaleUp
  <2>1. saved' = [saved EXCEPT !.prov = NewMarker] /\ goal' = Chosen.target
    BY <1>1 DEF BeginScaleUp, EndPass
  <2>2. saved'.prov = NewMarker
    BY <2>1 DEF TypeOK, Annotations
  <2>3. Chosen.target > obs.cur
    BY <1>1, EvaluateTarget DEF BeginScaleUp, Chosen, TypeOK
  <2> QED
    BY <2>1, <2>2, <2>3 DEF NewMarker, InFlight
<1>2. CASE World \/ UNCHANGED vars
  <2>1. pc' = pc /\ saved' = saved /\ goal' = goal
    BY <1>2 DEF World, Submit, Cancel, Start, Finish, PodReady, PodLost, passVars, vars
  <2> QED
    BY <2>1 DEF RaiseInv
<1>3. BeginScaleUp \/ World \/ UNCHANGED vars
  BY DEF Next, Pass, ProcessEnds, Crash, CrashAmid, Restart, Tick, passVars, EndPass, Raise, ListJobs, ReadPool,
     StillProvisioning, Provisioned, RollBack, RollBackRefused, SaveRollBack, Keep, RaiseRefused,
     SaveScaleUp, BeginDrain, CheckDrained, Shrink, ShrinkRefused, SaveScaleDown
<1> QED
  BY <1>1, <1>2, <1>3

\* Whatever fails, and with every setting, Kubernetes is only asked for more pods once a
\* restart would find the marker of that scale-up (scale_actions.py, annotation first).
THEOREM MarkerBeforeRaise == Spec => RaiseHasMarker
<1>1. Init => RaiseInv
  BY DEF Init, RaiseInv
<1>2. TypeOK /\ RaiseInv /\ [Next]_vars
        => [pc = "raise" /\ replicas' > replicas => InFlight(saved.prov) /\ saved.prov.to = replicas']_vars
  <2> SUFFICES ASSUME TypeOK, RaiseInv, Next, pc = "raise", replicas' > replicas
               PROVE  InFlight(saved.prov) /\ saved.prov.to = replicas'
    OBVIOUS
  <2>1. replicas \in Nat
    BY DEF TypeOK
  <2>2. CASE Raise
    BY <2>2 DEF Raise, Scale, RaiseInv
  <2>3. Raise \/ replicas' = replicas
    BY HalfDone DEF Next, Pass, World, Crash, Restart, Tick, kubeVars, Submit, Cancel, Start, Finish,
       PodReady, PodLost, ListJobs, ReadPool, StillProvisioning, Provisioned, RollBack, GivesUp,
       RollBackRefused, SaveRollBack, Keep, BeginScaleUp, RaiseRefused, SaveScaleUp, BeginDrain,
       CheckDrained, Shrink, ShrinkRefused, SaveScaleDown
  <2> QED
    BY <2>1, <2>2, <2>3
<1> QED
  BY <1>1, <1>2, RaiseStep, TypeCorrect, PTL DEF Spec, RaiseHasMarker

-----------------------------------------------------------------------------
(* The configured bounds *)

\* A decision on a pool within the bounds stays within them.
LEMMA EvaluateAboveMin ==
  ASSUME NEW o \in Observation, o.cur \in Min .. Max, o.busy \in 0 .. Max
  PROVE  Evaluate(o).target >= Min
<1>1. GrowTarget(o) >= Min
  BY PolicyAssumption DEF GrowTarget, Clamp, Larger, Smaller, Observation
<1>2. ShrinkTarget(o) >= Min
  BY PolicyAssumption DEF ShrinkTarget, SafeFloor, Clamp, Larger, Smaller, Observation
<1>3. Target(o) >= Min
  BY <1>1, <1>2, PolicyAssumption DEF Target, NoDemand, PinnedByJobs, Observation
<1> QED
  BY <1>3 DEF Evaluate, Decision

\* Whatever the pass may still scale to, and whatever a rollback may go back to, now or
\* after a restart, is not below the minimum.
BoundsInv ==
  /\ Min <= replicas
  /\ pc \in {"observed", "saveBack", "decide"} => Min <= obs.cur
  /\ pc \in {"raise", "drained", "shrink"} => Min <= goal
  /\ InFlight(prov) => Min <= prov.from
  /\ InFlight(saved.prov) => Min <= saved.prov.from

LEMMA BoundsPass == "kubeRead" \notin Faults /\ TypeOK /\ BoundsInv /\ Pass => BoundsInv'
<1> SUFFICES ASSUME "kubeRead" \notin Faults, TypeOK, BoundsInv, Pass PROVE BoundsInv'
  OBVIOUS
<1> USE DEF BoundsInv, InFlight
<1>a. EndPass => pc' = "idle"
  BY DEF EndPass
<1>b. ~InFlight(NoMarker) /\ Min \in Nat /\ Max \in Nat
  BY PolicyAssumption DEF NoMarker
<1>c. \A new : \A s \in Written(new) : s.prov \in {saved.prov, new.prov}
  BY DEF Written, Faulty
<1>d. /\ [saved EXCEPT !.prov = NoMarker, !.retry = 0].prov = NoMarker
      /\ [saved EXCEPT !.since = since, !.retry = 0].prov = saved.prov
      /\ [saved EXCEPT !.since = since].prov = saved.prov
      /\ [prov |-> NoMarker, since |-> since, retry |-> retry].prov = NoMarker
  BY DEF TypeOK, Annotations
<1>1. CASE ListJobs \/ StillProvisioning \/ RollBackRefused \/ Keep \/ RaiseRefused \/ ShrinkRefused
  BY <1>1, <1>a DEF ListJobs, StillProvisioning, RollBackRefused, Keep, RaiseRefused, ShrinkRefused,
     kubeVars, memory
<1>2. CASE ReadPool
  <2>1. obs'.cur = replicas
    BY <1>2 DEF ReadPool, Faulty, TypeOK, Observation
  <2> QED
    BY <1>2, <2>1 DEF ReadPool, kubeVars, memory
<1>3. CASE Provisioned
  <2>1. saved'.prov \in {saved.prov, NoMarker}
    BY <1>3, <1>c, <1>d DEF Provisioned
  <2> QED
    BY <1>3, <1>b, <2>1 DEF Provisioned, kubeVars
<1>4. CASE RollBack
  BY <1>4, <1>b DEF RollBack, GivesUp, Scale
<1>5. CASE SaveRollBack
  <2>1. saved'.prov \in {saved.prov, NoMarker}
    BY <1>5, <1>c, <1>d DEF SaveRollBack
  <2> QED
    BY <1>5, <1>b, <2>1 DEF SaveRollBack, kubeVars, memory
<1>6. CASE BeginScaleUp
  <2>1. Chosen.target >= Min
    BY <1>6, EvaluateAboveMin DEF BeginScaleUp, Chosen, TypeOK
  <2>2. NewMarker.from = obs.cur
    BY DEF NewMarker
  <2>3. [saved EXCEPT !.prov = NewMarker].prov = NewMarker
    BY DEF TypeOK, Annotations
  <2>4. CASE pc' = "raise"
    <3>1. /\ saved'.prov = NewMarker /\ prov' = NewMarker /\ goal' = Chosen.target
          /\ pc = "decide" /\ replicas' = replicas
      BY <1>6, <1>a, <2>3, <2>4 DEF BeginScaleUp, kubeVars
    <3> QED
      BY <2>1, <2>2, <2>4, <3>1
  <2>5. CASE pc' = "idle"
    BY <1>6, <2>5 DEF BeginScaleUp, kubeVars
  <2> QED
    BY <1>6, <1>a, <2>4, <2>5 DEF BeginScaleUp
<1>7. CASE Raise \/ Shrink
  BY <1>7 DEF Raise, Shrink, Scale
<1>8. CASE SaveScaleUp \/ SaveScaleDown
  <2>1. saved'.prov = saved.prov
    BY <1>8, <1>c, <1>d DEF SaveScaleUp, SaveScaleDown
  <2> QED
    BY <1>8, <1>a, <2>1 DEF SaveScaleUp, SaveScaleDown, kubeVars, memory
<1>9. CASE BeginDrain
  <2>1. Chosen.target >= Min
    BY <1>9, EvaluateAboveMin DEF BeginDrain, Chosen, TypeOK
  <2> QED
    BY <1>9, <2>1 DEF BeginDrain, kubeVars
<1>10. CASE CheckDrained
  BY <1>10, <1>a DEF CheckDrained, kubeVars, memory
<1> QED
  BY <1>1, <1>2, <1>3, <1>4, <1>5, <1>6, <1>7, <1>8, <1>9, <1>10 DEF Pass

\* Restarts, jobs, pods and time change no end of a marker.
LEMMA BoundsOther ==
  /\ "kubeRead" \notin Faults /\ TypeOK /\ BoundsInv
  /\ Crash \/ CrashAmid \/ Restart \/ World \/ Tick
  => BoundsInv'
<1> SUFFICES ASSUME "kubeRead" \notin Faults, TypeOK, BoundsInv,
                    Crash \/ CrashAmid \/ Restart \/ World \/ Tick
             PROVE  BoundsInv'
  OBVIOUS
<1> USE DEF BoundsInv, InFlight
<1>1. ~InFlight(NoMarker)
  BY DEF NoMarker
<1>2. CASE Crash
  BY <1>1, <1>2 DEF Crash, ProcessEnds, kubeVars
<1>6. CASE CrashAmid
  <2>1. replicas' = replicas \/ (pc = "shrink" /\ replicas' = goal)
    BY <1>6, HalfDone DEF kubeVars, Scale
  <2>2. prov' = NoMarker /\ pc' = "down" /\ saved'.prov \in {saved.prov, NoMarker}
    BY <1>6, HalfDone DEF CrashAmid, ProcessEnds
  <2> QED
    BY <1>1, <2>1, <2>2
<1>3. CASE Restart
  <2>1. prov' \in {saved.prov, NoMarker}
    BY <1>3 DEF Restart, Faulty
  <2> QED
    BY <1>1, <1>3, <2>1 DEF Restart, kubeVars
<1>4. CASE World
  BY <1>4 DEF World, Submit, Cancel, Start, Finish, PodReady, PodLost, kubeVars, passVars, memory
<1>5. CASE Tick
  <2>1. \A m \in Marker : Older(m).from = m.from /\ Older(m).to = m.to
    BY DEF Older, Marker
  <2>2. prov \in Marker /\ saved.prov \in Marker /\ prov' = Older(prov) /\ saved'.prov = Older(saved.prov)
    BY <1>5 DEF Tick, TypeOK, Annotations
  <2> QED
    BY <1>5, <2>1, <2>2 DEF Tick, kubeVars, passVars
<1> QED
  BY <1>2, <1>3, <1>4, <1>5, <1>6

\* As long as the replicas can be read, they stay between min_replicas and max_replicas:
\* through rollbacks, restarts at any step, refused patches and commands without effect.
THEOREM BoundsAreKept == "kubeRead" \notin Faults => (Spec => []ReplicasWithinBounds)
<1> SUFFICES ASSUME "kubeRead" \notin Faults PROVE Spec => []ReplicasWithinBounds
  OBVIOUS
<1>1. Init => BoundsInv
  BY PolicyAssumption DEF Init, BoundsInv, InFlight, NoMarker
<1>2. TypeOK /\ BoundsInv /\ [Next]_vars => BoundsInv'
  <2> SUFFICES ASSUME TypeOK, BoundsInv, [Next]_vars PROVE BoundsInv'
    OBVIOUS
  <2>1. CASE Next
    BY <2>1, BoundsPass, BoundsOther DEF Next
  <2>2. CASE UNCHANGED vars
    BY <2>2 DEF vars, kubeVars, passVars, memory, BoundsInv, InFlight
  <2> QED
    BY <2>1, <2>2
<1>3. TypeOK /\ BoundsInv => ReplicasWithinBounds
  BY PolicyAssumption DEF TypeOK, BoundsInv, ReplicasWithinBounds
<1> QED
  BY <1>1, <1>2, <1>3, TypeCorrect, PTL DEF Spec

-----------------------------------------------------------------------------
(* The cooldowns *)

\* Later is monotonic: what is not ahead of real time does not get ahead of it.
LEMMA LaterMonotonic ==
  ASSUME NEW a \in Age, NEW b \in Age, a <= b
  PROVE  Later(a) <= Later(b)
  BY PoolAssumption DEF Age, Later

\* The steps that leave the operator's clock, its annotations and the history alone and
\* do not lead into a scale action.
Quiet ==
  /\ UNCHANGED <<since, saved, crashes, grown, shrunk>>
  /\ pc' # pc => pc \notin {"raise", "saveUp", "saveDown", "down"}
                 /\ pc' \notin {"drained", "shrink", "raise", "saveUp", "saveDown", "down"}

\* Every other step is one of these.
LEMMA StepsOfTheClock ==
  ASSUME [Next]_vars
  PROVE  \/ Quiet \/ Tick \/ Crash \/ CrashAmid \/ Restart
         \/ Provisioned \/ RollBack \/ SaveRollBack
         \/ BeginScaleUp \/ Raise \/ RaiseRefused \/ SaveScaleUp
         \/ BeginDrain \/ CheckDrained \/ Shrink \/ SaveScaleDown
<1>1. CASE World \/ UNCHANGED vars
  <2>1. UNCHANGED <<since, saved, crashes, grown, shrunk, pc>>
    BY <1>1 DEF World, Submit, Cancel, Start, Finish, PodReady, PodLost, passVars, memory, history, vars
  <2> QED
    BY <2>1 DEF Quiet
<1>2. CASE ListJobs \/ ReadPool \/ StillProvisioning \/ RollBackRefused \/ Keep \/ ShrinkRefused
  <2>1. UNCHANGED <<since, saved, crashes, grown, shrunk>>
    BY <1>2 DEF ListJobs, ReadPool, StillProvisioning, RollBackRefused, Keep, ShrinkRefused, memory, history
  <2>2. /\ pc \notin {"raise", "saveUp", "saveDown", "down"}
        /\ pc' \notin {"drained", "shrink", "raise", "saveUp", "saveDown", "down"}
    BY <1>2 DEF ListJobs, ReadPool, StillProvisioning, RollBackRefused, GivesUp, Keep, ShrinkRefused, EndPass
  <2> QED
    BY <2>1, <2>2 DEF Quiet
<1> QED
  BY <1>1, <1>2 DEF Next, Pass

\* Neither the cooldown the operator counts nor the one a restart would find is ahead of
\* the real time since the last scale-down that was recorded, and a pass that takes nodes
\* away found its cooldown over.
DownInv ==
  /\ saved.since <= shrunk
  /\ pc # "down" => since <= shrunk
  /\ pc \in {"drained", "shrink"} => since >= Cooldown
  /\ pc = "saveDown" => since = 0

LEMMA DownClock == "kubeRead" \notin Faults /\ TypeOK /\ DownInv /\ [Next]_vars => DownInv'
<1> SUFFICES ASSUME "kubeRead" \notin Faults, TypeOK, DownInv, [Next]_vars PROVE DownInv'
  OBVIOUS
<1>0. /\ since \in Age /\ shrunk \in Age /\ saved.since \in Age /\ saved \in Annotations
      /\ saved.prov \in Marker /\ \A a \in Age : a \in Nat
  BY PoolAssumption DEF TypeOK, Age, Annotations
<1>00. \A new : \A s \in Written(new) : s.since \in {saved.since, new.since}
  BY DEF Written, Faulty
<1>1. CASE Quiet
  BY <1>1 DEF Quiet, DownInv
<1>2. CASE Tick
  <2>1. /\ since' = Later(since) /\ shrunk' = Later(shrunk) /\ saved'.since = Later(saved.since)
        /\ pc' = pc /\ pc \in {"idle", "down"}
    BY <1>2 DEF Tick, passVars
  <2> QED
    BY <1>0, <2>1, LaterMonotonic DEF DownInv
<1>3. CASE Provisioned \/ SaveRollBack \/ BeginScaleUp \/ RaiseRefused \/ SaveScaleUp
  <2>1. UNCHANGED <<since, shrunk>>
    BY <1>3 DEF Provisioned, SaveRollBack, BeginScaleUp, RaiseRefused, SaveScaleUp, memory, history
  <2>2. pc # "down" /\ pc' \notin {"down", "drained", "shrink", "saveDown"}
    BY <1>3 DEF Provisioned, SaveRollBack, BeginScaleUp, RaiseRefused, SaveScaleUp, EndPass
  <2>3. saved'.since \in {saved.since, since}
    <3>1. /\ [saved EXCEPT !.prov = NoMarker, !.retry = 0].since = saved.since
          /\ [saved EXCEPT !.since = since, !.retry = 0].since = since
          /\ [saved EXCEPT !.prov = NewMarker].since = saved.since
          /\ [prov |-> NoMarker, since |-> since, retry |-> retry].since = since
      BY <1>0 DEF Annotations
    <3> QED
      BY <1>3, <1>00, <3>1 DEF Provisioned, SaveRollBack, BeginScaleUp, RaiseRefused, SaveScaleUp
  <2> QED
    BY <2>1, <2>2, <2>3 DEF DownInv
<1>4. CASE RollBack \/ Raise \/ Shrink
  <2>1. /\ since' = 0 /\ UNCHANGED <<shrunk, saved>> /\ pc' \notin {"down", "drained", "shrink"}
    BY <1>4 DEF RollBack, Raise, Shrink, history
  <2> QED
    BY <1>0, <2>1 DEF DownInv
<1>5. CASE BeginDrain
  BY <1>5 DEF BeginDrain, Cooled, DownInv, history
<1>6. CASE CheckDrained
  BY <1>6 DEF CheckDrained, EndPass, DownInv, memory, history
<1>7. CASE SaveScaleDown
  <2>1. since = 0 /\ since' = since /\ pc' = "idle"
    BY <1>7 DEF SaveScaleDown, EndPass, memory, DownInv
  <2>2. [saved EXCEPT !.since = since].since = since
    BY <1>0 DEF Annotations
  <2>3. saved'.since \in {saved.since, since} /\ shrunk' = IF saved'.since = since THEN 0 ELSE shrunk
    BY <1>7, <1>00, <2>2 DEF SaveScaleDown
  <2> QED
    BY <1>0, <2>1, <2>3 DEF DownInv
<1>8. CASE Crash
  BY <1>8 DEF Crash, ProcessEnds, DownInv, history
<1>9. CASE CrashAmid
  <2>1. /\ pc # "down" /\ pc' = "down" /\ shrunk' = shrunk
        /\ saved'.since \in {saved.since, since}
    BY <1>9, HalfDone DEF CrashAmid, ProcessEnds, history
  <2> QED
    BY <2>1 DEF DownInv
<1>10. CASE Restart
  <2>1. PICK m \in Marker : since' = RestoredSince(saved.since, m)
    BY <1>0, <1>10 DEF Restart, Faulty
  <2>2. since' <= saved.since
    BY <1>0, <2>1 DEF RestoredSince, Smaller, Marker
  <2> QED
    BY <1>0, <1>10, <2>1, <2>2 DEF Restart, DownInv, RestoredSince, Smaller, Marker, history
<1> QED
  BY <1>1, <1>2, <1>3, <1>4, <1>5, <1>6, <1>7, <1>8, <1>9, <1>10, StepsOfTheClock

\* As long as the annotations can be read, a scale-down that was recorded is followed by no
\* other for Cooldown ticks of real time, through any number of restarts and whichever
\* writes are refused (scale_actions.py:232-238, app.py:193-223).
THEOREM ScaleDownCoolsDown == "kubeRead" \notin Faults => (Spec => CooldownAfterScaleDown)
<1> SUFFICES ASSUME "kubeRead" \notin Faults PROVE Spec => CooldownAfterScaleDown
  OBVIOUS
<1>1. Init => DownInv
  BY PoolAssumption DEF Init, DownInv
<1>2. TypeOK /\ DownInv /\ [Next]_vars
        => [pc = "shrink" /\ replicas' < replicas => shrunk >= Cooldown]_vars
  <2> SUFFICES ASSUME TypeOK, DownInv, pc = "shrink" PROVE shrunk >= Cooldown
    OBVIOUS
  <2>1. since \in Nat /\ shrunk \in Nat /\ Cooldown \in Nat
    BY PoolAssumption DEF TypeOK, Age
  <2> QED
    BY <2>1 DEF DownInv
<1> QED
  BY <1>1, <1>2, DownClock, TypeCorrect, PTL DEF Spec, CooldownAfterScaleDown

\* The same for the last scale-up, with one restart: what a restart would find, the
\* annotation or the marker of the scale-up that is being carried out, is not ahead either.
UpInv ==
  /\ pc # "down" => since <= grown
  /\ crashes = 0 /\ pc # "saveUp" => saved.since <= grown
  /\ pc = "raise" => saved.prov.age = 0
  /\ pc = "saveUp" => InFlight(saved.prov) /\ saved.prov.age <= grown
  /\ pc = "down" => crashes > 0 /\ RestoredSince(saved.since, saved.prov) <= grown
  /\ pc \in {"drained", "shrink"} => since >= Cooldown

LEMMA UpClock ==
  Faults \cap {"kubeRead", "kubeWrite"} = {} /\ MaxCrashes <= 1
    /\ TypeOK /\ RaiseInv /\ UpInv /\ [Next]_vars => UpInv'
<1> SUFFICES ASSUME Faults \cap {"kubeRead", "kubeWrite"} = {}, MaxCrashes <= 1,
                    TypeOK, RaiseInv, UpInv, [Next]_vars
             PROVE  UpInv'
  OBVIOUS
<1>0. /\ since \in Age /\ grown \in Age /\ saved.since \in Age /\ saved.prov \in Marker /\ saved.prov.age \in Age
      /\ \A a \in Age : a \in Nat
  BY PoolAssumption DEF TypeOK, Age, Annotations, Marker
<1>00. /\ "kubeRead" \notin Faults /\ "kubeWrite" \notin Faults
       /\ \A new : Written(new) = {new}
       /\ Faulty("kubeRead", {Horizon}) = {} /\ Faulty("kubeRead", {NoMarker}) = {}
  BY DEF Written, Faulty
<1>1. CASE Quiet
  BY <1>1 DEF Quiet, UpInv, InFlight, RestoredSince
<1>2. CASE Tick
  <2>1. /\ since' = Later(since) /\ grown' = Later(grown) /\ pc' = pc /\ crashes' = crashes
        /\ saved'.since = Later(saved.since) /\ saved'.prov = Older(saved.prov) /\ pc \in {"idle", "down"}
    BY <1>2 DEF Tick, passVars
  <2>2. /\ since <= grown => since' <= grown'
        /\ saved.since <= grown => saved'.since <= grown'
        /\ saved.prov.age <= grown => Later(saved.prov.age) <= grown'
    BY <1>0, <2>1, LaterMonotonic
  <2>3. /\ InFlight(saved'.prov) <=> InFlight(saved.prov)
        /\ InFlight(saved.prov) => saved'.prov.age = Later(saved.prov.age)
    BY <1>0, <2>1 DEF Older, InFlight, Marker
  <2>4. RestoredSince(saved.since, saved.prov) <= grown
          => RestoredSince(saved'.since, saved'.prov) <= grown'
    <3>1. Later(saved.since) \in Nat /\ Later(saved.prov.age) \in Nat /\ grown' \in Nat
      BY <1>0, <2>1, AgingType
    <3>2. CASE ~InFlight(saved.prov)
      BY <2>1, <2>2, <2>3, <3>2 DEF RestoredSince
    <3>3. CASE InFlight(saved.prov)
      BY <1>0, <2>1, <2>2, <2>3, <3>1, <3>3 DEF RestoredSince, Smaller
    <3> QED
      BY <3>2, <3>3
  <2>5. pc' \notin {"saveUp", "raise", "drained", "shrink"} /\ (pc = "down" <=> pc' = "down")
    BY <2>1
  <2> QED
    BY <2>1, <2>2, <2>4, <2>5 DEF UpInv
<1>3. CASE Provisioned
  <2>1. saved'.since = saved.since
    BY <1>00, <1>3 DEF Provisioned, TypeOK, Annotations
  <2> QED
    BY <1>3, <2>1 DEF Provisioned, UpInv, history
<1>4. CASE RollBack
  BY <1>0, <1>4 DEF RollBack, GivesUp, UpInv, history
<1>5. CASE SaveRollBack \/ SaveScaleUp \/ SaveScaleDown
  <2>1. saved'.since = since
    <3>1. CASE SaveRollBack
      BY <1>00, <3>1 DEF SaveRollBack
    <3>2. CASE SaveScaleUp
      BY <1>00, <3>2 DEF SaveScaleUp, TypeOK, Annotations
    <3>3. CASE SaveScaleDown
      BY <1>00, <3>3 DEF SaveScaleDown, TypeOK, Annotations
    <3> QED
      BY <1>5, <3>1, <3>2, <3>3
  <2>2. UNCHANGED <<since, grown, crashes>> /\ pc # "down" /\ pc' \in {"decide", "idle"}
    BY <1>5 DEF SaveRollBack, SaveScaleUp, SaveScaleDown, EndPass, memory, history
  <2> QED
    BY <2>1, <2>2 DEF UpInv
<1>6. CASE BeginScaleUp
  <2>1. saved' = [saved EXCEPT !.prov = NewMarker] /\ pc' = "raise" /\ pc = "decide"
        /\ UNCHANGED <<since, grown, crashes>>
    BY <1>00, <1>6 DEF BeginScaleUp, history
  <2>2. saved'.since = saved.since /\ saved'.prov.age = 0
    BY <2>1 DEF TypeOK, Annotations, NewMarker
  <2> QED
    BY <2>1, <2>2 DEF UpInv
<1>7. CASE Raise
  BY <1>0, <1>7 DEF Raise, UpInv, RaiseInv, InFlight
<1>8. CASE BeginDrain
  BY <1>8 DEF BeginDrain, Cooled, UpInv, history
<1>9. CASE CheckDrained
  BY <1>9 DEF CheckDrained, EndPass, UpInv, memory, history
<1>10. CASE Shrink
  BY <1>0, <1>10 DEF Shrink, UpInv, history
<1>11. CASE Crash \/ CrashAmid
  <2>1. crashes = 0 /\ crashes' > 0 /\ pc # "down" /\ pc' = "down" /\ grown' = grown
    BY <1>11, PoolAssumption DEF Crash, CrashAmid, ProcessEnds, TypeOK, history
  <2>2. /\ saved'.since = saved.since \/ (pc \in {"saveBack", "saveUp"} /\ saved'.since = since)
        /\ pc = "saveUp" => saved'.prov = saved.prov
        /\ saved' \in Annotations
    <3>1. CASE Crash
      BY <3>1 DEF Crash, TypeOK
    <3>2. CASE CrashAmid
      BY <3>2, HalfDone
    <3> QED
      BY <1>11, <3>1, <3>2
  <2>3. saved'.since \in Nat /\ saved'.prov.age \in Nat
    BY <1>0, <2>2 DEF Annotations, Marker
  <2>4. saved'.since <= grown \/ (pc = "saveUp" /\ saved'.prov = saved.prov)
    BY <2>1, <2>2 DEF UpInv
  <2>5. RestoredSince(saved'.since, saved'.prov) <= grown
    BY <1>0, <2>1, <2>3, <2>4 DEF UpInv, RestoredSince, Smaller
  <2> QED
    BY <2>1, <2>5 DEF UpInv
<1>12. CASE Restart
  <2>1. since' = RestoredSince(saved.since, saved.prov)
    BY <1>00, <1>12 DEF Restart
  <2> QED
    BY <1>12, <2>1 DEF Restart, UpInv, TypeOK, history
<1>13. ~RaiseRefused
  BY <1>00 DEF RaiseRefused
<1> QED
  BY <1>1, <1>2, <1>3, <1>4, <1>5, <1>6, <1>7, <1>8, <1>9, <1>10, <1>11, <1>12, <1>13, StepsOfTheClock

\* If calls to Kubernetes take effect, no scale-down comes within Cooldown ticks of real
\* time after a scale-up, wherever the operator restarts once (OperatorApp.__init__,
\* restored cooldown).  A second restart does lose it.
THEOREM ScaleUpCoolsDown ==
  Faults \cap {"kubeRead", "kubeWrite"} = {} /\ MaxCrashes <= 1 => (Spec => CooldownAfterScaleUp)
<1> SUFFICES ASSUME Faults \cap {"kubeRead", "kubeWrite"} = {}, MaxCrashes <= 1
             PROVE  Spec => CooldownAfterScaleUp
  OBVIOUS
<1>1. Init => UpInv /\ RaiseInv
  BY PoolAssumption DEF Init, UpInv, RaiseInv
<1>2. TypeOK /\ UpInv /\ [Next]_vars
        => [pc = "shrink" /\ replicas' < replicas => grown >= Cooldown]_vars
  <2> SUFFICES ASSUME TypeOK, UpInv, pc = "shrink" PROVE grown >= Cooldown
    OBVIOUS
  <2>1. since \in Nat /\ grown \in Nat /\ Cooldown \in Nat
    BY PoolAssumption DEF TypeOK, Age
  <2> QED
    BY <2>1 DEF UpInv
<1>3. TypeOK /\ RaiseInv /\ UpInv /\ [Next]_vars => RaiseInv' /\ UpInv'
  BY UpClock, RaiseStep
<1> QED
  BY <1>1, <1>2, <1>3, TypeCorrect, PTL DEF Spec, CooldownAfterScaleUp

-----------------------------------------------------------------------------
(* With the timing of the chart *)

\* A pass acts on the replicas that are there, or on older ones right after a rollback,
\* whose cooldown and pause then keep it from acting.
ActingInv ==
  /\ pc \in {"observed", "raise", "drained", "shrink"} => obs.cur = replicas
  /\ pc = "decide" => obs.cur = replicas \/ (since = 0 /\ retry > 0)
  /\ pc = "saveBack" => since = 0 /\ retry > 0
  /\ pc \in {"drained", "shrink"} => goal < obs.cur /\ Span(goal, obs.cur) \subseteq draining
  /\ pc = "raise" => goal > obs.cur /\ draining = {}

LEMMA ActingStep ==
  "kubeRead" \notin Faults /\ RealPauses /\ TypeOK /\ ActingInv /\ [Next]_vars => ActingInv'
<1> SUFFICES ASSUME "kubeRead" \notin Faults, RealPauses, TypeOK, ActingInv, [Next]_vars
             PROVE  ActingInv'
  OBVIOUS
<1> USE DEF ActingInv
<1>a. EndPass => pc' = "idle"
  BY DEF EndPass
<1>b. /\ Cooldown \in Nat /\ RetryDelay \in Nat /\ 0 < Cooldown /\ 0 < RetryDelay
      /\ since \in Nat /\ retry \in Nat /\ replicas \in Nat /\ obs.cur \in Nat
  BY PoolAssumption, PolicyAssumption DEF RealPauses, TypeOK, Age
<1>c. /\ Chosen.target \in Nat
      /\ Chosen.action = "scale_up" => Chosen.target > obs.cur
      /\ Chosen.action = "scale_down" => Chosen.target < obs.cur
  BY EvaluateTarget, PolicyAssumption DEF Chosen, TypeOK
<1>1. CASE ListJobs \/ Keep \/ RollBackRefused \/ RaiseRefused \/ ShrinkRefused \/ SaveScaleUp \/ SaveScaleDown
  BY <1>1, <1>a DEF ListJobs, Keep, RollBackRefused, RaiseRefused, ShrinkRefused, SaveScaleUp, SaveScaleDown
<1>2. CASE ReadPool
  <2>1. obs'.cur = replicas /\ pc' = "observed" /\ replicas' = replicas
    BY <1>2 DEF ReadPool, Faulty, TypeOK, Observation, kubeVars
  <2> QED
    BY <2>1
<1>3. CASE StillProvisioning \/ Provisioned
  BY <1>3 DEF StillProvisioning, Provisioned, kubeVars
<1>4. CASE RollBack
  BY <1>4, <1>b DEF RollBack
<1>5. CASE SaveRollBack
  BY <1>5 DEF SaveRollBack, memory
<1>6. CASE BeginScaleUp
  <2>1. obs.cur = replicas /\ replicas' = replicas
    BY <1>6, <1>b DEF BeginScaleUp, BackingOff, kubeVars
  <2> QED
    BY <1>6, <1>a, <1>c, <2>1 DEF BeginScaleUp
<1>7. CASE Raise \/ Shrink
  BY <1>7 DEF Raise, Shrink
<1>8. CASE BeginDrain
  <2>1. obs.cur = replicas
    BY <1>8, <1>b DEF BeginDrain, Cooled
  <2>2. /\ pc' = "drained" /\ goal' = Chosen.target /\ obs' = obs /\ replicas' = replicas
        /\ draining' = draining \cup DrainTargets
    BY <1>8 DEF BeginDrain, kubeVars
  <2>3. Span(Chosen.target, obs.cur) \subseteq draining'
    BY <2>2 DEF DrainTargets
  <2>4. Chosen.target < obs.cur
    BY <1>8, <1>c DEF BeginDrain
  <2> QED
    BY <2>1, <2>2, <2>3, <2>4
<1>9. CASE CheckDrained
  BY <1>9, <1>a DEF CheckDrained, kubeVars, memory
<1>10. CASE Crash \/ CrashAmid \/ Restart
  BY <1>10 DEF Crash, CrashAmid, ProcessEnds, Restart
<1>11. CASE World
  <2>1. UNCHANGED <<replicas, passVars, memory>>
    BY <1>11 DEF World, Submit, Cancel, Start, Finish, PodReady, PodLost, kubeVars
  <2> QED
    BY <2>1 DEF passVars, memory
<1>12. CASE Tick
  BY <1>12 DEF Tick, passVars
<1>13. CASE UNCHANGED vars
  BY <1>13 DEF vars, kubeVars, passVars, memory
<1> QED
  BY <1>1, <1>2, <1>3, <1>4, <1>5, <1>6, <1>7, <1>8, <1>9, <1>10, <1>11, <1>12, <1>13 DEF Next, Pass

\* Which steps change the replicas, and the calls of Slurm that mark nodes.
LEMMA WhoScales ==
  ASSUME TypeOK, [Next]_vars
  PROVE  \/ replicas' = replicas
         \/ RollBack
         \/ pc = "raise" /\ Raise
         \/ pc = "shrink" /\ Scale(goal) /\ (Shrink \/ (CrashAmid /\ pc' = "down"))
<1>1. CASE CrashAmid
  BY <1>1, HalfDone DEF kubeVars, CrashAmid, ProcessEnds
<1>2. CASE Raise \/ Shrink
  BY <1>2 DEF Raise, Shrink
<1> QED
  BY <1>1, <1>2 DEF Next, Pass, World, Crash, Restart, Tick, kubeVars, Submit, Cancel, Start,
     Finish, PodReady, PodLost, ListJobs, ReadPool, StillProvisioning, Provisioned, RollBackRefused,
     SaveRollBack, Keep, BeginScaleUp, RaiseRefused, SaveScaleUp, BeginDrain, CheckDrained,
     ShrinkRefused, SaveScaleDown, vars

\* When the replicas are about to go down, only a node of the drain that was resumed has
\* taken a job; when they are about to go up, every node they cover was resumed.
NodesInv ==
  /\ pc = "shrink" => \A i \in draining \cap busy : node[i] = "active"
  /\ pc = "raise" => \A i \in Ord : i < goal => node[i] = "active"

LEMMA NodesStep ==
  "scontrol" \notin Faults /\ TypeOK /\ NodesInv /\ [Next]_vars => NodesInv'
<1> SUFFICES ASSUME "scontrol" \notin Faults, TypeOK, NodesInv, [Next]_vars PROVE NodesInv'
  OBVIOUS
<1> USE DEF NodesInv
<1>a. \A S, st : Marked(S, st) = {[i \in Ord |-> IF i \in S THEN st ELSE node[i]]}
  BY DEF Marked, Faulty
<1>b. EndPass => pc' = "idle"
  BY DEF EndPass
<1>1. CASE BeginScaleUp
  <2>1. node' = [i \in Ord |-> IF i \in Undrain THEN "active" ELSE node[i]]
    BY <1>1, <1>a DEF BeginScaleUp
  <2>2. (pc' = "raise" /\ goal' = Chosen.target) \/ pc' = "idle"
    BY <1>1, <1>b DEF BeginScaleUp
  <2>3. \A i \in Ord : i < Chosen.target => node'[i] = "active"
    BY <2>1 DEF Undrain, Span, Ord
  <2> QED
    BY <2>2, <2>3
<1>2. CASE CheckDrained
  <2>1. node' = [i \in Ord |-> IF i \in Overdue THEN "down" ELSE node[i]]
    BY <1>2, <1>a DEF CheckDrained
  <2>2. Overdue \cap busy' = {} /\ busy' \subseteq busy /\ draining' = draining
    BY <1>2, <2>1 DEF CheckDrained, Overdue, TypeOK, memory
  <2>3. pc' = "shrink" => Awaited \cap busy = {}
    BY <1>2, <1>b DEF CheckDrained
  <2>4. pc' = "shrink" => draining' \cap busy' = {}
    BY <2>2, <2>3 DEF Awaited
  <2>5. pc' # "raise"
    BY <1>2, <1>b DEF CheckDrained
  <2> QED
    BY <2>4, <2>5
<1>3. ASSUME NEW i \in Ord, Start(i) PROVE NodesInv'
  BY <1>3 DEF Start, Usable, passVars, memory
<1>4. CASE \/ Submit \/ Cancel \/ (\E i \in Ord : Finish(i) \/ PodReady(i) \/ PodLost(i)) \/ UNCHANGED vars
  <2>1. UNCHANGED <<node, passVars, draining>> /\ busy' \subseteq busy
    BY <1>4 DEF Submit, Cancel, Finish, PodReady, PodLost, vars, slurmVars, memory
  <2> QED
    BY <2>1 DEF passVars
<1>5. CASE Tick
  <2>1. pc' \notin {"raise", "shrink"}
    BY <1>5 DEF Tick, passVars
  <2> QED
    BY <2>1
<1>6. BeginScaleUp \/ CheckDrained \/ (\E i \in Ord : Start(i)) \/ Submit \/ Cancel \/ Tick \/ UNCHANGED vars
        \/ (\E i \in Ord : Finish(i) \/ PodReady(i) \/ PodLost(i)) \/ pc' \notin {"raise", "shrink"}
  BY DEF Next, Pass, World, ProcessEnds, Crash, CrashAmid, Restart, EndPass, Raise, ListJobs, ReadPool,
     StillProvisioning, Provisioned, RollBack, RollBackRefused, SaveRollBack, Keep, RaiseRefused,
     SaveScaleUp, BeginDrain, Shrink, ShrinkRefused, SaveScaleDown
<1> QED
  BY <1>1, <1>2, <1>3, <1>4, <1>5, <1>6

\* As long as the StatefulSet can be read and Slurm obeys, a scale-up removes no pod with a
\* job, and a scale-down only one whose drain a completed scale-up cancelled, for any
\* timeouts, restarts, lost pods, empty job lists and refused patches (scale_actions.py:218-223).
THEOREM ScalingSparesJobs ==
  RealPauses /\ Faults \cap {"kubeRead", "scontrol"} = {} => (Spec => OnlyResumedNodesLoseJobs)
<1> SUFFICES ASSUME RealPauses, "kubeRead" \notin Faults, "scontrol" \notin Faults
             PROVE  Spec => OnlyResumedNodesLoseJobs
  OBVIOUS
<1>1. Init => ActingInv /\ NodesInv
  BY DEF Init, ActingInv, NodesInv
<1>2. TypeOK /\ ActingInv /\ NodesInv /\ [Next]_vars => ActingInv' /\ NodesInv'
  BY ActingStep, NodesStep
<1>3. TypeOK /\ ActingInv /\ NodesInv /\ [Next]_vars
        => [(pc \in {"raise", "shrink"}) =>
              (\A i \in busy : i >= replicas' => pc = "shrink" /\ i \in draining /\ node[i] = "active")]_vars
  <2> SUFFICES ASSUME TypeOK, ActingInv, NodesInv, [Next]_vars, pc \in {"raise", "shrink"},
                      NEW i \in busy, i >= replicas'
               PROVE  pc = "shrink" /\ i \in draining /\ node[i] = "active"
    OBVIOUS
  <2>1. i \in Ord /\ i < replicas /\ i \in Nat /\ replicas \in Nat /\ goal \in Nat
    BY PolicyAssumption DEF TypeOK, Ord
  <2>2. CASE pc = "raise" /\ Raise
    <3>1. replicas' = goal /\ goal > replicas
      BY <2>2 DEF Raise, Scale, ActingInv
    <3> QED
      BY <2>1, <3>1
  <2>3. CASE pc = "shrink" /\ Scale(goal)
    <3>1. replicas' = goal /\ obs.cur = replicas /\ Span(goal, obs.cur) \subseteq draining
      BY <2>3 DEF Scale, ActingInv
    <3>2. i \in draining
      BY <2>1, <3>1 DEF Span
    <3> QED
      BY <2>3, <3>2 DEF NodesInv
  <2>4. ~RollBack
    BY DEF RollBack, GivesUp
  <2> QED
    BY <2>1, <2>2, <2>3, <2>4, WhoScales
<1> QED
  BY <1>1, <1>2, <1>3, TypeCorrect, PTL DEF Spec, OnlyResumedNodesLoseJobs


-----------------------------------------------------------------------------
(* Who forgets a node *)

\* As long as the StatefulSet can be read and Slurm obeys, a node of the pool is left out of
\* service only by a restart, by a rollback, or by a scale-down that forgets a drain, for any
\* timeouts, lost pods, job lists and refused patches (scale_actions.py:42-53, 156-230).
THEOREM FewForgetNodes ==
  RealPauses /\ Faults \cap {"kubeRead", "scontrol"} = {} => (Spec => OnlyTheseForget)
<1> SUFFICES ASSUME RealPauses, "kubeRead" \notin Faults, "scontrol" \notin Faults
             PROVE  Spec => OnlyTheseForget
  OBVIOUS
<1>1. Init => ActingInv /\ NodesInv
  BY DEF Init, ActingInv, NodesInv
<1>2. TypeOK /\ ActingInv /\ NodesInv /\ [Next]_vars => ActingInv' /\ NodesInv'
  BY ActingStep, NodesStep
<1>3. TypeOK /\ ActingInv /\ NodesInv /\ [Next]_vars
        => [\A i \in Ord : ~Forgotten(i) /\ Forgotten(i)' =>
              \/ pc' = "down"
              \/ pc = "observed" /\ InFlight(prov) /\ TimedOut(prov) /\ (replicas <= i \/ prov.from <= i)
              \/ pc = "shrink" /\ i \in draining /\ i < goal]_vars
  <2> SUFFICES ASSUME TypeOK, ActingInv, NodesInv, [Next]_vars, NEW i \in Ord,
                      ~(i < replicas /\ node[i] # "active" /\ i \notin draining),
                      i < replicas', node'[i] # "active", i \notin draining', pc' # "down"
               PROVE  \/ pc = "observed" /\ InFlight(prov) /\ TimedOut(prov) /\ (replicas <= i \/ prov.from <= i)
                      \/ pc = "shrink" /\ i \in draining /\ i < goal
    BY DEF Forgotten
  <2>a. \A S, st : Marked(S, st) = {[j \in Ord |-> IF j \in S THEN st ELSE node[j]]}
    BY DEF Marked, Faulty
  <2>b. /\ replicas \in Nat /\ goal \in Nat /\ i \in Nat /\ node \in [Ord -> NodeStates] /\ draining \subseteq Ord
        /\ prov.from \in Nat /\ prov.to \in Nat
    BY PolicyAssumption DEF TypeOK, Ord, Marker
  <2>1. CASE RollBack \/ RollBackRefused
    <3>1. /\ pc = "observed" /\ InFlight(prov) /\ TimedOut(prov) /\ draining' = draining
          /\ node'[i] = IF i \in Span(prov.from, prov.to) THEN "future" ELSE node[i]
      BY <2>1, <2>a DEF RollBack, RollBackRefused, GivesUp, memory
    <3> QED
      BY <2>b, <3>1 DEF Span
  <2>2. CASE Raise
    BY <2>2 DEF Raise, Scale, NodesInv
  <2>3. CASE Shrink
    <3>1. /\ pc = "shrink" /\ replicas' = goal
          /\ node'[i] = IF i \in Span(goal, obs.cur) THEN "future" ELSE node[i]
      BY <2>3, <2>a DEF Shrink, Scale
    <3>2. i < goal /\ goal < replicas
      BY <3>1 DEF ActingInv
    <3> QED
      BY <2>b, <3>1, <3>2 DEF Span
  <2>4. CASE Provisioned
    <3>1. node'[i] = IF i \in Span(prov.from, prov.to) THEN "active" ELSE node[i]
      BY <2>4, <2>a DEF Provisioned
    <3> QED
      BY <2>4, <3>1 DEF Provisioned, kubeVars
  <2>5. CASE BeginScaleUp
    <3>1. node'[i] = IF i \in Undrain THEN "active" ELSE node[i]
      BY <2>5, <2>a DEF BeginScaleUp
    <3> QED
      BY <2>5, <3>1 DEF BeginScaleUp, Undrain, kubeVars
  <2>6. CASE BeginDrain
    <3>1. /\ node'[i] = IF i \in DrainTargets THEN "drain" ELSE node[i]
          /\ draining' = draining \cup DrainTargets
      BY <2>6, <2>a DEF BeginDrain
    <3> QED
      BY <2>6, <3>1 DEF BeginDrain, kubeVars
  <2>7. CASE CheckDrained
    <3>1. node'[i] = IF i \in Overdue THEN "down" ELSE node[i]
      BY <2>7, <2>a DEF CheckDrained
    <3> QED
      BY <2>7, <3>1 DEF CheckDrained, Overdue, kubeVars, memory
  <2>8. CASE Restart \/ Tick \/ World \/ ListJobs \/ ReadPool \/ StillProvisioning \/ SaveRollBack \/ Keep
               \/ RaiseRefused \/ SaveScaleUp \/ ShrinkRefused \/ SaveScaleDown \/ UNCHANGED vars
    <3>1. UNCHANGED <<replicas, node, draining>>
      BY <2>8 DEF Restart, Tick, World, Submit, Cancel, Start, Finish, PodReady, PodLost, ListJobs, ReadPool,
         StillProvisioning, SaveRollBack, Keep, RaiseRefused, SaveScaleUp, ShrinkRefused, SaveScaleDown,
         vars, kubeVars, slurmVars, memory
    <3> QED
      BY <3>1
  <2>9. ~Crash /\ ~CrashAmid
    BY DEF Crash, CrashAmid, ProcessEnds
  <2> QED
    BY <2>1, <2>2, <2>3, <2>4, <2>5, <2>6, <2>7, <2>8, <2>9 DEF Next, Pass
<1> QED
  BY <1>1, <1>2, <1>3, TypeCorrect, PTL DEF Spec, OnlyTheseForget

-----------------------------------------------------------------------------
(* Who leaves a pod without a marker *)

\* The marker in memory is the one on the StatefulSet, and covers the replicas that are
\* there; after a rollback what is left of it does not reach them.
CoverInv ==
  /\ InFlight(saved.prov) => replicas <= saved.prov.to
  /\ pc \notin {"saveBack", "down"} /\ (InFlight(prov) \/ InFlight(saved.prov)) => saved.prov = prov
  /\ pc = "saveBack" => ~InFlight(prov) /\ (InFlight(saved.prov) => replicas <= saved.prov.from)
  /\ pc = "down" => ~InFlight(prov)
  /\ pc = "raise" => InFlight(saved.prov) /\ saved.prov.from = replicas /\ saved.prov.to = goal

\* What the calls come back with when those to Kubernetes take effect.
LEMMA KubeObeys ==
  ASSUME Faults \cap {"kubeRead", "kubeWrite"} = {}
  PROVE  /\ \A new : Written(new) = {new}
         /\ ReadyReadings = {Cardinality(up)}
         /\ Faulty("kubeRead", {NoMarker}) = {}
         /\ "kubeRead" \notin Faults /\ "kubeWrite" \notin Faults
  BY DEF Written, ReadyReadings, Faulty

\* The fields of the annotations that the steps write.
LEMMA WrittenFields ==
  ASSUME TypeOK
  PROVE  /\ [saved EXCEPT !.prov = NoMarker, !.retry = 0].prov = NoMarker
         /\ [saved EXCEPT !.prov = NewMarker].prov = NewMarker
         /\ [saved EXCEPT !.since = since, !.retry = 0].prov = saved.prov
         /\ [saved EXCEPT !.since = since].prov = saved.prov
         /\ [prov |-> NoMarker, since |-> since, retry |-> retry].prov = NoMarker
         /\ ~InFlight(NoMarker) /\ saved.prov \in Marker /\ prov \in Marker
  BY DEF TypeOK, Annotations, NoMarker, InFlight

LEMMA CoverStep ==
  /\ Faults \cap {"kubeRead", "kubeWrite"} = {} /\ RealPauses
  /\ TypeOK /\ ActingInv /\ CoverInv /\ [Next]_vars
  => CoverInv'
<1> SUFFICES ASSUME Faults \cap {"kubeRead", "kubeWrite"} = {}, RealPauses,
                    TypeOK, ActingInv, CoverInv, [Next]_vars
             PROVE  CoverInv'
  OBVIOUS
<1> USE DEF CoverInv, InFlight
<1>a. EndPass => pc' = "idle"
  BY DEF EndPass
<1>b. /\ replicas \in Nat /\ goal \in Nat /\ saved.prov.from \in Nat /\ saved.prov.to \in Nat
      /\ prov.from \in Nat /\ prov.to \in Nat /\ ~InFlight(NoMarker)
  BY PolicyAssumption, WrittenFields DEF TypeOK, Marker
<1>1. CASE ListJobs \/ ReadPool \/ StillProvisioning \/ Keep \/ BeginDrain \/ CheckDrained
  <2>1. UNCHANGED <<replicas, saved, prov>> /\ pc' \notin {"saveBack", "down", "raise"}
        /\ pc \notin {"saveBack", "down", "raise"}
    BY <1>1, <1>a DEF ListJobs, ReadPool, StillProvisioning, Keep, BeginDrain, CheckDrained, kubeVars, memory
  <2> QED
    BY <2>1
<1>2. CASE Provisioned
  <2>1. saved' = [saved EXCEPT !.prov = NoMarker, !.retry = 0] /\ prov' = NoMarker /\ pc' = "decide"
    BY <1>2, KubeObeys DEF Provisioned
  <2>2. saved'.prov = NoMarker
    BY <2>1, WrittenFields
  <2> QED
    BY <1>b, <2>1, <2>2
<1>3. CASE RollBack
  <2>1. /\ replicas' = prov.from /\ prov' = NoMarker /\ saved' = saved /\ pc' = "saveBack"
        /\ pc = "observed" /\ InFlight(prov)
    BY <1>3 DEF RollBack, GivesUp, Scale
  <2> QED
    BY <1>b, <2>1
<1>4. CASE SaveRollBack
  <2>1. saved'.prov = NoMarker /\ prov' = prov /\ ~InFlight(prov) /\ pc' = "decide"
    BY <1>4, KubeObeys, WrittenFields DEF SaveRollBack, memory
  <2> QED
    BY <1>b, <2>1
<1>5. CASE BeginScaleUp
  <2>1. /\ saved'.prov = NewMarker /\ prov' = NewMarker /\ goal' = Chosen.target /\ pc' = "raise"
        /\ replicas' = replicas
    BY <1>5, KubeObeys, WrittenFields DEF BeginScaleUp, kubeVars
  <2>2. obs.cur = replicas
    BY <1>5 DEF BeginScaleUp, BackingOff, ActingInv
  <2>3. Chosen.target > obs.cur /\ Chosen.target \in Nat
    BY <1>5, EvaluateTarget, PolicyAssumption DEF BeginScaleUp, Chosen, TypeOK
  <2> QED
    BY <1>b, <2>1, <2>2, <2>3 DEF NewMarker
<1>6. CASE Raise
  BY <1>6, <1>b DEF Raise, Scale
<1>7. CASE Shrink
  <2>1. replicas' = goal /\ goal < replicas /\ UNCHANGED <<saved, prov>> /\ pc' = "saveDown" /\ pc = "shrink"
    BY <1>7 DEF Shrink, Scale, ActingInv
  <2> QED
    BY <1>b, <2>1
<1>8. CASE SaveScaleUp \/ SaveScaleDown
  <2>1. prov' = prov /\ replicas' = replicas /\ pc' = "idle" /\ pc \notin {"saveBack", "down", "raise"}
    BY <1>8, <1>a DEF SaveScaleUp, SaveScaleDown, kubeVars, memory
  <2>2. saved' \in {[saved EXCEPT !.since = since, !.retry = 0], [saved EXCEPT !.since = since]}
    BY <1>8, KubeObeys DEF SaveScaleUp, SaveScaleDown
  <2>3. saved'.prov = saved.prov
    BY <2>2, WrittenFields
  <2> QED
    BY <2>1, <2>3
<1>9. CASE Crash
  BY <1>9, <1>b DEF Crash, ProcessEnds, kubeVars
<1>10. CASE CrashAmid
  <2>1. pc' = "down" /\ prov' = NoMarker /\ saved'.prov \in {saved.prov, NoMarker} /\ pc # "down"
    BY <1>10, HalfDone DEF CrashAmid, ProcessEnds
  <2>2. replicas' <= replicas
    BY <1>10, <1>b, HalfDone DEF kubeVars, Scale, ActingInv
  <2>3. replicas' \in Nat
    BY <1>10, TypeRestart, PolicyAssumption DEF TypeOK
  <2> QED
    BY <1>b, <2>1, <2>2, <2>3
<1>11. CASE Restart
  <2>1. prov' = (IF InFlight(saved.prov) THEN saved.prov ELSE NoMarker)
    BY <1>11, KubeObeys DEF Restart
  <2> QED
    BY <1>11, <1>b, <2>1 DEF Restart, kubeVars
<1>12. CASE World \/ UNCHANGED vars
  <2>1. UNCHANGED <<replicas, saved, pc, goal, prov>>
    BY <1>12 DEF World, Submit, Cancel, Start, Finish, PodReady, PodLost, kubeVars, passVars, memory, vars
  <2> QED
    BY <2>1
<1>13. CASE Tick
  <2>1. \A m \in Marker : Older(m).from = m.from /\ Older(m).to = m.to
    BY DEF Older, Marker
  <2>2. prov \in Marker /\ saved.prov \in Marker /\ prov' = Older(prov) /\ saved'.prov = Older(saved.prov)
    BY <1>13 DEF Tick, TypeOK, Annotations
  <2> QED
    BY <1>13, <2>1, <2>2 DEF Tick, kubeVars, passVars
<1>14. ~RollBackRefused /\ ~RaiseRefused /\ ~ShrinkRefused
  BY KubeObeys DEF RollBackRefused, RaiseRefused, ShrinkRefused
<1> QED
  BY <1>1, <1>2, <1>3, <1>4, <1>5, <1>6, <1>7, <1>8, <1>9, <1>10, <1>11, <1>12, <1>13, <1>14 DEF Next, Pass

\* When as many pods are Ready as a scale-up asked for, all pods are.
LEMMA AllReady ==
  ASSUME TypeOK, CoverInv, Faults \cap {"kubeRead", "kubeWrite"} = {}, pc = "observed", InFlight(prov),
         \E ready \in ReadyReadings : Enough(ready)
  PROVE  \A i \in Ord : i < replicas => i \in up
<1>1. Cardinality(up) >= prov.to /\ prov.to >= replicas /\ prov.to \in Nat
  BY KubeObeys, PolicyAssumption DEF Enough, CoverInv, TypeOK, Marker
<1>2. replicas \in Nat /\ up \subseteq 0 .. replicas - 1
  BY PolicyAssumption DEF TypeOK, Ord
<1>3. /\ IsFiniteSet(0 .. replicas - 1) /\ Cardinality(0 .. replicas - 1) = replicas
  <2>1. 0 \in Int /\ replicas - 1 \in Int
    BY <1>2
  <2> QED
    BY <1>2, <2>1, FS_Interval
<1>4. Cardinality(up) <= replicas /\ (Cardinality(up) = replicas => up = 0 .. replicas - 1)
  BY <1>2, <1>3, FS_Subset
<1>5. Cardinality(up) \in Nat
  BY <1>2, <1>3, FS_Subset, FS_CardinalityType
<1>6. up = 0 .. replicas - 1
  BY <1>1, <1>2, <1>4, <1>5
<1> QED
  BY <1>2, <1>6 DEF Ord

\* If calls to Kubernetes take effect and pods stay Ready, a scale-up in flight is found again
\* by any restart, wherever the process ended, unless a rollback puts replicas back that a
\* scale-down took meanwhile (scale_actions.py:75-86, reconciler.py:76, 102-110).
THEOREM PodsStayCovered ==
  RealPauses /\ Faults \cap {"kubeRead", "kubeWrite", "podLoss"} = {} => (Spec => OnlyRollBacksUncover)
<1> SUFFICES ASSUME RealPauses, Faults \cap {"kubeRead", "kubeWrite"} = {}, "podLoss" \notin Faults
             PROVE  Spec => OnlyRollBacksUncover
  OBVIOUS
<1>1. Init => ActingInv /\ CoverInv
  BY DEF Init, ActingInv, CoverInv, InFlight, NoMarker
<1>2. TypeOK /\ ActingInv /\ CoverInv /\ [Next]_vars => ActingInv' /\ CoverInv'
  BY ActingStep, CoverStep
<1>3. TypeOK /\ ActingInv /\ CoverInv /\ [Next]_vars
        => [\A i \in Ord : ~Uncovered(i) /\ Uncovered(i)' =>
              pc = "observed" /\ InFlight(prov) /\ replicas <= i /\ replicas' = prov.from]_vars
  <2> SUFFICES ASSUME TypeOK, ActingInv, CoverInv, [Next]_vars, NEW i \in Ord,
                      i < replicas => i \in up \/ (InFlight(saved.prov) /\ saved.prov.from <= i /\ i < saved.prov.to),
                      i < replicas', i \notin up',
                      ~(InFlight(saved'.prov) /\ saved'.prov.from <= i /\ i < saved'.prov.to)
               PROVE  pc = "observed" /\ InFlight(prov) /\ replicas <= i /\ replicas' = prov.from
    BY DEF Uncovered, InFlight
  <2>a. saved.prov \in Marker /\ prov \in Marker /\ ~InFlight(NoMarker)
    BY WrittenFields
  <2>b. /\ replicas \in Nat /\ goal \in Nat /\ i \in Nat /\ saved.prov \in Marker /\ ~InFlight(NoMarker)
        /\ saved.prov.from \in Nat /\ saved.prov.to \in Nat /\ prov.from \in Nat /\ prov.to \in Nat
    BY <2>a, PolicyAssumption DEF TypeOK, Ord, Marker
  <2>1. CASE RollBack
    <3>1. /\ pc = "observed" /\ InFlight(prov) /\ replicas' = prov.from /\ saved' = saved
          /\ up' = {j \in up : j < prov.from}
      BY <2>1 DEF RollBack, GivesUp, Scale
    <3>2. ~(i < replicas)
      BY <2>b, <3>1 DEF CoverInv
    <3> QED
      BY <2>b, <3>1, <3>2
  <2>2. CASE Raise
    <3>1. replicas' = goal /\ saved' = saved /\ up' = {j \in up : j < goal} /\ pc = "raise"
      BY <2>2 DEF Raise, Scale
    <3> QED
      BY <2>b, <3>1 DEF CoverInv, TypeOK
  <2>3. CASE pc = "shrink" /\ Scale(goal) /\ saved'.prov = saved.prov
    <3>1. replicas' = goal /\ up' = {j \in up : j < goal} /\ goal < replicas
      BY <2>3 DEF Scale, ActingInv
    <3> QED
      BY <2>3, <2>b, <3>1
  <2>4. CASE Provisioned \/ (CrashAmid /\ ProvisionedHalf)
    <3>1. UNCHANGED <<replicas, up>>
      BY <2>4 DEF Provisioned, ProvisionedHalf, kubeVars
    <3>2. \A j \in Ord : j < replicas => j \in up
      BY <2>4, AllReady DEF Provisioned, ProvisionedHalf
    <3> QED
      BY <3>1, <3>2
  <2>5. CASE pc = "saveBack" /\ UNCHANGED <<replicas, up>>
    BY <2>5, <2>b DEF CoverInv
  <2>6. CASE BeginScaleUp
    <3>1. UNCHANGED <<replicas, up>> /\ pc = "decide" /\ ~InFlight(prov)
      BY <2>6 DEF BeginScaleUp, kubeVars, GateOpen
    <3> QED
      BY <3>1 DEF CoverInv
  <2>7. CASE replicas' = replicas /\ up \subseteq up' /\ saved'.prov.from = saved.prov.from
               /\ saved'.prov.to = saved.prov.to
    BY <2>7 DEF InFlight
  <2>8. CASE Tick
    <3>1. Older(saved.prov).from = saved.prov.from /\ Older(saved.prov).to = saved.prov.to
      BY <2>b DEF Older, Marker
    <3> QED
      BY <2>7, <2>8, <3>1 DEF Tick, kubeVars
  <2>9. CASE CrashAmid
    BY <2>3, <2>4, <2>5, <2>7, <2>9, HalfDone DEF kubeVars
  <2>10. CASE Shrink
    BY <2>3, <2>10 DEF Shrink
  <2>11. CASE SaveRollBack
    BY <2>5, <2>11 DEF SaveRollBack, kubeVars
  <2>12. CASE SaveScaleUp \/ SaveScaleDown
    <3>0. saved' \in {[saved EXCEPT !.since = since, !.retry = 0], [saved EXCEPT !.since = since]}
      BY <2>12, KubeObeys DEF SaveScaleUp, SaveScaleDown
    <3>1. saved'.prov = saved.prov
      BY <3>0, WrittenFields
    <3> QED
      BY <2>7, <2>12, <3>1 DEF SaveScaleUp, SaveScaleDown, kubeVars
  <2>13. CASE World
    <3>1. UNCHANGED <<replicas, saved>> /\ up \subseteq up'
      BY <2>13 DEF World, Submit, Cancel, Start, Finish, PodReady, PodLost, kubeVars
    <3> QED
      BY <2>7, <3>1
  <2>14. CASE Crash \/ Restart \/ ListJobs \/ ReadPool \/ StillProvisioning \/ Keep \/ BeginDrain
                \/ CheckDrained \/ RaiseRefused \/ ShrinkRefused \/ RollBackRefused \/ UNCHANGED vars
    <3>1. UNCHANGED <<replicas, up, saved>>
      BY <2>14 DEF Crash, Restart, ListJobs, ReadPool, StillProvisioning, Keep, BeginDrain, CheckDrained,
         RaiseRefused, ShrinkRefused, RollBackRefused, vars, kubeVars
    <3> QED
      BY <2>7, <3>1
  <2> QED
    BY <2>1, <2>2, <2>4, <2>6, <2>8, <2>9, <2>10, <2>11, <2>12, <2>13, <2>14 DEF Next, Pass
<1> QED
  BY <1>1, <1>2, <1>3, TypeCorrect, PTL DEF Spec, OnlyRollBacksUncover
=============================================================================
