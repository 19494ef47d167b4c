---------------------------- MODULE ElasticPool ----------------------------
(***************************************************************************)
(* One worker pool under the elastic operator: the reconcile pass of       *)
(* operator/reconciler.py and operator/scale_actions.py, the StatefulSet   *)
(* it scales, the Slurm nodes it drains, the annotations it survives a     *)
(* restart with, and the jobs and pods that move while a pass is running.  *)
(*                                                                         *)
(* A pass is a sequence of steps, one per group of API calls after which   *)
(* it matters where the outside world has got to: list the jobs, read the  *)
(* replicas and the nodes, look after a scale-up in flight, decide, and    *)
(* carry the decision out.  `pc' is the next step of the pass.  Jobs and   *)
(* pods that move within a group could as well move before or after it; a  *)
(* process that ends within one leaves it half done (CrashAmid).           *)
(*                                                                         *)
(* Time is kept as ages: the time since an event, in ticks, that stops     *)
(* counting at Horizon.  A pass takes less than a tick.                    *)
(***************************************************************************)
EXTENDS ScalingPolicy, FiniteSets

CONSTANTS
  Cooldown,        \* scale_down_cooldown
  ProvTimeout,     \* provisioning_timeout_seconds, 0 to disable
  RetryDelay,      \* provisioning_retry_seconds
  DrainTimeout,    \* drain_timeout_seconds, 0 to disable
  Horizon,         \* bound: ages stop counting here
  MaxQueue,        \* bound: pending jobs in the queue
  MaxCrashes,      \* bound: restarts of the operator
  Faults           \* which calls can fail, see FaultKinds

FaultKinds == { "crash",      \* the operator's process ends between any two calls
                "squeue",     \* the job list is read as empty
                "kubeRead",   \* a StatefulSet is unreadable
                "kubeWrite",  \* a patch of the StatefulSet is refused
                "scontrol",   \* a Slurm command has no effect, a query no answer
                "podLoss" }   \* a pod stops being Ready and loses its job

ASSUME PoolAssumption ==
  /\ {Cooldown, ProvTimeout, RetryDelay, DrainTimeout, MaxQueue, MaxCrashes} \subseteq Nat
  /\ Horizon \in Nat
  /\ Cooldown <= Horizon /\ ProvTimeout <= Horizon
  /\ RetryDelay <= Horizon /\ DrainTimeout < Horizon
  /\ Faults \subseteq FaultKinds

VARIABLES
  replicas,   \* spec.replicas of the worker StatefulSet
  up,         \* ordinals whose pod is Ready
  node,       \* Slurm state of each ordinal's node
  busy,       \* ordinals with a job on them (RUNNING or COMPLETING)
  waiting,    \* pending jobs that more nodes would not help
  blocked,    \* pending jobs with Reason=Resources
  saved,      \* the operator's annotations on the StatefulSet
  pc,         \* where the reconcile pass is
  obs,        \* what the pass observed
  goal,       \* replicas the pass is scaling to
  prov,       \* _provisioning: the scale-up in flight
  since,      \* age of last_scale_action_at
  retry,      \* time left until _provisioning_retry_at
  draining,   \* _draining_nodes
  drainAge,   \* age of each entry of _draining_started
  crashes,    \* restarts so far
  grown,      \* history: real time since a scale-up changed the replicas
  shrunk      \* history: real time since a scale-down was recorded on the StatefulSet

slurmVars  == <<node, busy>>
queueVars  == <<waiting, blocked>>
kubeVars   == <<replicas, up>>
memory     == <<prov, since, retry, draining, drainAge>>
history    == <<grown, shrunk>>
passVars   == <<pc, obs, goal>>
vars == <<kubeVars, slurmVars, queueVars, saved, passVars, memory, crashes, history>>

-----------------------------------------------------------------------------
Ord  == 0 .. Max - 1
Age  == 0 .. Horizon
Steps == {"idle", "listed", "observed", "saveBack", "decide", "raise", "saveUp",
          "drained", "shrink", "saveDown", "down"}
NodeStates == {"active", "drain", "down", "future"}

\* A provisioning marker.  Like the restore in OperatorApp.__init__, it only
\* counts when its target is above its origin.
Marker == [age : Age, from : 0 .. Max, to : 0 .. Max]
Annotations == [prov : Marker, since : Age, retry : Age]
NoMarker == [age |-> 0, from |-> 0, to |-> 0]
InFlight(m) == m.to > m.from

NoObs == [cur |-> 0, pend |-> 0, need |-> 0, run |-> 0, busy |-> 0]
NoAges == [i \in Ord |-> 0]

TypeOK ==
  /\ replicas \in 0 .. Max
  /\ up \subseteq {i \in Ord : i < replicas}
  /\ node \in [Ord -> NodeStates]
  /\ busy \subseteq up
  /\ waiting \in 0 .. MaxQueue /\ blocked \in 0 .. MaxQueue
  /\ saved \in Annotations
  /\ pc \in Steps
  /\ obs \in Observation /\ obs.cur \in 0 .. Max /\ obs.busy \in 0 .. Max
  /\ goal \in 0 .. Max
  /\ prov \in Marker /\ since \in Age /\ retry \in Age
  /\ draining \subseteq Ord /\ drainAge \in [Ord -> Age]
  /\ crashes \in 0 .. MaxCrashes
  /\ grown \in Age /\ shrunk \in Age

-----------------------------------------------------------------------------
(* Helpers *)

\* What a call may come back with when calls of that kind can fail.
Faulty(kind, outcomes) == IF kind \in Faults THEN outcomes ELSE {}

\* The states of the Slurm nodes once `scontrol update State=st' was sent for S.
\* `|| true' and the except clauses hide a command that had no effect.
Marked(S, st) ==
  { [i \in Ord |-> IF i \in T THEN st ELSE node[i]] : T \in {S} \cup Faulty("scontrol", SUBSET S) }

\* The states of the Slurm nodes when only some of S were sent the command.
PartlyMarked(S, st) == { [i \in Ord |-> IF i \in T THEN st ELSE node[i]] : T \in SUBSET S }

\* The annotations once the operator has written `new' over them, each on its own.
Written(new) ==
  {new} \cup Faulty("kubeWrite",
    { [prov |-> p, since |-> s, retry |-> r] :
        p \in {saved.prov, new.prov}, s \in {saved.since, new.since}, r \in {saved.retry, new.retry} })

\* patch_replicas: Kubernetes removes the pods above n, and their jobs with them.
Scale(n) ==
  /\ replicas' = n
  /\ up' = {i \in up : i < n}
  /\ busy' = {i \in busy : i < n}

\* The pods a scale-down from `from' to `to' removes.
Span(from, to) == {i \in Ord : from <= i /\ i < to}

Later(a)   == IF a < Horizon THEN a + 1 ELSE a
Sooner(t)  == IF t > 0 THEN t - 1 ELSE t
Older(m)   == IF InFlight(m) THEN [m EXCEPT !.age = Later(@)] ELSE m

TimedOut(m) == ProvTimeout > 0 /\ m.age >= ProvTimeout

\* The pass is over: it was a success, or _process_pool swallowed the exception.
EndPass == pc' = "idle" /\ obs' = NoObs /\ goal' = 0

-----------------------------------------------------------------------------
(* The reconcile pass: observing *)

\* collect_all_partition_states, first part.  Without slurmrestd a failed squeue
\* prints nothing (`|| true'), which reads as an empty queue.
ListJobs ==
  /\ pc = "idle"
  /\ pc' = "listed"
  /\ obs' \in { [NoObs EXCEPT !.pend = waiting + blocked, !.need = blocked, !.run = Cardinality(busy)] }
              \cup Faulty("squeue", {NoObs})
  /\ UNCHANGED <<kubeVars, slurmVars, queueVars, saved, goal, memory, crashes, history>>

\* slurmrestd reports ALLOCATED next to DRAIN; sinfo prints `draining' instead.
BusyReadings ==
  {Cardinality(busy), Cardinality({i \in busy : node[i] = "active"})} \cup Faulty("scontrol", {0})

\* get_replicas and get_busy_nodes.  An ApiException reads as 0 replicas.
ReadPool ==
  /\ pc = "listed"
  /\ pc' = "observed"
  /\ \E c \in {replicas} \cup Faulty("kubeRead", {0}), b \in BusyReadings :
        obs' = [obs EXCEPT !.cur = c, !.busy = b]
  /\ UNCHANGED <<kubeVars, slurmVars, queueVars, saved, goal, memory, crashes, history>>

-----------------------------------------------------------------------------
(* The reconcile pass: a scale-up in flight *)

\* get_ready_replicas; an ApiException reads as 0.
ReadyReadings == {Cardinality(up)} \cup Faulty("kubeRead", {0})

EnoughForOrigin(ready) == ready >= prov.from   \* variant: compares with the wrong end
\* As many pods are Ready as the scale-up asked for.
Enough(ready) == ready >= prov.to

\* Nothing to look after, or still time for the pods to become Ready.
StillProvisioning ==
  /\ pc = "observed"
  /\ InFlight(prov) => ~TimedOut(prov) /\ \E ready \in ReadyReadings : ~Enough(ready)
  /\ pc' = "decide"
  /\ UNCHANGED <<kubeVars, slurmVars, queueVars, saved, obs, goal, memory, crashes, history>>

\* Enough pods are Ready: forget the marker, resume the nodes that were added.
Provisioned ==
  /\ pc = "observed"
  /\ InFlight(prov)
  /\ \E ready \in ReadyReadings : Enough(ready)
  /\ prov' = NoMarker
  /\ retry' = 0
  /\ saved' \in Written([saved EXCEPT !.prov = NoMarker, !.retry = 0])
  /\ node' \in Marked(Span(prov.from, prov.to), "active")
  /\ pc' = "decide"
  /\ UNCHANGED <<kubeVars, busy, queueVars, obs, goal, since, draining, drainAge, crashes, history>>

GivesUp ==
  /\ pc = "observed"
  /\ InFlight(prov)
  /\ TimedOut(prov)
  /\ \E ready \in ReadyReadings : ~Enough(ready)
  /\ node' \in Marked(Span(prov.from, prov.to), "future")

\* The pods did not become Ready in time: back to the replicas of before.
RollBack ==
  /\ GivesUp
  /\ Scale(prov.from)
  /\ prov' = NoMarker
  /\ since' = 0
  /\ retry' = RetryDelay
  /\ pc' = "saveBack"
  /\ UNCHANGED <<queueVars, saved, obs, goal, draining, drainAge, crashes, history>>

\* The patch is refused: the exception ends the pass, the marker stays.
RollBackRefused ==
  /\ "kubeWrite" \in Faults
  /\ GivesUp
  /\ EndPass
  /\ UNCHANGED <<kubeVars, busy, queueVars, saved, memory, crashes, history>>

\* The pass goes on to decide, on what it observed before the rollback.
SaveRollBack ==
  /\ pc = "saveBack"
  /\ saved' \in Written([prov |-> NoMarker, since |-> since, retry |-> retry])
  /\ pc' = "decide"
  /\ UNCHANGED <<kubeVars, slurmVars, queueVars, obs, goal, memory, crashes, history>>

-----------------------------------------------------------------------------
(* The reconcile pass: deciding *)

Chosen == Evaluate(obs)

BackingOffAtZero == retry >= 0   \* variant: the pause has no end
\* The pause after a rollback.
BackingOff == retry > 0

\* The in-flight provisioning gate: one scale-up at a time.
GateOpen == ~InFlight(prov)

\* Long enough after the last scale action for a scale-down.
Cooled == since >= Cooldown

\* Nothing to do, a scale-up that has to wait, a scale-down that is not allowed yet.
Keep ==
  /\ pc = "decide"
  /\ \/ Chosen.action = "keep"
     \/ Chosen.action = "scale_up" /\ (BackingOff \/ ~GateOpen)
     \/ Chosen.action = "scale_down" /\ (obs.run > 0 \/ ~Cooled)
  /\ EndPass
  /\ UNCHANGED <<kubeVars, slurmVars, queueVars, saved, memory, crashes, history>>

-----------------------------------------------------------------------------
(* _do_scale_up *)

UndrainNew == Span(obs.cur, Chosen.target)   \* variant: only what it adds
\* Nodes a scale-up makes schedulable: those being drained and all it will run.
Undrain == draining \cup Span(0, Chosen.target)

NewMarkerSwapped == [age |-> 0, from |-> Chosen.target, to |-> obs.cur]   \* variant: ends swapped
NewMarker == [age |-> 0, from |-> obs.cur, to |-> Chosen.target]

\* Cancels the drains and writes the marker that a restart finds.
BeginScaleUp ==
  /\ pc = "decide"
  /\ Chosen.action = "scale_up" /\ ~BackingOff /\ GateOpen
  /\ draining' = {} /\ drainAge' = NoAges
  /\ node' \in Marked(Undrain, "active")
  /\ \/ /\ saved' = [saved EXCEPT !.prov = NewMarker]
        /\ prov' = NewMarker
        /\ goal' = Chosen.target
        /\ pc' = "raise"
        /\ UNCHANGED obs
     \/ /\ "kubeWrite" \in Faults
        /\ EndPass
        /\ UNCHANGED <<saved, prov>>
  /\ UNCHANGED <<kubeVars, busy, queueVars, since, retry, crashes, history>>

Raise ==
  /\ pc = "raise"
  /\ Scale(goal)
  /\ since' = 0 /\ retry' = 0
  /\ grown' = 0
  /\ pc' = "saveUp"
  /\ UNCHANGED <<node, queueVars, saved, obs, goal, prov, draining, drainAge, crashes, shrunk>>

\* The exception leaves the marker in memory and on the StatefulSet.
RaiseRefused ==
  /\ pc = "raise"
  /\ "kubeWrite" \in Faults
  /\ EndPass
  /\ UNCHANGED <<kubeVars, slurmVars, queueVars, saved, memory, crashes, history>>

SaveScaleUp ==
  /\ pc = "saveUp"
  /\ saved' \in Written([saved EXCEPT !.since = since, !.retry = 0])
  /\ EndPass
  /\ UNCHANGED <<kubeVars, slurmVars, queueVars, memory, crashes, history>>

-----------------------------------------------------------------------------
(* _do_scale_down *)

DrainTargetsShort == Span(Chosen.target + 1, obs.cur) \ draining   \* variant: off by one
\* The nodes the decision removes that are not draining yet.
DrainTargets == Span(Chosen.target, obs.cur) \ draining

BeginDrain ==
  /\ pc = "decide"
  /\ Chosen.action = "scale_down"
  /\ obs.run = 0
  /\ Cooled
  /\ node' \in Marked(DrainTargets, "drain")
  /\ draining' = draining \cup DrainTargets
  /\ drainAge' = [i \in Ord |-> IF i \in DrainTargets THEN 0 ELSE drainAge[i]]
  /\ goal' = Chosen.target
  /\ pc' = "drained"
  /\ UNCHANGED <<kubeVars, busy, queueVars, saved, obs, prov, since, retry, crashes, history>>

\* Nodes with work that have been draining for too long.
Overdue == {i \in draining \cap busy : DrainTimeout > 0 /\ drainAge[i] > DrainTimeout}

\* The draining nodes whose CPUAlloc has to be 0 before the replicas are patched.
Awaited == draining \ Overdue

\* Force-kills the jobs of overdue nodes, then asks every other node for its CPUAlloc;
\* a query without an answer reads as 0.
CheckDrained ==
  /\ pc = "drained"
  /\ node' \in Marked(Overdue, "down")
  /\ busy' = busy \ {i \in Overdue : node'[i] = "down"}
  /\ \/ /\ Awaited \cap busy = {} \/ "scontrol" \in Faults
        /\ pc' = "shrink"
        /\ UNCHANGED <<obs, goal>>
     \/ /\ Awaited \cap busy # {}
        /\ EndPass
  /\ UNCHANGED <<kubeVars, queueVars, saved, memory, crashes, history>>

Shrink ==
  /\ pc = "shrink"
  /\ Scale(goal)
  /\ node' \in Marked(Span(goal, obs.cur), "future")
  /\ draining' = {} /\ drainAge' = NoAges
  /\ since' = 0
  /\ pc' = "saveDown"
  /\ UNCHANGED <<queueVars, saved, obs, goal, prov, retry, crashes, history>>

ShrinkRefused ==
  /\ pc = "shrink"
  /\ "kubeWrite" \in Faults
  /\ EndPass
  /\ UNCHANGED <<kubeVars, slurmVars, queueVars, saved, memory, crashes, history>>

SaveScaleDown ==
  /\ pc = "saveDown"
  /\ saved' \in Written([saved EXCEPT !.since = since])
  /\ shrunk' = IF saved'.since = since THEN 0 ELSE shrunk
  /\ EndPass
  /\ UNCHANGED <<kubeVars, slurmVars, queueVars, memory, crashes, grown>>

-----------------------------------------------------------------------------
(* Restarts *)

\* The process ends: what was only in memory is gone.
ProcessEnds ==
  /\ "crash" \in Faults
  /\ pc # "down" /\ crashes < MaxCrashes
  /\ crashes' = crashes + 1
  /\ pc' = "down" /\ obs' = NoObs /\ goal' = 0
  /\ prov' = NoMarker /\ since' = Horizon /\ retry' = 0
  /\ draining' = {} /\ drainAge' = NoAges

\* Between two steps.
Crash ==
  /\ ProcessEnds
  /\ UNCHANGED <<kubeVars, slurmVars, queueVars, saved, history>>

\* Between two calls of the step that is next: some of its calls were made.
ProvisionedHalf ==
  /\ pc = "observed" /\ InFlight(prov)
  /\ \E ready \in ReadyReadings : Enough(ready)
  /\ \/ /\ saved' \in Written([saved EXCEPT !.prov = NoMarker])
        /\ UNCHANGED node
     \/ /\ saved' \in Written([saved EXCEPT !.prov = NoMarker, !.retry = 0])
        /\ node' \in PartlyMarked(Span(prov.from, prov.to), "active")
  /\ UNCHANGED <<kubeVars, busy>>

RollBackHalf ==
  /\ pc = "observed" /\ InFlight(prov) /\ TimedOut(prov)
  /\ \E ready \in ReadyReadings : ~Enough(ready)
  /\ node' \in PartlyMarked(Span(prov.from, prov.to), "future")
  /\ UNCHANGED <<kubeVars, busy, saved>>

SaveHalf ==
  /\ \/ pc = "saveBack" /\ saved' \in Written([saved EXCEPT !.prov = NoMarker])
     \/ pc = "saveBack" /\ saved' \in Written([saved EXCEPT !.prov = NoMarker, !.since = since])
     \/ pc = "saveUp" /\ saved' \in Written([saved EXCEPT !.since = since])
  /\ UNCHANGED <<kubeVars, slurmVars>>

UndrainHalf ==
  /\ pc = "decide"
  /\ Chosen.action = "scale_up" /\ ~BackingOff /\ GateOpen
  /\ node' \in PartlyMarked(Undrain, "active")
  /\ UNCHANGED <<kubeVars, busy, saved>>

DrainHalf ==
  /\ pc = "decide"
  /\ Chosen.action = "scale_down" /\ obs.run = 0 /\ Cooled
  /\ node' \in PartlyMarked(DrainTargets, "drain")
  /\ UNCHANGED <<kubeVars, busy, saved>>

KillHalf ==
  /\ pc = "drained"
  /\ node' \in PartlyMarked(Overdue, "down")
  /\ busy' = busy \ {i \in Overdue : node'[i] = "down"}
  /\ UNCHANGED <<kubeVars, saved>>

ShrinkHalf ==
  /\ pc = "shrink"
  /\ Scale(goal)
  /\ node' \in PartlyMarked(Span(goal, obs.cur), "future")
  /\ UNCHANGED saved

CrashAmid ==
  /\ ProcessEnds
  /\ \/ ProvisionedHalf \/ RollBackHalf \/ SaveHalf \/ UndrainHalf
     \/ DrainHalf \/ KillHalf \/ ShrinkHalf
  /\ UNCHANGED <<queueVars, history>>

RestoredSinceMarkerOnly(s, m) == IF InFlight(m) THEN m.age ELSE Horizon   \* variant: the annotation is not read
RestoredSinceActionOnly(s, m) == s   \* variant: the cooldown is read from its own annotation alone
\* The age of the last scale action: the later of the annotation and the marker.
RestoredSince(s, m) == IF InFlight(m) THEN Smaller(s, m.age) ELSE s

\* OperatorApp.__init__ reads each annotation on its own; an unreadable one is absent.
Restart ==
  /\ pc = "down"
  /\ pc' = "idle"
  /\ \E s \in {saved.since} \cup Faulty("kubeRead", {Horizon}),
        m \in {saved.prov} \cup Faulty("kubeRead", {NoMarker}),
        t \in {saved.retry} \cup Faulty("kubeRead", {0}) :
        /\ prov' = IF InFlight(m) THEN m ELSE NoMarker
        /\ since' = RestoredSince(s, m)
        /\ retry' = t
  /\ UNCHANGED <<kubeVars, slurmVars, queueVars, saved, obs, goal, draining, drainAge, crashes, history>>

-----------------------------------------------------------------------------
(* The world around the operator *)

Usable(i) == i \in up /\ node[i] = "active"

\* A user submits a job, or cancels one that is pending.
Submit ==
  /\ waiting + blocked < MaxQueue
  /\ \/ waiting' = waiting + 1 /\ UNCHANGED blocked
     \/ blocked' = blocked + 1 /\ UNCHANGED waiting
  /\ UNCHANGED <<kubeVars, slurmVars, saved, passVars, memory, crashes, history>>

Cancel ==
  /\ \/ waiting > 0 /\ waiting' = waiting - 1 /\ UNCHANGED blocked
     \/ blocked > 0 /\ blocked' = blocked - 1 /\ UNCHANGED waiting
  /\ UNCHANGED <<kubeVars, slurmVars, saved, passVars, memory, crashes, history>>

\* slurmctld starts a pending job on a free node.
Start(i) ==
  /\ Usable(i) /\ i \notin busy
  /\ busy' = busy \cup {i}
  /\ \/ waiting > 0 /\ waiting' = waiting - 1 /\ UNCHANGED blocked
     \/ blocked > 0 /\ blocked' = blocked - 1 /\ UNCHANGED waiting
  /\ UNCHANGED <<kubeVars, node, saved, passVars, memory, crashes, history>>

Finish(i) ==
  /\ i \in busy
  /\ busy' = busy \ {i}
  /\ UNCHANGED <<kubeVars, node, queueVars, saved, passVars, memory, crashes, history>>

\* The StatefulSet starts its pods in order (podManagementPolicy OrderedReady).
PodReady(i) ==
  /\ i < replicas /\ i \notin up
  /\ \A j \in Ord : j < i => j \in up
  /\ up' = up \cup {i}
  /\ UNCHANGED <<replicas, slurmVars, queueVars, saved, passVars, memory, crashes, history>>

PodLost(i) ==
  /\ "podLoss" \in Faults
  /\ i \in up
  /\ up' = up \ {i}
  /\ busy' = busy \ {i}
  /\ UNCHANGED <<replicas, node, queueVars, saved, passVars, memory, crashes, history>>

\* Time passes between two passes, and while the operator is down.
Tick ==
  /\ pc \in {"idle", "down"}
  /\ saved' = [prov |-> Older(saved.prov), since |-> Later(saved.since), retry |-> Sooner(saved.retry)]
  /\ prov' = Older(prov)
  /\ since' = Later(since)
  /\ retry' = Sooner(retry)
  /\ drainAge' = [i \in Ord |-> IF i \in draining THEN Later(drainAge[i]) ELSE 0]
  /\ grown' = Later(grown) /\ shrunk' = Later(shrunk)
  /\ UNCHANGED <<kubeVars, slurmVars, queueVars, passVars, draining, crashes>>

-----------------------------------------------------------------------------
(* The specification *)

\* A release that was just installed, with some of its workers running.
Init ==
  /\ replicas \in Min .. Max
  /\ up = {i \in Ord : i < replicas}
  /\ node = [i \in Ord |-> IF i < replicas THEN "active" ELSE "future"]
  /\ busy = {} /\ waiting = 0 /\ blocked = 0
  /\ saved = [prov |-> NoMarker, since |-> Horizon, retry |-> 0]
  /\ pc = "idle" /\ obs = NoObs /\ goal = 0
  /\ prov = NoMarker /\ since = Horizon /\ retry = 0
  /\ draining = {} /\ drainAge = NoAges
  /\ crashes = 0
  /\ grown = Horizon /\ shrunk = Horizon

Pass ==
  \/ ListJobs \/ ReadPool
  \/ StillProvisioning \/ Provisioned \/ RollBack \/ RollBackRefused \/ SaveRollBack
  \/ Keep
  \/ BeginScaleUp \/ Raise \/ RaiseRefused \/ SaveScaleUp
  \/ BeginDrain \/ CheckDrained \/ Shrink \/ ShrinkRefused \/ SaveScaleDown

World ==
  \/ Submit \/ Cancel
  \/ \E i \in Ord : Start(i) \/ Finish(i) \/ PodReady(i) \/ PodLost(i)

Next == Pass \/ Crash \/ CrashAmid \/ Restart \/ World \/ Tick

Spec == Init /\ [][Next]_vars

\* The consumer loop runs a pass at least every reconcile_period_seconds; time
\* passes; Kubernetes starts the pods it can start; slurmctld starts jobs when
\* it can.  Nothing is promised about users or about how long a job runs.
Fairness ==
  /\ WF_vars(Pass) /\ WF_vars(Restart) /\ SF_vars(Tick)
  /\ \A i \in Ord : WF_vars(PodReady(i)) /\ WF_vars(Start(i))

FairSpec == Spec /\ Fairness

\* In addition, every job ends.
JobsEnd == \A i \in Ord : WF_vars(Finish(i))
FairJobsSpec == FairSpec /\ JobsEnd

-----------------------------------------------------------------------------
(* Safety properties *)

\* The patch of a scale-up or of a scale-down never removes a pod that has a
\* job on it, although jobs start while the pass is running
\* (docs/scheduler.md: the operator does not shrink running jobs away).
ScaleActionsSpareJobs ==
  [][(pc \in {"raise", "shrink"} /\ replicas' # replicas) => (\A i \in busy : i < replicas')]_vars

\* The desired replicas stay within the configured bounds, whatever was
\* rolled back, restored or decided on a stale observation.
ReplicasWithinBounds == Min <= replicas /\ replicas <= Max

\* Replicas are raised only once a restart would find the marker of that scale-up,
\* whichever calls fail (scale_actions.py writes the annotation before the patch).
RaiseHasMarker ==
  [][pc = "raise" /\ replicas' > replicas => InFlight(saved.prov) /\ saved.prov.to = replicas']_vars

\* What Kubernetes was asked for can be undone after a crash: pods that are not
\* Ready yet are covered by a marker on the StatefulSet.
UnreadyPodsHaveMarker ==
  (\E i \in Ord : i < replicas /\ i \notin up) => InFlight(saved.prov) /\ saved.prov.to >= replicas

\* After a scale-up no scale-down happens for Cooldown ticks of real time, even
\* if the operator restarts in between (OperatorApp.__init__, restored cooldown).
CooldownAfterScaleUp == [][pc = "shrink" /\ replicas' < replicas => grown >= Cooldown]_vars

\* The same promise after a scale-down that was recorded, through any number of restarts
\* and refused writes (docs/cluster.md, cooldown persistence; scale_actions.py:232-238).
CooldownAfterScaleDown == [][pc = "shrink" /\ replicas' < replicas => shrunk >= Cooldown]_vars

-----------------------------------------------------------------------------
(* The invariant behind ScaleActionsSpareJobs *)

\* A rollback is always due before the cooldown allows a scale-down, its pause is not
\* empty, and StatefulSet and Slurm commands take effect.  The chart's defaults, a
\* cooldown of 60 s and a provisioning timeout of 300 s, do not satisfy the first part.
SafeSettings ==
  /\ 0 < ProvTimeout /\ ProvTimeout < Cooldown /\ 0 < RetryDelay
  /\ Faults \cap {"kubeRead", "kubeWrite", "scontrol"} = {}

\* A marker spans the replicas it was written for, in memory and on the StatefulSet,
\* and the cooldown started no earlier than the scale-up in flight.
MarkerInv ==
  /\ InFlight(prov) => replicas \in {prov.from, prov.to}
  /\ InFlight(saved.prov) => replicas \in {saved.prov.from, saved.prov.to}
  /\ pc \notin {"saveBack", "down"} /\ InFlight(saved.prov) => saved.prov = prov
  /\ pc # "raise" /\ InFlight(prov) => since <= prov.age

\* What the pass observed is not below what Kubernetes was asked for.
ObservedInv ==
  /\ pc \in {"observed", "raise"} => obs.cur = replicas
  /\ pc \in {"saveBack", "decide", "drained", "shrink"} => replicas <= obs.cur
  /\ pc = "decide" /\ retry = 0 => obs.cur = replicas
  /\ pc = "decide" /\ InFlight(prov) => ~TimedOut(prov)
  /\ pc = "saveBack" => retry > 0
  /\ pc \in {"saveBack", "drained", "shrink"} => ~InFlight(prov)
  /\ pc = "raise" => prov = [age |-> 0, from |-> obs.cur, to |-> goal] /\ saved.prov = prov /\ InFlight(prov)

\* Draining and provisioning exclude each other, and a draining node starts no job.
DrainInv ==
  /\ draining # {} => ~InFlight(prov)
  /\ pc = "down" => draining = {} /\ ~InFlight(prov)
  /\ \A i \in draining : node[i] # "active"
  /\ pc \in {"drained", "shrink"} => Span(goal, obs.cur) \subseteq draining
  /\ pc = "shrink" => draining \cap busy = {}

\* The strengthened invariant: with it, no node a scale-down removes has a job.
SafeInv == MarkerInv /\ ObservedInv /\ DrainInv

-----------------------------------------------------------------------------
(* What holds with the timing of the chart, where a scale-down may overlap a scale-up *)

\* A cooldown and a retry pause that are not empty, as in the chart (60 s and 300 s).
RealPauses == 0 < Cooldown /\ 0 < RetryDelay

\* A scale-down that was allowed while a scale-up is in flight can lose a job in one way
\* only: the scale-up completes and resumes a node of the drain (reconciler.py:84), so that
\* a job starts there after the check.  A scale-up loses none.
OnlyResumedNodesLoseJobs ==
  [][(pc \in {"raise", "shrink"}) =>
       (\A i \in busy : i >= replicas' => pc = "shrink" /\ i \in draining /\ node[i] = "active")]_vars

\* Pods that are not Ready and that no marker would give back after a restart.
Uncovered(i) ==
  /\ i < replicas /\ i \notin up
  /\ ~(InFlight(saved.prov) /\ saved.prov.from <= i /\ i < saved.prov.to)

\* A pod is only left without a marker by a rollback that puts replicas back which a
\* scale-down took while the scale-up was in flight (reconciler.py:102).
OnlyRollBacksUncover ==
  [][\A i \in Ord : ~Uncovered(i) /\ Uncovered(i)' =>
       pc = "observed" /\ InFlight(prov) /\ replicas <= i /\ replicas' = prov.from]_vars

\* A node that Kubernetes was asked for, that takes no job, and whose drain the operator
\* does not remember: it stays out of service until the next scale-up.
Forgotten(i) == i < replicas /\ node[i] # "active" /\ i \notin draining

\* The ways a node is forgotten: a restart forgets the drains (app.py:173); a rollback puts
\* replicas back over nodes taken out of service, or marks nodes and is then refused
\* (reconciler.py:94-102); a scale-down forgets the drains it does not carry out
\* (scale_actions.py:229).  Nothing else does, whatever is read of the queue.
OnlyTheseForget ==
  [][\A i \in Ord : ~Forgotten(i) /\ Forgotten(i)' =>
       \/ pc' = "down"
       \/ pc = "observed" /\ InFlight(prov) /\ TimedOut(prov) /\ (replicas <= i \/ prov.from <= i)
       \/ pc = "shrink" /\ i \in draining /\ i < goal]_vars

-----------------------------------------------------------------------------
(* Liveness properties *)

\* A pool that stays without work shrinks to its minimum and stays there.
IdlePoolShrinks ==
  <>[](waiting + blocked = 0 /\ busy = {}) => <>[](replicas = Min)

\* Work that more nodes would help always gets a scale-up again, however often
\* one is rolled back: no pause and no gate holds the pool for ever.
DemandIsServed ==
  (blocked > 0 /\ replicas < Max /\ ~InFlight(prov)) ~> (blocked = 0 \/ InFlight(prov) \/ replicas = Max)
=============================================================================
