--------------------------- MODULE Fragmentation ---------------------------
(***************************************************************************)
(* operator/fragmentation.py and fragmentation_loop.py: a thread of the    *)
(* operator lists the jobs, partition by partition, then the nodes, looks  *)
(* for pending jobs that fit nowhere and requeues running jobs of lower    *)
(* priority for the first of them, under two rate limits.                  *)
(*                                                                         *)
(* The cluster moves between any two requests.  History entries are kept   *)
(* as ages, so that time needs no bound.                                   *)
(***************************************************************************)
EXTENDS Naturals, Sequences, FiniteSets, FiniteSetsExt, SequencesExt

CONSTANTS
  NJobs,         \* jobs 1 .. NJobs, in the order of their submission
  Nodes,
  Total,         \* per node: its MPS
  Prio, Mps,     \* per job: priority, MPS request (0 for a job without one)
  PerNode,       \* mps_per_node
  Parts, PartOf, \* the partitions 1 .. Parts of the loop, and the one of a job
  Gap,           \* priority_gap
  MinInterval,   \* min_interval_seconds
  Hour,          \* the sliding window
  MaxPerHour,    \* max_requeues_per_hour
  MaxTargets,    \* max_targets_per_decision
  MaxFaults      \* bound: requests that fail, nodes that drain, operator restarts

Jobs == 1 .. NJobs
States == {"new", "pending", "requeued", "over"}   \* of a job that does not run

ASSUME FragmentationAssumption ==
  /\ Nodes \cap States = {} /\ NJobs \in Nat /\ Total \in [Nodes -> Nat] /\ Prio \in [Jobs -> Nat] /\ Mps \in [Jobs -> Nat] /\ PerNode \in Nat \ {0}
  /\ Parts \in Nat \ {0} /\ PartOf \in [Jobs -> 1 .. Parts] /\ Gap \in Nat
  /\ MinInterval \in Nat /\ Hour \in Nat /\ MaxPerHour \in Nat \ {0} /\ MaxTargets \in Nat \ {0}
  /\ MaxFaults \in Nat

VARIABLES
  st,       \* per job: new, pending, requeued, over, or the node it runs on
  run,      \* the running jobs, the longest runtime first
  up,       \* the nodes that are not drained
  step,     \* where the thread is: sleep, jobs, nodes, decide, requeue
  part,     \* the partition it lists
  seen,     \* per job: its state when its partition was listed
  free,     \* per node: its free MPS when the nodes were listed
  victims,  \* the jobs the decision still has to requeue
  target,   \* blocked_job_ids of the last decision, 0 for none
  history,  \* ages of the past decisions
  made,     \* the ages of all decisions younger than an hour (not in the code)
  faults

cluster == <<st, run, up>>
thread  == <<step, part, seen, free, victims, target>>
fragmentation == <<cluster, thread, history, made, faults>>

On(n) == { j \in Jobs : st[j] = n }
Free(n) == IF n \in up THEN Total[n] - MapThenSumSet(LAMBDA j : Mps[j], On(n)) ELSE 0
Fits(j, n) == n \in up /\ Free(n) >= Mps[j]
Unseen == [j \in Jobs |-> "new"]

-----------------------------------------------------------------------------
(* The cluster *)

\* The runs that go on when job j stops.
Without(j) == RemoveFirst(run, j)

Submit(j) ==
  /\ st[j] = "new" /\ st' = [st EXCEPT ![j] = "pending"] /\ UNCHANGED <<run, up>>

\* slurmctld with sched/backfill: a job may start past one of higher priority.
Start(j, n) ==
  /\ st[j] = "pending" /\ Fits(j, n)
  /\ st' = [st EXCEPT ![j] = n] /\ run' = Append(run, j) /\ UNCHANGED up

End(j) ==
  /\ st[j] \in Nodes \cup {"pending"} /\ st' = [st EXCEPT ![j] = "over"]
  /\ run' = Without(j) /\ UNCHANGED up

\* A requeued job may not start before its begin time, well after the tick.
Eligible(j) ==
  /\ st[j] = "requeued" /\ step = "sleep" /\ st' = [st EXCEPT ![j] = "pending"]
  /\ UNCHANGED <<run, up>>

Drain(n) ==
  /\ n \in up /\ faults < MaxFaults /\ up' = up \ {n} /\ UNCHANGED <<st, run>>

Cluster ==
  /\ \/ \E j \in Jobs : \/ Submit(j) \/ End(j) \/ Eligible(j)
                        \/ \E n \in Nodes : Start(j, n)
     \/ \E n \in Nodes : n \notin up /\ up' = up \cup {n} /\ UNCHANGED <<st, run>>
  /\ UNCHANGED <<thread, history, made, faults>>

Fault == faults < MaxFaults /\ faults' = faults + 1

DrainNode == (\E n \in Nodes : Drain(n)) /\ Fault /\ UNCHANGED <<thread, history, made>>

\* The oldest decision comes first: those that left the window are a prefix.
Aged(ages) == [i \in DOMAIN ages |-> IF ages[i] > Hour THEN ages[i] ELSE ages[i] + 1]
Old(ages) == { i \in DOMAIN ages : ages[i] > Hour }
Young(ages) == SubSeq(ages, Cardinality(Old(ages)) + 1, Len(ages))

Tick ==
  /\ history' = Aged(history) /\ made' = Young(Aged(made))
  /\ UNCHANGED <<cluster, thread, faults>>

-----------------------------------------------------------------------------
(* _fragmentation_tick: the two reads *)

Sleep == step' = "sleep" /\ part' = 1 /\ seen' = Unseen /\ free' = << >> /\ victims' = << >>

TickBegins ==
  /\ step = "sleep" /\ step' = "jobs" /\ target' = 0
  /\ UNCHANGED <<cluster, part, seen, free, victims, history, made, faults>>

ListJobs ==
  /\ step = "jobs"
  /\ seen' = [j \in Jobs |-> IF PartOf[j] = part THEN st[j] ELSE seen[j]]
  /\ IF part = Parts THEN step' = "nodes" /\ UNCHANGED part ELSE part' = part + 1 /\ UNCHANGED step
  /\ UNCHANGED <<cluster, free, victims, target, history, made, faults>>

\* A node that is not available counts with 0.
ListNodes ==
  /\ step = "nodes" /\ step' = "decide"
  /\ free' = [n \in Nodes |-> Free(n)]
  /\ UNCHANGED <<cluster, part, seen, victims, target, history, made, faults>>

ReadFails ==
  /\ step \in {"jobs", "nodes"} /\ Fault /\ Sleep
  /\ UNCHANGED <<cluster, target, history, made>>

-----------------------------------------------------------------------------
(* FragmentationDetector.snapshot and RequeueDecider.decide *)

\* To the loop a job without an MPS request asks for a whole node.
Req(j) == IF Mps[j] = 0 THEN PerNode ELSE Mps[j]

Blocked == { j \in Jobs : seen[j] = "pending" /\ \A n \in Nodes : free[n] < Req(j) }

\* The head of the queue: priority, then submission.
Before(j, k) == Prio[j] > Prio[k] \/ (Prio[j] = Prio[k] /\ j < k)
Heads == { j \in Blocked : \A k \in Blocked \ {j} : Before(j, k) }     \* pending_blocked[0]
TheHead == CHOOSE j \in Heads : TRUE

CandidatesOfEqualPriority(j, n) ==   \* variant: a job of the same priority yields
  { v \in Jobs : seen[v] = n /\ Prio[j] >= Prio[v] + Gap }
Candidates(j, n) == { v \in Jobs : seen[v] = n /\ Prio[j] > Prio[v] + Gap }
Freed(S) == MapThenSumSet(Req, S)

Actionable == \E j \in Blocked, n \in Nodes : Candidates(j, n) # {}

TrimAtInterval == SelectSeq(history, LAMBDA a : a <= MinInterval)   \* mutant: a window that is too short
Trim == Young(history)
RateLimited(past) == \/ past # << >> /\ Last(past) < MinInterval
                     \/ Len(past) >= MaxPerHour

\* The node with the most to free for the head, its jobs with the largest request
\* first, up to what the target requests on the whole or MaxTargets jobs.
Longer(v, w) == \* the runtime order of the snapshot, by job id when both started since
  \/ v \in Range(run) /\ w \notin Range(run)
  \/ {v, w} \cap Range(run) = {} /\ v < w
  \/ \E i, k \in DOMAIN run : run[i] = v /\ run[k] = w /\ i < k
Preferred(v, w) ==
  \/ Req(v) > Req(w)
  \/ Req(v) = Req(w) /\ (Prio[v] < Prio[w] \/ (Prio[v] = Prio[w] /\ Longer(v, w)))
ByPreference(S) ==
  CHOOSE order \in SetToSeqs(S) :
    \A i, k \in DOMAIN order : i < k => Preferred(order[i], order[k])
EnoughPlusOne(order, k) ==   \* variant: one more than max_targets_per_decision
  Freed({ order[i] : i \in 1 .. k }) >= Req(TheHead) \/ k > MaxTargets
Enough(order, k) == Freed({ order[i] : i \in 1 .. k }) >= Req(TheHead) \/ k = MaxTargets
Greedy(order) ==
  LET stops == { k \in 1 .. Len(order) : Enough(order, k) } IN
  IF stops = {} THEN order ELSE SubSeq(order, 1, Min(stops))

BestNodes ==
  { n \in Nodes : \E h \in Heads : /\ Candidates(h, n) # {}
                                 /\ \A m \in Nodes : Freed(Candidates(h, m)) <= Freed(Candidates(h, n)) }

Decide ==
  /\ step = "decide" /\ Actionable /\ ~RateLimited(Trim)
  /\ \E n \in BestNodes : victims' = Greedy(ByPreference(Candidates(TheHead, n)))
  /\ target' = TheHead /\ history' = Append(Trim, 0) /\ made' = Append(made, 0)
  /\ step' = "requeue" /\ UNCHANGED <<cluster, part, seen, free, faults>>

\* no-fragmentation, rate-limited or no-candidates-for-head
Abstain ==
  /\ step = "decide"
  /\ ~Actionable \/ RateLimited(Trim) \/ BestNodes = {}
  /\ history' = (IF Actionable THEN Trim ELSE history)
  /\ Sleep /\ UNCHANGED <<cluster, target, made, faults>>

-----------------------------------------------------------------------------
(* The actuator: scontrol requeue, one victim after the other.  A job that  *)
(* is not running any more is refused; a failed call is an error entry.    *)

Requeued(v) ==
  IF st[v] \in Nodes
  THEN st' = [st EXCEPT ![v] = "requeued"] /\ run' = Without(v)
  ELSE UNCHANGED <<st, run>>

Requeue ==
  /\ step = "requeue" /\ victims # << >> /\ victims' = Tail(victims)
  /\ \/ Requeued(Head(victims)) /\ UNCHANGED faults
     \/ Fault /\ UNCHANGED <<st, run>>
  /\ UNCHANGED <<up, step, part, seen, free, target, history, made>>

Done ==
  /\ step = "requeue" /\ victims = << >> /\ Sleep
  /\ UNCHANGED <<cluster, target, history, made, faults>>

\* The history is in memory only.
Restart ==
  /\ Fault /\ Sleep /\ target' = 0 /\ history' = << >> /\ made' = << >>
  /\ UNCHANGED cluster

FragmentationInit ==
  /\ st = [j \in Jobs |-> "new"] /\ run = << >> /\ up = Nodes
  /\ step = "sleep" /\ part = 1 /\ seen = Unseen /\ free = << >> /\ victims = << >>
  /\ target = 0 /\ history = << >> /\ made = << >> /\ faults = 0

Loop == TickBegins \/ ListJobs \/ ListNodes \/ ReadFails \/ Decide \/ Abstain \/ Requeue \/ Done
FragmentationNext == Cluster \/ DrainNode \/ Tick \/ Loop \/ Restart
FragmentationSpec == FragmentationInit /\ [][FragmentationNext]_fragmentation

-----------------------------------------------------------------------------
(* Properties *)

\* No hour holds more than MaxPerHour decisions of one operator process, and two of
\* them are MinInterval apart, however its ticks and aborted reads fall.
RateCapHolds ==
  /\ Len(made) <= MaxPerHour
  /\ \A i \in 1 .. Len(made) - 1 : made[i] - made[i + 1] >= MinInterval

\* The cluster moves between the lists, the decision and its calls; still each call stops the
\* run that was listed, on the node that was chosen, of a job that yields to the target, and
\* the target was waiting and fitted nowhere (fragmentation.py, decide and FragmentationReconciler.reconcile).
RequeuesAreMeant ==
  step = "requeue" =>
    /\ target \in Blocked /\ Len(victims) <= MaxTargets /\ IsInjective(victims)
    /\ \E n \in Nodes : \A v \in Range(victims) :
         Prio[target] > Prio[v] + Gap /\ (st[v] \in Nodes => st[v] = n)

\* The job that every other one yields to.
Top == { j \in Jobs : \A k \in Jobs \ {j} : Prio[j] > Prio[k] + Gap }

\* A run is only cut short for a job it yields to, so that nothing stops a job of Top.
OnlyYieldingJobsStop ==
  [][\A v \in Jobs : st[v] \in Nodes /\ st'[v] = "requeued" =>
       target \in Blocked /\ Prio[target] > Prio[v] + Gap /\ v \notin Top]_fragmentation

============================================================================
