------------------------------ MODULE Simulator ------------------------------
(***************************************************************************)
(* The drivers of the simulated cluster: the discrete-event runner with    *)
(* its schedulers and latency model (src/sim/runner.py, latency.py), and   *)
(* the learning environment with its action mask, decision points and      *)
(* automatic reset (src/sim/gym_env.py, vec_env.py).                       *)
(***************************************************************************)
EXTENDS SimCluster

CONSTANTS
  Drivers,      \* of "fcfs", "backfill" (runner) and "joint", "job_only", "placement_only" (env)
  Submits,      \* the arrival times a trace may have
  Runtime,      \* nominal run time of each job
  Pool, Fixed,  \* latency: pool of each job; its class's latency, or NoClass
  NoClass, Warm, Cold, ColdAfter,
  Slowdown,     \* interference: extra time per job that shares a GPU
  OomDelay,     \* extra time when the RAM peaks of a node may pass its budget
  Modes,        \* co-location modes: {"pack"} or {"pack", "isolate"}
  TopK, MaxSteps

Runners == {"fcfs", "backfill"}

ASSUME SimulatorAssumption ==
  /\ Submits \subseteq [Jobs -> Nat] /\ Runtime \in [Jobs -> Nat \ {0}]
  /\ Fixed \in [Jobs -> Nat \cup {NoClass}] /\ {Warm, Cold, ColdAfter} \subseteq Nat
  /\ {Slowdown, OomDelay} \subseteq Nat
  /\ {TopK, MaxSteps} \subseteq Nat \ {0} /\ "pack" \in Modes
  /\ \A j \in Jobs : CanAllocate(EmptyCluster, j)

VARIABLES
  driver, submit,
  cluster, pending, events, seq, now,   \* a run, or an episode
  active, lastEnd,                      \* LatencyModel: running jobs and last end, per pool
  completed, steps,                     \* the environment's counters
  mask                                  \* the action mask its caller holds

latency  == <<active, lastEnd>>
counters == <<completed, steps>>
vars == <<driver, submit, cluster, pending, events, seq, now, latency, counters, mask>>

Never == -1
NoOp  == <<>>

-----------------------------------------------------------------------------
(* The event heap: (time, sequence number, kind, job).                       *)

Event(t, n, kind, j) == [t |-> t, seq |-> n, kind |-> kind, job |-> j]
Sooner(e, f) == e.t < f.t \/ (e.t = f.t /\ e.seq < f.seq)
Heads(E) == {e \in E : \A f \in E : ~Sooner(f, e)}

\* sorted(jobs, key=submit_ts) is stable.
Earlier(sub, i, j) == sub[i] < sub[j] \/ (sub[i] = sub[j] /\ i < j)
Arrivals(sub) ==
  {Event(sub[j], Cardinality({i \in Jobs : Earlier(sub, i, j)}) + 1, "submit", j) : j \in Jobs}

-----------------------------------------------------------------------------
(* runner.py                                                                 *)

(* order: FCFS goes by submission; the others compute priorities that depend *)
(* on age, size, fit and run time: here any order, first fits backfilled.    *)
Orders(queue) ==
  {order \in SetToSeqs(queue) :
     driver = "fcfs" => \A i, k \in DOMAIN order : i < k => Earlier(submit, order[i], order[k])}

Backfill == driver = "backfill"

\* at time t, where ends are the last ends of the pools
StartLatency(act, j, t, ends) ==
  IF Fixed[j] # NoClass THEN Fixed[j]
  ELSE IF act[Pool[j]] > 0 THEN Warm
  ELSE IF ends[Pool[j]] = Never THEN Cold
  ELSE IF t - ends[Pool[j]] >= ColdAfter THEN Cold ELSE Warm

(* try_dispatch, a walk over the ordered queue. d is what it has done so far. *)
Starts(d, j, plan, t, ends) ==
  [cluster |-> Allocate(d.cluster, j, plan),
   pending |-> d.pending \ {j},
   events  |-> d.events \cup
                 {Event(t + StartLatency(d.active, j, t, ends) + Runtime[j], d.seq, "end", j)},
   active  |-> [d.active EXCEPT ![Pool[j]] = @ + 1],
   seq     |-> d.seq + 1,
   blocked |-> FALSE]

\* mutant: FCFS goes on after a job that does not fit
ConsiderAll(d, j, t, ends) ==
  LET plans == Plan(d.cluster, j) IN
  IF plans = {} THEN d ELSE Starts(d, j, CHOOSE p \in plans : TRUE, t, ends)

Consider(d, j, t, ends) ==
  LET plans == IF d.blocked THEN {} ELSE Plan(d.cluster, j) IN
  IF plans = {} THEN [d EXCEPT !.blocked = @ \/ ~Backfill]
  ELSE Starts(d, j, CHOOSE p \in plans : TRUE, t, ends)

Dispatched(d, order, t, ends) ==
  LET walk[k \in 0 .. Len(order)] ==
        IF k = 0 THEN d ELSE Consider(walk[k - 1], order[k], t, ends)
  IN  walk[Len(order)]

Dispatch(c, queue, E, act, t, ends) ==
  \E order \in Orders(queue) :
    LET d == Dispatched([cluster |-> c, pending |-> queue, events |-> E, active |-> act,
                         seq |-> seq, blocked |-> FALSE], order, t, ends)
    IN  /\ cluster' = d.cluster /\ pending' = d.pending /\ events' = d.events
        /\ seq' = d.seq /\ active' = d.active

RunSubmit ==
  /\ driver \in Runners
  /\ \E e \in Heads(events) :
       /\ e.kind = "submit"
       /\ now' = e.t
       /\ Dispatch(cluster, pending \cup {e.job}, events \ {e}, active, e.t, lastEnd)
  /\ UNCHANGED <<driver, submit, lastEnd, counters, mask>>

RunEnd ==
  /\ driver \in Runners
  /\ \E e \in Heads(events) : LET pool == Pool[e.job] IN
       /\ e.kind = "end"
       /\ now' = e.t
       /\ lastEnd' = [lastEnd EXCEPT ![pool] = e.t]
       /\ Dispatch(Release(cluster, e.job), pending, events \ {e},
                   [active EXCEPT ![pool] = IF @ > 0 THEN @ - 1 ELSE 0],
                   e.t, [lastEnd EXCEPT ![pool] = e.t])
  /\ UNCHANGED <<driver, submit, counters, mask>>

-----------------------------------------------------------------------------
(* gym_env.py. An episode s is a record of the cluster, the pending jobs, the *)
(* events, the clock and the number of completed jobs.                        *)

(* _top_k_jobs: the k-th oldest of the queue, if the window has a k-th.      *)
Window(queue, sub, k) ==
  {j \in queue : k <= TopK /\ Cardinality({i \in queue : Earlier(sub, i, j)}) = k - 1}

(* action_mask: job i of the window on a GPU, ISOLATE only on an idle one. *)
Legal(s, sub) ==
  {a \in (1 .. TopK) \X Slots \X Modes :
     /\ \E j \in Window(s.pending, sub, a[1]) : CanAllocateOn(s.cluster, j, a[2])
     /\ a[3] = "isolate" => s.cluster.free[a[2]] = Mps}

(* _restrict_mask_for_ablation: the first placement of each job, or only the *)
(* placements of the job that the score scheduler puts first.                *)
FirstFits(legal) ==
  {a \in legal : a[3] = "pack" /\ \A b \in legal : b[1] = a[1] => ~Before(b[2], a[2])}
Masks(s, sub) ==
  LET legal == Legal(s, sub)
      heads == {a[1] : a \in legal}
  IN  IF driver = "job_only" THEN {FirstFits(legal) \cup {NoOp}}
      ELSE IF driver = "placement_only" /\ heads # {}
      THEN {{a \in legal : a[1] = head} \cup {NoOp} : head \in heads}
      ELSE {legal \cup {NoOp}}

(* One event: a submission, or _on_job_end. *)
Happen(s, e) ==
  [cluster   |-> IF e.kind = "end" THEN Release(s.cluster, e.job) ELSE s.cluster,
   pending   |-> IF e.kind = "submit" THEN s.pending \cup {e.job} ELSE s.pending,
   completed |-> IF e.kind = "end" THEN s.completed + 1 ELSE s.completed,
   events    |-> s.events \ {e},
   now       |-> e.t]

(* _advance_to_decision: events happen until some pending job fits. *)
\* mutant: MPS decide alone, as if every host had RAM
AtDecisionByMps(s) == \E j \in s.pending, t \in Slots : s.cluster.free[t] >= MpsReq[j]

AtDecision(s) == \E j \in s.pending : CanAllocate(s.cluster, j)
Onward(s) == IF AtDecision(s) THEN s ELSE Happen(s, CHOOSE e \in Heads(s.events) : TRUE)
Advance(s) ==
  LET n == Cardinality(s.events)
      walk[k \in 0 .. n] == IF k = 0 THEN s ELSE Onward(walk[k - 1])
  IN  walk[n]

Fresh(sub) ==
  Advance([cluster |-> EmptyCluster, pending |-> {}, events |-> Arrivals(sub),
           now |-> 0, completed |-> 0])

(* _co_residents and _realized_runtime, with the job already placed. The OOM *)
(* model draws the peaks: the recovery time may or may not be added.         *)
CoResidents(c, j) == {k \in (DOMAIN c.active) \ {j} : c.active[k] \cap c.active[j] # {}}
Realized(c, j) ==
  {Runtime[j] + Slowdown * Cardinality(CoResidents(c, j)) + oom : oom \in {0, OomDelay}}

(* The states after the action itself: the placement, or one event. *)
Placed(s, j, plan) ==
  LET c == Allocate(s.cluster, j, plan) IN
  {[cluster |-> c, pending |-> s.pending \ {j}, completed |-> s.completed, now |-> s.now,
    events |-> s.events \cup {Event(s.now + r, seq, "end", j)}] : r \in Realized(c, j)}

Plans(s, a) ==
  IF a = NoOp THEN {}
  ELSE UNION {{<<j, plan>> : plan \in PlanOn(s.cluster, j, a[2])} :
              j \in Window(s.pending, submit, a[1])}

Taken(s, a) ==
  IF Plans(s, a) # {} THEN UNION {Placed(s, p[1], p[2]) : p \in Plans(s, a)}
  ELSE IF s.events # {} THEN {Happen(s, e) : e \in Heads(s.events)}
  ELSE {s}

Episode == [cluster |-> cluster, pending |-> pending, events |-> events,
            now |-> now, completed |-> completed]

\* mutant: the caller keeps the mask of before the step
ContinueStale(s, sub) ==
  /\ cluster' = s.cluster /\ pending' = s.pending /\ events' = s.events
  /\ now' = s.now /\ completed' = s.completed
  /\ submit' = sub
  /\ mask' \in Masks(Episode, submit)

Continue(s, sub) ==
  /\ cluster' = s.cluster /\ pending' = s.pending /\ events' = s.events
  /\ now' = s.now /\ completed' = s.completed
  /\ submit' = sub
  /\ mask' \in Masks(s, sub)

Over(s) == (s.completed >= Cardinality(Jobs) /\ s.events = {}) \/ steps + 1 >= MaxSteps

(* step, and _step_one's reset when the episode is over. *)
EnvStep(a) ==
  /\ driver \notin Runners /\ a \in mask
  /\ \E s \in {Advance(t) : t \in Taken(Episode, a)} :
       \/ /\ ~Over(s)
          /\ Continue(s, submit)
          /\ seq' = IF Plans(Episode, a) # {} THEN seq + 1 ELSE seq
          /\ steps' = steps + 1
       \/ /\ Over(s)
          /\ \E sub \in Submits : Continue(Fresh(sub), sub)
          /\ seq' = Cardinality(Jobs) + 1
          /\ steps' = 0
  /\ UNCHANGED <<driver, latency>>

-----------------------------------------------------------------------------
Init ==
  /\ driver \in Drivers /\ submit \in Submits
  /\ seq = Cardinality(Jobs) + 1
  /\ active = [p \in Range(Pool) |-> 0] /\ lastEnd = [p \in Range(Pool) |-> Never]
  /\ steps = 0
  /\ LET s == IF driver \in Runners
              THEN [cluster |-> EmptyCluster, pending |-> {}, events |-> Arrivals(submit),
                    now |-> 0, completed |-> 0]
              ELSE Fresh(submit)
     IN  /\ cluster = s.cluster /\ pending = s.pending /\ events = s.events
         /\ now = s.now /\ completed = s.completed
         /\ mask \in IF driver \in Runners THEN {{}} ELSE Masks(s, submit)

Next == RunSubmit \/ RunEnd \/ \E a \in mask : EnvStep(a)

Spec == Init /\ [][Next]_vars

-----------------------------------------------------------------------------
(* Properties.                                                               *)

(* What is free and what the allocations hold make up the cluster, on every  *)
(* GPU and, for RAM, on every host; no more RAM is charged than a host has   *)
(* times ram_overcommit: a job that spans nodes is charged once on each and  *)
(* released on each (cluster.py, _reserve_ram and release). The units that   *)
(* jobs hold are counted one by one.                                         *)
Units(S, amount) == UNION {{j} \X (1 .. amount[j]) : j \in S}
Shares == [j \in Jobs |-> Share(j)]
Holders(c, s) == {j \in DOMAIN c.active : s \in c.active[j]}
Guests(c, n)  == {j \in DOMAIN c.active : n \in Hosts(c.active[j])}
Balanced(c) ==
  /\ \A s \in Slots : c.free[s] >= 0 /\ c.free[s] + Cardinality(Units(Holders(c, s), Shares)) = Mps
  /\ \A n \in Nodes : c.used[n] <= Budget(n) /\ c.used[n] = Cardinality(Units(Guests(c, n), RamReq))
AccountsBalance == Balanced(cluster)

(* A run does not stop with jobs that wait or hold GPUs, and the environment *)
(* never asks for a decision where only NO_OP is possible, unless the window *)
(* hides the job that fits: can_allocate, which ends _advance_to_decision,   *)
(* and can_allocate_on, which makes the mask, agree.                         *)
NobodyStranded ==
  IF driver \in Runners
  THEN events = {} => (pending = {} /\ DOMAIN cluster.active = {})
  ELSE mask = {NoOp} => (Cardinality(pending) > TopK /\ events # {})

(* The mask the caller holds is the mask of the state that its action meets, *)
(* also after the reset inside _step_one: every action in it places its job. *)
MaskIsSound ==
  driver \notin Runners =>
    \A a \in mask \ {NoOp} :
      \E j \in Window(pending, submit, a[1]) : PlanOn(cluster, j, a[2]) # {}

(* try_dispatch leaves nothing undone and FCFS lets nobody pass: with        *)
(* backfill no job that waits fits, without it the first one does not fit    *)
(* and everybody who starts was submitted before everybody who waits on.     *)
Started == (DOMAIN cluster'.active) \ DOMAIN cluster.active
DispatchRespectsOrder ==
  [][(driver \in Runners =>
       IF Backfill THEN \A j \in pending' : ~CanAllocate(cluster', j)
       ELSE \A j \in pending' :
              /\ (\A i \in pending' \ {j} : Earlier(submit, j, i)) => ~CanAllocate(cluster', j)
              /\ \A i \in Started : Earlier(submit, i, j))]_vars
=============================================================================
