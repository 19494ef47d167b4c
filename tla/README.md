# A TLA+ model of Kelpflux

Kelpflux runs Slurm on Kubernetes: an elastic operator scales worker pools, a reinforcement
learning scheduler ranks and places jobs, and a simulator trains it. This directory holds TLA+
models of its control logic, the TLC configurations that check them, and TLAPS proofs. Paths
are relative to the repository's root.

## 1. Inventory

| Part | Source | State it keeps | Operations | Hard behaviours |
|---|---|---|---|---|
| Scaling policy | `operator/policy.py` | none | `evaluate` | bounds, floors, empty observations |
| Elastic pool | `operator/reconciler.py`, `scale_actions.py`, `k8s.py`, `collector.py`, restore in `app.py` | markers, cooldowns, draining nodes, annotations | one pass: collect, complete or roll back a scale-up, decide, scale up, drain, shrink; restore on start | jobs and pods move during a pass, calls fail and read as zero, restarts between any two calls, timeouts |
| State collection | `operator/collector.py`, `slurm.py`, `k8s.py`, `app.py` | how Slurm is asked, next attempt | list jobs, count busy nodes, fall back, restore | jobs and nodes move during a collection, calls fail, the way of asking changes |
| Event loop | `operator/app.py`, `watchers.py` | `_PoolEventQueue`, `_slurm_state_cache`, circuit breaker | watches, Slurm poll, consumer | lock released inside `put` and `get`, lost events, failed collects |
| Fragmentation | `operator/fragmentation.py`, `fragmentation_loop.py` | history of requeues | list, detect, choose victims, requeue | stale lists, victims that come back, rate limits |
| Job spans | `operator/reconciler.py`, `otel.py` | two tables of open spans | open, hand over, close | passes of several pools share the tables, requeues |
| Reorder daemon | `services/rl_scheduler/reorder_daemon.py` | plan and what it found | read, rank, re-read, write, verify, roll back, reset | users move under the plan, kills between writes, garbled writes |
| Placement controller | `services/rl_scheduler/placement_controller.py` | none between rounds | read jobs, read nodes, `/act`, pin and release | decisions are indices into an older list |
| Decision service | `services/rl_scheduler/serve.py` | model, snapshot, shadow mode | decide, reload, shadow, snapshot | state is replaced during a decision |
| Snapshot agent | `services/rl_scheduler/snapshot_agent.py` | none | read jobs, read nodes, push | stale and late snapshots |
| Job submit plugin | `chart/lua` | none | predict, decide, pin, boost | slurmctld waits for it |
| Runtime predictor | `services/runtime_predictor` | loaded model, model file | predict, retrain, load | reload during a prediction |
| Simulator | `sim/` | cluster, event heap, latencies | submit, dispatch, place, finish, reset | event order, masks, several hosts and resources |
| Learners | `services/rl_scheduler/sim_train.py`, `rlpd_finetune.py` | ring, sum tree, n-step windows, environments | collect, store, sample, update priorities, load logs | episode ends, wrap-around, parallel environments |
| Live daemon | `services/rl_scheduler/live_daemon.py` | observations of waiting jobs, jobs in flight | poll, log | failed polls, requeues, windows |
| Dashboard | `gui/server.py`, `gui/app.js` | broker version, signature; poll state of the page | watch, stream, collect, poll | sources read one after the other, events during a poll |
| Experiment drivers | `eval/scripts/live_ab_heavytail.py`, `scontrol_ab.py` | submitted jobs | submit, wait, rank, collect | failed commands that read as done |

How the parts interact. Watch threads and the Slurm poll put pool names into the queue; the consumer
takes one, collects all pools and runs a reconcile pass of the one it took. The pass reads Slurm and
patches the worker StatefulSet; Kubernetes then starts and removes pods, and slurmctld starts jobs
on the nodes that are up and not drained. On a submission slurmctld calls the plugin, which asks the
predictor for a score and a time limit and the decision service for a node; the service decides on
the snapshot that the agent pushed last. The daemons and drivers write job priorities, node lists
and holds through Slurm and never talk to the operator. The live daemon's log and the simulator's
episodes feed the learners, whose checkpoints the service loads.

What makes each part correct:

* **Pool**: replicas within bounds; no running job lost to a scale action, if cooldown and
  provisioning timeout keep drains and scale-ups apart, and else only on a node that was resumed in
  the middle of its drain; nodes go out of service unnoticed in three known ways only; a scale-up in
  flight and a recorded cooldown survive a restart; an idle pool shrinks, demand is served.
* **State collection**: a job that stays is counted for one pool at most, the one it runs in as far
  as node names tell; no pool looks idle under it.
* **Event loop**: no report is lost in the queue; every change of a pool is looked at.
* **Fragmentation**: the limits on requeues hold, and a requeue stops only a run it was meant for.
* **Reorder**: ranks follow the policy's order, a failed cycle leaves nothing behind, and ranks of a
  daemon that died are reset; only a requeued job brings a rank back.
* **Held placement**: a job goes to a node its decision meant and that may run it; drained means
  drained; no job is left held.
* **Submission**: a pin stands for a node that had room in the snapshot; models and their inputs
  never mix; slurmctld is never held up for good.
* **Simulator and learners**: resources balance within RAM times `ram_overcommit`; offered actions
  are possible; a stored transition is a stretch of one episode; rows of the log tell what happened;
  worker processes do not change the environments' behaviour.
* **Dashboard and spans**: no job is missing in an answer while squeue or the accounting of the day
  has it, no change is swallowed, spans close.
* **Experiment drivers**: every job that completed has its record, unless a query failed.

## 2. Modules

| Module | Models | Composition |
|---|---|---|
| `ScalingPolicy` | `CheckpointAwareQueuePolicy`, as operators | used by `ElasticPool` |
| `ElasticPool` | one pool and its reconcile pass | |
| `Collector` | the operator's reading of Slurm, through slurmrestd or commands | part of `Observability` |
| `EventLoop` | watch threads, queue, consumer | implements `ReconcileDuty` |
| `ReconcileDuty` | what the event loop promises | abstract |
| `Fragmentation` | the requeue loop with slurmctld | |
| `ReorderDaemon` | the daemon with slurmctld and users | |
| `HeldPlacement` | harness, controller, Slurm, users | |
| `DecisionService` | `serve.py` | instance in `SubmitPath` |
| `RuntimePredictor` | `app.py`, `train.py` | instance in `SubmitPath` |
| `SubmitPath` | plugin, agent, slurmctld and nodes around both services | |
| `SimCluster` | allocation bookkeeping, as operators on a record | used by `Simulator` |
| `Simulator` | runner, schedulers, latency; learning environment with mask and reset | |
| `Episodes` | what an environment's episode is to its caller | used by both vector modules |
| `SyncVectorEnv` | environments stepped one after the other | abstract |
| `AsyncVectorEnv` | worker processes behind pipes | implements `SyncVectorEnv` |
| `Replay` | ring buffer, sum tree, n-step collapse | used by `Trainer` |
| `Trainer` | the collection loops of `sim_train.py` and the rollouts | part of `Learning` |
| `LiveDaemon` | the observer of the live queue | part of `Learning` |
| `Learning` | trainer, live daemon, fine-tuning's loading, vector environments | composition |
| `Gui`, `Spans`, `Experiment` | dashboard, job spans, driver `scontrol_ab.py` | parts of `Observability` |
| `Observability` | `Collector` and these three, one per behaviour | composition |
| `MC*` | instances for TLC | |
| `*Proofs` | theorems, section 4 | |

Conventions. A handler is cut into steps where another actor can move and it matters: at
requests to Slurm, Kubernetes or a service, and where a lock is released; where requests share a
step, the module says why. `pc` or a stage field names the
next step. A failing request is a step of its own with the effect that its `except` clause, or
the shell's `|| true`, gives it; a budget `MaxFaults` bounds how many of them a behaviour has,
never which. Operators and actions called "Variant" or "mutant" in a comment are not part of
any specification: each is a plausible bug that the property of its run is known to catch.
Variables marked "history" are not in the code; they remember what a property needs.

### ElasticPool

| `pc` | Step | Code |
|---|---|---|
| `idle` | `ListJobs` | `collector._jobs_by_pool_and_state` |
| `listed` | `ReadPool` | `get_replicas`, `get_busy_nodes` |
| `observed` | `StillProvisioning`, `Provisioned`, `RollBack`, `RollBackRefused` | `_process_pool`, lines 52-122 |
| `saveBack` | `SaveRollBack` | the three annotations after a rollback |
| `decide` | `Keep`, `BeginScaleUp`, `BeginDrain` | policy, gate, pause, cooldown; first half of each action |
| `raise`, `saveUp` | `Raise`, `RaiseRefused`, `SaveScaleUp` | second half of `_do_scale_up` |
| `drained`, `shrink`, `saveDown` | `CheckDrained`, `Shrink`, `ShrinkRefused`, `SaveScaleDown` | second half of `_do_scale_down` |
| `down` | `Restart` | `OperatorApp.__init__` |

A step is a group of API calls. Jobs and pods that move within a group could as well move before
or after it. A process that ends within a group leaves it half done, so there are two kinds of
crash: `Crash` between two steps, and `CrashAmid` between two calls of one step, of which some
were made (`ProvisionedHalf`, `RollBackHalf`, `SaveHalf`, `UndrainHalf`, `DrainHalf`, `KillHalf`,
`ShrinkHalf`).

`replicas`, `up`, `node`, `busy` are the StatefulSet, its Ready pods, the Slurm nodes and their
jobs; `waiting` and `blocked` are the pending jobs, the latter with `Reason=Resources`; `saved`
is the annotations; `prov`, `since`, `retry`, `draining`, `drainAge` are the operator's memory.
Timestamps are kept as ages, cut at `Horizon`, which no comparison in the code reaches beyond. A
pass takes less than a tick, so its several calls of `time.time()` are one. `grown` and `shrunk`
are history: the real age of the last scale-up, and of the last scale-down that reached its
annotation, which no restart forgets. A job
occupies one node and a node runs one job: the code only asks whether a node has work. A
StatefulSet that cannot be read has 0 replicas, a query without answer reads 0, a list of jobs is
empty, a command has no effect, a patch raises and ends the pass. Unreadable StatefulSets
(`"kubeRead"`) occur in no run: with them replicas leave their bounds (section 5); theorems that
hold in spite of them do not exclude them.

### Collector

A collection is `Begin`, one `AskJobs` per partition, one `AskNodes` per pool, `HandOver`; `Raise`
gives it up when slurmrestd does not answer. `mode` and `hush` are `_rest` and `_rest_retry_at`:
`Boot` chooses, `Restore` asks again. `Route` is `_classify_job`, `Fits` is
`_tres_per_node_fits`. Readings are sets of jobs instead of counts, so that a property can say which job
was counted where. `steady` and `doubted` are history: the jobs that have not moved since the
collection began, and the pools whose readings a failed or short-sighted command made. The name
relations that `_classify_job` and `get_busy_nodes` use are constants (`Prefixed`, `Dashed`): nodes
of one pool may begin with another's name, and then `Route` goes wrong as the code does. What a
job is due to (`Wanted`, `OfPart`, `Mistaken`) is said without `Route`.
That slurmrestd is asked again after an outage is in the model, as a step that may be taken; no
run asks for it.

### EventLoop

`Mark` and `Enqueue` are the two halves of `_PoolEventQueue.put`, `Get` and `Discard` those of
`get`: the lock is not held across the inner queue. `changed` is what the loop is about, the
pools that changed since a collect looked at them for a reconcile. `unseen` is what a watch
still has to deliver, `differs` what the Slurm poll has not put into its cache. `TimeOut` may
fire whenever the inner queue is empty; that it takes `reconcile_period_seconds` of silence is
not used. Events of one pool waiting in one watch are one event. `ReportedAs` is the pool that a
watch puts an event for: the pods' watch takes the first pool whose name the pod's name begins
with (`watchers.py:67-70`), which may be another one.

### Fragmentation, ReorderDaemon, HeldPlacement

`Fragmentation`: `ListJobs` once per partition, `ListNodes`, `Decide` or `Abstain`, then
`Requeue` one victim after the other. `seen` is per partition as old as its own request. The
sliding hour is a sequence of ages (`Trim` is `_trim_history`); `made` is its history twin that
nobody trims early. The victims are chosen as the code does, by preference, until their MPS
suffice or `MaxTargets` are taken. slurmctld backfills: `Start` takes any pending job that fits.

`ReorderDaemon`: a cycle is `ReadJobs`, `ReadNodes`, `RankPending` (any order in which the policy
may place jobs of the window, then the rest by submission), `CompareJobs`, `CompareNodes`, one
`SetPriority` per job, `Verify`; `FailCycle` leads to `Restore`. A reset (`ResetRead`, `ResetOne`,
`ResetVerify`) runs at the start, after a failure and at the end. A priority is 0 for a held job,
`Normal` for what Slurm computes, in `Band` for a rank; `Garbles` lets Slurm store 0 for a rank.
Users submit, hold, release, move and requeue; a job that is requeued may keep the priority it ran
with, and `back` is history: those that did, until the daemon ranks or resets them.

`HeldPlacement`: the harness submits with retries (a lost reply makes a second Slurm job of the
same name) and polls until the queue was empty `Confirm` times; the controller reads held jobs,
reads nodes, asks `/act`, pins and releases. The answer is an index into the list the request
was made of, after `trim_nodes_to_model_topology`. `Disturb` is what users and nodes do.

### SubmitPath

One submission at a time, because slurmctld calls the plugin under its job lock. A submission is a
chain of calls (`NextCall`): a prediction for the score, another for the time limit, a decision;
`Deployments` says which of them a deployment makes and which checkpoint it serves. `DecisionService`
has a request in steps (`pc` in `req`): the snapshot is read, the dimensions are compared with the
served checkpoint, the checkpoint selects, the answer is mapped back; reloads, switches of the
shadow mode and snapshots come in between. A snapshot is on the `wire` between the agent's reads
and its arrival. `RuntimePredictor` keeps the file and the loaded model apart, with the lock of
the holder. `GiveUp` is curl's time limit. Networks are a choice among the actions the mask
allows; low value and high entropy are a choice.

### Simulator

`SimCluster` holds what `cluster.py` does as operators on a record `free, used, active`: per-GPU MPS,
host RAM times `ram_overcommit` (`Budget`, in percent), plans over one or several hosts. All five
drivers get the same RAM and factor; `runner.py` itself builds a cluster whose RAM has no end, a
special case. `Simulator` runs either the event heap of
`runner.py` with FCFS or backfill and the latency model, or `gym_env.py`'s environment with its
window, mask, co-location modes and the ablations `job_only` and `placement_only`, including the
reset that `vec_env._step_one` does before its caller sees the next state. A plan is a set of GPUs
(`Fill` takes those that have fewer than `GpuCount` before them), the queue is a set too, because
the code keeps it in order of submission, which `Earlier` recovers. Walks over a list of jobs or
over the events are recursive functions (`Dispatched`, `Advance`). What jobs hold is counted unit by
unit (`Units`), so that free slots and allocations can be added up without a sum.

### Learning

Numbers are left out: an observation is the position (environment, episode, step) it was made at, a
reward is that position, a discount is an exponent. What can go wrong is then visible: a return that
crosses an episode is a list of positions that do not follow each other. `Replay` is the ring with
its masks and the sum tree over it: `Filled` stores one transition after the other, `Fitting` are
the rows that fit into what is left. A transition without a next mask has `NoMask`. `LiveDaemon`
keeps, per waiting job, the window it last waited in and logs a row when the job is no longer
listed. `AsyncVectorEnv` has one queue per direction and worker.

### Observability

`Gui` has the watcher's loop, one event stream, one page and one poll, whose sources are read in the
code's order (`Reads`). Slurm has two sources here: a job that ends leaves squeue at once (`End`),
its terminal row is stored later (`Record`) and passes out of the day that sacct is asked for
(`Age`); `Rows` is what sacct prints, of which the newest `HistoryLimit` are kept. `Spans` counts
the open spans per job, so that an overwritten table entry shows as a leak. `Experiment` runs one
arm: a dry run with the policy as a choice, the submissions, the ranking loop and the final wait.
Jobs end completed or failed, a waiting one by being cancelled; only the completed are collected, as
in `collect_job_records`.

## 3. Runs

Every run lists its bounds in its `.cfg`.

| Run | Bounds | What it shows |
|---|---|---|
| `ElasticPool_crash` | 1 to 3 nodes, one restart, `scontrol` without effect | bounds, markers and the cooldown after a scale-up, across a restart between any two calls |
| `ElasticPool_lossy` | up to 2 nodes, two restarts, lost pods, empty job lists, `SafeSettings` | that scale actions spare jobs, and the invariant behind it |
| `ElasticPool_faults` | up to 2 nodes, provisioning timeout above the cooldown as in the chart, two restarts, lost pods, empty job lists, refused patches | cooldown after a recorded scale-down; the only way a scale action takes a job; the only ways nodes are forgotten |
| `ElasticPool_live` | up to 3 nodes, no faults, jobs end | an idle pool shrinks, demand is served |
| `EventLoop_duty` | two pools, a watch that names them right and one that takes one for the other, failed collects, broken watches | the queue's bookkeeping, `ReconcileDuty`, and that every change is looked at |
| `ReorderDaemon` | two jobs, one user edit or requeue, two failed requests, one kill, garbled ranks | reset, order, rollback and cleanup |
| `HeldPlacement` | two jobs, three nodes of which the model knows two, one failed request, two disturbances | drained, pins, no job left held |
| `Fragmentation` | three jobs in two partitions, two nodes, two faults, backfill | both rate limits; requeues stop what they were meant for |
| `SubmitPath` | two jobs, two nodes, two checkpoints, two models; predictions with two faults, a decision with one, all calls without | pins, shapes, models, progress |
| `Simulator` | four jobs, two nodes of two GPUs, RAM charged up to 200 %, five drivers, episodes of 12 steps | balance, no stranding, masks, dispatch order |
| `Learning` | ring of 3, two environments, two-step returns, nine steps; two live jobs, two requeues or failed polls | memory, rows, worker processes |
| `Observability` | two jobs, one of them in the queue before the server starts, one unusual event; three traced jobs, one requeue; three-job experiment, two troubles; two pools, one the prefix of the other, a shared partition, two Slurm jobs | dashboard, spans, driver; counts of jobs that stay, no pool idle under a job |

Why the bounds suffice. *Pool*: every race in a pass is between the operator and one or two nodes,
one that stays and one that goes; three nodes are needed only where a scale-up follows another above
a minimum of one. Timeouts are compared with a tick count, so the smallest values that order
cooldown, timeout and pause are enough; a pass only asks whether the queue is empty. Two orders
occur: a timeout below the cooldown, which keeps a scale-down out of a scale-up in flight
(`SafeSettings`), and one above it as in the chart (300 s and 60 s), which does not. *Collection*:
two pools are the least that can be taken for each other, and two jobs tell one that moves from one
that stays. *Event loop*: two pools are the least that can starve each other; the breaker's counter
only matters through being zero. *Fragmentation*: three jobs are a head, a victim and one without an
MPS request; two partitions make the lists differ in age. *Reorder*: order needs two jobs, `TopK =
2` and one node fill the window. *Held placement*: one node more than the checkpoint knows makes
trimming matter, and `TopK = 1` with two jobs leaves one outside the window. *Submission*: two nodes
of different size tell a wrong index, two shapes a wrong checkpoint; the smaller one is the
checkpoint whose answers go wrong after a lost node. A snapshot's age only matters as fresh or
stale, so `TTL = 0` will do. The two services share no state but the plugin's chain of calls, so the
run with all of the calls needs no faults of its own. *Simulator*: a three-GPU job spans nodes of
two GPUs, RAM is scarce on one of them, and four jobs with `TopK = 2` leave some outside the window.
*Learning*: nine steps go round a ring of three and cross episode ends. *Dashboard*: two jobs tell
one that ends during a poll from one that fills the history. Runs without deadlock checking stop in
states where the modelled work is done or a bound is used up.

### Fairness

Pool: the consumer is one thread that always gets to its next statement, and every pool gets
passes again and again (this is what `EventLoop` is about). `Tick` is strongly fair because it is
only enabled between passes. `PodReady` and `Start` are the promises of Kubernetes and of
slurmctld for pods that can start and jobs that fit; `Finish` is fair only where a property is
about jobs that end. Event loop: every thread is weakly fair; an event of a watch that names pools
right is delivered unless the watch breaks, and in `WatchedSpec` such a watch starts over again
and again, after 300 s or two seconds after a break; nothing is asked of a watch that takes one
pool for another. Reorder: the Deployment restarts the container, and a reset that was begun goes
on (failures are bounded). Held placement: both programs go on, running jobs end, drained nodes
come back, slurmctld starts a job that fits again and again, and the policy is eager, it places a
job when one fits; an always idle policy would leave every job held. Submission: only curl's time
limit. The other runs claim no progress and assume no fairness. Nothing is assumed of users.

## 4. Proofs

TLAPS proves, for every value of the constants that the modules' ASSUMEs allow:

`ElasticPoolProofs`
* `PolicyKeepsDirection`: `PolicyIsSteady`, the policy alone: under a load that stays the pool never
  turns around, and it rests at its maximum while jobs lack resources, at its busy nodes or
  minimum when nothing waits or runs. Any observation counts, also replicas outside the bounds.
* `TypeCorrect`: `TypeOK`, whichever calls fail. The policy enters by `EvaluateTarget`, which
  bounds its decision and ties the action to its direction.
* `ScalingSparesJobs`: `OnlyResumedNodesLoseJobs`. A scale-up removes no pod with a job, and a
  scale-down only one whose node was in the drain and has been resumed, which a scale-up that
  completes does (section 5). The strengthening: a pass acts on the replicas that are there
  (`ActingInv`; right after a rollback it does not, but then cooldown and pause keep it from
  acting), and a node of the drain takes no job unless it is resumed (`NodesInv`). It needs
  StatefulSets that can be read, Slurm commands that work, and a cooldown and a pause that are not
  empty (`RealPauses`); crashes, empty job lists, refused patches and lost pods are allowed, and
  any timeouts, the chart's among them.
* `FewForgetNodes`: `OnlyTheseForget`, under the same hypotheses and from the same invariant. What
  is asked for and takes no job without a remembered drain was left so by a restart, a rollback or
  a scale-down that drops drains. An empty list of jobs leads there only by
  way of such a scale-down.
* `MarkerBeforeRaise`: replicas are raised only with the marker on the StatefulSet. No
  assumption on settings, faults or crashes.
* `BoundsAreKept`: replicas stay within Min and Max if the StatefulSet can be read. The
  strengthening bounds the ends of both markers and what a pass has observed and decided.
* `PodsStayCovered`: `OnlyRollBacksUncover`. A pod that is not Ready loses its marker only by a
  rollback that puts back replicas which a scale-down took meanwhile (`CoverInv` relates the marker in
  memory, the one on the StatefulSet and the replicas at each step of a pass and of a restart). It
  needs calls to Kubernetes that take effect and no lost pods. In the run
  `ElasticPool_crash` no such rollback occurs, and `UnreadyPodsHaveMarker` holds without exception.
* `ScaleDownCoolsDown`: `CooldownAfterScaleDown`, with any number of restarts, between any two calls,
  and refused writes, if the StatefulSet can be read. The cooldown counts from a scale-down whose
  annotation was written; that a crash before it loses the cooldown is in section 5.
* `ScaleUpCoolsDown`: `CooldownAfterScaleUp`, if Kubernetes answers and there is one restart at most;
  a second one loses it. Both invariants tie the real ages `grown` and `shrunk` to what memory,
  annotations and markers still know of them.

`OperatorProofs`
* `QueueKeepsReports`: `QueueMatchesPending`, with the types and that the consumer holds one
  pool between the two steps of `get` (`LoopInv`).
* `LoopKeepsDuty`: every step maps to a step of `ReconcileDuty` or a stutter, from the same
  invariant: `DutyKept`.
* `OnlyFaultsLoseChanges`: `OnlyFaultsOverlook`. A change that nothing carries to a reconcile any more
  (`OnItsWay`: unseen by its watch, differing for the poll, with a thread, in the queue, in the
  consumer's hand) was lost in a watch that broke or put the event for another pool, or a collect
  that failed. No step of the queue or of its deduplication loses one.
* `RequeuesStopWhatWasListed`: `RequeuesAreMeant`. What `scontrol requeue` is asked to stop is a job
  that was listed as running, on the node that was chosen, and that yields by more than the gap
  to a job that was listed as pending and fitted nowhere. The code's choice of victims enters as
  an order that exists: the number of jobs that precede a job sorts any finite set by preference
  (`PreferenceExists`).
* `OnlyYieldingJobsAreStopped`: `OnlyYieldingJobsStop`, an action property, from the same invariant:
  the loop never stops the job that all others yield to, whatever starts and ends between its
  calls.
* `RateCapIsKept`: `RateCapHolds`. `HistoryInv`: the code's history is what is young enough in its
  untrimmed twin `made`, in order (`made` is sorted by age), so that trimming early or late makes no
  difference to the count.

`ReorderDaemonProofs`, for any number of jobs, nodes, edits, requeues, faults and kills
* `CleanResetsHold`: `ResetClearsBand`. While a reset is in progress it knows of every rank in the
  queue (`ResetInv`), for only the daemon makes ranks, and only a requeue brings one back (`back`).
  A failed reset does not spoil a clean one:
  what a cycle found while the queue was known to be clean has no ranks (`FoundInv`), so rolling
  back cannot bring one back.
* `RanksFollowThePolicy`: `RankedInPolicyOrder`, since after a cycle that verified its writes every
  rank is the one of its job's place in the plan (`PlanInv`), but for jobs requeued since.
* `RollBacksRestore`: `RollBackRestores`. What the rollback need not write any more is as it was
  found, or as Slurm or a user made it since (`RestoreInv`), but for jobs requeued meanwhile.

`HeldPlacementProofs`
* `DrainIsReal`: `DrainedMeansOver`. The invariant: once submission is over nothing new comes,
  and a non-zero count of empty answers means that no job was live at the last of them.
* `PinsStaySound`: `PinsAreSound`. The invariant types the choice: an index into the list of the
  view it was made with, of a job that was submitted and whose pin allows that entry.
* `StreamReachesSlurm`: `StreamIsSubmitted`. `CountInv` counts the Slurm jobs per job of the stream:
  each attempt takes one number at most, and each attempt after the first has cost a fault. So
  the retries leave nothing out unless every attempt failed, and what is there twice was paid for
  by a lost reply. It also shows that the numbers of `Ids` suffice (`NumbersSuffice`).

`SubmitPathProofs`
* `DecisionsFitTheModel`: after the comparison of dimensions, the request has the shape of the
  checkpoint that is served now, because a reload only takes one of the same shape.
* `PredictionsFitTheModel`: while a prediction is under way the lock is its own, so that
  booster and columns belong to one loaded model.
* `PinsHaveRoom`: `PinHadRoom`, if the plugin's node names are the cluster's in its order; for
  checkpoints of any shape. `RoomInv` follows the snapshot from the agent's reads over the wire to
  the decision: the pin is the name at the place of a node that had room in that snapshot. If the
  checkpoint is for all nodes (`ForAllNodes`), a snapshot of its shape lists them all
  (`WholeCluster`), so the pin is that node's own name.
* `SubmissionsHaveOneCall`: `OneCallInFlight`. Until slurmctld gets the job, the plugin has exactly one
  call open, at one of the two services, for this job; an answer that comes after curl's time
  limit belongs to no submission. The steps of both services are shown to keep the calls of the
  other (`ServicesKeepCalls`).

`LearningProofs`, all for `Learning`'s specification
* `PipesStayInStep`: between two calls every pipe is empty; during a call each worker has its
  command or its reply waiting.
* `WorkersImplementSync`: the worker processes implement `SyncVectorEnv` under the mapping that
  shows a call's result when its last reply is received.
* `LogTellsWhatHappened`: `RowsTellWhatHappened`. `SlurmInv` says what the queue went through,
  `DaemonInv` that the window the daemon keeps of a waiting job is one the job did wait in.
* `DrawsFindExperience`: `SamplesAreStored`, which no run lists. `RingInv`: the ring's used places
  are those below its size, every leaf of the sum tree has weight exactly at a used place, and every
  inner node is the sum of its children (`TreeInv`); walking down from the root therefore ends at a
  used place.
* `MemoryIsWhole`: `MemoryIsSound`. `MemoryInv` adds that every stored transition is a stretch of one
  episode (`StoredInv`), which rests on each n-step deque holding exactly the last steps of its
  environment's current episode (`StepsInv`).

`SimulatorProofs`, for every trace, cluster, latency model and length of an episode
* `AccountsStayBalanced`: `AccountsBalance`, within each host's RAM times `ram_overcommit`, whatever
  that is. `ClusterOk` is kept by every allocation with room
  (`AllocateKeeps`; `PlansHaveRoom`: both planners only plan with room) and by every release of a job
  that holds one (`ReleaseKeeps`), so what it needs is that a job never starts twice and never ends
  twice. `QueueOk` says that: a job has one event until it ends, unless it waits.
* `DispatchKeepsOrder`: `DispatchRespectsOrder`. `WalkOk` is the invariant of the walk over the ordered
  queue; that who did not fit does not fit after further allocations is `NothingIsGained`.
* `MasksStaySound`: `MaskIsSound`, from `EnvInv`: the mask is one of the masks of the current state.
* `NobodyIsStranded`: `NobodyStranded`, if the trace has a job. In a run somebody who waits does not
  fit (`RunnerInv`), but in a cluster without jobs everybody fits (`EmptyFits`, from the assumption that
  each job fits an empty cluster). In the environment `AdvanceKeeps` leads to a decision or to the end
  of the events, where every job is done (`AllDone`, by counting the jobs in `EpisodeOk`), so the
  episode is over; a decision means an action in the mask, because the two planners agree
  (`FitsSomewhere`), if the window reaches the job that fits.

`ObservabilityProofs`
* `ChangesReachTheBroker`, `EventsReachThePage`, `SpansAreClosed`: the three invariants of the
  dashboard and the spans, with what the watcher's locals, the stream's handler and the page's
  flags have in common as strengthenings.
* `AnswersAreWhole`: `NothingVanishes`. A job that has left the queue has ended, with its row in the
  accounting of the day or without (`EndedInv`), and `AnswerInv` carries that through the reads of one
  answer in the code's order.
* `ArmsAreWhole`: `ResultsAreWhole`. `ResultsInv`: what the driver has seen finished is finished, at
  each stage, except where a reading was blind; what completed is then recorded.
* `BusyPoolsAreSeen`, `JobsGetOnePool`: both safety properties of a collection. `CollectInv`: what was
  asked so far is right for the jobs that have not moved since, whatever `mode` was at the time. The
  second compares the code's routing with what the job asks for and with the pool that owns its
  node.

Assumptions: each module's ASSUME types its constants; `PolicyAssumption` is
`main.validate_config`. The hypotheses of a theorem are named with it above.

Data of any length is reasoned about without induction rules, which the prover does not apply to
operators: a lemma on a sequence or a ring forms the set of numbers at which it fails and takes
its least one (`LeastNumber`, `UpTo`); that a recursive function exists is proved the same way.

Only model-checked: the liveness properties (`IdlePoolShrinks`, `DemandIsServed`,
`ChangesAreObserved`, `LeftoverRanksAreReset`, `StreamEnds`, `SubmissionsEnd`), which are outside
the prover's reach, and of the pool `UnreadyPodsHaveMarker`, `ScaleActionsSpareJobs` and `SafeInv`:
the last two hold under `SafeSettings`, which the chart's defaults (300 s and 60 s) do not satisfy,
so that the proofs are about what holds with any timing instead. `SafeInv` says why they hold: the
removed pods' nodes have been draining since before the CPUAlloc check, and nobody resumes a
draining node, because a drain never meets a scale-up in flight if a scale-up times out before the
cooldown that started with it. Every other invariant and action property of the runs is proved. Of
the proved properties that no run lists, `OnlyFaultsOverlook`, `OnlyYieldingJobsStop`,
`OneCallInFlight`, `StreamIsSubmitted`, `RaiseHasMarker`, `OnlyRollBacksUncover` and
`SamplesAreStored` were model-checked on the constants of a run of their module before they were
proved.

## 5. Observed disagreements and limits

What the models, or small changes of their configurations, show about the code. None of this is
assumed away silently: a property that excludes a case says so.

Operator
* `reconciler.py:84` against `docs/scheduler.md:148` (the operator does not shrink running jobs
  away). While a scale-up is in flight and its cooldown is over, a scale-down may start draining;
  when the pods become Ready, the completion resumes every node of the marker, a draining one
  included, which stays in `_draining_nodes`. A job that starts on it after the CPUAlloc check is
  removed by the patch. The chart's defaults allow it without any fault: with the constants of
  `ElasticPool_faults`, and no faults, TLC finds `ScaleActionsSpareJobs` violated.
  `OnlyResumedNodesLoseJobs` says that there is no other way.
* `reconciler.py:102`: the rollback patches replicas back without looking at jobs on the pods that
  did become Ready. If a scale-down to below came in between, which the chart's timing allows
  without any fault too, pods come back without a marker (`UnreadyPodsHaveMarker` fails there), and
  their nodes, set to FUTURE, stay out of service until the next scale-up.
* Nodes that were asked for are out of service and nobody remembers to resume them, until the next
  scale-up, in three ways (`OnlyTheseForget`): a restart forgets the drains (`app.py:173`); a rollback
  puts replicas back as above, or marks nodes and is then refused; a scale-down forgets all drains
  of its pool and sets only the nodes it removes to FUTURE (`scale_actions.py:229`), so that after a
  drain which an empty list of jobs began too far down the nodes between stay drained.
* `policy.py:41`: with more busy nodes than `max_replicas` an idle pool is scaled up to them, above
  its maximum, because the lower bound of `clamp` wins. `get_busy_nodes` counts another pool's nodes
  when its name is a prefix of theirs.
* `scale_actions.py:231` against `docs/cluster.md:444-446` (the time of a scale-down is in an
  annotation, so that a restart does not shrink again at once): the annotation is written after the
  patch, and a process that ends in between, or a refused write, loses the cooldown.
  `CooldownAfterScaleDown` therefore counts from scale-downs that were recorded.
* `app.py:221`: a cooldown restored from a marker is never written back; after a second restart
  `CooldownAfterScaleUp` fails (`MaxCrashes = 2`, `RetryDelay = 2`). With `RetryDelay = 0` a pass that
  just rolled back scales up from the replicas of before.
* `policy.py:27` against `docs/note.md:780`: at `max_replicas` demand does not cancel a drain.
* `scale_actions.py:185` against `models.py:21-23`: a drain timeout is not looked at while jobs
  run, because policy and `_do_scale_down` stop earlier.
* `app.py:364` against `app.py:13-15`: the 60 s safety net is the timeout of `queue.get` and only
  fires after silence of all pools. The relists of the watches make up for lost events.
* `watchers.py:67-70`: an event of a pod is put for the first pool whose name the pod's name begins
  with. If one pool's name begins with another's, pod events of the one never reach its queue entry;
  its StatefulSet's events and the Slurm poll have to make up for them.
* `policy.py:20` against `docs/note.md:779`: the age of a checkpoint is passed and never read.
* `k8s.py:74`: an unreadable StatefulSet counts as 0 replicas; a scale-up may then shrink the
  pool, and its marker be rolled back below Min.
* `fragmentation.py`: victims may not suffice (300-303), although comments speak of the minimum set
  that unblocks a job; a job without an MPS request counts as a
  whole node, also in a CPU partition (407); the history is used up by shadow decisions and
  by failed actuators. The target is not looked at again when its victims are stopped. With
  `sched/backfill`, the chart's default (`values.yaml:223`), or with victims that free nothing, the
  room may be taken before the target gets it, and the loop requeues again, at the rate of its
  limits: no progress is claimed.
* `reconciler.py:251-258`: a pass over a pool of one partition closes the spans of the other
  partitions' jobs. `reconciler.py:226`: a requeue leaves an open `job_running` span behind.

* `collector.py`, `_classify_job`: a job of a GPU partition whose gres no pool offers goes to the
  fallback pool, and if that is in another partition it is counted nowhere. A pool whose name is a
  prefix of another's takes the other's running jobs (147); if it is in another partition, they are
  counted for no pool. `SteadyJobsAreCounted` claims no more than one pool for them. A job of a
  partition that no pool has is seen as a busy node only. `k8s.py`: `sinfo` does not list a draining
  node as busy, slurmrestd does (`doubted` excepts it).

Scheduler services
* `reorder_daemon.py:348`, `258`: a user's hold placed between the read and the write is lifted by
  the write; a reset overwrites it too. `282-284`: one ended job ends the restore of the
  others. `272`: a reset that Slurm stores as 0 is found but not repaired. A kill after a
  garbled write leaves the job held. A job that left the scope keeps its rank until a reset.
  `74-80`, `252-273`: a reset looks at pending jobs only. A job that runs with a rank is passed over,
  and if it is requeued and Slurm keeps the priority, it waits in the band after a clean reset,
  until the next cycle that ranks it or the next reset.
* `placement_controller.py:208`, `258`: a job pinned outside the checkpoint's nodes and held again
  is never placed and may fill the window: `StreamEnds` excepts it. `389`: nothing is read again
  between decision and update.
* `serve.py:748`, `767`: `SHADOW_MODE` is read twice; an answer may be boosted and say shadow.
  `594`: an older snapshot may overwrite a newer one. A restart of the pod falls back to the
  configured checkpoint and mode. The plugin's job id `"0"` is the newest job: with `TOP_K`
  pending before it, it is never selected.
* `rl_hook.lua:139`: the decision's node is a place in the snapshot's list, which leaves lost nodes out,
  and the plugin looks it up in `RL_NODE_NAMES`, which does not. A checkpoint for fewer placements
  than the cluster has accepts a snapshot after a node was lost, and the pin is then the name of
  another node, which may have no room. `PinHadRoom` claims the node itself only for checkpoints
  that are for all nodes (`ForAllNodes`).
* `runtime_predictor/app.py:206`: `user_stats` is read before the lock. `train.py:117-120`: a crash
  between truncation and dump leaves a torn file, which fails the import at `app.py:130`.

Learning and simulation
* `sim_train.py:151-154`: at the end of an episode only the oldest transition of the window is
  committed, the others are dropped.
* `rlpd_finetune.py:445-454` ignores the row's next mask, against the comment at line 192;
  `max_priority` already has the exponent that line 135 applies again.
* `live_daemon.py:329`: a failed squeue logs every job in flight as finished; a requeued job is
  logged with its first placement.
* `cluster.py:109`: with `ram_overcommit` above 1, an option of `sim_train.py:562` that
  `sim/tests/test_oom_model.py:48-52` tests, a host is charged with more RAM than it has;
  `AccountsBalance` bounds it by the product.
* `gym_env.py:594-624`: the candidate with index `TOP_K` is the no-op, so that the warm-up action
  only tries one placement. With a job that fits only outside the window the environment offers
  nothing but the no-op: `NobodyStranded` excepts it.

Dashboard and drivers
* `app.js:72-83`: after a change of the API base the old server's answer is rendered under the new
  name. `server.py:155`, `455`: a job that left squeue is in no source until its terminal row is
  stored, and none again a day after; `NothingVanishes` excepts both. `server.py:566`: a change
  before the handler reads the version waits for the timer.
* `scontrol_ab.py:105`, `457`: a failed squeue reads as done, against
  `live_ab_heavytail.py:842-845`; after a failed sbatch the reorder arm's `is_done` (412-418) never
  holds. Both are excepted in `ResultsAreWhole` (`blind`, `excused`). `485`: only COMPLETED rows are
  kept; a job that failed or was cancelled is missing from the arm, and the report does not say so.
  `354-362`: a job may start before its rank is written.

## 6. Not modelled

* Networks, losses, rewards and features (`dsac.py`, `distortion.py`, `features.py`): numerical code
  without control. Loaders of traces (`loader.py`, `live_trace.py`) and the metrics of `sim/metrics.py`:
  pure functions of files.
* Several pools reconciled side by side: pools share the collection (`Collector`) and the consumer
  (`EventLoop`), and do not interact otherwise.
* Metrics, logs, the transport of `slurmrestd` (token, parsing), the trace a span
  continues, static files and layout of the dashboard.
* The submit plugin's defaults for memory, partition and QOS: stateless.
* Requests that are applied late, after their caller gave up, a late `sbatch` after an arm counted
  as drained among them (a lost reply of `sbatch` is in the model); two retrainings at once; a pipe
  that breaks in the middle of a vector step.
* Aggregation scripts, watchdogs, workloads, images, manifests and setup scripts.

## 7. Plan

Done: all components of section 1 and the proofs of section 4. Left, in this order:

1. Compositions: several pools behind one `EventLoop`; the watchdogs of `eval/scripts` beside
   the operator's drains, which one of them resumes.
2. Two retrainings at once, and late writes of the reorder daemon.
3. Proofs about both.
