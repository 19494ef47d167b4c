----------------------------- MODULE Collector -----------------------------
(***************************************************************************)
(* What the operator sees of Slurm: the collection of operator/collector.py *)
(* through slurmrestd (operator/slurm.py) or through commands in the       *)
(* controller pod (operator/k8s.py), and the choice between the two in     *)
(* operator/app.py.                                                        *)
(*                                                                         *)
(* A collection lists the jobs, one partition after the other, then counts *)
(* the busy nodes, pool by pool, while jobs and nodes move.  The consumer  *)
(* loop and the Slurm poll both collect; two collections share nothing but *)
(* the mode, so one is followed at a time.                                 *)
(***************************************************************************)
EXTENDS Naturals, FiniteSets, FiniteSetsExt

CONSTANTS
  NPools,             \* pools 1 .. NPools, in the order of PARTITIONS_JSON
  Partition,          \* per pool: its partition
  Member,             \* per pool: the partitions its nodes belong to in Slurm
  Prefixed,           \* per pool: the pools whose node names start with its name
  Dashed,             \* per pool: those where a dash follows
  Fallback,           \* pools with fallback
  NodeCpus, NodeMem,  \* per pool: cpus_per_node, memory_mb_per_node, 0 if unknown
  SlurmJobs,
  Part,               \* per job: its partition
  Asks,               \* per job: the pools whose features or gres it asks for
  Cpus, Mem, PerCpu   \* per job: CPUs and memory per node, and whether that is per CPU

Pools == 1 .. NPools

ASSUME CollectorAssumption ==
  /\ NPools \in Nat /\ Fallback \subseteq Pools /\ IsFiniteSet(SlurmJobs)
  /\ {Prefixed, Dashed} \subseteq [Pools -> SUBSET Pools]
  /\ \A k \in Pools : k \in Dashed[k] /\ Dashed[k] \subseteq Prefixed[k] /\ Partition[k] \in Member[k]
  /\ Asks \in [SlurmJobs -> SUBSET Pools] /\ PerCpu \in [SlurmJobs -> BOOLEAN]
  /\ {NodeCpus, NodeMem} \subseteq [Pools -> Nat] /\ {Cpus, Mem} \subseteq [SlurmJobs -> Nat]

VARIABLES
  st,        \* per job: pending, starved (Reason=Resources), running, completing, over
  at,        \* per job: the pool whose node it is or was on, 0 before
  draining,  \* pools whose nodes are draining
  restUp,    \* slurmrestd answers
  mode,      \* boot, or how _rest lets the collector ask: rest, exec
  hush,      \* now < _rest_retry_at
  who,       \* the thread that collects: loop, poll
  pc,        \* idle, jobs, nodes, done
  left,      \* partitions, then pools the collection still has to ask for
  found,     \* per pool: PENDING, SCALE_PENDING and RUNNING of its partition
  busy,      \* per pool: the jobs on the nodes counted as busy
  steady,    \* history: jobs that have not moved since the collection began
  doubted      \* history: pools whose readings a failed or a short-sighted command made

slurm == <<st, at, draining, restUp>>
link  == <<mode, hush>>
pass  == <<who, pc, left, found, busy>>
collector == <<slurm, link, pass, steady, doubted>>

Held == {"running", "completing"}
Waiting == {"pending", "starved"}
Nothing == [pend |-> {}, need |-> {}, run |-> {}]
Partitions == { Partition[k] : k \in Pools }

TypeOK ==
  /\ st \in [SlurmJobs -> Held \cup Waiting \cup {"over"}] /\ at \in [SlurmJobs -> 0 .. NPools]
  /\ \A j \in SlurmJobs : st[j] \in Held => at[j] \in Pools
  /\ draining \subseteq Pools /\ restUp \in BOOLEAN
  /\ mode \in {"boot", "rest", "exec"} /\ hush \in BOOLEAN
  /\ who \in {"loop", "poll"} /\ pc \in {"idle", "jobs", "nodes", "done"}
  /\ found \in [Pools -> [pend : SUBSET SlurmJobs, need : SUBSET SlurmJobs, run : SUBSET SlurmJobs]]
  /\ busy \in [Pools -> SUBSET SlurmJobs] /\ steady \subseteq SlurmJobs /\ doubted \subseteq Pools

-----------------------------------------------------------------------------
(* Slurm *)

Moves(j, state, pool) ==
  /\ st' = [st EXCEPT ![j] = state] /\ at' = [at EXCEPT ![j] = pool]
  /\ steady' = steady \ {j}
  /\ UNCHANGED <<draining, restUp, link, pass, doubted>>

JobMoves(j) ==
  \/ st[j] = "pending" /\ Moves(j, "starved", 0)
  \/ st[j] \in Waiting /\ \E k \in Pools \ draining : Part[j] \in Member[k] /\ Moves(j, "running", k)
  \/ st[j] = "running" /\ (Moves(j, "completing", at[j]) \/ Moves(j, "pending", 0))
  \/ st[j] \in Waiting \cup {"completing"} /\ Moves(j, "over", at[j])

Drain(k) ==
  /\ draining' = (IF k \in draining THEN draining \ {k} ELSE draining \cup {k})
  /\ UNCHANGED <<st, at, restUp, link, pass, steady, doubted>>

Outage == restUp' = ~restUp /\ UNCHANGED <<st, at, draining, link, pass, steady, doubted>>

-----------------------------------------------------------------------------
(* How the collector asks *)

\* OperatorApp.run: a ping decides, and the next one is 30 s away.
Boot ==
  /\ mode = "boot"
  /\ mode' = (IF restUp THEN "rest" ELSE "exec") /\ hush' = ~restUp
  /\ UNCHANGED <<slurm, pass, steady, doubted>>

Tick == hush /\ hush' = FALSE /\ UNCHANGED <<slurm, mode, pass, steady, doubted>>

\* _restore_rest_if_available, before each collection of the consumer loop and in the
\* middle of one of the poll.
MayRestore == mode = "exec" /\ ~hush
Restored == IF restUp THEN "rest" ELSE mode
Restore ==
  /\ MayRestore /\ (pc = "idle" \/ who = "poll")
  /\ mode' = Restored /\ hush' = TRUE
  /\ UNCHANGED <<slurm, pass, steady, doubted>>

\* The collection is over; what it found goes out of scope.
NoneFound == [k \in Pools |-> Nothing]
NoneBusy == [k \in Pools |-> {}]
Over ==
  /\ found' = NoneFound /\ busy' = NoneBusy /\ steady' = {} /\ doubted' = {}
  /\ left' = {} /\ who' = "loop" /\ pc' = "idle"

\* The process starts again.
Restart == mode # "boot" /\ mode' = "boot" /\ hush' = FALSE /\ Over /\ UNCHANGED slurm

-----------------------------------------------------------------------------
(* collect_all_partition_states *)

Begin(t) ==
  /\ pc = "idle" /\ mode # "boot" /\ (t = "loop" => ~MayRestore)
  /\ who' = t /\ pc' = "jobs" /\ left' = Partitions
  /\ steady' = SlurmJobs /\ UNCHANGED <<found, busy, doubted>>
  /\ UNCHANGED <<slurm, link>>

Need(j) == Mem[j] * (IF PerCpu[j] THEN Max({Cpus[j], 1}) ELSE 1)

\* _tres_per_node_fits: more nodes cannot help a job that no node of the pool can hold.
Fits(j, k) ==
  /\ NodeCpus[k] > 0 => Cpus[j] <= NodeCpus[k]
  /\ NodeMem[k] > 0 => Need(j) <= NodeMem[k]

\* _classify_job: by the node it has, by what it asks for, the fallback.
First(S) == IF S = {} THEN 0 ELSE Min(S)
PlacedIn(j) == IF st[j] \in Held THEN { k \in Pools : at[j] \in Prefixed[k] } ELSE {}
RouteByRequest(j) == First(IF Asks[j] # {} THEN Asks[j] ELSE Fallback)   \* variant: ignores the node
Route(j) == First(IF PlacedIn(j) # {} THEN PlacedIn(j) ELSE IF Asks[j] # {} THEN Asks[j] ELSE Fallback)

\* One partition's jobs, as _jobs_by_pool_and_state sorts them.  A pool of another
\* partition gets an entry that nobody looks at.
RunningOnly(q) == { j \in SlurmJobs : Part[j] = q /\ st[j] \in Waiting \cup {"running"} }  \* variant
Listed(q) == { j \in SlurmJobs : Part[j] = q /\ st[j] # "over" }
Bucket(q, k) ==
  LET mine == { j \in Listed(q) : Route(j) = k } IN
  [pend |-> { j \in mine : st[j] \in Waiting },
   need |-> { j \in mine : st[j] = "starved" /\ Fits(j, k) },
   run  |-> { j \in mine : st[j] \in Held }]

Take(x) ==
  IF pc = "jobs" /\ left = {x} THEN pc' = "nodes" /\ left' = Pools
  ELSE /\ left' = left \ {x} /\ pc' = (IF left = {x} THEN "done" ELSE pc)

\* A command that fails prints nothing (`|| true').
AskJobs(q) ==
  /\ pc = "jobs" /\ q \in left /\ Take(q)
  /\ \/ /\ mode = "rest" => restUp
        /\ found' = [k \in Pools |-> IF Partition[k] = q THEN Bucket(q, k) ELSE found[k]]
        /\ UNCHANGED doubted
     \/ /\ mode = "exec" /\ doubted' = doubted \cup { k \in Pools : Partition[k] = q }
        /\ UNCHANGED found
  /\ UNCHANGED <<slurm, link, who, busy, steady>>

\* get_busy_nodes.  slurmrestd reports ALLOCATED next to DRAIN; sinfo, which is asked for
\* the pool's own partition, prints `draining'.
OnNodes(names) == { j \in SlurmJobs : st[j] \in Held /\ at[j] \in names }
SeenBusyOnce(k) == OnNodes({ n \in Prefixed[k] : \A m \in 1 .. k - 1 : n \notin Prefixed[m] })   \* variant
SeenBusy(k) ==
  IF mode = "rest" THEN OnNodes(Prefixed[k])
  ELSE OnNodes({ n \in Dashed[k] \ draining : Partition[k] \in Member[n] })

AskNodes(k) ==
  /\ pc = "nodes" /\ k \in left /\ Take(k)
  /\ \/ /\ mode = "rest" => restUp
        /\ busy' = [busy EXCEPT ![k] = SeenBusy(k)]
        /\ doubted' = (IF mode = "exec" /\ k \in draining THEN doubted \cup {k} ELSE doubted)
     \/ mode = "exec" /\ doubted' = doubted \cup {k} /\ UNCHANGED busy
  /\ UNCHANGED <<slurm, link, who, found, steady>>

\* _get gives up after three attempts, and the collection with it.
Raise ==
  /\ pc \in {"jobs", "nodes"} /\ mode = "rest" /\ ~restUp
  /\ Over /\ UNCHANGED <<slurm, link>>

\* The states are handed to a reconcile or compared with the cache.
HandOver == pc = "done" /\ Over /\ UNCHANGED <<slurm, link>>

-----------------------------------------------------------------------------
CollectorInit ==
  /\ st = [j \in SlurmJobs |-> "pending"] /\ at = [j \in SlurmJobs |-> 0]
  /\ draining = {} /\ restUp \in BOOLEAN /\ mode = "boot" /\ hush = FALSE
  /\ who = "loop" /\ pc = "idle" /\ left = {} /\ found = NoneFound /\ busy = NoneBusy
  /\ steady = {} /\ doubted = {}

World == (\E j \in SlurmJobs : JobMoves(j)) \/ (\E k \in Pools : Drain(k)) \/ Outage
Collection ==
  \/ Begin("loop") \/ Begin("poll") \/ Raise \/ HandOver
  \/ \E q \in Partitions : AskJobs(q)
  \/ \E k \in Pools : AskNodes(k)
CollectorNext == World \/ Boot \/ Tick \/ Restore \/ Restart \/ Collection

-----------------------------------------------------------------------------
(* Properties *)

\* A pool under a job never looks idle: one that ran on its nodes all through the
\* collection keeps the pool busy, also one of a partition that no pool has or that is
\* put into another pool, and also when the mode changes in the middle; unless a command
\* failed or the pool drains while sinfo is asked (collector.py, get_busy_nodes).
NoPoolLooksIdleUnderAJob ==
  pc = "done" => \A j \in steady :
    st[j] \in Held /\ at[j] \notin doubted => busy[at[j]] # {}

\* Both ways of asking agree on a job that did not move.  It counts for one pool of its
\* partition at most: while it waits for one that it asks for, and for one indeed if
\* all that it asks for are of its partition; while it runs for the pool that owns its node; and
\* as demand where a node can hold it (collector.py, _classify_job and _can_scale_for_job).
\* A node whose name begins with that of an earlier pool is taken for that pool's: a job on
\* it is not claimed to count where it runs.
Wanted(j)   == IF Asks[j] = {} THEN Fallback ELSE Asks[j]
Mistaken(j) == \E m \in 1 .. at[j] - 1 : at[j] \in Prefixed[m]
Counted(j)  == { k \in Pools \ doubted : j \in found[k].pend \cup found[k].run }
OfPart(j)   == { k \in Pools \ doubted : Partition[k] = Part[j] }
SteadyJobsAreCounted ==
  pc = "done" => \A j \in steady :
    /\ \A k, l \in Counted(j) : k = l
    /\ \A k \in Counted(j) :
         /\ j \in found[k].pend <=> st[j] \in Waiting
         /\ j \in found[k].need <=> st[j] = "starved" /\ Fits(j, k)
    /\ Counted(j) \subseteq OfPart(j)
    /\ st[j] \in Waiting =>
         /\ Counted(j) \subseteq Wanted(j)
         /\ Wanted(j) # {} /\ Wanted(j) \subseteq OfPart(j) => Counted(j) # {}
    /\ st[j] \in Held /\ ~Mistaken(j) => Counted(j) = {at[j]} \cap OfPart(j)
=============================================================================
