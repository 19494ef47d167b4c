------------------------------ MODULE LiveDaemon ------------------------------
(* The passive observer of the live cluster (src/services/rl_scheduler/      *)
(* live_daemon.py): it polls squeue, remembers for every waiting job the     *)
(* state it waited in, takes the node a job was started on for the action,   *)
(* and logs a transition when the job is no longer listed. Slurm and its     *)
(* users are the environment.                                                *)
EXTENDS Integers, Sequences, FiniteSets, SequencesExt

CONSTANTS NJobs, NodeCount, Mps, MpsReq,
          TopK,
          MaxFaults               \* bound: requeues and polls that fail, together

Jobs  == 1 .. NJobs               \* in the order of submission
Nodes == 1 .. NodeCount           \* in the order of --node-name

ASSUME DaemonAssumption ==
  /\ {NJobs, MaxFaults} \subseteq Nat /\ {NodeCount, TopK, Mps} \subseteq Nat \ {0}
  /\ MpsReq \in [Jobs -> 1 .. Mps]

VARIABLES
  state, at,       \* Slurm: state and node of each job
  order,           \* the submitted jobs, by their time of submission
  requeues,
  pendingObs,      \* job -> the state it was last seen waiting in
  inFlight,        \* job -> state and action of its start
  log,             \* the rows of the JSONL file
  blind,           \* number of polls that failed
  ran              \* history: the nodes each job has run on

slurm  == <<state, at, order, requeues, ran>>
daemon == <<pendingObs, inFlight, log, blind>>

-----------------------------------------------------------------------------
(* Slurm: completed jobs stay listed for MinJobAge; a requeue is a new       *)
(* submission of the same job.                                               *)

Nowhere    == 0
Running(j) == state[j] = "running"
FreeMps(n) == Mps - FoldSet(LAMBDA j, sum : sum + MpsReq[j], 0, {j \in Jobs : Running(j) /\ at[j] = n})

Submit(j) ==
  /\ state[j] = "new" /\ \A i \in 1 .. j - 1 : state[i] # "new"
  /\ state' = [state EXCEPT ![j] = "pending"]
  /\ order' = Append(order, j)
  /\ UNCHANGED <<at, requeues, ran>>

Start(j, n) ==
  /\ state[j] = "pending" /\ FreeMps(n) >= MpsReq[j]
  /\ state' = [state EXCEPT ![j] = "running"]
  /\ at' = [at EXCEPT ![j] = n]
  /\ ran' = [ran EXCEPT ![j] = @ \cup {n}]
  /\ UNCHANGED <<order, requeues>>

Requeue(j) ==
  /\ Running(j) /\ requeues + blind < MaxFaults
  /\ requeues' = requeues + 1
  /\ state' = [state EXCEPT ![j] = "pending"]
  /\ at' = [at EXCEPT ![j] = Nowhere]
  /\ order' = Append(SelectSeq(order, LAMBDA i : i # j), j)
  /\ UNCHANGED ran

Finish(j) ==
  /\ Running(j)
  /\ state' = [state EXCEPT ![j] = "completed"]
  /\ at' = [at EXCEPT ![j] = Nowhere]
  /\ UNCHANGED <<order, requeues, ran>>

Forget(j) ==
  /\ state[j] = "completed"
  /\ state' = [state EXCEPT ![j] = "gone"]
  /\ order' = SelectSeq(order, LAMBDA i : i # j)
  /\ UNCHANGED <<at, requeues, ran>>

Slurm ==
  /\ \E j \in Jobs : Submit(j) \/ Requeue(j) \/ Finish(j) \/ Forget(j) \/ \E n \in Nodes : Start(j, n)
  /\ UNCHANGED daemon

-----------------------------------------------------------------------------
(* build_obs_and_mask: the window of the oldest waiting jobs, and where each *)
(* of them has room by the MPS of the jobs that run. An observation is named *)
(* by the window and that mask.                                              *)

Waiting == SelectSeq(order, LAMBDA j : state[j] = "pending")
Window  == LET w == Waiting IN
           SubSeq(w, 1, IF Len(w) < TopK THEN Len(w) ELSE TopK)
Mask(w) == {x \in (DOMAIN w) \X Nodes : FreeMps(x[2]) >= MpsReq[w[x[1]]]}
Snapshot == [window |-> Window, mask |-> Mask(Window)]
NothingWaits == [window |-> <<>>, mask |-> {}]

NoPoll == [listed |-> {}, running |-> {}, snap |-> NothingWaits]
PollOf(ok) ==
  IF ok THEN [listed  |-> {j \in Jobs : state[j] \notin {"new", "gone"}},
              running |-> {j \in Jobs : Running(j)},
              snap    |-> Snapshot]
  ELSE NoPoll

(* (1) the states that the jobs of the window wait in *)
Remember(p) ==
  [j \in (DOMAIN pendingObs) \cup Range(p.snap.window) |->
     IF j \in Range(p.snap.window) THEN p.snap ELSE pendingObs[j]]

(* (2) jobs that have started, encoded against the state they waited in *)
IndexIn(w, j) == CHOOSE i \in DOMAIN w : w[i] = j
Launched(p) == {j \in p.running \cap DOMAIN Remember(p) : j \notin DOMAIN inFlight}

\* mutant: the job's place in the window of now
ActionNow(p, j) == <<IF j \in Range(p.snap.window) THEN IndexIn(p.snap.window, j) ELSE 1, at[j]>>
Action(p, j) == <<IndexIn(Remember(p)[j].window, j), at[j]>>

Flying(p) ==
  [j \in (DOMAIN inFlight) \cup Launched(p) |->
     IF j \in Launched(p) THEN [obs |-> Remember(p)[j], act |-> Action(p, j)] ELSE inFlight[j]]

(* (3) jobs that are not listed any more, with sacct's times or the clock's *)
Vanished(p) == {j \in DOMAIN Flying(p) : j \notin p.listed}
Sacct(j) == IF state[j] \in {"completed", "gone"} THEN "sacct" ELSE "clock"
Row(p, j) ==
  [job |-> j, obs |-> Flying(p)[j].obs, act |-> Flying(p)[j].act, next |-> p.snap, jct |-> Sacct(j)]

(* The rows are written in the order the jobs came into in_flight, which     *)
(* within one poll is that of squeue's list: here, in any order.             *)
Poll(ok) ==
  /\ ~ok => requeues + blind < MaxFaults
  /\ blind' = IF ok THEN blind ELSE blind + 1
  /\ LET p == PollOf(ok) IN
       /\ pendingObs' = [j \in (DOMAIN Remember(p)) \ Launched(p) |-> Remember(p)[j]]
       /\ inFlight' = [j \in (DOMAIN Flying(p)) \ Vanished(p) |-> Flying(p)[j]]
       /\ \E over \in Bijection(1 .. Cardinality(Vanished(p)), Vanished(p)) :
            log' = log \o [k \in DOMAIN over |-> Row(p, over[k])]
  /\ UNCHANGED slurm

DaemonInit ==
  /\ state = [j \in Jobs |-> "new"] /\ at = [j \in Jobs |-> Nowhere]
  /\ order = <<>> /\ requeues = 0 /\ ran = [j \in Jobs |-> {}]
  /\ pendingObs = <<>> /\ inFlight = <<>> /\ log = <<>> /\ blind = 0

Observe == Slurm \/ \E ok \in BOOLEAN : Poll(ok)

-----------------------------------------------------------------------------
(* A row tells what happened: its action names the job by its place in the   *)
(* row's own window and a node that the job did run on; and as long as no    *)
(* poll failed, the job was over when the row was written (the comment on    *)
(* the behaviour policy: "the placement that ACTUALLY happened").            *)
RowsTellWhatHappened ==
  \A k \in DOMAIN log : LET r == log[k] IN
    /\ r.act[1] \in DOMAIN r.obs.window /\ r.obs.window[r.act[1]] = r.job
    /\ r.act[2] \in ran[r.job]
    /\ blind = 0 => state[r.job] = "gone"
=============================================================================
