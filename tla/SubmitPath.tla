---------------------------- MODULE SubmitPath ----------------------------
(***************************************************************************)
(* The way of a submitted job: slurmctld's job_submit plugin               *)
(* (chart/lua/rl_hook.lua) asks the runtime predictor and the decision     *)
(* service, both with a time limit, while the snapshot agent reads jobs    *)
(* and nodes from Slurm and pushes them to the service, retrainings and    *)
(* reloads go on, and the cluster changes.                                 *)
(***************************************************************************)
EXTENDS Naturals, Sequences, FiniteSets, FiniteSetsExt, SequencesExt

CONSTANTS
  NJobs, Mps,          \* jobs 1 .. NJobs, in the order of their submission
  NodeSeq, Total, Cards,   \* nodes as slurmrestd lists them; MPS and GPUs of each
  Gpus, MpsPerGpu,     \* --gpus-per-node and --mps-per-gpu of the agent
  Names,               \* RL_NODE_NAMES of the plugin
  TopK, TTL, Ckpts, Shape, FirstShadow, MaxModels,   \* see the components
  Deployments,         \* which calls the plugin makes for a job, and --policy-dir of the service
  MaxFaults            \* bound, per deployment: lost calls and nodes, restarts, reloads, switches
                       \* and retrainings

Jobs  == 1 .. NJobs
Nodes == Range(NodeSeq)

ASSUME SubmitAssumption ==
  /\ NJobs \in Nat /\ Mps \in [Jobs -> Nat \ {0}] /\ NodeSeq \in Seq(Nodes) /\ IsInjective(NodeSeq)
  /\ Nodes \cap {"new", "submitting", "pending", "over", "none"} = {}
  /\ Total \in [Nodes -> Nat] /\ Cards \in [Nodes -> Nat \ {0}] /\ Gpus \in Nat \ {0}
  /\ MpsPerGpu \in Nat \ {0} /\ MaxFaults \in [Deployments -> Nat]
  /\ \A d \in Deployments : d.calls \subseteq {"score", "limit", "decision"} /\ d.calls # {}
  /\ TopK \in Nat \ {0} /\ TTL \in Nat /\ MaxModels \in Nat
  /\ Shape \in [Ckpts -> Nat \ {0}] /\ FirstShadow \in BOOLEAN

VARIABLES
  st,        \* per job: new, submitting, pending, over, or the node it runs on
  prio,      \* per job: its priority field: "unset", "held" or "boosted"
  pin,       \* per job: req_nodes, "none" without
  limited,   \* the jobs whose time limit is the predicted one
  up,        \* the nodes that are not down or drained
  deployed,  \* what is deployed
  call,      \* the call the plugin waits for, or "none"
  agent,     \* the agent: sleep, nodes, push
  jobs,      \* the pending jobs it read
  wire,      \* a snapshot whose POST has not arrived yet
  holder, loading, snapshot, shadow, req, file, model, lock, trainer, trained, ask, faults

D == INSTANCE DecisionService
P == INSTANCE RuntimePredictor

cluster == <<st, prio, pin, limited, up>>
plugin  == <<deployed, call>>
service == <<holder, loading, snapshot, shadow, req>>
predictor == <<file, model, lock, trainer, trained, ask>>
reads   == <<agent, jobs, wire>>
vars == <<cluster, plugin, reads, service, predictor, faults>>

\* A prediction for the score, another for the time limit, and a decision, in this order.
calls == deployed.calls

Free(n) == Total[n] - MapThenSumSet(LAMBDA j : Mps[j], { j \in Jobs : st[j] = n })
Pending == SelectSeq([j \in Jobs |-> j], LAMBDA j : st[j] = "pending")
Fault == faults < MaxFaults[deployed] /\ faults' = faults + 1
Sound == UNCHANGED faults

-----------------------------------------------------------------------------
(* slurmctld, its nodes and its users *)

Start(j, n) ==
  /\ st[j] = "pending" /\ prio[j] # "held" /\ n \in up /\ Free(n) >= Mps[j] /\ pin[j] \in {"none", n}
  /\ st' = [st EXCEPT ![j] = n] /\ UNCHANGED up
  /\ prio' = [prio EXCEPT ![j] = "unset"] /\ pin' = [pin EXCEPT ![j] = "none"]
  /\ limited' = limited \ {j}       \* they decide no more
End(j) == st[j] \in Nodes /\ st' = [st EXCEPT ![j] = "over"] /\ UNCHANGED <<prio, pin, limited, up>>

Cluster ==
  /\ \/ Sound /\ \E j \in Jobs : End(j) \/ \E n \in Nodes : Start(j, n)
     \/ Sound /\ \E n \in Nodes \ up : up' = up \cup {n} /\ UNCHANGED <<st, prio, pin, limited>>
     \/ Fault /\ \E n \in up : up' = up \ {n} /\ UNCHANGED <<st, prio, pin, limited>>
  /\ UNCHANGED <<plugin, reads, service, predictor>>

Tick ==
  /\ snapshot' = D!Older(snapshot) /\ wire' = [i \in DOMAIN wire |-> D!Older(wire[i])]
  /\ UNCHANGED <<cluster, plugin, agent, jobs, holder, loading, shadow, req, predictor, faults>>

-----------------------------------------------------------------------------
(* snapshot_agent.py: run_once *)

ReadJobs ==
  /\ agent = "sleep" /\ "decision" \in calls /\ agent' = "nodes" /\ jobs' = Pending
  /\ UNCHANGED <<cluster, plugin, wire, service, predictor, faults>>

\* The view of the nodes that are not down: as many GPUs as the deployment has per node,
\* each with its share of what is free.
PerGpu(n) == Min({MpsPerGpu, Free(n) \div Min({Cards[n], Gpus})})
View(n) == [name |-> n, gpus |-> Min({Cards[n], Gpus}), free |-> PerGpu(n)]
Listed == { i \in DOMAIN NodeSeq : NodeSeq[i] \in up }
Nth(i) == CHOOSE k \in Listed : Cardinality(Listed \cap 1 .. k) = i     \* the i-th of them, in order
Views == [i \in 1 .. Cardinality(Listed) |-> View(NodeSeq[Nth(i)])]
GpusOf(views) == Max({ views[i].gpus : i \in DOMAIN views } \cup (IF views = << >> THEN {Gpus} ELSE {}))

ReadNodes ==
  /\ agent = "nodes" /\ agent' = "push" /\ jobs' = << >>
  /\ wire' = << [age |-> 0, pend |-> jobs, nodes |-> Views, gpus |-> GpusOf(Views)] >>
  /\ UNCHANGED <<cluster, plugin, service, predictor, faults>>

Push ==
  /\ agent = "push" /\ D!PushSnapshot(wire[1])
  /\ agent' = "sleep" /\ wire' = << >> /\ UNCHANGED <<jobs, cluster, plugin, predictor, faults>>

\* A read or the POST fails: the round is over.
Miss ==
  /\ agent \in {"nodes", "push"} /\ Fault /\ agent' = "sleep" /\ jobs' = << >> /\ wire' = << >>
  /\ UNCHANGED <<cluster, plugin, service, predictor>>

Agent == ReadJobs \/ ReadNodes \/ Push

-----------------------------------------------------------------------------
(* The plugin: slurm_job_submit *)

Submitting(j) == st[j] = "submitting"
Closed == ask' = P!NoAsk /\ UNCHANGED <<file, model, lock, trainer, trained>>

\* The next of the calls that are left, or slurmctld has the job.
NextCall(j, left) ==
  \/ /\ left \cap {"score", "limit"} # {} /\ P!AskRuntime /\ UNCHANGED service
     /\ call' = (IF "score" \in left THEN "score" ELSE "limit")
     /\ st' = [st EXCEPT ![j] = "submitting"]
  \/ /\ left = {"decision"} /\ D!Ask(j) /\ Closed
     /\ call' = "decision" /\ st' = [st EXCEPT ![j] = "submitting"]
  \/ /\ left = {} /\ Closed /\ UNCHANGED service
     /\ call' = "none" /\ st' = [st EXCEPT ![j] = "pending"]

Submit(j) ==
  /\ \A k \in Jobs : st[k] = "new" => j <= k
  /\ \A k \in Jobs : ~Submitting(k)
  /\ st[j] = "new" /\ NextCall(j, calls)
  /\ prio' \in { [prio EXCEPT ![j] = p] : p \in {"unset", "held"} }
  /\ UNCHANGED <<pin, limited, up, deployed, reads, faults>>

\* The predictor answered, or curl gave up. The first prediction only counts in the score,
\* which logs or sets a priority that nobody asked for; the second limits the time, unless
\* the user's own limit is tighter.
Rest == calls \ (IF call = "score" THEN {"score"} ELSE {"score", "limit"})
GetPrediction(j) ==
  /\ Submitting(j) /\ ask.pc \in {"bootstrap", "predicted"} /\ NextCall(j, Rest)
  /\ limited' \in (IF call = "limit" THEN {limited, limited \cup {j}} ELSE {limited})
  /\ UNCHANGED <<prio, pin, up, deployed, reads, faults>>
NoPrediction(j) ==
  /\ Submitting(j) /\ ask.pc # "idle" /\ NextCall(j, Rest)
  /\ UNCHANGED <<prio, pin, limited, up, deployed, reads, faults>>

NameOf(i) == IF i \in DOMAIN Names THEN Names[i] ELSE "none"
Dropped == req' = D!Idle /\ call' = "none" /\ UNCHANGED <<holder, loading, snapshot, shadow>>
Accepted(j) == st' = [st EXCEPT ![j] = "pending"] /\ UNCHANGED deployed

\* rl_apply
ApplyAnswer(j) ==
  /\ Submitting(j) /\ D!Answered /\ Accepted(j) /\ Dropped
  /\ LET a == D!Answer IN
     /\ pin'  = [pin EXCEPT ![j] = IF a.abstain \/ ~a.picked THEN "none" ELSE NameOf(a.node)]
     /\ prio' = [prio EXCEPT ![j] = IF ~a.abstain /\ a.boost /\ prio[j] # "held" THEN "boosted" ELSE prio[j]]
  /\ UNCHANGED <<limited, up, reads, predictor, faults>>
LeftInError == req.pc \in {"failed", "refused"}     \* mutant: no --max-time
Left == req.pc # "idle"
NoAnswer(j) ==
  /\ Submitting(j) /\ Left /\ Accepted(j) /\ Dropped
  /\ UNCHANGED <<prio, pin, limited, up, reads, predictor, faults>>

\* curl --max-time
GiveUp == \E j \in Jobs : NoPrediction(j) \/ NoAnswer(j)
Plugin == \E j \in Jobs : Submit(j) \/ GetPrediction(j) \/ ApplyAnswer(j)

-----------------------------------------------------------------------------
(* The services, their operators and their pods *)

Decide == D!Handle /\ UNCHANGED <<cluster, plugin, reads, predictor, faults>>
PredictRuntime == P!Predicts /\ UNCHANGED <<cluster, plugin, reads, service, faults>>
Control ==
  /\ "decision" \in calls
  /\ \/ Fault /\ \E c \in Ckpts : D!Load(c)
     \/ Sound /\ D!Swap
     \/ Fault /\ D!SetShadow(~shadow)
     \/ Fault /\ D!RestartService(deployed.policyDir)
  /\ UNCHANGED <<cluster, plugin, reads, predictor>>
Train ==
  /\ "score" \in calls
  /\ \/ Fault /\ P!Train
     \/ Sound /\ P!Replace
     \/ Fault /\ P!RestartPredictor
  /\ UNCHANGED <<cluster, plugin, reads, service>>

Init ==
  /\ st = [j \in Jobs |-> "new"] /\ prio = [j \in Jobs |-> "unset"] /\ pin = [j \in Jobs |-> "none"]
  /\ limited = {} /\ up = Nodes /\ deployed \in Deployments /\ call = "none"
  /\ agent = "sleep" /\ jobs = << >> /\ wire = << >> /\ faults = 0
  /\ D!StartService(deployed.policyDir) /\ file \in (IF "score" \in calls THEN P!Files ELSE {P!NoFile}) /\ P!StartPredictor

Next == Cluster \/ Tick \/ Agent \/ Miss \/ Plugin \/ GiveUp \/ Decide \/ PredictRuntime \/ Control \/ Train
Spec == Init /\ [][Next]_vars

\* Only curl's time limit is relied on: the services may hang.
FairSpec == Spec /\ WF_vars(GiveUp)

-----------------------------------------------------------------------------
(* Properties *)

\* A checkpoint whose observations are those of all nodes of the cluster.
ForAllNodes(c) ==
  \E m \in 1 .. Gpus : Shape[c] = Len(NodeSeq) * m /\ \A n \in Nodes : Min({Cards[n], Gpus}) <= m

\* A job is only pinned to the name that RL_NODE_NAMES has for a node with room for it in
\* the snapshot of its decision. With a checkpoint for all nodes it is that node's own name,
\* whatever nodes were lost or came back meanwhile; with a smaller one it need not be, for the
\* snapshot leaves lost nodes out and the list does not (rl_hook.lua:139).
PinHadRoom ==
  [][\A j \in Jobs : pin'[j] \notin {pin[j], "none"} =>
       \E i \in DOMAIN req.snap.nodes :
         /\ req.snap.nodes[i].free >= Mps[j] /\ i \in DOMAIN Names /\ pin'[j] = Names[i]
         /\ ForAllNodes(holder) => req.snap.nodes[i].name = pin'[j]]_vars

\* No request reaches a checkpoint of another shape: reloads in flight keep the shape.
SelectFitsModel == req.pc # "refused"

\* A prediction comes from a booster and the columns it was trained with.
OneModelPredicts == ask.pc = "predicted" => ask.booster = ask.cols

\* However the services hang, restart or lose calls, slurmctld gets every job.
SubmissionsEnd == (\E j \in Jobs : Submitting(j)) ~> (\A j \in Jobs : ~Submitting(j))

\* While a job is submitted exactly one call is open, to one of the two services, so that
\* curl's time limit always has a call to end; a decision under way is for that job, whatever
\* restarts, and nobody is asked for a job that slurmctld has already (slurm_job_submit).
OneCallInFlight ==
  /\ \A j, k \in Jobs : Submitting(j) /\ Submitting(k) => j = k
  /\ call = "none" <=> ~\E j \in Jobs : Submitting(j)
  /\ call \in {"score", "limit"} <=> ask.pc # "idle"
  /\ call = "decision" <=> req.pc # "idle"
  /\ call \in calls \cup {"none"}
  /\ req.pc \in {"asked", "fetched", "checked", "chosen", "decided"} => Submitting(req.job)
============================================================================
