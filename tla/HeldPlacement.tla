--------------------------- MODULE HeldPlacement ---------------------------
(***************************************************************************)
(* The held-job path of an A/B experiment.  eval/scripts/                  *)
(* live_ab_heavytail.py submits a stream of jobs, held in the RL arm, and  *)
(* waits until they have left the queue.  services/rl_scheduler/           *)
(* placement_controller.py meanwhile reads the held jobs, reads the nodes, *)
(* has /act choose a pair, and pins and releases that job: one job per     *)
(* round, and rounds until nothing is applied.                             *)
(*                                                                         *)
(* The harness, the controller, Slurm and the users move between any two   *)
(* requests.  sbatch may fail after Slurm took the job: the retry of the   *)
(* harness makes a second Slurm job of the same name.                      *)
(***************************************************************************)
EXTENDS Naturals, Sequences, FiniteSets, FiniteSetsExt, SequencesExt

CONSTANTS
  Stream,       \* the jobs of the experiment: 1 .. Stream
  NodeList,     \* the GPU nodes, in the order of the /nodes document
  Cap, Req,     \* MPS of a node, MPS request of a stream job
  Eligible,     \* per stream job: the nodes its GPU type allows
  ModelNodes,   \* nodes the loaded checkpoint has actions for
  TopK,         \* TOP_K
  Attempts,     \* sbatch attempts per job
  Confirm,      \* empty answers in a row that mean drained
  MaxFaults,    \* bound: requests that fail
  MaxMoves,     \* bound: users' changes and node failures
  NoJob, AnyNode

Nodes == Range(NodeList)
Ids   == 1 .. Stream * Attempts      \* Slurm job ids

ASSUME HeldAssumption ==
  /\ Stream \in Nat \ {0} /\ Cap \in Nat /\ ModelNodes \in Nat \ {0} /\ TopK \in Nat \ {0}
  /\ Req \in [1 .. Stream -> 1 .. Cap] /\ Eligible \in [1 .. Stream -> SUBSET Nodes]
  /\ Attempts \in Nat \ {0} /\ Confirm \in Nat \ {0} /\ MaxFaults \in Nat /\ MaxMoves \in Nat
  /\ AnyNode \notin Nodes /\ NoJob \notin Ids
  /\ Nodes \cap {"none", "held", "pending", "over"} = {}

VARIABLES
  st,       \* per Slurm job: none, held, pending, over, or the node it runs on
  name,     \* per Slurm job: the stream job it was submitted for
  pin,      \* per Slurm job: its required_nodes
  up,       \* the nodes that are available
  arm,      \* "score" submits unheld, "rl" submits held
  bench,    \* the harness: submit, drain, drained or gaveUp
  next,     \* the stream job it submits
  tries,    \* attempts left for it
  empties,  \* empty answers of squeue in a row
  pc,       \* the controller: jobs, nodes, act, apply
  view,     \* what it read: jobs, nodes and their free MPS
  choice,   \* the answer of /act
  faults, moves

slurm   == <<st, name, pin, up>>
harness == <<arm, bench, next, tries, empties>>
control == <<pc, view, choice>>
budget  == <<faults, moves>>
vars == <<slurm, harness, control, budget>>

Used == { i \in Ids : st[i] # "none" }
Live == { i \in Used : st[i] # "over" }
Held == { i \in Ids : st[i] = "held" }
Need(i) == Req[name[i]]
Free(n) == Cap - MapThenSumSet(Need, { i \in Ids : st[i] = n })
NoView == [jobs |-> {}, nodes |-> << >>, free |-> << >>]
NoChoice == [job |-> NoJob, index |-> 0]

Fault == faults < MaxFaults /\ faults' = faults + 1 /\ UNCHANGED moves
Sound == UNCHANGED budget

-----------------------------------------------------------------------------
(* Slurm, its nodes and its users *)

Set(i, s) == st' = [st EXCEPT ![i] = s]

Start(i, n) ==
  /\ st[i] = "pending" /\ n \in up \cap Eligible[name[i]] /\ pin[i] \in {n, AnyNode}
  /\ Free(n) >= Need(i)
  /\ Set(i, n) /\ UNCHANGED <<name, pin, up, moves>>

End(i) == st[i] \in Nodes /\ Set(i, "over") /\ UNCHANGED <<name, pin, up, moves>>

Recover(n) == n \notin up /\ up' = up \cup {n} /\ UNCHANGED <<st, name, pin, moves>>

\* scancel, scontrol release and hold, and a node that drains.
Disturb ==
  /\ moves < MaxMoves /\ moves' = moves + 1 /\ UNCHANGED name
  /\ \/ \E i \in Live : Set(i, "over") /\ UNCHANGED <<pin, up>>
     \/ \E i \in Held : Set(i, "pending") /\ UNCHANGED <<pin, up>>
     \/ \E i \in Live : st[i] = "pending" /\ Set(i, "held") /\ UNCHANGED <<pin, up>>
     \/ \E n \in up : up' = up \ {n} /\ UNCHANGED <<st, pin>>

Slurm == /\ \/ \E i \in Ids, n \in Nodes : Start(i, n)
            \/ \E i \in Ids : End(i)
            \/ \E n \in Nodes : Recover(n)
            \/ Disturb
         /\ UNCHANGED <<harness, control, faults>>

-----------------------------------------------------------------------------
(* The harness: submit_stream, then wait_drain *)

\* sbatch_cmd holds the jobs of every arm but "score".
Hold == IF arm = "score" THEN "pending" ELSE "held"

\* Slurm takes the job; its number is the next one.
Taken == LET i == Cardinality(Used) + 1 IN
  /\ Set(i, Hold) /\ name' = [name EXCEPT ![i] = next] /\ UNCHANGED <<pin, up>>

NextJob ==
  /\ next' = next + 1 /\ tries' = Attempts
  /\ bench' = IF next = Stream THEN "drain" ELSE "submit"

SubmitOk == Taken /\ Sound /\ NextJob

\* The reply is lost, or Slurm did not take it; after the last attempt the job is left out.
SubmitFails ==
  /\ Fault /\ (Taken \/ UNCHANGED slurm)
  /\ IF tries > 1 THEN tries' = tries - 1 /\ UNCHANGED <<bench, next>> ELSE NextJob

Submit == /\ bench = "submit" /\ (SubmitOk \/ SubmitFails)
          /\ UNCHANGED <<arm, empties, control>>

\* One poll of wait_drain: only an answer counts, and only Confirm empty ones in a row.
CountFailedAsEmpty(failed) == IF failed \/ Live = {} THEN empties + 1 ELSE 0   \* mutant
Count(failed) == IF ~failed /\ Live = {} THEN empties + 1 ELSE 0

Poll ==
  /\ bench = "drain"
  /\ \E failed \in BOOLEAN : empties' = Count(failed)
  /\ bench' = IF empties' >= Confirm THEN "drained" ELSE "drain"
  /\ UNCHANGED <<arm, next, tries, slurm, control, budget>>

GiveUp == \* timeout_s
  /\ bench = "drain" /\ Live # {} /\ bench' = "gaveUp"
  /\ UNCHANGED <<arm, next, tries, empties, slurm, control, budget>>

-----------------------------------------------------------------------------
(* The controller: choose_and_apply, again and again *)

Restart == pc' = "jobs" /\ view' = NoView /\ choice' = NoChoice

ReadJobs ==
  /\ pc = "jobs" /\ Held # {}
  /\ view' = [NoView EXCEPT !.jobs = Held] /\ pc' = "nodes"
  /\ UNCHANGED <<choice, slurm, harness, budget>>

\* trim_nodes_to_model_topology keeps the first of the available nodes.
Available == SelectSeq(NodeList, LAMBDA n : n \in up)
Trimmed == SubSeq(Available, 1, Min({ModelNodes, Len(Available)}))

ReadNodes ==
  /\ pc = "nodes"
  /\ IF up = {} THEN Restart
     ELSE /\ view' = [view EXCEPT !.nodes = Trimmed, !.free = [i \in DOMAIN Trimmed |-> Free(Trimmed[i])]]
          /\ pc' = "act" /\ UNCHANGED choice
  /\ UNCHANGED <<slurm, harness, budget>>

\* build_act_payload: the window, and per job the nodes it may use.
Window == { i \in view.jobs : Cardinality({ h \in view.jobs : h < i }) < TopK }
AllowedByType(i, k) == view.nodes[k] \in Eligible[name[i]]   \* mutant: required_nodes is not looked at
Allowed(i, k) == /\ view.nodes[k] \in Eligible[name[i]]
                 /\ pin[i] \in {view.nodes[k], AnyNode}
Placeable == { p \in [job : Window, index : DOMAIN view.nodes] :
                 Allowed(p.job, p.index) /\ view.free[p.index] >= Need(p.job) }

\* The service only answers with what its mask allows; no-op when that is nothing.
Act ==
  /\ pc = "act"
  /\ IF Placeable = {} THEN Restart
     ELSE choice' \in Placeable /\ pc' = "apply" /\ UNCHANGED view
  /\ UNCHANGED <<slurm, harness, budget>>

\* The index is one of the list the request was made of.
ResolveInAll == NodeList[choice.index]        \* mutant: of all the nodes
Resolve == view.nodes[choice.index]

\* One POST pins and releases.
PinnedOnly(i, n) == \* mutant: the hold is not released
  /\ st[i] \in {"held", "pending"}
  /\ pin' = [pin EXCEPT ![i] = n] /\ UNCHANGED <<st, name, up>>
Placed(i, n) ==
  /\ st[i] \in {"held", "pending"}
  /\ pin' = [pin EXCEPT ![i] = n] /\ Set(i, "pending") /\ UNCHANGED <<name, up>>

Apply ==
  /\ pc = "apply" /\ Placed(choice.job, Resolve)
  /\ (Sound \/ Fault) /\ Restart /\ UNCHANGED harness

\* The job runs or is over and Slurm refuses, or a request fails: the next cycle
\* starts with a read.
RefusedEnds == \* mutant: an error ends the loop
  /\ \/ pc = "apply" /\ st[choice.job] \notin {"held", "pending"} /\ Sound
     \/ Fault
  /\ pc' = "ended" /\ UNCHANGED <<view, choice, slurm, harness>>
Refused ==
  /\ \/ pc = "apply" /\ st[choice.job] \notin {"held", "pending"} /\ Sound
     \/ Fault
  /\ Restart /\ UNCHANGED <<slurm, harness>>

Controller == ReadJobs \/ ReadNodes \/ Act \/ Apply \/ Refused

Init ==
  /\ st = [i \in Ids |-> "none"] /\ name = [i \in Ids |-> 0] /\ pin = [i \in Ids |-> AnyNode]
  /\ up = Nodes /\ arm \in {"score", "rl"}
  /\ bench = "submit" /\ next = 1 /\ tries = Attempts /\ empties = 0
  /\ pc = "jobs" /\ view = NoView /\ choice = NoChoice /\ faults = 0 /\ moves = 0

Harness == Submit \/ Poll \/ GiveUp
Next == Slurm \/ Harness \/ Controller
Spec == Init /\ [][Next]_vars

\* Both programs go on, running jobs end, drained nodes come back, and Slurm starts
\* a job that fits again and again.
FairSpec ==
  /\ Spec /\ WF_vars(Controller) /\ WF_vars(Submit)
  /\ \A i \in Ids : WF_vars(End(i) /\ UNCHANGED <<harness, control, faults>>)
  /\ \A n \in Nodes : WF_vars(Recover(n) /\ UNCHANGED <<harness, control, faults>>)
  /\ \A i \in Ids :
       SF_vars(\E n \in Nodes : Start(i, n) /\ UNCHANGED <<harness, control, faults>>)

-----------------------------------------------------------------------------
(* Properties *)

\* wait_drain reports that the queue is empty only when it is: a squeue that fails,
\* or jobs that were submitted twice, do not make it end early.
DrainedMeansOver == bench = "drained" => Live = {}

\* Every pin is to a node its GPU type allows, although nodes leave the list and come
\* back while the index of the decision is on its way, and it stays: a second decision
\* for a job that a user held again keeps the node.
PinsAreSound ==
  [][\A i \in Ids : pin'[i] # pin[i] => pin[i] = AnyNode /\ pin'[i] \in Eligible[name[i]]]_vars

\* Under a policy that places a job when one fits, every held job leaves the hold and
\* every job of the stream is over, whatever requests failed. One case is excepted: a job
\* that was pinned beyond the model's topology, while an earlier node was drained, and
\* held again after it came back. It is not placed again, and may fill the window.
OutOfReach(i) == pin[i] \in Nodes \ Range(SubSeq(NodeList, 1, ModelNodes))
StreamEnds ==
  <>(bench # "submit" /\ Live = {}) \/ <>[](\E i \in Held : OutOfReach(i))

\* A retried sbatch leaves no job of the stream out and adds at most one job for each request
\* that failed, unless every attempt for some job failed (submit_stream).
StreamIsSubmitted ==
  /\ Cardinality(Used) <= next - 1 + faults
  /\ \A k \in 1 .. next - 1 :
       /\ Cardinality({ i \in Used : name[i] = k }) <= Attempts
       /\ faults < Attempts => \E i \in Used : name[i] = k
============================================================================
