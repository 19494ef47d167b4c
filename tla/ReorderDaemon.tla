--------------------------- MODULE ReorderDaemon ---------------------------
(***************************************************************************)
(* services/rl_scheduler/reorder_daemon.py: every cycle reads the queue    *)
(* and the nodes, has the policy rank the eligible jobs, reads again,      *)
(* writes one Slurm priority per job and reads those back.  A cycle that   *)
(* fails while it writes restores the priorities it found; starting,       *)
(* failing and stopping reset every priority in the reserved band.         *)
(*                                                                         *)
(* slurmctld and the users move between any two requests.  A priority is 0 *)
(* for a held job, Normal for what Slurm computes (also what writing       *)
(* INFINITE leads to), and in Band for a rank.  Spacing is 1.              *)
(***************************************************************************)
EXTENDS Naturals, Sequences, FiniteSets, FiniteSetsExt, SequencesExt

CONSTANTS
  NJobs,       \* jobs 1 .. NJobs, in the order of their submission
  Nodes,       \* the node_names of the checkpoint
  Cap,         \* MPS of a node
  Req,         \* MPS request of each job
  TopK,        \* TOP_K: jobs the policy sees at once
  MaxJobs,     \* max_jobs, the length of the band
  MaxFaults,   \* bound: REST requests that fail
  MaxEdits,    \* bound: changes users make to their jobs, requeues among them
  MaxCrashes,  \* bound: kills of the daemon
  Garbles      \* Slurm may store 0 for a rank

Jobs == 1 .. NJobs

ASSUME ReorderAssumption ==
  /\ NJobs \in Nat /\ Cap \in Nat /\ TopK \in Nat /\ MaxJobs \in Nat \ {0}
  /\ Req \in [Jobs -> Nat \ {0}] /\ Garbles \in BOOLEAN
  /\ MaxFaults \in Nat /\ MaxEdits \in Nat /\ MaxCrashes \in Nat
  /\ Nodes \cap {"new", "pending", "over"} = {}

VARIABLES
  st,        \* per job: new, pending, over, or the node it runs on
  prio,      \* per job: its priority in Slurm
  inScope,   \* jobs in a GPU partition with one GPU and an explicit MPS request
  held,      \* jobs their users hold
  edits,     \* changes made by users
  back,      \* jobs requeued with a rank since the daemon last ranked or reset them
  pc,        \* where the daemon is
  after,     \* what the reset in progress belongs to
  seen,      \* the state a cycle works on
  plan,      \* the order it writes
  todo,      \* jobs a write loop still has to do
  clean,     \* the last thing the daemon knows: no rank is in the queue
  faults, crashes

world  == <<st, inScope, held, edits>>
ranks  == <<prio, back>>
budget == <<faults, crashes>>
vars == <<world, ranks, pc, after, seen, plan, todo, clean, budget>>

Normal == 1
Base   == Normal + MaxJobs
Band   == Base - (MaxJobs - 1) .. Base
RankFlat(i) == Base                  \* mutant: no spacing
Rank(i) == Base - (i - 1)

Pending == { j \in Jobs : st[j] = "pending" }
Owned   == { j \in Pending : prio[j] \in Band }
Free(n) == Cap - MapThenSumSet(LAMBDA j : Req[j], { j \in Jobs : st[j] = n })

\* What _read_state returns and _state_signature compares.
Eligible == { j \in Pending \cap inScope : prio[j] > 0 }
Priorities(S) == [j \in S |-> prio[j]]
FreeMPS == [n \in Nodes |-> Free(n)]
Blank == [prio |-> << >>, free |-> << >>]
Ranked == DOMAIN seen.prio

-----------------------------------------------------------------------------
(* Slurm and its users *)

Move(j, s) == st' = [st EXCEPT ![j] = s]

Submit(j) ==
  /\ st[j] = "new" /\ \A i \in 1 .. j - 1 : st[i] # "new"
  /\ Move(j, "pending") /\ prio' = [prio EXCEPT ![j] = Normal]
  /\ UNCHANGED <<inScope, held, edits>>

Start(j, n) ==
  /\ j \in Pending /\ prio[j] > 0 /\ Free(n) >= Req[j]
  /\ Move(j, n) /\ UNCHANGED <<prio, inScope, held, edits>>

End(j) == \* a job ends, or is cancelled while it waits
  /\ st[j] \in Nodes \cup {"pending"}
  /\ Move(j, "over") /\ UNCHANGED <<prio, inScope, held, edits>>

\* scontrol hold and release, or another partition.
Edit(j) ==
  /\ j \in Pending /\ edits < MaxEdits /\ edits' = edits + 1
  /\ \/ held' = held \cup {j} /\ prio' = [prio EXCEPT ![j] = 0] /\ UNCHANGED inScope
     \/ j \in held /\ held' = held \ {j} /\ prio' = [prio EXCEPT ![j] = Normal] /\ UNCHANGED inScope
     \/ j \in inScope /\ inScope' = inScope \ {j} /\ UNCHANGED <<prio, held>>
  /\ UNCHANGED st

\* scontrol requeue, or a node that is lost.  Slurm may keep the priority that was
\* written.
Requeue(j) ==
  /\ st[j] \in Nodes /\ edits < MaxEdits /\ edits' = edits + 1
  /\ Move(j, "pending") /\ prio' \in {prio, [prio EXCEPT ![j] = Normal]}
  /\ back' = IF prio'[j] = Normal THEN back ELSE back \cup {j}
  /\ held' = held \ {j} /\ UNCHANGED inScope

World ==
  /\ \E j \in Jobs :
       \/ Requeue(j)
       \/ (Submit(j) \/ End(j) \/ Edit(j) \/ \E n \in Nodes : Start(j, n)) /\ UNCHANGED back
  /\ UNCHANGED <<pc, after, seen, plan, todo, clean, budget>>

-----------------------------------------------------------------------------
(* Requests.  A job that is over may refuse a priority, a request may fail  *)
(* before or after Slurm acted on it.                                      *)

Stored(j, p) == IF j \in Pending THEN [prio EXCEPT ![j] = p] ELSE prio

Accepted(j, p) == prio' = Stored(j, p) /\ UNCHANGED budget

Fault == faults < MaxFaults /\ faults' = faults + 1 /\ UNCHANGED crashes

Refused(j, p) ==
  \/ j \notin Pending /\ UNCHANGED <<prio, budget>>
  \/ Fault /\ prio' \in {prio, Stored(j, p)}

-----------------------------------------------------------------------------
(* One cycle *)

Goto(l) == pc' = l
BeginReset(a) == Goto("reset") /\ after' = a
Forget == seen' = Blank /\ plan' = << >> /\ todo' = {}

\* rank_pending: a policy picks feasible (job, node) pairs among the TopK oldest
\* until it has no more; the rest follows in the order of submission.
Oldest(S) == { j \in S : Cardinality({ i \in S : i < j }) < TopK }
Fits(order, node) ==
  \A i \in DOMAIN node :
    /\ order[i] \in Oldest(Ranked \ { order[k] : k \in 1 .. i - 1 })
    /\ Req[order[i]] + MapThenSumSet(LAMBDA k : Req[order[k]], { k \in 1 .. i - 1 : node[k] = node[i] })
         <= seen.free[node[i]]
Rankings ==
  { order \in SetToSeqs(Ranked) :
      \E k \in 0 .. Len(order) :
        /\ \E node \in [1 .. k -> Nodes] : Fits(order, node)
        /\ \A i, l \in k + 1 .. Len(order) : i < l => order[i] < order[l] }

ReadJobs ==
  /\ pc = "wait" /\ Eligible # {} /\ Cardinality(Eligible) <= MaxJobs
  /\ seen' = [Blank EXCEPT !.prio = Priorities(Eligible)] /\ plan' = << >>
  /\ Goto("readNodes")
  /\ UNCHANGED <<world, ranks, after, todo, clean, budget>>

ReadNodes ==
  /\ pc = "readNodes" /\ seen' = [seen EXCEPT !.free = FreeMPS] /\ Goto("rank")
  /\ UNCHANGED <<world, ranks, after, plan, todo, clean, budget>>

RankPending ==
  /\ pc = "rank" /\ plan' \in Rankings /\ Goto("compare")
  /\ UNCHANGED <<world, ranks, after, seen, todo, clean, budget>>

\* A rank that is there already is not written again.
ToWrite == { i \in DOMAIN plan : seen.prio[plan[i]] # Rank(i) }

CompareJobs ==
  /\ pc = "compare" /\ Priorities(Eligible) = seen.prio /\ Goto("compareNodes")
  /\ UNCHANGED <<world, ranks, after, seen, plan, todo, clean, budget>>

CompareNodes ==
  /\ pc = "compareNodes" /\ FreeMPS = seen.free
  /\ todo' = ToWrite /\ Goto("write")
  /\ UNCHANGED <<world, ranks, after, seen, plan, clean, budget>>

\* The state changed, a request before the writes failed, the policy's answer was
\* unusable, the queue is too long or the deadline is over: nothing is written.
SkipCycle ==
  /\ pc \in {"wait", "readNodes", "rank", "compare", "compareNodes"}
  /\ Forget /\ BeginReset("main")
  /\ UNCHANGED <<world, ranks, clean, budget>>

SetPriority ==
  /\ pc = "write" /\ todo # {}
  /\ LET i == Min(todo) IN
     /\ clean' = FALSE
     /\ \/ /\ \/ Accepted(plan[i], Rank(i))
              \/ Garbles /\ Accepted(plan[i], 0)
           /\ back' = back \ {plan[i]} /\ todo' = todo \ {i} /\ UNCHANGED pc
        \/ Refused(plan[i], Rank(i)) /\ Goto("restore") /\ UNCHANGED <<back, todo>>
  /\ UNCHANGED <<world, after, seen, plan>>

AllWritten == pc = "write" /\ todo = {} /\ Goto("verify")
              /\ UNCHANGED <<world, ranks, after, seen, plan, todo, clean, budget>>

RoundTrip == \A i \in DOMAIN plan : plan[i] \in Pending => prio[plan[i]] = Rank(i)

Verify ==
  /\ pc = "verify" /\ RoundTrip /\ Goto("wait") /\ seen' = Blank
  /\ UNCHANGED <<world, ranks, after, plan, todo, clean, budget>>

\* A mismatch, or the deadline between two writes.
FailCycle ==
  /\ pc = "write" \/ (pc = "verify" /\ ~RoundTrip)
  /\ Goto("restore")
  /\ UNCHANGED <<world, ranks, after, seen, plan, todo, clean, budget>>

\* _restore_cycle_priorities: the read, then the writes.
ToRestoreBand == Ranked \cap Owned   \* mutant: only the ranks that arrived
ToRestore == { j \in Ranked \cap Pending : prio[j] # seen.prio[j] }

Restore ==
  /\ pc = "restore" /\ todo' = ToRestore
  /\ Goto("restoring")
  /\ UNCHANGED <<world, ranks, after, seen, plan, clean, budget>>

RestoreOne(j) ==
  /\ pc = "restoring" /\ j \in todo
  /\ \/ Accepted(j, seen.prio[j]) /\ todo' = todo \ {j} /\ UNCHANGED <<pc, after, seen, plan>>
     \/ Refused(j, seen.prio[j]) /\ Forget /\ BeginReset("cycle")
  /\ UNCHANGED <<world, back, clean>>

Restored ==
  /\ pc = "restoring" /\ todo = {} /\ Forget /\ BeginReset("cycle")
  /\ UNCHANGED <<world, ranks, clean, budget>>

-----------------------------------------------------------------------------
(* reset_owned_priorities, and where main goes from there *)

\* Every pending job in the band, in scope or not.
ToResetInScope == Owned \cap Eligible   \* mutant: only what the cycles look at
ToReset == Owned

ResetRead ==
  /\ pc = "reset" /\ seen' = [Blank EXCEPT !.prio = Priorities(ToReset)]
  /\ todo' = ToReset /\ Goto("resetting")
  /\ UNCHANGED <<world, ranks, after, plan, clean, budget>>

ResetDone(ok) ==
  /\ clean' = (clean \/ ok) /\ Forget
  /\ \/ after = "boot" /\ ok /\ Goto("wait") /\ UNCHANGED after
     \/ after = "boot" /\ ~ok /\ BeginReset("stop")
     \/ after = "cycle" /\ BeginReset("main")
     \/ after = "main" /\ Goto("wait") /\ UNCHANGED after
     \/ after = "stop" /\ Goto("down") /\ UNCHANGED after

ResetOne(j) ==
  /\ pc = "resetting" /\ j \in todo
  /\ \/ /\ Accepted(j, Normal) /\ back' = back \ {j} /\ todo' = todo \ {j}
        /\ UNCHANGED <<pc, after, seen, plan, clean>>
     \/ Refused(j, Normal) /\ ResetDone(FALSE) /\ UNCHANGED back
  /\ UNCHANGED world

\* A job that waits in the band, or with 0, fails the reset.
ResetVerify ==
  /\ pc = "resetting" /\ todo = {}
  /\ ResetDone(\A j \in Ranked \cap Pending : prio[j] \notin Band \cup {0})
  /\ UNCHANGED <<world, ranks, budget>>

ResetFails ==
  /\ pc \in {"reset", "resetting"} /\ Fault /\ ResetDone(FALSE)
  /\ UNCHANGED <<world, ranks>>

-----------------------------------------------------------------------------
(* The process: SIGTERM between two cycles, a kill at any time, and the    *)
(* Deployment that starts it again.                                        *)

Stop == /\ pc = "wait" /\ Forget /\ BeginReset("stop")
        /\ UNCHANGED <<world, ranks, clean, budget>>

Crash ==
  /\ pc # "down" /\ crashes < MaxCrashes /\ crashes' = crashes + 1
  /\ Goto("down") /\ clean' = FALSE /\ Forget
  /\ UNCHANGED <<world, ranks, after, faults>>

BootUnclean == \* mutant: no reset at the start
  /\ pc = "down" /\ clean' = FALSE /\ Goto("wait")
  /\ UNCHANGED <<world, ranks, after, seen, plan, todo, budget>>

Boot == /\ pc = "down" /\ clean' = FALSE /\ BeginReset("boot")
        /\ UNCHANGED <<world, ranks, seen, plan, todo, budget>>

Init ==
  /\ st = [j \in Jobs |-> "new"] /\ prio = [j \in Jobs |-> Normal]
  /\ inScope = Jobs /\ held = {} /\ edits = 0 /\ back = {}
  /\ pc = "down" /\ after = "boot" /\ seen = Blank /\ plan = << >> /\ todo = {}
  /\ clean = FALSE /\ faults = 0 /\ crashes = 0

Cycle ==
  \/ ReadJobs \/ ReadNodes \/ RankPending \/ CompareJobs \/ CompareNodes \/ SkipCycle
  \/ SetPriority \/ AllWritten \/ Verify \/ FailCycle
  \/ Restore \/ Restored \/ \E j \in Jobs : RestoreOne(j)

Reset == ResetRead \/ ResetVerify \/ ResetFails \/ \E j \in Jobs : ResetOne(j)

Next == World \/ Cycle \/ Reset \/ Stop \/ Crash \/ Boot

Spec == Init /\ [][Next]_vars
\* The Deployment restarts the container, and the daemon does not stop in a reset.
FairSpec == Spec /\ WF_vars(Reset) /\ WF_vars(Boot)

-----------------------------------------------------------------------------
(* Properties *)

\* A reset whose read-back succeeded leaves no pending job in the band, whatever
\* partition or hold its job has moved to meanwhile, until the next rank is written; only
\* a job that ran with a rank, which a reset does not look at, can bring it back.
ResetClearsBand == pc = "wait" /\ clean => Owned \subseteq back

\* After a cycle that verified its writes, the jobs that still have a rank of it
\* have them in the order the policy gave; one requeued since may have an older rank.
RankedInPolicyOrder ==
  pc = "wait" =>
    \A i, k \in DOMAIN plan :
      i < k /\ {plan[i], plan[k]} \subseteq Owned \ back => prio[plan[i]] > prio[plan[k]]

\* When the rollback of a failed cycle is through, no job keeps what the cycle wrote,
\* in particular not the 0 that Slurm stored for a rank, which holds the job: it has
\* the priority it was found with, or what its user or Slurm made of it since, unless it
\* ran while the rollback looked.
RollBackRestores ==
  pc = "restoring" /\ todo = {} =>
    \A j \in (Ranked \cap Pending) \ back :
      prio[j] \in {seen.prio[j], IF j \in held THEN 0 ELSE Normal}

\* Every rank that a killed daemon, or one that could not clean up, left in the queue is
\* reset once it is back, or its job starts or ends before.
LeftoverRanksAreReset == \A j \in Jobs : (pc = "down" /\ j \in Owned) ~> j \notin Owned
============================================================================
