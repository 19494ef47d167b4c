------------------------ MODULE ReorderDaemonProofs ------------------------
(***************************************************************************)
(* Proofs about ReorderDaemon, for any number of jobs, nodes, edits,       *)
(* faults, requeues and kills: only a job that ran brings a rank back      *)
(* after a clean reset, verified ranks follow the policy's order, and a    *)
(* rollback gives back what the cycle found.                               *)
(***************************************************************************)
EXTENDS ReorderDaemon, FiniteSetTheorems, TLAPS

(* The inductive invariant *)

Cycling == {"readNodes", "rank", "compare", "compareNodes", "write", "verify", "restore", "restoring"}

Shape ==
  /\ st = [j \in Jobs |-> st[j]] /\ prio = [j \in Jobs |-> prio[j]]
  /\ seen = [prio |-> seen.prio, free |-> seen.free]
  /\ DOMAIN plan \subseteq Nat /\ clean \in BOOLEAN

\* What a cycle found is of jobs that were submitted, and if the queue was known to have
\* no rank, only of a job that came back with one.
FoundInv ==
  pc \in Cycling =>
    /\ Ranked \subseteq { j \in Jobs : st[j] # "new" }
    /\ clean => \A j \in Ranked : seen.prio[j] \in Band => j \in back

\* The reset in progress knows of every rank, except of those that came back.
ResetInv == pc = "resetting" => todo \subseteq Ranked /\ Owned \subseteq Ranked \cup back

\* What the rollback does not have to write any more is as it was found, or as Slurm or
\* a user made it since.
Given(j) == IF j \in held THEN 0 ELSE Normal
RestoreInv ==
  pc = "restoring" =>
    /\ todo \subseteq Ranked
    /\ \A j \in (Ranked \cap Pending) \ (todo \cup back) : prio[j] \in {seen.prio[j], Given(j)}

\* After a cycle, a rank is that of its job's place in the plan.
PlanInv ==
  pc = "wait" => \A i \in DOMAIN plan : plan[i] \in Owned \ back => prio[plan[i]] = Rank(i)

CleanInv == clean => Owned \subseteq back

ReorderInv == Shape /\ FoundInv /\ ResetInv /\ RestoreInv /\ PlanInv /\ CleanInv

-----------------------------------------------------------------------------
(* What Slurm and the users do *)

\* Neither what Slurm computes nor a hold is in the reserved band.
LEMMA NormalIsNoRank == Normal \notin Band /\ 0 \notin Band
  BY ReorderAssumption DEF Normal, Band, Base

\* No rank appears in the queue or changes by itself, except that of a job that comes
\* back with it.
LEMMA WorldStep ==
  ASSUME Shape, World
  PROVE  /\ Shape' /\ UNCHANGED <<pc, seen, plan, todo, clean>>
         /\ back \subseteq back'
         /\ \A j \in Owned' \ back' : j \in Owned /\ prio'[j] = prio[j]
         /\ \A j \in Jobs : st[j] # "new" =>
              /\ st'[j] # "new"
              /\ j \in Pending' \ back' =>
                   \/ prio'[j] = Given(j)'
                   \/ j \in Pending /\ prio'[j] = prio[j] /\ Given(j)' = Given(j)
<1>. USE DEF Shape
<1>1. PICK k \in Jobs :
        \/ Requeue(k)
        \/ (Submit(k) \/ End(k) \/ Edit(k) \/ \E n \in Nodes : Start(k, n)) /\ UNCHANGED back
  BY DEF World
<1>2. UNCHANGED <<pc, seen, plan, todo, clean>>
  BY DEF World
<1>3. CASE Submit(k) /\ UNCHANGED back
  <2>1. /\ st[k] = "new" /\ st' = [st EXCEPT ![k] = "pending"]
        /\ prio' = [prio EXCEPT ![k] = Normal] /\ held' = held /\ back' = back
    BY <1>3 DEF Submit, Move
  <2>. QED BY <1>2, <2>1, NormalIsNoRank DEF Owned, Pending, Given
<1>4. CASE End(k) /\ UNCHANGED back
  <2>1. st' = [st EXCEPT ![k] = "over"] /\ prio' = prio /\ held' = held /\ back' = back
    BY <1>4 DEF End, Move
  <2>. QED BY <1>2, <2>1 DEF Owned, Pending, Given
<1>5. CASE Edit(k) /\ UNCHANGED back
  <2>1. /\ st' = st /\ st[k] = "pending" /\ back' = back
        /\ \/ held' = held \cup {k} /\ prio' = [prio EXCEPT ![k] = 0]
           \/ k \in held /\ held' = held \ {k} /\ prio' = [prio EXCEPT ![k] = Normal]
           \/ prio' = prio /\ held' = held
    BY <1>5 DEF Edit, Pending
  <2>. QED BY <1>2, <2>1, NormalIsNoRank DEF Owned, Pending, Given
<1>6. CASE (\E n \in Nodes : Start(k, n)) /\ UNCHANGED back
  <2>1. PICK n \in Nodes : st' = [st EXCEPT ![k] = n] /\ UNCHANGED <<prio, held, back>>
    BY <1>6 DEF Start, Move
  <2>2. n # "new" /\ n # "pending"
    BY ReorderAssumption
  <2>. QED BY <1>2, <2>1, <2>2 DEF Owned, Pending, Given
<1>7. CASE Requeue(k)
  <2>1. /\ st' = [st EXCEPT ![k] = "pending"] /\ st[k] \in Nodes /\ held' = held \ {k}
        /\ prio' = prio \/ prio' = [prio EXCEPT ![k] = Normal]
        /\ back' = IF prio'[k] = Normal THEN back ELSE back \cup {k}
    BY <1>7 DEF Requeue, Move
  <2>2. k \notin back' => prio'[k] = Normal
    BY <2>1
  <2>3. \A j \in Jobs \ {k} : st'[j] = st[j] /\ prio'[j] = prio[j] /\ (j \in held' <=> j \in held)
    BY <2>1
  <2>4. k \notin Owned' \ back'
    BY <2>2, NormalIsNoRank DEF Owned
  <2>5. \A j \in Owned' \ back' : j \in Owned /\ prio'[j] = prio[j]
    BY <2>3, <2>4 DEF Owned, Pending
  <2>6. Shape' /\ back \subseteq back'
    BY <1>2, <2>1
  <2>. QED BY <1>2, <2>1, <2>2, <2>3, <2>5, <2>6 DEF Pending, Given
<1>. QED BY <1>1, <1>3, <1>4, <1>5, <1>6, <1>7

LEMMA WorldKeeps == ReorderInv /\ World => ReorderInv'
<1>. SUFFICES ASSUME ReorderInv, World PROVE ReorderInv'
  OBVIOUS
<1>. USE DEF ReorderInv
<1>1. Shape' /\ UNCHANGED <<pc, seen, plan, todo, clean>> /\ Ranked' = Ranked
  BY WorldStep DEF Ranked
<1>2. FoundInv'
  BY <1>1, WorldStep DEF FoundInv
<1>3. ResetInv' /\ CleanInv'
  BY <1>1, WorldStep DEF ResetInv, CleanInv
<1>4. PlanInv'
  BY <1>1, WorldStep DEF PlanInv, Rank
<1>5. RestoreInv'
  <2>. SUFFICES ASSUME pc = "restoring", NEW j \in (Ranked \cap Pending') \ (todo \cup back')
                PROVE  prio'[j] \in {seen.prio[j], Given(j)'}
    BY <1>1 DEF RestoreInv
  <2>1. j \in Jobs /\ st[j] # "new"
    BY DEF FoundInv, Cycling
  <2>2. \/ prio'[j] = Given(j)'
        \/ j \in Pending /\ prio'[j] = prio[j] /\ Given(j)' = Given(j)
    BY <2>1, WorldStep
  <2>3. j \notin back
    BY WorldStep
  <2>4. j \in Pending => prio[j] \in {seen.prio[j], Given(j)}
    BY <2>3 DEF RestoreInv
  <2>. QED BY <2>2, <2>4
<1>. QED BY <1>1, <1>2, <1>3, <1>4, <1>5

-----------------------------------------------------------------------------
(* Requests *)

\* A request that is refused, or accepted, at most writes the priority it asked for.
LEMMA WriteStep ==
  ASSUME Shape, NEW j, NEW p, Accepted(j, p) \/ Refused(j, p), UNCHANGED <<seen, plan, clean>>, st' = st
  PROVE  /\ prio' = [i \in Jobs |-> prio'[i]]
         /\ \A i \in Jobs : i # j => prio'[i] = prio[i]
         /\ j \in Jobs => prio'[j] \in {prio[j], p}
         /\ Accepted(j, p) /\ j \in Pending /\ j \in Jobs => prio'[j] = p
  BY DEF Shape, Accepted, Refused, Stored

\* Forgetting a cycle or a reset leaves the queue as it is.
LEMMA ForgetStep ==
  ASSUME Shape, CleanInv, Forget, st' = st, prio' = [j \in Jobs |-> prio'[j]],
         clean' \in BOOLEAN, clean' => Owned' \subseteq back', pc' # "resetting"
  PROVE  ReorderInv'
<1>1. seen' = Blank /\ plan' = << >> /\ todo' = {}
  BY DEF Forget
<1>2. Ranked' = {} /\ DOMAIN plan' = {}
  BY <1>1 DEF Ranked, Blank
<1>3. Shape'
  BY <1>1, <1>2 DEF Shape, Blank
<1>4. FoundInv' /\ ResetInv' /\ RestoreInv' /\ PlanInv'
  BY <1>1, <1>2 DEF FoundInv, ResetInv, RestoreInv, PlanInv
<1>5. CleanInv'
  BY DEF CleanInv
<1>. QED BY <1>3, <1>4, <1>5 DEF ReorderInv

-----------------------------------------------------------------------------
(* A cycle *)

LEMMA CycleKeeps == ReorderInv /\ Cycle => ReorderInv'
<1>. SUFFICES ASSUME ReorderInv, Cycle PROVE ReorderInv'
  OBVIOUS
<1>. USE DEF ReorderInv, Shape, Goto, world, ranks
<1>1. CASE ReadJobs
  <2>1. seen' = [prio |-> Priorities(Eligible), free |-> << >>] /\ plan' = << >> /\ pc' = "readNodes"
        /\ UNCHANGED <<st, prio, back, clean>>
    BY <1>1 DEF ReadJobs, Blank
  <2>2. Ranked' = Eligible /\ \A j \in Ranked' : seen'.prio[j] = prio[j]
    BY <2>1 DEF Ranked, Priorities
  <2>3. Shape' /\ Owned' = Owned
    BY <2>1 DEF Owned, Pending
  <2>4. FoundInv'
    BY <2>1, <2>2 DEF FoundInv, Eligible, Pending, Owned, CleanInv
  <2>. QED BY <2>1, <2>3, <2>4 DEF ResetInv, RestoreInv, PlanInv, CleanInv
<1>2. CASE ReadNodes
  <2>1. seen' = [seen EXCEPT !.free = FreeMPS] /\ UNCHANGED <<st, prio, back, plan, todo, clean>>
        /\ pc = "readNodes" /\ pc' = "rank"
    BY <1>2 DEF ReadNodes
  <2>2. seen' = [prio |-> seen.prio, free |-> FreeMPS]
    BY <2>1
  <2>3. Shape' /\ Owned' = Owned /\ Ranked' = Ranked /\ seen'.prio = seen.prio
    BY <2>1, <2>2 DEF Owned, Pending, Ranked
  <2>. QED BY <2>1, <2>3 DEF FoundInv, ResetInv, RestoreInv, PlanInv, CleanInv, Cycling
<1>3. CASE RankPending
  <2>1. plan' \in Rankings /\ UNCHANGED <<st, prio, back, seen, todo, clean>> /\ pc = "rank" /\ pc' = "compare"
    BY <1>3 DEF RankPending
  <2>2. IsFiniteSet(Ranked)
    <3>1. Ranked \subseteq Jobs
      BY <2>1 DEF FoundInv, Cycling
    <3>2. 1 \in Int /\ NJobs \in Int
      BY ReorderAssumption
    <3>3. IsFiniteSet(1 .. NJobs)
      BY <3>2, FS_Interval
    <3>. QED BY <3>1, <3>3, FS_Subset DEF Jobs
  <2>3. Cardinality(Ranked) \in Nat
    BY <2>2, FS_CardinalityType
  <2>4. DOMAIN plan' = 1 .. Cardinality(Ranked)
    BY <2>1 DEF Rankings, SetToSeqs
  <2>5. Shape' /\ Owned' = Owned /\ Ranked' = Ranked
    BY <2>1, <2>3, <2>4 DEF Owned, Pending, Ranked
  <2>. QED BY <2>1, <2>5 DEF FoundInv, ResetInv, RestoreInv, PlanInv, CleanInv, Cycling
<1>4. CASE CompareJobs \/ CompareNodes \/ AllWritten \/ FailCycle
  <2>1. UNCHANGED <<st, prio, back, seen, plan, clean>> /\ pc \in Cycling /\ pc' \in Cycling \ {"restoring"}
    BY <1>4 DEF CompareJobs, CompareNodes, AllWritten, FailCycle, Cycling
  <2>2. Shape' /\ Owned' = Owned /\ Ranked' = Ranked
    BY <2>1 DEF Owned, Pending, Ranked
  <2>. QED BY <2>1, <2>2 DEF FoundInv, ResetInv, RestoreInv, PlanInv, CleanInv, Cycling
<1>5. CASE SkipCycle
  <2>1. Owned' = Owned /\ back' = back
    BY <1>5 DEF SkipCycle, Owned, Pending
  <2>. QED BY <1>5, <2>1, ForgetStep DEF SkipCycle, BeginReset, CleanInv
<1>6. CASE SetPriority
  <2>. DEFINE i == Min(todo)
  <2>1. /\ Accepted(plan[i], Rank(i)) \/ Accepted(plan[i], 0) \/ Refused(plan[i], Rank(i))
        /\ clean' = FALSE /\ pc = "write" /\ pc' \in {"write", "restore"}
        /\ UNCHANGED <<st, seen, plan>>
    BY <1>6 DEF SetPriority
  <2>2. prio' = [j \in Jobs |-> prio'[j]]
    BY <2>1 DEF Accepted, Refused, Stored
  <2>3. Shape' /\ Ranked' = Ranked
    BY <2>1, <2>2 DEF Ranked
  <2>. QED BY <2>1, <2>3 DEF FoundInv, ResetInv, RestoreInv, PlanInv, CleanInv, Cycling
<1>7. CASE Verify
  <2>1. UNCHANGED <<st, prio, back, plan, clean>> /\ seen' = Blank /\ pc' = "wait" /\ RoundTrip
    BY <1>7 DEF Verify
  <2>2. Shape' /\ Owned' = Owned
    BY <2>1 DEF Owned, Pending, Blank
  <2>3. PlanInv'
    BY <2>1, <2>2 DEF PlanInv, RoundTrip, Owned, Rank
  <2>. QED BY <2>1, <2>2, <2>3 DEF FoundInv, ResetInv, RestoreInv, CleanInv, Cycling
<1>8. CASE Restore
  <2>1. UNCHANGED <<st, prio, back, seen, plan, clean, held>> /\ pc = "restore" /\ pc' = "restoring" /\ todo' = ToRestore
    BY <1>8 DEF Restore
  <2>2. Shape' /\ Owned' = Owned /\ Ranked' = Ranked /\ Pending' = Pending
    BY <2>1 DEF Owned, Pending, Ranked
  <2>3. RestoreInv'
    BY <2>1, <2>2 DEF RestoreInv, ToRestore, Given
  <2>. QED BY <2>1, <2>2, <2>3 DEF FoundInv, ResetInv, PlanInv, CleanInv, Cycling
<1>9. CASE Restored
  <2>1. Owned' = Owned /\ back' = back
    BY <1>9 DEF Restored, Owned, Pending
  <2>. QED BY <1>9, <2>1, ForgetStep DEF Restored, BeginReset, CleanInv
<1>10. ASSUME NEW j \in Jobs, RestoreOne(j) PROVE ReorderInv'
  <2>1. /\ pc = "restoring" /\ j \in todo /\ UNCHANGED <<st, held, back, clean>>
        /\ j \in Ranked /\ (clean /\ seen.prio[j] \in Band => j \in back)
    BY <1>10 DEF RestoreOne, RestoreInv, FoundInv, Cycling
  <2>2. Pending' = Pending
    BY <2>1 DEF Pending
  <2>3. /\ prio' = [k \in Jobs |-> prio'[k]] /\ \A k \in Jobs : k # j => prio'[k] = prio[k]
        /\ prio'[j] \in {prio[j], seen.prio[j]}
    BY <1>10, <2>1 DEF RestoreOne, Accepted, Refused, Stored
  <2>4. clean => Owned' \subseteq back
    BY <2>1, <2>2, <2>3 DEF Owned, Pending, CleanInv
  <2>5. CASE Accepted(j, seen.prio[j]) /\ todo' = todo \ {j} /\ UNCHANGED <<pc, after, seen, plan>>
    <3>1. Shape' /\ Ranked' = Ranked /\ seen' = seen /\ pc' = pc
      BY <2>1, <2>3, <2>5 DEF Ranked
    <3>2. j \in Pending => prio'[j] = seen.prio[j]
      BY <2>5 DEF Accepted, Stored
    <3>3. RestoreInv'
      BY <2>1, <2>2, <2>3, <2>5, <3>1, <3>2 DEF RestoreInv, Given, FoundInv, Cycling
    <3>4. CleanInv'
      BY <2>1, <2>4 DEF CleanInv
    <3>. QED BY <2>1, <3>1, <3>3, <3>4 DEF FoundInv, ResetInv, PlanInv
  <2>6. CASE Forget /\ BeginReset("cycle")
    <3>1. seen' = Blank /\ plan' = << >> /\ todo' = {} /\ pc' = "reset"
      BY <2>6 DEF Forget, BeginReset
    <3>2. Shape'
      BY <2>1, <2>3, <3>1 DEF Blank
    <3>3. CleanInv'
      BY <2>1, <2>4 DEF CleanInv
    <3>. QED BY <3>1, <3>2, <3>3 DEF FoundInv, ResetInv, RestoreInv, PlanInv, Cycling
  <2>. QED BY <1>10, <2>5, <2>6 DEF RestoreOne
<1>. QED
  BY <1>1, <1>2, <1>3, <1>4, <1>5, <1>6, <1>7, <1>8, <1>9, <1>10 DEF Cycle

-----------------------------------------------------------------------------
(* A reset, and the process *)

LEMMA ResetKeeps == ReorderInv /\ Reset => ReorderInv'
<1>. SUFFICES ASSUME ReorderInv, Reset PROVE ReorderInv'
  OBVIOUS
<1>. USE DEF ReorderInv
<1>1. ASSUME NEW ok \in BOOLEAN, ResetDone(ok)
      PROVE  Forget /\ clean' = (clean \/ ok) /\ pc' # "resetting"
  BY <1>1 DEF ResetDone, Goto, BeginReset
<1>2. CASE ResetRead
  <2>1. seen' = [prio |-> Priorities(Owned), free |-> << >>] /\ pc' = "resetting"
        /\ todo' = Owned /\ UNCHANGED <<st, prio, back, plan, clean>>
    BY <1>2 DEF ResetRead, ToReset, Blank, Goto, world, ranks
  <2>2. Ranked' = Owned /\ Owned' = Owned
    BY <2>1 DEF Ranked, Priorities, Owned, Pending
  <2>3. Shape'
    BY <2>1 DEF Shape
  <2>. QED BY <2>1, <2>2, <2>3 DEF FoundInv, ResetInv, RestoreInv, PlanInv, CleanInv, Cycling
<1>3. ASSUME NEW j \in Jobs, ResetOne(j) PROVE ReorderInv'
  <2>1. /\ pc = "resetting" /\ st' = st
        /\ prio' = [k \in Jobs |-> prio'[k]] /\ \A k \in Jobs : prio'[k] \in {prio[k], Normal}
        /\ j \in todo
    BY <1>3 DEF ResetOne, Accepted, Refused, Stored, world, Shape
  <2>2. Owned' \subseteq Owned
    BY <2>1, NormalIsNoRank DEF Owned, Pending
  <2>3. CASE ResetDone(FALSE) /\ UNCHANGED back
    BY <1>1, <2>1, <2>2, <2>3, ForgetStep DEF Shape, CleanInv
  <2>4. CASE /\ Accepted(j, Normal) /\ back' = back \ {j} /\ todo' = todo \ {j}
             /\ UNCHANGED <<pc, after, seen, plan, clean>>
    <3>1. Shape' /\ Ranked' = Ranked
      BY <2>1, <2>4 DEF Shape, Ranked
    <3>2. j \notin Owned'
      BY <2>1, <2>4, NormalIsNoRank DEF Accepted, Stored, Owned, Pending
    <3>3. ResetInv'
      BY <2>1, <2>2, <2>4, <3>1 DEF ResetInv
    <3>4. CleanInv'
      BY <2>2, <2>4, <3>2 DEF CleanInv
    <3>. QED BY <2>1, <2>4, <3>1, <3>3, <3>4 DEF FoundInv, RestoreInv, PlanInv, Cycling
  <2>. QED BY <1>3, <2>3, <2>4 DEF ResetOne
<1>4. CASE ResetVerify
  <2>. DEFINE ok == \A j \in Ranked \cap Pending : prio[j] \notin Band \cup {0}
  <2>1. pc = "resetting" /\ ResetDone(ok) /\ st' = st /\ prio' = prio /\ back' = back
    BY <1>4 DEF ResetVerify, world, ranks
  <2>2. Owned' = Owned
    BY <2>1 DEF Owned, Pending
  <2>3. ok => Owned \subseteq back
    BY <2>1 DEF ResetInv, Owned
  <2>4. ok \in BOOLEAN
    OBVIOUS
  <2>5. Forget /\ clean' = (clean \/ ok) /\ pc' # "resetting"
    BY <1>1, <2>1, <2>4
  <2>. QED BY <2>1, <2>2, <2>3, <2>5, ForgetStep DEF Shape, CleanInv
<1>5. CASE ResetFails
  <2>1. ResetDone(FALSE) /\ st' = st /\ prio' = prio /\ back' = back
    BY <1>5 DEF ResetFails, world, ranks
  <2>2. Owned' = Owned
    BY <2>1 DEF Owned, Pending
  <2>. QED BY <1>1, <2>1, <2>2, ForgetStep DEF Shape, CleanInv
<1>. QED BY <1>2, <1>3, <1>4, <1>5 DEF Reset

LEMMA ProcessKeeps == ReorderInv /\ (Stop \/ Crash \/ Boot \/ UNCHANGED vars) => ReorderInv'
<1>. SUFFICES ASSUME ReorderInv, Stop \/ Crash \/ Boot \/ UNCHANGED vars PROVE ReorderInv'
  OBVIOUS
<1>. USE DEF ReorderInv
<1>1. Owned' = Owned /\ Pending' = Pending /\ st' = st /\ prio' = prio /\ back' = back
  BY DEF Stop, Crash, Boot, vars, world, ranks, Owned, Pending
<1>2. CASE Stop
  BY <1>1, <1>2, ForgetStep DEF Stop, BeginReset, Goto, Shape, CleanInv
<1>3. CASE Crash
  BY <1>1, <1>3, ForgetStep DEF Crash, Goto, Shape
<1>4. CASE Boot
  <2>1. clean' = FALSE /\ pc' = "reset" /\ UNCHANGED <<seen, plan, todo>>
    BY <1>4 DEF Boot, BeginReset, Goto
  <2>2. Shape'
    BY <1>1, <2>1 DEF Shape
  <2>. QED BY <2>1, <2>2 DEF FoundInv, ResetInv, RestoreInv, PlanInv, CleanInv, Cycling
<1>5. CASE UNCHANGED vars
  <2>1. UNCHANGED <<pc, seen, plan, todo, clean, held, back>> /\ Ranked' = Ranked
    BY <1>5 DEF vars, world, ranks, Ranked
  <2>. QED BY <1>1, <2>1 DEF Shape, FoundInv, ResetInv, RestoreInv, PlanInv, CleanInv, Given, Rank
<1>. QED BY <1>2, <1>3, <1>4, <1>5

LEMMA ReorderInvariant == Spec => []ReorderInv
<1>1. Init => ReorderInv
  <2>. SUFFICES ASSUME Init PROVE ReorderInv
    OBVIOUS
  <2>1. Owned = {} /\ DOMAIN plan = {}
    BY DEF Init, Owned, Pending
  <2>2. Shape
    BY <2>1 DEF Init, Shape, Blank
  <2>. QED BY <2>1, <2>2 DEF Init, ReorderInv, FoundInv, ResetInv, RestoreInv, PlanInv, CleanInv, Cycling
<1>2. ReorderInv /\ [Next]_vars => ReorderInv'
  BY WorldKeeps, CycleKeeps, ResetKeeps, ProcessKeeps DEF Next
<1>. QED BY <1>1, <1>2, PTL DEF Spec

-----------------------------------------------------------------------------
(* The theorems *)

\* After a reset whose read-back succeeded the only ranks in the queue until the next one
\* is written are of jobs that ran with one and came back (reset_owned_priorities).
THEOREM CleanResetsHold == Spec => []ResetClearsBand
<1>1. ReorderInv => ResetClearsBand
  BY DEF ReorderInv, CleanInv, ResetClearsBand
<1>. QED BY <1>1, ReorderInvariant, PTL

\* Between two cycles the ranks of the last one are in the policy's order, but for jobs
\* requeued since (_set_priority, the read-back of the cycle).
THEOREM RanksFollowThePolicy == Spec => []RankedInPolicyOrder
<1>1. ReorderInv => RankedInPolicyOrder
  <2>. SUFFICES ASSUME ReorderInv, pc = "wait", NEW i \in DOMAIN plan, NEW k \in DOMAIN plan,
                       i < k, {plan[i], plan[k]} \subseteq Owned \ back
                PROVE  prio[plan[i]] > prio[plan[k]]
    BY DEF RankedInPolicyOrder
  <2>1. prio[plan[i]] = Rank(i) /\ prio[plan[k]] = Rank(k)
    BY DEF ReorderInv, PlanInv
  <2>2. i \in Nat /\ k \in Nat
    BY DEF ReorderInv, Shape
  <2>. QED BY <2>1, <2>2, ReorderAssumption DEF Rank, Base, Normal
<1>. QED BY <1>1, ReorderInvariant, PTL

\* When a rollback is through, no job that waited keeps what the failed cycle wrote
\* (_restore_cycle_priorities).
THEOREM RollBacksRestore == Spec => []RollBackRestores
<1>1. ReorderInv => RollBackRestores
  BY DEF ReorderInv, RestoreInv, RollBackRestores, Given
<1>. QED BY <1>1, ReorderInvariant, PTL
=============================================================================
