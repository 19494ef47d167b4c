-------------------------- MODULE OperatorProofs --------------------------
(***************************************************************************)
(* Theorems about the operator's two other threads.                        *)
(*                                                                         *)
(* EventLoop, for any number of pools and watches and for every fault: the *)
(* deduplicating queue loses and repeats nothing although its lock is      *)
(* released inside put and get, every step of the loop is one              *)
(* ReconcileDuty allows, and only faults make it overlook a change.        *)
(*                                                                         *)
(* Fragmentation, for any cluster, limits and faults: the limits on        *)
(* requeues hold although the history is trimmed only when a decision is   *)
(* due, and a requeue stops only runs that were listed, of jobs that yield *)
(* to the one it makes room for.                                           *)
(***************************************************************************)
EXTENDS EventLoop, Fragmentation, FiniteSetTheorems, SequenceTheorems, WellFoundedInduction, TLAPS

Types ==
  /\ changed \subseteq Pools /\ differs \subseteq Pools /\ polled \subseteq Pools
  /\ unseen \in [Watchers -> SUBSET Pools]
  /\ adding \in [Threads -> Pools \cup {NoPool}]
  /\ pending \subseteq Pools /\ q \in Seq(Pools)
  /\ pc \in {"wait", "got", "collect", "process", "backoff"}
  /\ batch \subseteq Pools /\ errors \in 0 .. MaxErrors

\* What is between the two steps of get is one pool.
OneInHand == pc = "got" => \E k \in Pools : batch = {k}

LoopInv == Types /\ OneInHand /\ QueueMatchesPending

-----------------------------------------------------------------------------
(* Sequences *)

\* Appending a new entry (the inner q.put) adds just that entry, once.
LEMMA EntriesOfAppend ==
  ASSUME NEW s \in Seq(Pools), NEW k \in Pools
  PROVE  /\ Entries(Append(s, k)) = Entries(s) \cup {k}
         /\ NoRepeats(s) /\ k \notin Entries(s) => NoRepeats(Append(s, k))
<1>. DEFINE a == Append(s, k)
<1>1. a \in Seq(Pools) /\ Len(a) = Len(s) + 1 /\ a[Len(s) + 1] = k
      /\ \A i \in 1 .. Len(s) : a[i] = s[i]
  OBVIOUS
<1>2. Len(s) \in Nat
  OBVIOUS
<1>3. Entries(a) = Entries(s) \cup {k}
  <2>1. ASSUME NEW x \in Entries(a) PROVE x \in Entries(s) \cup {k}
    BY <1>1, <1>2, <2>1 DEF Entries
  <2>2. ASSUME NEW x \in Entries(s) \cup {k} PROVE x \in Entries(a)
    BY <1>1, <1>2, <2>2 DEF Entries
  <2>. QED BY <2>1, <2>2
<1>4. ASSUME NoRepeats(s), k \notin Entries(s) PROVE NoRepeats(a)
  BY <1>1, <1>2, <1>4 DEF Entries, NoRepeats
<1>. QED BY <1>3, <1>4

\* Taking the head (the inner q.get) takes just that entry.
LEMMA EntriesOfTail ==
  ASSUME NEW s \in Seq(Pools), s # <<>>
  PROVE  /\ Head(s) \in Pools /\ Tail(s) \in Seq(Pools)
         /\ Entries(s) = Entries(Tail(s)) \cup {Head(s)}
         /\ NoRepeats(s) => NoRepeats(Tail(s)) /\ Head(s) \notin Entries(Tail(s))
<1>. DEFINE r == Tail(s)
<1>1. /\ r \in Seq(Pools) /\ Len(s) \in Nat /\ Len(r) \in Nat /\ Len(s) = Len(r) + 1
      /\ Head(s) = s[1] /\ Head(s) \in Pools
      /\ \A i \in 1 .. Len(r) : r[i] = s[i + 1]
  OBVIOUS
<1>2. Entries(s) = Entries(r) \cup {s[1]}
  <2>1. ASSUME NEW i \in 1 .. Len(s) PROVE s[i] \in Entries(r) \cup {s[1]}
    <3>1. CASE i = 1
      BY <3>1
    <3>2. CASE i # 1
      <4>1. i - 1 \in 1 .. Len(r) /\ r[i - 1] = s[i]
        BY <1>1, <3>2
      <4>. QED BY <4>1 DEF Entries
    <3>. QED BY <3>1, <3>2
  <2>2. ASSUME NEW i \in 1 .. Len(r) PROVE r[i] \in Entries(s)
    BY <1>1, <2>2 DEF Entries
  <2>3. s[1] \in Entries(s)
    BY <1>1 DEF Entries
  <2>. QED BY <2>1, <2>2, <2>3 DEF Entries
<1>3. ASSUME NoRepeats(s) PROVE NoRepeats(r) /\ s[1] \notin Entries(r)
  BY <1>1, <1>3 DEF Entries, NoRepeats
<1>. QED BY <1>1, <1>2, <1>3

-----------------------------------------------------------------------------
(* The invariant *)

LEMMA InitLoop == Init => LoopInv
<1>. SUFFICES ASSUME Init PROVE LoopInv
  OBVIOUS
<1>1. Cardinality(Pools) \in Nat
  BY FS_CardinalityType, LoopAssumption
<1>2. q \in Seq(Pools) /\ Len(q) = Cardinality(Pools)
  BY <1>1 DEF Init
<1>3. BeingAdded = {} /\ InHand = {}
  BY DEF Init, BeingAdded, InHand
<1>4. Types
  BY <1>2, LoopAssumption DEF Init, Types
<1>. QED BY <1>3, <1>4, LoopAssumption DEF Init, LoopInv, OneInHand, QueueMatchesPending, Threads

LEMMA ReportedPool == \A w \in Watchers, k \in Pools : ReportedAs[w][k] \in Pools
  BY LoopAssumption

\* The first step of put, by whichever thread: the invariant only speaks of the
\* queue, the threads and the consumer.
LEMMA MarkLoop ==
  ASSUME LoopInv, NEW t \in Threads, NEW k \in Pools, Mark(t, k), UNCHANGED <<q, consumer>>
  PROVE  /\ OneInHand' /\ QueueMatchesPending'
         /\ adding' \in [Threads -> Pools \cup {NoPool}] /\ pending' \subseteq Pools
<1>. USE DEF LoopInv, Types
<1>1. InHand' = InHand /\ Entries(q') = Entries(q) /\ NoRepeats(q')
  BY DEF InHand, consumer, QueueMatchesPending
<1>2. OneInHand'
  BY DEF OneInHand, consumer
<1>3. adding' \in [Threads -> Pools \cup {NoPool}] /\ pending' \subseteq Pools
  BY DEF Mark
<1>4. CASE k \in pending
  <2>1. adding' = adding /\ pending' = pending
    BY <1>4 DEF Mark
  <2>. QED BY <1>1, <1>2, <1>3, <2>1 DEF QueueMatchesPending, BeingAdded
<1>5. CASE k \notin pending
  <2>1. adding' = [adding EXCEPT ![t] = k] /\ pending' = pending \cup {k}
    BY <1>5 DEF Mark
  <2>2. k # NoPool /\ adding[t] = NoPool
    BY LoopAssumption DEF Mark
  <2>3. BeingAdded' = BeingAdded \cup {k}
    BY <2>1, <2>2 DEF BeingAdded
  <2>4. k \notin Entries(q) /\ k \notin BeingAdded /\ k \notin InHand
    BY <1>5 DEF QueueMatchesPending
  <2>5. \A u \in Threads : adding[u] # k
    BY <2>2, <2>4 DEF BeingAdded
  <2>6. \A u, v \in Threads : adding'[u] = adding'[v] /\ adding'[u] # NoPool => u = v
    BY <2>1, <2>5 DEF QueueMatchesPending
  <2>. QED BY <1>1, <1>2, <1>3, <2>1, <2>3, <2>4, <2>6 DEF QueueMatchesPending
<1>. QED BY <1>4, <1>5

\* The second step of put.
LEMMA EnqueueLoop ==
  ASSUME LoopInv, NEW t \in Threads, Enqueue(t)
  PROVE  LoopInv'
<1>. USE DEF LoopInv
<1>. DEFINE k == adding[t]
<1>1. k \in Pools /\ k \in BeingAdded
  BY DEF Enqueue, Types, BeingAdded
<1>2. k \notin Entries(q) /\ k \notin InHand
  BY <1>1 DEF QueueMatchesPending
<1>3. Entries(q') = Entries(q) \cup {k} /\ NoRepeats(q') /\ q' \in Seq(Pools)
  BY <1>1, <1>2, EntriesOfAppend DEF Enqueue, QueueMatchesPending, Types
<1>4. adding' = [adding EXCEPT ![t] = NoPool] /\ adding' \in [Threads -> Pools \cup {NoPool}]
  BY DEF Enqueue, Types
<1>5. \A u \in Threads : u # t => adding[u] # k
  BY <1>1, LoopAssumption DEF QueueMatchesPending
<1>6. BeingAdded' = BeingAdded \ {k}
  BY <1>1, <1>4, <1>5 DEF BeingAdded, Types
<1>7. InHand' = InHand /\ OneInHand' /\ pending' = pending
  BY DEF InHand, OneInHand, Enqueue, consumer
<1>8. Types'
  BY <1>3, <1>4 DEF Types, Enqueue, world, consumer
<1>9. \A u, v \in Threads : adding'[u] = adding'[v] /\ adding'[u] # NoPool => u = v
  BY <1>4 DEF QueueMatchesPending, Types
<1>. QED BY <1>1, <1>2, <1>3, <1>6, <1>7, <1>8, <1>9 DEF QueueMatchesPending

\* Steps that leave the queue, the threads and the pools in hand alone.
LEMMA QuietLoop ==
  ASSUME LoopInv, UNCHANGED <<adding, queue>>, Types',
         pc' = "got" <=> pc = "got", pc = "got" => batch' = batch
  PROVE  LoopInv'
<1>1. InHand' = InHand
  BY DEF InHand
<1>2. OneInHand'
  BY DEF OneInHand, LoopInv
<1>3. BeingAdded' = BeingAdded /\ Entries(q') = Entries(q) /\ NoRepeats(q') = NoRepeats(q) /\ pending' = pending
  BY DEF BeingAdded, queue
<1>. QED BY <1>1, <1>2, <1>3 DEF LoopInv, QueueMatchesPending

LEMMA ConsumeLoop ==
  ASSUME LoopInv, Consume
  PROVE  LoopInv'
<1>. USE DEF LoopInv
<1>1. CASE Get
  <2>. DEFINE h == Head(q)
  <2>1. h \in Pools /\ q' \in Seq(Pools) /\ Entries(q) = Entries(q') \cup {h}
        /\ NoRepeats(q') /\ h \notin Entries(q')
    BY <1>1, EntriesOfTail DEF Get, Types, QueueMatchesPending
  <2>2. BeingAdded' = BeingAdded /\ adding' = adding /\ pending' = pending
    BY <1>1 DEF Get, BeingAdded, reports
  <2>3. InHand = {} /\ InHand' = {h}
    BY <1>1 DEF Get, InHand
  <2>4. OneInHand'
    BY <1>1, <2>1 DEF Get, OneInHand
  <2>5. Types'
    BY <1>1, <2>1 DEF Get, Types, world, reports
  <2>. QED BY <2>1, <2>2, <2>3, <2>4, <2>5 DEF QueueMatchesPending
<1>2. CASE Discard
  <2>1. InHand = batch /\ InHand' = {}
    BY <1>2 DEF Discard, InHand
  <2>2. BeingAdded' = BeingAdded /\ adding' = adding /\ q' = q /\ pending' = pending \ batch
    BY <1>2 DEF Discard, BeingAdded, reports
  <2>3. OneInHand'
    BY <1>2 DEF Discard, OneInHand
  <2>4. Types'
    BY <1>2 DEF Discard, Types, world, reports
  <2>. QED BY <2>1, <2>2, <2>3, <2>4 DEF QueueMatchesPending
<1>3. CASE TimeOut
  BY <1>3, QuietLoop DEF TimeOut, Types, world, reports, queue
<1>4. CASE Collect
  <2>1. Types'
    BY <1>4, LoopAssumption DEF Collect, Types, reports, queue
  <2>. QED BY <1>4, <2>1, QuietLoop DEF Collect, reports, queue
<1>5. CASE CollectFails
  <2>1. Types'
    BY <1>5, LoopAssumption DEF CollectFails, CountError, Types, world, reports, queue
  <2>. QED BY <1>5, <2>1, QuietLoop DEF CollectFails, reports, queue
<1>6. CASE WakeUp
  BY <1>6, QuietLoop DEF WakeUp, Types, world, reports, queue
<1>7. CASE Process
  BY <1>7, QuietLoop DEF Process, Types, world, reports, queue
<1>. QED BY <1>1, <1>2, <1>3, <1>4, <1>5, <1>6, <1>7 DEF Consume

LEMMA NextLoop == LoopInv /\ [Next]_vars => LoopInv'
<1>. SUFFICES ASSUME LoopInv, [Next]_vars PROVE LoopInv'
  OBVIOUS
<1>1. ASSUME NEW k \in Pools, SlurmChange(k) PROVE LoopInv'
  BY <1>1, QuietLoop DEF SlurmChange, LoopInv, Types, reports, queue, consumer
<1>2. ASSUME NEW k \in Pools, NEW w \in Watchers, KubeChange(k, w) PROVE LoopInv'
  <2>1. Types'
    BY <1>2 DEF KubeChange, LoopInv, Types, reports, queue, consumer
  <2>. QED BY <1>2, <2>1, QuietLoop DEF KubeChange, reports, queue, consumer
<1>3. ASSUME NEW w \in Watchers, BreakWatch(w) \/ Relist(w) PROVE LoopInv'
  <2>1. Types'
    BY <1>3 DEF BreakWatch, Relist, LoopInv, Types, reports, queue, consumer
  <2>. QED BY <1>3, <2>1, QuietLoop DEF BreakWatch, Relist, reports, queue, consumer
<1>4. ASSUME NEW t \in Threads, Enqueue(t) PROVE LoopInv'
  BY <1>4, EnqueueLoop
<1>5. ASSUME NEW w \in Watchers, NEW k \in Pools, DeliverEvent(w, k) PROVE LoopInv'
  <2>1. /\ OneInHand' /\ QueueMatchesPending'
        /\ adding' \in [Threads -> Pools \cup {NoPool}] /\ pending' \subseteq Pools
    BY <1>5, ReportedPool, MarkLoop DEF DeliverEvent, Threads
  <2>2. Types'
    BY <1>5, <2>1 DEF DeliverEvent, LoopInv, Types, consumer
  <2>. QED BY <2>1, <2>2 DEF LoopInv
<1>6. CASE PollSlurm
  BY <1>6, QuietLoop DEF PollSlurm, LoopInv, Types, queue, consumer
<1>7. ASSUME NEW k \in Pools, ReportPolled(k) PROVE LoopInv'
  <2>1. /\ OneInHand' /\ QueueMatchesPending'
        /\ adding' \in [Threads -> Pools \cup {NoPool}] /\ pending' \subseteq Pools
    BY <1>7, MarkLoop DEF ReportPolled, Threads
  <2>2. Types'
    BY <1>7, <2>1 DEF ReportPolled, LoopInv, Types, world, consumer
  <2>. QED BY <2>1, <2>2 DEF LoopInv
<1>8. CASE UNCHANGED vars
  BY <1>8, QuietLoop DEF vars, world, reports, queue, consumer, LoopInv, Types
<1>. QED
  BY <1>1, <1>2, <1>3, <1>4, <1>5, <1>6, <1>7, <1>8, ConsumeLoop
  DEF Next, World, Watch, Poll, Threads

LEMMA LoopInvariant == Spec => []LoopInv
<1>. QED BY InitLoop, NextLoop, PTL DEF Spec

\* Deduplication loses and repeats nothing although put and get release the lock
\* before they touch the inner queue (app.py, _PoolEventQueue).
THEOREM QueueKeepsReports == Spec => []QueueMatchesPending
<1>1. LoopInv => QueueMatchesPending
  BY DEF LoopInv
<1>. QED BY <1>1, LoopInvariant, PTL

-----------------------------------------------------------------------------
(* The refinement *)

\* Every step of the loop is a step of ReconcileDuty or a stutter: no report is dropped,
\* merged or taken unless a look that starts after it covers it or fails.
THEOREM LoopKeepsDuty == Spec => DutyKept
<1>. DEFINE owedNow == pending \cup (IF pc \in {"got", "collect"} THEN batch ELSE {})
            openNow == errors > 0
<1>1. Init => Duty!Init
  BY LoopAssumption DEF Init, Duty!Init
<1>2. LoopInv /\ [Next]_vars => [Duty!Next]_(Duty!vars)
  <2>. SUFFICES ASSUME LoopInv, [Next]_vars PROVE [Duty!Next]_(Duty!vars)
    OBVIOUS
  <2>. USE DEF LoopInv
  <2>1. ASSUME NEW k \in Pools, changed' = changed \cup {k}, UNCHANGED <<queue, consumer>>
        PROVE  Duty!Next
    BY <2>1 DEF Duty!Next, Duty!Change, queue, consumer
  <2>2. ASSUME UNCHANGED <<changed, pending, consumer>> PROVE UNCHANGED Duty!vars
    BY <2>2 DEF Duty!vars, consumer
  <2>3. ASSUME NEW t \in Threads, NEW k \in Pools, Mark(t, k), UNCHANGED <<changed, consumer>>
        PROVE  Duty!Next
    <3>1. Duty!Report({k})
      BY <2>3 DEF Mark, Duty!Report, consumer
    <3>. QED BY <3>1 DEF Duty!Next
  <2>4. CASE Get
    <3>1. q # <<>> /\ Head(q) \in Entries(q)
      BY <2>4, EntriesOfTail DEF Get, Types
    <3>2. owedNow' = owedNow
      BY <2>4, <3>1 DEF Get, QueueMatchesPending
    <3>. QED BY <2>4, <3>2 DEF Get, world, Duty!vars
  <2>5. CASE Discard
    BY <2>5 DEF Discard, world, Duty!vars
  <2>6. CASE TimeOut
    <3>1. Duty!Report(Pools)
      BY <2>6 DEF TimeOut, world, queue, Duty!Report
    <3>. QED BY <3>1 DEF Duty!Next
  <2>7. CASE Collect
    <3>1. Duty!Look(batch)
      BY <2>7 DEF Collect, queue, Duty!Look, Duty!Settle
    <3>. QED BY <3>1 DEF Duty!Next, Types
  <2>8. CASE CollectFails
    <3>1. errors' > 0
      BY <2>8, LoopAssumption DEF CollectFails, CountError, Types
    <3>2. Duty!GiveUp(batch)
      BY <2>8, <3>1 DEF CollectFails, world, queue, Duty!GiveUp, Duty!Settle
    <3>. QED BY <3>2 DEF Duty!Next, Types
  <2>9. CASE WakeUp \/ Process
    BY <2>9 DEF WakeUp, Process, world, queue, Duty!vars
  <2>10. CASE World
    BY <2>10, <2>1, <2>2 DEF World, SlurmChange, KubeChange, BreakWatch, Relist, queue
  <2>11. ASSUME NEW t \in Threads, Enqueue(t) PROVE UNCHANGED Duty!vars
    BY <2>11, <2>2 DEF Enqueue, world
  <2>12. CASE \E w \in Watchers : Watch(w)
    BY <2>12, <2>3, <2>11, ReportedPool DEF Watch, DeliverEvent, Threads
  <2>13. CASE Poll
    BY <2>13, <2>2, <2>3, <2>11 DEF Poll, PollSlurm, ReportPolled, Threads, world, queue
  <2>14. CASE UNCHANGED vars
    BY <2>14, <2>2 DEF vars, world, queue
  <2>. QED
    BY <2>4, <2>5, <2>6, <2>7, <2>8, <2>9, <2>10, <2>12, <2>13, <2>14 DEF Next, Consume
<1>. QED BY <1>1, <1>2, LoopInvariant, PTL DEF Spec, DutyKept, Duty!Spec

-----------------------------------------------------------------------------
(* What the loop can overlook *)

\* Only a watch that breaks or takes one pool for another and a collect that fails make the
\* loop overlook a change, whatever the other threads do between the two steps of put and of
\* get (app.py, _PoolEventQueue, run; watchers.py, _watch_pods).
THEOREM OnlyFaultsLoseChanges == Spec => OnlyFaultsOverlook
<1>. DEFINE Lost(k) == \/ \E w \in Watchers : BreakWatch(w) /\ k \in unseen[w]
                       \/ \E w \in Watchers : DeliverEvent(w, k) /\ ReportedAs[w][k] # k
                       \/ CollectFails /\ k \in batch
            Waits == UNION { unseen[w] : w \in Watchers }
            Read == IF pc \in {"got", "collect"} THEN batch ELSE {}
            Kept == OnItsWay \subseteq OnItsWay'
<1>1. LoopInv /\ [Next]_vars => [\A k \in Overlooked' \ Overlooked : Lost(k)]_vars
  <2>. SUFFICES ASSUME LoopInv, [Next]_vars, NEW k \in Overlooked' \ Overlooked PROVE Lost(k)
    OBVIOUS
  <2>. USE DEF LoopInv
  \* A step that only moves a change along makes nothing overlooked.
  <2>0. ASSUME changed' \subseteq changed, Kept PROVE FALSE
    BY <2>0 DEF Overlooked
  <2>1. k \in changed' /\ k \notin OnItsWay' /\ (k \notin changed \/ k \in OnItsWay)
    BY DEF Overlooked
  <2>2. CASE \E l \in Pools : SlurmChange(l)
    <3>1. PICK l \in Pools : SlurmChange(l)
      BY <2>2
    <3>2. Kept /\ l \in OnItsWay'
      BY <3>1 DEF SlurmChange, OnItsWay, reports, queue, consumer
    <3>3. changed' = changed \cup {l}
      BY <3>1 DEF SlurmChange
    <3>. QED BY <3>2, <3>3, <2>1
  <2>3. CASE \E l \in Pools, w \in Watchers : KubeChange(l, w)
    <3>1. PICK l \in Pools, w \in Watchers : KubeChange(l, w)
      BY <2>3
    <3>2. l \in unseen'[w] /\ \A v \in Watchers : unseen[v] \subseteq unseen'[v]
      BY <3>1 DEF KubeChange, Types
    <3>3. Waits \subseteq Waits' /\ l \in Waits'
      BY <3>2
    <3>4. Kept /\ l \in OnItsWay'
      BY <3>1, <3>3 DEF KubeChange, OnItsWay, reports, queue, consumer
    <3>5. changed' = changed \cup {l}
      BY <3>1 DEF KubeChange
    <3>. QED BY <3>4, <3>5, <2>1
  <2>4. CASE \E w \in Watchers : BreakWatch(w)
    <3>1. PICK w \in Watchers : BreakWatch(w)
      BY <2>4
    <3>2. changed' = changed /\ UNCHANGED <<pending, polled, differs, pc, batch>>
      BY <3>1 DEF BreakWatch, reports, queue, consumer
    <3>3. k \in OnItsWay /\ k \notin Waits'
      BY <2>1, <3>2 DEF OnItsWay
    <3>4. k \in Waits
      BY <2>1, <3>2, <3>3 DEF OnItsWay
    <3>5. PICK v \in Watchers : k \in unseen[v]
      BY <3>4
    <3>6. v # w => unseen'[v] = unseen[v]
      BY <3>1 DEF BreakWatch, Types
    <3>7. v = w
      BY <3>3, <3>5, <3>6
    <3>. QED BY <3>1, <3>5, <3>7
  <2>5. CASE \E w \in Watchers : Relist(w)
    <3>1. PICK w \in Watchers : Relist(w)
      BY <2>5
    <3>2. \A v \in Watchers : unseen[v] \subseteq unseen'[v]
      BY <3>1 DEF Relist, Types
    <3>3. Waits \subseteq Waits'
      BY <3>2
    <3>4. Kept /\ changed' = changed
      BY <3>1, <3>3 DEF Relist, OnItsWay, reports, queue, consumer
    <3>. QED BY <3>4, <2>0
  <2>6. CASE \E t \in Threads : Enqueue(t)
    BY <2>6, <2>0 DEF Enqueue, OnItsWay, world, consumer
  <2>7. CASE \E w \in Watchers, l \in Pools : DeliverEvent(w, l)
    <3>1. PICK w \in Watchers, l \in Pools : DeliverEvent(w, l)
      BY <2>7
    <3>2. \A v \in Watchers : unseen[v] \subseteq unseen'[v] \cup {l}
      BY <3>1 DEF DeliverEvent, Types
    <3>3. Waits \subseteq Waits' \cup {l}
      BY <3>2
    <3>4. pending' = pending \cup {ReportedAs[w][l]} /\ changed' = changed
      BY <3>1 DEF DeliverEvent, Mark
    <3>5. OnItsWay \subseteq OnItsWay' \cup {l}
      BY <3>1, <3>3, <3>4 DEF DeliverEvent, OnItsWay, consumer
    <3>6. k = l
      BY <2>1, <3>4, <3>5
    <3>7. ReportedAs[w][l] # l
      BY <2>1, <3>4, <3>6 DEF OnItsWay
    <3>. QED BY <3>1, <3>6, <3>7
  <2>8. CASE PollSlurm
    BY <2>8, <2>0 DEF PollSlurm, OnItsWay, queue, consumer
  <2>9. CASE \E l \in Pools : ReportPolled(l)
    BY <2>9, <2>0 DEF ReportPolled, Mark, OnItsWay, world, consumer
  <2>10. CASE Get
    <3>1. batch' = {Head(q)} /\ Head(q) \in Entries(q) /\ pc = "wait" /\ pc' = "got"
      BY <2>10, EntriesOfTail DEF Get, Types
    <3>2. Kept /\ changed' = changed
      BY <2>10, <3>1 DEF Get, OnItsWay, world, reports
    <3>. QED BY <3>2, <2>0
  <2>11. CASE Discard
    BY <2>11, <2>0 DEF Discard, OnItsWay, world, reports
  <2>12. CASE TimeOut
    BY <2>12, <2>0 DEF TimeOut, OnItsWay, world, reports, queue
  <2>13. CASE Collect
    <3>1. OnItsWay \subseteq OnItsWay' \cup batch
      BY <2>13 DEF Collect, OnItsWay, reports, queue
    <3>. QED BY <2>13, <3>1, <2>1 DEF Collect
  <2>14. CASE CollectFails
    <3>1. OnItsWay \subseteq OnItsWay' \cup batch /\ changed' = changed
      BY <2>14 DEF CollectFails, OnItsWay, world, reports, queue
    <3>. QED BY <2>14, <3>1, <2>1
  <2>15. CASE WakeUp \/ Process
    BY <2>15, <2>0 DEF WakeUp, Process, OnItsWay, world, reports, queue
  <2>16. CASE UNCHANGED vars
    BY <2>16, <2>0 DEF vars, world, reports, queue, consumer, OnItsWay
  <2>. QED
    BY <2>2, <2>3, <2>4, <2>5, <2>6, <2>7, <2>8, <2>9, <2>10, <2>11, <2>12, <2>13, <2>14, <2>15,
       <2>16
    DEF Next, World, Watch, Poll, Consume, Threads
<1>. QED BY <1>1, LoopInvariant, PTL DEF Spec, OnlyFaultsOverlook

-----------------------------------------------------------------------------
(* Sequences of ages *)

\* A set of naturals that is not empty has a least element.
LEMMA LeastNat ==
  ASSUME NEW T \in SUBSET Nat, T # {}
  PROVE  \E m \in T : \A k \in T : m <= k
<1> DEFINE R == OpToRel(<, Nat)
<1>1. IsWellFoundedOn(R, Nat)
  BY NatLessThanWellFounded
<1>2. \E m \in T : \A k \in T : ~ (<<k, m>> \in R)
  <2> HIDE DEF R
  <2> QED
    BY <1>1, WFMin
<1>3. PICK m \in T : \A k \in T : ~ (<<k, m>> \in R)
  BY <1>2
<1>4. \A k \in T : <<k, m>> \in Nat \X Nat
  OBVIOUS
<1>5. \A k \in T : ~ (k < m)
  BY <1>3, <1>4 DEF OpToRel
<1> QED
  BY <1>5

Descending(a) == \A i, k \in 1 .. Len(a) : i <= k => a[i] >= a[k]

\* Of ages in order, those that left the window are a prefix, and Young drops just it.
LEMMA YoungDropsPrefix ==
  ASSUME NEW a \in Seq(Nat), Descending(a)
  PROVE  \E d \in 0 .. Len(a) :
           /\ \A i \in 1 .. Len(a) : a[i] > Hour <=> i <= d
           /\ Young(a) \in Seq(Nat) /\ Len(Young(a)) = Len(a) - d
           /\ \A i \in 1 .. Len(a) - d : Young(a)[i] = a[i + d]
<1>0. Hour \in Nat /\ Len(a) \in Nat /\ \A i \in 1 .. Len(a) : a[i] \in Nat
  BY FragmentationAssumption
<1> DEFINE T == { k \in 0 .. Len(a) : \A i \in 1 .. Len(a) : i > k => ~(a[i] > Hour) }
<1>1. T \in SUBSET Nat /\ Len(a) \in T
  BY <1>0
<1>2. PICK d \in T : \A k \in T : d <= k
  <2> HIDE DEF T
  <2> QED
    BY <1>1, LeastNat
<1>3. \A i \in 1 .. Len(a) : a[i] > Hour <=> i <= d
  <2>1. ASSUME d > 0 PROVE a[d] > Hour
    <3>0. d \in Nat /\ d <= Len(a)
      BY <1>0, <1>2
    <3>1. d - 1 \notin T /\ d - 1 \in 0 .. Len(a)
      <4>1. d - 1 \in 0 .. Len(a) /\ ~(d <= d - 1)
        BY <1>0, <3>0, <2>1
      <4> HIDE DEF T
      <4> QED
        BY <1>2, <4>1
    <3>2. PICK i \in 1 .. Len(a) : i > d - 1 /\ a[i] > Hour
      BY <3>1
    <3> QED
      BY <1>0, <1>2, <3>2
  <2> QED
    BY <1>0, <1>2, <2>1 DEF Descending
<1>4. Old(a) = 1 .. d
  BY <1>0, <1>2, <1>3 DEF Old
<1>5. Cardinality(Old(a)) = d
  <2>1. 1 \in Int /\ d \in Int
    BY <1>2
  <2>2. Cardinality(1 .. d) = IF 1 > d THEN 0 ELSE d - 1 + 1
    BY <2>1, FS_Interval
  <2> QED
    BY <1>2, <1>4, <2>2
<1>6. Young(a) = SubSeq(a, d + 1, Len(a))
  BY <1>5 DEF Young
<1>7. /\ Young(a) \in Seq(Nat) /\ Len(Young(a)) = Len(a) - d
      /\ \A i \in 1 .. Len(a) - d : Young(a)[i] = a[i + d]
  BY <1>0, <1>2, <1>6
<1> QED
  BY <1>2, <1>3, <1>7

\* Time shifts every age by the same amount until it has left the window.
LEMMA AgedKeepsOrder ==
  ASSUME NEW a \in Seq(Nat), Descending(a)
  PROVE  /\ Aged(a) \in Seq(Nat) /\ Len(Aged(a)) = Len(a) /\ Descending(Aged(a))
         /\ \A i \in 1 .. Len(a) : Aged(a)[i] = IF a[i] > Hour THEN a[i] ELSE a[i] + 1
<1>0. Hour \in Nat /\ Len(a) \in Nat /\ DOMAIN a = 1 .. Len(a) /\ \A i \in 1 .. Len(a) : a[i] \in Nat
  BY FragmentationAssumption
<1>1. Aged(a) = [i \in 1 .. Len(a) |-> IF a[i] > Hour THEN a[i] ELSE a[i] + 1]
  BY <1>0 DEF Aged
<1>2. Aged(a) \in Seq(Nat) /\ Len(Aged(a)) = Len(a)
  BY <1>0, <1>1
<1>3. \A i \in 1 .. Len(a) : Aged(a)[i] = IF a[i] > Hour THEN a[i] ELSE a[i] + 1
  BY <1>1
<1>4. Descending(Aged(a))
  BY SMTT(30), <1>0, <1>2, <1>3 DEF Descending
<1> QED
  BY <1>2, <1>3, <1>4

\* Ages that are in the window are all kept.
LEMMA YoungKeepsYoung ==
  ASSUME NEW a \in Seq(Nat), \A i \in 1 .. Len(a) : a[i] <= Hour
  PROVE  Young(a) = a
<1>1. Hour \in Nat /\ Len(a) \in Nat /\ DOMAIN a = 1 .. Len(a)
  BY FragmentationAssumption
<1>2. Old(a) = {}
  BY <1>1 DEF Old
<1>3. Young(a) = SubSeq(a, 1, Len(a))
  BY <1>2, FS_EmptySet DEF Young
<1> QED
  BY <1>1, <1>3

LEMMA YoungOfNone == Young(<< >>) = << >>
<1>1. << >> \in Seq(Nat) /\ \A i \in 1 .. Len(<< >>) : << >>[i] <= Hour
  OBVIOUS
<1> QED
  BY <1>1, YoungKeepsYoung

\* Trimming before time passes makes no difference to what is left after it.
LEMMA TrimEarlyOrLate ==
  ASSUME NEW a \in Seq(Nat), Descending(a)
  PROVE  Young(Aged(Young(a))) = Young(Aged(a))
<1>0. Hour \in Nat /\ Len(a) \in Nat /\ \A i \in 1 .. Len(a) : a[i] \in Nat
  BY FragmentationAssumption
<1> DEFINE y == Young(a)
           n == Aged(a)
           m == Aged(y)
<1>1. PICK d \in 0 .. Len(a) :
        /\ \A i \in 1 .. Len(a) : a[i] > Hour <=> i <= d
        /\ y \in Seq(Nat) /\ Len(y) = Len(a) - d
        /\ \A i \in 1 .. Len(a) - d : y[i] = a[i + d]
  BY YoungDropsPrefix, Zenon
<1>2. Descending(y)
  <2>1. ASSUME NEW i \in 1 .. Len(y), NEW k \in 1 .. Len(y), i <= k PROVE y[i] >= y[k]
    <3>1. i + d \in 1 .. Len(a) /\ k + d \in 1 .. Len(a) /\ i + d <= k + d
      BY <1>0, <1>1, <2>1
    <3>2. y[i] = a[i + d] /\ y[k] = a[k + d]
      BY <1>1
    <3> QED
      BY <3>1, <3>2 DEF Descending
  <2> QED
    BY <2>1 DEF Descending
<1>3. /\ n \in Seq(Nat) /\ Len(n) = Len(a) /\ Descending(n)
      /\ \A i \in 1 .. Len(a) : n[i] = IF a[i] > Hour THEN a[i] ELSE a[i] + 1
  BY AgedKeepsOrder
<1>4. /\ m \in Seq(Nat) /\ Len(m) = Len(y) /\ Descending(m)
      /\ \A i \in 1 .. Len(y) : m[i] = IF y[i] > Hour THEN y[i] ELSE y[i] + 1
  <2> HIDE DEF y
  <2> QED
    BY <1>1, <1>2, AgedKeepsOrder
<1>5. PICK e \in 0 .. Len(n) :
        /\ \A i \in 1 .. Len(n) : n[i] > Hour <=> i <= e
        /\ Young(n) \in Seq(Nat) /\ Len(Young(n)) = Len(n) - e
        /\ \A i \in 1 .. Len(n) - e : Young(n)[i] = n[i + e]
  <2> HIDE DEF n
  <2> QED
    BY <1>3, YoungDropsPrefix
<1>6. PICK f \in 0 .. Len(m) :
        /\ \A i \in 1 .. Len(m) : m[i] > Hour <=> i <= f
        /\ Young(m) \in Seq(Nat) /\ Len(Young(m)) = Len(m) - f
        /\ \A i \in 1 .. Len(m) - f : Young(m)[i] = m[i + f]
  <2> HIDE DEF m
  <2> QED
    BY <1>4, YoungDropsPrefix
<1> HIDE DEF y, n, m
<1>7. ASSUME NEW i \in 1 .. Len(m) PROVE m[i] = n[i + d] /\ i + d \in 1 .. Len(n)
  <2>1. i \in 1 .. Len(y) /\ i \in 1 .. Len(a) - d /\ i + d \in 1 .. Len(a)
    BY <1>0, <1>1, <1>4
  <2>2. y[i] = a[i + d]
    BY <2>1, <1>1
  <2>3. m[i] = (IF y[i] > Hour THEN y[i] ELSE y[i] + 1)
    BY <2>1, <1>4
  <2>4. n[i + d] = (IF a[i + d] > Hour THEN a[i + d] ELSE a[i + d] + 1)
    BY <2>1, <1>3
  <2> QED
    BY <2>1, <2>2, <2>3, <2>4, <1>3
<1>8. e = d + f
  <2>1. d <= e
    <3>1. CASE d = 0
      BY <3>1, <1>5
    <3>2. CASE d > 0
      <4>1. n[d] > Hour /\ d \in 1 .. Len(n)
        BY <1>0, <1>1, <1>3, <3>2
      <4> QED
        BY <4>1, <1>5
    <3> QED
      BY <1>1, <3>1, <3>2
  <2>2. d + f <= e
    <3>1. CASE f > 0
      <4>1. m[f] > Hour /\ m[f] = n[f + d] /\ f + d \in 1 .. Len(n)
        <5>1. f \in 1 .. Len(m)
          BY <3>1, <1>4, <1>6
        <5> QED
          BY <5>1, <1>6, <1>7
      <4> QED
        BY <4>1, <1>5
    <3> QED
      BY <2>1, <3>1, <1>6
  <2>3. e <= d + f
    <3>1. CASE e > d
      <4>1. n[e] > Hour /\ e - d \in 1 .. Len(m) /\ m[e - d] = n[(e - d) + d]
        <5>1. n[e] > Hour /\ e \in 1 .. Len(n)
          BY <1>3, <1>5, <3>1, <1>1
        <5>2. e - d \in 1 .. Len(m)
          BY <1>0, <1>1, <1>3, <1>4, <1>5, <3>1
        <5> QED
          BY <5>1, <5>2, <1>7
      <4>2. (e - d) + d = e
        BY <1>1, <1>5
      <4>3. e - d <= f
        BY <4>1, <4>2, <1>6
      <4> QED
        BY <4>3, <1>1, <1>5, <1>6
    <3> QED
      BY <3>1, <1>1, <1>5, <1>6
  <2> QED
    BY <2>2, <2>3, <1>1, <1>5, <1>6
<1>9. Len(Young(m)) = Len(Young(n))
  BY <1>0, <1>1, <1>3, <1>4, <1>5, <1>6, <1>8
<1>10. ASSUME NEW i \in 1 .. Len(Young(m)) PROVE Young(m)[i] = Young(n)[i]
  <2>1. i \in 1 .. Len(m) - f /\ i + f \in 1 .. Len(m) /\ i \in 1 .. Len(n) - e
    BY <1>0, <1>1, <1>3, <1>4, <1>5, <1>6, <1>9
  <2>2. Young(m)[i] = n[(i + f) + d] /\ Young(n)[i] = n[i + e]
    BY <2>1, <1>5, <1>6, <1>7
  <2>3. (i + f) + d = i + e
    BY <2>1, <1>1, <1>5, <1>6, <1>8
  <2> QED
    BY <2>2, <2>3
<1>11. Young(m) = Young(n)
  BY <1>5, <1>6, <1>9, <1>10, SeqEqual
<1> QED
  BY <1>11 DEF y, n, m

-----------------------------------------------------------------------------
(* The rate limits *)

\* What the decider remembers and what really happened agree on the window, however late
\* it trims; decisions are in the order of their ages.
HistoryInv ==
  /\ history \in Seq(Nat) /\ Descending(history)
  /\ made \in Seq(Nat) /\ made = Young(history)
  /\ RateCapHolds

\* The ages of the decisions of an hour are in the window and in order.
LEMMA MadeIsYoung ==
  ASSUME HistoryInv
  PROVE  Descending(made) /\ \A i \in 1 .. Len(made) : made[i] <= Hour
<1>0. Hour \in Nat
  BY FragmentationAssumption
<1>1. PICK d \in 0 .. Len(history) :
        /\ \A i \in 1 .. Len(history) : history[i] > Hour <=> i <= d
        /\ Len(made) = Len(history) - d
        /\ \A i \in 1 .. Len(history) - d : made[i] = history[i + d]
  BY YoungDropsPrefix DEF HistoryInv
<1>2. Len(history) \in Nat /\ \A i \in 1 .. Len(history) : history[i] \in Nat
  BY DEF HistoryInv
<1>3. \A i \in 1 .. Len(made) : made[i] <= Hour
  BY <1>0, <1>1, <1>2
<1>4. ASSUME NEW i \in 1 .. Len(made), NEW k \in 1 .. Len(made), i <= k PROVE made[i] >= made[k]
  <2>1. i + d \in 1 .. Len(history) /\ k + d \in 1 .. Len(history) /\ i + d <= k + d
    BY <1>1, <1>2, <1>4
  <2>2. made[i] = history[i + d] /\ made[k] = history[k + d]
    BY <1>1
  <2> QED
    BY <2>1, <2>2 DEF HistoryInv, Descending
<1> QED
  BY <1>3, <1>4 DEF Descending

\* An hour that moves on keeps the distances and loses the oldest decisions.
LEMMA LimitsAge ==
  ASSUME HistoryInv, Tick
  PROVE  HistoryInv'
<1>0. Hour \in Nat /\ MinInterval \in Nat /\ MaxPerHour \in Nat
  BY FragmentationAssumption
<1>1. history' = Aged(history) /\ made' = Young(Aged(made)) /\ made = Young(history)
      /\ made \in Seq(Nat) /\ history \in Seq(Nat) /\ Descending(history)
  BY DEF Tick, HistoryInv
<1>2. history' \in Seq(Nat) /\ Descending(history')
  BY <1>1, AgedKeepsOrder
<1>3. made' = Young(history')
  BY <1>1, TrimEarlyOrLate
<1>4. Descending(made) /\ \A i \in 1 .. Len(made) : made[i] <= Hour
  BY MadeIsYoung
<1> DEFINE m == Aged(made)
<1>5. /\ m \in Seq(Nat) /\ Len(m) = Len(made) /\ Descending(m)
      /\ \A i \in 1 .. Len(made) : m[i] = IF made[i] > Hour THEN made[i] ELSE made[i] + 1
  BY <1>1, <1>4, AgedKeepsOrder
<1>6. \A i \in 1 .. Len(made) : made[i] \in Nat /\ m[i] = made[i] + 1
  BY <1>0, <1>1, <1>4, <1>5
<1>7. PICK f \in 0 .. Len(m) :
        /\ Young(m) \in Seq(Nat) /\ Len(Young(m)) = Len(m) - f
        /\ \A i \in 1 .. Len(m) - f : Young(m)[i] = m[i + f]
  <2> HIDE DEF m
  <2> QED
    BY <1>5, YoungDropsPrefix
<1>8. made' = Young(m)
  BY <1>1
<1> HIDE DEF m
<1>9. Len(made') <= MaxPerHour
  BY <1>0, <1>1, <1>5, <1>7, <1>8 DEF HistoryInv, RateCapHolds
<1>10. ASSUME NEW i \in 1 .. Len(made') - 1 PROVE made'[i] - made'[i + 1] >= MinInterval
  <2>1. i + f \in 1 .. Len(made) - 1 /\ (i + 1) + f = (i + f) + 1 /\ i \in 1 .. Len(m) - f /\ i + 1 \in 1 .. Len(m) - f
    BY SMTT(30), <1>1, <1>5, <1>7, <1>8
  <2>2. made'[i] = made[i + f] + 1 /\ made'[i + 1] = made[(i + f) + 1] + 1
    BY <2>1, <1>1, <1>5, <1>6, <1>7, <1>8
  <2>3. made[i + f] - made[(i + f) + 1] >= MinInterval
    BY <2>1 DEF HistoryInv, RateCapHolds
  <2>4. made[i + f] \in Nat /\ made[(i + f) + 1] \in Nat
    BY <2>1, <1>1, <1>6
  <2> QED
    BY SMTT(30), <2>2, <2>3, <2>4, <1>0
<1> QED
  BY <1>2, <1>3, <1>7, <1>8, <1>9, <1>10 DEF HistoryInv, RateCapHolds

\* A decision that the limits allow is the youngest of the hour and far enough from the last.
LEMMA LimitsDecide ==
  ASSUME HistoryInv, ~RateLimited(made), history' = Append(made, 0), made' = Append(made, 0)
  PROVE  HistoryInv'
<1>0. Hour \in Nat /\ MinInterval \in Nat /\ MaxPerHour \in Nat
  BY FragmentationAssumption
<1>1. made \in Seq(Nat) /\ Len(made) \in Nat /\ \A i \in 1 .. Len(made) : made[i] \in Nat
  BY DEF HistoryInv
<1>2. Descending(made) /\ \A i \in 1 .. Len(made) : made[i] <= Hour
  BY MadeIsYoung
<1>3. /\ made' \in Seq(Nat) /\ Len(made') = Len(made) + 1 /\ made'[Len(made) + 1] = 0
      /\ \A i \in 1 .. Len(made) : made'[i] = made[i]
  BY <1>1
<1>4. Descending(made') /\ \A i \in 1 .. Len(made') : made'[i] <= Hour
  BY <1>0, <1>1, <1>2, <1>3 DEF Descending
<1>5. Young(made') = made'
  BY <1>3, <1>4, YoungKeepsYoung
<1>6. Len(made) < MaxPerHour /\ (Len(made) > 0 => made[Len(made)] >= MinInterval)
  BY <1>0, <1>1 DEF RateLimited, Last
<1>7. ASSUME NEW i \in 1 .. Len(made') - 1 PROVE made'[i] - made'[i + 1] >= MinInterval
  <2>1. CASE i = Len(made)
    BY <2>1, <1>0, <1>1, <1>3, <1>6
  <2>2. CASE i < Len(made)
    <3>1. i \in 1 .. Len(made) - 1 /\ i \in 1 .. Len(made) /\ i + 1 \in 1 .. Len(made)
      BY <2>2, <1>1, <1>3
    <3> QED
      BY <3>1, <1>3 DEF HistoryInv, RateCapHolds
  <2> QED
    BY <2>1, <2>2, <1>1, <1>3
<1> QED
  BY SMTT(30), <1>0, <1>1, <1>3, <1>4, <1>5, <1>6, <1>7 DEF HistoryInv, RateCapHolds

LEMMA LimitsStep == HistoryInv /\ [FragmentationNext]_fragmentation => HistoryInv'
<1> SUFFICES ASSUME HistoryInv, [FragmentationNext]_fragmentation PROVE HistoryInv'
  OBVIOUS
<1>0. Trim = made
  BY DEF Trim, HistoryInv
<1>1. CASE Tick
  BY <1>1, LimitsAge
<1>2. CASE Decide
  BY <1>0, <1>2, LimitsDecide DEF Decide
<1>3. CASE Abstain
  <2>1. CASE history' = history /\ made' = made
    BY <2>1 DEF HistoryInv, Descending, RateCapHolds, Young, Old
  <2>2. CASE history' = made /\ made' = made
    <3>1. made \in Seq(Nat) /\ Descending(made) /\ Young(made) = made
      BY MadeIsYoung, YoungKeepsYoung DEF HistoryInv
    <3> QED
      BY <2>2, <3>1 DEF HistoryInv, Descending, RateCapHolds
  <2> QED
    BY <1>0, <1>3, <2>1, <2>2 DEF Abstain
<1>4. CASE Restart
  <2>1. history' = << >> /\ made' = << >>
    BY <1>4 DEF Restart
  <2>2. Young(<< >>) = << >>
    BY YoungOfNone
  <2>3. MaxPerHour \in Nat
    BY FragmentationAssumption
  <2> QED
    BY <2>1, <2>2, <2>3 DEF HistoryInv, Descending, RateCapHolds
<1>5. CASE UNCHANGED <<history, made>>
  BY <1>5 DEF HistoryInv, Descending, RateCapHolds, Young, Old
<1>6. Tick \/ Decide \/ Abstain \/ Restart \/ UNCHANGED <<history, made>>
  BY DEF FragmentationNext, fragmentation, Cluster, DrainNode, Loop, TickBegins, ListJobs, ListNodes,
     ReadFails, Requeue, Done
<1> QED
  BY <1>1, <1>2, <1>3, <1>4, <1>5, <1>6

\* However its ticks, aborted reads and restarts fall, one operator process takes at most
\* max_requeues_per_hour decisions in any hour, min_interval_seconds apart
\* (fragmentation.py, RequeueDecider).
THEOREM RateCapIsKept == FragmentationSpec => []RateCapHolds
<1>1. FragmentationInit => HistoryInv
  <2> SUFFICES ASSUME FragmentationInit PROVE HistoryInv
    OBVIOUS
  <2>1. Young(<< >>) = << >>
    BY YoungOfNone
  <2>2. MaxPerHour \in Nat
    BY FragmentationAssumption
  <2> QED
    BY <2>1, <2>2 DEF FragmentationInit, HistoryInv, Descending, RateCapHolds
<1>2. HistoryInv => RateCapHolds
  BY DEF HistoryInv
<1> QED
  BY <1>1, <1>2, LimitsStep, PTL DEF FragmentationSpec

-----------------------------------------------------------------------------
(* Who is requeued *)

Stages == {"sleep", "jobs", "nodes", "decide", "requeue"}

\* No job is in the order of the runs twice, and only running ones are.
RunsInOrder ==
  /\ run \in Seq(Jobs) /\ NoRepeats(run)
  /\ \A i \in 1 .. Len(run) : st[run[i]] \in Nodes

\* A job that was listed running has not started again since: a requeued one may not
\* before the tick is over.
ListedRuns ==
  /\ seen \in [Jobs -> Nodes \cup States] /\ (step = "sleep" => seen = Unseen)
  /\ \A v \in Jobs : seen[v] \in Nodes => st[v] \in {seen[v], "requeued", "over"}

MeantInv ==
  /\ st \in [Jobs -> Nodes \cup States] /\ step \in Stages
  /\ RunsInOrder /\ ListedRuns
  /\ step = "requeue" =>
       /\ target \in Blocked /\ victims \in Seq(Jobs) /\ Len(victims) <= MaxTargets /\ NoRepeats(victims)
       /\ \E n \in Nodes : \A i \in 1 .. Len(victims) :
            seen[victims[i]] = n /\ Prio[target] > Prio[victims[i]] + Gap

\* Taking a job out of the order of the runs leaves the others in it.
LEMMA WithoutIs ==
  ASSUME run \in Seq(Jobs), NoRepeats(run), NEW j \in Jobs
  PROVE  /\ Without(j) \in Seq(Jobs) /\ NoRepeats(Without(j))
         /\ \A i \in 1 .. Len(Without(j)) :
              Without(j)[i] # j /\ \E k \in 1 .. Len(run) : Without(j)[i] = run[k]
<1>0. Len(run) \in Nat /\ \A i \in 1 .. Len(run) : run[i] \in Jobs
  OBVIOUS
<1>1. CASE ~ \E i \in 1 .. Len(run) : run[i] = j
  <2>1. Without(j) = run
    BY <1>1 DEF Without, RemoveFirst
  <2> QED
    BY <1>0, <1>1, <2>1
<1>2. CASE \E i \in 1 .. Len(run) : run[i] = j
  <2>1. PICK p \in 1 .. Len(run) : run[p] = j
    BY <1>2
  <2> DEFINE I == { i \in 1 .. Len(run) : run[i] = j }
  <2>2. I = {p}
    BY <2>1 DEF NoRepeats
  <2>3. Min(I) = p
    BY <2>1, <2>2 DEF Min
  <2>4. SelectInSeq(run, LAMBDA v : v = j) = p
    BY <2>2, <2>3 DEF SelectInSeq
  <2>5. Without(j) = SubSeq(run, 1, p - 1) \o SubSeq(run, p + 1, Len(run))
    BY <1>2, <2>4 DEF Without, RemoveFirst, RemoveAt
  <2> DEFINE a == SubSeq(run, 1, p - 1)
             b == SubSeq(run, p + 1, Len(run))
             w == a \o b
  <2>6. /\ a \in Seq(Jobs) /\ Len(a) = p - 1
        /\ \A i \in 1 .. p - 1 : a[i] = run[i]
    BY <1>0, <2>1
  <2>7. /\ b \in Seq(Jobs) /\ Len(b) = Len(run) - p
        /\ \A i \in 1 .. Len(run) - p : b[i] = run[i + p]
    BY <1>0, <2>1
  <2> HIDE DEF a, b
  <2>8. /\ w \in Seq(Jobs) /\ Len(w) = Len(run) - 1
        /\ \A i \in 1 .. Len(run) - 1 : w[i] = IF i < p THEN run[i] ELSE run[i + 1]
    <3>1. w \in Seq(Jobs) /\ Len(w) = Len(a) + Len(b)
      BY <2>6, <2>7, ConcatProperties
    <3>2. ASSUME NEW i \in 1 .. Len(run) - 1 PROVE w[i] = IF i < p THEN run[i] ELSE run[i + 1]
      <4>1. CASE i < p
        BY <1>0, <2>1, <2>6, <2>7, <4>1
      <4>2. CASE ~(i < p)
        <5>1. i - (p - 1) \in 1 .. Len(run) - p /\ (i - (p - 1)) + p = i + 1 /\ ~(i <= Len(a))
          BY <1>0, <2>1, <2>6, <4>2
        <5>2. i \in 1 .. Len(a) + Len(b)
          BY <1>0, <2>1, <2>6, <2>7
        <5>3. w[i] = b[i - Len(a)]
          BY <2>6, <2>7, <5>1, <5>2
        <5> QED
          BY <2>6, <2>7, <4>2, <5>1, <5>3
      <4> QED
        BY <4>1, <4>2
    <3> QED
      BY <1>0, <2>1, <2>6, <2>7, <3>1, <3>2
  <2> HIDE DEF w
  <2>9. ASSUME NEW i \in 1 .. Len(w) PROVE w[i] # j /\ \E k \in 1 .. Len(run) : w[i] = run[k]
    <3>1. PICK k \in 1 .. Len(run) : w[i] = run[k] /\ k # p
      BY <1>0, <2>1, <2>8
    <3> QED
      BY <2>1, <3>1 DEF NoRepeats
  <2>10. NoRepeats(w)
    <3>1. ASSUME NEW i \in 1 .. Len(w), NEW k \in 1 .. Len(w), w[i] = w[k] PROVE i = k
      <4> DEFINE x == IF i < p THEN i ELSE i + 1
                 y == IF k < p THEN k ELSE k + 1
      <4>1. x \in 1 .. Len(run) /\ y \in 1 .. Len(run) /\ w[i] = run[x] /\ w[k] = run[y]
        BY <1>0, <2>1, <2>8
      <4>2. x = y
        BY <3>1, <4>1 DEF NoRepeats
      <4> QED
        BY <2>1, <4>2
    <3> QED
      BY <3>1 DEF NoRepeats
  <2> QED
    BY <2>5, <2>8, <2>9, <2>10 DEF w, a, b
<1> QED
  BY <1>1, <1>2

\* The order of preference is the order of three numbers: the request, the priority, and
\* the place in the order of the runs, after which come the jobs that do not run any more.
LEMMA PreferenceIsOrder ==
  ASSUME RunsInOrder
  PROVE  \A u, v, w \in Jobs :
           /\ ~Preferred(v, v) /\ (Preferred(v, w) => ~Preferred(w, v))
           /\ v # w => Preferred(v, w) \/ Preferred(w, v)
           /\ Preferred(u, v) /\ Preferred(v, w) => Preferred(u, w)
<1> DEFINE Runs(v, k) == k \in 1 .. Len(run) /\ run[k] = v
           place == [v \in Jobs |-> IF v \in Range(run) THEN CHOOSE k : Runs(v, k) ELSE Len(run) + v]
<1>0. Len(run) \in Nat /\ DOMAIN run = 1 .. Len(run) /\ \A i \in 1 .. Len(run) : run[i] \in Jobs
  BY DEF RunsInOrder
<1>1. ASSUME NEW v \in Jobs
      PROVE  /\ v \in Range(run) => Runs(v, place[v])
             /\ v \notin Range(run) => place[v] = Len(run) + v
  <2>1. ASSUME v \in Range(run) PROVE Runs(v, place[v])
    <3>1. \E k : Runs(v, k)
      BY <1>0, <2>1 DEF Range
    <3>2. place[v] = CHOOSE k : Runs(v, k)
      BY <2>1
    <3> HIDE DEF Runs, place
    <3> QED
      BY <3>1, <3>2
  <2> QED
    BY <2>1
<1> HIDE DEF place
<1>2. \A v \in Jobs : v \in Nat \ {0}
  BY FragmentationAssumption DEF Jobs
<1>3. \A v \in Jobs : place[v] \in Nat /\ (v \in Range(run) <=> place[v] <= Len(run))
  BY <1>0, <1>1, <1>2
<1>4. \A v, w \in Jobs : place[v] = place[w] => v = w
  BY <1>0, <1>1, <1>2, <1>3
<1>5. ASSUME NEW v \in Jobs, NEW w \in Jobs PROVE Longer(v, w) <=> place[v] < place[w]
  <2>1. CASE v \in Range(run) /\ w \in Range(run)
    <3>1. \A i \in DOMAIN run : (run[i] = v <=> i = place[v]) /\ (run[i] = w <=> i = place[w])
      BY <1>0, <1>1, <2>1 DEF RunsInOrder, NoRepeats
    <3> QED
      BY <1>0, <1>1, <2>1, <3>1 DEF Longer
  <2>2. CASE v \in Range(run) /\ w \notin Range(run)
    BY <1>0, <1>3, <2>2 DEF Longer
  <2>3. CASE v \notin Range(run) /\ w \in Range(run)
    <3>1. ~ \E i, k \in DOMAIN run : run[i] = v /\ run[k] = w /\ i < k
      BY <2>3 DEF Range
    <3> QED
      BY <1>0, <1>3, <2>3, <3>1 DEF Longer
  <2>4. CASE v \notin Range(run) /\ w \notin Range(run)
    <3>1. ~ \E i, k \in DOMAIN run : run[i] = v /\ run[k] = w /\ i < k
      BY <2>4 DEF Range
    <3>2. Longer(v, w) <=> v < w
      BY <2>4, <3>1 DEF Longer
    <3> QED
      BY <1>0, <1>1, <1>2, <2>4, <3>2
  <2> QED
    BY <2>1, <2>2, <2>3, <2>4
<1>6. \A v \in Jobs : Req(v) \in Nat /\ Prio[v] \in Nat
  BY FragmentationAssumption DEF Req
<1>7. \A v, w \in Jobs :
        Preferred(v, w) <=> \/ Req(v) > Req(w)
                            \/ Req(v) = Req(w) /\ (Prio[v] < Prio[w] \/ (Prio[v] = Prio[w] /\ place[v] < place[w]))
  BY <1>5 DEF Preferred
<1> QED
  BY <1>3, <1>4, <1>6, <1>7

Sorted(order) == \A i, k \in DOMAIN order : i < k => Preferred(order[i], order[k])

\* Every set of jobs can be put in the order of preference: a job's place is the number
\* of those preferred to it.
LEMMA PreferenceExists ==
  ASSUME RunsInOrder, NEW S \in SUBSET Jobs
  PROVE  \E order \in SetToSeqs(S) : Sorted(order)
<1> DEFINE n == Cardinality(S)
           Before1(j) == { w \in S : Preferred(w, j) }
           r == [j \in S |-> Cardinality(Before1(j)) + 1]
<1>1. IsFiniteSet(S) /\ n \in Nat
  <2>1. 1 \in Int /\ NJobs \in Int
    BY FragmentationAssumption
  <2>2. IsFiniteSet(Jobs)
    BY <2>1, FS_Interval DEF Jobs
  <2> QED
    BY <2>2, FS_Subset, FS_CardinalityType
<1>2. ASSUME NEW j \in S
      PROVE  IsFiniteSet(Before1(j)) /\ Cardinality(Before1(j)) \in 0 .. n - 1
  <2>1. Before1(j) \in SUBSET S /\ Before1(j) # S
    BY PreferenceIsOrder
  <2> HIDE DEF Before1
  <2> QED
    BY <1>1, <2>1, FS_Subset, FS_CardinalityType
<1>3. ASSUME NEW j \in S, NEW h \in S, Preferred(j, h) PROVE r[j] < r[h]
  <2>1. Before1(j) \in SUBSET Before1(h) /\ Before1(j) # Before1(h)
    BY <1>3, PreferenceIsOrder
  <2>2. /\ IsFiniteSet(Before1(h)) /\ Cardinality(Before1(h)) \in 0 .. n - 1
        /\ IsFiniteSet(Before1(j)) /\ Cardinality(Before1(j)) \in 0 .. n - 1
    BY <1>2
  <2> HIDE DEF Before1
  <2>3. Cardinality(Before1(j)) <= Cardinality(Before1(h)) /\ Cardinality(Before1(j)) # Cardinality(Before1(h))
    BY <2>1, <2>2, FS_Subset
  <2> QED
    BY <1>1, <2>2, <2>3
<1>4. r \in [S -> 1 .. n]
  <2> HIDE DEF Before1
  <2> QED
    BY <1>1, <1>2
<1> HIDE DEF r
<1>5. \A j, h \in S : r[j] = r[h] => j = h
  <2>1. \A j \in S : r[j] \in Nat
    BY <1>1, <1>4
  <2> QED
    BY <1>3, <2>1, PreferenceIsOrder
<1>6. r \in Surjection(S, 1 .. n)
  <2>1. r \in Injection(S, 1 .. n)
    BY <1>4, <1>5 DEF Injection, IsInjective
  <2>2. 1 \in Int /\ n \in Int
    BY <1>1
  <2> HIDE DEF n
  <2>3. IsFiniteSet(1 .. n) /\ Cardinality(1 .. n) = n
    BY <1>1, <2>2, FS_Interval
  <2> QED
    BY <1>1, <2>1, <2>3, FS_Injection DEF n
<1> HIDE DEF n
<1>7. \A k \in 1 .. n : \E j \in S : r[j] = k
  BY <1>6 DEF Surjection
<1> DEFINE order == [k \in 1 .. n |-> CHOOSE j \in S : r[j] = k]
<1>8. \A k \in 1 .. n : order[k] \in S /\ r[order[k]] = k
  BY <1>7
<1>9. order \in [1 .. n -> S] /\ DOMAIN order = 1 .. n
  BY <1>8
<1> HIDE DEF order
<1>10. order \in SetToSeqs(S)
  BY <1>8, <1>9 DEF SetToSeqs, n
<1>11. ASSUME NEW i \in 1 .. n, NEW k \in 1 .. n, i < k PROVE Preferred(order[i], order[k])
  <2>1. order[i] \in S /\ order[k] \in S /\ r[order[i]] = i /\ r[order[k]] = k
    BY <1>8
  <2>2. ~Preferred(order[k], order[i]) /\ order[i] # order[k]
    BY <1>1, <1>3, <1>11, <2>1
  <2> QED
    BY <2>1, <2>2, PreferenceIsOrder
<1> QED
  BY <1>9, <1>10, <1>11 DEF Sorted

\* The walk over a node's candidates ends with the limit at the latest.
LEMMA ChoiceIs ==
  ASSUME RunsInOrder, NEW S \in SUBSET Jobs
  PROVE  /\ Greedy(ByPreference(S)) \in Seq(Jobs) /\ NoRepeats(Greedy(ByPreference(S)))
         /\ Len(Greedy(ByPreference(S))) <= MaxTargets
         /\ \A i \in 1 .. Len(Greedy(ByPreference(S))) : Greedy(ByPreference(S))[i] \in S
<1> DEFINE order == ByPreference(S)
           stops == { k \in 1 .. Len(order) : Enough(order, k) }
<1>1. order \in SetToSeqs(S)
  BY PreferenceExists DEF ByPreference, Sorted
<1>2. Cardinality(S) \in Nat
  <2>1. 1 \in Int /\ NJobs \in Int
    BY FragmentationAssumption
  <2>2. IsFiniteSet(Jobs)
    BY <2>1, FS_Interval DEF Jobs
  <2> QED
    BY <2>2, FS_Subset, FS_CardinalityType
<1> HIDE DEF order
<1>3. /\ order \in Seq(Jobs) /\ Len(order) \in Nat /\ NoRepeats(order)
      /\ \A i \in 1 .. Len(order) : order[i] \in S
  BY <1>1, <1>2 DEF SetToSeqs, NoRepeats
<1>4. MaxTargets \in Nat \ {0}
  BY FragmentationAssumption
<1>5. MaxTargets <= Len(order) => MaxTargets \in stops
  BY <1>3, <1>4 DEF Enough
<1>6. Greedy(order) = IF stops = {} THEN order ELSE SubSeq(order, 1, Min(stops))
  BY DEF Greedy
<1>7. stops \in SUBSET Nat /\ \A k \in stops : k <= Len(order)
  BY <1>3
<1> HIDE DEF stops
<1>8. CASE stops = {}
  BY <1>3, <1>4, <1>5, <1>6, <1>8 DEF order
<1>9. CASE stops # {}
  <2> DEFINE m == Min(stops)
  <2>1. m \in stops /\ \A k \in stops : m <= k
    BY <1>7, <1>9, LeastNat DEF Min
  <2> HIDE DEF m
  <2>2. m \in Nat /\ m <= Len(order) /\ m <= MaxTargets
    BY <1>3, <1>4, <1>5, <1>7, <2>1
  <2> DEFINE g == SubSeq(order, 1, m)
  <2>3. g \in Seq(Jobs) /\ Len(g) = m /\ \A i \in 1 .. m : g[i] = order[i]
    BY <1>3, <2>2
  <2> HIDE DEF g
  <2>4. NoRepeats(g) /\ \A i \in 1 .. Len(g) : g[i] \in S
    BY <1>3, <2>2, <2>3 DEF NoRepeats
  <2>5. Greedy(order) = g
    BY <1>6, <1>9 DEF g, m
  <2> QED
    BY <2>2, <2>3, <2>4, <2>5 DEF order
<1> QED
  BY <1>8, <1>9

\* What the cluster does meanwhile moves no victim to another node.
LEMMA ClusterKeepsMeaning ==
  ASSUME MeantInv, Cluster \/ DrainNode
  PROVE  MeantInv'
<1> USE DEF MeantInv
<1>0. Nodes \cap States = {}
  BY FragmentationAssumption
<1>1. UNCHANGED thread
  BY DEF Cluster, DrainNode
<1>2. /\ UNCHANGED <<step, seen, target, victims>>
      /\ target \in Blocked => (target \in Blocked)'
  BY <1>1 DEF thread, Blocked
<1>3. ASSUME st' \in [Jobs -> Nodes \cup States], RunsInOrder',
             \A v \in Jobs : \/ st'[v] = st[v] \/ st'[v] = "over" \/ st[v] \in {"new", "pending"}
                             \/ step = "sleep"
      PROVE  MeantInv'
  <2>1. ASSUME NEW v \in Jobs, seen[v] \in Nodes PROVE st'[v] \in {seen[v], "requeued", "over"}
    <3>1. st[v] \notin {"new", "pending"}
      BY <1>0, <2>1 DEF ListedRuns, States
    <3>2. step # "sleep"
      BY <1>0, <2>1 DEF ListedRuns, States, Unseen
    <3> QED
      BY <1>3, <2>1, <3>1, <3>2 DEF ListedRuns
  <2>2. ListedRuns'
    BY <1>2, <2>1 DEF ListedRuns, Unseen
  <2> QED
    BY <1>2, <1>3, <2>2
<1>4. CASE UNCHANGED <<st, run>>
  <2>1. RunsInOrder'
    BY <1>4 DEF RunsInOrder
  <2> QED
    BY <1>3, <1>4, <2>1
<1>5. ASSUME NEW j \in Jobs, st[j] \notin Nodes, NEW x \in Nodes \cup States, st' = [st EXCEPT ![j] = x], UNCHANGED run
      PROVE  RunsInOrder' /\ st' \in [Jobs -> Nodes \cup States]
  BY <1>5 DEF RunsInOrder
<1>6. ASSUME NEW j \in Jobs, Submit(j) PROVE MeantInv'
  <2>1. st[j] \notin Nodes /\ "pending" \in States
    BY <1>0, <1>6 DEF Submit, States
  <2>2. RunsInOrder' /\ st' \in [Jobs -> Nodes \cup States]
    BY <1>5, <1>6, <2>1 DEF Submit
  <2>3. \A v \in Jobs : st'[v] = st[v] \/ st[v] = "new"
    BY <1>6 DEF Submit
  <2> QED
    BY <1>3, <2>2, <2>3
<1>7. ASSUME NEW j \in Jobs, Eligible(j) PROVE MeantInv'
  <2>1. st[j] \notin Nodes /\ "pending" \in States /\ step = "sleep"
    BY <1>0, <1>7 DEF Eligible, States
  <2>2. RunsInOrder' /\ st' \in [Jobs -> Nodes \cup States]
    BY <1>5, <1>7, <2>1 DEF Eligible
  <2> QED
    BY <1>3, <2>1, <2>2
<1>8. ASSUME NEW j \in Jobs, NEW n \in Nodes, Start(j, n) PROVE MeantInv'
  <2>1. st[j] = "pending" /\ st[j] \notin Nodes /\ st' = [st EXCEPT ![j] = n] /\ run' = Append(run, j)
    BY <1>0, <1>8 DEF Start, States
  <2>2. run \in Seq(Jobs) /\ Len(run) \in Nat /\ \A i \in 1 .. Len(run) : run[i] \in Jobs /\ run[i] # j
    BY <2>1 DEF RunsInOrder
  <2>3. /\ run' \in Seq(Jobs) /\ Len(run') = Len(run) + 1 /\ run'[Len(run) + 1] = j
        /\ \A i \in 1 .. Len(run) : run'[i] = run[i]
    BY <2>1, <2>2
  <2>4. NoRepeats(run')
    BY <2>2, <2>3 DEF RunsInOrder, NoRepeats
  <2>5. st' \in [Jobs -> Nodes \cup States] /\ st'[j] = n /\ \A v \in Jobs \ {j} : st'[v] = st[v]
    BY <2>1
  <2>6. \A i \in 1 .. Len(run') : st'[run'[i]] \in Nodes
    BY <2>2, <2>3, <2>5 DEF RunsInOrder
  <2>7. RunsInOrder'
    BY <2>3, <2>4, <2>6 DEF RunsInOrder
  <2> QED
    BY <1>3, <2>1, <2>5, <2>7
<1>9. ASSUME NEW j \in Jobs, End(j) PROVE MeantInv'
  <2>1. run' = Without(j) /\ st' = [st EXCEPT ![j] = "over"]
    BY <1>9 DEF End
  <2>2. st' \in [Jobs -> Nodes \cup States] /\ st'[j] = "over" /\ \A v \in Jobs \ {j} : st'[v] = st[v]
    BY <2>1 DEF States
  <2> DEFINE w == Without(j)
  <2>3. /\ w \in Seq(Jobs) /\ NoRepeats(w)
        /\ \A i \in 1 .. Len(w) : w[i] # j /\ \E k \in 1 .. Len(run) : w[i] = run[k]
    BY WithoutIs DEF RunsInOrder
  <2>4. run' = w
    BY <2>1
  <2> HIDE DEF w
  <2>5. ASSUME NEW i \in 1 .. Len(w) PROVE st'[w[i]] \in Nodes
    <3>1. PICK k \in 1 .. Len(run) : w[i] = run[k]
      BY <2>3
    <3>2. w[i] \in Jobs \ {j} /\ st[w[i]] \in Nodes
      BY <2>3, <3>1 DEF RunsInOrder
    <3> QED
      BY <2>2, <3>2
  <2>6. RunsInOrder'
    BY <2>3, <2>4, <2>5 DEF RunsInOrder
  <2> QED
    BY <1>3, <2>2, <2>6
<1> QED
  BY <1>4, <1>6, <1>7, <1>8, <1>9 DEF Cluster, DrainNode, Drain

\* The lists, the decision and the calls.
LEMMA ThreadKeepsMeaning ==
  ASSUME MeantInv, TickBegins \/ ListJobs \/ ListNodes \/ Decide \/ Requeue
  PROVE  MeantInv'
<1> USE DEF MeantInv
<1>0. Nodes \cap States = {}
  BY FragmentationAssumption
<1>1. CASE TickBegins \/ ListNodes
  <2>1. UNCHANGED <<st, run, seen>> /\ step' \in {"jobs", "decide"}
    BY <1>1 DEF TickBegins, ListNodes, cluster
  <2> QED
    BY <2>1 DEF RunsInOrder, ListedRuns, Stages
<1>2. CASE ListJobs
  <2>1. UNCHANGED <<st, run>> /\ step' \in {"jobs", "nodes"}
    BY <1>2 DEF ListJobs, cluster
  <2>2. seen' = [j \in Jobs |-> IF PartOf[j] = part THEN st[j] ELSE seen[j]]
    BY <1>2 DEF ListJobs
  <2>3. ListedRuns'
    BY <2>1, <2>2 DEF ListedRuns
  <2> QED
    BY <2>1, <2>3 DEF RunsInOrder, Stages
<1>3. CASE Decide
  <2>1. PICK n \in BestNodes : victims' = Greedy(ByPreference(Candidates(TheHead, n)))
    BY <1>3 DEF Decide
  <2>2. UNCHANGED <<st, run, seen, free>> /\ step = "decide" /\ step' = "requeue" /\ target' = TheHead
    BY <1>3 DEF Decide, cluster
  <2>3. n \in Nodes /\ TheHead \in Blocked
    BY <2>1 DEF BestNodes, TheHead, Heads
  <2>4. TheHead \in Blocked'
    BY <2>2, <2>3 DEF Blocked
  <2> DEFINE S == Candidates(TheHead, n)
             w == Greedy(ByPreference(S))
  <2>5. S \in SUBSET Jobs /\ \A v \in S : seen[v] = n /\ Prio[TheHead] > Prio[v] + Gap
    BY DEF Candidates
  <2>6. victims' = w
    BY <2>1
  <2> HIDE DEF S
  <2>7. w \in Seq(Jobs) /\ NoRepeats(w) /\ Len(w) <= MaxTargets /\ \A i \in 1 .. Len(w) : w[i] \in S
    BY <2>5, ChoiceIs
  <2> HIDE DEF w
  <2>8. ListedRuns' /\ RunsInOrder'
    BY <2>2 DEF ListedRuns, RunsInOrder
  <2>9. \A i \in 1 .. Len(w) : seen[w[i]] = n /\ Prio[TheHead] > Prio[w[i]] + Gap
    BY <2>5, <2>7
  <2> QED
    BY <2>2, <2>3, <2>4, <2>6, <2>7, <2>8, <2>9 DEF Stages
<1>4. CASE Requeue
  <2>1. step = "requeue" /\ UNCHANGED <<step, seen, free, target>> /\ victims # << >> /\ victims' = Tail(victims)
    BY <1>4 DEF Requeue
  <2> DEFINE h == Head(victims)
  <2>2. h \in Jobs /\ Len(victims) \in Nat
    BY <2>1
  <2>3. /\ victims' \in Seq(Jobs) /\ Len(victims') = Len(victims) - 1
        /\ \A i \in 1 .. Len(victims') : victims'[i] = victims[i + 1] /\ i + 1 \in 1 .. Len(victims)
    BY <2>1
  <2>4. Len(victims') <= MaxTargets /\ NoRepeats(victims')
    <3>1. MaxTargets \in Nat
      BY FragmentationAssumption
    <3>2. NoRepeats(victims')
      BY <2>1, <2>2, <2>3 DEF NoRepeats
    <3> QED
      BY <2>1, <2>2, <2>3, <3>1, <3>2
  <2>5. (target \in Blocked)'
    BY <2>1 DEF Blocked
  <2>6. \E n \in Nodes : \A i \in 1 .. Len(victims') :
          seen'[victims'[i]] = n /\ Prio[target'] > Prio[victims'[i]] + Gap
    <3>1. PICK n \in Nodes : \A i \in 1 .. Len(victims) :
            seen[victims[i]] = n /\ Prio[target] > Prio[victims[i]] + Gap
      BY <2>1
    <3> QED
      BY <2>1, <2>3, <3>1
  <2> HIDE DEF h
  <2>7. ASSUME st' \in [Jobs -> Nodes \cup States], RunsInOrder',
               \A v \in Jobs : st'[v] \in {st[v], "requeued"}
        PROVE  MeantInv'
    <3>1. ListedRuns'
      BY <2>1, <2>7 DEF ListedRuns
    <3> QED
      BY <2>1, <2>3, <2>4, <2>5, <2>6, <2>7, <3>1
  <2>8. CASE UNCHANGED <<st, run>>
    <3>1. RunsInOrder'
      BY <2>8 DEF RunsInOrder
    <3> QED
      BY <2>7, <2>8, <3>1
  <2>9. CASE st' = [st EXCEPT ![h] = "requeued"] /\ run' = Without(h)
    <3>1. st' \in [Jobs -> Nodes \cup States] /\ st'[h] = "requeued" /\ \A v \in Jobs \ {h} : st'[v] = st[v]
      BY <2>2, <2>9 DEF States
    <3> DEFINE w == Without(h)
    <3>2. /\ w \in Seq(Jobs) /\ NoRepeats(w)
          /\ \A i \in 1 .. Len(w) : w[i] # h /\ \E k \in 1 .. Len(run) : w[i] = run[k]
      BY <2>2, WithoutIs DEF RunsInOrder
    <3>3. run' = w
      BY <2>9
    <3> HIDE DEF w
    <3>4. ASSUME NEW i \in 1 .. Len(w) PROVE st'[w[i]] \in Nodes
      <4>1. PICK k \in 1 .. Len(run) : w[i] = run[k]
        BY <3>2
      <4>2. w[i] \in Jobs \ {h} /\ st[w[i]] \in Nodes
        BY <3>2, <4>1 DEF RunsInOrder
      <4> QED
        BY <3>1, <4>2
    <3>5. RunsInOrder'
      BY <3>2, <3>3, <3>4 DEF RunsInOrder
    <3> QED
      BY <2>2, <2>7, <3>1, <3>5
  <2>10. UNCHANGED <<st, run>> \/ (st' = [st EXCEPT ![h] = "requeued"] /\ run' = Without(h))
    BY <1>4 DEF Requeue, Requeued, h
  <2> QED
    BY <2>8, <2>9, <2>10
<1> QED
  BY <1>1, <1>2, <1>3, <1>4

LEMMA MeantStep == MeantInv /\ [FragmentationNext]_fragmentation => MeantInv'
<1> SUFFICES ASSUME MeantInv, [FragmentationNext]_fragmentation PROVE MeantInv'
  OBVIOUS
<1>1. CASE Cluster \/ DrainNode
  BY <1>1, ClusterKeepsMeaning
<1>2. CASE TickBegins \/ ListJobs \/ ListNodes \/ Decide \/ Requeue
  BY <1>2, ThreadKeepsMeaning
<1>3. CASE ReadFails \/ Abstain \/ Done \/ Restart
  <2>1. UNCHANGED <<st, run>> /\ step' = "sleep" /\ seen' = Unseen
    BY <1>3 DEF ReadFails, Abstain, Done, Restart, Sleep, cluster
  <2>2. Unseen \in [Jobs -> Nodes \cup States] /\ \A v \in Jobs : Unseen[v] \notin Nodes
    BY FragmentationAssumption DEF Unseen, States
  <2> QED
    BY <2>1, <2>2 DEF MeantInv, RunsInOrder, ListedRuns, Stages, Unseen
<1>4. CASE Tick \/ UNCHANGED fragmentation
  <2>1. UNCHANGED <<st, run, step, seen, free, target, victims>>
    BY <1>4 DEF Tick, fragmentation, cluster, thread
  <2> QED
    BY <2>1 DEF MeantInv, RunsInOrder, ListedRuns, Unseen, Blocked
<1> QED
  BY <1>1, <1>2, <1>3, <1>4 DEF FragmentationNext, Loop

LEMMA MeantInvariant == FragmentationSpec => []MeantInv
<1>1. FragmentationInit => MeantInv
  <2> SUFFICES ASSUME FragmentationInit PROVE MeantInv
    OBVIOUS
  <2>1. st = Unseen /\ seen = Unseen /\ run = << >> /\ step = "sleep"
    BY DEF FragmentationInit, Unseen
  <2>2. Unseen \in [Jobs -> Nodes \cup States] /\ \A v \in Jobs : Unseen[v] \notin Nodes
    BY FragmentationAssumption DEF Unseen, States
  <2>3. RunsInOrder
    BY <2>1 DEF RunsInOrder, NoRepeats
  <2> QED
    BY <2>1, <2>2, <2>3 DEF MeantInv, ListedRuns, Stages
<1> QED
  BY <1>1, MeantStep, PTL DEF FragmentationSpec

\* Between the lists and the last call jobs end and start and nodes drain; a call still stops
\* the run that was listed, on the chosen node, of a job that yields to one that waited and
\* fitted nowhere (fragmentation.py, decide and FragmentationReconciler.reconcile).
THEOREM RequeuesStopWhatWasListed == FragmentationSpec => []RequeuesAreMeant
<1>1. MeantInv => RequeuesAreMeant
  <2> SUFFICES ASSUME MeantInv, step = "requeue" PROVE RequeuesAreMeant
    BY DEF RequeuesAreMeant
  <2>0. Nodes \cap States = {}
    BY FragmentationAssumption
  <2>1. PICK n \in Nodes : \A i \in 1 .. Len(victims) :
          seen[victims[i]] = n /\ Prio[target] > Prio[victims[i]] + Gap
    BY DEF MeantInv
  <2>2. victims \in Seq(Jobs) /\ DOMAIN victims = 1 .. Len(victims)
    BY DEF MeantInv
  <2>3. ASSUME NEW v \in Range(victims)
        PROVE  Prio[target] > Prio[v] + Gap /\ (st[v] \in Nodes => st[v] = n)
    <3>1. PICK i \in 1 .. Len(victims) : victims[i] = v
      BY <2>2 DEF Range
    <3>2. v \in Jobs /\ seen[v] = n
      BY <2>1, <2>2, <3>1
    <3>3. st[v] \in {n, "requeued", "over"}
      BY <3>2 DEF MeantInv, ListedRuns
    <3> QED
      BY <2>0, <2>1, <3>1, <3>3 DEF States
  <2>4. IsInjective(victims)
    BY <2>2 DEF MeantInv, NoRepeats, IsInjective
  <2> QED
    BY <2>3, <2>4 DEF MeantInv, RequeuesAreMeant
<1> QED
  BY <1>1, MeantInvariant, PTL

\* Nothing the loop does cuts a run short but for a job it yields to; the job at the top is
\* never stopped (fragmentation.py, snapshot: priority_gap).
THEOREM OnlyYieldingJobsAreStopped == FragmentationSpec => OnlyYieldingJobsStop
<1> DEFINE Stop == \A v \in Jobs : st[v] \in Nodes /\ st'[v] = "requeued" =>
                     target \in Blocked /\ Prio[target] > Prio[v] + Gap /\ v \notin Top
<1>1. MeantInv /\ [FragmentationNext]_fragmentation => [Stop]_fragmentation
  <2> SUFFICES ASSUME MeantInv, [FragmentationNext]_fragmentation,
                      NEW v \in Jobs, st[v] \in Nodes, st'[v] = "requeued"
               PROVE  target \in Blocked /\ Prio[target] > Prio[v] + Gap /\ v \notin Top
    OBVIOUS
  <2>0. Nodes \cap States = {} /\ st \in [Jobs -> Nodes \cup States] /\ st'[v] # st[v]
    BY FragmentationAssumption DEF MeantInv, States
  <2>1. ~Cluster
    <3>1. ASSUME NEW j \in Jobs, NEW x, st' = [st EXCEPT ![j] = x], x # "requeued" PROVE FALSE
      BY <2>0, <3>1
    <3>2. "requeued" \notin Nodes
      BY <2>0 DEF States
    <3> QED
      BY <2>0, <3>1, <3>2 DEF Cluster, Submit, Eligible, End, Start
  <2>2. Requeue
    BY <2>0, <2>1 DEF FragmentationNext, fragmentation, DrainNode, Drain, Tick, Loop, TickBegins, ListJobs,
       ListNodes, ReadFails, Decide, Abstain, Done, Restart, cluster
  <2>3. step = "requeue" /\ victims # << >> /\ victims \in Seq(Jobs)
    BY <2>2 DEF Requeue, MeantInv
  <2>4. v = Head(victims)
    BY <2>0, <2>2 DEF Requeue, Requeued
  <2>5. 1 \in 1 .. Len(victims) /\ victims[1] = v
    BY <2>3, <2>4
  <2>6. target \in Blocked /\ Prio[target] > Prio[v] + Gap
    BY <2>3, <2>5 DEF MeantInv
  <2>7. v \notin Top
    <3>1. target \in Jobs
      BY <2>6 DEF Blocked
    <3>2. Prio[v] \in Nat /\ Prio[target] \in Nat /\ Gap \in Nat
      BY <3>1, FragmentationAssumption
    <3> QED
      BY <2>6, <3>1, <3>2 DEF Top
  <2> QED
    BY <2>6, <2>7
<1> QED
  BY <1>1, MeantInvariant, PTL DEF FragmentationSpec, OnlyYieldingJobsStop

=============================================================================
