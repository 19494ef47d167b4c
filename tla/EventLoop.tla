----------------------------- MODULE EventLoop -----------------------------
(***************************************************************************)
(* The event-driven loop of the elastic operator: the watcher threads of   *)
(* operator/watchers.py, the deduplicating _PoolEventQueue between them    *)
(* and the consumer, and the consumer loop of OperatorApp.run with its     *)
(* circuit breaker (operator/app.py).  What a reconcile does with a pool   *)
(* is the subject of ElasticPool; here it is that it looked at it.         *)
(*                                                                         *)
(* _PoolEventQueue.put and get release the lock before they touch the      *)
(* inner queue: each is two steps, and other threads come in between.      *)
(***************************************************************************)
EXTENDS Naturals, Sequences, FiniteSets

CONSTANTS
  Pools,        \* the keys of _cfg_by_key
  Watchers,     \* the threads that watch Kubernetes
  ReportedAs,   \* per watch and pool: the pool an event of it is put as
  NoPool,
  MaxErrors,    \* bound: failed collects the breaker counts
  Faults        \* see FaultKinds

FaultKinds == { "collect",   \* collect_all_partition_states raises
                "watch" }    \* a watch connection breaks and loses events

Slurm   == "slurm"            \* the thread that polls squeue and sinfo
Threads == Watchers \cup {Slurm}

ASSUME LoopAssumption ==
  /\ NoPool \notin Pools /\ Slurm \notin Watchers
  /\ ReportedAs \in [Watchers -> [Pools -> Pools]]
  /\ IsFiniteSet(Pools)
  /\ MaxErrors \in Nat \ {0} /\ Faults \subseteq FaultKinds

VARIABLES
  changed,   \* pools that changed since a reconcile looked at them
  unseen,    \* per watch: pools with an event not delivered yet
  differs,   \* pools whose Slurm state is not the one in _slurm_state_cache
  polled,    \* pools the poll in progress still has to report
  adding,    \* per thread: the pool it marked pending and has not enqueued
  pending,   \* _PoolEventQueue._pending
  q,         \* _PoolEventQueue._q
  pc,        \* where the consumer is
  batch,     \* the pools the consumer is working on
  errors     \* _consecutive_errors

world    == <<changed, unseen, differs>>
reports  == <<polled, adding>>
queue    == <<pending, q>>
consumer == <<pc, batch, errors>>
vars == <<world, reports, queue, consumer>>

-----------------------------------------------------------------------------
(* The world *)

\* A pod or a StatefulSet of the pool changes: some watch has an event to deliver.
KubeChange(k, w) ==
  /\ changed' = changed \cup {k}
  /\ unseen' = [unseen EXCEPT ![w] = @ \cup {k}]
  /\ UNCHANGED <<differs, reports, queue, consumer>>

\* Jobs or nodes of the pool change in Slurm.
SlurmChange(k) ==
  /\ changed' = changed \cup {k}
  /\ differs' = differs \cup {k}
  /\ UNCHANGED <<unseen, reports, queue, consumer>>

\* A watch breaks: what it had not delivered is lost, and it reconnects later.
BreakWatch(w) ==
  /\ "watch" \in Faults
  /\ adding[w] = NoPool
  /\ unseen' = [unseen EXCEPT ![w] = {}]
  /\ UNCHANGED <<changed, differs, reports, queue, consumer>>

\* After 300 s, or after a break, the watch starts over and lists every object.
Relist(w) ==
  /\ adding[w] = NoPool
  /\ unseen' = [unseen EXCEPT ![w] = Pools]
  /\ UNCHANGED <<changed, differs, reports, queue, consumer>>

-----------------------------------------------------------------------------
(* _PoolEventQueue.put, and the threads that call it *)

\* Variant: marks the pool and enqueues it whether or not it is pending.
MarkNoDedup(t, k) ==
  /\ adding[t] = NoPool
  /\ pending' = pending \cup {k}
  /\ adding' = [adding EXCEPT ![t] = k]

\* Variant: drops a report whenever any pool is pending.
MarkOneForAll(t, k) ==
  /\ adding[t] = NoPool
  /\ pending' = IF pending = {} THEN {k} ELSE pending
  /\ adding' = [adding EXCEPT ![t] = IF pending = {} THEN k ELSE NoPool]

\* The first step of put: a pool that is pending already is dropped.
Mark(t, k) ==
  /\ adding[t] = NoPool
  /\ pending' = pending \cup {k}
  /\ adding' = [adding EXCEPT ![t] = IF k \in pending THEN NoPool ELSE k]

\* The second step, outside the lock.
Enqueue(t) ==
  /\ adding[t] # NoPool
  /\ q' = Append(q, adding[t])
  /\ adding' = [adding EXCEPT ![t] = NoPool]
  /\ UNCHANGED <<world, polled, pending, consumer>>

\* _watch_statefulsets, _watch_pods: an event is put, by the pods' watch for the first pool
\* whose name the pod's name starts with, which is another pool's when one name starts
\* with the other.
DeliverEvent(w, k) ==
  /\ k \in unseen[w]
  /\ unseen' = [unseen EXCEPT ![w] = @ \ {k}]
  /\ Mark(w, ReportedAs[w][k])
  /\ UNCHANGED <<changed, differs, polled, q, consumer>>

\* _poll_slurm_state: one poll compares every pool with the cache, then puts those
\* that differ.  Only this thread reads the cache, so it is up to date at once.
PollSlurm ==
  /\ polled = {} /\ adding[Slurm] = NoPool
  /\ differs # {}
  /\ polled' = differs /\ differs' = {}
  /\ UNCHANGED <<changed, unseen, adding, queue, consumer>>

ReportPolled(k) ==
  /\ k \in polled
  /\ polled' = polled \ {k}
  /\ Mark(Slurm, k)
  /\ UNCHANGED <<world, q, consumer>>

-----------------------------------------------------------------------------
(* The consumer *)

\* The inner q.get: the pool is in hand, and still pending.
Get ==
  /\ pc = "wait" /\ q # <<>>
  /\ batch' = {Head(q)} /\ q' = Tail(q)
  /\ pc' = "got"
  /\ UNCHANGED <<world, reports, pending, errors>>

\* Variant: clears every mark.
DiscardAll ==
  /\ pc = "got"
  /\ pending' = {}
  /\ pc' = "collect"
  /\ UNCHANGED <<world, reports, q, batch, errors>>

\* The second step of get, after which reports of the pool are accepted again.
Discard ==
  /\ pc = "got"
  /\ pending' = pending \ batch
  /\ pc' = "collect"
  /\ UNCHANGED <<world, reports, q, batch, errors>>

\* q.get saw an empty queue for reconcile_period_seconds: a full reconcile.
TimeOut ==
  /\ pc = "wait" /\ q = <<>>
  /\ batch' = Pools
  /\ pc' = "collect"
  /\ UNCHANGED <<world, reports, queue, errors>>

\* The collect reads every pool; the reconcile of the batch works on what it read.
Collect ==
  /\ pc = "collect"
  /\ changed' = changed \ batch
  /\ errors' = 0
  /\ pc' = "process"
  /\ UNCHANGED <<unseen, differs, reports, queue, batch>>

CountError == IF errors < MaxErrors THEN errors + 1 ELSE errors

\* The circuit breaker: `continue' leaves the batch behind.
CollectFails ==
  /\ "collect" \in Faults
  /\ pc = "collect"
  /\ errors' = CountError
  /\ batch' = {}
  /\ pc' = "backoff"
  /\ UNCHANGED <<world, reports, queue>>

WakeUp ==
  /\ pc = "backoff"
  /\ pc' = "wait"
  /\ UNCHANGED <<world, reports, queue, batch, errors>>

\* _process_pool of the pools in turn; whatever it raises, it swallows.
Process ==
  /\ pc = "process"
  /\ batch' = {}
  /\ pc' = "wait"
  /\ UNCHANGED <<world, reports, queue, errors>>

-----------------------------------------------------------------------------
(* The specification *)

Entries(s) == {s[i] : i \in 1 .. Len(s)}
NoRepeats(s) == \A i, j \in 1 .. Len(s) : s[i] = s[j] => i = j

\* Started watches list every pool; run() primes the queue with every pool once, in
\* the order of the configuration.
Init ==
  /\ changed = {} /\ differs = Pools /\ polled = {}
  /\ unseen = [w \in Watchers |-> Pools]
  /\ adding = [t \in Threads |-> NoPool]
  /\ pending = Pools
  /\ q \in [1 .. Cardinality(Pools) -> Pools] /\ NoRepeats(q) /\ Entries(q) = Pools
  /\ pc = "wait" /\ batch = {} /\ errors = 0

World ==
  \/ \E k \in Pools : SlurmChange(k) \/ \E w \in Watchers : KubeChange(k, w)
  \/ \E w \in Watchers : BreakWatch(w) \/ Relist(w)

Watch(w) == Enqueue(w) \/ \E k \in Pools : DeliverEvent(w, k)
Poll == Enqueue(Slurm) \/ PollSlurm \/ \E k \in Pools : ReportPolled(k)
Consume == Get \/ Discard \/ TimeOut \/ Collect \/ CollectFails \/ WakeUp \/ Process

Next == World \/ (\E w \in Watchers : Watch(w)) \/ Poll \/ Consume

Spec == Init /\ [][Next]_vars

\* The watches that put an event for the pool it is of.
Exact == { w \in Watchers : \A k \in Pools : ReportedAs[w][k] = k }

\* Every thread runs, each at its own pace, and an event waits for ever in such a watch
\* only if the watch breaks first.  Nothing is asked of the other watches' events.
ThreadsRun ==
  /\ WF_vars(Consume) /\ WF_vars(Poll) /\ \A w \in Watchers : WF_vars(Enqueue(w))
  /\ \A w \in Exact, k \in Pools : SF_vars(DeliverEvent(w, k))

\* A watch starts over again and again.
WatchesRestart == \A w \in Exact : SF_vars(Relist(w))

FairSpec == Spec /\ ThreadsRun
WatchedSpec == FairSpec /\ WatchesRestart

-----------------------------------------------------------------------------
(* Properties *)

InHand == IF pc = "got" THEN batch ELSE {}
BeingAdded == {adding[t] : t \in Threads} \ {NoPool}

\* Deduplication loses nothing although the lock is released in between: a pending
\* pool is in exactly one place, in the queue once, in a thread about to enqueue it,
\* or in the consumer's hand (app.py, _PoolEventQueue).
QueueMatchesPending ==
  /\ pending = Entries(q) \cup BeingAdded \cup InHand
  /\ NoRepeats(q)
  /\ \A s, t \in Threads : adding[s] = adding[t] /\ adding[s] # NoPool => s = t
  /\ Entries(q) \cap BeingAdded = {}
  /\ InHand \cap (Entries(q) \cup BeingAdded) = {}

\* The loop keeps what it promises: a report that is dropped or merged is covered by
\* a collect that starts after it, unless that collect fails.
Duty == INSTANCE ReconcileDuty
  WITH owed <- pending \cup (IF pc \in {"got", "collect"} THEN batch ELSE {}),
       open <- errors > 0
DutyKept == Duty!Spec

\* Once the circuit breaker stays closed, every change of a pool is looked at, also one
\* whose event was lost or put for another pool, as long as some watch lists the pool under
\* its own name (app.py, header: a missed watch event cannot leave a pool stuck).
ChangesAreObserved ==
  <>[](errors = 0) => \A k \in Pools : k \in changed ~> k \notin changed

\* Where a change of a pool can be until a collect that starts later reads it.
OnItsWay ==
  pending \cup polled \cup differs \cup (UNION { unseen[w] : w \in Watchers })
  \cup (IF pc \in {"got", "collect"} THEN batch ELSE {})
Overlooked == changed \ OnItsWay

\* Nothing but a watch that breaks or takes one pool for another and a collect that fails
\* makes the loop overlook a change:
\* not a report that is dropped because the pool is pending, nor one that comes between
\* the two steps of get, nor a full reconcile (app.py, _PoolEventQueue and run).
OnlyFaultsOverlook ==
  [][\A k \in Overlooked' \ Overlooked :
       \/ \E w \in Watchers : BreakWatch(w) /\ k \in unseen[w]
       \/ \E w \in Watchers : DeliverEvent(w, k) /\ ReportedAs[w][k] # k
       \/ CollectFails /\ k \in batch]_vars
=============================================================================
