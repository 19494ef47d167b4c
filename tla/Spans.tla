-------------------------------- MODULE Spans --------------------------------
(***************************************************************************)
(* The spans that a reconcile pass opens and closes for the jobs it sees   *)
(* (src/operator/reconciler.py): queue_wait while a job is pending and     *)
(* job_running while it runs. Passes over the pools share the two tables   *)
(* of open spans. The trace that a span continues, which is read from the  *)
(* job's AdminComment, is left out.                                        *)
(***************************************************************************)
EXTENDS Integers, FiniteSets

CONSTANTS PartitionOf,    \* partition of each job
          MaxRequeues     \* bound

TracedJobs == DOMAIN PartitionOf
TracedPartitions == {PartitionOf[j] : j \in TracedJobs}

ASSUME SpansAssumption == IsFiniteSet(TracedJobs) /\ MaxRequeues \in Nat

VARIABLES
  life,                         \* Slurm: state of each job
  requeued,                     \* how often it was requeued
  pendingTrace, runningTrace,   \* the jobs in _job_pending_trace and _job_running_trace
  waits, runs                   \* the spans of each kind and job that are open

spans == <<life, requeued, pendingTrace, runningTrace, waits, runs>>

-----------------------------------------------------------------------------
Lives == {<<"new", "pending">>, <<"pending", "running">>, <<"running", "completing">>,
          <<"completing", "gone">>, <<"pending", "gone">>}

Live(j) ==
  /\ \E s \in Lives : life[j] = s[1] /\ life' = [life EXCEPT ![j] = s[2]]
  /\ UNCHANGED <<requeued, pendingTrace, runningTrace, waits, runs>>

RequeueJob(j) ==
  /\ life[j] = "running" /\ requeued[j] < MaxRequeues
  /\ life' = [life EXCEPT ![j] = "pending"] /\ requeued' = [requeued EXCEPT ![j] = @ + 1]
  /\ UNCHANGED <<pendingTrace, runningTrace, waits, runs>>

-----------------------------------------------------------------------------
Visible(p) == {j \in TracedJobs : PartitionOf[j] = p /\ life[j] \in {"pending", "running", "completing"}}

(* The jobs of a listing whose queue_wait ends because they run.             *)
\* mutant: the table keeps the job
LeaveQueueNever(p) == {}
LeaveQueue(p)      == {j \in Visible(p) \cap pendingTrace : life[j] = "running"}

NewWaits(p) == {j \in Visible(p) \ pendingTrace : life[j] = "pending"}
NewRuns(p)  == {j \in Visible(p) : life[j] = "running" /\ (j \in pendingTrace \/ j \notin runningTrace)}

Open(f, S)  == [j \in TracedJobs |-> IF j \in S THEN f[j] + 1 ELSE f[j]]
Close(f, S) == [j \in TracedJobs |-> IF j \in S THEN f[j] - 1 ELSE f[j]]

(* A pass over a pool of partition p: the jobs it lists, then every tracked  *)
(* job that is not among them, of whatever partition.                        *)
TracePass(p) ==
  LET waiting == (pendingTrace \cup NewWaits(p)) \ LeaveQueue(p)
      running == runningTrace \cup NewRuns(p)
  IN  /\ pendingTrace' = waiting \cap Visible(p)
      /\ runningTrace' = running \cap Visible(p)
      /\ waits' = Close(Open(waits, NewWaits(p)), LeaveQueue(p) \cup (waiting \ Visible(p)))
      /\ runs' = Close(Open(runs, NewRuns(p)), running \ Visible(p))
      /\ UNCHANGED <<life, requeued>>

-----------------------------------------------------------------------------
SpansInit ==
  /\ life = [j \in TracedJobs |-> "new"] /\ requeued = [j \in TracedJobs |-> 0]
  /\ pendingTrace = {} /\ runningTrace = {}
  /\ waits = [j \in TracedJobs |-> 0] /\ runs = [j \in TracedJobs |-> 0]

SpansNext ==
  \/ \E j \in TracedJobs : Live(j) \/ RequeueJob(j)
  \/ \E p \in TracedPartitions : TracePass(p)

-----------------------------------------------------------------------------
(* A span is closed some day: every open queue_wait is in its table, and so  *)
(* is every open job_running, but for one that a requeue of its job may have *)
(* left behind, whichever pools' passes come first (_process_pool, "Close    *)
(* spans for jobs that have left the visible set").                          *)
OpenSpansAreTracked ==
  \A j \in TracedJobs :
    /\ waits[j] = IF j \in pendingTrace THEN 1 ELSE 0
    /\ runs[j] - (IF j \in runningTrace THEN 1 ELSE 0) \in 0 .. requeued[j]
=============================================================================
