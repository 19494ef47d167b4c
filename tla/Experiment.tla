----------------------------- MODULE Experiment -----------------------------
(***************************************************************************)
(* The experiment driver eval/scripts/scontrol_ab.py: one arm is run over  *)
(* a stream of jobs and its accounting is collected. The priority arm      *)
(* first rolls the served policy forward in a dry run and submits every    *)
(* job with its rank; the reorder arm submits in a thread while a loop     *)
(* ranks what waits; the backfill arm only submits. Slurm starts what fits *)
(* and its users only cancel.                                              *)
(***************************************************************************)
EXTENDS Integers, Sequences, FiniteSets, FiniteSetsExt

CONSTANTS Stream,        \* the jobs in the order of arrival: arrival, mps, runtime
          NodeList,      \* NODES
          NodeMps,       \* MPS_PER_GPU
          Arms,
          MaxTroubles    \* bound: commands that fail and the timeout of wait_done, together

Stream1 == DOMAIN Stream
Hosts   == DOMAIN NodeList

ASSUME ExperimentAssumption ==
  /\ DOMAIN Stream = 1 .. Len(Stream) /\ Len(Stream) \in Nat
  /\ \A j \in Stream1 : {Stream[j].arrival, Stream[j].runtime} \subseteq Nat /\ Stream[j].mps \in 1 .. NodeMps
  /\ \A i, j \in Stream1 : i < j => Stream[i].arrival <= Stream[j].arrival
  /\ MaxTroubles \in Nat

VARIABLES
  arm,
  dry,                  \* the dry run: clock, free MPS, running jobs and the order so far
  driver, submitter,    \* where the main thread and the submissions are
  next,                 \* the job that is submitted next
  meta,                 \* the jobs whose id the driver knows
  read,                 \* what the reorder loop read
  queue, place, prio,   \* Slurm: state, node and priority of the jobs
  troubles,
  records,              \* the jobs whose accounting was collected
  excused, blind        \* history: the jobs without a reply, and whether a query failed

experiment == <<arm, dry, driver, submitter, next, meta, read, queue, place, prio, troubles, records, excused, blind>>

Trouble      == troubles < MaxTroubles /\ troubles' = troubles + 1
TroubleIf(b) == IF b THEN Trouble ELSE UNCHANGED troubles

-----------------------------------------------------------------------------
(* precompute_schedule. The jobs that have arrived by the clock and are not  *)
(* in the order yet wait; submissions of equal arrival keep their order.     *)

DryStart == [t |-> 0, free |-> [h \in Hosts |-> NodeMps], running |-> {}, order |-> <<>>]
Ranked   == {dry.order[k] : k \in DOMAIN dry.order}
Arrived  == {j \in Stream1 : Stream[j].arrival <= dry.t}
Waits    == Arrived \ Ranked

HasRoom(c) == dry.free[c[2]] >= Stream[c[1]].mps
Rooms      == {c \in Waits \X Hosts : HasRoom(c)}
FirstFit   == {c \in Rooms : \A d \in Rooms : c[1] < d[1] \/ (c[1] = d[1] /\ c[2] <= d[2])}

(* The policy's answer, a job and a node, or nothing, is taken when it fits. *)
Answers == (Waits \X Hosts) \cup {<<>>}
Pick(a) == IF a # <<>> /\ a \in Rooms THEN {a} ELSE FirstFit

DryDispatch ==
  /\ driver = "dry"
  /\ \E a \in Answers : \E c \in Pick(a) :
       LET job == Stream[c[1]] IN
       dry' = [dry EXCEPT !.free[c[2]] = @ - job.mps,
                          !.running = @ \cup {<<dry.t + job.runtime, c[2], c[1]>>},
                          !.order = Append(@, c[1])]
  /\ UNCHANGED <<arm, driver, submitter, next, meta, read, queue, place, prio, troubles, records, excused, blind>>

Upcoming == {Stream[j].arrival : j \in Stream1 \ Arrived} \cup {r[1] : r \in dry.running}
Sum(S)   == FoldSet(LAMBDA r, s : s + Stream[r[3]].mps, 0, S)

DryAdvance ==
  /\ driver = "dry" /\ Rooms = {} /\ Upcoming # {}
  /\ LET t    == Max({dry.t, Min(Upcoming)})
         over == {r \in dry.running : r[1] <= t}
     IN  dry' = [dry EXCEPT !.t = t, !.running = @ \ over,
                            !.free = [h \in Hosts |-> @[h] + Sum({r \in over : r[2] = h})]]
  /\ UNCHANGED <<arm, driver, submitter, next, meta, read, queue, place, prio, troubles, records, excused, blind>>

DryEnd ==
  /\ driver = "dry" /\ Rooms = {} /\ Upcoming = {}
  /\ driver' = "submitting" /\ submitter' = "sbatch"
  /\ UNCHANGED <<arm, dry, next, meta, read, queue, place, prio, troubles, records, excused, blind>>

Rank(j) == CHOOSE k \in DOMAIN dry.order : dry.order[k] = j

-----------------------------------------------------------------------------
(* Slurm. Priorities are counted from 1 up, 0 is Slurm's own.                *)

Load(h) == FoldSet(LAMBDA j, s : s + Stream[j].mps, 0, {j \in Stream1 : queue[j] = "running" /\ place[j] = h})

SlurmStarts(j, h) ==
  /\ queue[j] = "waiting" /\ Load(h) + Stream[j].mps <= NodeMps
  /\ queue' = [queue EXCEPT ![j] = "running"] /\ place' = [place EXCEPT ![j] = h]
  /\ UNCHANGED <<arm, dry, driver, submitter, next, meta, read, prio, troubles, records, excused, blind>>

(* A job completes, or it fails, runs out of time or is cancelled.            *)
SlurmEnds(j, state) ==
  /\ queue[j] = "running" \/ (queue[j] = "waiting" /\ state = "failed")
  /\ queue' = [queue EXCEPT ![j] = state] /\ place' = [place EXCEPT ![j] = 0]
  /\ UNCHANGED <<arm, dry, driver, submitter, next, meta, read, prio, troubles, records, excused, blind>>

Ended  == {"completed", "failed"}
Queued == {j \in Stream1 : queue[j] = "waiting"}
Busy   == {j \in Stream1 : queue[j] \in {"waiting", "running"}}

-----------------------------------------------------------------------------
(* submit_stream: the jobs in the order of arrival, each with its sbatch and, *)
(* in the priority arm, its priority. A submission may be refused, and its    *)
(* reply may be lost: no id is read either way.                               *)

Advance(known) ==
  IF arm = "priority" /\ known THEN submitter' = "update" /\ UNCHANGED next
  ELSE submitter' = "sbatch" /\ next' = next + 1

Sbatch(accepted, replied) ==
  /\ submitter = "sbatch" /\ next \in Stream1
  /\ replied => accepted
  /\ TroubleIf(~replied)
  /\ queue' = IF accepted THEN [queue EXCEPT ![next] = "waiting"] ELSE queue
  /\ meta' = IF replied THEN meta \cup {next} ELSE meta
  /\ excused' = IF replied THEN excused ELSE excused \cup {next}
  /\ Advance(replied)
  /\ UNCHANGED <<arm, dry, driver, read, place, prio, records, blind>>

(* scontrol update of a job that runs already changes nothing that matters.  *)
UpdatePriority(ok) ==
  /\ submitter = "update" /\ TroubleIf(~ok)
  /\ prio' = IF ok /\ next \in Queued
             THEN [prio EXCEPT ![next] = Len(dry.order) + 1 - Rank(next)] ELSE prio
  /\ submitter' = "sbatch" /\ next' = next + 1
  /\ UNCHANGED <<arm, dry, driver, meta, read, queue, place, records, excused, blind>>

SubmitterEnds ==
  /\ submitter = "sbatch" /\ next \notin Stream1 /\ submitter' = "done"
  /\ driver' = IF driver = "submitting" THEN "wait" ELSE driver
  /\ UNCHANGED <<arm, dry, next, meta, read, queue, place, prio, troubles, records, excused, blind>>

-----------------------------------------------------------------------------
(* run_reorder_arm: the loop asks whether all is done, or else reads the     *)
(* queue, has it ranked and writes the ranks.                                *)

\* mutant: what is known so far is taken for all
AllSubmittedOrIdle == TRUE
AllSubmitted       == submitter = "done" /\ Cardinality(meta) >= Len(Stream)

IsDone(ok) ==
  /\ driver = "loop" /\ TroubleIf(~ok)
  /\ ok \/ AllSubmitted
  /\ LET done == AllSubmitted /\ (ok => Busy \cap meta = {}) IN
     driver' = IF done THEN "wait" ELSE "cycle"
  /\ blind' = (blind \/ ~ok)
  /\ UNCHANGED <<arm, dry, submitter, next, meta, read, queue, place, prio, records, excused>>

GetState(ok) ==
  /\ driver = "cycle" /\ TroubleIf(~ok)
  /\ read' = IF ok THEN Queued \cap meta ELSE {}
  /\ driver' = "write"
  /\ UNCHANGED <<arm, dry, submitter, next, meta, queue, place, prio, records, excused, blind>>

Rankings == {f \in [read -> 1 .. Cardinality(read)] : \A i, j \in read : i # j => f[i] # f[j]}

SetPriorities(ok) ==
  /\ driver = "write" /\ TroubleIf(~ok)
  /\ \E f \in Rankings :
       prio' = [j \in Stream1 |-> IF ok /\ j \in read \cap Queued THEN f[j] ELSE prio[j]]
  /\ driver' = "loop" /\ read' = {}
  /\ UNCHANGED <<arm, dry, submitter, next, meta, queue, place, records, excused, blind>>

-----------------------------------------------------------------------------
(* wait_done: polls until no job is left, or the deadline. A failed squeue   *)
(* prints nothing, as if no job were left.                                   *)
WaitDone(ok) ==
  /\ driver = "wait" /\ TroubleIf(~ok)
  /\ ok => Busy \cap meta = {}
  /\ blind' = (blind \/ ~ok)
  /\ driver' = "collect"
  /\ UNCHANGED <<arm, dry, submitter, next, meta, read, queue, place, prio, records, excused>>

(* collect_job_records: a job that is not over or did not complete is left   *)
(* out.                                                                      *)
Completed == {j \in meta : queue[j] = "completed"}

Collect(ok) ==
  /\ driver = "collect" /\ TroubleIf(~ok)
  /\ records' = IF ok THEN Completed ELSE {}
  /\ blind' = (blind \/ ~ok)
  /\ driver' = "done"
  /\ UNCHANGED <<arm, dry, submitter, next, meta, read, queue, place, prio, excused>>

-----------------------------------------------------------------------------
ExperimentInit ==
  /\ arm \in Arms /\ dry = DryStart
  /\ driver = IF arm = "priority" THEN "dry" ELSE IF arm = "reorder" THEN "loop" ELSE "submitting"
  /\ submitter = IF arm = "priority" THEN "later" ELSE "sbatch"
  /\ next = 1 /\ meta = {} /\ read = {}
  /\ queue = [j \in Stream1 |-> "none"] /\ place = [j \in Stream1 |-> 0] /\ prio = [j \in Stream1 |-> 0]
  /\ troubles = 0 /\ records = {} /\ excused = {} /\ blind = FALSE

Precompute == DryDispatch \/ DryAdvance \/ DryEnd
SlurmRuns  == \E j \in Stream1 : (\E h \in Hosts : SlurmStarts(j, h)) \/ \E s \in Ended : SlurmEnds(j, s)
SubmitJobs == SubmitterEnds \/ \E ok \in BOOLEAN : UpdatePriority(ok) \/ \E a \in BOOLEAN : Sbatch(a, ok)
Drive      == \E ok \in BOOLEAN : IsDone(ok) \/ GetState(ok) \/ SetPriorities(ok) \/ WaitDone(ok) \/ Collect(ok)

ExperimentNext == Precompute \/ SlurmRuns \/ SubmitJobs \/ Drive

-----------------------------------------------------------------------------
(* What an arm collects is whole: every job of the stream has its record or  *)
(* came to an end without completing, but for the jobs whose submission      *)
(* failed, and unless a query failed or the wait timed out (is_done,         *)
(* wait_done, collect_job_records).                                          *)
Failed == {j \in meta : queue[j] = "failed"}

ResultsAreWhole == driver = "done" /\ ~blind => records \cup Failed \cup excused = Stream1
=============================================================================
