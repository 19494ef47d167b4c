------------------------ MODULE ObservabilityProofs ------------------------
(***************************************************************************)
(* Proofs about the dashboard, the job spans, the experiment driver and    *)
(* the operator's collection, for every number of jobs, partitions, pools, *)
(* requeues, failed calls, outages and clicks and every stream of an       *)
(* experiment.                                                             *)
(***************************************************************************)
EXTENDS Observability, SequenceTheorems, FiniteSetTheorems, NaturalsInduction,
        WellFoundedInduction, TLAPS

-----------------------------------------------------------------------------
(* The watcher of the queue *)

\* What the watcher remembers is what it announced last, and it has nothing to announce
\* before its first look.
WatcherInv ==
  /\ previous = announced
  /\ previous = None => version = 0
  /\ looked /\ previous # None => current # None

LEMMA WatcherStep == WatcherInv /\ (GuiNext \/ UNCHANGED gui) => WatcherInv'
<1> SUFFICES ASSUME WatcherInv, GuiNext \/ UNCHANGED gui PROVE WatcherInv'
  OBVIOUS
<1>1. ASSUME UNCHANGED watcher
      PROVE  WatcherInv'
  BY <1>1 DEF WatcherInv, watcher
<1>2. ASSUME NEW ok \in BOOLEAN, Look(ok)
      PROVE  WatcherInv'
  <2>1. current' = LookedAt(ok) /\ UNCHANGED <<previous, announced, version>>
    BY <1>2 DEF Look
  <2>2. <<Signature>> # None
    BY DEF None
  <2> QED
    BY <2>1, <2>2 DEF WatcherInv, LookedAt
<1>3. CASE Compare
  BY <1>3 DEF Compare, WatcherInv
<1>4. CASE UNCHANGED gui
  BY <1>1, <1>4 DEF gui, watcher
<1>5. CASE QueueChanges
  BY <1>1, <1>5 DEF QueueChanges, Record, Age, Submit, End
<1>6. CASE Browse
  BY <1>1, <1>6 DEF Browse, DispatchEvent, TimerFires, Refresh, ChangeApiBase, Answer
<1>7. CASE Connect \/ ReadVersion \/ Wake \/ CollectNext \/ \E ok \in BOOLEAN : Write(ok)
  BY <1>1, <1>7 DEF Connect, ReadVersion, Wake, CollectNext, Write
<1> QED
  BY <1>2, <1>3, <1>4, <1>5, <1>6, <1>7 DEF GuiNext, Serve

-----------------------------------------------------------------------------
(* The events and the polls of the page *)

\* No event is newer than the broker's version.
EventInv ==
  /\ version \in Nat /\ asked \in 0 .. version
  /\ sse = [phase |-> sse.phase, after |-> sse.after, id |-> sse.id] /\ sse.id \in 0 .. version
  /\ inbox \in Seq(Nat) /\ \A i \in 1 .. Len(inbox) : inbox[i] <= version

\* A poll that has read the queue read it after the last event, or another one follows;
\* without a poll, the page is up to date or showed an error.
PollInv ==
  /\ inFlight \in BOOLEAN /\ pollPending \in BOOLEAN /\ timer \in BOOLEAN /\ failed \in BOOLEAN
  /\ request.step \in 1 .. 3 /\ shown \in Nat /\ request.asOf \in Nat
  /\ inFlight \/ timer
  /\ inFlight /\ request.step > 1 => pollPending \/ asked <= request.asOf
  /\ ~inFlight => asked <= shown \/ pollPending \/ failed

LEMMA EventStep == EventInv /\ (GuiNext \/ UNCHANGED gui) => EventInv'
<1> SUFFICES ASSUME EventInv, GuiNext \/ UNCHANGED gui PROVE EventInv'
  OBVIOUS
<1>1. ASSUME UNCHANGED <<version, sse, inbox>>, asked' \in {asked, 0}
      PROVE  EventInv'
  BY <1>1 DEF EventInv
<1>2. CASE Compare
  <2>1. version' \in Nat /\ version <= version' /\ UNCHANGED <<sse, inbox, asked>>
    BY <1>2 DEF Compare, EventInv, stream, page
  <2> QED
    BY <2>1 DEF EventInv
<1>3. CASE Connect \/ ReadVersion \/ Wake
  <2>1. UNCHANGED <<version, inbox, asked>>
    BY <1>3 DEF Connect, ReadVersion, Wake, watcher, page
  <2>2. sse' = [phase |-> sse'.phase, after |-> sse'.after, id |-> sse'.id] /\ sse'.id \in 0 .. version
    <3>1. CASE Connect
      BY <3>1 DEF Connect, NoStream, EventInv
    <3>2. CASE ReadVersion
      <4>1. sse' = [phase |-> "waiting", after |-> version, id |-> 0]
        BY <3>2 DEF ReadVersion, NoStream
      <4> QED
        BY <4>1 DEF EventInv
    <3>3. CASE Wake
      <4>1. sse' = [phase |-> "writing", after |-> sse.after, id |-> version]
        BY <3>3 DEF Wake, EventInv
      <4> QED
        BY <4>1 DEF EventInv
    <3> QED
      BY <1>3, <3>1, <3>2, <3>3
  <2> QED
    BY <2>1, <2>2 DEF EventInv
<1>4. ASSUME NEW ok \in BOOLEAN, Write(ok)
      PROVE  EventInv'
  <2>1. UNCHANGED <<version, asked>>
    BY <1>4 DEF Write, watcher, page
  <2>2. sse' = [phase |-> sse'.phase, after |-> sse'.after, id |-> sse'.id] /\ sse'.id \in 0 .. version
    <3>1. CASE ok
      <4>1. sse' = [phase |-> "waiting", after |-> sse.id, id |-> sse.id]
        BY <1>4, <3>1 DEF Write, EventInv
      <4> QED
        BY <4>1 DEF EventInv
    <3>2. CASE ~ok
      BY <1>4, <3>2 DEF Write, NoStream, EventInv
    <3> QED
      BY <3>1, <3>2
  <2>3. inbox' \in Seq(Nat) /\ \A i \in 1 .. Len(inbox') : inbox'[i] <= version
    <3>1. CASE inbox' = inbox
      BY <3>1 DEF EventInv
    <3>2. CASE inbox' = Append(inbox, sse.id)
      BY <3>2, AppendProperties DEF EventInv
    <3> QED
      BY <1>4, <3>1, <3>2 DEF Write
  <2> QED
    BY <2>1, <2>2, <2>3 DEF EventInv
<1>5. CASE DispatchEvent
  <2>1. inbox # <<>> /\ inbox' = Tail(inbox) /\ asked' = Head(inbox) /\ UNCHANGED <<version, sse>>
    BY <1>5 DEF DispatchEvent, watcher
  <2>2. inbox \in Seq(Nat) /\ \A i \in 1 .. Len(inbox) : inbox[i] <= version
    BY DEF EventInv
  <2>3. /\ Tail(inbox) \in Seq(Nat) /\ Len(Tail(inbox)) = Len(inbox) - 1 /\ Len(inbox) \in Nat \ {0}
        /\ \A i \in 1 .. Len(Tail(inbox)) : Tail(inbox)[i] = inbox[i + 1]
    BY <2>1, <2>2
  <2>4. inbox'  \in Seq(Nat) /\ \A i \in 1 .. Len(inbox') : inbox'[i] <= version
    BY <2>1, <2>2, <2>3
  <2>5. asked' = inbox[1] /\ inbox[1] \in Nat /\ inbox[1] <= version
    BY <2>1, <2>2, <2>3
  <2> QED
    BY <2>1, <2>4, <2>5 DEF EventInv
<1>6. CASE ChangeApiBase
  <2>1. sse' = [phase |-> "closed", after |-> 0, id |-> 0] /\ inbox' = <<>> /\ asked' = 0 /\ version' = version
    BY <1>6 DEF ChangeApiBase, NoStream, watcher
  <2> QED
    BY <2>1 DEF EventInv
<1>7. CASE UNCHANGED gui \/ QueueChanges \/ CollectNext \/ TimerFires \/ Refresh
             \/ \E ok \in BOOLEAN : Look(ok) \/ Answer(ok)
  <2>1. UNCHANGED <<version, sse, inbox, asked>>
    BY <1>7 DEF gui, QueueChanges, Record, Age, Submit, End, CollectNext, TimerFires, Refresh, Look, Answer,
                watcher, stream, page
  <2> QED
    BY <1>1, <2>1
<1> QED
  BY <1>2, <1>3, <1>4, <1>5, <1>6, <1>7 DEF GuiNext, Serve, Browse

\* A request that was just made is at its first step.
LEMMA FreshRequest == NoRequest.step \in 1 .. 3 /\ ~(NoRequest.step > 1) /\ NoRequest.asOf \in Nat
<1>1. NoRequest.step = 1 /\ NoRequest.asOf = 0
  BY DEF NoRequest
<1> QED
  BY <1>1

LEMMA PollStep == EventInv /\ PollInv /\ (GuiNext \/ UNCHANGED gui) => PollInv'
<1> SUFFICES ASSUME EventInv, PollInv, GuiNext \/ UNCHANGED gui PROVE PollInv'
  OBVIOUS
<1>1. ASSUME UNCHANGED page
      PROVE  PollInv'
  BY <1>1 DEF PollInv, page
<1>2. CASE UNCHANGED gui \/ QueueChanges \/ Compare \/ Connect \/ ReadVersion \/ Wake
             \/ \E ok \in BOOLEAN : Look(ok) \/ Write(ok)
  <2>1. UNCHANGED page
    BY <1>2 DEF gui, QueueChanges, Record, Age, Submit, End, Compare, Connect, ReadVersion, Wake, Look, Write, page
  <2> QED
    BY <1>1, <2>1
<1>3. CASE CollectNext
  <2>1. /\ inFlight /\ request.step \in 1 .. 2
        /\ request' = Read(request)
        /\ UNCHANGED <<inFlight, pollPending, timer, shown, asked, failed, version>>
    BY <1>3 DEF CollectNext, Reads, watcher
  <2>2. /\ request'.step = request.step + 1
        /\ request'.asOf = IF Reads[request.step] = "queue" THEN version ELSE request.asOf
    BY <2>1 DEF Read
  <2>3. Reads[1] = "queue" /\ Reads[2] = "history"
    BY DEF Reads
  <2>4. request'.asOf \in Nat /\ (pollPending \/ asked <= request'.asOf)
    <3>1. CASE request.step = 1
      BY <2>2, <2>3, <3>1 DEF EventInv
    <3>2. CASE request.step = 2
      BY <2>1, <2>2, <2>3, <3>2 DEF PollInv
    <3> QED
      BY <2>1, <3>1, <3>2
  <2> QED
    BY <2>1, <2>2, <2>4 DEF PollInv
<1>4. ASSUME CallPoll, UNCHANGED failed, shown' \in Nat,
             inFlight => pollPending' \/ UNCHANGED <<asked, shown>>
      PROVE  PollInv'
  <2>1. /\ timer' = FALSE /\ inFlight' = TRUE
        /\ pollPending' = (pollPending \/ inFlight)
        /\ request' = IF inFlight THEN request ELSE NoRequest
    BY <1>4 DEF CallPoll, Poll
  <2>2. pollPending' \in BOOLEAN
    BY <2>1 DEF PollInv
  <2>3. CASE inFlight
    BY <1>4, <2>1, <2>2, <2>3 DEF PollInv
  <2>4. CASE ~inFlight
    <3>1. request'.step \in 1 .. 3 /\ ~(request'.step > 1) /\ request'.asOf \in Nat
      BY <2>1, <2>4, FreshRequest
    <3> QED
      BY <1>4, <2>1, <2>2, <2>4, <3>1, Zenon DEF PollInv
  <2> QED
    BY <2>3, <2>4
<1>5. CASE DispatchEvent \/ TimerFires \/ Refresh
  <2>1. CallPoll /\ UNCHANGED <<failed, shown>>
    BY <1>5 DEF DispatchEvent, TimerFires, Refresh
  <2>2. inFlight => pollPending'
    BY <2>1 DEF CallPoll, Poll, PollInv
  <2> QED
    BY <1>4, <2>1, <2>2 DEF PollInv
<1>6. CASE ChangeApiBase
  <2>1. CallPoll /\ UNCHANGED failed /\ shown' = 0
    BY <1>6 DEF ChangeApiBase
  <2>2. inFlight => pollPending'
    BY <2>1 DEF CallPoll, Poll, PollInv
  <2> QED
    BY <1>4, <2>1, <2>2
<1>7. ASSUME NEW ok \in BOOLEAN, Answer(ok)
      PROVE  PollInv'
  <2>1. /\ inFlight /\ (ok => request.step \notin DOMAIN Reads)
        /\ shown' = IF ok THEN request.asOf ELSE shown
        /\ failed' = ~ok /\ inFlight' = pollPending /\ pollPending' = FALSE /\ timer' = ~pollPending
        /\ asked' = asked
    BY <1>7 DEF Answer
  <2>2. request'.step \in 1 .. 3 /\ ~(request'.step > 1) /\ request'.asOf \in Nat
    BY <1>7, FreshRequest DEF Answer
  <2>3. ok => request.step > 1
    <3>1. 1 \in DOMAIN Reads
      BY DEF Reads
    <3> QED
      BY <2>1, <3>1 DEF PollInv
  <2>4. ~inFlight' => asked' <= shown' \/ failed'
    BY <2>1, <2>3 DEF PollInv
  <2>5. shown' \in Nat /\ (inFlight' \/ timer') /\ inFlight' \in BOOLEAN /\ timer' \in BOOLEAN
    BY <2>1 DEF PollInv
  <2> QED
    BY <2>1, <2>2, <2>4, <2>5, Zenon DEF PollInv
<1> QED
  BY <1>2, <1>3, <1>5, <1>6, <1>7 DEF GuiNext, Serve, Browse

LEMMA PollsSuffice == EventInv /\ PollInv => EventsBringAPoll
<1> SUFFICES ASSUME EventInv, PollInv PROVE EventsBringAPoll
  OBVIOUS
<1>1. CASE inFlight
  BY <1>1 DEF PollInv, EventsBringAPoll
<1>2. CASE ~inFlight
  BY <1>2 DEF PollInv, EventsBringAPoll
<1> QED
  BY <1>1, <1>2

-----------------------------------------------------------------------------
(* The three parts of the dashboard together *)

GuiInv == WatcherInv /\ EventInv /\ PollInv

LEMMA GuiStart == GuiInit => GuiInv
<1> SUFFICES ASSUME GuiInit PROVE GuiInv
  OBVIOUS
<1>1. WatcherInv
  BY DEF GuiInit, WatcherInv
<1>2. EventInv
  BY DEF GuiInit, EventInv, NoStream
<1>3. PollInv
  <2>1. request.step \in 1 .. 3 /\ ~(request.step > 1) /\ request.asOf \in Nat
    BY FreshRequest DEF GuiInit
  <2> QED
    BY <2>1, Zenon DEF GuiInit, PollInv
<1> QED
  BY <1>1, <1>2, <1>3 DEF GuiInv

LEMMA GuiInvariant == Spec => []GuiInv
<1>1. Init => GuiInv
  BY GuiStart DEF Init
<1>2. GuiInv /\ [Next]_<<program, gui, spans, experiment, collector>> => GuiInv'
  <2> SUFFICES ASSUME GuiInv, [Next]_<<program, gui, spans, experiment, collector>> PROVE GuiInv'
    OBVIOUS
  <2>1. GuiNext \/ UNCHANGED gui
    BY DEF Next
  <2> QED
    BY <2>1, WatcherStep, EventStep, PollStep DEF GuiInv
<1> QED
  BY <1>1, <1>2, PTL DEF Spec

\* Between two looks the watcher remembers the queue that it announced last: however many
\* looks fail, the next one that succeeds is compared with it (QueueWatcher.run).
THEOREM ChangesReachTheBroker == Spec => []ChangesAreAnnounced
<1>1. GuiInv => ChangesAreAnnounced
  BY DEF GuiInv, WatcherInv, ChangesAreAnnounced
<1> QED
  BY <1>1, GuiInvariant, PTL

\* No event is lost on the page, whatever events, timers, clicks and failures interleave
\* (poll of src/gui/app.js).
THEOREM EventsReachThePage == Spec => []EventsBringAPoll
<1>1. GuiInv => EventsBringAPoll
  BY PollsSuffice DEF GuiInv
<1> QED
  BY <1>1, GuiInvariant, PTL

-----------------------------------------------------------------------------
(* The spans of the operator *)

Unseen(j) == runs[j] - (IF j \in runningTrace THEN 1 ELSE 0)   \* open, but in no table

\* A requeue that the passes have not caught up with may cost one more span.
Requeue(j) == IF j \in runningTrace /\ (life[j] = "pending" \/ j \in pendingTrace) THEN 1 ELSE 0

SpanInv(j) ==
  /\ waits[j] = IF j \in pendingTrace THEN 1 ELSE 0
  /\ runs[j] \in Int /\ requeued[j] \in Nat
  /\ Unseen(j) >= 0 /\ Unseen(j) + Requeue(j) <= requeued[j]
  /\ life[j] = "new" => j \notin pendingTrace /\ j \notin runningTrace

SpansInv ==
  /\ life = [j \in TracedJobs |-> life[j]] /\ requeued = [j \in TracedJobs |-> requeued[j]]
  /\ \A j \in TracedJobs : SpanInv(j)

LEMMA LifeKeepsSpans ==
  ASSUME SpansInv, NEW k \in TracedJobs, Live(k) \/ RequeueJob(k)
  PROVE  SpansInv'
<1>1. UNCHANGED <<pendingTrace, runningTrace, waits, runs>>
  BY DEF Live, RequeueJob
<1>2. life' = [j \in TracedJobs |-> life'[j]] /\ requeued' = [j \in TracedJobs |-> requeued'[j]]
  BY DEF Live, RequeueJob, SpansInv
<1>3. ASSUME NEW j \in TracedJobs, j # k
      PROVE  life'[j] = life[j] /\ requeued'[j] = requeued[j]
  BY <1>3 DEF Live, RequeueJob, SpansInv
<1>4. ASSUME NEW j \in TracedJobs
      PROVE  SpanInv(j)'
  <2>1. CASE j # k
    BY <1>1, <1>3, <2>1 DEF SpansInv, SpanInv, Unseen, Requeue
  <2>2. ASSUME Live(k), j = k
        PROVE  SpanInv(j)'
    <3>1. /\ requeued'[j] = requeued[j] /\ life'[j] # "new"
          /\ life'[j] = "pending" => life[j] = "new"
      BY <2>2 DEF Live, Lives, SpansInv
    <3>2. Requeue(j)' <= Requeue(j)
      BY <1>1, <3>1 DEF Requeue, SpansInv, SpanInv
    <3>3. Requeue(j) \in {0, 1} /\ Requeue(j)' \in {0, 1} /\ Unseen(j)' = Unseen(j)
      BY <1>1 DEF Requeue, Unseen
    <3> QED
      BY <1>1, <3>1, <3>2, <3>3 DEF SpansInv, SpanInv, Unseen
  <2>3. ASSUME RequeueJob(k), j = k
        PROVE  SpanInv(j)'
    <3>1. requeued'[j] = requeued[j] + 1 /\ life'[j] = "pending"
      BY <2>3 DEF RequeueJob, SpansInv
    <3>2. Requeue(j) \in {0, 1} /\ Requeue(j)' \in {0, 1} /\ Unseen(j)' = Unseen(j)
      BY <1>1 DEF Requeue, Unseen
    <3> QED
      BY <1>1, <3>1, <3>2 DEF SpansInv, SpanInv, Unseen
  <2> QED
    BY <2>1, <2>2, <2>3
<1> QED
  BY <1>2, <1>4 DEF SpansInv

LEMMA PassKeepsSpans ==
  ASSUME SpansInv, NEW p \in TracedPartitions, TracePass(p)
  PROVE  SpansInv'
<1>1. UNCHANGED <<life, requeued>>
  BY DEF TracePass
<1>2. ASSUME NEW j \in TracedJobs
      PROVE  SpanInv(j)'
  <2> DEFINE visible == j \in Visible(p)
             waited  == j \in pendingTrace
             ran     == j \in runningTrace
             queues  == visible /\ ~waited /\ life[j] = "pending"
             starts  == visible /\ life[j] = "running" /\ (waited \/ ~ran)
             leaves  == visible /\ waited /\ life[j] = "running"
  <2>1. /\ (j \in NewWaits(p)) = queues /\ (j \in NewRuns(p)) = starts /\ (j \in LeaveQueue(p)) = leaves
        /\ visible => life[j] \in {"pending", "running", "completing"}
    BY DEF NewWaits, NewRuns, LeaveQueue, Visible
  <2>2. /\ (j \in pendingTrace') = ((waited \/ queues) /\ ~leaves /\ visible)
        /\ (j \in runningTrace') = ((ran \/ starts) /\ visible)
    BY <2>1 DEF TracePass
  <2>3. waits'[j] = (IF queues THEN waits[j] + 1 ELSE waits[j])
                    - (IF leaves \/ ((waited \/ queues) /\ ~leaves /\ ~visible) THEN 1 ELSE 0)
    <3>1. waits[j] \in Int
      BY DEF SpansInv, SpanInv
    <3> QED
      BY <2>1, <3>1 DEF TracePass, Open, Close
  <2>4. runs'[j] = (IF starts THEN runs[j] + 1 ELSE runs[j]) - (IF (ran \/ starts) /\ ~visible THEN 1 ELSE 0)
    <3>1. runs[j] \in Int
      BY DEF SpansInv, SpanInv
    <3> QED
      BY <2>1, <3>1 DEF TracePass, Open, Close
  <2>5. SpanInv(j) /\ life'[j] = life[j] /\ requeued'[j] = requeued[j]
    BY <1>1 DEF SpansInv
  <2> HIDE DEF visible
  <2>6. waits'[j] = IF j \in pendingTrace' THEN 1 ELSE 0
    BY <2>2, <2>3, <2>5 DEF SpanInv
  <2>7. runs'[j] \in Int /\ Unseen(j)' >= 0
    BY <2>2, <2>4, <2>5 DEF SpanInv, Unseen
  <2>8. Unseen(j)' + Requeue(j)' <= requeued'[j]
    BY <2>1, <2>2, <2>4, <2>5 DEF SpanInv, Unseen, Requeue
  <2>9. life'[j] = "new" => j \notin pendingTrace' /\ j \notin runningTrace'
    BY <2>1, <2>2, <2>5 DEF SpanInv
  <2> QED
    BY <2>5, <2>6, <2>7, <2>8, <2>9 DEF SpanInv
<1> QED
  BY <1>1, <1>2 DEF SpansInv

LEMMA SpansInvariant == Spec => []SpansInv
<1>1. Init => SpansInv
  BY DEF Init, SpansInit, SpansInv, SpanInv, Unseen, Requeue
<1>2. SpansInv /\ [Next]_<<program, gui, spans, experiment, collector>> => SpansInv'
  <2> SUFFICES ASSUME SpansInv, [Next]_<<program, gui, spans, experiment, collector>> PROVE SpansInv'
    OBVIOUS
  <2>1. CASE UNCHANGED spans
    BY <2>1 DEF spans, SpansInv, SpanInv, Unseen, Requeue
  <2>2. CASE SpansNext
    BY <2>2, LifeKeepsSpans, PassKeepsSpans DEF SpansNext
  <2> QED
    BY <2>1, <2>2 DEF Next
<1> QED
  BY <1>1, <1>2, PTL DEF Spec

\* Whatever the jobs do and whichever pools' passes come first, an open span is in its table,
\* but for at most one job_running per requeue (_process_pool of reconciler.py).
THEOREM SpansAreClosed == Spec => []OpenSpansAreTracked
<1>1. ASSUME SpansInv, NEW j \in TracedJobs
      PROVE  /\ waits[j] = IF j \in pendingTrace THEN 1 ELSE 0
             /\ runs[j] - (IF j \in runningTrace THEN 1 ELSE 0) \in 0 .. requeued[j]
  <2>1. SpanInv(j)
    BY <1>1 DEF SpansInv
  <2>2. Requeue(j) \in {0, 1}
    BY DEF Requeue
  <2> QED
    BY <2>1, <2>2 DEF SpanInv, Unseen
<1>2. SpansInv => OpenSpansAreTracked
  BY <1>1 DEF OpenSpansAreTracked
<1> QED
  BY <1>2, SpansInvariant, PTL
-----------------------------------------------------------------------------
(* The answer of a poll *)

EndedJobs == {j \in Jobs : jobState[j] = "ended"}

\* Each job that is over ended once; its row comes and passes in that order.
EndedInv ==
  /\ DOMAIN jobState = Jobs /\ \A j \in Jobs : jobState[j] \in {"new", "active", "ended"}
  /\ ended \in Seq(Jobs) /\ EndedJobs = {ended[i] : i \in 1 .. Len(ended)}
  /\ \A i, k \in 1 .. Len(ended) : ended[i] = ended[k] => i = k
  /\ recorded \in 0 .. Len(ended) /\ aged \in 0 .. recorded

\* Between the two sources a job that left the queue is over.
AnswerInv ==
  /\ request.step \in 1 .. 3
  /\ request.step = 2 => request.submitted \subseteq request.jobs \cup EndedJobs
  /\ request.step = 3 =>
       \/ request.submitted \subseteq request.jobs \cup request.history \cup request.outside
       \/ Cardinality(request.history) = HistoryLimit

\* The newest rows are all of them, or as many as the limit.
LEMMA NewestAreEnough ==
  ASSUME NEW rows \in Seq(Jobs), \A i, k \in 1 .. Len(rows) : rows[i] = rows[k] => i = k
  PROVE  Newest(rows) = Range(rows) \/ Cardinality(Newest(rows)) = HistoryLimit
<1>0. HistoryLimit \in Nat \ {0} /\ Len(rows) \in Nat /\ DOMAIN rows = 1 .. Len(rows)
  BY GuiAssumption
<1>1. CASE Len(rows) <= HistoryLimit
  <2>1. Newest(rows) = Range(SubSeq(rows, 1, Len(rows)))
    BY <1>0, <1>1 DEF Newest
  <2>2. SubSeq(rows, 1, Len(rows)) = rows
    BY <1>0
  <2>3. Newest(rows) = Range(rows)
    BY <2>1, <2>2
  <2> QED
    BY <2>3
<1>2. CASE Len(rows) > HistoryLimit
  <2> DEFINE d == Len(rows) - HistoryLimit
             s == SubSeq(rows, d + 1, Len(rows))
  <2>1. Newest(rows) = Range(s)
    BY <1>2 DEF Newest
  <2>2. /\ s \in Seq(Jobs) /\ Len(s) = HistoryLimit /\ DOMAIN s = 1 .. HistoryLimit
        /\ \A i \in 1 .. HistoryLimit : s[i] = rows[i + d] /\ i + d \in 1 .. Len(rows)
    BY <1>0, <1>2
  <2>3. \A i, k \in 1 .. HistoryLimit : s[i] = s[k] => i = k
    <3> SUFFICES ASSUME NEW i \in 1 .. HistoryLimit, NEW k \in 1 .. HistoryLimit, s[i] = s[k] PROVE i = k
      OBVIOUS
    <3> HIDE DEF s
    <3>1. i + d \in 1 .. Len(rows) /\ k + d \in 1 .. Len(rows) /\ rows[i + d] = rows[k + d]
      BY <2>2
    <3>2. i + d = k + d
      BY <3>1
    <3> QED
      BY <1>0, <3>2
  <2>4. Range(s) = {s[i] : i \in 1 .. HistoryLimit}
    BY <2>2 DEF Range
  <2> HIDE DEF s, d
  <2>5. s \in [1 .. HistoryLimit -> Range(s)]
    BY <2>2, <2>4
  <2>6. s \in Surjection(1 .. HistoryLimit, Range(s)) /\ s \in Injection(1 .. HistoryLimit, Range(s))
    BY <2>3, <2>4, <2>5 DEF Surjection, Injection, IsInjective
  <2>7. 1 \in Int /\ HistoryLimit \in Int /\ HistoryLimit >= 1
    BY <1>0
  <2>8. IsFiniteSet(1 .. HistoryLimit)
        /\ Cardinality(1 .. HistoryLimit) = IF 1 > HistoryLimit THEN 0 ELSE HistoryLimit - 1 + 1
    BY <2>7, FS_Interval
  <2>9. (IF 1 > HistoryLimit THEN 0 ELSE HistoryLimit - 1 + 1) = HistoryLimit
    BY <2>7
  <2>10. Cardinality(Range(s)) = Cardinality(1 .. HistoryLimit)
    BY <2>6, <2>8, FS_Surjection
  <2> QED
    BY <2>1, <2>8, <2>9, <2>10
<1> QED
  BY <1>0, <1>1, <1>2

LEMMA RowsAreDistinct ==
  ASSUME EndedInv
  PROVE  Rows \in Seq(Jobs) /\ \A i, k \in 1 .. Len(Rows) : Rows[i] = Rows[k] => i = k
<1>1. ended \in Seq(Jobs) /\ recorded \in 0 .. Len(ended) /\ aged \in 0 .. recorded /\ Len(ended) \in Nat
  BY DEF EndedInv
<1>2. /\ Rows \in Seq(Jobs) /\ Len(Rows) = recorded - aged
      /\ \A i \in 1 .. Len(Rows) : Rows[i] = ended[i + aged] /\ i + aged \in 1 .. Len(ended)
  BY <1>1 DEF Rows
<1> SUFFICES ASSUME NEW i \in 1 .. Len(Rows), NEW k \in 1 .. Len(Rows), Rows[i] = Rows[k] PROVE i = k
  BY <1>2
<1>3. i + aged = k + aged
  BY <1>2 DEF EndedInv
<1> QED
  BY <1>1, <1>2, <1>3

LEMMA EndedStep ==
  ASSUME EndedInv, GuiNext \/ UNCHANGED gui
  PROVE  EndedInv' /\ EndedJobs \subseteq EndedJobs'
<1>1. CASE UNCHANGED slurmQ
  BY <1>1 DEF slurmQ, EndedInv, EndedJobs
<1>2. ASSUME NEW j \in Jobs, Submit(j) PROVE EndedInv' /\ EndedJobs \subseteq EndedJobs'
  <2>1. EndedJobs' = EndedJobs /\ DOMAIN jobState' = Jobs /\ \A k \in Jobs : jobState'[k] \in {"new", "active", "ended"}
    BY <1>2 DEF Submit, EndedInv, EndedJobs
  <2> QED
    BY <1>2, <2>1 DEF Submit, EndedInv
<1>3. ASSUME NEW j \in Jobs, End(j) PROVE EndedInv' /\ EndedJobs \subseteq EndedJobs'
  <2>1. j \notin EndedJobs /\ EndedJobs' = EndedJobs \cup {j} /\ DOMAIN jobState' = Jobs
        /\ \A k \in Jobs : jobState'[k] \in {"new", "active", "ended"}
    BY <1>3 DEF End, EndedInv, EndedJobs
  <2>2. ended' = Append(ended, j) /\ ended \in Seq(Jobs) /\ Len(ended) \in Nat
    BY <1>3 DEF End, EndedInv
  <2>3. /\ ended' \in Seq(Jobs) /\ Len(ended') = Len(ended) + 1 /\ ended'[Len(ended) + 1] = j
        /\ \A i \in 1 .. Len(ended) : ended'[i] = ended[i]
    BY <2>2
  <2>4. \A i \in 1 .. Len(ended) : ended[i] # j
    BY <2>1 DEF EndedInv
  <2>5. \A i, k \in 1 .. Len(ended') : ended'[i] = ended'[k] => i = k
    BY <2>2, <2>3, <2>4 DEF EndedInv
  <2>6. recorded' \in 0 .. Len(ended') /\ aged' \in 0 .. recorded'
    BY <1>3, <2>2, <2>3 DEF End, EndedInv
  <2>7. EndedJobs' = {ended'[i] : i \in 1 .. Len(ended')}
    BY <2>1, <2>2, <2>3 DEF EndedInv
  <2> QED
    BY <2>1, <2>3, <2>5, <2>6, <2>7 DEF EndedInv
<1>4. CASE Record \/ Age
  <2>1. EndedJobs' = EndedJobs /\ UNCHANGED <<jobState, ended>>
    BY <1>4 DEF Record, Age, EndedJobs
  <2>2. Len(ended) \in Nat
    BY DEF EndedInv
  <2>3. recorded' \in 0 .. Len(ended) /\ aged' \in 0 .. recorded'
    BY <1>4, <2>2 DEF Record, Age, EndedInv
  <2> QED
    BY <2>1, <2>3 DEF EndedInv
<1>5. CASE QueueChanges
  BY <1>2, <1>3, <1>4, <1>5 DEF QueueChanges
<1>6. CASE UNCHANGED gui \/ Serve \/ Browse
  <2>1. UNCHANGED slurmQ
    BY <1>6 DEF gui, slurmQ, Serve, Compare, Connect, ReadVersion, Wake, CollectNext, Look, Write,
       Browse, DispatchEvent, TimerFires, Refresh, ChangeApiBase, Answer
  <2> QED
    BY <1>1, <2>1
<1> QED
  BY <1>5, <1>6 DEF GuiNext

LEMMA AnswerStep ==
  ASSUME EndedInv, AnswerInv, GuiNext \/ UNCHANGED gui
  PROVE  AnswerInv'
<1>0. EndedJobs \subseteq EndedJobs'
  BY EndedStep
<1>1. CASE request' = request
  BY <1>0, <1>1 DEF AnswerInv
<1>2. CASE request' = NoRequest
  <2>1. NoRequest.step = 1
    BY DEF NoRequest
  <2> QED
    BY <1>2, <2>1 DEF AnswerInv
<1>3. CASE CollectNext
  <2>1. request' = Read(request) /\ request.step \in 1 .. 2 /\ EndedJobs' = EndedJobs
    BY <1>3 DEF CollectNext, Reads, slurmQ, EndedJobs
  <2>2. Reads[1] = "queue" /\ Reads[2] = "history"
    BY DEF Reads
  <2>3. CASE request.step = 1
    <3>1. /\ request'.step = 2 /\ request'.jobs = Active
          /\ request'.submitted = {j \in Jobs : jobState[j] # "new"}
      BY <2>1, <2>2, <2>3 DEF Read
    <3>2. request'.submitted \subseteq request'.jobs \cup EndedJobs
      BY <3>1 DEF EndedInv, Active, EndedJobs
    <3> QED
      BY <2>1, <3>1, <3>2 DEF AnswerInv
  <2>4. CASE request.step = 2
    <3>1. /\ request'.step = 3 /\ request'.jobs = request.jobs /\ request'.submitted = request.submitted
          /\ request'.history = Newest(Rows) /\ request'.outside = Range(ended) \ Range(Rows)
      BY <2>1, <2>2, <2>4 DEF Read
    <3>2. Rows \in Seq(Jobs) /\ \A i, k \in 1 .. Len(Rows) : Rows[i] = Rows[k] => i = k
      BY RowsAreDistinct
    <3>3. Newest(Rows) = Range(Rows) \/ Cardinality(Newest(Rows)) = HistoryLimit
      BY <3>2, NewestAreEnough
    <3>4. EndedJobs = Range(ended)
      BY DEF EndedInv, Range
    <3> QED
      BY <2>4, <3>1, <3>3, <3>4 DEF AnswerInv
  <2> QED
    BY <2>1, <2>3, <2>4
<1>4. CASE Browse
  BY <1>1, <1>2, <1>4 DEF Browse, DispatchEvent, TimerFires, Refresh, ChangeApiBase, CallPoll, Poll, Answer
<1>5. CASE UNCHANGED gui \/ QueueChanges \/ Compare \/ Connect \/ ReadVersion \/ Wake
             \/ \E ok \in BOOLEAN : Look(ok) \/ Write(ok)
  BY <1>1, <1>5 DEF gui, QueueChanges, Record, Age, Submit, End, Compare, Connect, ReadVersion, Wake, Look, Write, page
<1> QED
  BY <1>3, <1>4, <1>5 DEF GuiNext, Serve

\* However jobs start and end while the sources are read one after the other, a job that was
\* submitted by then is in the answer, had ended without a row in the accounting of the day,
\* or the history is full (LiveCollector.collect).
THEOREM AnswersAreWhole == Spec => []NothingVanishes
<1>1. Init => EndedInv /\ AnswerInv
  <2> SUFFICES ASSUME Init PROVE EndedInv /\ AnswerInv
    OBVIOUS
  <2>1. ended = <<>> /\ EndedJobs = {} /\ \A j \in Jobs : jobState[j] \in {"new", "active"}
    BY DEF Init, GuiInit, EndedJobs
  <2>2. request.step = 1
    BY DEF Init, GuiInit, NoRequest
  <2>3. DOMAIN jobState = Jobs /\ recorded = 0 /\ aged = 0
    BY DEF Init, GuiInit
  <2> QED
    BY <2>1, <2>2, <2>3 DEF EndedInv, AnswerInv
<1>2. EndedInv /\ AnswerInv /\ [Next]_<<program, gui, spans, experiment, collector>> => (EndedInv /\ AnswerInv)'
  <2> SUFFICES ASSUME EndedInv, AnswerInv, [Next]_<<program, gui, spans, experiment, collector>>
               PROVE  EndedInv' /\ AnswerInv'
    OBVIOUS
  <2>1. GuiNext \/ UNCHANGED gui
    BY DEF Next
  <2> QED
    BY <2>1, EndedStep, AnswerStep
<1>3. AnswerInv => NothingVanishes
  BY DEF AnswerInv, NothingVanishes, Reads
<1> QED
  BY <1>1, <1>2, <1>3, PTL DEF Spec

-----------------------------------------------------------------------------
(* The results of an arm *)

\* Submissions are through before the driver waits, each job is known or excused once it
\* was submitted, and what the driver has waited for stays over.
ResultsInv ==
  /\ next \in 1 .. Len(Stream) + 1 /\ meta \subseteq Stream1 /\ excused \subseteq Stream1
  /\ queue \in [Stream1 -> {"none", "waiting", "running"} \cup Ended] /\ blind \in BOOLEAN
  /\ \A j \in meta : queue[j] # "none"
  /\ \A j \in Stream1 : j < next \/ (j = next /\ submitter = "update") => j \in meta \cup excused
  /\ submitter = "update" => next \in Stream1
  /\ submitter = "done" => next \notin Stream1
  /\ driver \in {"wait", "collect", "done"} => submitter = "done"
  /\ driver = "collect" /\ ~blind => Busy \cap meta = {}
  /\ driver = "done" /\ ~blind => Busy \cap meta = {} /\ records = Completed

LEMMA SlurmKeepsResults ==
  ASSUME ResultsInv, SlurmRuns
  PROVE  ResultsInv'
<1>1. UNCHANGED <<driver, submitter, next, meta, records, excused, blind>>
  BY DEF SlurmRuns, SlurmEnds, SlurmStarts
<1>2. PICK k \in Busy, s \in {"running"} \cup Ended : queue' = [queue EXCEPT ![k] = s]
  <2>1. ASSUME NEW j \in Stream1, NEW s \in Ended, SlurmEnds(j, s)
        PROVE  j \in Busy /\ queue' = [queue EXCEPT ![j] = s]
    BY <2>1 DEF SlurmEnds, Busy
  <2>2. ASSUME NEW j \in Stream1, NEW h \in Hosts, SlurmStarts(j, h)
        PROVE  j \in Busy /\ queue' = [queue EXCEPT ![j] = "running"]
    BY <2>2 DEF SlurmStarts, Busy
  <2> QED
    BY <2>1, <2>2 DEF SlurmRuns
<1>3. queue' \in [Stream1 -> {"none", "waiting", "running"} \cup Ended] /\ \A j \in meta : queue'[j] # "none"
  BY <1>2 DEF ResultsInv, Ended
<1>4. Busy' \subseteq Busy /\ (Busy \cap meta = {} => Completed' = Completed)
  BY <1>1, <1>2 DEF ResultsInv, Busy, Completed
<1> QED
  BY <1>1, <1>3, <1>4 DEF ResultsInv

LEMMA SubmitterKeepsResults ==
  ASSUME ResultsInv, SubmitJobs
  PROVE  ResultsInv'
<1>0. Stream1 = 1 .. Len(Stream) /\ Len(Stream) \in Nat
  BY ExperimentAssumption DEF Stream1
<1>1. CASE SubmitterEnds
  BY <1>0, <1>1 DEF SubmitterEnds, ResultsInv, Busy, Completed
<1>2. ASSUME NEW ok \in BOOLEAN, UpdatePriority(ok) PROVE ResultsInv'
  BY <1>0, <1>2 DEF UpdatePriority, ResultsInv, Busy, Completed
<1>3. ASSUME NEW a \in BOOLEAN, NEW ok \in BOOLEAN, Sbatch(a, ok) PROVE ResultsInv'
  <2>1. /\ submitter = "sbatch" /\ next \in Stream1 /\ UNCHANGED <<driver, records, blind>>
        /\ driver \notin {"wait", "collect", "done"}
    BY <1>3 DEF Sbatch, ResultsInv
  <2>2. /\ queue' \in [Stream1 -> {"none", "waiting", "running"} \cup Ended]
        /\ meta' \subseteq Stream1 /\ excused' \subseteq Stream1 /\ \A j \in meta' : queue'[j] # "none"
    BY <1>3, <2>1 DEF Sbatch, ResultsInv
  <2>3. next \in meta' \cup excused' /\ meta \subseteq meta' /\ excused \subseteq excused'
    BY <1>3 DEF Sbatch
  <2>4. (submitter' = "update" /\ next' = next) \/ (submitter' = "sbatch" /\ next' = next + 1)
    BY <1>3 DEF Sbatch, Advance
  <2>5. next \in 1 .. Len(Stream) /\ \A j \in Stream1 : j < next => j \in meta' \cup excused'
    BY <1>0, <2>1, <2>3 DEF ResultsInv
  <2>6. \A j \in Stream1 : j < next' \/ (j = next' /\ submitter' = "update") => j \in meta' \cup excused'
    BY <1>0, <2>3, <2>4, <2>5
  <2> QED
    BY <1>0, <2>1, <2>2, <2>4, <2>5, <2>6 DEF ResultsInv
<1> QED
  BY <1>1, <1>2, <1>3 DEF SubmitJobs

LEMMA DriverKeepsResults ==
  ASSUME ResultsInv, Drive
  PROVE  ResultsInv'
<1>0. UNCHANGED <<submitter, next, meta, excused, queue>>
  BY DEF Drive, IsDone, GetState, SetPriorities, WaitDone, Collect
<1>1. ASSUME NEW ok \in BOOLEAN, IsDone(ok) PROVE ResultsInv'
  BY <1>0, <1>1 DEF IsDone, AllSubmitted, ResultsInv, Busy, Completed
<1>2. ASSUME NEW ok \in BOOLEAN, GetState(ok) \/ SetPriorities(ok) PROVE ResultsInv'
  BY <1>0, <1>2 DEF GetState, SetPriorities, ResultsInv, Busy, Completed
<1>3. ASSUME NEW ok \in BOOLEAN, WaitDone(ok) PROVE ResultsInv'
  BY <1>0, <1>3 DEF WaitDone, ResultsInv, Busy, Completed
<1>4. ASSUME NEW ok \in BOOLEAN, Collect(ok) PROVE ResultsInv'
  <2>1. blind' \in BOOLEAN /\ (~blind' => Busy \cap meta = {} /\ records' = Completed)
    BY <1>4 DEF Collect, ResultsInv
  <2> QED
    BY <1>0, <1>4, <2>1 DEF Collect, ResultsInv, Busy, Completed
<1> QED
  BY <1>1, <1>2, <1>3, <1>4 DEF Drive

LEMMA ResultsStep == ResultsInv /\ (ExperimentNext \/ UNCHANGED experiment) => ResultsInv'
<1> SUFFICES ASSUME ResultsInv, ExperimentNext \/ UNCHANGED experiment PROVE ResultsInv'
  OBVIOUS
<1>1. CASE UNCHANGED experiment
  BY <1>1 DEF experiment, ResultsInv, Busy, Completed
<1>2. CASE Precompute
  <2>1. /\ UNCHANGED <<next, meta, queue, records, excused, blind>>
        /\ (driver' = driver /\ submitter' = submitter)
             \/ (driver' = "submitting" /\ submitter' = "sbatch" /\ driver = "dry")
    BY <1>2 DEF Precompute, DryDispatch, DryAdvance, DryEnd
  <2> QED
    BY <2>1 DEF ResultsInv, Busy, Completed
<1> QED
  BY <1>1, <1>2, SlurmKeepsResults, SubmitterKeepsResults, DriverKeepsResults DEF ExperimentNext

\* Whatever the queue does and whichever arm it is, every job whose submission was answered
\* and that completed is in the results, unless a query failed (is_done, wait_done,
\* collect_job_records).
THEOREM ArmsAreWhole == Spec => []ResultsAreWhole
<1>1. Init => ResultsInv
  <2> SUFFICES ASSUME Init PROVE ResultsInv
    OBVIOUS
  <2>1. Len(Stream) \in Nat /\ Stream1 = 1 .. Len(Stream)
    BY ExperimentAssumption DEF Stream1
  <2>2. submitter \in {"later", "sbatch"} /\ driver \in {"dry", "loop", "submitting"}
    BY DEF Init, ExperimentInit
  <2>3. next = 1 /\ meta = {} /\ excused = {} /\ blind = FALSE
        /\ queue \in [Stream1 -> {"none", "waiting", "running"} \cup Ended]
    BY DEF Init, ExperimentInit
  <2>4. next \in 1 .. Len(Stream) + 1 /\ \A j \in Stream1 : ~(j < next)
    BY <2>1, <2>3
  <2>5. /\ submitter # "update" /\ submitter # "done"
        /\ driver \notin {"wait", "collect", "done"} /\ driver # "collect" /\ driver # "done"
    BY <2>2
  <2> QED
    BY <2>3, <2>4, <2>5, Zenon DEF ResultsInv
<1>2. ResultsInv /\ [Next]_<<program, gui, spans, experiment, collector>> => ResultsInv'
  <2> SUFFICES ASSUME ResultsInv, [Next]_<<program, gui, spans, experiment, collector>> PROVE ResultsInv'
    OBVIOUS
  <2>1. ExperimentNext \/ UNCHANGED experiment
    BY DEF Next
  <2> QED
    BY <2>1, ResultsStep
<1>3. ResultsInv => ResultsAreWhole
  <2> SUFFICES ASSUME ResultsInv, driver = "done", ~blind PROVE records \cup Failed \cup excused = Stream1
    BY DEF ResultsAreWhole
  <2>1. Len(Stream) \in Nat /\ Stream1 = 1 .. Len(Stream)
    BY ExperimentAssumption DEF Stream1
  <2>2. next = Len(Stream) + 1
    BY <2>1 DEF ResultsInv
  <2>3. \A j \in Stream1 : j < next
    BY <2>1, <2>2
  <2>4. \A j \in Stream1 : j \in meta \cup excused
    BY <2>3 DEF ResultsInv
  <2>5. ASSUME NEW j \in meta PROVE queue[j] \in {"completed", "failed"}
    BY DEF ResultsInv, Busy, Ended
  <2> QED
    BY <2>4, <2>5 DEF ResultsInv, Completed, Failed
<1> QED
  BY <1>1, <1>2, <1>3, PTL DEF Spec

-----------------------------------------------------------------------------
(* State collection *)

\* Nothing is asked before the ping, and what is left is a partition, then a pool.
Asking ==
  /\ TypeOK
  /\ mode = "boot" => pc = "idle"
  /\ pc = "jobs" => left \subseteq Partitions
  /\ pc = "nodes" => left \subseteq Pools

\* A steady job counts in the pools whose partition was asked for.
Served(j, k) == Partition[k] = Part[j] /\ Route(j) = k
CountedIn(j, k) ==
  /\ (j \in found[k].run)  <=> st[j] \in Held /\ Served(j, k)
  /\ (j \in found[k].pend) <=> st[j] \in Waiting /\ Served(j, k)
  /\ (j \in found[k].need) <=> st[j] = "starved" /\ Served(j, k) /\ Fits(j, k)
JobsAsked(k) == pc \in {"nodes", "done"} \/ (pc = "jobs" /\ Partition[k] \notin left)
JobsAreCounted == \A k \in Pools \ doubted : JobsAsked(k) => \A j \in steady : CountedIn(j, k)

\* A steady job on a node of a pool that was asked keeps it busy.
NodesAsked(k) == pc = "done" \/ (pc = "nodes" /\ k \notin left)
NodesAreBusy ==
  \A k \in Pools \ doubted : NodesAsked(k) =>
    \A j \in steady : st[j] \in Held /\ at[j] = k => j \in busy[k]

CollectInv == Asking /\ JobsAreCounted /\ NodesAreBusy

-----------------------------------------------------------------------------
(* The pool a job counts for *)

\* The first of a set of pools is the one without a smaller one.
LEMMA FirstIsLeast ==
  ASSUME NEW S \in SUBSET Pools, NEW k \in Pools
  PROVE  First(S) = k <=> k \in S /\ \A m \in 1 .. k - 1 : m \notin S
<1>0. S \subseteq Nat /\ k \in Nat /\ 1 <= k /\ NPools \in Nat
  BY CollectorAssumption DEF Pools
<1>1. CASE S = {}
  BY <1>0, <1>1 DEF First
<1>2. CASE S # {}
  <2> DEFINE R == OpToRel(<, Nat)
  <2>1. IsWellFoundedOn(R, Nat)
    BY NatLessThanWellFounded
  <2>2. \E l \in S : \A m \in S : ~ (<<m, l>> \in R)
    <3>1. S \subseteq Nat /\ S # {}
      BY <1>0, <1>2
    <3> HIDE DEF R
    <3> QED
      BY <2>1, <3>1, WFMin, Zenon
  <2>3. PICK l \in S : \A m \in S : ~ (<<m, l>> \in R)
    BY <2>2
  <2>4. \A m \in S : <<m, l>> \in Nat \X Nat
    BY <1>0
  <2>5. \A m \in S : ~ (m < l)
    BY <2>3, <2>4 DEF OpToRel
  <2>6. \A m \in S : l <= m
    BY <1>0, <2>5
  <2> DEFINE f == CHOOSE x \in S : \A y \in S : x =< y
  <2>7. f \in S /\ \A m \in S : f <= m
    BY <2>6
  <2>8. First(S) = f
    BY <1>2, Zenon DEF First, Min
  <2>9. \A m \in S : m \in Nat /\ 1 <= m
    BY <1>0 DEF Pools
  <2> HIDE DEF f
  <2>10. f = k => k \in S /\ \A m \in 1 .. k - 1 : m \notin S
    BY <1>0, <2>7, <2>9
  <2>11. ASSUME k \in S, \A m \in 1 .. k - 1 : m \notin S PROVE f = k
    <3>1. f \in Nat /\ 1 <= f /\ f <= k
      BY <2>7, <2>9, <2>11
    <3>2. f \notin 1 .. k - 1
      BY <2>7, <2>11
    <3> QED
      BY <1>0, <3>1, <3>2
  <2> QED
    BY <2>8, <2>10, <2>11
<1> QED
  BY <1>1, <1>2

LEMMA FirstIsThere ==
  ASSUME NEW S \in SUBSET Pools, S # {}
  PROVE  First(S) \in S
<1>1. S \subseteq Nat /\ S # {}
  BY DEF Pools
<1> DEFINE R == OpToRel(<, Nat)
<1>2. IsWellFoundedOn(R, Nat)
  BY NatLessThanWellFounded
<1>3. \E l \in S : \A m \in S : ~ (<<m, l>> \in R)
  <2> HIDE DEF R
  <2> QED
    BY <1>1, <1>2, WFMin, Zenon
<1>4. PICK l \in S : \A m \in S : ~ (<<m, l>> \in R)
  BY <1>3
<1>5. \A m \in S : <<m, l>> \in Nat \X Nat
  BY <1>1
<1>6. \A m \in S : ~ (m < l)
  BY <1>4, <1>5 DEF OpToRel
<1>7. \A m \in S : l <= m
  BY <1>1, <1>6
<1> QED
  BY <1>7, Zenon DEF First, Min

\* _classify_job: a job that waits goes to one of the pools it wants, one that runs to the
\* owner of its node, unless the name of the node misleads.
LEMMA RouteServes ==
  ASSUME TypeOK, NEW j \in SlurmJobs
  PROVE  /\ st[j] \notin Held /\ Wanted(j) # {} => Route(j) \in Wanted(j)
         /\ st[j] \notin Held /\ Wanted(j) = {} => Route(j) \notin Pools
         /\ st[j] \in Held /\ ~Mistaken(j) => Route(j) = at[j]
<1>0. Wanted(j) \in SUBSET Pools /\ Pools \subseteq Nat /\ 0 \notin Pools
  BY CollectorAssumption DEF Pools, Wanted
<1>1. ASSUME st[j] \notin Held PROVE Route(j) = First(Wanted(j))
  BY <1>1 DEF Route, PlacedIn, Wanted
<1>2. ASSUME Wanted(j) # {} PROVE First(Wanted(j)) \in Wanted(j)
  BY <1>0, <1>2, FirstIsThere
<1>3. First({}) = 0
  BY DEF First
<1>4. ASSUME st[j] \in Held, ~Mistaken(j) PROVE Route(j) = at[j]
  <2>1. at[j] \in Pools /\ at[j] \in Prefixed[at[j]]
    BY <1>4, CollectorAssumption DEF TypeOK
  <2>2. PlacedIn(j) = { m \in Pools : at[j] \in Prefixed[m] } /\ PlacedIn(j) # {}
    BY <1>4, <2>1 DEF PlacedIn
  <2>3. at[j] \in PlacedIn(j) /\ \A m \in 1 .. at[j] - 1 : m \notin PlacedIn(j)
    BY <1>4, <2>1, <2>2 DEF Mistaken
  <2>4. PlacedIn(j) \in SUBSET Pools
    BY <2>2
  <2>5. First(PlacedIn(j)) = at[j]
    BY <2>1, <2>3, <2>4, FirstIsLeast
  <2> QED
    BY <2>2, <2>5 DEF Route
<1> QED
  BY <1>0, <1>1, <1>2, <1>3, <1>4

\* What one partition's list says of a job.
LEMMA BucketCounts ==
  ASSUME TypeOK, NEW j \in SlurmJobs, NEW k \in Pools
  PROVE  LET b == Bucket(Partition[k], k) IN
         /\ (j \in b.run)  <=> st[j] \in Held /\ Served(j, k)
         /\ (j \in b.pend) <=> st[j] \in Waiting /\ Served(j, k)
         /\ (j \in b.need) <=> st[j] = "starved" /\ Served(j, k) /\ Fits(j, k)
<1>1. \A s \in Held \cup Waiting : s # "over"
  BY DEF Held, Waiting
<1>2. "starved" \in Waiting
  BY DEF Waiting
<1> DEFINE b == Bucket(Partition[k], k)
<1>3. /\ (j \in b.run)  <=> Part[j] = Partition[k] /\ st[j] # "over" /\ Route(j) = k /\ st[j] \in Held
      /\ (j \in b.pend) <=> Part[j] = Partition[k] /\ st[j] # "over" /\ Route(j) = k /\ st[j] \in Waiting
      /\ (j \in b.need) <=> Part[j] = Partition[k] /\ st[j] # "over" /\ Route(j) = k /\ st[j] = "starved" /\ Fits(j, k)
  BY DEF Bucket, Listed
<1> QED
  BY <1>1, <1>2, <1>3 DEF Served

-----------------------------------------------------------------------------
(* Types *)

LEMMA MovesKeepTypes ==
  ASSUME Asking, NEW j \in SlurmJobs, NEW s \in Held \cup Waiting \cup {"over"}, NEW p \in 0 .. NPools,
         s \in Held => p \in Pools, Moves(j, s, p)
  PROVE  Asking'
<1>1. st' \in [SlurmJobs -> Held \cup Waiting \cup {"over"}] /\ at' \in [SlurmJobs -> 0 .. NPools]
  BY DEF Moves, Asking, TypeOK
<1>2. \A i \in SlurmJobs : st'[i] \in Held => at'[i] \in Pools
  BY DEF Moves, Asking, TypeOK
<1> QED
  BY <1>1, <1>2 DEF Moves, Asking, TypeOK, link, pass

LEMMA JobKeepsTypes ==
  ASSUME Asking, NEW j \in SlurmJobs, JobMoves(j)
  PROVE  Asking'
<1>0. /\ NPools \in Nat /\ 0 \in 0 .. NPools /\ Pools \subseteq 0 .. NPools /\ at[j] \in 0 .. NPools
      /\ {"pending", "starved", "running", "completing", "over"} = Held \cup Waiting \cup {"over"}
      /\ "pending" \notin Held /\ "starved" \notin Held /\ "over" \notin Held /\ "running" \in Held
  BY CollectorAssumption DEF Pools, Held, Waiting, Asking, TypeOK
<1>1. CASE Moves(j, "starved", 0)
  BY <1>0, <1>1, MovesKeepTypes
<1>2. CASE \E k \in Pools : Moves(j, "running", k)
  BY <1>0, <1>2, MovesKeepTypes
<1>3. CASE st[j] = "running" /\ Moves(j, "completing", at[j])
  <2>1. at[j] \in Pools
    BY <1>0, <1>3 DEF Asking, TypeOK
  <2> QED
    BY <1>0, <1>3, <2>1, MovesKeepTypes
<1>4. CASE Moves(j, "pending", 0)
  BY <1>0, <1>4, MovesKeepTypes
<1>5. CASE Moves(j, "over", at[j])
  BY <1>0, <1>5, MovesKeepTypes
<1> QED
  BY <1>1, <1>2, <1>3, <1>4, <1>5 DEF JobMoves

LEMMA CollectKeepsTypes ==
  ASSUME Asking, Collection
  PROVE  Asking'
<1>0. NoneFound \in [Pools -> [pend : SUBSET SlurmJobs, need : SUBSET SlurmJobs, run : SUBSET SlurmJobs]]
      /\ NoneBusy \in [Pools -> SUBSET SlurmJobs]
  BY DEF NoneFound, NoneBusy, Nothing
<1>1. CASE Begin("loop") \/ Begin("poll")
  BY <1>1 DEF Begin, Asking, TypeOK, slurm, link
<1>2. CASE Raise \/ HandOver
  BY <1>0, <1>2 DEF Raise, HandOver, Over, Asking, TypeOK, slurm, link
<1>3. ASSUME NEW q \in Partitions, AskJobs(q) PROVE Asking'
  <2>1. \A k \in Pools : Bucket(q, k) \in [pend : SUBSET SlurmJobs, need : SUBSET SlurmJobs, run : SUBSET SlurmJobs]
    BY DEF Bucket, Listed
  <2>2. found' \in [Pools -> [pend : SUBSET SlurmJobs, need : SUBSET SlurmJobs, run : SUBSET SlurmJobs]]
    BY <1>3, <2>1 DEF AskJobs, Asking, TypeOK
  <2>3. doubted' \subseteq Pools
    BY <1>3 DEF AskJobs, Asking, TypeOK
  <2>4. pc' \in {"jobs", "nodes"} /\ (pc' = "jobs" => left' \subseteq Partitions) /\ (pc' = "nodes" => left' \subseteq Pools)
    BY <1>3 DEF AskJobs, Take, Asking, TypeOK
  <2> QED
    BY <1>3, <2>2, <2>3, <2>4 DEF AskJobs, Asking, TypeOK, slurm, link
<1>4. ASSUME NEW k \in Pools, AskNodes(k) PROVE Asking'
  <2>1. SeenBusy(k) \in SUBSET SlurmJobs
    BY DEF SeenBusy, OnNodes
  <2>2. busy' \in [Pools -> SUBSET SlurmJobs] /\ doubted' \subseteq Pools
    BY <1>4, <2>1 DEF AskNodes, Asking, TypeOK
  <2>3. pc' \in {"nodes", "done"} /\ (pc' = "nodes" => left' \subseteq Pools)
    BY <1>4 DEF AskNodes, Take, Asking, TypeOK
  <2> QED
    BY <1>4, <2>2, <2>3 DEF AskNodes, Asking, TypeOK, slurm, link
<1> QED
  BY <1>1, <1>2, <1>3, <1>4 DEF Collection

LEMMA AskingIsKept == Asking /\ [CollectorNext]_collector => Asking'
<1> SUFFICES ASSUME Asking, [CollectorNext]_collector PROVE Asking'
  OBVIOUS
<1>1. ASSUME NEW j \in SlurmJobs, JobMoves(j) PROVE Asking'
  BY <1>1, JobKeepsTypes
<1>2. CASE (\E k \in Pools : Drain(k)) \/ Outage
  BY <1>2 DEF Drain, Outage, Asking, TypeOK, link, pass
<1>3. CASE Boot
  BY <1>3 DEF Boot, Asking, TypeOK, slurm, pass
<1>4. CASE Tick \/ Restore
  BY <1>4 DEF Tick, Restore, Restored, Asking, TypeOK, slurm, pass
<1>5. CASE Restart
  <2>0. NoneFound \in [Pools -> [pend : SUBSET SlurmJobs, need : SUBSET SlurmJobs, run : SUBSET SlurmJobs]]
        /\ NoneBusy \in [Pools -> SUBSET SlurmJobs]
    BY DEF NoneFound, NoneBusy, Nothing
  <2> QED
    BY <1>5, <2>0 DEF Restart, Over, Asking, TypeOK, slurm
<1>6. CASE Collection
  BY <1>6, CollectKeepsTypes
<1>7. CASE UNCHANGED collector
  BY <1>7 DEF collector, slurm, link, pass, Asking, TypeOK
<1> QED
  BY <1>1, <1>2, <1>3, <1>4, <1>5, <1>6, <1>7 DEF CollectorNext, World

-----------------------------------------------------------------------------
(* A finished collection *)

\* Whatever Slurm does, a job is steady only as long as it does not move.
LEMMA SteadyJobsStay ==
  ASSUME CollectInv, World \/ Boot \/ Tick \/ Restore \/ UNCHANGED collector
  PROVE  /\ UNCHANGED <<pc, left, found, busy, doubted>>
         /\ steady' \subseteq steady
         /\ \A j \in steady' : st'[j] = st[j] /\ at'[j] = at[j]
<1>1. ASSUME NEW i \in SlurmJobs, JobMoves(i) PROVE \E s, p : Moves(i, s, p)
  BY <1>1 DEF JobMoves
<1>2. ASSUME NEW i \in SlurmJobs, NEW s, NEW p, Moves(i, s, p)
      PROVE  /\ UNCHANGED <<pc, left, found, busy, doubted>>
             /\ steady' \subseteq steady
             /\ \A j \in steady' : st'[j] = st[j] /\ at'[j] = at[j]
  BY <1>2 DEF Moves, pass, CollectInv, Asking, TypeOK
<1>3. CASE (\E k \in Pools : Drain(k)) \/ Outage \/ Boot \/ Tick \/ Restore \/ UNCHANGED collector
  BY <1>3 DEF Drain, Outage, Boot, Tick, Restore, collector, slurm, link, pass
<1> QED
  BY <1>1, <1>2, <1>3 DEF World

LEMMA CountsStayTrue ==
  ASSUME CollectInv, World \/ Boot \/ Tick \/ Restore \/ UNCHANGED collector
  PROVE  JobsAreCounted' /\ NodesAreBusy'
<1>1. /\ UNCHANGED <<pc, left, found, busy, doubted>> /\ steady' \subseteq steady
      /\ \A j \in steady' : st'[j] = st[j] /\ at'[j] = at[j]
  BY SteadyJobsStay
<1>2. ASSUME NEW k \in Pools \ doubted, JobsAsked(k), NEW j \in steady' PROVE CountedIn(j, k)'
  <2>1. CountedIn(j, k)
    BY <1>1, <1>2 DEF CollectInv, JobsAreCounted
  <2> QED
    BY <1>1, <2>1 DEF CountedIn, Served, Route, PlacedIn
<1>3. NodesAreBusy'
  BY <1>1 DEF CollectInv, NodesAreBusy, NodesAsked
<1> QED
  BY <1>1, <1>2, <1>3 DEF JobsAreCounted, JobsAsked

LEMMA AskingJobsCounts ==
  ASSUME CollectInv, NEW q \in Partitions, AskJobs(q)
  PROVE  JobsAreCounted' /\ NodesAreBusy'
<1>0. /\ pc = "jobs" /\ q \in left /\ doubted \subseteq doubted' /\ UNCHANGED <<st, at, steady>>
      /\ steady \subseteq SlurmJobs /\ TypeOK
      /\ found \in [Pools -> [pend : SUBSET SlurmJobs, need : SUBSET SlurmJobs, run : SUBSET SlurmJobs]]
  BY DEF AskJobs, slurm, CollectInv, Asking, TypeOK
<1>1. ASSUME NEW k \in Pools \ doubted', JobsAsked(k)', NEW j \in steady PROVE CountedIn(j, k)'
  <2>1. CASE Partition[k] = q
    <3>1. found'[k] = Bucket(q, k)
      BY <1>1, <2>1 DEF AskJobs
    <3>2. Served(j, k)' <=> Served(j, k)
      BY <1>0 DEF Served, Route, PlacedIn
    <3> QED
      BY <1>0, <2>1, <3>1, <3>2, BucketCounts DEF CountedIn
  <2>2. CASE Partition[k] # q
    <3>1. found'[k] = found[k]
      BY <1>0, <1>1, <2>2 DEF AskJobs
    <3>2. JobsAsked(k)
      BY <1>0, <1>1, <2>2 DEF JobsAsked, AskJobs, Take
    <3>3. CountedIn(j, k)
      BY <1>0, <1>1, <3>2 DEF CollectInv, JobsAreCounted
    <3> QED
      BY <1>0, <3>1, <3>3 DEF CountedIn, Served, Route, PlacedIn
  <2> QED
    BY <2>1, <2>2
<1>2. \A k \in Pools : ~NodesAsked(k)'
  BY <1>0 DEF NodesAsked, AskJobs, Take
<1> QED
  BY <1>0, <1>1, <1>2 DEF JobsAreCounted, NodesAreBusy

LEMMA AskingNodesCounts ==
  ASSUME CollectInv, NEW p \in Pools, AskNodes(p)
  PROVE  JobsAreCounted' /\ NodesAreBusy'
<1>0. /\ pc = "nodes" /\ p \in left /\ doubted \subseteq doubted' /\ UNCHANGED <<st, at, steady, found>>
      /\ steady \subseteq SlurmJobs /\ TypeOK /\ pc' \in {"nodes", "done"} /\ busy \in [Pools -> SUBSET SlurmJobs]
  BY DEF AskNodes, slurm, Take, CollectInv, Asking, TypeOK
<1>1. ASSUME NEW k \in Pools \ doubted', NEW j \in steady PROVE CountedIn(j, k)'
  <2>1. CountedIn(j, k)
    BY <1>0, <1>1 DEF CollectInv, JobsAreCounted, JobsAsked
  <2> QED
    BY <1>0, <2>1 DEF CountedIn, Served, Route, PlacedIn
<1>2. ASSUME NEW k \in Pools \ doubted', NodesAsked(k)', NEW j \in steady, st[j] \in Held, at[j] = k
      PROVE  j \in busy'[k]
  <2>1. CASE k = p
    <3>1. p \in Dashed[p] /\ p \in Prefixed[p] /\ Partition[p] \in Member[p]
      BY CollectorAssumption
    <3>2. busy'[p] = SeenBusy(p) /\ (mode = "exec" => p \notin draining)
      BY <1>0, <1>2, <2>1 DEF AskNodes
    <3>3. CASE mode = "rest"
      BY <1>0, <1>2, <2>1, <3>1, <3>2, <3>3 DEF SeenBusy, OnNodes
    <3>4. CASE mode = "exec"
      BY <1>0, <1>2, <2>1, <3>1, <3>2, <3>4 DEF SeenBusy, OnNodes
    <3>5. mode \in {"rest", "exec"}
      BY <1>0 DEF CollectInv, Asking, TypeOK
    <3> QED
      BY <3>3, <3>4, <3>5
  <2>2. CASE k # p
    <3>1. busy'[k] = busy[k]
      BY <1>0, <2>2 DEF AskNodes
    <3>2. NodesAsked(k)
      BY <1>0, <1>2, <2>2 DEF NodesAsked, AskNodes, Take
    <3> QED
      BY <1>0, <1>2, <3>1, <3>2 DEF CollectInv, NodesAreBusy
  <2> QED
    BY <2>1, <2>2
<1> QED
  BY <1>0, <1>1, <1>2 DEF JobsAreCounted, NodesAreBusy

LEMMA CollectStep == CollectInv /\ [CollectorNext]_collector => CollectInv'
<1> SUFFICES ASSUME CollectInv, [CollectorNext]_collector PROVE CollectInv'
  OBVIOUS
<1>0. Asking'
  BY AskingIsKept DEF CollectInv
<1>1. CASE World \/ Boot \/ Tick \/ Restore \/ UNCHANGED collector
  BY <1>0, <1>1, CountsStayTrue DEF CollectInv
<1>2. CASE Restart \/ Raise \/ HandOver
  <2>1. pc' = "idle"
    BY <1>2 DEF Restart, Raise, HandOver, Over
  <2> QED
    BY <1>0, <2>1 DEF CollectInv, JobsAreCounted, NodesAreBusy, JobsAsked, NodesAsked
<1>3. CASE Begin("loop") \/ Begin("poll")
  <2>1. pc' = "jobs" /\ \A k \in Pools : Partition[k] \in left'
    BY <1>3 DEF Begin, Partitions
  <2> QED
    BY <1>0, <2>1 DEF CollectInv, JobsAreCounted, NodesAreBusy, JobsAsked, NodesAsked
<1>4. ASSUME NEW q \in Partitions, AskJobs(q) PROVE CollectInv'
  BY <1>0, <1>4, AskingJobsCounts DEF CollectInv
<1>5. ASSUME NEW k \in Pools, AskNodes(k) PROVE CollectInv'
  BY <1>0, <1>5, AskingNodesCounts DEF CollectInv
<1> QED
  BY <1>1, <1>2, <1>3, <1>4, <1>5 DEF CollectorNext, Collection

LEMMA CollectorStart == CollectorInit => CollectInv
<1> SUFFICES ASSUME CollectorInit PROVE CollectInv
  OBVIOUS
<1>1. NoneFound \in [Pools -> [pend : SUBSET SlurmJobs, need : SUBSET SlurmJobs, run : SUBSET SlurmJobs]]
      /\ NoneBusy \in [Pools -> SUBSET SlurmJobs]
  BY DEF NoneFound, NoneBusy, Nothing
<1>2. NPools \in Nat /\ 0 \in 0 .. NPools
  BY CollectorAssumption
<1>3. Asking
  BY <1>1, <1>2 DEF CollectorInit, Asking, TypeOK, Held, Waiting
<1> QED
  BY <1>3 DEF CollectorInit, CollectInv, JobsAreCounted, NodesAreBusy, JobsAsked, NodesAsked

LEMMA CollectInvHolds == Spec => []CollectInv
<1>1. Init => CollectInv
  BY CollectorStart DEF Init
<1>2. CollectInv /\ [Next]_<<program, gui, spans, experiment, collector>> => CollectInv'
  <2> SUFFICES ASSUME CollectInv, [Next]_<<program, gui, spans, experiment, collector>> PROVE CollectInv'
    OBVIOUS
  <2>1. [CollectorNext]_collector
    BY DEF Next
  <2> QED
    BY <2>1, CollectStep
<1> QED
  BY <1>1, <1>2, PTL DEF Spec

\* A pool under a job that did not move is counted as busy, through whichever way its
\* partition and its nodes were asked for (collector.py, get_busy_nodes).
THEOREM BusyPoolsAreSeen == Spec => []NoPoolLooksIdleUnderAJob
<1>1. CollectInv => NoPoolLooksIdleUnderAJob
  <2> SUFFICES ASSUME CollectInv, pc = "done", NEW j \in steady, st[j] \in Held, at[j] \notin doubted
               PROVE  busy[at[j]] # {}
    BY DEF NoPoolLooksIdleUnderAJob
  <2>1. j \in SlurmJobs /\ at[j] \in Pools \ doubted
    BY DEF CollectInv, Asking, TypeOK
  <2> QED
    BY <2>1 DEF CollectInv, NodesAreBusy, NodesAsked
<1> QED
  BY <1>1, CollectInvHolds, PTL

\* A job that did not move counts for one pool at most, however the collection asked and
\* whatever pools share its partition or its prefix: for one it asks for while it waits, and
\* where it runs, unless the name of its node misleads (collector.py, _classify_job).
THEOREM JobsGetOnePool == Spec => []SteadyJobsAreCounted
<1>1. CollectInv => SteadyJobsAreCounted
  <2> SUFFICES ASSUME CollectInv, pc = "done", NEW j \in steady
               PROVE  /\ \A k, l \in Counted(j) : k = l
                      /\ \A k \in Counted(j) :
                           /\ j \in found[k].pend <=> st[j] \in Waiting
                           /\ j \in found[k].need <=> st[j] = "starved" /\ Fits(j, k)
                      /\ Counted(j) \subseteq OfPart(j)
                      /\ st[j] \in Waiting =>
                           /\ Counted(j) \subseteq Wanted(j)
                           /\ Wanted(j) # {} /\ Wanted(j) \subseteq OfPart(j) => Counted(j) # {}
                      /\ st[j] \in Held /\ ~Mistaken(j) => Counted(j) = {at[j]} \cap OfPart(j)
    BY DEF SteadyJobsAreCounted
  <2>1. j \in SlurmJobs /\ TypeOK
    BY DEF CollectInv, Asking, TypeOK
  <2>2. \A k \in Pools \ doubted : CountedIn(j, k)
    BY DEF CollectInv, JobsAreCounted, JobsAsked
  <2>3. \A k \in Pools \ doubted : k \in Counted(j) <=> Served(j, k) /\ st[j] \in Held \cup Waiting
    BY <2>2 DEF CountedIn, Counted
  <2>4. /\ \A k \in Counted(j) : k \in Pools \ doubted /\ Served(j, k)
        /\ \A k \in OfPart(j) : k \in Pools \ doubted
    BY <2>3 DEF Counted, OfPart
  <2>5. \A k, l \in Counted(j) : k = l
    BY <2>4 DEF Served
  <2>6. Counted(j) \subseteq OfPart(j)
    BY <2>4 DEF Served, OfPart
  <2>7. \A k \in Counted(j) :
          /\ j \in found[k].pend <=> st[j] \in Waiting
          /\ j \in found[k].need <=> st[j] = "starved" /\ Fits(j, k)
    BY <2>2, <2>4 DEF CountedIn
  <2>8. Waiting \cap Held = {}
    BY DEF Waiting, Held
  <2>9. ASSUME st[j] \in Waiting
        PROVE  /\ Counted(j) \subseteq Wanted(j)
               /\ Wanted(j) # {} /\ Wanted(j) \subseteq OfPart(j) => Counted(j) # {}
    <3>1. Wanted(j) # {} => Route(j) \in Wanted(j)
      BY <2>1, <2>8, <2>9, RouteServes
    <3>2. Wanted(j) = {} => Route(j) \notin Pools
      BY <2>1, <2>8, <2>9, RouteServes
    <3>3. Counted(j) \subseteq Wanted(j)
      BY <2>4, <3>1, <3>2 DEF Served
    <3>4. ASSUME Wanted(j) # {} /\ Wanted(j) \subseteq OfPart(j) PROVE Route(j) \in Counted(j)
      <4>1. Wanted(j) # {} /\ Wanted(j) \subseteq OfPart(j)
        BY <3>4
      <4>2. Route(j) \in OfPart(j)
        BY <3>1, <4>1
      <4>3. Served(j, Route(j)) /\ Route(j) \in Pools \ doubted
        BY <4>2 DEF Served, OfPart
      <4> QED
        BY <2>3, <2>9, <4>3
    <3> QED
      BY <3>3, <3>4
  <2>10. ASSUME st[j] \in Held, ~Mistaken(j) PROVE Counted(j) = {at[j]} \cap OfPart(j)
    <3>1. Route(j) = at[j]
      BY <2>1, <2>10, RouteServes
    <3>2. \A k \in Counted(j) : k = at[j]
      BY <2>4, <3>1 DEF Served
    <3>3. at[j] \in OfPart(j) => at[j] \in Counted(j)
      BY <2>3, <2>10, <3>1 DEF OfPart, Served
    <3> QED
      BY <2>6, <3>2, <3>3
  <2> QED
    BY <2>5, <2>6, <2>7, <2>9, <2>10
<1> QED
  BY <1>1, CollectInvHolds, PTL

=============================================================================
