--------------------------------- MODULE Gui ---------------------------------
(***************************************************************************)
(* The dashboard: the threads of its server (src/gui/server.py), which     *)
(* watch the queue, wake the event streams of the clients and collect the  *)
(* answer of a poll from several sources one after the other, and the page *)
(* (src/gui/app.js), which polls on events, on its timer and on request.   *)
(* One page is modelled: the requests of several share nothing but the     *)
(* broker's version.                                                       *)
(***************************************************************************)
EXTENDS Integers, Sequences, FiniteSets, SequencesExt

CONSTANTS NJobs,
          NOld,           \* how many of these are in the queue when the server starts
          HistoryLimit,   \* of _parse_sacct_history
          MaxUnusual      \* bound: failed calls and connections, refreshes, changes of the
                          \* API base and jobs that pass out of the day, together

Jobs == 1 .. NJobs

ASSUME GuiAssumption ==
  {NJobs, HistoryLimit} \subseteq Nat \ {0} /\ {NOld, MaxUnusual} \subseteq Nat

VARIABLES
  jobState, ended,    \* Slurm: the state of each job, and the jobs in the order they ended
  recorded, aged,     \* sacct: how many of these have a terminal row, and how many ended more
                      \* than a day ago
  unusual,
  previous, current,  \* locals of the watcher
  looked,             \* it has a signature to compare
  announced,          \* history: the queue at the last publish, or at the first look
  version,            \* of the broker
  sse,                \* handler of the page's event stream
  inbox,              \* events that the browser has not dispatched yet, by id
  inFlight, pollPending, timer, loaded,   \* monitor of the page
  request,            \* the poll in flight, as the server's collect has it
  shown,              \* the version that the rendered answer is as of
  asked, failed       \* history: id of the last event, and whether the last poll failed

gui == <<jobState, ended, recorded, aged, unusual, previous, current, looked, announced, version, sse,
         inbox, inFlight, pollPending, timer, loaded, request, shown, asked, failed>>
slurmQ  == <<jobState, ended, recorded, aged>>
watcher == <<previous, current, looked, announced, version>>
stream  == <<sse, inbox>>
page    == <<inFlight, pollPending, timer, loaded, request, shown, asked, failed>>

None == <<>>
Active == {j \in Jobs : jobState[j] = "active"}

Unusual    == unusual < MaxUnusual /\ unusual' = unusual + 1
Breaks(ok) == IF ok THEN UNCHANGED unusual ELSE Unusual

-----------------------------------------------------------------------------
(* Slurm. Ids are given in order. A job that ends is gone from squeue; its   *)
(* terminal row is written to the accounting on its own time, in the order   *)
(* of the ends, and passes out of sacct's day after one. A row that is there *)
(* while the job still completes is left out, as squeue lists the job then,  *)
(* and so are the other columns of the signature and states of a job.        *)

Submit(j) ==
  /\ jobState[j] = "new" /\ \A i \in 1 .. j - 1 : jobState[i] # "new"
  /\ jobState' = [jobState EXCEPT ![j] = "active"]
  /\ UNCHANGED <<ended, recorded, aged, unusual, watcher, stream, page>>

End(j) ==
  /\ jobState[j] = "active" /\ jobState' = [jobState EXCEPT ![j] = "ended"]
  /\ ended' = Append(ended, j)
  /\ UNCHANGED <<recorded, aged, unusual, watcher, stream, page>>

Record ==
  /\ recorded < Len(ended) /\ recorded' = recorded + 1
  /\ UNCHANGED <<jobState, ended, aged, unusual, watcher, stream, page>>

Age ==
  /\ aged < recorded /\ Unusual /\ aged' = aged + 1
  /\ UNCHANGED <<jobState, ended, recorded, watcher, stream, page>>

QueueChanges == Record \/ Age \/ \E j \in Jobs : Submit(j) \/ End(j)

-----------------------------------------------------------------------------
(* QueueWatcher.run, and EventBroker.publish.                                *)

Signature == Active

LookedAt(ok) == IF ok THEN <<Signature>> ELSE previous

Look(ok) ==
  /\ ~looked /\ Breaks(ok)
  /\ current' = LookedAt(ok) /\ looked' = TRUE
  /\ UNCHANGED <<slurmQ, previous, announced, version, stream, page>>

Compare ==
  LET changed == previous # None /\ current # previous IN
  /\ looked
  /\ version' = IF changed THEN version + 1 ELSE version
  /\ announced' = IF changed \/ (announced = None /\ version = 0) THEN current ELSE announced
  /\ previous' = current /\ current' = None /\ looked' = FALSE
  /\ UNCHANGED <<slurmQ, unusual, stream, page>>

-----------------------------------------------------------------------------
(* The handler of /api/events: connected, waiting on the broker, writing.    *)

NoStream == [phase |-> "closed", after |-> 0, id |-> 0]

Connect ==
  /\ sse.phase = "closed" /\ sse' = [NoStream EXCEPT !.phase = "connected"]
  /\ UNCHANGED <<slurmQ, unusual, watcher, inbox, page>>

ReadVersion ==
  /\ sse.phase = "connected" /\ sse' = [NoStream EXCEPT !.phase = "waiting", !.after = version]
  /\ UNCHANGED <<slurmQ, unusual, watcher, inbox, page>>

(* wait returns on a newer version, or after its timeout.                    *)
Wake ==
  /\ sse.phase = "waiting" /\ sse' = [sse EXCEPT !.phase = "writing", !.id = version]
  /\ UNCHANGED <<slurmQ, unusual, watcher, inbox, page>>

Write(ok) ==
  /\ sse.phase = "writing" /\ Breaks(ok)
  /\ sse' = IF ok THEN [sse EXCEPT !.phase = "waiting", !.after = sse.id] ELSE NoStream
  /\ inbox' = IF ok /\ sse.id > sse.after THEN Append(inbox, sse.id) ELSE inbox
  /\ UNCHANGED <<slurmQ, watcher, page>>

-----------------------------------------------------------------------------
(* collect: squeue, then sacct; the nodes that are read between them and the *)
(* telemetry that follows do not matter here. asOf, submitted and outside    *)
(* are history: the version when the queue was read, the jobs that were      *)
(* submitted by then, and those that had ended when the history was read but *)
(* were not in the day that sacct is asked for.                              *)

\* mutant: the history is read before the queue
ReadsHistoryFirst == <<"history", "queue">>
Reads             == <<"queue", "history">>

NoRequest == [step |-> 1, jobs |-> {}, history |-> {}, outside |-> {}, submitted |-> {}, asOf |-> 0]

Rows      == SubSeq(ended, aged + 1, recorded)   \* sacct -S now-1day, terminal states
Newest(s) == Range(SubSeq(s, IF Len(s) > HistoryLimit THEN Len(s) - HistoryLimit + 1 ELSE 1, Len(s)))

Read(r) ==
  LET source == Reads[r.step] IN
  [step      |-> r.step + 1,
   jobs      |-> IF source = "queue" THEN Active ELSE r.jobs,
   history   |-> IF source = "history" THEN Newest(Rows) ELSE r.history,
   outside   |-> IF source = "history" THEN Range(ended) \ Range(Rows) ELSE r.outside,
   submitted |-> IF r.step = 1 THEN {j \in Jobs : jobState[j] # "new"} ELSE r.submitted,
   asOf      |-> IF source = "queue" THEN version ELSE r.asOf]

CollectNext ==
  /\ inFlight /\ request.step \in DOMAIN Reads
  /\ request' = Read(request)
  /\ UNCHANGED <<slurmQ, unusual, watcher, stream,
                 inFlight, pollPending, timer, loaded, shown, asked, failed>>

-----------------------------------------------------------------------------
(* The page. poll() while one is in flight only remembers that it was asked. *)

\* mutant: a poll that is asked for while one is in flight is dropped
PollDropped(was) == [pending |-> FALSE, request |-> IF was THEN request ELSE NoRequest]
Poll(was)        == [pending |-> was, request |-> IF was THEN request ELSE NoRequest]

CallPoll ==
  /\ timer' = FALSE /\ inFlight' = TRUE
  /\ pollPending' = (pollPending \/ Poll(inFlight).pending)
  /\ request' = Poll(inFlight).request

DispatchEvent ==
  /\ inbox # <<>> /\ inbox' = Tail(inbox) /\ asked' = Head(inbox)
  /\ CallPoll
  /\ UNCHANGED <<slurmQ, unusual, watcher, sse, loaded, shown, failed>>

TimerFires ==
  /\ timer /\ CallPoll
  /\ UNCHANGED <<slurmQ, unusual, watcher, stream, loaded, shown, asked, failed>>

(* The button is disabled until the first answer or error.                   *)
Refresh ==
  /\ (loaded \/ failed) /\ Unusual /\ CallPoll
  /\ UNCHANGED <<slurmQ, watcher, stream, loaded, shown, asked, failed>>

(* The form: another API base, a new event stream and a poll. A poll in      *)
(* flight goes on and is rendered when it answers.                           *)
ChangeApiBase ==
  /\ Unusual /\ CallPoll
  /\ loaded' = FALSE /\ shown' = 0 /\ asked' = 0
  /\ sse' = NoStream /\ inbox' = <<>>
  /\ UNCHANGED <<slurmQ, watcher, failed>>

(* The end of a poll: the answer is rendered, or its error; then the poll    *)
(* that was asked for meanwhile, or the timer.                               *)
Answer(ok) ==
  /\ inFlight /\ Breaks(ok) /\ (ok => request.step \notin DOMAIN Reads)
  /\ shown' = IF ok THEN request.asOf ELSE shown
  /\ loaded' = (loaded \/ ok) /\ failed' = ~ok
  /\ inFlight' = pollPending /\ pollPending' = FALSE /\ timer' = ~pollPending
  /\ request' = NoRequest
  /\ UNCHANGED <<slurmQ, watcher, stream, asked>>

-----------------------------------------------------------------------------
GuiInit ==
  /\ jobState = [j \in Jobs |-> IF j <= NOld THEN "active" ELSE "new"]
  /\ ended = <<>> /\ recorded = 0 /\ aged = 0 /\ unusual = 0
  /\ previous = None /\ current = None /\ looked = FALSE /\ announced = None /\ version = 0
  /\ sse = NoStream /\ inbox = <<>>
  /\ inFlight = TRUE /\ pollPending = FALSE /\ timer = FALSE /\ loaded = FALSE
  /\ request = NoRequest /\ shown = 0 /\ asked = 0 /\ failed = FALSE

Serve   == Compare \/ Connect \/ ReadVersion \/ Wake \/ CollectNext
             \/ \E ok \in BOOLEAN : Look(ok) \/ Write(ok)
Browse  == DispatchEvent \/ TimerFires \/ Refresh \/ ChangeApiBase
             \/ \E ok \in BOOLEAN : Answer(ok)
GuiNext == QueueChanges \/ Serve \/ Browse

-----------------------------------------------------------------------------
(* A job that was submitted before a poll is in its answer, waiting, running *)
(* or in the history, whatever it does while the sources are read. It may    *)
(* only drop out of a history that is full, or have ended when that was read *)
(* without a row in the day that sacct lists: not recorded yet, or ended     *)
(* more than a day ago (LiveCollector.collect).                              *)
NothingVanishes ==
  request.step \notin DOMAIN Reads =>
    \/ request.submitted \subseteq request.jobs \cup request.history \cup request.outside
    \/ Cardinality(request.history) = HistoryLimit

(* Between two looks the watcher remembers the queue that it announced last, *)
(* so that no change is swallowed by a look that failed (QueueWatcher.run:   *)
(* "Wake connected SSE clients when the Slurm queue signature changes").     *)
ChangesAreAnnounced == ~looked => previous = announced

(* An event is never lost on the page: what it shows is at least as new as   *)
(* the last event, or a poll that will read the queue is under way or asked  *)
(* for, or the last poll failed; and the page never stops polling (poll,     *)
(* pollPending).                                                             *)
EventsBringAPoll ==
  /\ inFlight \/ timer
  /\ \/ asked <= shown \/ pollPending \/ failed
     \/ inFlight /\ (request.step = 1 \/ asked <= request.asOf)
=============================================================================
