---------------------------- MODULE AsyncVectorEnv ----------------------------
(***************************************************************************)
(* AsyncVectorSchedEnv of src/sim/vec_env.py: every environment lives in a *)
(* worker process behind a pipe. A call sends its command to the workers   *)
(* one by one and then receives their replies one by one, while the        *)
(* workers run at their own pace. close may find workers that are busy.    *)
(***************************************************************************)
EXTENDS Episodes, Sequences

CONSTANT MaxEpisodes   \* bound: the caller stops stepping there

ASSUME VectorAssumption == MaxEpisodes \in Nat

VARIABLES
  held,             \* what the last call returned
  call, place,      \* the call in progress, and the environment it is at
  results,          \* what it has received so far
  commands, replies,   \* the two directions of each pipe
  worker            \* state of each worker's environment, or <<>> when it has ended

vector == <<held, call, place, results, commands, replies, worker>>

LastEnv == Cardinality(Envs)
Calls   == {"reset", "step", "score_action", "close"}
NoCall  == [cmd |-> "step", stage |-> "none"]

-----------------------------------------------------------------------------
Begin(cmd) ==
  /\ call.stage = "none"
  /\ cmd \in {"reset", "step"} => \A e \in Envs : held[e].episode < MaxEpisodes
  /\ call' = [cmd |-> cmd, stage |-> "sending"] /\ place' = 1
  /\ UNCHANGED <<held, results, commands, replies, worker>>

Send ==
  /\ call.stage = "sending"
  /\ commands' = [commands EXCEPT ![place] = Append(@, call.cmd)]
  /\ IF place < LastEnv THEN place' = place + 1 /\ UNCHANGED call
     ELSE /\ place' = 1
          /\ call' = [call EXCEPT !.stage = IF call.cmd = "close" THEN "closed" ELSE "receiving"]
  /\ UNCHANGED <<held, results, replies, worker>>

(* recv of the pipe of the environment that is next.                         *)
\* mutant: the first reply that is there
FromAny(k) == {e \in Envs : replies[e] # <<>>}
From(k)    == {e \in Envs : e = k /\ replies[e] # <<>>}

Receive ==
  /\ call.stage = "receiving"
  /\ \E e \in From(place) :
       LET got == Append(results, Head(replies[e])) IN
       /\ replies' = [replies EXCEPT ![e] = Tail(@)]
       /\ IF place < LastEnv
          THEN place' = place + 1 /\ results' = got /\ UNCHANGED <<held, call>>
          ELSE /\ place' = 1 /\ results' = <<>> /\ call' = NoCall
               /\ held' = IF call.cmd = "score_action" THEN held ELSE got
  /\ UNCHANGED <<commands, worker>>

-----------------------------------------------------------------------------
(* _worker: one command, its reply.                                          *)
Outcomes(o, cmd) ==
  IF cmd = "reset" THEN {NextEpisode(o)}
  ELSE IF cmd = "step" THEN {Returned(o, done) : done \in MayEnd(o)} ELSE {o}

Work(e) ==
  /\ commands[e] # <<>> /\ worker[e] # <<>>
  /\ commands' = [commands EXCEPT ![e] = Tail(@)]
  /\ IF Head(commands[e]) = "close"
     THEN worker' = [worker EXCEPT ![e] = <<>>] /\ UNCHANGED replies
     ELSE \E o \in Outcomes(worker[e], Head(commands[e])) :
            /\ worker' = [worker EXCEPT ![e] = o]
            /\ replies' = [replies EXCEPT ![e] = Append(@, o)]
  /\ UNCHANGED <<held, call, place, results>>

(* close joins each worker, and terminates one that takes too long.          *)
Terminate(e) ==
  /\ call.stage = "closed" /\ worker[e] # <<>>
  /\ worker' = [worker EXCEPT ![e] = <<>>]
  /\ UNCHANGED <<held, call, place, results, commands, replies>>

-----------------------------------------------------------------------------
(* After the first reset.                                                    *)
VectorInit ==
  /\ held = [e \in Envs |-> Obs(e, 1, 0)] /\ worker = held
  /\ call = NoCall /\ place = 1 /\ results = <<>>
  /\ commands = [e \in Envs |-> <<>>] /\ replies = [e \in Envs |-> <<>>]

VectorNext ==
  \/ Send \/ Receive \/ \E cmd \in Calls : Begin(cmd)
  \/ \E e \in Envs : Work(e) \/ Terminate(e)

-----------------------------------------------------------------------------
VectorSpec == VectorInit /\ [][VectorNext]_vector

Sync == INSTANCE SyncVectorEnv

(* The worker processes are the environments of one process to their caller: *)
(* every call that returns took all of them one step further and returned    *)
(* each one's result at its own place (SyncVectorSchedEnv, "Deterministic    *)
(* correctness oracle").                                                     *)
ImplementsSync == Sync!Spec
=============================================================================
