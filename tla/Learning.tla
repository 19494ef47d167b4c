------------------------------- MODULE Learning -------------------------------
(***************************************************************************)
(* The learners of the placement policy: sim_train and the collection of   *)
(* rollouts, which step simulated environments (Trainer), and the way of   *)
(* live experience, from the daemon that watches Slurm (LiveDaemon)        *)
(* through its log into the online buffer of the fine-tuning, which        *)
(* demonstrations of a live trace fill up (rlpd_finetune.py); and the      *)
(* worker processes under a vector of environments (AsyncVectorEnv). The   *)
(* programs do not run together: Init picks one.                           *)
(***************************************************************************)
EXTENDS Trainer, LiveDaemon, AsyncVectorEnv

CONSTANT Programs   \* of "sim_train", "single", "rollouts", "vector" and "rlpd"

VARIABLES program,
          loaded     \* by the fine-tuning: "no", "log", or "all"

vars == <<program, loaded, trainer, slurm, daemon, vector>>

(* load_live_shadow_log: every line that parses becomes a transition. The    *)
(* mask of the next state is in the row, but is not taken over. The line     *)
(* that the daemon is just writing may be torn, and is skipped. Fine-tuning  *)
(* runs after the daemon has collected: here, when the jobs have gone and    *)
(* none is in flight.                                                        *)
FromRow(r) == Transition(r.obs, <<r.jct>>, r.next, FALSE, r.obs, NoMask)

Lines == {log, IF log = <<>> THEN log ELSE Front(log)}

Load ==
  /\ program = "rlpd" /\ loaded = "no"
  /\ \A j \in Jobs : state[j] = "gone" /\ j \notin DOMAIN inFlight
  /\ \E lines \in Lines : buf' = Filled(buf, [k \in 1 .. Len(lines) |-> FromRow(lines[k])])
  /\ loaded' = "log"
  /\ UNCHANGED <<program, step, staged, env, deque, tree, slurm, daemon, vector>>

(* load_live_trace_rollouts: an episode of n steps of a recorded trace under *)
(* the score policy, as far as the buffer has room.                          *)
Demonstration(n) ==
  Filled(EmptyRing, Fitting(EmptyRing, [k \in 1 .. n |-> Experience(Obs(1, 1, k - 1), k = n)]))

(* main: the demonstrations fill what room the online buffer has left.       *)
JoinDemos ==
  /\ loaded = "log"
  /\ \E n \in 1 .. EpisodeCap : LET demos == Demonstration(n) IN
       buf' = Filled(buf, Fitting(buf, [i \in 1 .. demos.size |-> demos.slot[i - 1]]))
  /\ loaded' = "all"
  /\ UNCHANGED <<program, step, staged, env, deque, tree, slurm, daemon, vector>>

Init ==
  /\ TrainerInit /\ DaemonInit /\ VectorInit
  /\ program \in Programs /\ loaded = "no"

Next ==
  \/ /\ \/ program = "sim_train" /\ Train
        \/ program = "single" /\ CollectSingle
        \/ program = "rollouts" /\ Rollout
     /\ UNCHANGED <<program, loaded, slurm, daemon, vector>>
  \/ program = "rlpd" /\ loaded = "no" /\ Observe /\ UNCHANGED <<program, loaded, trainer, vector>>
  \/ program = "vector" /\ VectorNext /\ UNCHANGED <<program, loaded, trainer, slurm, daemon>>
  \/ Load \/ JoinDemos

Spec == Init /\ [][Next]_vars

-----------------------------------------------------------------------------
(* The replay memory holds whole experience: of the trainer, stretches of    *)
(* one episode; of the fine-tuning, rows of the log with the mask that       *)
(* belongs to their observation, and demonstrations, also after the ring has *)
(* come round and a place is written again (add keeps the old mask of a      *)
(* place when a transition brings none). Demonstrations push out no row of   *)
(* the log that it has room for.                                             *)
Row1(i, k) == buf.slot[i].obs = log[k].obs /\ buf.slot[i].next = log[k].next
MemoryIsSound ==
  IF program # "rlpd" THEN StoredStretchesAreWhole
  ELSE /\ \A i \in 0 .. buf.size - 1 : LET x == buf.slot[i] IN
            /\ x.mask = x.obs
            /\ (\E k \in DOMAIN log : Row1(i, k)) \/ x.nextMask = x.next
       /\ loaded # "no" =>
            \A k \in DOMAIN log : k \in Len(log) - Capacity + 1 .. Len(log) - 1 =>
              \E i \in 0 .. buf.size - 1 : Row1(i, k)
=============================================================================
