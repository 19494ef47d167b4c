---------------------------- MODULE SyncVectorEnv ----------------------------
(* SyncVectorSchedEnv of src/sim/vec_env.py, the environments stepped one    *)
(* after the other in the process of the caller: a call takes every one of   *)
(* them one step further, or resets every one, and returns their             *)
(* observations in the order of the environments.                            *)
EXTENDS Episodes

VARIABLE held   \* what the last call returned

(* Init: after the first reset.                                              *)
Init  == held = [e \in Envs |-> Obs(e, 1, 0)]
Step  == held' \in {[e \in Envs |-> Returned(held[e], e \in over)] : over \in SUBSET Envs}
Reset == held' = [e \in Envs |-> NextEpisode(held[e])]

Spec == Init /\ [][Step \/ Reset]_held
=============================================================================
