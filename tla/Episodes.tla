------------------------------- MODULE Episodes -------------------------------
(* What one environment of a vector returns (src/sim/vec_env.py): it resets  *)
(* itself inside the step that ends its episode. An observation, with its    *)
(* mask, is named by its environment, episode and step in it.                *)
EXTENDS Integers, FiniteSets

CONSTANTS Envs,        \* 1 .. num_envs
          EpisodeCap   \* max_steps of an environment

ASSUME EpisodesAssumption ==
  IsFiniteSet(Envs) /\ Envs # {} /\ Envs = 1 .. Cardinality(Envs) /\ EpisodeCap \in Nat \ {0}

Obs(e, episode, k) == [env |-> e, episode |-> episode, step |-> k]

Later(o)       == Obs(o.env, o.episode, o.step + 1)
NextEpisode(o) == Obs(o.env, o.episode + 1, 0)

(* What a step returns of one environment: the next observation and, when    *)
(* the episode is over, the first one of the next episode.                   *)
Returned(o, done) == IF done THEN NextEpisode(o) ELSE Later(o)
MayEnd(o) == IF o.step + 1 >= EpisodeCap THEN {TRUE} ELSE BOOLEAN
=============================================================================
