------------------------------- MODULE Trainer -------------------------------
(* The training loops over one or several environments (src/services/        *)
(* rl_scheduler/sim_train.py): every environment is stepped once, its        *)
(* transition goes through the environment's n-step deque into the shared    *)
(* replay buffer, and after the warm-up priorities of sampled places change. *)
(* A call of the vector of environments is one step here: AsyncVectorEnv     *)
(* shows that its worker processes behave so.                                *)
EXTENDS Replay, Episodes

CONSTANTS Warmup, UpdateEvery, TotalSteps,
          Stage        \* the step at which the curriculum changes its stage

ASSUME TrainerAssumption ==
  /\ UpdateEvery \in Nat \ {0} /\ {Warmup, TotalSteps, Stage} \subseteq Nat

VARIABLES step,      \* environment steps so far
          staged,    \* the curriculum's second stage has begun
          env,       \* the observation (and mask) the loop holds of each environment
          deque,     \* nstep_bufs
          buf, tree  \* the prioritised replay buffer

trainer == <<step, staged, env, deque, buf, tree>>

\* mutant: the observation after the automatic reset counts as the next one
SuccessorReset(o, done) == Returned(o, done)

Successor(o, done) == IF done THEN Later(o) ELSE Returned(o, done)

Experience(o, done) ==
  Transition(o, <<o>>, Successor(o, done), done, o, Successor(o, done))

(* One environment's transition: kept in its deque, flushed when the deque   *)
(* is full or the episode over; the end of an episode empties it.            *)
Feed(m, e, done) ==
  LET d == Pushed(m.deque[e], Experience(env[e], done))
      full == Len(d) = NSteps \/ done
  IN  [buf   |-> IF full THEN Store(m.buf, Folded(d), Horizon(d)) ELSE m.buf,
       tree  |-> IF full THEN AddLeaf(m.tree, m.buf.idx) ELSE m.tree,
       deque |-> [m.deque EXCEPT ![e] = IF done THEN <<>> ELSE d]]

(* agent.update and update_priorities: a sampled place gets a new priority. *)
Updated(learns, b, t) ==
  IF b.size >= Warmup /\ learns
  THEN {SetLeaf(t, i, Power[p]) : i \in Drawn(b, t), p \in DOMAIN Power}
  ELSE {t}

(* The first n environments, one after the other; those in over end an       *)
(* episode.                                                                  *)
Fed(n, over) ==
  LET m[e \in 0 .. n] == IF e = 0 THEN [buf |-> buf, tree |-> tree, deque |-> deque]
                         ELSE Feed(m[e - 1], e, e \in over)
  IN  m[n]

Round(n, learns) ==
  /\ step < TotalSteps
  /\ step' = step + n
  /\ \E over \in SUBSET (1 .. n) :
       /\ \A e \in 1 .. n : env[e].step + 1 >= EpisodeCap => e \in over
       /\ env' = [e \in Envs |-> IF e <= n THEN Returned(env[e], e \in over) ELSE env[e]]
       /\ LET m == Fed(n, over) IN
            /\ buf' = m.buf /\ deque' = m.deque
            /\ tree' \in Updated(learns, m.buf, m.tree)
  /\ UNCHANGED staged

NumEnvs == Cardinality(Envs)
Collect ==
  /\ Stage <= step => staged
  /\ Round(NumEnvs, (step' \div NumEnvs) % UpdateEvery = 0)

(* A new stage builds new environments and empties the deques. *)
NextStage ==
  /\ step < TotalSteps /\ Stage <= step /\ ~staged
  /\ staged' = TRUE
  /\ env' = [e \in Envs |-> NextEpisode(env[e])]
  /\ deque' = [e \in Envs |-> <<>>]
  /\ UNCHANGED <<step, buf, tree>>

(* The loop over a single environment counts its updates from step 0, and a  *)
(* new stage only shows when the environment is reset the next time.         *)
CollectSingle == Round(1, step % UpdateEvery = 0)

(* collect_sim_rollouts, load_live_trace_rollouts: single steps of a masked  *)
(* random or the score policy, without n-step returns, until the buffer is   *)
(* full.                                                                     *)
Rollout ==
  \E done \in BOOLEAN :
    /\ buf.size < Capacity /\ (env[1].step + 1 >= EpisodeCap => done)
    /\ buf' = Store(buf, Experience(env[1], done), 1)
    /\ env' = [env EXCEPT ![1] = Returned(@, done)]
    /\ UNCHANGED <<step, staged, deque, tree>>

TrainerInit ==
  /\ step = 0 /\ staged = FALSE
  /\ env = [e \in Envs |-> Obs(e, 1, 0)]
  /\ deque = [e \in Envs |-> <<>>]
  /\ buf = EmptyRing /\ tree = EmptyTree

Train == Collect \/ NextStage

-----------------------------------------------------------------------------
(* What is stored is one stretch of one episode: the mask is the mask of the *)
(* observation, the rewards are those of the steps from it to the next one,  *)
(* and the discount counts them (_collect_and_train_vec, _flush_nstep; the   *)
(* field comments of Transition and ReplayBuffer).                           *)
StoredStretchesAreWhole ==
  \A i \in 0 .. buf.size - 1 : LET x == buf.slot[i] IN
    /\ x.mask = x.obs /\ x.nextMask = x.next
    /\ x.rew = [h \in 1 .. x.gamma |-> [x.obs EXCEPT !.step = @ + h - 1]]
    /\ x.next = [x.obs EXCEPT !.step = @ + x.gamma]

(* The tree adds up, and whatever value is drawn leads to a place that holds *)
(* a transition of positive priority (SumTree, PrioritizedReplayBuffer).     *)
SamplesAreStored ==
  /\ \A n \in 1 .. Capacity - 1 : tree[n] = tree[2 * n] + tree[2 * n + 1]
  /\ \A val \in 1 .. Total(tree) : LET i == Descend(tree, val) IN
       i < buf.size /\ Leaf(tree, i) > 0
=============================================================================
