------------------------------- MODULE Replay -------------------------------
(* Replay memory of the learners (src/services/rl_scheduler/                 *)
(* rlpd_finetune.py): the ring of transitions, the sum tree that prioritised *)
(* sampling walks down, and the n-step returns of sim_train.py. Pure         *)
(* operators over values; LiveDaemon and Trainer hold such values.           *)
EXTENDS Integers, Sequences, FiniteSets, SequencesExt

CONSTANTS Capacity,   \* of a buffer
          NSteps,     \* length of an n-step return
          Ones,       \* a mask that allows every action
          Power       \* a priority to the power alpha, on small numbers

Places == 0 .. Capacity - 1

ASSUME ReplayAssumption ==
  /\ Capacity \in Nat \ {0} /\ NSteps \in Nat \ {0}
  /\ 1 \in DOMAIN Power /\ DOMAIN Power \subseteq Nat \ {0}
  /\ \A p \in DOMAIN Power : Power[p] \in DOMAIN Power

-----------------------------------------------------------------------------
(* The ring. A transition is [obs, rew, next, done, mask, nextMask], its     *)
(* stored form has its discount exponent as gamma; rew lists the steps whose *)
(* rewards were added up.                                                    *)

NoMask == <<>>   \* of a transition that brings none

EmptyRing ==
  [slot |-> [i \in Places |-> [obs |-> NoMask, rew |-> <<>>, next |-> NoMask, done |-> FALSE,
                               mask |-> Ones, nextMask |-> Ones, gamma |-> 1]],
   size |-> 0, idx |-> 0]

Transition(obs, rew, next, done, mask, nextMask) ==
  [obs |-> obs, rew |-> rew, next |-> next, done |-> done, mask |-> mask, nextMask |-> nextMask]

Kept(new, old) == IF new = NoMask THEN old ELSE new

\* mutant: the mask of the place is only written the first time
StoreOnce(b, t, g) ==
  LET old == b.slot[b.idx] IN
  [slot |-> [b.slot EXCEPT ![b.idx] =
      [obs |-> t.obs, rew |-> t.rew, next |-> t.next, done |-> t.done, gamma |-> g,
       mask |-> IF b.size < Capacity THEN t.mask ELSE old.mask,
       nextMask |-> Kept(t.nextMask, old.nextMask)]],
   idx  |-> (b.idx + 1) % Capacity,
   size |-> IF b.size < Capacity THEN b.size + 1 ELSE Capacity]

Store(b, t, g) ==
  LET old == b.slot[b.idx] IN
  [slot |-> [b.slot EXCEPT ![b.idx] =
      [obs |-> t.obs, rew |-> t.rew, next |-> t.next, done |-> t.done, gamma |-> g,
       mask |-> Kept(t.mask, old.mask), nextMask |-> Kept(t.nextMask, old.nextMask)]],
   idx  |-> (b.idx + 1) % Capacity,
   size |-> IF b.size < Capacity THEN b.size + 1 ELSE Capacity]

(* Transitions of single steps stored one after the other, and those that    *)
(* still find a free place.                                                  *)
Filled(ring, ts) ==
  LET after[k \in 0 .. Len(ts)] == IF k = 0 THEN ring ELSE Store(after[k - 1], ts[k], 1)
  IN  after[Len(ts)]

\* mutant: the transitions are added as they are
FittingAll(b, ts) == ts
Fitting(b, ts) ==
  LET room == Capacity - b.size IN SubSeq(ts, 1, IF Len(ts) < room THEN Len(ts) ELSE room)

-----------------------------------------------------------------------------
(* The sum tree: node n has the children 2n and 2n + 1, leaf i is node       *)
(* Capacity + i.                                                             *)

TreeNodes == 1 .. 2 * Capacity - 1
EmptyTree == [n \in TreeNodes |-> 0]
Total(tree) == tree[1]
Leaf(tree, i) == tree[Capacity + i]

Above[n \in TreeNodes] == IF n = 1 THEN {} ELSE {n \div 2} \cup Above[n \div 2]

(* The leaf's new priority, added up anew on the way from it to the root.    *)
SetLeaf(tree, i, priority) ==
  LET t[n \in TreeNodes] ==
        IF n = Capacity + i THEN priority
        ELSE IF n \in Above[Capacity + i] THEN t[2 * n] + t[2 * n + 1] ELSE tree[n]
  IN  t

Descend(tree, val) ==
  LET down[n \in TreeNodes] ==
        [v \in 0 .. Total(tree) |->
           IF n >= Capacity THEN n - Capacity
           ELSE IF v <= tree[2 * n] THEN down[2 * n][v] ELSE down[2 * n + 1][v - tree[2 * n]]]
  IN  down[1][val]

MaxPriority(tree) ==
  LET top == CHOOSE p \in {Leaf(tree, i) : i \in Places} :
               \A i \in Places : p >= Leaf(tree, i)
  IN  IF top > 0 THEN top ELSE 1

(* A new transition's priority, and the places a sample may draw. *)
AddLeaf(tree, i) == SetLeaf(tree, i, Power[MaxPriority(tree)])
Drawn(b, tree) ==
  {LET i == Descend(tree, val) IN IF i < b.size THEN i ELSE b.size - 1 : val \in 1 .. Total(tree)}

-----------------------------------------------------------------------------
(* _flush_nstep: the oldest transition with the rewards up to the horizon,   *)
(* which an end of the episode cuts short; each brings the reward of its own *)
(* step. A deque(maxlen=n) drops its oldest element when a new one comes.    *)

Pushed(deque, t) ==
  IF Len(deque) < NSteps THEN Append(deque, t) ELSE Append(Tail(deque), t)

Horizon(deque) ==
  LET ends == {h \in DOMAIN deque : deque[h].done} IN
  IF ends = {} THEN Len(deque) ELSE CHOOSE h \in ends : \A k \in ends : h <= k

Folded(deque) ==
  LET last == deque[Horizon(deque)] IN
  Transition(deque[1].obs, [h \in 1 .. Horizon(deque) |-> Head(deque[h].rew)],
             last.next, last.done, deque[1].mask, last.nextMask)
=============================================================================
