-------------------------- MODULE DecisionService --------------------------
(***************************************************************************)
(* services/rl_scheduler/serve.py: the served checkpoint, the last pushed  *)
(* snapshot, the shadow switch, and a /decide request that reads them one  *)
(* after the other while other requests replace them.                      *)
(*                                                                         *)
(* The features and the network are abstracted to what they may answer: a  *)
(* legal action or the no-op, above or below the two abstain thresholds.   *)
(* The observation and the actions of a checkpoint have the shape of a     *)
(* number of placements (nodes times GPUs per node).  A request the caller *)
(* gave up on has no further effect and is not followed to its end.        *)
(***************************************************************************)
EXTENDS Naturals, Sequences, FiniteSets, FiniteSetsExt, SequencesExt

CONSTANTS
  Jobs, Mps,      \* the jobs and their MPS requests
  TopK,           \* job slots of an observation
  TTL,            \* SNAPSHOT_TTL_S
  Ckpts, Shape,   \* checkpoint files, and the placements each was trained for
  FirstShadow     \* SHADOW_MODE of the deployment

VARIABLES
  holder,    \* _holder: the checkpoint that is served
  loading,   \* the checkpoint a /reload has loaded, "none" otherwise
  snapshot,  \* _snapshot, with the age of its ts
  shadow,    \* SHADOW_MODE
  req        \* the /decide request: where it is, and its local variables


NoSnapshot == [age |-> TTL + 1, pend |-> << >>, nodes |-> << >>, gpus |-> 1]
Idle == [pc |-> "idle", job |-> 0, snap |-> NoSnapshot, action |-> 0, weak |-> FALSE, boost |-> FALSE]
Older(s) == [s EXCEPT !.age = Min({s.age + 1, TTL + 1})]

\* ActRequest of a snapshot: its placements, the job slots with the submitting job
\* last, and the actions of the mask.
Placements(s) == Len(s.nodes) * s.gpus
Window(s, j) == LET fused == Append(s.pend, j) IN SubSeq(fused, 1, Min({TopK, Len(fused)}))
NoOp(s) == TopK * Placements(s)
JobOf(s, a)  == a \div Placements(s)
NodeOfMajor(s, a) == (a \div TopK) \div s.gpus     \* mutant: decodes a placement-major action
NodeOf(s, a) == (a % Placements(s)) \div s.gpus
Legal(s, j) ==
  { x[1] * Placements(s) + x[2] * s.gpus + x[3] :
      x \in { y \in (0 .. TopK - 1) \X (0 .. Len(s.nodes) - 1) \X (0 .. s.gpus - 1) :
               /\ y[1] < Len(Window(s, j)) /\ y[3] < s.nodes[y[2] + 1].gpus
               /\ s.nodes[y[2] + 1].free >= Mps[Window(s, j)[y[1] + 1]] } }

Abstains == [Idle EXCEPT !.pc = "abstained"]

-----------------------------------------------------------------------------
(* POST /decide *)

Kept == UNCHANGED <<holder, loading, snapshot, shadow>>

Ask(j) == req' = [Idle EXCEPT !.pc = "asked", !.job = j] /\ Kept

Fetch ==
  /\ req.pc = "asked"
  /\ req' = IF snapshot.age > TTL \/ snapshot.nodes = << >> THEN Abstains
            ELSE [req EXCEPT !.pc = "fetched", !.snap = [snapshot EXCEPT !.age = 0]]
  /\ Kept

Fits == Placements(req.snap) = Shape[holder]

CheckShape ==
  /\ req.pc = "fetched"
  /\ req' = IF Fits THEN [req EXCEPT !.pc = "checked"] ELSE Abstains
  /\ Kept

\* The network only evaluates an observation of its own shape; 500 otherwise.
Select ==
  /\ req.pc = "checked"
  /\ IF Placements(req.snap) # Shape[holder] THEN req' = [Idle EXCEPT !.pc = "refused"]
     ELSE \E a \in Legal(req.snap, req.job) \cup {NoOp(req.snap)}, w \in BOOLEAN :
            req' = [req EXCEPT !.pc = "chosen", !.action = a, !.weak = w]
  /\ Kept

Acts(r)   == r.action # NoOp(r.snap)
Picked(r) == IF Acts(r) THEN Window(r.snap, r.job)[JobOf(r.snap, r.action) + 1] ELSE 0

\* SHADOW_MODE is read when the action is known.
Boost ==
  /\ req.pc = "chosen"
  /\ req' = [req EXCEPT !.pc = "decided", !.boost = Acts(req) /\ ~shadow /\ ~req.weak /\ Picked(req) = req.job]
  /\ Kept

\* priority_boost, abstain, rl_selected and node_j (from 1, 0 for none) of the response
Answered == req.pc \in {"abstained", "decided"}
Answer ==
  [boost   |-> req.boost,
   abstain |-> req.pc = "abstained" \/ (Acts(req) /\ req.weak),
   picked  |-> req.pc = "decided" /\ Acts(req) /\ Picked(req) = req.job,
   node    |-> IF req.pc = "decided" /\ Acts(req) THEN NodeOf(req.snap, req.action) + 1 ELSE 0]

Handle == Fetch \/ CheckShape \/ Select \/ Boost

-----------------------------------------------------------------------------
(* POST /reload, /shadow and /snapshot *)

Load(c) ==
  /\ loading = "none" /\ loading' = c /\ UNCHANGED <<holder, snapshot, shadow, req>>

AcceptsAny(c) == TRUE                                 \* mutant: the dims are not compared
Accepts(c) == Shape[c] = Shape[holder]

Swap ==
  /\ loading # "none" /\ loading' = "none"
  /\ holder' = IF Accepts(loading) THEN loading ELSE holder
  /\ UNCHANGED <<snapshot, shadow, req>>

SetShadow(b) == shadow' = b /\ UNCHANGED <<holder, loading, snapshot, req>>

PushSnapshot(s) == snapshot' = s /\ UNCHANGED <<holder, loading, shadow, req>>

\* The pod starts again, with the checkpoint c and the switch of its deployment.
StartService(c) ==
  /\ holder = c /\ loading = "none" /\ snapshot = NoSnapshot /\ shadow = FirstShadow /\ req = Idle
RestartService(c) ==
  /\ holder' = c /\ loading' = "none" /\ snapshot' = NoSnapshot /\ shadow' = FirstShadow
  /\ req' = IF req.pc = "idle" THEN req ELSE [Idle EXCEPT !.pc = "failed"]
============================================================================
