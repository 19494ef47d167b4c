--------------------------- MODULE SubmitPathProofs ---------------------------
(***************************************************************************)
(* Proofs about the way of a submitted job, for every number of jobs,      *)
(* nodes, checkpoints, models and faults: what a decision and a prediction *)
(* are made with fits together, whatever is replaced meanwhile, a pin is   *)
(* the node that had room in the snapshot, and a submission waits for one  *)
(* call at a time.                                                         *)
(***************************************************************************)
EXTENDS SubmitPath, FiniteSetTheorems, NaturalsInduction, WellFoundedInduction, TLAPS

-----------------------------------------------------------------------------
(* The served checkpoint *)

IsRequest(r) ==
  r = [pc |-> r.pc, job |-> r.job, snap |-> r.snap, action |-> r.action, weak |-> r.weak, boost |-> r.boost]

\* A request whose snapshot passed the check has the shape of the checkpoint that is
\* served now, not only of the one that was served when it was checked.
ShapeInv ==
  /\ IsRequest(req)
  /\ req.pc = "checked" => D!Placements(req.snap) = Shape[holder]
  /\ req.pc # "refused"

\* A request that starts over, or is answered without a decision, is at no later step.
LEMMA FreshRequest ==
  ASSUME NEW s \in {"asked", "abstained", "refused", "failed"}, NEW j
  PROVE  /\ IsRequest([D!Idle EXCEPT !.pc = s]) /\ [D!Idle EXCEPT !.pc = s].pc = s
         /\ IsRequest([D!Idle EXCEPT !.pc = s, !.job = j]) /\ [D!Idle EXCEPT !.pc = s, !.job = j].pc = s
         /\ IsRequest(D!Idle) /\ D!Idle.pc = "idle"
<1>1. IsRequest(D!Idle) /\ D!Idle.pc = "idle"
  BY DEF D!Idle, IsRequest
<1>2. ASSUME NEW r, IsRequest(r)
      PROVE  /\ IsRequest([r EXCEPT !.pc = s]) /\ [r EXCEPT !.pc = s].pc = s
             /\ IsRequest([r EXCEPT !.pc = s, !.job = j]) /\ [r EXCEPT !.pc = s, !.job = j].pc = s
  <2>1. IsRequest([r EXCEPT !.pc = s]) /\ [r EXCEPT !.pc = s].pc = s
    BY <1>2 DEF IsRequest
  <2>2. ASSUME NEW q, q = [r EXCEPT !.pc = s, !.job = j]
        PROVE  IsRequest(q) /\ q.pc = s
    BY <1>2, <2>2 DEF IsRequest
  <2> QED
    BY <2>1, <2>2
<1> QED
  BY <1>1, <1>2

\* What /decide does to a request.
LEMMA HandleKeepsShape == ShapeInv /\ D!Handle => ShapeInv'
<1> SUFFICES ASSUME ShapeInv, D!Handle PROVE ShapeInv'
  OBVIOUS
<1>0. holder' = holder
  BY DEF D!Handle, D!Fetch, D!CheckShape, D!Select, D!Boost, D!Kept
<1>1. IsRequest(D!Abstains) /\ D!Abstains.pc = "abstained"
  BY FreshRequest DEF D!Abstains
<1>2. CASE D!Fetch
  <2>1. CASE req' = D!Abstains
    BY <1>1, <2>1 DEF ShapeInv
  <2>2. CASE req' = [req EXCEPT !.pc = "fetched", !.snap = [snapshot EXCEPT !.age = 0]]
    <3>1. IsRequest(req') /\ req'.pc = "fetched"
      BY <2>2 DEF ShapeInv, IsRequest
    <3> QED
      BY <3>1 DEF ShapeInv
  <2> QED
    BY <1>2, <2>1, <2>2 DEF D!Fetch
<1>3. CASE D!CheckShape
  <2>1. CASE req' = D!Abstains
    BY <1>1, <2>1 DEF ShapeInv
  <2>2. ASSUME D!Fits, req' = [req EXCEPT !.pc = "checked"]
        PROVE  ShapeInv'
    <3>1. IsRequest(req') /\ req'.pc = "checked" /\ req'.snap = req.snap
      BY <2>2 DEF ShapeInv, IsRequest
    <3> QED
      BY <1>0, <2>2, <3>1 DEF ShapeInv, D!Fits
  <2> QED
    BY <1>3, <2>1, <2>2 DEF D!CheckShape
<1>4. CASE D!Select
  <2>1. D!Placements(req.snap) = Shape[holder]
    BY <1>4 DEF D!Select, ShapeInv
  <2>2. PICK a, w : req' = [req EXCEPT !.pc = "chosen", !.action = a, !.weak = w]
    BY <1>4, <2>1 DEF D!Select
  <2>3. IsRequest(req') /\ req'.pc = "chosen"
    BY <2>2 DEF ShapeInv, IsRequest
  <2> QED
    BY <2>3 DEF ShapeInv
<1>5. CASE D!Boost
  <2>1. PICK b : req' = [req EXCEPT !.pc = "decided", !.boost = b]
    BY <1>5 DEF D!Boost
  <2>2. IsRequest(req') /\ req'.pc = "decided"
    BY <2>1 DEF ShapeInv, IsRequest
  <2> QED
    BY <2>2 DEF ShapeInv
<1> QED
  BY <1>2, <1>3, <1>4, <1>5 DEF D!Handle

\* A reload that is accepted keeps the shape; a restart ends the request.
LEMMA ControlKeepsShape == ShapeInv /\ Control => ShapeInv'
<1> SUFFICES ASSUME ShapeInv, Control PROVE ShapeInv'
  OBVIOUS
<1>1. CASE req' = req /\ holder' = holder
  BY <1>1 DEF ShapeInv
<1>2. CASE D!Swap
  <2>1. req' = req /\ Shape[holder'] = Shape[holder]
    BY <1>2 DEF D!Swap, D!Accepts
  <2> QED
    BY <2>1 DEF ShapeInv
<1>3. CASE D!RestartService(deployed.policyDir)
  <2>1. (req' = req /\ req.pc = "idle") \/ req' = [D!Idle EXCEPT !.pc = "failed"]
    BY <1>3 DEF D!RestartService
  <2> QED
    BY <2>1, FreshRequest DEF ShapeInv
<1> QED
  BY <1>1, <1>2, <1>3 DEF Control, D!Load, D!SetShadow

LEMMA ShapeStep == ShapeInv /\ [Next]_vars => ShapeInv'
<1> SUFFICES ASSUME ShapeInv, [Next]_vars PROVE ShapeInv'
  OBVIOUS
<1>1. CASE req' = req /\ holder' = holder
  BY <1>1 DEF ShapeInv
<1>2. ASSUME NEW j, D!Ask(j)
      PROVE  ShapeInv'
  <2>1. req' = [D!Idle EXCEPT !.pc = "asked", !.job = j]
    BY <1>2 DEF D!Ask
  <2> QED
    BY <2>1, FreshRequest DEF ShapeInv
<1>3. CASE Dropped
  BY <1>3, FreshRequest DEF Dropped, ShapeInv
<1>4. CASE Plugin \/ GiveUp
  BY <1>1, <1>2, <1>3, <1>4 DEF Plugin, GiveUp, Submit, GetPrediction, NoPrediction, NextCall, ApplyAnswer,
     NoAnswer, service
<1>5. CASE Decide
  BY <1>5, HandleKeepsShape DEF Decide
<1>6. CASE Control
  BY <1>6, ControlKeepsShape
<1>7. CASE Cluster \/ Tick \/ Agent \/ Miss \/ PredictRuntime \/ Train \/ UNCHANGED vars
  BY <1>1, <1>7 DEF Cluster, Tick, Agent, ReadJobs, ReadNodes, Push, D!PushSnapshot, Miss, PredictRuntime,
     Train, service, vars
<1> QED
  BY <1>4, <1>5, <1>6, <1>7 DEF Next

\* However checkpoints are reloaded while it is under way, a decision is never evaluated
\* by a network of another shape (_decide_from_snapshot and reload of serve.py).
THEOREM DecisionsFitTheModel == Spec => []SelectFitsModel
<1>1. Init => ShapeInv
  BY FreshRequest DEF Init, D!StartService, ShapeInv
<1>2. ShapeInv => SelectFitsModel
  BY DEF ShapeInv, SelectFitsModel
<1> QED
  BY <1>1, <1>2, ShapeStep, PTL DEF Spec

-----------------------------------------------------------------------------
(* The runtime model *)

\* While nobody holds the lock, the holder has one model; a load that is half done holds it.
ModelInv ==
  /\ lock = "free" => model.booster = model.cols
  /\ trainer \in {"read", "half"} => lock = "load"
  /\ ask.pc = "predicted" => ask.booster = ask.cols

LEMMA CopyIsWhole == \A f : P!Copy(f).booster = P!Copy(f).cols
BY DEF P!Copy

LEMMA FreshAsk ==
  /\ P!NoAsk.pc = "idle"
  /\ [P!NoAsk EXCEPT !.pc = "asked"].pc = "asked" /\ [P!NoAsk EXCEPT !.pc = "failed"].pc = "failed"
BY DEF P!NoAsk

LEMMA PredictorKeepsModel == ModelInv /\ (P!Train \/ P!Replace \/ P!RestartPredictor \/ P!Predicts) => ModelInv'
<1> SUFFICES ASSUME ModelInv, P!Train \/ P!Replace \/ P!RestartPredictor \/ P!Predicts PROVE ModelInv'
  OBVIOUS
<1>1. CASE P!Train \/ P!Rotate \/ P!OpenFile \/ P!Dump
  BY <1>1 DEF P!Train, P!Rotate, P!OpenFile, P!Dump, P!Step, ModelInv
<1>2. CASE P!TakeLock
  BY <1>2 DEF P!TakeLock, P!Step, ModelInv
<1>3. CASE P!SetBooster
  BY <1>3 DEF P!SetBooster, P!Step, ModelInv
<1>4. CASE P!SetRest
  BY <1>4, CopyIsWhole DEF P!SetRest, P!Step, ModelInv
<1>5. CASE P!RestartPredictor
  <2>1. ask'.pc \in {"idle", "failed"} \/ ask' = ask
    BY <1>5, FreshAsk DEF P!RestartPredictor
  <2>2. model'.booster = model'.cols /\ trainer' \in {"down", "idle"}
    BY <1>5, CopyIsWhole DEF P!RestartPredictor
  <2> QED
    BY <2>1, <2>2 DEF ModelInv
<1>6. CASE P!CheckReady
  <2>1. ask'.pc # "predicted" /\ UNCHANGED <<model, lock, trainer>>
    BY <1>6 DEF P!CheckReady
  <2> QED
    BY <2>1 DEF ModelInv
<1>7. CASE P!Predict
  BY <1>7 DEF P!Predict, P!MayPredict, ModelInv
<1> QED
  BY <1>1, <1>2, <1>3, <1>4, <1>5, <1>6, <1>7 DEF P!Replace, P!Predicts

LEMMA ModelStep == ModelInv /\ [Next]_vars => ModelInv'
<1> SUFFICES ASSUME ModelInv, [Next]_vars PROVE ModelInv'
  OBVIOUS
<1>1. ASSUME UNCHANGED <<model, lock, trainer>>, ask' = ask \/ ask'.pc \in {"idle", "asked"}
      PROVE  ModelInv'
  BY <1>1 DEF ModelInv
<1>2. CASE Plugin \/ GiveUp
  <2>1. UNCHANGED <<model, lock, trainer>>
    BY <1>2 DEF Plugin, GiveUp, Submit, GetPrediction, NoPrediction, NextCall, Closed, ApplyAnswer, NoAnswer,
       P!AskRuntime, predictor
  <2>2. ask' \in {ask, P!NoAsk, [P!NoAsk EXCEPT !.pc = "asked"]}
    BY <1>2 DEF Plugin, GiveUp, Submit, GetPrediction, NoPrediction, NextCall, Closed, ApplyAnswer, NoAnswer,
       P!AskRuntime, predictor
  <2> QED
    BY <1>1, <2>1, <2>2, FreshAsk
<1>3. CASE PredictRuntime \/ Train
  BY <1>3, PredictorKeepsModel DEF PredictRuntime, Train
<1>4. CASE Cluster \/ Tick \/ Agent \/ Miss \/ Decide \/ Control \/ UNCHANGED vars
  BY <1>1, <1>4 DEF Cluster, Tick, Agent, ReadJobs, ReadNodes, Push, Miss, Decide, Control, predictor, vars
<1> QED
  BY <1>2, <1>3, <1>4 DEF Next

\* However retrainings and restarts interleave with it, a prediction is made by a booster
\* and the columns it was trained with (ModelHolder of services/runtime_predictor/app.py).
THEOREM PredictionsFitTheModel == Spec => []OneModelPredicts
<1>1. Init => ModelInv
  BY CopyIsWhole, FreshAsk DEF Init, P!StartPredictor, ModelInv
<1>2. ModelInv => OneModelPredicts
  BY DEF ModelInv, OneModelPredicts
<1> QED
  BY <1>1, <1>2, ModelStep, PTL DEF Spec

-----------------------------------------------------------------------------
(* The calls of a submission *)

IsAsk(a) == a = [pc |-> a.pc, stats |-> a.stats, booster |-> a.booster, cols |-> a.cols]

Undecided == {"asked", "fetched", "checked", "chosen", "decided"}
CallInv ==
  /\ deployed \in Deployments /\ DOMAIN st = Jobs /\ DOMAIN pin = Jobs
  /\ IsRequest(req) /\ IsAsk(ask)
  /\ req.job \in Jobs \/ req.pc \notin Undecided
  /\ OneCallInFlight

\* The services move a call on but never open or close one, nor turn it to another job.
LEMMA ServicesKeepCalls ==
  ASSUME CallInv, Decide \/ PredictRuntime \/ Control \/ Train
  PROVE  CallInv'
<1> USE DEF CallInv
<1>0. UNCHANGED <<deployed, call, st, pin>>
  BY DEF Decide, PredictRuntime, Control, Train, cluster, plugin
<1>1. ASSUME IsRequest(req'), IsAsk(ask'), (req'.pc = "idle") <=> (req.pc = "idle"),
             (ask'.pc = "idle") <=> (ask.pc = "idle"),
             req'.pc \in Undecided => req.pc \in Undecided /\ req'.job = req.job
      PROVE  CallInv'
  BY <1>0, <1>1 DEF OneCallInFlight, Submitting, Undecided, calls
<1>2. CASE Decide
  <2>1. ask' = ask
    BY <1>2 DEF Decide, predictor
  <2>2. IsRequest(D!Abstains) /\ D!Abstains.pc = "abstained"
    BY FreshRequest DEF D!Abstains
  <2>3. CASE D!Fetch
    <3>1. CASE req' = D!Abstains
      BY <1>1, <2>1, <2>2, <2>3, <3>1 DEF D!Fetch, Undecided
    <3>2. CASE req' = [req EXCEPT !.pc = "fetched", !.snap = [snapshot EXCEPT !.age = 0]]
      <4>1. IsRequest(req') /\ req'.pc = "fetched" /\ req'.job = req.job
        BY <3>2 DEF IsRequest
      <4> QED
        BY <1>1, <2>1, <2>3, <4>1 DEF D!Fetch, Undecided
    <3> QED
      BY <2>3, <3>1, <3>2 DEF D!Fetch
  <2>4. CASE D!CheckShape
    <3>1. CASE req' = D!Abstains
      BY <1>1, <2>1, <2>2, <2>4, <3>1 DEF D!CheckShape, Undecided
    <3>2. CASE req' = [req EXCEPT !.pc = "checked"]
      <4>1. IsRequest(req') /\ req'.pc = "checked" /\ req'.job = req.job
        BY <3>2 DEF IsRequest
      <4> QED
        BY <1>1, <2>1, <2>4, <4>1 DEF D!CheckShape, Undecided
    <3> QED
      BY <2>4, <3>1, <3>2 DEF D!CheckShape
  <2>5. CASE D!Select
    <3>1. CASE req' = [D!Idle EXCEPT !.pc = "refused"]
      <4>1. IsRequest(req') /\ req'.pc = "refused"
        BY <3>1, FreshRequest
      <4> QED
        BY <1>1, <2>1, <2>5, <4>1 DEF D!Select, Undecided
    <3>2. CASE \E a, w : req' = [req EXCEPT !.pc = "chosen", !.action = a, !.weak = w]
      <4>1. IsRequest(req') /\ req'.pc = "chosen" /\ req'.job = req.job
        BY <3>2 DEF IsRequest
      <4> QED
        BY <1>1, <2>1, <2>5, <4>1 DEF D!Select, Undecided
    <3> QED
      BY <2>5, <3>1, <3>2 DEF D!Select
  <2>6. CASE D!Boost
    <3>1. \E b : req' = [req EXCEPT !.pc = "decided", !.boost = b]
      BY <2>6 DEF D!Boost
    <3>2. IsRequest(req') /\ req'.pc = "decided" /\ req'.job = req.job
      BY <3>1 DEF IsRequest
    <3> QED
      BY <1>1, <2>1, <2>6, <3>2 DEF D!Boost, Undecided
  <2> QED
    BY <1>2, <2>3, <2>4, <2>5, <2>6 DEF Decide, D!Handle
<1>3. CASE PredictRuntime
  <2>1. req' = req
    BY <1>3 DEF PredictRuntime, service
  <2>2. CASE P!CheckReady
    <3>1. \E x : \E s \in {"ready", "bootstrap"} : ask' = [ask EXCEPT !.pc = s, !.stats = x]
      BY <2>2 DEF P!CheckReady
    <3>2. IsAsk(ask') /\ ask'.pc \in {"ready", "bootstrap"}
      BY <3>1 DEF IsAsk
    <3> QED
      BY <1>1, <2>1, <2>2, <3>2 DEF P!CheckReady
  <2>3. CASE P!Predict
    <3>1. \E x, y : ask' = [ask EXCEPT !.pc = "predicted", !.booster = x, !.cols = y]
      BY <2>3 DEF P!Predict
    <3>2. IsAsk(ask') /\ ask'.pc = "predicted"
      BY <3>1 DEF IsAsk
    <3> QED
      BY <1>1, <2>1, <2>3, <3>2 DEF P!Predict
  <2> QED
    BY <1>3, <2>2, <2>3 DEF PredictRuntime, P!Predicts
<1>4. CASE Control
  <2>1. ask' = ask
    BY <1>4 DEF Control, predictor
  <2>2. CASE req' = req
    BY <1>1, <2>1, <2>2
  <2>3. CASE req.pc # "idle" /\ req' = [D!Idle EXCEPT !.pc = "failed"]
    <3>1. IsRequest(req') /\ req'.pc = "failed"
      BY <2>3, FreshRequest
    <3> QED
      BY <1>1, <2>1, <2>3, <3>1 DEF Undecided
  <2> QED
    BY <1>4, <2>2, <2>3 DEF Control, D!Load, D!Swap, D!SetShadow, D!RestartService
<1>5. CASE Train
  <2>1. req' = req
    BY <1>5 DEF Train, service
  <2>2. CASE ask' = ask
    BY <1>1, <2>1, <2>2
  <2>3. CASE ask.pc # "idle" /\ ask' = [P!NoAsk EXCEPT !.pc = "failed"]
    <3>1. IsAsk(ask') /\ ask'.pc = "failed"
      BY <2>3 DEF IsAsk, P!NoAsk
    <3> QED
      BY <1>1, <2>1, <2>3, <3>1
  <2> QED
    BY <1>5, <2>2, <2>3 DEF Train, P!Replace, P!Train, P!Rotate, P!OpenFile, P!Dump, P!TakeLock, P!SetBooster,
       P!SetRest, P!RestartPredictor
<1> QED
  BY <1>2, <1>3, <1>4, <1>5

\* The plugin opens the next call when it has closed the last one, or slurmctld has the job.
LEMMA NextCallKeepsCalls ==
  ASSUME CallInv, NEW j \in Jobs, NEW left \in SUBSET calls, NextCall(j, left), deployed' = deployed,
         req.pc = "idle", \A k \in Jobs : Submitting(k) => k = j, DOMAIN pin' = Jobs
  PROVE  CallInv'
<1> USE DEF CallInv
<1>0. calls' = calls
  BY DEF calls
<1>1. ASSUME D!Ask(j)
      PROVE  IsRequest(req') /\ req'.pc = "asked" /\ req'.job = j
  <2>1. req' = [D!Idle EXCEPT !.pc = "asked", !.job = j]
    BY <1>1 DEF D!Ask
  <2> QED
    BY <2>1, FreshRequest DEF D!Idle
<1>2. IsAsk(P!NoAsk) /\ P!NoAsk.pc = "idle"
  BY DEF IsAsk, P!NoAsk
<1>3. IsAsk([P!NoAsk EXCEPT !.pc = "asked"]) /\ [P!NoAsk EXCEPT !.pc = "asked"].pc = "asked"
  BY DEF IsAsk, P!NoAsk
<1>4. CASE left \cap {"score", "limit"} # {} /\ P!AskRuntime /\ UNCHANGED service
           /\ call' = (IF "score" \in left THEN "score" ELSE "limit") /\ st' = [st EXCEPT ![j] = "submitting"]
  <2>1. IsAsk(ask') /\ ask'.pc = "asked" /\ req' = req
    BY <1>3, <1>4 DEF P!AskRuntime, service
  <2>2. DOMAIN st' = Jobs /\ \A k \in Jobs : Submitting(k)' <=> k = j
    BY <1>4 DEF Submitting
  <2>3. call' \in calls /\ call' \in {"score", "limit"}
    BY <1>4
  <2> QED
    BY <1>0, <2>1, <2>2, <2>3 DEF OneCallInFlight, Undecided
<1>5. CASE left = {"decision"} /\ D!Ask(j) /\ Closed /\ call' = "decision" /\ st' = [st EXCEPT ![j] = "submitting"]
  <2>1. ask' = P!NoAsk
    BY <1>5 DEF Closed
  <2>2. DOMAIN st' = Jobs /\ \A k \in Jobs : Submitting(k)' <=> k = j
    BY <1>5 DEF Submitting
  <2> QED
    BY <1>0, <1>1, <1>2, <1>5, <2>1, <2>2 DEF OneCallInFlight, Undecided
<1>6. CASE left = {} /\ Closed /\ UNCHANGED service /\ call' = "none" /\ st' = [st EXCEPT ![j] = "pending"]
  <2>1. ask' = P!NoAsk /\ req' = req
    BY <1>6 DEF Closed, service
  <2>2. DOMAIN st' = Jobs /\ \A k \in Jobs : ~Submitting(k)'
    BY <1>6 DEF Submitting
  <2> QED
    BY <1>0, <1>2, <1>6, <2>1, <2>2 DEF OneCallInFlight, Undecided
<1> QED
  BY <1>4, <1>5, <1>6 DEF NextCall

LEMMA PluginKeepsCalls ==
  ASSUME CallInv, Plugin \/ GiveUp
  PROVE  CallInv'
<1>1. ASSUME NEW j \in Jobs, Submit(j) PROVE CallInv'
  <2>1. req.pc = "idle" /\ \A k \in Jobs : Submitting(k) => k = j
    BY <1>1 DEF Submit, CallInv, OneCallInFlight
  <2>2. NextCall(j, calls) /\ deployed' = deployed /\ pin' = pin /\ calls \in SUBSET calls
    BY <1>1 DEF Submit
  <2> QED
    BY <2>1, <2>2, NextCallKeepsCalls DEF CallInv
<1>2. ASSUME NEW j \in Jobs, Submitting(j), ask.pc # "idle", NextCall(j, Rest), deployed' = deployed, pin' = pin
      PROVE  CallInv'
  <2>1. req.pc = "idle" /\ (\A k \in Jobs : Submitting(k) => k = j) /\ Rest \in SUBSET calls
    BY <1>2 DEF CallInv, OneCallInFlight, Rest
  <2> QED
    BY <1>2, <2>1, NextCallKeepsCalls DEF CallInv
<1>3. ASSUME NEW j \in Jobs, Submitting(j), req.pc # "idle", Accepted(j), Dropped, ask' = ask, DOMAIN pin' = Jobs
      PROVE  CallInv'
  <2>1. req' = D!Idle /\ call' = "none" /\ ask.pc = "idle" /\ \A k \in Jobs : Submitting(k) <=> k = j
    BY <1>3 DEF CallInv, OneCallInFlight, Dropped
  <2>2. DOMAIN st' = Jobs /\ (\A k \in Jobs : ~Submitting(k)') /\ deployed' = deployed
    BY <1>3, <2>1 DEF Accepted, Submitting, CallInv
  <2>3. IsRequest(D!Idle) /\ D!Idle.pc = "idle"
    BY FreshRequest
  <2> QED
    BY <1>3, <2>1, <2>2, <2>3 DEF CallInv, OneCallInFlight, Undecided
<1>4. ASSUME NEW j \in Jobs, GetPrediction(j) \/ NoPrediction(j) PROVE CallInv'
  BY <1>2, <1>4 DEF GetPrediction, NoPrediction
<1>5. ASSUME NEW j \in Jobs, ApplyAnswer(j) \/ NoAnswer(j) PROVE CallInv'
  <2>1. DOMAIN pin' = Jobs
    BY <1>5 DEF ApplyAnswer, NoAnswer, CallInv
  <2> QED
    BY <1>3, <1>5, <2>1 DEF ApplyAnswer, NoAnswer, Left, D!Answered, predictor
<1> QED
  BY <1>1, <1>4, <1>5 DEF Plugin, GiveUp

LEMMA CallStep == CallInv /\ [Next]_vars => CallInv'
<1> SUFFICES ASSUME CallInv, [Next]_vars PROVE CallInv'
  OBVIOUS
<1>1. ASSUME UNCHANGED <<deployed, call, req, ask>>, DOMAIN st' = Jobs, DOMAIN pin' = Jobs, \A k \in Jobs : Submitting(k)' <=> Submitting(k)
      PROVE  CallInv'
  BY <1>1 DEF CallInv, OneCallInFlight, Undecided, calls
<1>2. CASE Cluster
  <2>1. UNCHANGED <<deployed, call, req, ask>>
    BY <1>2 DEF Cluster, plugin, service, predictor
  <2>2. ASSUME NEW j \in Jobs, NEW x, st[j] # "submitting", x # "submitting", st' = [st EXCEPT ![j] = x]
        PROVE  DOMAIN st' = Jobs /\ \A k \in Jobs : Submitting(k)' <=> Submitting(k)
    BY <2>2 DEF Submitting, CallInv
  <2>3. \A n \in Nodes : n # "submitting"
    BY SubmitAssumption
  <2>4. ASSUME NEW j \in Jobs, NEW n \in Nodes, Start(j, n) PROVE CallInv'
    <3>1. st[j] # "submitting" /\ n # "submitting" /\ st' = [st EXCEPT ![j] = n]
      BY <2>3, <2>4 DEF Start
    <3> QED
      BY <1>1, <2>1, <2>2, <2>4, <3>1 DEF Start, CallInv
  <2>5. ASSUME NEW j \in Jobs, End(j) PROVE CallInv'
    <3>1. st[j] # "submitting" /\ st' = [st EXCEPT ![j] = "over"]
      BY <2>3, <2>5 DEF End
    <3> QED
      BY <1>1, <2>1, <2>2, <2>5, <3>1 DEF End, CallInv
  <2>6. CASE UNCHANGED <<st, pin>>
    BY <1>1, <2>1, <2>6 DEF Submitting, CallInv
  <2> QED
    BY <1>2, <2>4, <2>5, <2>6 DEF Cluster
<1>3. CASE Tick \/ Agent \/ Miss \/ UNCHANGED vars
  <2>1. UNCHANGED <<deployed, call, st, pin, req, ask>>
    BY <1>3 DEF Tick, Agent, ReadJobs, ReadNodes, Push, D!PushSnapshot, Miss, vars, cluster, plugin, service, predictor
  <2> QED
    BY <1>1, <2>1 DEF Submitting, CallInv
<1>4. CASE Plugin \/ GiveUp
  BY <1>4, PluginKeepsCalls
<1>5. CASE Decide \/ PredictRuntime \/ Control \/ Train
  BY <1>5, ServicesKeepCalls
<1> QED
  BY <1>2, <1>3, <1>4, <1>5 DEF Next

LEMMA CallInit == Init => CallInv
<1> SUFFICES ASSUME Init PROVE CallInv
  OBVIOUS
<1>1. \A j \in Jobs : ~Submitting(j)
  BY DEF Init, Submitting
<1>2. req = D!Idle /\ ask = P!NoAsk
  BY DEF Init, D!StartService, P!StartPredictor
<1>3. IsRequest(D!Idle) /\ D!Idle.pc = "idle" /\ IsAsk(P!NoAsk) /\ P!NoAsk.pc = "idle"
  BY FreshRequest DEF IsAsk, P!NoAsk
<1> QED
  BY <1>1, <1>2, <1>3 DEF Init, CallInv, OneCallInFlight, Undecided

\* Whatever restarts, is switched, reloaded or never answers, a submission has exactly one
\* call open, for its own job, until slurmctld gets the job (rl_hook.lua, slurm_job_submit).
THEOREM SubmissionsHaveOneCall == Spec => []OneCallInFlight
<1>1. CallInv => OneCallInFlight
  BY DEF CallInv
<1> QED
  BY <1>1, CallInit, CallStep, PTL DEF Spec

-----------------------------------------------------------------------------
(* Numbers *)

LEMMA DivMod ==
  ASSUME NEW d \in Nat \ {0}, NEW q \in Nat, NEW r \in 0 .. d - 1
  PROVE  (q * d + r) \div d = q /\ (q * d + r) % d = r
<1> DEFINE a == q * d + r
           e == a \div d
           m == a % d
<1>1. q * d \in Nat /\ a \in Nat
  OBVIOUS
<1>2. a = d * e + m /\ m \in 0 .. d - 1 /\ e \in Int
  <2> HIDE DEF a
  <2> QED
    BY <1>1
<1>3. q * d + r = e * d + m
  BY <1>1, <1>2
<1> HIDE DEF a, e, m
<1>4. ASSUME e > q PROVE FALSE
  <2>1. e >= q + 1
    BY <1>2, <1>4
  <2>2. e * d >= q * d + d
    BY <1>2, <2>1
  <2> QED
    BY <1>2, <1>3, <2>2
<1>5. ASSUME e < q PROVE FALSE
  <2>1. e + 1 <= q
    BY <1>2, <1>5
  <2>2. e * d + d <= q * d
    BY <1>2, <2>1
  <2> QED
    BY <1>2, <1>3, <2>2
<1>6. e \in Int /\ q \in Int
  BY <1>2
<1>7. e = q
  BY <1>4, <1>5, <1>6
<1>8. m = r
  BY <1>2, <1>3, <1>7
<1> QED
  BY <1>7, <1>8 DEF a, e, m

\* An action of n nodes with g GPUs each is decoded to the job and the node it was made of.
LEMMA Decoded ==
  ASSUME NEW n \in Nat, NEW g \in Nat, NEW k \in Nat, NEW x \in 0 .. n - 1, NEW y \in 0 .. g - 1
  PROVE  LET a == k * (n * g) + x * g + y IN
         a \div (n * g) = k /\ (a % (n * g)) \div g = x
<1> DEFINE w == n * g
           r == x * g + y
<1>1. (x + 1) * g <= n * g
  OBVIOUS
<1>2. r \in 0 .. w - 1 /\ w \in Nat \ {0} /\ g \in Nat \ {0} /\ x \in Nat
  BY <1>1
<1>3. r \div g = x
  BY <1>2, DivMod
<1> HIDE DEF w, r
<1>4. (k * w + r) \div w = k /\ (k * w + r) % w = r
  BY <1>2, DivMod
<1>5. k * (n * g) + x * g + y = k * w + r
  BY DEF w, r
<1> QED
  BY <1>3, <1>4, <1>5 DEF w

LEMMA FewerNodesFewerActions ==
  ASSUME NEW m \in Nat, NEW n \in Nat, NEW g \in Nat, NEW h \in Nat \ {0}, m <= n, g <= h, m * g = n * h
  PROVE  m = n
OBVIOUS

LEMMA LeastNumber ==
  ASSUME NEW T \in SUBSET Nat, T # {}
  PROVE  \E l \in T : \A t \in T : l <= t
<1> DEFINE R == OpToRel(<, Nat)
<1>1. IsWellFoundedOn(R, Nat)
  BY NatLessThanWellFounded
<1>2. \E l \in T : \A t \in T : ~ (<<t, l>> \in R)
  <2> HIDE DEF R
  <2> QED
    BY <1>1, WFMin, Zenon
<1>3. PICK l \in T : \A t \in T : ~ (<<t, l>> \in R)
  BY <1>2
<1>4. \A t \in T : <<t, l>> \in Nat \X Nat
  OBVIOUS
<1>5. \A t \in T : ~ (t < l)
  BY <1>3, <1>4 DEF OpToRel
<1> QED
  BY <1>5

\* A bounded set of naturals has a greatest element.
LEMMA MaxOfBounded ==
  ASSUME NEW S \in SUBSET Nat, S # {}, NEW b \in Nat, \A x \in S : x <= b
  PROVE  Max(S) \in S
<1> DEFINE T == { b - x : x \in S }
<1>1. T \in SUBSET Nat /\ T # {}
  <2>1. \A x \in S : b - x \in Nat
    OBVIOUS
  <2> QED
    BY <2>1
<1>2. PICK l \in T : \A t \in T : l <= t
  <2> HIDE DEF T
  <2> QED
    BY <1>1, LeastNumber
<1>3. PICK s \in S : l = b - s
  BY <1>2
<1>4. ASSUME NEW x \in S PROVE x <= s
  <2>1. b - x \in T
    OBVIOUS
  <2>2. l <= b - x
    <3> HIDE DEF T
    <3> QED
      BY <1>2, <2>1
  <2> QED
    BY <1>3, <2>2
<1>5. \E y \in S : \A x \in S : y >= x
  BY <1>4
<1> QED
  BY <1>5, Zenon DEF Max

-----------------------------------------------------------------------------
(* Snapshots *)

\* A snapshot lists at most the nodes of the cluster, and lists them in their order if
\* it lists all.
IsSnap(s) == s = [age |-> s.age, pend |-> s.pend, nodes |-> s.nodes, gpus |-> s.gpus]
Covers(m) == \A n \in Nodes : Min({Cards[n], Gpus}) <= m
Describes(nodes, gpus) ==
  /\ DOMAIN nodes = 1 .. Len(nodes) /\ Len(nodes) \in Nat /\ Len(nodes) <= Len(NodeSeq)
  /\ nodes # << >> => gpus \in Nat /\ \A m \in Nat : Covers(m) => gpus <= m
  /\ Len(nodes) = Len(NodeSeq) => \A i \in 1 .. Len(nodes) : nodes[i].name = NodeSeq[i]
GoodSnap(s) == IsSnap(s) /\ Describes(s.nodes, s.gpus)

LEMMA MinOfTwo ==
  ASSUME NEW a \in Int, NEW b \in Int
  PROVE  Min({a, b}) \in {a, b}
<1>1. \E x \in {a, b} : \A y \in {a, b} : x <= y
  OBVIOUS
<1> QED
  BY <1>1, Zenon DEF Min

\* The i-th of all is the i-th.
LEMMA AllAreListed ==
  ASSUME Cardinality(Listed) = Len(NodeSeq)
  PROVE  \A i \in 1 .. Len(NodeSeq) : Nth(i) = i
<1>0. Len(NodeSeq) \in Nat /\ DOMAIN NodeSeq = 1 .. Len(NodeSeq)
  BY SubmitAssumption
<1> DEFINE N == Len(NodeSeq)
<1>1. IsFiniteSet(1 .. N) /\ Cardinality(1 .. N) = N
  <2>1. 1 \in Int /\ N \in Int
    BY <1>0
  <2>2. IsFiniteSet(1 .. N) /\ Cardinality(1 .. N) = IF 1 > N THEN 0 ELSE N - 1 + 1
    BY <2>1, FS_Interval
  <2> QED
    BY <1>0, <2>2
<1>2. Listed \in SUBSET (1 .. N)
  BY <1>0 DEF Listed
<1>3. Listed = 1 .. N
  <2> HIDE DEF N
  <2> QED
    BY <1>1, <1>2, FS_Subset DEF N
<1>4. ASSUME NEW k \in 1 .. N PROVE Cardinality(Listed \cap 1 .. k) = k
  <2>1. Listed \cap 1 .. k = 1 .. k
    BY <1>0, <1>3
  <2>2. 1 \in Int /\ k \in Int /\ k >= 1
    BY <1>0
  <2>3. Cardinality(1 .. k) = IF 1 > k THEN 0 ELSE k - 1 + 1
    BY <2>2, FS_Interval
  <2>4. (IF 1 > k THEN 0 ELSE k - 1 + 1) = k
    BY <2>2
  <2> QED
    BY <2>1, <2>3, <2>4
<1>5. ASSUME NEW i \in 1 .. N PROVE Nth(i) = i
  <2>1. \E k \in Listed : Cardinality(Listed \cap 1 .. k) = i
    BY <1>3, <1>4
  <2>2. Nth(i) \in Listed /\ Cardinality(Listed \cap 1 .. Nth(i)) = i
    BY <2>1, Zenon DEF Nth
  <2> QED
    BY <1>3, <1>4, <2>2
<1> QED
  BY <1>5

\* The i-th of the listed nodes is listed.
LEMMA NthIsListed ==
  ASSUME NEW i \in 1 .. Cardinality(Listed)
  PROVE  Nth(i) \in Listed
<1> DEFINE N == Len(NodeSeq)
           upto(k) == Cardinality(Listed \cap 1 .. k)
           T == { k \in 0 .. N : upto(k) >= i }
<1>0. N \in Nat /\ DOMAIN NodeSeq = 1 .. N /\ Listed \in SUBSET (1 .. N) /\ i >= 1
  BY SubmitAssumption DEF Listed
<1>1. IsFiniteSet(Listed) /\ Cardinality(Listed) \in Nat /\ i \in Nat
  <2>1. 1 \in Int /\ N \in Int
    BY <1>0
  <2>2. IsFiniteSet(1 .. N)
    BY <2>1, FS_Interval
  <2>3. IsFiniteSet(Listed)
    <3> HIDE DEF N
    <3> QED
      BY <1>0, <2>2, FS_Subset
  <2> QED
    BY <2>3, FS_CardinalityType
<1>2. \A k \in 0 .. N : IsFiniteSet(Listed \cap 1 .. k) /\ upto(k) \in Nat
  <2> TAKE k \in 0 .. N
  <2>1. Listed \cap 1 .. k \in SUBSET Listed
    OBVIOUS
  <2>2. IsFiniteSet(Listed \cap 1 .. k)
    BY <1>1, <2>1, FS_Subset
  <2> QED
    BY <2>2, FS_CardinalityType
<1>3. T \in SUBSET Nat /\ N \in T
  <2>1. Listed \cap 1 .. N = Listed
    BY <1>0
  <2> QED
    BY <1>0, <1>1, <2>1
<1>4. PICK k \in T : \A l \in T : k <= l
  <2> HIDE DEF T
  <2> QED
    BY <1>3, LeastNumber
<1>5. k >= 1 /\ k \in 0 .. N /\ upto(k) >= i
  <2>1. Listed \cap 1 .. 0 = {}
    OBVIOUS
  <2>2. upto(0) = 0
    BY <2>1, FS_EmptySet
  <2> QED
    BY <1>0, <1>1, <2>2
<1>6. k - 1 \in 0 .. N /\ upto(k - 1) < i /\ upto(k - 1) \in Nat
  <2>1. k - 1 \in 0 .. N /\ ~ (k <= k - 1)
    BY <1>0, <1>5
  <2>2. k - 1 \notin T
    <3> HIDE DEF T
    <3> QED
      BY <1>4, <2>1
  <2>3. upto(k - 1) \in Nat
    BY <1>2, <2>1
  <2> QED
    BY <1>1, <2>1, <2>2, <2>3
<1>7. k \in Listed
  <2> SUFFICES ASSUME k \notin Listed PROVE FALSE
    OBVIOUS
  <2>1. Listed \cap 1 .. k = Listed \cap 1 .. k - 1
    BY <1>0, <1>5
  <2>2. upto(k) = upto(k - 1)
    BY <2>1
  <2> QED
    BY <1>1, <1>5, <1>6, <2>2
<1>8. upto(k) = upto(k - 1) + 1
  <2>1. Listed \cap 1 .. k = (Listed \cap 1 .. k - 1) \cup {k} /\ k \notin Listed \cap 1 .. k - 1
    BY <1>0, <1>5, <1>7
  <2>2. IsFiniteSet(Listed \cap 1 .. k - 1)
    BY <1>2, <1>6
  <2> QED
    BY <2>1, <2>2, FS_AddElement
<1>9. upto(k) = i
  BY <1>1, <1>5, <1>6, <1>8
<1> HIDE DEF T
<1> QED
  BY <1>7, <1>9, Zenon DEF Nth

LEMMA ViewsDescribe ==
  Describes(Views, GpusOf(Views))
<1> DEFINE N == Len(NodeSeq)
           C == Cardinality(Listed)
<1>0. /\ N \in Nat /\ DOMAIN NodeSeq = 1 .. N /\ Gpus \in Nat \ {0}
      /\ \A i \in 1 .. N : NodeSeq[i] \in Nodes
      /\ Cards \in [Nodes -> Nat \ {0}]
  BY SubmitAssumption
<1>1. Listed \in SUBSET (1 .. N)
  BY <1>0 DEF Listed
<1>2. IsFiniteSet(1 .. N) /\ Cardinality(1 .. N) = N
  <2>1. 1 \in Int /\ N \in Int
    BY <1>0
  <2>2. IsFiniteSet(1 .. N) /\ Cardinality(1 .. N) = IF 1 > N THEN 0 ELSE N - 1 + 1
    BY <2>1, FS_Interval
  <2> QED
    BY <1>0, <2>2
<1>3. IsFiniteSet(Listed) /\ C <= N /\ C \in Nat
  <2>1. IsFiniteSet(Listed) /\ Cardinality(Listed) <= Cardinality(1 .. N)
    <3> HIDE DEF N
    <3> QED
      BY <1>1, <1>2, FS_Subset
  <2> QED
    BY <1>2, <2>1, FS_CardinalityType
<1>4. Len(Views) = C /\ DOMAIN Views = 1 .. C /\ \A i \in 1 .. C : Views[i] = View(NodeSeq[Nth(i)])
  BY <1>3 DEF Views
<1>5. C = N => \A i \in 1 .. C : Views[i].name = NodeSeq[i]
  <2> SUFFICES ASSUME C = N, NEW i \in 1 .. C PROVE Views[i].name = NodeSeq[i]
    OBVIOUS
  <2>1. Nth(i) = i
    BY AllAreListed
  <2>2. Views[i] = View(NodeSeq[i])
    BY <1>4, <2>1
  <2> QED
    BY <2>2 DEF View
<1>6. ASSUME Views # << >> PROVE GpusOf(Views) \in Nat /\ \A m \in Nat : Covers(m) => GpusOf(Views) <= m
  <2> DEFINE S == { Views[i].gpus : i \in 1 .. C }
  <2>1. ASSUME NEW i \in 1 .. C PROVE Views[i].gpus \in Nat /\ \A m \in Nat : Covers(m) => Views[i].gpus <= m
    <3>1. Nth(i) \in 1 .. N
      BY <1>1, NthIsListed
    <3> DEFINE n == NodeSeq[Nth(i)]
    <3>2. n \in Nodes /\ Views[i].gpus = Min({Cards[n], Gpus})
      <4>1. n \in Nodes /\ Views[i] = View(n)
        BY <1>0, <1>4, <3>1
      <4> HIDE DEF n
      <4> QED
        BY <4>1 DEF View
    <3> HIDE DEF n
    <3>3. Min({Cards[n], Gpus}) \in Nat
      <4>1. Cards[n] \in Nat /\ Gpus \in Nat /\ Cards[n] \in Int /\ Gpus \in Int
        BY <1>0, <3>2
      <4> QED
        BY <4>1, MinOfTwo
    <3> QED
      BY <3>2, <3>3 DEF Covers
  <2>2. GpusOf(Views) = Max(S)
    <3>1. { Views[i].gpus : i \in DOMAIN Views } = S
      BY <1>4
    <3>2. S \cup {} = S
      OBVIOUS
    <3> HIDE DEF S
    <3> QED
      BY <1>6, <3>1, <3>2 DEF GpusOf
  <2>3. S \in SUBSET Nat /\ S # {}
    <3>1. C # 0
      BY <1>3, <1>4, <1>6
    <3> QED
      BY <1>3, <2>1, <3>1
  <2>4. \A m \in Nat : Covers(m) => \A x \in S : x <= m
    BY <2>1
  <2>5. Gpus \in Nat /\ Covers(Gpus)
    <3>1. ASSUME NEW n \in Nodes PROVE Min({Cards[n], Gpus}) <= Gpus
      <4>1. Cards[n] \in Int /\ Gpus \in Int
        BY <1>0
      <4>2. \E x \in {Cards[n], Gpus} : \A y \in {Cards[n], Gpus} : x <= y
        BY <4>1
      <4>3. Min({Cards[n], Gpus}) <= Gpus
        BY <4>2, Zenon DEF Min
      <4> QED
        BY <4>3
    <3> QED
      BY <1>0, <3>1 DEF Covers
  <2> HIDE DEF S
  <2>6. Max(S) \in S
    BY <2>3, <2>4, <2>5, MaxOfBounded
  <2> QED
    BY <2>2, <2>3, <2>4, <2>6
<1> QED
  BY <1>3, <1>4, <1>5, <1>6 DEF Describes

-----------------------------------------------------------------------------
(* The decision *)

\* A job is pinned by the decision it is being submitted with, a decision is made on a
\* snapshot of the whole cluster, and its action is one the mask offered.
RequestInv ==
  /\ IsRequest(req) /\ GoodSnap(snapshot) /\ Shape[holder] = Shape[deployed.policyDir]
  /\ req.pc \in {"fetched", "checked", "chosen", "decided"} =>
       GoodSnap(req.snap) /\ req.snap.nodes # << >>
  /\ req.pc \in {"checked", "chosen", "decided"} => D!Placements(req.snap) = Shape[holder]
  /\ req.pc \in {"chosen", "decided"} =>
       req.action \in D!Legal(req.snap, req.job) \cup {D!NoOp(req.snap)}
WireInv == agent = "push" => \E s : wire = <<s>> /\ GoodSnap(s)
RoomInv == RequestInv /\ WireInv

\* If all placements of the checkpoint are there, so are all nodes, in their order.
LEMMA WholeCluster ==
  ASSUME NEW s, GoodSnap(s), s.nodes # << >>, NEW c, ForAllNodes(c), D!Placements(s) = Shape[c]
  PROVE  Len(s.nodes) = Len(NodeSeq) /\ \A i \in 1 .. Len(s.nodes) : s.nodes[i].name = NodeSeq[i]
<1>1. PICK m \in 1 .. Gpus : Shape[c] = Len(NodeSeq) * m /\ Covers(m)
  BY DEF ForAllNodes, Covers
<1>2. /\ Len(s.nodes) \in Nat /\ Len(NodeSeq) \in Nat /\ Len(s.nodes) <= Len(NodeSeq)
      /\ s.gpus \in Nat /\ s.gpus <= m /\ m \in Nat \ {0}
      /\ Len(s.nodes) * s.gpus = Len(NodeSeq) * m
  BY <1>1, SubmitAssumption DEF GoodSnap, Describes, D!Placements
<1>3. Len(s.nodes) = Len(NodeSeq)
  BY <1>2, FewerNodesFewerActions
<1> QED
  BY <1>3 DEF GoodSnap, Describes

\* The node an offered action means had room for its job in the snapshot.
LEMMA LegalHasRoom ==
  ASSUME NEW s, NEW j, Len(s.nodes) \in Nat, s.gpus \in Nat, NEW a \in D!Legal(s, j)
  PROVE  LET i == D!NodeOf(s, a) + 1 IN
         /\ i \in 1 .. Len(s.nodes)
         /\ s.nodes[i].free >= Mps[D!Window(s, j)[D!JobOf(s, a) + 1]]
<1> DEFINE n == Len(s.nodes)
           g == s.gpus
<1>1. PICK k \in 0 .. TopK - 1, x \in 0 .. n - 1, y \in 0 .. g - 1 :
        /\ s.nodes[x + 1].free >= Mps[D!Window(s, j)[k + 1]]
        /\ a = k * D!Placements(s) + x * g + y
  BY DEF D!Legal
<1>2. TopK \in Nat
  BY SubmitAssumption
<1>3. D!JobOf(s, a) = k /\ D!NodeOf(s, a) = x
  <2>1. k \in Nat /\ n \in Nat /\ g \in Nat
    BY <1>2
  <2> HIDE DEF n, g
  <2>2. LET b == k * (n * g) + x * g + y IN b \div (n * g) = k /\ (b % (n * g)) \div g = x
    BY <2>1, Decoded
  <2> QED
    BY <1>1, <2>2 DEF D!JobOf, D!NodeOf, D!Placements, n, g
<1> QED
  BY <1>1, <1>3

\* The pin of an answer.
PinFits(k) ==
  \E i \in DOMAIN req.snap.nodes :
    /\ req.snap.nodes[i].free >= Mps[k] /\ i \in DOMAIN Names /\ pin'[k] = Names[i]
    /\ ForAllNodes(holder) => req.snap.nodes[i].name = pin'[k]

LEMMA AnswersHaveRoom ==
  ASSUME Names = NodeSeq, CallInv, RoomInv, NEW j \in Jobs, ApplyAnswer(j)
  PROVE  \A k \in Jobs : pin'[k] \notin {pin[k], "none"} => PinFits(k)
<1> SUFFICES ASSUME NEW k \in Jobs, pin'[k] \notin {pin[k], "none"}
             PROVE  PinFits(k)
  OBVIOUS
<1>1. k = j /\ D!Answer.picked /\ pin'[k] = NameOf(D!Answer.node)
  BY DEF ApplyAnswer, CallInv
<1>2. req.pc = "decided" /\ D!Acts(req) /\ D!Picked(req) = req.job
  BY <1>1 DEF D!Answer
<1>3. D!Answer.node = D!NodeOf(req.snap, req.action) + 1
  BY <1>2 DEF D!Answer
<1>4. req.job = j
  BY <1>2 DEF ApplyAnswer, CallInv, OneCallInFlight, Undecided
<1>5. /\ GoodSnap(req.snap) /\ req.snap.nodes # << >> /\ D!Placements(req.snap) = Shape[holder]
      /\ req.action \in D!Legal(req.snap, req.job)
  BY <1>2 DEF RoomInv, RequestInv, D!Acts
<1>6. /\ DOMAIN req.snap.nodes = 1 .. Len(req.snap.nodes) /\ Len(req.snap.nodes) \in Nat /\ req.snap.gpus \in Nat
      /\ Len(req.snap.nodes) <= Len(NodeSeq) /\ Len(NodeSeq) \in Nat /\ DOMAIN NodeSeq = 1 .. Len(NodeSeq)
  BY <1>5, SubmitAssumption DEF GoodSnap, Describes
<1> DEFINE i == D!NodeOf(req.snap, req.action) + 1
<1>7. i \in 1 .. Len(req.snap.nodes)
      /\ req.snap.nodes[i].free >= Mps[D!Window(req.snap, req.job)[D!JobOf(req.snap, req.action) + 1]]
  BY <1>5, <1>6, LegalHasRoom
<1>8. D!Window(req.snap, req.job)[D!JobOf(req.snap, req.action) + 1] = req.job
  BY <1>2 DEF D!Picked
<1>9. pin'[k] = NameOf(i)
  BY <1>1, <1>3
<1> HIDE DEF i
<1>10. i \in DOMAIN Names /\ NameOf(i) = Names[i]
  BY <1>6, <1>7 DEF NameOf
<1>11. ForAllNodes(holder) => req.snap.nodes[i].name = NodeSeq[i]
  BY <1>5, <1>7, WholeCluster
<1> QED
  BY <1>1, <1>4, <1>6, <1>7, <1>8, <1>9, <1>10, <1>11 DEF PinFits

LEMMA FreshSnap ==
  GoodSnap(D!NoSnapshot)
<1>1. Len(<< >>) = 0 /\ DOMAIN << >> = 1 .. 0 /\ Len(NodeSeq) \in Nat
  BY SubmitAssumption
<1>2. IsSnap(D!NoSnapshot) /\ D!NoSnapshot.nodes = << >>
  BY DEF D!NoSnapshot, IsSnap
<1> QED
  BY <1>1, <1>2 DEF GoodSnap, Describes

LEMMA OldSnap ==
  ASSUME NEW s, GoodSnap(s), NEW age
  PROVE  /\ GoodSnap([s EXCEPT !.age = age]) /\ [s EXCEPT !.age = age].nodes = s.nodes
         /\ [s EXCEPT !.age = age].gpus = s.gpus
<1>1. ASSUME NEW q, q = [s EXCEPT !.age = age]
      PROVE  IsSnap(q) /\ q.nodes = s.nodes /\ q.gpus = s.gpus
  BY <1>1 DEF GoodSnap, IsSnap
<1> QED
  BY <1>1 DEF GoodSnap

LEMMA HandleKeepsRoom ==
  ASSUME RoomInv, Decide
  PROVE  RoomInv'
<1>0. UNCHANGED <<deployed, agent, wire, holder, snapshot>>
  BY DEF Decide, D!Handle, D!Fetch, D!CheckShape, D!Select, D!Boost, D!Kept, plugin, reads
<1>1. IsRequest(D!Abstains) /\ D!Abstains.pc = "abstained"
  BY FreshRequest DEF D!Abstains
<1>2. ASSUME IsRequest(req'), req'.pc \notin Undecided, req.pc # "idle"
      PROVE  RoomInv'
  BY <1>0, <1>2 DEF RoomInv, RequestInv, WireInv, Undecided
<1>3. ASSUME IsRequest(req'), req.pc \in Undecided, req'.pc \in Undecided, req'.job = req.job
      PROVE  WireInv'
  BY <1>0, <1>3 DEF RoomInv, WireInv
<1>4. CASE D!Fetch
  <2>1. CASE req' = D!Abstains
    BY <1>1, <1>2, <1>4, <2>1 DEF D!Fetch, Undecided
  <2>2. ASSUME snapshot.nodes # << >>, req' = [req EXCEPT !.pc = "fetched", !.snap = [snapshot EXCEPT !.age = 0]]
        PROVE  RoomInv'
    <3>1. ASSUME NEW s, s = [snapshot EXCEPT !.age = 0] PROVE GoodSnap(s) /\ s.nodes = snapshot.nodes
      BY <3>1, OldSnap DEF RoomInv, RequestInv
    <3>2. ASSUME NEW s, req' = [req EXCEPT !.pc = "fetched", !.snap = s]
          PROVE  IsRequest(req') /\ req'.pc = "fetched" /\ req'.snap = s /\ req'.job = req.job
      BY <3>2 DEF RoomInv, RequestInv, IsRequest
    <3>3. IsRequest(req') /\ req'.pc = "fetched" /\ GoodSnap(req'.snap) /\ req'.snap.nodes # << >>
          /\ req'.job = req.job
      BY <2>2, <3>1, <3>2
    <3>4. WireInv'
      BY <1>3, <1>4, <3>3 DEF D!Fetch, Undecided
    <3> QED
      BY <1>0, <3>3, <3>4 DEF RoomInv, RequestInv
  <2> QED
    BY <1>4, <2>1, <2>2 DEF D!Fetch
<1>5. CASE D!CheckShape
  <2>1. CASE req' = D!Abstains
    BY <1>1, <1>2, <1>5, <2>1 DEF D!CheckShape, Undecided
  <2>2. ASSUME D!Fits, req' = [req EXCEPT !.pc = "checked"]
        PROVE  RoomInv'
    <3>1. IsRequest(req') /\ req'.pc = "checked" /\ req'.snap = req.snap /\ req'.job = req.job
      BY <2>2 DEF RoomInv, RequestInv, IsRequest
    <3>2. WireInv'
      BY <1>3, <1>5, <3>1 DEF D!CheckShape, Undecided
    <3> QED
      BY <1>0, <1>5, <2>2, <3>1, <3>2 DEF RoomInv, RequestInv, D!Fits, D!CheckShape
  <2> QED
    BY <1>5, <2>1, <2>2 DEF D!CheckShape
<1>6. CASE D!Select
  <2>1. D!Placements(req.snap) = Shape[holder]
    BY <1>6 DEF D!Select, RoomInv, RequestInv
  <2>2. PICK a \in D!Legal(req.snap, req.job) \cup {D!NoOp(req.snap)}, w \in BOOLEAN :
          req' = [req EXCEPT !.pc = "chosen", !.action = a, !.weak = w]
    BY <1>6, <2>1 DEF D!Select
  <2>3. IsRequest(req') /\ req'.pc = "chosen" /\ req'.snap = req.snap /\ req'.job = req.job /\ req'.action = a
    BY <2>2 DEF RoomInv, RequestInv, IsRequest
  <2>4. WireInv'
    BY <1>3, <1>6, <2>3 DEF D!Select, Undecided
  <2> QED
    BY <1>0, <1>6, <2>1, <2>3, <2>4 DEF RoomInv, RequestInv, D!Select
<1>7. CASE D!Boost
  <2>1. PICK b : req' = [req EXCEPT !.pc = "decided", !.boost = b]
    BY <1>7 DEF D!Boost
  <2>2. IsRequest(req') /\ req'.pc = "decided" /\ req'.snap = req.snap /\ req'.job = req.job /\ req'.action = req.action
    BY <2>1 DEF RoomInv, RequestInv, IsRequest
  <2>3. WireInv'
    BY <1>3, <1>7, <2>2 DEF D!Boost, Undecided
  <2> QED
    BY <1>0, <1>7, <2>2, <2>3 DEF RoomInv, RequestInv, D!Boost
<1> QED
  BY <1>4, <1>5, <1>6, <1>7 DEF Decide, D!Handle

\* The plugin opens a request at its beginning and drops it with its answer.
LEMMA PluginKeepsRoom ==
  ASSUME RoomInv, Plugin \/ GiveUp
  PROVE  RoomInv'
<1>0. UNCHANGED <<deployed, agent, wire, holder, snapshot>>
  BY DEF Plugin, GiveUp, Submit, GetPrediction, NoPrediction, NextCall, ApplyAnswer, NoAnswer, Accepted, Dropped,
     D!Ask, D!Kept, service, reads
<1>1. req' \in {req, D!Idle} \/ \E j \in Jobs : req' = [D!Idle EXCEPT !.pc = "asked", !.job = j]
  BY DEF Plugin, GiveUp, Submit, GetPrediction, NoPrediction, NextCall, ApplyAnswer, NoAnswer, Dropped, D!Ask, service
<1>2. IsRequest(req') /\ (req' = req \/ req'.pc \in {"idle", "asked"})
  <2>1. CASE req' = req
    BY <2>1 DEF RoomInv, RequestInv
  <2>2. CASE req' = D!Idle
    BY <2>2, FreshRequest
  <2>3. CASE \E j \in Jobs : req' = [D!Idle EXCEPT !.pc = "asked", !.job = j]
    <3>1. PICK j \in Jobs : req' = [D!Idle EXCEPT !.pc = "asked", !.job = j]
      BY <2>3
    <3>2. IsRequest(req') /\ req'.pc = "asked"
      BY <3>1, FreshRequest
    <3> QED
      BY <3>2
  <2> QED
    BY <1>1, <2>1, <2>2, <2>3
<1> QED
  BY <1>0, <1>2 DEF RoomInv, RequestInv, WireInv

\* Snapshots come from the agent, which saw the nodes that were up.
LEMMA AgentKeepsRoom ==
  ASSUME RoomInv, Agent \/ Miss \/ Tick
  PROVE  RoomInv'
<1>0. UNCHANGED <<deployed, req, holder>>
  BY DEF Agent, ReadJobs, ReadNodes, Push, D!PushSnapshot, Miss, Tick, plugin, service
<1>2. ASSUME GoodSnap(snapshot') PROVE RequestInv'
  BY <1>0, <1>2 DEF RoomInv, RequestInv
<1>3. CASE ReadJobs \/ Miss
  <2>1. agent' # "push" /\ snapshot' = snapshot
    BY <1>3 DEF ReadJobs, Miss, service
  <2> QED
    BY <1>2, <2>1 DEF RoomInv, RequestInv, WireInv
<1>4. CASE ReadNodes
  <2>1. ASSUME NEW s, s = [age |-> 0, pend |-> jobs, nodes |-> Views, gpus |-> GpusOf(Views)]
        PROVE  GoodSnap(s)
    BY <2>1, ViewsDescribe DEF GoodSnap, IsSnap
  <2>2. WireInv'
    BY <1>4, <2>1 DEF ReadNodes, WireInv
  <2>3. snapshot' = snapshot
    BY <1>4 DEF ReadNodes, service
  <2> QED
    BY <1>2, <2>2, <2>3 DEF RoomInv, RequestInv
<1>5. CASE Push
  <2>1. PICK s : wire = <<s>> /\ GoodSnap(s)
    BY <1>5 DEF Push, RoomInv, WireInv
  <2>2. snapshot' = s /\ agent' # "push"
    BY <1>5, <2>1 DEF Push, D!PushSnapshot
  <2> QED
    BY <1>2, <2>1, <2>2 DEF RoomInv, WireInv
<1>6. CASE Tick
  <2>1. GoodSnap(snapshot')
    BY <1>6, OldSnap DEF Tick, D!Older, RoomInv, RequestInv
  <2>2. WireInv'
    <3> SUFFICES ASSUME agent' = "push" PROVE \E s : wire' = <<s>> /\ GoodSnap(s)
      BY DEF WireInv
    <3>1. PICK s : wire = <<s>> /\ GoodSnap(s)
      BY <1>6 DEF Tick, RoomInv, WireInv
    <3>2. GoodSnap(D!Older(s))
      BY <3>1, OldSnap DEF D!Older
    <3>3. wire' = <<D!Older(s)>>
      <4> HIDE DEF D!Older
      <4> QED
        BY <1>6, <3>1 DEF Tick
    <3> QED
      BY <3>2, <3>3
  <2> QED
    BY <1>2, <2>1, <2>2 DEF RoomInv
<1> QED
  BY <1>3, <1>4, <1>5, <1>6 DEF Agent

\* A reload that is accepted keeps the shape; the pod starts with the checkpoint it is deployed with.
LEMMA OthersKeepRoom ==
  ASSUME RoomInv, Cluster \/ Control \/ PredictRuntime \/ Train \/ UNCHANGED vars
  PROVE  RoomInv'
<1>1. CASE UNCHANGED <<deployed, agent, wire, req, holder, snapshot>>
  BY <1>1 DEF RoomInv, RequestInv, WireInv
<1>2. CASE Control
  <2>0. UNCHANGED <<deployed, agent, wire>>
    BY <1>2 DEF Control, plugin, reads
  <2>1. ASSUME UNCHANGED <<req, snapshot>>, Shape[holder'] = Shape[holder] PROVE RoomInv'
    BY <2>0, <2>1 DEF RoomInv, RequestInv, WireInv
  <2>2. CASE D!Swap
    BY <2>1, <2>2 DEF D!Swap, D!Accepts
  <2>3. CASE D!RestartService(deployed.policyDir)
    <3>1. (req' = req /\ req.pc = "idle") \/ req' = [D!Idle EXCEPT !.pc = "failed"]
      BY <2>3 DEF D!RestartService
    <3>2. IsRequest(req') /\ req'.pc \in {"idle", "failed"}
      BY <3>1, FreshRequest DEF RoomInv, RequestInv
    <3>3. holder' = deployed.policyDir /\ GoodSnap(snapshot')
      BY <2>3, FreshSnap DEF D!RestartService
    <3> QED
      BY <2>0, <3>2, <3>3 DEF RoomInv, RequestInv, WireInv
  <2> QED
    BY <1>2, <2>1, <2>2, <2>3 DEF Control, D!Load, D!SetShadow
<1> QED
  BY <1>1, <1>2 DEF Cluster, PredictRuntime, Train, vars, plugin, service, reads

LEMMA RoomStep == RoomInv /\ [Next]_vars => RoomInv'
BY HandleKeepsRoom, PluginKeepsRoom, AgentKeepsRoom, OthersKeepRoom DEF Next

\* Whatever else moves, only an answer pins a job.
LEMMA OnlyAnswersPin ==
  ASSUME Names = NodeSeq, CallInv, RoomInv, [Next]_vars
  PROVE  \A j \in Jobs : pin'[j] \notin {pin[j], "none"} => PinFits(j)
<1>1. ASSUME NEW j \in Jobs, ApplyAnswer(j)
      PROVE  \A k \in Jobs : pin'[k] \notin {pin[k], "none"} => PinFits(k)
  BY <1>1, AnswersHaveRoom
<1>2. ASSUME NEW j \in Jobs, NEW n \in Nodes, Start(j, n)
      PROVE  \A k \in Jobs : pin'[k] \in {pin[k], "none"}
  BY <1>2 DEF Start, CallInv
<1>3. CASE pin' = pin
  BY <1>3
<1>4. CASE Cluster
  BY <1>2, <1>3, <1>4 DEF Cluster, End
<1>5. CASE Plugin \/ GiveUp
  BY <1>1, <1>3, <1>5 DEF Plugin, GiveUp, Submit, GetPrediction, NoPrediction, NoAnswer
<1>6. CASE Tick \/ Agent \/ Miss \/ Decide \/ PredictRuntime \/ Control \/ Train \/ UNCHANGED vars
  BY <1>3, <1>6 DEF Tick, Agent, ReadJobs, ReadNodes, Push, Miss, Decide, PredictRuntime, Control, Train,
     cluster, vars
<1> QED
  BY <1>4, <1>5, <1>6 DEF Next

\* With the plugin's list of the nodes, a job is pinned to the name the list has for a node
\* that had room for it in the snapshot of its decision; with a checkpoint for all nodes that
\* is the node's own name, whatever was pushed, reloaded or lost meanwhile (rl_apply of
\* chart/lua/rl_hook.lua, _decide_from_snapshot of serve.py).
THEOREM PinsHaveRoom == Names = NodeSeq => (Spec => PinHadRoom)
<1> SUFFICES ASSUME Names = NodeSeq PROVE Spec => PinHadRoom
  OBVIOUS
<1>1. Init => RoomInv
  <2> SUFFICES ASSUME Init PROVE RoomInv
    OBVIOUS
  <2>1. IsRequest(req) /\ req.pc = "idle" /\ GoodSnap(snapshot) /\ holder = deployed.policyDir
    BY FreshRequest, FreshSnap DEF Init, D!StartService
  <2>2. agent # "push"
    BY DEF Init
  <2> QED
    BY <2>1, <2>2 DEF RoomInv, RequestInv, WireInv
<1>2. CallInv /\ RoomInv /\ [Next]_vars =>
        [\A j \in Jobs : pin'[j] \notin {pin[j], "none"} =>
           \E i \in DOMAIN req.snap.nodes :
             /\ req.snap.nodes[i].free >= Mps[j] /\ i \in DOMAIN Names /\ pin'[j] = Names[i]
             /\ ForAllNodes(holder) => req.snap.nodes[i].name = pin'[j]]_vars
  BY OnlyAnswersPin DEF PinFits
<1> QED
  BY <1>1, <1>2, CallInit, CallStep, RoomStep, PTL DEF Spec, PinHadRoom

=============================================================================
