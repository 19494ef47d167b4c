------------------------- MODULE RuntimePredictor -------------------------
(***************************************************************************)
(* services/runtime_predictor: the model bundle on disk, its copy in the   *)
(* process field by field, the lock around a load and a prediction, and a  *)
(* /retrain that replaces both while predictions are served.  Models are   *)
(* numbered in the order of their training.                                *)
(***************************************************************************)
EXTENDS Naturals

CONSTANTS MaxModels    \* bound: models trained in a behaviour

VARIABLES
  file,     \* the bundle on disk: none, torn while it is written, or whole
  model,    \* booster, feature_cols and user_stats of the holder, and is_ready
  lock,     \* who holds HOLDER.lock: "free" or "load"
  trainer,  \* /retrain: idle, trained, moved, open, written, read, half
  trained,  \* models trained so far
  ask       \* /predict: where it is, the stats it read and the pair it predicts with


NoModel == [booster |-> 0, cols |-> 0, stats |-> 0, ready |-> FALSE]
NoAsk   == [pc |-> "idle", stats |-> 0, booster |-> 0, cols |-> 0]
Copy(f) == [booster |-> f.model, cols |-> f.model, stats |-> f.model, ready |-> f.big]
NoFile  == [state |-> "none", model |-> 0, big |-> FALSE]
\* The bundles a pod may find when it starts first.
Files   == {NoFile} \cup [state : {"whole"}, model : {1}, big : BOOLEAN]

-----------------------------------------------------------------------------
(* POST /retrain: train() rotates the old file and writes the new one; load *)
(* reads it before it takes the lock.                                       *)

Step(from, to) == trainer = from /\ trainer' = to

Train ==
  /\ Step("idle", "trained") /\ trained < MaxModels /\ trained' = trained + 1
  /\ UNCHANGED <<file, model, lock, ask>>
Rotate ==
  /\ Step("trained", "moved") /\ file' = NoFile /\ UNCHANGED <<model, lock, trained, ask>>
OpenFile ==
  /\ Step("moved", "open") /\ file' = [NoFile EXCEPT !.state = "torn"] /\ UNCHANGED <<model, lock, trained, ask>>
Dump ==
  /\ Step("open", "written") /\ \E b \in BOOLEAN : file' = [state |-> "whole", model |-> trained, big |-> b]
  /\ UNCHANGED <<model, lock, trained, ask>>
TakeLock ==
  /\ Step("written", "read") /\ lock = "free" /\ lock' = "load"
  /\ UNCHANGED <<file, model, trained, ask>>
SetBooster ==
  /\ Step("read", "half") /\ model' = [model EXCEPT !.booster = file.model]
  /\ UNCHANGED <<file, lock, trained, ask>>
SetRest ==
  /\ Step("half", "idle") /\ lock' = "free"
  /\ model' = Copy(file)
  /\ UNCHANGED <<file, trained, ask>>

Replace == Rotate \/ OpenFile \/ Dump \/ TakeLock \/ SetBooster \/ SetRest

-----------------------------------------------------------------------------
(* POST /predict: is_ready and user_stats are read without the lock. *)

AskRuntime == ask' = [NoAsk EXCEPT !.pc = "asked"] /\ UNCHANGED <<file, model, lock, trainer, trained>>

CheckReady ==
  /\ ask.pc = "asked"
  /\ ask' = [ask EXCEPT !.pc = IF model.ready THEN "ready" ELSE "bootstrap", !.stats = model.stats]
  /\ UNCHANGED <<file, model, lock, trainer, trained>>

MayPredictAlways == TRUE                    \* mutant: predict without the lock
MayPredict == lock = "free"

\* Within the lock nothing changes the model: one step.
Predict ==
  /\ ask.pc = "ready" /\ MayPredict
  /\ ask' = [ask EXCEPT !.pc = "predicted", !.booster = model.booster, !.cols = model.cols]
  /\ UNCHANGED <<file, model, lock, trainer, trained>>

Predicts == CheckReady \/ Predict

\* The module loads the file when it is imported: a torn one ends the process.
StartPredictor ==
  /\ file \in Files /\ trained = file.model
  /\ model = Copy(file) /\ lock = "free" /\ trainer = "idle" /\ ask = NoAsk
RestartPredictor ==
  /\ model' = Copy(file) /\ lock' = "free" /\ trainer' = IF file.state = "torn" THEN "down" ELSE "idle"
  /\ ask' = IF ask.pc = "idle" THEN ask ELSE [NoAsk EXCEPT !.pc = "failed"]
  /\ UNCHANGED <<file, trained>>
============================================================================
