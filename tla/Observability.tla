---------------------------- MODULE Observability ----------------------------
(***************************************************************************)
(* The programs that watch the cluster and measure it: the dashboard       *)
(* (Gui), the operator's job spans (Spans) and collection (Collector), and *)
(* the experiment driver (Experiment). They share nothing but Slurm, of    *)
(* which each has its own small model: Init picks one.                     *)
(***************************************************************************)
EXTENDS Gui, Spans, Experiment, Collector

CONSTANT Observers   \* of "gui", "spans", "experiment" and "collector"

VARIABLE program

Init ==
  /\ GuiInit /\ SpansInit /\ ExperimentInit /\ CollectorInit /\ program \in Observers
  /\ program = "experiment" \/ arm = CHOOSE a \in Arms : TRUE
  /\ program = "collector" \/ restUp

Next ==
  \/ program = "gui" /\ GuiNext /\ UNCHANGED <<program, spans, experiment, collector>>
  \/ program = "spans" /\ SpansNext /\ UNCHANGED <<program, gui, experiment, collector>>
  \/ program = "experiment" /\ ExperimentNext /\ UNCHANGED <<program, gui, spans, collector>>
  \/ program = "collector" /\ CollectorNext /\ UNCHANGED <<program, gui, spans, experiment>>

Spec == Init /\ [][Next]_<<program, gui, spans, experiment, collector>>
=============================================================================
