---------------------------- MODULE MCCoordinator -----------------------------
(* Instances of Coordinator: plans of one and of two stages. *)
EXTENDS Coordinator

OneStage == <<{1, 2}>>
TwoStages == <<{1}, {2}>>

===============================================================================
