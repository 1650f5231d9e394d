------------------------ MODULE MCTrainingRecovery ------------------------
(* Model values for TrainingRecovery: the bounds are given by the configurations. *)
EXTENDS TrainingRecovery
============================================================================
