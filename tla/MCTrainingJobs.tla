-------------------------- MODULE MCTrainingJobs --------------------------
(* Instances of TrainingJobs for TLC. *)
EXTENDS TrainingJobs, TLC

Symmetry == Permutations(Runs) \cup Permutations(Workers) \cup Permutations(Reconcilers)
=============================================================================
