---------------------------- MODULE MCZeroServer ----------------------------
(* Small instances of TrainingOrders for TLC. *)
EXTENDS TrainingOrders, TLC

\* No action, constant or property names an optimizer.
Symmetry == Permutations(OpWorker)
=============================================================================
