---------------------------- MODULE MCVideoQueue ----------------------------
(* The video queue on a few rows and workers. *)
EXTENDS VideoQueue, TLC

WorkerSymmetry == Permutations(Workers)
=============================================================================
