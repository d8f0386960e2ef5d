----------------------------- MODULE MCJobQueue -----------------------------
(* The job queue on the two jobs of one video. *)
EXTENDS JobQueue, TLC

WorkerSymmetry == Permutations(Workers)
=============================================================================
