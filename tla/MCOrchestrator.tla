--------------------------- MODULE MCOrchestrator ---------------------------
(* One pool with a cap of two workers. *)
EXTENDS Orchestrator
=============================================================================
