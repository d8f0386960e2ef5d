---------------------------- MODULE MCSinglePool ----------------------------
(* One video, its job, and the worker that does both. *)
EXTENDS SinglePool
=============================================================================
