-------------------------- MODULE MCPlayerControls --------------------------
(* Tokens of two seconds, and two speeds. *)
EXTENDS PlayerControls
=============================================================================
