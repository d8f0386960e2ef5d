--------------------------- MODULE MCPublishedTree ---------------------------
(* The published tree of one video, two segments of it. *)
EXTENDS PublishedTree, TLC

Symmetry ==
  Permutations(Workers) \cup Permutations(Keys) \cup Permutations(Segments)
=============================================================================
