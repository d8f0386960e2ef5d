------------------------------- MODULE MCParts -------------------------------
(* Each of the parts at bounds of its own. *)
EXTENDS Parts

CONSTANTS v1, v2, w1, w2

(* Three videos of one tenant, none of another; pages of two cards, of all    *)
(* statuses or of one.                                                      *)
MCOwner == [v \in ListVideos |-> "t1"]
MCKeys  == {<<"all", 1>>, <<"failed", 1>>, <<"failed", 2>>}

(* A mutation of each of two videos, which cross in the list; or two of one,  *)
(* which cross on its page as well.                                         *)
MCCrossings ==
  {{[video |-> v1, kind |-> "cancel"], [video |-> v2, kind |-> "rename"]},
   {[video |-> v2, kind |-> "retry"],  [video |-> v2, kind |-> "rename"]}}
=============================================================================
