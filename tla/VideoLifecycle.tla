--------------------------- MODULE VideoLifecycle ---------------------------
(***************************************************************************)
(* What the video queue promises to the API and the dashboard, without     *)
(* workers, locks, heartbeats or time: a row goes through its phases, each *)
(* start spends one of a fixed budget of attempts, a start ends by         *)
(* publishing, by a refund or by losing the attempt, and the follow-up     *)
(* work of a video is queued exactly once.                                 *)
(***************************************************************************)
EXTENDS Naturals

CONSTANTS Videos, Budget

VARIABLES
  phase,     \* where each video is
  left,      \* attempts it still has
  followUp   \* videos whose background jobs have been queued

lvars == <<phase, left, followUp>>

Phase == {"uploading", "uploaded", "processing", "ready", "failed", "cancelled"}

Init ==
  /\ phase    = [v \in Videos |-> "uploading"]
  /\ left     = [v \in Videos |-> Budget]
  /\ followUp = {}

Move(v, from, to) ==
  /\ phase[v] = from
  /\ phase' = [phase EXCEPT ![v] = to]

Enqueue(v) == Move(v, "uploading", "uploaded") /\ UNCHANGED <<left, followUp>>

Start(v) ==
  /\ left[v] > 0
  /\ Move(v, "uploaded", "processing")
  /\ left' = [left EXCEPT ![v] = @ - 1]
  /\ UNCHANGED followUp

Publish(v) ==
  /\ v \notin followUp
  /\ Move(v, "processing", "ready")
  /\ followUp' = followUp \cup {v}
  /\ UNCHANGED left

Refund(v) ==
  /\ Move(v, "processing", "uploaded")
  /\ left' = [left EXCEPT ![v] = @ + 1]
  /\ UNCHANGED followUp

(* Attempts are lost one by one (a run fails) or many at a time (a reap).  *)
LoseAttempt(S) ==
  /\ \A v \in S : phase[v] = "processing"
  /\ phase' = [v \in Videos |-> IF v \notin S THEN phase[v]
                                ELSE IF left[v] = 0 THEN "failed" ELSE "uploaded"]
  /\ UNCHANGED <<left, followUp>>

Restart(v) ==
  /\ Move(v, "failed", "uploaded")
  /\ left' = [left EXCEPT ![v] = Budget]
  /\ UNCHANGED followUp

Retire(v) ==
  /\ phase[v] \notin {"ready", "cancelled"}
  /\ phase' = [phase EXCEPT ![v] = "cancelled"]
  /\ UNCHANGED <<left, followUp>>

(* The tenant-admin service takes a published video away. *)
Withdraw(v) == Move(v, "ready", "cancelled") /\ UNCHANGED <<left, followUp>>

Next ==
  \/ \E S \in SUBSET Videos : LoseAttempt(S)
  \/ \E v \in Videos :
       Enqueue(v) \/ Start(v) \/ Publish(v) \/ Refund(v) \/ Restart(v)
       \/ Retire(v) \/ Withdraw(v)

Spec == Init /\ [][Next]_lvars
=============================================================================
