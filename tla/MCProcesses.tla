----------------------------- MODULE MCProcesses -----------------------------
(***************************************************************************)
(* Two things that must come to an end, and share no state: a behaviour is    *)
(* of the sweep of cancelled artifacts or of the processes of the API, as     *)
(* `part` names from the beginning on, and the variables of the other are     *)
(* Off.  Fairness is that of the two modules, of the part that is on.         *)
(***************************************************************************)
EXTENDS Integers

CONSTANTS s1, w1, w2, r1, r2

VARIABLES
  part,
  now, updatedAt, writing, tree, download, sweep,
  master, database, worker, tries, request, server

sweepVars == <<now, updatedAt, writing, tree, download, sweep>>
apiVars   == <<master, database, worker, tries, request, server>>
vars      == <<part, sweepVars, apiVars>>

Off == "off"

(* Rows of 1, 3 and 4 are in the window of 5 together: the first page ends     *)
(* with 3, whose cursor says 2, and the next begins with 3 again.             *)
Horizon == 4

(* Only a row that had a run has anything to stop or to lose. *)
Started == {3}

(* Three rows, of which the one with the greatest id ever had a run; pages of *)
(* two rows, listings of one key, and two microseconds to the millisecond.    *)
S == INSTANCE ArtifactSweep WITH
  Videos <- 1 .. 3, Started <- Started, Segments <- {1, 2}, Sweepers <- {s1},
  PageSize <- 2, ListSize <- 1, Milli <- 2, Settle <- 1, Horizon <- Horizon,
  Instants <- {1, 3, 4, 5}

(* Two CPUs, two requests, and a pool that holds one of them up. *)
A == INSTANCE ApiServer WITH
  Workers <- {w1, w2}, Requests <- {r1, r2}, Attempts <- 2, PoolMax <- 1

ASSUME ProcessesAssumption == S!SweepAssumption /\ A!ApiAssumption
-----------------------------------------------------------------------------
Sweeping == part = "sweep"
Serving  == part = "api"

Init ==
  /\ part \in {"sweep", "api"}
  /\ IF Sweeping THEN S!Init
     ELSE now = Off /\ updatedAt = Off /\ writing = Off /\ tree = Off /\ download = Off /\ sweep = Off
  /\ IF Serving THEN A!Init
     ELSE master = Off /\ database = Off /\ worker = Off /\ tries = Off /\ request = Off /\ server = Off

Next ==
  \/ Sweeping /\ S!Next /\ UNCHANGED <<part, apiVars>>
  \/ Serving  /\ A!Next /\ UNCHANGED <<part, sweepVars>>

(* Weak and strong fairness of an action of a part. *)
Sweeps(action) == Sweeping /\ action /\ UNCHANGED <<part, apiVars>>
Serves(action) == Serving /\ action /\ UNCHANGED <<part, sweepVars>>

SweepFairness ==
  /\ WF_vars(Sweeps(S!Tick))
  /\ WF_vars(Sweeps(S!StartSweep(s1))) /\ WF_vars(Sweeps(S!SweepStep(s1)))
  /\ \A v \in Started : WF_vars(Sweeps(S!Cancelled(v) /\ S!StopWriting(v)))

ApiFairness ==
  /\ WF_vars(Serves(A!MasterTimeout))
  /\ \A w \in {w1, w2} :
       /\ WF_vars(Serves(A!Fork(w)))          /\ WF_vars(Serves(A!Connect(w)))
       /\ WF_vars(Serves(A!Drained(w)))       /\ WF_vars(Serves(A!PoolEnds(w)))
       /\ WF_vars(Serves(A!WorkerTimeout(w))) /\ WF_vars(Serves(A!Disconnect(w)))
  /\ \A r \in {r1, r2} :
       /\ WF_vars(Serves(A!Refuse(r) \/ A!Ask(r))) /\ WF_vars(Serves(A!Throw(r)))
       /\ SF_vars(Serves(A!LastStatement(r) \/ A!Throw(r)))

Spec == Init /\ [][Next]_vars /\ SweepFairness /\ ApiFairness
-----------------------------------------------------------------------------
(* Properties: each is its part's own, which explains it.                   *)

(* A sweep comes to an end, although the cursor is coarser than the order, and *)
(* rows move to the end while it is under way; unless as many rows as fill a  *)
(* page share a millisecond that not all begin (ArtifactSweep).              *)
SweepEnds ==
  [](~(Sweeping /\ S!Crowded)) =>
    ((Sweeping /\ sweep[s1].at # "off") ~> (Sweeping /\ sweep[s1].at = "off"))

(* Nothing that a cancelled video has in R2 stays there, whatever its last    *)
(* run still put while it was being swept, unless no sweep gets through       *)
(* before it leaves the window, or rows share a millisecond that way          *)
(* (ArtifactSweep).                                                         *)
NothingLeaks ==
  (/\ [](~(Sweeping /\ S!Crowded))
   /\ <>[][Sweeping /\ (S!RowFails(s1) \/ S!SweepStops(s1)) => S!SweepStep(s1)]_vars) =>
    \A v \in Started :
      (Sweeping /\ S!Cancelled(v) /\ ~writing[v] /\ S!Leftovers(v)) ~>
        (Sweeping /\ (~S!Leftovers(v) \/ now - updatedAt[v] > Horizon))

(* A shutdown ends, with every process gone, although each worker that dies   *)
(* of it is replaced (ApiServer).                                           *)
ShutdownEnds ==
  (Serving /\ master = "stopping") ~>
    (Serving /\ master = "gone" /\ \A w \in {w1, w2} : worker[w] = "none")

(* While the master lives, every slot comes back to listen once the database  *)
(* stays reachable and nobody stops it again, but for one whose attempts ran  *)
(* out before (ApiServer).                                                  *)
StrengthRestored ==
  (<>[](Serving /\ database /\ master = "up") /\ <>[][Serving /\ ~A!Disturbance]_vars) =>
     \A w \in {w1, w2} : <>[](Serving /\ worker[w] \in {"listening", "stuck"})
=============================================================================
