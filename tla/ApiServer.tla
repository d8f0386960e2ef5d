----------------------------- MODULE ApiServer -----------------------------
(***************************************************************************)
(* The processes of the API: a master that forks a worker per CPU, replaces  *)
(* the dead, and at SIGTERM kills its workers and itself after 30 s; workers *)
(* that first look for the database, then listen, and at SIGTERM drain; and  *)
(* the requests they serve, whose statements share the pool of a worker.     *)
(*                                                                         *)
(* Master and workers do not agree on a shutdown: the master goes on forking *)
(* replacements, which listen beside the ones that drain.                    *)
(***************************************************************************)
EXTENDS Naturals, FiniteSets

CONSTANTS
  Workers,    \* the slots of the cluster
  Requests,   \* each is sent once
  Attempts,   \* of waitForDBConnection
  PoolMax     \* connections of a worker

ApiAssumption == Attempts \in Nat \ {0} /\ PoolMax \in Nat \ {0}

VARIABLES
  master,    \* "up", "stopping" (its timer is armed), "gone"
  database,  \* it accepts connections
  worker,    \* of each slot, what its process does, or "none"
  tries,     \* connects that failed since it was forked
  request,   \* how far each has come
  server     \* the worker that accepted it

vars == <<master, database, worker, tries, request, server>>

(* "stuck": its promise was rejected, which is logged, and only the channel  *)
(* to the master keeps it alive.  "closing": the pool, after the server.     *)
Processes == {"none", "connecting", "stuck", "listening", "draining", "closing"}

(* "waiting" for a connection of the pool, "querying" with one.  "served" is  *)
(* an answer of the handler, a refusal too; "error" a 500; "cut" none.       *)
Progress  == {"unsent", "accepted", "waiting", "querying", "served", "error", "cut"}
InFlight(r) == request[r] \in {"accepted", "waiting", "querying"}
At(w)       == {r \in Requests : InFlight(r) /\ server[r] = w}

TypeOK ==
  /\ master \in {"up", "stopping", "gone"} /\ database \in BOOLEAN
  /\ worker \in [Workers -> Processes] /\ tries \in [Workers -> 0 .. Attempts]
  /\ request \in [Requests -> Progress] /\ server \in [Requests -> Workers]

Init ==
  /\ master = "up" /\ database \in BOOLEAN
  /\ worker = [w \in Workers |-> "connecting"] /\ tries = [w \in Workers |-> 0]
  /\ request = [r \in Requests |-> "unsent"] /\ server \in [Requests -> Workers]
-----------------------------------------------------------------------------
(* Processes.  Definitions named Faulty... are the code with one plausible   *)
(* mistake in it; no action uses them.                                      *)

Exits(w) ==
  /\ worker' = [worker EXCEPT ![w] = "none"]
  /\ request' = [r \in Requests |-> IF r \in At(w) THEN "cut" ELSE request[r]]
  /\ UNCHANGED <<database, tries, server>>

FaultyFork(w) ==
  /\ \A x \in Workers : worker[x] = "none"
  /\ master # "gone"
  /\ worker' = [worker EXCEPT ![w] = "connecting"]
  /\ tries'  = [tries EXCEPT ![w] = 0]
  /\ UNCHANGED <<master, database, request, server>>

(* cluster.on("exit"), which does not ask whether the master is stopping.    *)
Fork(w) ==
  /\ worker[w] = "none" /\ master # "gone"
  /\ worker' = [worker EXCEPT ![w] = "connecting"]
  /\ tries'  = [tries EXCEPT ![w] = 0]
  /\ UNCHANGED <<master, database, request, server>>

(* waitForDBConnection, then listen. *)
Connect(w) ==
  /\ worker[w] = "connecting"
  /\ \/ database /\ worker' = [worker EXCEPT ![w] = "listening"] /\ UNCHANGED tries
     \/ /\ ~database
        /\ tries'  = [tries EXCEPT ![w] = @ + 1]
        /\ worker' = [worker EXCEPT ![w] = IF tries'[w] = Attempts THEN "stuck" ELSE @]
  /\ UNCHANGED <<master, database, request, server>>

FaultyAtSigterm(process) == IF process = "listening" THEN "closing" ELSE process

(* A process has handlers only once it listens; one that drains goes on.     *)
AtSigterm(process) ==
  CASE process \in {"connecting", "stuck"} -> "none"
    [] process = "listening"               -> "draining"
    [] OTHER                               -> process

(* Somebody stops one worker. *)
StopWorker(w) ==
  /\ worker' = [worker EXCEPT ![w] = AtSigterm(@)]
  /\ UNCHANGED <<master, database, tries, request, server>>

(* shutdownMaster: all that live now. *)
StopMaster ==
  /\ master = "up" /\ master' = "stopping"
  /\ worker' = [w \in Workers |-> AtSigterm(worker[w])]
  /\ UNCHANGED <<database, tries, request, server>>

(* server.close, and its callback closes the pool. *)
Drained(w) ==
  /\ worker[w] = "draining" /\ At(w) = {}
  /\ worker' = [worker EXCEPT ![w] = "closing"]
  /\ UNCHANGED <<master, database, tries, request, server>>

PoolEnds(w) == worker[w] = "closing" /\ UNCHANGED master /\ Exits(w)

(* SHUTDOWN_TIMEOUT, in a worker and in the master. *)
WorkerTimeout(w) == worker[w] \in {"draining", "closing"} /\ UNCHANGED master /\ Exits(w)

FaultyMasterTimeout ==
  /\ master = "stopping" /\ master' = "gone"
  /\ \A w \in Workers : worker[w] = "none"
  /\ UNCHANGED <<database, worker, tries, request, server>>

MasterTimeout ==
  /\ master = "stopping" /\ master' = "gone"
  /\ UNCHANGED <<database, worker, tries, request, server>>

(* Killed, or out of memory. *)
Crash(w) == worker[w] # "none" /\ UNCHANGED master /\ Exits(w)

MasterCrash ==
  /\ master # "gone" /\ master' = "gone"
  /\ UNCHANGED <<database, worker, tries, request, server>>

(* Node ends a worker that has lost its master. *)
Disconnect(w) == master = "gone" /\ worker[w] # "none" /\ UNCHANGED master /\ Exits(w)

(* A failover begins or ends. *)
DatabaseMoves ==
  /\ database' = ~database
  /\ UNCHANGED <<master, worker, tries, request, server>>

ProcessStep ==
  \/ StopMaster \/ MasterTimeout \/ MasterCrash \/ DatabaseMoves
  \/ \E w \in Workers :
       \/ Fork(w) \/ Connect(w) \/ StopWorker(w) \/ Drained(w) \/ PoolEnds(w)
       \/ WorkerTimeout(w) \/ Crash(w) \/ Disconnect(w)
-----------------------------------------------------------------------------
(* Requests.                                                               *)

Comes(r, progress) ==
  /\ request' = [request EXCEPT ![r] = progress]
  /\ UNCHANGED <<master, database, worker, tries>>

(* The master gives the connection to one that listens. *)
Accept(r) ==
  /\ request[r] = "unsent"
  /\ \E w \in Workers : worker[w] = "listening" /\ server' = [server EXCEPT ![r] = w]
  /\ Comes(r, "accepted")

(* A middleware or the controller refuses it, or it needs no database.       *)
Refuse(r) == request[r] = "accepted" /\ UNCHANGED server /\ Comes(r, "served")

Ask(r) == request[r] = "accepted" /\ UNCHANGED server /\ Comes(r, "waiting")

InUse(w) == {r \in At(w) : request[r] = "querying"}

Acquire(r) ==
  /\ request[r] = "waiting" /\ database
  /\ worker[server[r]] # "closing" /\ Cardinality(InUse(server[r])) < PoolMax
  /\ UNCHANGED server /\ Comes(r, "querying")

(* A statement answers: the last one of the handler, or not. *)
LastStatement(r) == request[r] = "querying" /\ database /\ UNCHANGED server /\ Comes(r, "served")
NextStatement(r) == request[r] = "querying" /\ database /\ UNCHANGED server /\ Comes(r, "waiting")

(* No connection in connectionTimeoutMillis, no answer in statement_timeout, *)
(* or the database refuses: asyncHandler hands the error to globalHandler.   *)
Throw(r) ==
  /\ request[r] \in {"waiting", "querying"}
  /\ UNCHANGED server /\ Comes(r, "error")

RequestStep ==
  \E r \in Requests :
    \/ Accept(r) \/ Refuse(r) \/ Ask(r) \/ Acquire(r)
    \/ LastStatement(r) \/ NextStatement(r) \/ Throw(r)

Next == ProcessStep \/ RequestStep

Spec == Init /\ [][Next]_vars

(* Timers fire, processes go on, and a statement answers or throws.          *)
Fairness ==
  /\ WF_vars(MasterTimeout)
  /\ \A w \in Workers :
       /\ WF_vars(Fork(w)) /\ WF_vars(Connect(w)) /\ WF_vars(Drained(w)) /\ WF_vars(PoolEnds(w))
       /\ WF_vars(WorkerTimeout(w)) /\ WF_vars(Disconnect(w))
  /\ \A r \in Requests :
       WF_vars(Refuse(r) \/ Ask(r)) /\ WF_vars(Throw(r)) /\ SF_vars(LastStatement(r) \/ Throw(r))

FairSpec == Spec /\ Fairness
-----------------------------------------------------------------------------
(* Properties.                                                             *)

(* "draining": a request that was accepted and not answered yet belongs to a *)
(* worker that goes on with its pool, whoever was stopped, and never to the   *)
(* process that has taken its slot.                                         *)
DrainAnswers ==
  \A r \in Requests : InFlight(r) => worker[server[r]] \in {"listening", "draining"}

(* A shutdown ends, with every process gone, although each worker that dies   *)
(* of it is replaced.                                                       *)
ShutdownEnds ==
  master = "stopping" ~> (master = "gone" /\ \A w \in Workers : worker[w] = "none")

(* While the master lives, every slot comes back to listen after a crash or  *)
(* a stop, once the database stays reachable and nobody stops it again; but  *)
(* for one whose attempts ran out before: it neither listens nor dies.       *)
Disturbance == DatabaseMoves \/ StopMaster \/ MasterCrash \/ \E w \in Workers : StopWorker(w) \/ Crash(w)

StrengthRestored ==
  (<>[](database /\ master = "up") /\ <>[][~Disturbance]_vars) =>
     \A w \in Workers : <>[](worker[w] \in {"listening", "stuck"})
=============================================================================
