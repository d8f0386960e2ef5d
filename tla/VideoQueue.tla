----------------------------- MODULE VideoQueue -----------------------------
(***************************************************************************)
(* The Postgres-as-queue protocol of the PRIMARY transcode: the `videos`   *)
(* rows, the EC2 Spot workers that claim and run them, the Lambda          *)
(* orchestrator that reaps and launches, and the API calls that move a     *)
(* row (complete, retry, cancel).                                          *)
(*                                                                         *)
(* One SQL statement (or one transaction) of db/queue.ts, db/queue-sql.ts  *)
(* or repositories/videos.repository.ts is one atomic step.  Everything a  *)
(* worker does between two statements interleaves with everybody else.     *)
(***************************************************************************)
EXTENDS Naturals, FiniteSets

CONSTANTS
  Videos,        \* row ids; a smaller number was created earlier (created_at)
  Workers,       \* EC2 instance ids (WORKER_ID); at most MAX_WORKERS of them
  MaxAttempts,   \* videos.max_attempts
  Divisor,       \* config.DIVISOR, queued videos per wanted worker
  NoWorker,      \* SQL NULL in locked_by
  NoVideo        \* null in the worker's local variables

ASSUME VideosAssumption == Videos \subseteq Nat
ASSUME LimitsAssumption == MaxAttempts \in Nat \ {0} /\ Divisor \in Nat \ {0}
ASSUME NullsAssumption  == NoWorker \notin Workers /\ NoVideo \notin Videos

VARIABLES
  (* the videos row *)
  status,     \* videos.status
  lockedBy,   \* videos.locked_by
  attempts,   \* videos.attempts
  silent,     \* heartbeat_at is older than 10 minutes
  overrun,    \* locked_at is older than 6 hours
  seeded,     \* how many times the row's video_jobs were inserted
  (* the worker process *)
  pc,         \* where the worker's main loop is
  held,       \* the `video` argument of runVideo
  stage,      \* the pipeline stage runPrimary is in
  aborted,    \* ac.signal.aborted
  releasing   \* shuttingDown: the claim whose release is in flight

rowVars    == <<status, lockedBy, attempts, silent, overrun, seeded>>
workerVars == <<pc, held, stage, aborted, releasing>>
vars       == <<rowVars, workerVars>>

Status == {"uploading", "uploaded", "processing", "ready", "failed", "cancelled"}

(* "exited" is process.exit after an interruption, "down" every other end. *)
PC    == {"down", "exited", "poll", "idle", "sweep",
          "claimed", "run", "finish", "fail"}
Stage == {"encode", "package", "upload"}

TypeOK ==
  /\ status   \in [Videos -> Status]
  /\ lockedBy \in [Videos -> Workers \cup {NoWorker}]
  /\ attempts \in [Videos -> Nat]
  /\ silent   \in [Videos -> BOOLEAN]
  /\ overrun  \in [Videos -> BOOLEAN]
  /\ seeded   \in [Videos -> Nat]
  /\ pc       \in [Workers -> PC]
  /\ held     \in [Workers -> Videos \cup {NoVideo}]
  /\ stage    \in [Workers -> Stage]
  /\ aborted  \in [Workers -> BOOLEAN]
  /\ releasing \in [Workers -> Videos \cup {NoVideo}]
-----------------------------------------------------------------------------
(* Rows and workers as the code's conditions see them.                     *)

InStatus(s) == {v \in Videos : status[v] = s}

(* The WHERE clause of every guarded statement of db/queue.ts. *)
Owns(w, v) == lockedBy[v] = w /\ status[v] = "processing"

Up(w) == pc[w] \notin {"down", "exited"}

(* shuttingDown is set: the main loop does not start another round. *)
Leaving(w) == releasing[w] # NoVideo

(* Between `currentClaim = {...}` and the `finally` that clears it. *)
InRunVideo(w) == pc[w] \in {"run", "finish", "fail"}

CurrentClaim(w) == IF InRunVideo(w) THEN held[w] ELSE NoVideo

NextStage == [encode |-> "package", package |-> "upload"]
-----------------------------------------------------------------------------
Init ==
  /\ status   = [v \in Videos |-> "uploading"]
  /\ lockedBy = [v \in Videos |-> NoWorker]
  /\ attempts = [v \in Videos |-> 0]
  /\ silent   = [v \in Videos |-> FALSE]
  /\ overrun  = [v \in Videos |-> FALSE]
  /\ seeded   = [v \in Videos |-> 0]
  /\ pc       = [w \in Workers |-> "down"]
  /\ held     = [w \in Workers |-> NoVideo]
  /\ stage    = [w \in Workers |-> "encode"]
  /\ aborted  = [w \in Workers |-> FALSE]
  /\ releasing = [w \in Workers |-> NoVideo]
-----------------------------------------------------------------------------
(* Definitions named Faulty... are the code with one plausible mistake in   *)
(* it.  No action uses them: they exist to show that a property can fail.  *)

(* locked_by=NULL, locked_at=NULL, heartbeat_at=NULL on the rows of S. *)
Unlock(S) ==
  /\ lockedBy' = [v \in Videos |-> IF v \in S THEN NoWorker ELSE lockedBy[v]]
  /\ silent'   = [v \in Videos |-> IF v \in S THEN FALSE ELSE silent[v]]
  /\ overrun'  = [v \in Videos |-> IF v \in S THEN FALSE ELSE overrun[v]]

(* CASE WHEN attempts >= max_attempts THEN 'failed' ELSE 'uploaded' END *)
Requeued(v) == IF attempts[v] >= MaxAttempts THEN "failed" ELSE "uploaded"
-----------------------------------------------------------------------------
(* The API: each call is one UPDATE whose WHERE clause is the guard.       *)

MarkUploaded(v) ==
  /\ status[v] = "uploading"
  /\ status' = [status EXCEPT ![v] = "uploaded"]
  /\ UNCHANGED <<lockedBy, attempts, silent, overrun, seeded, workerVars>>

Retry(v) ==
  /\ status[v] = "failed"
  /\ status'   = [status EXCEPT ![v] = "uploaded"]
  /\ attempts' = [attempts EXCEPT ![v] = 0]
  /\ Unlock({v})
  /\ UNCHANGED <<seeded, workerVars>>

(* cancel() leaves locked_by and the timestamps as they were. *)
Cancel(v) ==
  /\ status[v] \in {"uploading", "uploaded", "processing", "failed"}
  /\ status' = [status EXCEPT ![v] = "cancelled"]
  /\ UNCHANGED <<lockedBy, attempts, silent, overrun, seeded, workerVars>>
-----------------------------------------------------------------------------
(* The worker's guarded statements.  Each is a no-op on a row the worker   *)
(* does not own: 0 rows match.                                             *)

FaultyFailIgnoresStatus(w, v) ==
  IF lockedBy[v] = w
  THEN status' = [status EXCEPT ![v] = Requeued(v)] /\ Unlock({v}) /\ UNCHANGED <<attempts, seeded>>
  ELSE UNCHANGED rowVars

FaultyFailIgnoresOwner(w, v) ==
  IF status[v] = "processing"
  THEN status' = [status EXCEPT ![v] = Requeued(v)] /\ Unlock({v}) /\ UNCHANGED <<attempts, seeded>>
  ELSE UNCHANGED rowVars

FailOrRequeue(w, v) ==
  IF Owns(w, v)
  THEN /\ status' = [status EXCEPT ![v] = Requeued(v)]
       /\ Unlock({v})
       /\ UNCHANGED <<attempts, seeded>>
  ELSE UNCHANGED rowVars

FaultyReleaseIgnoresStatus(w, v) ==
  IF lockedBy[v] = w
  THEN /\ status'   = [status EXCEPT ![v] = "uploaded"]
       /\ attempts' = [attempts EXCEPT ![v] = @ - 1]
       /\ Unlock({v})
       /\ UNCHANGED seeded
  ELSE UNCHANGED rowVars

FaultyReleaseCharges(w, v) == FailOrRequeue(w, v)

ReleaseClaim(w, v) ==
  IF Owns(w, v)
  THEN /\ status'   = [status EXCEPT ![v] = "uploaded"]
       /\ attempts' = [attempts EXCEPT ![v] = @ - 1]
       /\ Unlock({v})
       /\ UNCHANGED seeded
  ELSE UNCHANGED rowVars

(* The flip and the INSERTs into video_jobs are one transaction. *)
MarkReadyAndEnqueue(w, v) ==
  IF Owns(w, v)
  THEN /\ status' = [status EXCEPT ![v] = "ready"]
       /\ seeded' = [seeded EXCEPT ![v] = @ + 1]
       /\ UNCHANGED <<lockedBy, attempts, silent, overrun>>
  ELSE UNCHANGED rowVars

Heartbeat(w, v) ==
  /\ silent' = [silent EXCEPT ![v] = IF Owns(w, v) THEN FALSE ELSE @]
  /\ UNCHANGED <<status, lockedBy, attempts, overrun, seeded>>
-----------------------------------------------------------------------------
(* The worker's main loop.                                                 *)

(* claimNext commits: the oldest 'uploaded' row becomes the worker's.  The *)
(* answer is still on its way, so currentClaim is still null.              *)
ClaimNext(w) ==
  /\ pc[w] \in {"poll", "idle"} /\ ~Leaving(w)
  /\ \E v \in InStatus("uploaded") :
       /\ \A u \in InStatus("uploaded") : v <= u
       /\ status'   = [status EXCEPT ![v] = "processing"]
       /\ lockedBy' = [lockedBy EXCEPT ![v] = w]
       /\ attempts' = [attempts EXCEPT ![v] = @ + 1]
       /\ silent'   = [silent EXCEPT ![v] = FALSE]
       /\ overrun'  = [overrun EXCEPT ![v] = FALSE]
       /\ held'     = [held EXCEPT ![w] = v]
  /\ pc' = [pc EXCEPT ![w] = "claimed"]
  /\ UNCHANGED <<seeded, stage, aborted, releasing>>

(* The answer arrives: runVideo sets currentClaim and starts the heartbeat. *)
StartRun(w) ==
  /\ pc[w] = "claimed"
  /\ pc' = [pc EXCEPT ![w] = "run"]
  /\ UNCHANGED <<rowVars, held, stage, aborted, releasing>>

(* The answer is lost: claimNext throws, run() logs it and polls again. *)
ClaimAnswerLost(w) ==
  /\ pc[w] = "claimed"
  /\ pc'   = [pc EXCEPT ![w] = "poll"]
  /\ held' = [held EXCEPT ![w] = NoVideo]
  /\ UNCHANGED <<rowVars, stage, aborted, releasing>>

(* claimNext found nothing: idleSince is set. *)
ClaimNothing(w) ==
  /\ pc[w] = "poll" /\ ~Leaving(w)
  /\ InStatus("uploaded") = {}
  /\ pc' = [pc EXCEPT ![w] = "idle"]
  /\ UNCHANGED <<rowVars, held, stage, aborted, releasing>>

(* IDLE_GRACE_MS passed: the final artifact sweep, at most five minutes, in  *)
(* which the queue is not looked at again.                                 *)
IdleGraceOver(w) ==
  /\ pc[w] = "idle" /\ ~Leaving(w)
  /\ pc' = [pc EXCEPT ![w] = "sweep"]
  /\ UNCHANGED <<rowVars, held, stage, aborted, releasing>>

SelfTerminate(w) ==
  /\ pc[w] = "sweep"
  /\ pc' = [pc EXCEPT ![w] = "down"]
  /\ UNCHANGED <<rowVars, held, stage, aborted, releasing>>

(* The periodic heartbeat: 0 rows means the claim is lost. *)
PeriodicBeat(w) ==
  /\ pc[w] = "run"
  /\ Heartbeat(w, held[w])
  /\ aborted' = [aborted EXCEPT ![w] = @ \/ ~Owns(w, held[w])]
  /\ UNCHANGED <<pc, held, stage, releasing>>

(* A stage boundary: hb.update persists the stage, then the abort check.   *)
Boundary(w) ==
  /\ pc[w] = "run" /\ stage[w] # "upload"
  /\ Heartbeat(w, held[w])
  /\ LET lost == aborted[w] \/ ~Owns(w, held[w])
     IN  /\ aborted' = [aborted EXCEPT ![w] = lost]
         /\ pc'      = [pc EXCEPT ![w] = IF lost THEN "fail" ELSE "run"]
         /\ stage'   = [stage EXCEPT ![w] = IF lost THEN @ ELSE NextStage[@]]
  /\ UNCHANGED <<held, releasing>>

(* The last PUT was acknowledged: runPrimary returns, hb.stop(). *)
UploadDone(w) ==
  /\ pc[w] = "run" /\ stage[w] = "upload"
  /\ pc' = [pc EXCEPT ![w] = "finish"]
  /\ UNCHANGED <<rowVars, held, stage, aborted, releasing>>

(* A tool, an upload or a statement throws: runVideo's catch, hb.stop(). *)
RunThrows(w) ==
  /\ pc[w] = "run"
  /\ pc' = [pc EXCEPT ![w] = "fail"]
  /\ UNCHANGED <<rowVars, held, stage, aborted, releasing>>

(* The abort signal SIGKILLs the child process (or aborts the PUT), which  *)
(* throws whatever the child was doing.                                    *)
AbortKills(w) == aborted[w] /\ RunThrows(w)

(* The run's locals, its Heartbeat and its AbortController are dropped. *)
EndOfRun(w) ==
  /\ held'    = [held EXCEPT ![w] = NoVideo]
  /\ stage'   = [stage EXCEPT ![w] = "encode"]
  /\ aborted' = [aborted EXCEPT ![w] = FALSE]

(* runVideo returns; a worker that is leaving does not loop again. *)
EndRunVideo(w) ==
  /\ pc'   = [pc EXCEPT ![w] = "poll"]
  /\ EndOfRun(w)
  /\ UNCHANGED releasing

FinishRun(w) ==
  /\ pc[w] = "finish"
  /\ MarkReadyAndEnqueue(w, held[w])
  /\ EndRunVideo(w)

(* markReadyAndEnqueue throws, with or without its commit: runVideo's catch. *)
FinishThrows(w) ==
  /\ pc[w] = "finish"
  /\ MarkReadyAndEnqueue(w, held[w]) \/ UNCHANGED rowVars
  /\ pc' = [pc EXCEPT ![w] = "fail"]
  /\ UNCHANGED <<held, stage, aborted, releasing>>

(* The catch block; a failOrRequeue that throws is logged and forgotten. *)
FailRun(w) ==
  /\ pc[w] = "fail"
  /\ FailOrRequeue(w, held[w])
  /\ EndRunVideo(w)

FailRunThrows(w) ==
  /\ pc[w] = "fail"
  /\ UNCHANGED rowVars
  /\ EndRunVideo(w)
-----------------------------------------------------------------------------
(* Interruption, crash and replacement.                                    *)

(* releaseAndExit, its synchronous part: with no current claim it exits at *)
(* once; otherwise the release statement is sent and the run goes on.      *)
Interrupt(w) ==
  /\ Up(w) /\ ~Leaving(w)
  /\ IF CurrentClaim(w) = NoVideo
     THEN /\ pc'   = [pc EXCEPT ![w] = "exited"]
          /\ held' = [held EXCEPT ![w] = NoVideo]
          /\ UNCHANGED releasing
     ELSE /\ releasing' = [releasing EXCEPT ![w] = CurrentClaim(w)]
          /\ UNCHANGED <<pc, held>>
  /\ UNCHANGED <<rowVars, stage, aborted>>

Gone(w, how) ==
  /\ pc'        = [pc EXCEPT ![w] = how]
  /\ releasing' = [releasing EXCEPT ![w] = NoVideo]
  /\ EndOfRun(w)

(* The release statement commits, and process.exit. *)
ReleaseAndExit(w) ==
  /\ Leaving(w)
  /\ ReleaseClaim(w, releasing[w])
  /\ Gone(w, "exited")

(* The instance disappears: hard kill, reclaim, fatal error, or a release  *)
(* that throws before process.exit.                                        *)
Crash(w) ==
  /\ Up(w)
  /\ Gone(w, "down")
  /\ UNCHANGED rowVars

(* The orchestrator's plan(): spare are the running instances beyond one    *)
(* for each 'processing' row, need is the queue over DIVISOR.              *)
Running == Cardinality({w \in Workers : Up(w)})
Spare(running) ==
  LET busy == Cardinality(InStatus("processing"))
  IN  IF running > busy THEN running - busy ELSE 0
Need    == (Cardinality(InStatus("uploaded")) + Divisor - 1) \div Divisor

(* One instance of the toLaunch = min(need - spare, maxW - running) ones. *)
Launch(w, running) ==
  /\ ~Up(w)
  /\ Need > Spare(running)
  /\ pc' = [pc EXCEPT ![w] = "poll"]
  /\ UNCHANGED <<rowVars, held, stage, aborted, releasing>>

(* countRunningWorkers can miss instances: a booting one, one whose role    *)
(* tag is not visible yet, one that an overlapping tick is launching.      *)
LaunchWorker(w) == \E running \in 0 .. Running : Launch(w, running)
-----------------------------------------------------------------------------
(* Time and the reaper.                                                    *)

(* Ten minutes without a heartbeat: nobody beats for the row, or its       *)
(* worker's heartbeats all throw (a database partition, not a lost claim). *)
HeartbeatExpires(v) ==
  /\ status[v] = "processing" /\ ~silent[v]
  /\ silent' = [silent EXCEPT ![v] = TRUE]
  /\ UNCHANGED <<status, lockedBy, attempts, overrun, seeded, workerVars>>

LockExpires(v) ==
  /\ status[v] = "processing" /\ ~overrun[v]
  /\ overrun' = [overrun EXCEPT ![v] = TRUE]
  /\ UNCHANGED <<status, lockedBy, attempts, silent, seeded, workerVars>>

FaultyStaleOnlySilent(v) == status[v] = "processing" /\ silent[v]
Stale(v) == status[v] = "processing" /\ (silent[v] \/ overrun[v])

(* REAP_SQL: one statement over every stale row. *)
Reap ==
  /\ \E v \in Videos : Stale(v)
  /\ status'   = [v \in Videos |-> IF Stale(v) THEN Requeued(v) ELSE status[v]]
  /\ Unlock({v \in Videos : Stale(v)})
  /\ UNCHANGED <<attempts, seeded, workerVars>>
-----------------------------------------------------------------------------
ApiStep(v) == MarkUploaded(v) \/ Retry(v) \/ Cancel(v)

RunStep(w) ==
  \/ PeriodicBeat(w) \/ Boundary(w) \/ UploadDone(w) \/ RunThrows(w)
  \/ FinishRun(w) \/ FinishThrows(w) \/ FailRun(w) \/ FailRunThrows(w)

LoopStep(w) ==
  \/ ClaimNext(w) \/ StartRun(w) \/ ClaimAnswerLost(w) \/ ClaimNothing(w)
  \/ IdleGraceOver(w) \/ SelfTerminate(w)

InstanceStep(w) ==
  Interrupt(w) \/ ReleaseAndExit(w) \/ Crash(w) \/ LaunchWorker(w)

TimeStep(v) == HeartbeatExpires(v) \/ LockExpires(v)

Next ==
  \/ \E v \in Videos : ApiStep(v) \/ TimeStep(v)
  \/ \E w \in Workers : RunStep(w) \/ LoopStep(w) \/ InstanceStep(w)
  \/ Reap

Spec == Init /\ [][Next]_vars
-----------------------------------------------------------------------------
(* Properties.                                                             *)

(* The attempt budget the whole queue relies on, across every path that    *)
(* charges (claim), refunds (release), resets (retry) or spends it (fail,  *)
(* reap): a claimable row always has an attempt left, a claimed row has    *)
(* been charged for its claim, and only an exhausted row is 'failed'.      *)
AttemptsWithinBudget ==
  \A v \in Videos :
    /\ status[v] = "uploading"  => attempts[v] = 0
    /\ status[v] = "uploaded"   => attempts[v] < MaxAttempts
    /\ status[v] \in {"processing", "ready"} => attempts[v] \in 1 .. MaxAttempts
    /\ status[v] = "failed"     => attempts[v] = MaxAttempts
    /\ status[v] = "cancelled"  => attempts[v] <= MaxAttempts

(* "we never flip 'ready' without queueing the follow-up work, nor queue   *)
(* work for a row we lost": the background jobs of a video are inserted    *)
(* exactly once, with the flip, however many workers ran the video.        *)
JobsSeededOnceWithReady ==
  \A v \in Videos : seeded[v] = IF status[v] = "ready" THEN 1 ELSE 0

(* A row waiting for a worker carries no lock and a claimed row carries    *)
(* the lock of a real worker, so that every guarded statement matches the  *)
(* claim it was meant for.                                                 *)
LocksMatchStatus ==
  \A v \in Videos :
    /\ status[v] \in {"uploading", "uploaded", "failed"} => lockedBy[v] = NoWorker
    /\ status[v] = "processing" => lockedBy[v] \in Workers

(* cancel(): "nothing resurrects or clobbers the cancelled row", although  *)
(* cancel leaves locked_by behind and the worker keeps running; a ready    *)
(* row is final for this queue as well.                                    *)
TerminalRowsStay ==
  [][\A v \in Videos :
       status[v] \in {"cancelled", "ready"} =>
         status'[v] = status[v] /\ seeded'[v] = seeded[v]]_vars

(* "a worker that lost its claim to the reaper can never clobber a job     *)
(* another worker now owns": a claim ends only by a cancel, by the reaper  *)
(* once its lock is stale, which moves no worker, or by a step that its    *)
(* owner takes and nobody else, on the row it runs or releases; and the    *)
(* owner makes the row ready at the end of a complete run only.            *)
ClaimEndsByOwnerReaperOrCancel ==
  [][\A v \in Videos :
       status[v] = "processing" /\ (status'[v] # "processing" \/ lockedBy'[v] # lockedBy[v]) =>
         \/ status'[v] = "cancelled"
         \/ Stale(v) /\ status'[v] = Requeued(v) /\ UNCHANGED workerVars
         \/ /\ v \in {held[lockedBy[v]], releasing[lockedBy[v]]}
            /\ pc'[lockedBy[v]] # pc[lockedBy[v]]
            /\ status'[v] = "ready" => pc[lockedBy[v]] = "finish"
            /\ \A w \in Workers \ {lockedBy[v]} :
                 UNCHANGED <<pc[w], held[w], releasing[w]>>]_vars

(* The row goes back to the queue, or to 'failed', and keeps its charge.   *)
Charged(v) ==
  /\ status[v] = "processing" /\ status'[v] \in {"uploaded", "failed"}
  /\ attempts'[v] >= attempts[v]

(* releaseAndExit hands the claim in hand back while the run goes on.  When *)
(* the worker exits, a row it still owns is 'uploaded' with its attempt    *)
(* refunded, no other row is refunded, and no row that it ran or claimed   *)
(* meanwhile stays 'processing' in its name.  Until then the row of the    *)
(* release is charged only by the reaper once it is stale, or by the catch *)
(* block of the run itself: a run that throws before the release commits   *)
(* does pay, so the interruption is free of penalty in the other cases     *)
(* only.                                                                   *)
InterruptionReturnsTheRun ==
  [][\A w \in Workers :
       /\ Leaving(w) /\ pc'[w] = "exited" =>
            /\ \A v \in Videos :
                 IF v = releasing[w] /\ Owns(w, v)
                 THEN status'[v] = "uploaded" /\ attempts'[v] = attempts[v] - 1
                 ELSE attempts'[v] >= attempts[v]
            /\ \A v \in Videos \cap {held[w], releasing[w]} :
                 ~(status'[v] = "processing" /\ lockedBy'[v] = w)
       /\ \A v \in Videos :
            v = releasing[w] /\ Owns(w, v) /\ Charged(v) =>
              \/ Stale(v) /\ UNCHANGED workerVars
              \/ held[w] = v /\ pc[w] = "fail" /\ pc'[w] = "poll"]_vars
-----------------------------------------------------------------------------
(* What the queue promises, and the mapping under which it keeps it.       *)
Lifecycle == INSTANCE VideoLifecycle WITH
  Budget   <- MaxAttempts,
  phase    <- status,
  left     <- [v \in Videos |-> MaxAttempts - attempts[v]],
  followUp <- {v \in Videos : seeded[v] > 0}

(* Workers, locks, heartbeats, reaper and interruptions together do no     *)
(* more than the lifecycle allows.                                         *)
ImplementsLifecycle == Lifecycle!Spec
=============================================================================
