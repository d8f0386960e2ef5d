----------------------------- MODULE SinglePool -----------------------------
(***************************************************************************)
(* One pool of workers drains both queues (no JOBS_LAUNCH_TEMPLATE_NAME,    *)
(* WORKER_MODE=all): a round of the main loop asks for a video and, when    *)
(* there is none, for a job; the plan of the orchestrator sums the queues.  *)
(* VideoQueue is the video half of the worker, an instance of JobQueue the  *)
(* job half, and a video's end in the one is the beginning of the other.    *)
(*                                                                         *)
(* pc is where the main loop is: "poll" before claimNext, "idle" after it   *)
(* found nothing.  jobPc is "poll" before claimNextJob, and "idle" after it *)
(* found nothing either.                                                   *)
(***************************************************************************)
EXTENDS VideoQueue

CONSTANTS Kinds, MaxJobAttempts, NoJob

VARIABLES
  artifact, inR2,                                  \* of JobQueue: the videos row
  job, jobLockedBy, jobAttempts, jobAge,           \* the video_jobs row
  jobPc, jobHeld, jobAborted, jobReleasing         \* the worker

jobRowVars    == <<artifact, inR2, job, jobLockedBy, jobAttempts, jobAge>>
jobWorkerVars == <<jobPc, jobHeld, jobAborted, jobReleasing>>
jobVars       == <<jobRowVars, jobWorkerVars>>
poolVars      == <<vars, jobVars>>

(* videos.status, as the statements on video_jobs look at it. *)
JobsSee == [v \in Videos |-> IF status[v] \in {"ready", "cancelled"} THEN status[v] ELSE "processing"]

J == INSTANCE JobQueue WITH
  MaxAttempts <- MaxJobAttempts, video <- JobsSee,
  lockedBy <- jobLockedBy, attempts <- jobAttempts, age <- jobAge,
  pc <- jobPc, held <- jobHeld, aborted <- jobAborted, releasing <- jobReleasing

ASSUME JobsAssumption ==
  "DOWNLOAD" \in Kinds /\ MaxJobAttempts \in Nat \ {0} /\ NoJob \notin J!Jobs

PoolInit == Init /\ J!Init

PoolLeaving(w) == Leaving(w) \/ J!Leaving(w)
-----------------------------------------------------------------------------
(* The rows.                                                               *)

(* markReadyAndEnqueue is the last step of the one half and the first of the *)
(* other.                                                                  *)
Finish(w) ==
  /\ FinishRun(w) \/ FinishThrows(w)
  /\ \A v \in Videos :
       IF status[v] # "ready" /\ status'[v] = "ready" THEN J!MarkReadyAndEnqueue(v) ELSE TRUE
  /\ status' = status => UNCHANGED jobVars

(* The tenant-admin service retires a ready video. *)
Retire(v) ==
  /\ status[v] = "ready"
  /\ status' = [status EXCEPT ![v] = "cancelled"]
  /\ UNCHANGED <<lockedBy, attempts, silent, overrun, seeded, workerVars>>
  /\ J!RetireVideo(v)

RowStep ==
  \/ \E v \in Videos : (ApiStep(v) \/ TimeStep(v)) /\ UNCHANGED jobVars
  \/ Reap /\ UNCHANGED jobVars
  \/ \E v \in Videos : Retire(v)

JobRowStep ==
  /\ UNCHANGED vars
  /\ \/ J!TickStep
     \/ \E j \in J!Jobs : J!HeartbeatExpires(j) \/ J!LockExpires(j)
-----------------------------------------------------------------------------
(* The main loop.                                                          *)

(* claimNext, or the end of a run. *)
VideoLoopStep(w) ==
  /\ \/ ~J!Leaving(w) /\ pc[w] = "poll" /\ (ClaimNext(w) \/ ClaimNothing(w))
     \/ StartRun(w)
     \/ PeriodicBeat(w) \/ Boundary(w) \/ UploadDone(w) \/ RunThrows(w)
     \/ FailRun(w) \/ FailRunThrows(w)
  /\ UNCHANGED jobVars

(* claimNext throws, before or after its commit: run() logs it, and asks for *)
(* a job.                                                                  *)
ClaimThrows(w) ==
  /\ ~PoolLeaving(w) /\ pc[w] \in {"poll", "claimed"}
  /\ pc'   = [pc EXCEPT ![w] = "idle"]
  /\ held' = [held EXCEPT ![w] = NoVideo]
  /\ UNCHANGED <<rowVars, stage, aborted, releasing, jobVars>>

AskForJob(w) ==
  /\ pc[w] = "idle" /\ jobPc[w] = "poll"
  /\ UNCHANGED vars
  /\ J!ClaimNextJob(w) \/ J!ClaimNothing(w)

InJobStep(w) ==
  /\ UNCHANGED vars
  /\ \/ J!StartJob(w) \/ J!SetArtifactProcessing(w) \/ J!WorkDone(w) \/ J!PutLands(w)
     \/ J!PutDone(w) \/ J!MarkArtifactReady(w) \/ J!JobThrows(w) \/ J!FinishThrows(w)
     \/ J!PeriodicBeat(w)

(* The next round begins: after runBackgroundJob, or a claimNextJob that     *)
(* threw, ... *)
Again(w) == pc' = [pc EXCEPT ![w] = "poll"] /\ UNCHANGED <<rowVars, held, stage, aborted, releasing>>

EndJob(w) ==
  /\ Again(w)
  /\ J!FinishJob(w) \/ J!FailJob(w) \/ J!FailJobThrows(w) \/ J!ClaimAnswerLost(w)

(* ... or after POLL_MS. *)
NextRound(w) ==
  /\ pc[w] = "idle" /\ jobPc[w] = "idle" /\ ~PoolLeaving(w)
  /\ Again(w)
  /\ jobPc' = [jobPc EXCEPT ![w] = "poll"]
  /\ UNCHANGED <<jobRowVars, jobHeld, jobAborted, jobReleasing>>

(* IDLE_GRACE_MS of rounds that found nothing. *)
IdleOver(w) ==
  /\ jobPc[w] = "idle" /\ IdleGraceOver(w) /\ UNCHANGED jobVars

Terminate(w) == SelfTerminate(w) /\ J!SelfTerminate(w)

LoopOfBoth(w) ==
  \/ VideoLoopStep(w) \/ Finish(w) \/ ClaimThrows(w) \/ AskForJob(w) \/ InJobStep(w)
  \/ EndJob(w) \/ NextRound(w) \/ IdleOver(w) \/ Terminate(w)
-----------------------------------------------------------------------------
(* Interruption, crash and replacement.                                    *)

FaultyInterruptPool(w) ==
  /\ ~PoolLeaving(w)
  /\ IF InRunVideo(w)
     THEN Interrupt(w) /\ UNCHANGED jobVars
     ELSE Interrupt(w) /\ J!Gone(w) /\ UNCHANGED jobRowVars

(* "hands back the RIGHT claim": currentClaim has a type. *)
InterruptPool(w) ==
  /\ ~PoolLeaving(w)
  /\ CASE InRunVideo(w) -> Interrupt(w) /\ UNCHANGED jobVars
       [] J!InJob(w)    -> UNCHANGED vars /\ J!Interrupt(w)
       [] OTHER         -> Interrupt(w) /\ J!Interrupt(w)

ReleaseAndExitPool(w) ==
  \/ ReleaseAndExit(w) /\ J!Gone(w) /\ UNCHANGED jobRowVars
  \/ Gone(w, "exited") /\ UNCHANGED rowVars /\ J!ReleaseAndExit(w)

CrashPool(w) == Crash(w) /\ J!Crash(w)

FaultyPoolNeed == Need

(* The plan for one pool: the sums of what the two counts said. *)
Queued  == Cardinality(InStatus("uploaded")) + Cardinality(J!InStatus("queued"))
Working == Cardinality(InStatus("processing")) + Cardinality(J!InStatus("processing"))
PoolNeed == (Queued + Divisor - 1) \div Divisor
PoolSpare(running) == IF running > Working THEN running - Working ELSE 0

LaunchPool(w, running) ==
  /\ ~Up(w)
  /\ PoolNeed > PoolSpare(running)
  /\ pc'    = [pc EXCEPT ![w] = "poll"]
  /\ jobPc' = [jobPc EXCEPT ![w] = "poll"]
  /\ UNCHANGED <<rowVars, held, stage, aborted, releasing>>
  /\ UNCHANGED <<jobRowVars, jobHeld, jobAborted, jobReleasing>>

PoolInstanceStep(w) ==
  \/ InterruptPool(w) \/ ReleaseAndExitPool(w) \/ CrashPool(w)
  \/ \E running \in 0 .. Running : LaunchPool(w, running)

PoolNext ==
  \/ RowStep \/ JobRowStep
  \/ \E w \in Workers : LoopOfBoth(w) \/ PoolInstanceStep(w)

PoolSpec == PoolInit /\ [][PoolNext]_poolVars

(* The event loop of a worker runs: its timer fires and reaches the database *)
(* again, an abort kills the child.                                        *)
TimerFairness ==
  \A w \in Workers :
    /\ WF_poolVars(PeriodicBeat(w) /\ UNCHANGED jobVars)
    /\ WF_poolVars(UNCHANGED vars /\ J!PeriodicBeat(w))
    /\ WF_poolVars(AbortKills(w) /\ UNCHANGED jobVars)
    /\ WF_poolVars(UNCHANGED vars /\ J!AbortKills(w))

PoolAbortSpec == PoolSpec /\ TimerFairness

(* Six hours pass, and the cron runs its statements every minute. *)
CronFairness ==
  /\ \A v \in Videos : WF_poolVars(LockExpires(v) /\ UNCHANGED jobVars)
  /\ \A j \in J!Jobs : WF_poolVars(UNCHANGED vars /\ J!LockExpires(j))
  /\ WF_poolVars(Reap /\ UNCHANGED jobVars)
  /\ WF_poolVars(UNCHANGED vars /\ J!TickStep)

(* A statement answers or throws, and the loop goes round.  A claim may throw *)
(* again and again, but not for ever.                                      *)
LoopFairnessOfBoth ==
  \A w \in Workers :
    /\ SF_poolVars(ClaimNext(w) /\ UNCHANGED jobVars)
    /\ SF_poolVars(UNCHANGED vars /\ J!ClaimNextJob(w))
    /\ WF_poolVars(ClaimThrows(w) \/ ((StartRun(w) \/ ClaimNothing(w)) /\ UNCHANGED jobVars))
    /\ WF_poolVars(AskForJob(w))
    /\ WF_poolVars(NextRound(w) \/ IdleOver(w)) /\ WF_poolVars(Terminate(w))
    /\ WF_poolVars(Finish(w) \/ ((FailRun(w) \/ FailRunThrows(w)) /\ UNCHANGED jobVars))
    /\ WF_poolVars(EndJob(w) \/ (UNCHANGED vars /\ (J!StartJob(w) \/ J!FinishThrows(w))))
    /\ WF_poolVars(UNCHANGED vars /\ J!ArtifactStatement(w))
    /\ WF_poolVars(ReleaseAndExitPool(w))
    /\ WF_poolVars(LaunchPool(w, Running))
-----------------------------------------------------------------------------
(* Properties.                                                             *)

(* "so the Spot/SIGTERM path hands back the RIGHT claim": a worker that      *)
(* leaves after an interruption leaves neither a video nor a job that it ran *)
(* 'processing' in its name, whichever half of the loop the notice met.     *)
RightClaimReturned ==
  [][\A w \in Workers :
       Up(w) /\ pc'[w] = "exited" =>
         /\ InRunVideo(w) => ~(status'[held[w]] = "processing" /\ lockedBy'[held[w]] = w)
         /\ J!InJob(w)    => ~(job'[jobHeld[w]] = "processing" /\ jobLockedBy'[jobHeld[w]] = w)]_poolVars

(* "SIGKILLs the in-flight ffmpeg within one heartbeat interval": a run      *)
(* whose row was cancelled, reaped or claimed again stops, and so does a job *)
(* whose video was retired, even when its encoder would never end and nobody *)
(* reaps it.                                                               *)
LostWorkStops ==
  \A w \in Workers :
    /\ (pc[w] = "run" /\ ~Owns(w, held[w])) ~> pc[w] # "run"
    /\ \A j \in J!Jobs :
         (jobPc[w] = "work" /\ jobHeld[w] = j /\ (J!Cancelled(j) \/ ~J!Owns(w, j)))
            ~> ~(jobPc[w] = "work" /\ jobHeld[w] = j)

(* The cron alone gets every claim of either queue out of 'processing',      *)
(* whatever workers do: hang, crash, lose the answer of their claim.        *)
ClaimsEnd ==
  CronFairness =>
    /\ \A v \in Videos : status[v] = "processing" ~> status[v] # "processing"
    /\ \A j \in J!Jobs : job[j] = "processing" ~> job[j] # "processing"

(* What would keep a queue waiting for ever: refunds, resets, and workers    *)
(* that keep dying between two claims.                                      *)
PoolSetback ==
  \/ \E v \in Videos : Retry(v)
  \/ \E w \in Workers :
       \/ InterruptPool(w)
       \/ /\ pc[w] \in {"poll", "idle", "sweep"} /\ jobPc[w] \in {"poll", "idle"}
          /\ CrashPool(w)

(* A video that is queued is settled in the end, and what it brings is: the  *)
(* dashboard stays neither on "Queued" nor on "preparing", although videos   *)
(* go first, every worker does both, the plan sums the two queues, and hung  *)
(* encoders, crashes in mid-run and lost answers never stop.                *)
PoolSettles ==
  (CronFairness /\ LoopFairnessOfBoth /\ <>[][~PoolSetback]_poolVars) =>
    /\ \A v \in Videos : status[v] = "uploaded" ~> status[v] \in {"ready", "failed", "cancelled"}
    /\ \A j \in J!Jobs :
         (status[J!VideoOf(j)] = "ready" /\ J!Preparing(j)) ~> (~J!Preparing(j) \/ J!Cancelled(j))
=============================================================================
