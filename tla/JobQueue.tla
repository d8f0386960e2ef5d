------------------------------ MODULE JobQueue ------------------------------
(***************************************************************************)
(* The background jobs of a ready video: the `video_jobs` rows, the        *)
(* artifact columns of `videos` the dashboard reads (captions_status,      *)
(* mp4_status), the objects the jobs put into R2, and the workers of the   *)
(* jobs pool.                                                              *)
(*                                                                         *)
(* As in VideoQueue one statement or transaction is one step.  Unlike the  *)
(* statements on video_jobs, those that set an artifact column are not     *)
(* guarded by the claim.                                                   *)
(***************************************************************************)
EXTENDS Naturals, FiniteSets

CONSTANTS
  Videos,        \* row ids; a smaller number got ready earlier (created_at)
  Workers,       \* EC2 instance ids (WORKER_ID) of the jobs pool
  Kinds,         \* video_jobs.kind
  MaxAttempts,   \* video_jobs.max_attempts
  NoWorker,      \* SQL NULL in locked_by
  NoJob          \* null in the worker's local variables

Jobs == Videos \X Kinds

VideoOf(j) == j[1]

ASSUME VideosAssumption == Videos \subseteq Nat
ASSUME KindsAssumption  == "DOWNLOAD" \in Kinds
ASSUME LimitAssumption  == MaxAttempts \in Nat \ {0}
ASSUME NullsAssumption  == NoWorker \notin Workers /\ NoJob \notin Jobs

VARIABLES
  (* the videos row *)
  video,      \* videos.status: "processing", "ready" or "cancelled"
  artifact,   \* captions_status and mp4_status, one entry per kind
  inR2,       \* the artifact's objects are in R2
  (* the video_jobs row *)
  job,        \* video_jobs.status, "none" before the row exists
  lockedBy,   \* video_jobs.locked_by
  attempts,   \* video_jobs.attempts
  age,        \* of the claim: "fresh", "silent" (10 min) or "overrun" (6 h)
  (* the worker process *)
  pc,         \* where the worker's main loop is
  held,       \* the `job` argument of runBackgroundJob
  aborted,    \* ac.signal.aborted
  releasing   \* shuttingDown: the claim whose release is in flight

videoVars  == <<video, artifact, inR2>>
jobVars    == <<job, lockedBy, attempts, age>>
workerVars == <<pc, held, aborted, releasing>>
vars       == <<videoVars, jobVars, workerVars>>

VideoStatus    == {"processing", "ready", "cancelled"}
ArtifactStatus == {"pending", "processing", "ready", "failed", "skipped"}
JobStatus      == {"none", "queued", "processing", "done", "failed", "cancelled"}

(* "start" sets the artifact to processing, "work" runs whisper or ffmpeg, *)
(* "put" uploads, "mark" sets the artifact to ready, "done" closes the job. *)
PC == {"down", "poll", "idle", "claimed", "start", "work", "put", "mark", "done", "fail"}

TypeOK ==
  /\ video    \in [Videos -> VideoStatus]
  /\ artifact \in [Jobs -> ArtifactStatus]
  /\ inR2     \in [Jobs -> BOOLEAN]
  /\ job      \in [Jobs -> JobStatus]
  /\ lockedBy \in [Jobs -> Workers \cup {NoWorker}]
  /\ attempts \in [Jobs -> Nat]
  /\ age      \in [Jobs -> {"fresh", "silent", "overrun"}]
  /\ pc       \in [Workers -> PC]
  /\ held     \in [Workers -> Jobs \cup {NoJob}]
  /\ aborted  \in [Workers -> BOOLEAN]
  /\ releasing \in [Workers -> Jobs \cup {NoJob}]
-----------------------------------------------------------------------------
InStatus(s)    == {j \in Jobs : job[j] = s}
Cancelled(j)   == video[VideoOf(j)] = "cancelled"
Owns(w, j)     == lockedBy[j] = w /\ job[j] = "processing"
Up(w)          == pc[w] # "down"
Leaving(w)     == releasing[w] # NoJob
InJob(w)       == pc[w] \in {"start", "work", "put", "mark", "done", "fail"}
CurrentClaim(w) == IF InJob(w) THEN held[w] ELSE NoJob

(* From setInterval to clearInterval. *)
Beating(w) == pc[w] \in {"start", "work", "put", "mark"}

Init ==
  /\ video    = [v \in Videos |-> "processing"]
  /\ artifact = [j \in Jobs |-> "pending"]
  /\ inR2     = [j \in Jobs |-> FALSE]
  /\ job      = [j \in Jobs |-> "none"]
  /\ lockedBy = [j \in Jobs |-> NoWorker]
  /\ attempts = [j \in Jobs |-> 0]
  /\ age      = [j \in Jobs |-> "fresh"]
  /\ pc       = [w \in Workers |-> "down"]
  /\ held     = [w \in Workers |-> NoJob]
  /\ aborted  = [w \in Workers |-> FALSE]
  /\ releasing = [w \in Workers |-> NoJob]
-----------------------------------------------------------------------------
(* Definitions named Faulty... are the code with one plausible mistake in   *)
(* it.  No action uses them: they exist to show that a property can fail.  *)

(* locked_by=NULL, locked_at=NULL, heartbeat_at=NULL on the rows of S. *)
Unlock(S) ==
  /\ lockedBy' = [j \in Jobs |-> IF j \in S THEN NoWorker ELSE lockedBy[j]]
  /\ age'      = [j \in Jobs |-> IF j \in S THEN "fresh" ELSE age[j]]

(* CASE WHEN attempts >= max_attempts THEN 'failed' ELSE 'queued' END *)
Requeued(j) == IF attempts[j] >= MaxAttempts THEN "failed" ELSE "queued"

(* markReadyAndEnqueue, seen from the jobs: ready, the artifact columns and *)
(* the INSERTs are one transaction; captions are optional.                 *)
MarkReadyAndEnqueue(v) ==
  /\ video[v] = "processing"
  /\ video' = [video EXCEPT ![v] = "ready"]
  /\ \E kinds \in {Kinds, {"DOWNLOAD"}} :
       /\ job' = [j \in Jobs |->
            IF VideoOf(j) = v /\ j[2] \in kinds THEN "queued" ELSE job[j]]
       /\ artifact' = [j \in Jobs |->
            IF VideoOf(j) # v THEN artifact[j]
            ELSE IF j[2] \in kinds THEN "pending" ELSE "skipped"]
  /\ UNCHANGED <<inR2, lockedBy, attempts, age, workerVars>>

(* The tenant-admin service retires a ready video. *)
RetireVideo(v) ==
  /\ video[v] = "ready"
  /\ video' = [video EXCEPT ![v] = "cancelled"]
  /\ UNCHANGED <<artifact, inR2, jobVars, workerVars>>
-----------------------------------------------------------------------------
(* The statements on video_jobs: no-ops on a row the worker does not own.  *)

ReleaseJobClaim(w, j) ==
  IF Owns(w, j)
  THEN /\ job'      = [job EXCEPT ![j] = "queued"]
       /\ attempts' = [attempts EXCEPT ![j] = @ - 1]
       /\ Unlock({j})
  ELSE UNCHANGED jobVars

MarkJobDone(w, j) ==
  IF Owns(w, j)
  THEN /\ job' = [job EXCEPT ![j] = "done"]
       /\ Unlock({j})
       /\ UNCHANGED attempts
  ELSE UNCHANGED jobVars

FaultyFailIgnoresOwner(w, j) ==
  /\ job' = [job EXCEPT ![j] = Requeued(j)]
  /\ artifact' = [artifact EXCEPT ![j] = IF Requeued(j) = "failed" THEN "failed" ELSE @]
  /\ Unlock({j})
  /\ UNCHANGED attempts

(* One transaction: the job row, and the artifact once the job has failed. *)
FailOrRequeueJob(w, j) ==
  IF Owns(w, j)
  THEN /\ job' = [job EXCEPT ![j] = Requeued(j)]
       /\ artifact' = [artifact EXCEPT ![j] = IF Requeued(j) = "failed" THEN "failed" ELSE @]
       /\ Unlock({j})
       /\ UNCHANGED attempts
  ELSE UNCHANGED <<jobVars, artifact>>

FaultyHeartbeatIgnoresVideo(w, j) == Owns(w, j)

(* The WHERE clause of jobHeartbeat. *)
HeartbeatLands(w, j) == Owns(w, j) /\ ~Cancelled(j)
-----------------------------------------------------------------------------
(* The worker's main loop.                                                 *)

Claimable == {j \in InStatus("queued") : ~Cancelled(j)}

(* claimNextJob commits; the answer is still on its way. *)
ClaimNextJob(w) ==
  /\ pc[w] \in {"poll", "idle"} /\ ~Leaving(w)
  /\ \E j \in Claimable :
       /\ \A i \in Claimable : VideoOf(j) <= VideoOf(i)
       /\ job'      = [job EXCEPT ![j] = "processing"]
       /\ lockedBy' = [lockedBy EXCEPT ![j] = w]
       /\ attempts' = [attempts EXCEPT ![j] = @ + 1]
       /\ age'      = [age EXCEPT ![j] = "fresh"]
       /\ held'     = [held EXCEPT ![w] = j]
  /\ pc' = [pc EXCEPT ![w] = "claimed"]
  /\ UNCHANGED <<videoVars, aborted, releasing>>

Goto(w, label) == pc' = [pc EXCEPT ![w] = label]

(* The answer arrives: runBackgroundJob sets currentClaim and the timer.   *)
StartJob(w) ==
  /\ pc[w] = "claimed"
  /\ Goto(w, "start")
  /\ UNCHANGED <<videoVars, jobVars, held, aborted, releasing>>

(* The run's locals and its AbortController are dropped. *)
EndOfJob(w) ==
  /\ held'    = [held EXCEPT ![w] = NoJob]
  /\ aborted' = [aborted EXCEPT ![w] = FALSE]

(* The answer is lost: the claim is logged as failed and the loop goes on.  *)
ClaimAnswerLost(w) ==
  /\ pc[w] = "claimed"
  /\ Goto(w, "poll")
  /\ EndOfJob(w)
  /\ UNCHANGED <<videoVars, jobVars, releasing>>

ClaimNothing(w) ==
  /\ pc[w] = "poll" /\ ~Leaving(w)
  /\ Claimable = {}
  /\ Goto(w, "idle")
  /\ UNCHANGED <<videoVars, jobVars, held, aborted, releasing>>

(* IDLE_GRACE_MS passed and the artifact sweep ended; the queue may have    *)
(* grown since it was last looked at.                                      *)
SelfTerminate(w) ==
  /\ pc[w] = "idle" /\ ~Leaving(w)
  /\ Goto(w, "down")
  /\ UNCHANGED <<videoVars, jobVars, held, aborted, releasing>>

(* setArtifactProcessing, WHERE ...='pending'. *)
SetArtifactProcessing(w) ==
  /\ pc[w] = "start"
  /\ artifact' = [artifact EXCEPT ![held[w]] = IF @ = "pending" THEN "processing" ELSE @]
  /\ Goto(w, "work")
  /\ UNCHANGED <<video, inR2, jobVars, held, aborted, releasing>>

(* Whisper or ffmpeg ended; the abort check before the upload. *)
WorkDone(w) ==
  /\ pc[w] = "work"
  /\ Goto(w, IF aborted[w] THEN "fail" ELSE "put")
  /\ UNCHANGED <<videoVars, jobVars, held, aborted, releasing>>

(* The objects have landed; the answer may never reach the worker. *)
PutLands(w) ==
  /\ pc[w] = "put" /\ ~inR2[held[w]]
  /\ inR2' = [inR2 EXCEPT ![held[w]] = TRUE]
  /\ UNCHANGED <<video, artifact, jobVars, workerVars>>

FaultyMarkBeforePut(w) ==
  /\ pc[w] = "put"
  /\ Goto(w, IF aborted[w] THEN "fail" ELSE "mark")
  /\ UNCHANGED <<videoVars, jobVars, held, aborted, releasing>>

(* The last PUT was acknowledged; the abort check after the upload. *)
PutDone(w) ==
  /\ pc[w] = "put"
  /\ inR2' = [inR2 EXCEPT ![held[w]] = TRUE]
  /\ Goto(w, IF aborted[w] THEN "fail" ELSE "mark")
  /\ UNCHANGED <<video, artifact, jobVars, held, aborted, releasing>>

(* markCaptionsReady, markMp4Ready: no guard. *)
MarkArtifactReady(w) ==
  /\ pc[w] = "mark"
  /\ artifact' = [artifact EXCEPT ![held[w]] = "ready"]
  /\ Goto(w, "done")
  /\ UNCHANGED <<video, inR2, jobVars, held, aborted, releasing>>

(* A tool, a PUT or a statement throws: the catch of runBackgroundJob.      *)
JobThrows(w) ==
  /\ pc[w] \in {"start", "work", "put", "mark", "done"}
  /\ Goto(w, "fail")
  /\ UNCHANGED <<videoVars, jobVars, held, aborted, releasing>>

(* The abort signal SIGKILLs the child process or aborts the PUT. *)
AbortKills(w) == pc[w] \in {"work", "put"} /\ aborted[w] /\ JobThrows(w)

EndBackgroundJob(w) ==
  Goto(w, "poll") /\ EndOfJob(w) /\ UNCHANGED releasing

FinishJob(w) ==
  /\ pc[w] = "done"
  /\ MarkJobDone(w, held[w])
  /\ EndBackgroundJob(w)
  /\ UNCHANGED videoVars

(* markJobDone commits and its answer is lost. *)
FinishThrows(w) ==
  /\ pc[w] = "done"
  /\ MarkJobDone(w, held[w])
  /\ Goto(w, "fail")
  /\ UNCHANGED <<videoVars, held, aborted, releasing>>

FailJob(w) ==
  /\ pc[w] = "fail"
  /\ FailOrRequeueJob(w, held[w])
  /\ EndBackgroundJob(w)
  /\ UNCHANGED <<video, inR2>>

(* A failOrRequeueJob that throws is logged and forgotten. *)
FailJobThrows(w) ==
  /\ pc[w] = "fail"
  /\ EndBackgroundJob(w)
  /\ UNCHANGED <<videoVars, jobVars>>

(* The timer of runBackgroundJob: 0 rows means the claim is lost. *)
PeriodicBeat(w) ==
  /\ Beating(w)
  /\ age' = [age EXCEPT ![held[w]] =
       IF HeartbeatLands(w, held[w]) /\ @ = "silent" THEN "fresh" ELSE @]
  /\ aborted' = [aborted EXCEPT ![w] = @ \/ ~HeartbeatLands(w, held[w])]
  /\ UNCHANGED <<videoVars, job, lockedBy, attempts, pc, held, releasing>>
-----------------------------------------------------------------------------
(* Interruption, crash and replacement.                                    *)

Gone(w) ==
  /\ Goto(w, "down")
  /\ releasing' = [releasing EXCEPT ![w] = NoJob]
  /\ EndOfJob(w)

(* releaseAndExit, its synchronous part. *)
Interrupt(w) ==
  /\ Up(w) /\ ~Leaving(w)
  /\ IF CurrentClaim(w) = NoJob
     THEN Gone(w)
     ELSE /\ releasing' = [releasing EXCEPT ![w] = CurrentClaim(w)]
          /\ UNCHANGED <<pc, held, aborted>>
  /\ UNCHANGED <<videoVars, jobVars>>

ReleaseAndExit(w) ==
  /\ Leaving(w)
  /\ ReleaseJobClaim(w, releasing[w])
  /\ Gone(w)
  /\ UNCHANGED videoVars

(* Hard kill, reclaim, or a release that throws before process.exit. *)
Crash(w) ==
  /\ Up(w)
  /\ Gone(w)
  /\ UNCHANGED <<videoVars, jobVars>>

(* The plan of the jobs pool, with DIVISOR 1: more queued jobs than spare   *)
(* workers.                                                                *)
Running == Cardinality({w \in Workers : Up(w)})
Spare(running) ==
  LET busy == Cardinality(InStatus("processing"))
  IN  IF running > busy THEN running - busy ELSE 0

Launch(w, running) ==
  /\ ~Up(w)
  /\ Cardinality(InStatus("queued")) > Spare(running)
  /\ Goto(w, "poll")
  /\ UNCHANGED <<videoVars, jobVars, held, aborted, releasing>>

(* countRunningWorkers can miss instances: a booting one, one whose role    *)
(* tag is not visible yet, one that an overlapping tick is launching.      *)
LaunchWorker(w) == \E running \in 0 .. Running : Launch(w, running)
-----------------------------------------------------------------------------
(* Time and the statements of the orchestrator's tick.  Overlapping ticks   *)
(* run them in any order.                                                  *)

HeartbeatExpires(j) ==
  /\ job[j] = "processing" /\ age[j] = "fresh"
  /\ age' = [age EXCEPT ![j] = "silent"]
  /\ UNCHANGED <<videoVars, job, lockedBy, attempts, workerVars>>

LockExpires(j) ==
  /\ job[j] = "processing" /\ age[j] # "overrun"
  /\ age' = [age EXCEPT ![j] = "overrun"]
  /\ UNCHANGED <<videoVars, job, lockedBy, attempts, workerVars>>

Stale(j) == job[j] = "processing" /\ age[j] # "fresh"

(* JOB_REAP_SQL *)
JobReap ==
  /\ \E j \in Jobs : Stale(j)
  /\ job' = [j \in Jobs |-> IF Stale(j) THEN Requeued(j) ELSE job[j]]
  /\ Unlock({j \in Jobs : Stale(j)})
  /\ UNCHANGED <<videoVars, attempts, workerVars>>

(* What the dashboard shows as "preparing". *)
Preparing(j) == artifact[j] \in {"pending", "processing"}

(* JOB_RECONCILE_SQL *)
JobReconcile ==
  LET Stuck(j) == job[j] = "failed" /\ Preparing(j)
  IN  /\ \E j \in Jobs : Stuck(j)
      /\ artifact' = [j \in Jobs |-> IF Stuck(j) THEN "failed" ELSE artifact[j]]
      /\ UNCHANGED <<video, inR2, jobVars, workerVars>>

FaultyCancelTouchesRunning ==
  LET Orphan(j) == job[j] \notin {"none", "cancelled"} /\ Cancelled(j)
  IN  /\ \E j \in Jobs : Orphan(j)
      /\ job' = [j \in Jobs |-> IF Orphan(j) THEN "cancelled" ELSE job[j]]
      /\ Unlock({j \in Jobs : Orphan(j)})
      /\ UNCHANGED <<videoVars, attempts, workerVars>>

(* JOB_CANCEL_SQL *)
JobCancel ==
  LET Orphan(j) == job[j] = "queued" /\ Cancelled(j)
  IN  /\ \E j \in Jobs : Orphan(j)
      /\ job' = [j \in Jobs |-> IF Orphan(j) THEN "cancelled" ELSE job[j]]
      /\ Unlock({j \in Jobs : Orphan(j)})
      /\ UNCHANGED <<videoVars, attempts, workerVars>>
-----------------------------------------------------------------------------
JobStep(w) ==
  \/ SetArtifactProcessing(w) \/ WorkDone(w) \/ PutLands(w) \/ PutDone(w)
  \/ MarkArtifactReady(w)
  \/ FinishJob(w) \/ FinishThrows(w) \/ JobThrows(w) \/ FailJob(w) \/ FailJobThrows(w)
  \/ PeriodicBeat(w)

LoopStep(w) ==
  \/ ClaimNextJob(w) \/ StartJob(w) \/ ClaimAnswerLost(w)
  \/ ClaimNothing(w) \/ SelfTerminate(w)

InstanceStep(w) ==
  Interrupt(w) \/ ReleaseAndExit(w) \/ Crash(w) \/ LaunchWorker(w)

TickStep == JobReap \/ JobReconcile \/ JobCancel

Next ==
  \/ \E v \in Videos : MarkReadyAndEnqueue(v) \/ RetireVideo(v)
  \/ \E j \in Jobs : HeartbeatExpires(j) \/ LockExpires(j)
  \/ \E w \in Workers : JobStep(w) \/ LoopStep(w) \/ InstanceStep(w)
  \/ TickStep

Spec == Init /\ [][Next]_vars

(* A statement on an artifact column answers or throws; whisper, ffmpeg and *)
(* uploads need not end, and have no such name.                            *)
ArtifactStatement(w) ==
  \/ SetArtifactProcessing(w) \/ MarkArtifactReady(w)
  \/ pc[w] \in {"start", "mark"} /\ JobThrows(w)
-----------------------------------------------------------------------------
(* Properties.                                                             *)

(* The two tables agree on success: a job that is done left its artifact    *)
(* ready, and a ready artifact has its objects in R2, although the artifact *)
(* is written by an unguarded statement of whoever still runs the job.      *)
DoneMeansPublished ==
  \A j \in Jobs :
    /\ job[j] = "done" => artifact[j] = "ready"
    /\ artifact[j] = "ready" => inR2[j]

(* "every write is scoped by (locked_by, status='processing') so a reaped   *)
(* worker cannot clobber a job a new worker now owns": a claim of a job     *)
(* ends by a step of its owner or by the reaper, and a closed job stays     *)
(* closed.                                                                 *)
JobEndsByOwnerOrReaper ==
  [][\A j \in Jobs :
       /\ job[j] \in {"done", "failed", "cancelled"} => job'[j] = job[j]
       /\ job[j] = "processing" /\ (job'[j] # "processing" \/ lockedBy'[j] # lockedBy[j]) =>
            \/ Stale(j) /\ UNCHANGED workerVars
            \/ /\ j \in {held[lockedBy[j]], releasing[lockedBy[j]]}
               /\ pc'[lockedBy[j]] # pc[lockedBy[j]]]_vars
=============================================================================
