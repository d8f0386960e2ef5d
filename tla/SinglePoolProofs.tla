-------------------------- MODULE SinglePoolProofs --------------------------
(***************************************************************************)
(* Proofs about SinglePool: what either queue keeps alone, the two keep      *)
(* together when one pool of workers drains both.                           *)
(***************************************************************************)
EXTENDS SinglePool, VideoQueueProofs

(* The job half, with the lemmas of JobQueueProofs. *)
JP == INSTANCE JobQueueProofs WITH
  MaxAttempts <- MaxJobAttempts, video <- JobsSee,
  lockedBy <- jobLockedBy, attempts <- jobAttempts, age <- jobAge,
  pc <- jobPc, held <- jobHeld, aborted <- jobAborted, releasing <- jobReleasing

VideoInv == WellTyped /\ AttemptsWithinBudget /\ LocksMatchStatus

(* The two program counters are one loop: a worker is in a job only while     *)
(* the video half has nothing, and one that leaves holds nothing but the     *)
(* claim, of one half, whose release it has sent.                           *)
LoopsAgree ==
  \A w \in Workers :
    /\ pc[w] \in {"down", "exited"} <=> jobPc[w] = "down"
    /\ jobPc[w] = "claimed" \/ J!InJob(w) => pc[w] = "idle"
    /\ jobPc[w] = "idle" => pc[w] \in {"idle", "sweep"}
    /\ Leaving(w) =>
         /\ pc[w] \in {"run", "finish", "fail", "poll"} /\ jobPc[w] = "poll"
         /\ held[w] \in {NoVideo, releasing[w]}
    /\ J!Leaving(w) =>
         /\ pc[w] \in {"idle", "poll"} /\ (jobPc[w] = "poll" \/ J!InJob(w))
         /\ jobHeld[w] \in {NoJob, jobReleasing[w]}

(* Across the two tables: a video that is ready has its jobs, and a video     *)
(* that never was has none.                                                *)
FlipBringsJobs ==
  \A v \in Videos :
    /\ seeded[v] \in {0, 1}
    /\ status[v] \notin {"ready", "cancelled"} => seeded[v] = 0
    /\ status[v] = "ready" => seeded[v] = 1
    /\ seeded[v] = 1 => job[<<v, "DOWNLOAD">>] # "none"
    /\ seeded[v] = 0 => \A k \in Kinds : job[<<v, k>>] = "none"

PoolInv == VideoInv /\ JP!IInv /\ LoopsAgree /\ FlipBringsJobs
-----------------------------------------------------------------------------
LEMMA JobAssumptions ==
  JP!VideosAssumption /\ JP!KindsAssumption /\ JP!LimitAssumption /\ JP!NullsAssumption
  BY VideosAssumption, NullsAssumption, JobsAssumption
  DEF JP!VideosAssumption, JP!KindsAssumption, JP!LimitAssumption, JP!NullsAssumption, J!Jobs, JP!Jobs

(* What the main loop of both does to the video half besides the steps of a   *)
(* worker of its own: it turns to the other half, starts the next round, is   *)
(* launched for either queue, or exits from a job.                          *)
TurnOfVideos(w) ==
  /\ UNCHANGED rowVars
  /\ \E p \in {"poll", "idle", "exited"} : pc' = [pc EXCEPT ![w] = p]
  /\ held' \in {held, [held EXCEPT ![w] = NoVideo]}
  /\ stage' \in {stage, [stage EXCEPT ![w] = "encode"]}
  /\ aborted' \in {aborted, [aborted EXCEPT ![w] = FALSE]}
  /\ releasing' \in {releasing, [releasing EXCEPT ![w] = NoVideo]}

(* The row of a ready video leaves "ready". *)
RowRetired(v) ==
  /\ status[v] = "ready"
  /\ status' = [status EXCEPT ![v] = "cancelled"]
  /\ UNCHANGED <<lockedBy, attempts, silent, overrun, seeded, workerVars>>

VideoHalf == [Next]_vars \/ (\E v \in Videos : RowRetired(v)) \/ (\E w \in Workers : TurnOfVideos(w))

(* And to the job half. *)
TurnOfJobs(w) ==
  /\ UNCHANGED <<artifact, inR2, job, jobLockedBy, jobAttempts, jobAge>>
  /\ \E p \in {"poll", "down"} : jobPc' = [jobPc EXCEPT ![w] = p]
  /\ jobHeld' \in {jobHeld, [jobHeld EXCEPT ![w] = NoJob]}
  /\ jobAborted' \in {jobAborted, [jobAborted EXCEPT ![w] = FALSE]}
  /\ jobReleasing' = [jobReleasing EXCEPT ![w] = NoJob] \/ (jobReleasing' = jobReleasing /\ ~J!Leaving(w))

(* A video is cancelled before it was ready. *)
CancelledEarly(v) ==
  /\ status[v] \notin {"ready", "cancelled"}
  /\ status' = [status EXCEPT ![v] = "cancelled"]
  /\ UNCHANGED jobVars

JobHalf ==
  \/ [JP!Next]_(JP!vars)
  \/ \E w \in Workers : JobsSee' = JobsSee /\ TurnOfJobs(w)
  \/ \E v \in Videos : CancelledEarly(v)
-----------------------------------------------------------------------------
LEMMA InitEstablishesPoolInv == PoolInit => PoolInv
<1>. SUFFICES ASSUME PoolInit PROVE PoolInv
  OBVIOUS
<1>1. VideoInv
  BY InitEstablishesIInv DEF PoolInit, VideoInv, IInv
<1>2. JP!IInv
  <2>1. JP!Init
    BY DEF PoolInit, J!Init, JP!Init, J!Jobs, JP!Jobs
  <2>. QED
    BY <2>1, JP!InitEstablishesIInv, JobAssumptions
<1>3. LoopsAgree
  BY DEF PoolInit, Init, J!Init, LoopsAgree, Leaving, J!Leaving, J!InJob
<1>4. FlipBringsJobs
  BY JobsAssumption DEF PoolInit, Init, J!Init, J!Jobs, FlipBringsJobs
<1>. QED
  BY <1>1, <1>2, <1>3, <1>4 DEF PoolInv

(* A statement that makes a video ready inserts its jobs; one that finds the  *)
(* claim lost inserts nothing.                                             *)
LEMMA FinishOfBoth ==
  ASSUME VideoInv, NEW w \in Workers, Finish(w)
  PROVE  /\ RunStep(w) /\ UNCHANGED jobWorkerVars
         /\ \/ UNCHANGED <<status, seeded, jobVars>>
            \/ \E v \in Videos :
                 /\ status[v] = "processing" /\ status' = [status EXCEPT ![v] = "ready"]
                 /\ seeded' = [seeded EXCEPT ![v] = @ + 1]
                 /\ J!MarkReadyAndEnqueue(v)
<1>1. RunStep(w)
  BY DEF Finish, RunStep
<1>2. held[w] \in Videos /\ (MarkReadyAndEnqueue(w, held[w]) \/ UNCHANGED rowVars)
  BY DEF Finish, FinishRun, FinishThrows, VideoInv, WellTyped, RunHolds
<1>3. CASE UNCHANGED rowVars
  <2>1. UNCHANGED jobVars
    BY <1>3 DEF Finish, rowVars
  <2>. QED
    BY <1>1, <1>3, <2>1 DEF rowVars, jobVars, jobWorkerVars
<1>4. CASE ~UNCHANGED rowVars
  <2>1. /\ status[held[w]] = "processing" /\ status' = [status EXCEPT ![held[w]] = "ready"]
        /\ seeded' = [seeded EXCEPT ![held[w]] = @ + 1]
    BY <1>2, <1>4 DEF MarkReadyAndEnqueue, Owns
  <2>2. J!MarkReadyAndEnqueue(held[w])
    BY <1>2, <2>1 DEF Finish, VideoInv, WellTyped, TypeOK
  <2>3. UNCHANGED jobWorkerVars
    BY <2>2 DEF J!MarkReadyAndEnqueue, J!workerVars, jobWorkerVars
  <2>. QED
    BY <1>1, <1>2, <2>1, <2>2, <2>3
<1>. QED
  BY <1>3, <1>4

(* J is JobQueue and JP is JobQueueProofs, which extends it: the same steps.  *)
LEMMA SameSteps ==
  ASSUME NEW w \in Workers
  PROVE  /\ J!JobStep(w) => JP!JobStep(w)
         /\ J!LoopStep(w) => JP!LoopStep(w)
         /\ J!Interrupt(w) \/ J!ReleaseAndExit(w) \/ J!Crash(w) => JP!InstanceStep(w)
<1>. USE DEF J!videoVars, JP!videoVars, J!jobVars, JP!jobVars, J!workerVars, JP!workerVars, J!Goto, JP!Goto,
             J!EndOfJob, JP!EndOfJob, J!Gone, JP!Gone, J!Unlock, JP!Unlock, J!Requeued, JP!Requeued, J!Jobs, JP!Jobs,
             J!Owns, JP!Owns, J!Leaving, JP!Leaving, J!Up, JP!Up, J!EndBackgroundJob, JP!EndBackgroundJob
<1>1. J!SetArtifactProcessing(w) => JP!SetArtifactProcessing(w)
  BY DEF J!SetArtifactProcessing, JP!SetArtifactProcessing
<1>2. J!WorkDone(w) => JP!WorkDone(w)
  BY DEF J!WorkDone, JP!WorkDone
<1>3. J!PutLands(w) => JP!PutLands(w)
  BY DEF J!PutLands, JP!PutLands
<1>4. J!PutDone(w) => JP!PutDone(w)
  BY DEF J!PutDone, JP!PutDone
<1>5. J!MarkArtifactReady(w) => JP!MarkArtifactReady(w)
  BY DEF J!MarkArtifactReady, JP!MarkArtifactReady
<1>6. J!MarkJobDone(w, jobHeld[w]) => JP!MarkJobDone(w, jobHeld[w])
  BY DEF J!MarkJobDone, JP!MarkJobDone
<1>7. (J!FinishJob(w) => JP!FinishJob(w)) /\ (J!FinishThrows(w) => JP!FinishThrows(w))
  BY <1>6 DEF J!FinishJob, JP!FinishJob, J!FinishThrows, JP!FinishThrows
<1>8. J!JobThrows(w) => JP!JobThrows(w)
  BY DEF J!JobThrows, JP!JobThrows
<1>9. J!FailOrRequeueJob(w, jobHeld[w]) => JP!FailOrRequeueJob(w, jobHeld[w])
  BY DEF J!FailOrRequeueJob, JP!FailOrRequeueJob
<1>10. (J!FailJob(w) => JP!FailJob(w)) /\ (J!FailJobThrows(w) => JP!FailJobThrows(w))
  BY <1>9 DEF J!FailJob, JP!FailJob, J!FailJobThrows, JP!FailJobThrows
<1>11. J!PeriodicBeat(w) => JP!PeriodicBeat(w)
  BY DEF J!PeriodicBeat, JP!PeriodicBeat, J!Beating, JP!Beating, J!HeartbeatLands, JP!HeartbeatLands,
         J!Cancelled, JP!Cancelled, J!VideoOf, JP!VideoOf
<1>12. J!ClaimNextJob(w) => JP!ClaimNextJob(w)
  BY DEF J!ClaimNextJob, JP!ClaimNextJob, J!Claimable, JP!Claimable, J!InStatus, JP!InStatus,
         J!Cancelled, JP!Cancelled, J!VideoOf, JP!VideoOf
<1>13. J!ClaimNothing(w) => JP!ClaimNothing(w)
  BY DEF J!ClaimNothing, JP!ClaimNothing, J!Claimable, JP!Claimable, J!InStatus, JP!InStatus,
         J!Cancelled, JP!Cancelled, J!VideoOf, JP!VideoOf
<1>14. /\ J!StartJob(w) => JP!StartJob(w)
       /\ J!ClaimAnswerLost(w) => JP!ClaimAnswerLost(w)
       /\ J!SelfTerminate(w) => JP!SelfTerminate(w)
  BY DEF J!StartJob, JP!StartJob, J!ClaimAnswerLost, JP!ClaimAnswerLost, J!SelfTerminate, JP!SelfTerminate
<1>15. J!Interrupt(w) => JP!Interrupt(w)
  BY DEF J!Interrupt, JP!Interrupt, J!CurrentClaim, JP!CurrentClaim, J!InJob, JP!InJob
<1>16. J!ReleaseAndExit(w) => JP!ReleaseAndExit(w)
  BY DEF J!ReleaseAndExit, JP!ReleaseAndExit, J!ReleaseJobClaim, JP!ReleaseJobClaim
<1>17. J!Crash(w) => JP!Crash(w)
  BY DEF J!Crash, JP!Crash
<1>. QED
  BY <1>1, <1>2, <1>3, <1>4, <1>5, <1>7, <1>8, <1>10, <1>11, <1>12, <1>13, <1>14, <1>15, <1>16, <1>17
  DEF J!JobStep, JP!JobStep, J!LoopStep, JP!LoopStep, JP!InstanceStep

LEMMA SameRowSteps ==
  /\ J!TickStep => JP!TickStep
  /\ \A j \in J!Jobs : J!HeartbeatExpires(j) \/ J!LockExpires(j) => JP!HeartbeatExpires(j) \/ JP!LockExpires(j)
  /\ \A v \in Videos : J!MarkReadyAndEnqueue(v) \/ J!RetireVideo(v) => JP!MarkReadyAndEnqueue(v) \/ JP!RetireVideo(v)
<1>. USE DEF J!videoVars, JP!videoVars, J!jobVars, JP!jobVars, J!workerVars, JP!workerVars,
             J!Unlock, JP!Unlock, J!Jobs, JP!Jobs
<1>1. J!JobReap => JP!JobReap
  BY DEF J!JobReap, JP!JobReap, J!Stale, JP!Stale, J!Requeued, JP!Requeued
<1>2. J!JobReconcile => JP!JobReconcile
  BY DEF J!JobReconcile, JP!JobReconcile, J!Preparing, JP!Preparing
<1>3. J!JobCancel => JP!JobCancel
  BY DEF J!JobCancel, JP!JobCancel, J!Cancelled, JP!Cancelled, J!VideoOf, JP!VideoOf
<1>4. \A j \in J!Jobs : J!HeartbeatExpires(j) \/ J!LockExpires(j) => JP!HeartbeatExpires(j) \/ JP!LockExpires(j)
  BY DEF J!HeartbeatExpires, JP!HeartbeatExpires, J!LockExpires, JP!LockExpires
<1>5. \A v \in Videos : J!RetireVideo(v) => JP!RetireVideo(v)
  BY DEF J!RetireVideo, JP!RetireVideo
<1>6. \A v \in Videos : J!MarkReadyAndEnqueue(v) => JP!MarkReadyAndEnqueue(v)
  BY DEF J!MarkReadyAndEnqueue, JP!MarkReadyAndEnqueue, J!VideoOf, JP!VideoOf
<1>. QED
  BY <1>1, <1>2, <1>3, <1>4, <1>5, <1>6 DEF J!TickStep, JP!TickStep

LEMMA StepsOfJobQueue ==
  \/ J!TickStep
  \/ \E j \in J!Jobs : J!HeartbeatExpires(j) \/ J!LockExpires(j)
  \/ \E v \in Videos : J!MarkReadyAndEnqueue(v) \/ J!RetireVideo(v)
  \/ \E w \in Workers : J!JobStep(w) \/ J!LoopStep(w) \/ J!Interrupt(w) \/ J!ReleaseAndExit(w) \/ J!Crash(w)
  => JP!Next
  BY SameSteps, SameRowSteps DEF JP!Next, J!Jobs, JP!Jobs

LEMMA StepOfVideoHalf == PoolInv /\ [PoolNext]_poolVars => VideoHalf
<1>. SUFFICES ASSUME PoolInv, [PoolNext]_poolVars PROVE VideoHalf
  OBVIOUS
<1>. USE DEF VideoHalf
<1>1. CASE RowStep
  BY <1>1 DEF RowStep, Next, Retire, RowRetired
<1>2. CASE JobRowStep \/ UNCHANGED poolVars
  BY <1>2 DEF JobRowStep, poolVars
<1>3. ASSUME NEW w \in Workers, LoopOfBoth(w) PROVE VideoHalf
  <2>1. CASE VideoLoopStep(w)
    BY <2>1 DEF VideoLoopStep, Next, RunStep, LoopStep
  <2>2. CASE Finish(w)
    BY <2>2, FinishOfBoth DEF PoolInv, Next
  <2>3. CASE ClaimThrows(w)
    BY <2>3 DEF ClaimThrows, TurnOfVideos, rowVars
  <2>4. CASE AskForJob(w) \/ InJobStep(w)
    BY <2>4 DEF AskForJob, InJobStep
  <2>5. CASE EndJob(w) \/ NextRound(w)
    BY <2>5 DEF EndJob, NextRound, Again, TurnOfVideos, rowVars
  <2>6. CASE IdleOver(w) \/ Terminate(w)
    BY <2>6 DEF IdleOver, Terminate, Next, LoopStep
  <2>. QED
    BY <1>3, <2>1, <2>2, <2>3, <2>4, <2>5, <2>6 DEF LoopOfBoth
<1>4. ASSUME NEW w \in Workers, PoolInstanceStep(w) PROVE VideoHalf
  <2>1. CASE InterruptPool(w)
    BY <2>1 DEF InterruptPool, Next, InstanceStep
  <2>2. CASE ReleaseAndExitPool(w)
    BY <2>2 DEF ReleaseAndExitPool, Next, InstanceStep, Gone, EndOfRun, TurnOfVideos
  <2>3. CASE CrashPool(w)
    BY <2>3 DEF CrashPool, Next, InstanceStep
  <2>4. ASSUME NEW running \in 0 .. Running, LaunchPool(w, running) PROVE VideoHalf
    BY <2>4 DEF LaunchPool, TurnOfVideos, rowVars
  <2>. QED
    BY <1>4, <2>1, <2>2, <2>3, <2>4 DEF PoolInstanceStep
<1>. QED
  BY <1>1, <1>2, <1>3, <1>4 DEF PoolNext

(* The statuses that the statements on video_jobs tell apart. *)
LEMMA SameJobsSee == status' = status => JobsSee' = JobsSee
  BY DEF JobsSee

LEMMA StepOfJobHalf == PoolInv /\ [PoolNext]_poolVars => JobHalf
<1>. SUFFICES ASSUME PoolInv, [PoolNext]_poolVars PROVE JobHalf
  OBVIOUS
<1>. USE DEF JobHalf
<1>. DEFINE Same == JobsSee' = JobsSee /\ UNCHANGED jobVars
<1>0. Same => UNCHANGED JP!vars
  BY DEF jobVars, jobRowVars, jobWorkerVars, JP!vars, JP!videoVars, JP!jobVars, JP!workerVars
<1>1. CASE RowStep
  <2>1. ASSUME NEW v \in Videos, ApiStep(v) \/ TimeStep(v), UNCHANGED jobVars PROVE JobHalf
    <3>1. CASE Cancel(v) /\ status[v] # "ready"
      BY <2>1, <3>1 DEF Cancel, CancelledEarly
    <3>2. CASE ~Cancel(v)
      <4>1. Same
        BY <2>1, <3>2 DEF ApiStep, TimeStep, MarkUploaded, Retry, HeartbeatExpires, LockExpires, JobsSee,
                          PoolInv, VideoInv, WellTyped, TypeOK
      <4>. QED
        BY <4>1, <1>0
    <3>. QED
      BY <3>1, <3>2 DEF Cancel
  <2>2. CASE Reap /\ UNCHANGED jobVars
    <3>1. Same
      BY <2>2 DEF Reap, Stale, Requeued, JobsSee
    <3>. QED
      BY <3>1, <1>0
  <2>3. ASSUME NEW v \in Videos, Retire(v) PROVE JobHalf
    BY <2>3, StepsOfJobQueue DEF Retire
  <2>. QED
    BY <1>1, <2>1, <2>2, <2>3 DEF RowStep
<1>2. CASE JobRowStep
  BY <1>2, StepsOfJobQueue DEF JobRowStep
<1>3. CASE UNCHANGED poolVars
  <2>1. Same
    BY <1>3, SameJobsSee DEF poolVars, vars, rowVars
  <2>. QED
    BY <2>1, <1>0
<1>4. ASSUME NEW w \in Workers, LoopOfBoth(w) PROVE JobHalf
  <2>1. CASE VideoLoopStep(w)
    <3>1. UNCHANGED jobVars
      BY <2>1 DEF VideoLoopStep
    <3>2. JobsSee' = JobsSee
      BY <2>1 DEF VideoLoopStep, ClaimNext, ClaimNothing, StartRun, PeriodicBeat, Boundary, Heartbeat, UploadDone,
                  RunThrows, FailRun, FailOrRequeue, Requeued, Owns, FailRunThrows, InStatus, JobsSee, rowVars,
                  PoolInv, VideoInv, WellTyped, TypeOK, RunHolds
    <3>. QED
      BY <3>1, <3>2, <1>0
  <2>2. CASE Finish(w)
    <3>1. CASE UNCHANGED <<status, seeded, jobVars>>
      BY <3>1, SameJobsSee, <1>0
    <3>2. ASSUME NEW v \in Videos, J!MarkReadyAndEnqueue(v) PROVE JobHalf
      BY <3>2, StepsOfJobQueue
    <3>. QED
      BY <2>2, <3>1, <3>2, FinishOfBoth DEF PoolInv
  <2>3. CASE ClaimThrows(w) \/ IdleOver(w)
    <3>1. status' = status /\ UNCHANGED jobVars
      BY <2>3 DEF ClaimThrows, IdleOver, IdleGraceOver, rowVars
    <3>. QED
      BY <3>1, SameJobsSee, <1>0
  <2>4. CASE AskForJob(w)
    BY <2>4, StepsOfJobQueue DEF AskForJob, J!LoopStep
  <2>5. CASE InJobStep(w)
    BY <2>5, StepsOfJobQueue DEF InJobStep, J!LoopStep, J!JobStep
  <2>6. CASE EndJob(w)
    BY <2>6, StepsOfJobQueue DEF EndJob, J!LoopStep, J!JobStep
  <2>7. CASE NextRound(w)
    <3>1. JobsSee' = JobsSee
      BY <2>7, SameJobsSee DEF NextRound, Again, rowVars
    <3>2. TurnOfJobs(w)
      BY <2>7 DEF NextRound, PoolLeaving, TurnOfJobs, jobRowVars
    <3>. QED
      BY <3>1, <3>2
  <2>8. CASE Terminate(w)
    BY <2>8, StepsOfJobQueue DEF Terminate, J!LoopStep
  <2>. QED
    BY <1>4, <2>1, <2>2, <2>3, <2>4, <2>5, <2>6, <2>7, <2>8 DEF LoopOfBoth
<1>5. ASSUME NEW w \in Workers, PoolInstanceStep(w) PROVE JobHalf
  <2>1. CASE InterruptPool(w)
    <3>1. CASE InRunVideo(w)
      <4>1. status' = status /\ UNCHANGED jobVars
        <5>1. ~J!InJob(w)
          BY <3>1 DEF InRunVideo, PoolInv, LoopsAgree
        <5>. QED
          BY <2>1, <3>1, <5>1 DEF InterruptPool, Interrupt, rowVars
      <4>. QED
        BY <4>1, SameJobsSee, <1>0
    <3>2. CASE ~InRunVideo(w)
      BY <2>1, <3>2, StepsOfJobQueue DEF InterruptPool
    <3>. QED
      BY <3>1, <3>2
  <2>2. CASE ReleaseAndExitPool(w)
    <3>1. CASE ReleaseAndExit(w) /\ J!Gone(w) /\ UNCHANGED jobRowVars
      <4>1. JobsSee' = JobsSee
        <5>1. releasing[w] \in Videos /\ ReleaseClaim(w, releasing[w])
          BY <3>1 DEF ReleaseAndExit, Leaving, PoolInv, VideoInv, WellTyped, TypeOK
        <5>2. CASE Owns(w, releasing[w])
          <6>1. status' = [status EXCEPT ![releasing[w]] = "uploaded"] /\ status[releasing[w]] = "processing"
            BY <5>1, <5>2 DEF ReleaseClaim, Owns
          <6>. QED
            BY <5>1, <6>1 DEF JobsSee, PoolInv, VideoInv, WellTyped, TypeOK
        <5>3. CASE ~Owns(w, releasing[w])
          BY <5>1, <5>3, SameJobsSee DEF ReleaseClaim, rowVars
        <5>. QED
          BY <5>2, <5>3
      <4>2. TurnOfJobs(w)
        BY <3>1 DEF J!Gone, J!Goto, J!EndOfJob, TurnOfJobs, jobRowVars
      <4>. QED
        BY <4>1, <4>2
    <3>2. CASE J!ReleaseAndExit(w)
      BY <3>2, StepsOfJobQueue
    <3>. QED
      BY <2>2, <3>1, <3>2 DEF ReleaseAndExitPool
  <2>3. CASE CrashPool(w)
    BY <2>3, StepsOfJobQueue DEF CrashPool
  <2>4. ASSUME NEW running \in 0 .. Running, LaunchPool(w, running) PROVE JobHalf
    <3>1. JobsSee' = JobsSee
      BY <2>4, SameJobsSee DEF LaunchPool, rowVars
    <3>2. ~J!Leaving(w)
      BY <2>4 DEF LaunchPool, Up, PoolInv, LoopsAgree
    <3>3. TurnOfJobs(w)
      BY <2>4, <3>2 DEF LaunchPool, TurnOfJobs, jobRowVars
    <3>. QED
      BY <3>1, <3>3
  <2>. QED
    BY <1>5, <2>1, <2>2, <2>3, <2>4 DEF PoolInstanceStep
<1>. QED
  BY <1>1, <1>2, <1>3, <1>4, <1>5 DEF PoolNext
-----------------------------------------------------------------------------
LEMMA HalfKeepsVideoInv == VideoInv /\ VideoHalf => VideoInv'
<1>. SUFFICES ASSUME VideoInv, VideoHalf PROVE VideoInv'
  OBVIOUS
<1>1. CASE [Next]_vars
  <2>1. \A v \in Videos : RowMove(v)
    BY <1>1, StepMovesRows DEF VideoInv
  <2>. QED
    BY <1>1, <2>1, StepKeepsTypes, MovesKeepBudget, MovesKeepLocks DEF VideoInv
<1>2. ASSUME NEW v \in Videos, RowRetired(v) PROVE VideoInv'
  <2>1. status' \in [Videos -> Status]
    BY <1>2 DEF RowRetired, VideoInv, WellTyped, TypeOK, Status
  <2>2. WellTyped'
    BY <1>2, <2>1 DEF RowRetired, VideoInv, WellTyped, TypeOK, RunHolds, workerVars
  <2>3. attempts[v] \in 1 .. MaxAttempts
    BY <1>2 DEF RowRetired, VideoInv, AttemptsWithinBudget
  <2>4. AttemptsWithinBudget'
    BY <1>2, <2>3, LimitsAssumption DEF RowRetired, VideoInv, AttemptsWithinBudget, WellTyped, TypeOK
  <2>5. LocksMatchStatus'
    BY <1>2 DEF RowRetired, VideoInv, LocksMatchStatus, WellTyped, TypeOK
  <2>. QED
    BY <2>2, <2>4, <2>5 DEF VideoInv
<1>3. ASSUME NEW w \in Workers, TurnOfVideos(w) PROVE VideoInv'
  <2>1. UNCHANGED rowVars
    BY <1>3 DEF TurnOfVideos
  <2>2. /\ pc' \in [Workers -> PC] /\ held' \in [Workers -> Videos \cup {NoVideo}]
        /\ stage' \in [Workers -> Stage] /\ aborted' \in [Workers -> BOOLEAN]
        /\ releasing' \in [Workers -> Videos \cup {NoVideo}]
    BY <1>3 DEF TurnOfVideos, VideoInv, WellTyped, TypeOK, PC, Stage
  <2>3. RunHolds'
    BY <1>3 DEF TurnOfVideos, VideoInv, WellTyped, TypeOK, RunHolds
  <2>. QED
    BY <2>1, <2>2, <2>3 DEF rowVars, VideoInv, WellTyped, TypeOK, AttemptsWithinBudget, LocksMatchStatus
<1>. QED
  BY <1>1, <1>2, <1>3 DEF VideoHalf

LEMMA TurnKeepsJobInv ==
  ASSUME JP!IInv, NEW w \in Workers, JobsSee' = JobsSee, TurnOfJobs(w)
  PROVE  JP!IInv'
<1>. USE DEF JP!IInv, JP!WellTyped, JP!TypeOK, JP!RunHolds, TurnOfJobs, JP!PC
<1>1. JP!TypeOK'
  <2>1. jobPc' \in [Workers -> JP!PC] /\ jobReleasing' \in [Workers -> JP!Jobs \cup {NoJob}]
    OBVIOUS
  <2>2. jobHeld' \in [Workers -> JP!Jobs \cup {NoJob}]
    OBVIOUS
  <2>3. jobAborted' \in [Workers -> BOOLEAN]
    OBVIOUS
  <2>. QED
    BY <2>1, <2>2, <2>3
<1>2. JP!RunHolds'
  BY DEF JP!InJob, JP!Leaving, J!Leaving, JP!Up
<1>3. JP!JobsCharged' /\ JP!NoJobBeforeReady' /\ JP!DoneMeansPublished'
  BY DEF JP!JobsCharged, JP!NoJobBeforeReady, JP!DoneMeansPublished
<1>4. JP!RunPublished'
  BY DEF JP!RunPublished, JP!Owns
<1>. QED
  BY <1>1, <1>2, <1>3, <1>4

LEMMA CancelKeepsJobInv ==
  ASSUME VideoInv, JP!IInv, NEW v \in Videos, CancelledEarly(v)
  PROVE  JP!IInv'
<1>. USE DEF JP!IInv, JP!WellTyped, JP!TypeOK, JP!RunHolds, CancelledEarly, jobVars, jobRowVars, jobWorkerVars
<1>1. JobsSee' = [JobsSee EXCEPT ![v] = "cancelled"]
  BY DEF JobsSee, VideoInv, WellTyped, TypeOK
<1>2. JP!TypeOK'
  BY <1>1 DEF JP!VideoStatus, JP!ArtifactStatus, JP!JobStatus
<1>3. JP!RunHolds'
  BY DEF JP!InJob, JP!Leaving, JP!Up
<1>4. JP!NoJobBeforeReady'
  BY <1>1 DEF JP!NoJobBeforeReady
<1>5. JP!JobsCharged' /\ JP!DoneMeansPublished' /\ JP!RunPublished'
  BY DEF JP!JobsCharged, JP!DoneMeansPublished, JP!RunPublished, JP!Owns
<1>. QED
  BY <1>2, <1>3, <1>4, <1>5

LEMMA HalfKeepsJobInv == VideoInv /\ JP!IInv /\ JobHalf => JP!IInv'
  BY JP!IInvInductive, JobAssumptions, TurnKeepsJobInv, CancelKeepsJobInv DEF JobHalf
-----------------------------------------------------------------------------
LEMMA StepKeepsLoopsAgree == PoolInv /\ [PoolNext]_poolVars => LoopsAgree'
<1>. SUFFICES ASSUME PoolInv, [PoolNext]_poolVars PROVE LoopsAgree'
  OBVIOUS
<1>. USE DEF LoopsAgree, Leaving, J!Leaving, Up, J!Up, InRunVideo, J!InJob, PoolLeaving
<1>0. /\ pc \in [Workers -> PC] /\ held \in [Workers -> Videos \cup {NoVideo}]
      /\ releasing \in [Workers -> Videos \cup {NoVideo}]
      /\ jobPc \in [Workers -> JP!PC] /\ jobHeld \in [Workers -> J!Jobs \cup {NoJob}]
      /\ jobReleasing \in [Workers -> J!Jobs \cup {NoJob}]
      /\ LoopsAgree
  BY DEF PoolInv, VideoInv, WellTyped, TypeOK, JP!IInv, JP!WellTyped, JP!TypeOK, J!Jobs, JP!Jobs
<1>. USE <1>0
<1>1. CASE UNCHANGED <<workerVars, jobWorkerVars>>
  BY <1>1 DEF workerVars, jobWorkerVars
<1>2. CASE RowStep \/ JobRowStep \/ UNCHANGED poolVars
  <2>1. UNCHANGED <<workerVars, jobWorkerVars>>
    BY <1>2
    DEF RowStep, JobRowStep, poolVars, vars, jobVars, workerVars, jobWorkerVars, J!workerVars,
        ApiStep, TimeStep, MarkUploaded, Retry, Cancel, HeartbeatExpires, LockExpires, Reap, Retire, J!RetireVideo,
        J!TickStep, J!JobReap, J!JobReconcile, J!JobCancel, J!HeartbeatExpires, J!LockExpires
  <2>. QED
    BY <1>1, <2>1
<1>3. ASSUME NEW w \in Workers, LoopOfBoth(w) PROVE LoopsAgree'
  <2>. USE DEF PC, JP!PC, jobVars, jobWorkerVars
  <2>1. CASE VideoLoopStep(w)
    BY <2>1
    DEF VideoLoopStep, ClaimNext, ClaimNothing, StartRun, PeriodicBeat, Boundary, UploadDone, RunThrows,
        FailRun, FailRunThrows, EndRunVideo, EndOfRun
  <2>2. CASE Finish(w)
    <3>1. UNCHANGED <<jobPc, jobHeld, jobReleasing>>
      BY <2>2, FinishOfBoth DEF PoolInv
    <3>. QED
      BY <2>2, <3>1 DEF Finish, FinishRun, FinishThrows, EndRunVideo, EndOfRun
  <2>3. CASE ClaimThrows(w)
    BY <2>3 DEF ClaimThrows
  <2>4. CASE AskForJob(w)
    BY <2>4 DEF AskForJob, vars, workerVars, J!ClaimNextJob, J!ClaimNothing, J!Goto
  <2>5. CASE InJobStep(w)
    BY <2>5
    DEF InJobStep, vars, workerVars, J!workerVars, J!Goto, J!StartJob, J!SetArtifactProcessing, J!WorkDone, J!PutLands,
        J!PutDone, J!MarkArtifactReady, J!JobThrows, J!FinishThrows, J!PeriodicBeat, J!Beating
  <2>6. CASE EndJob(w)
    BY <2>6
    DEF EndJob, Again, J!FinishJob, J!FailJob, J!FailJobThrows, J!ClaimAnswerLost, J!EndBackgroundJob, J!EndOfJob, J!Goto
  <2>7. CASE NextRound(w)
    BY <2>7 DEF NextRound, Again
  <2>8. CASE IdleOver(w)
    BY <2>8 DEF IdleOver, IdleGraceOver
  <2>9. CASE Terminate(w)
    BY <2>9 DEF Terminate, SelfTerminate, J!SelfTerminate, J!Goto
  <2>. QED
    BY <1>3, <2>1, <2>2, <2>3, <2>4, <2>5, <2>6, <2>7, <2>8, <2>9 DEF LoopOfBoth
<1>4. ASSUME NEW w \in Workers, PoolInstanceStep(w) PROVE LoopsAgree'
  <2>. USE DEF PC, JP!PC, jobVars, jobWorkerVars, Gone, EndOfRun, J!Gone, J!EndOfJob, J!Goto
  <2>1. CASE InterruptPool(w)
    <3>1. CASE InRunVideo(w)
      <4>1. Interrupt(w) /\ UNCHANGED jobVars
        BY <2>1, <3>1 DEF InterruptPool
      <4>. QED
        <5>1. held[w] \in Videos
          BY <3>1 DEF PoolInv, VideoInv, WellTyped, RunHolds
        <5>2. /\ releasing' = [releasing EXCEPT ![w] = held[w]] /\ UNCHANGED <<pc, held>>
              /\ ~J!Leaving(w) /\ jobPc[w] = "poll"
          BY <3>1, <4>1, <5>1, NullsAssumption DEF Interrupt, CurrentClaim
        <5>. QED
          BY <3>1, <4>1, <5>1, <5>2
    <3>2. CASE J!InJob(w)
      <4>1. UNCHANGED vars /\ J!Interrupt(w)
        BY <2>1, <3>2 DEF InterruptPool
      <4>2. ~Leaving(w) /\ pc[w] = "idle"
        BY <3>2
      <4>3. jobHeld[w] \in J!Jobs
        BY <3>2 DEF PoolInv, JP!IInv, JP!WellTyped, JP!RunHolds, JP!InJob, J!Jobs, JP!Jobs
      <4>4. jobReleasing' = [jobReleasing EXCEPT ![w] = jobHeld[w]] /\ UNCHANGED <<jobPc, jobHeld>>
        BY <3>2, <4>1, <4>3, JobsAssumption DEF J!Interrupt, J!CurrentClaim
      <4>. QED
        BY <3>2, <4>1, <4>2, <4>3, <4>4 DEF vars, workerVars
    <3>3. CASE ~InRunVideo(w) /\ ~J!InJob(w)
      <4>1. Interrupt(w) /\ J!Interrupt(w)
        BY <2>1, <3>3 DEF InterruptPool
      <4>2. /\ pc' = [pc EXCEPT ![w] = "exited"] /\ held' = [held EXCEPT ![w] = NoVideo]
            /\ releasing' = releasing
        BY <3>3, <4>1 DEF Interrupt, CurrentClaim
      <4>3. J!Gone(w)
        BY <3>3, <4>1 DEF J!Interrupt, J!CurrentClaim
      <4>4. ~Leaving(w)
        BY <4>1 DEF Interrupt
      <4>. QED
        BY <4>2, <4>3, <4>4
    <3>. QED
      BY <3>1, <3>2, <3>3
  <2>2. CASE ReleaseAndExitPool(w)
    BY <2>2 DEF ReleaseAndExitPool, ReleaseAndExit, J!ReleaseAndExit
  <2>3. CASE CrashPool(w)
    BY <2>3 DEF CrashPool, Crash, J!Crash
  <2>4. ASSUME NEW running \in 0 .. Running, LaunchPool(w, running) PROVE LoopsAgree'
    BY <2>4 DEF LaunchPool
  <2>. QED
    BY <1>4, <2>1, <2>2, <2>3, <2>4 DEF PoolInstanceStep
<1>. QED
  BY <1>2, <1>3, <1>4 DEF PoolNext
-----------------------------------------------------------------------------
(* What a step does to a row, as far as its jobs are concerned, and to a job. *)
LEMMA RowsAfter ==
  ASSUME PoolInv, VideoHalf, NEW v \in Videos
  PROVE  \/ /\ seeded'[v] = seeded[v]
            /\ status[v] \in {"ready", "cancelled"} => status'[v] \in {"ready", "cancelled"}
            /\ status'[v] = "ready" => status[v] = "ready"
         \/ status[v] = "processing" /\ status'[v] = "ready" /\ seeded'[v] = seeded[v] + 1
<1>1. CASE [Next]_vars
  <2>1. RowMove(v)
    BY <1>1, StepMovesRows DEF PoolInv, VideoInv
  <2>. QED
    BY <2>1 DEF RowMove, Requeued
<1>2. ASSUME NEW u \in Videos, RowRetired(u)
      PROVE  /\ seeded'[v] = seeded[v]
             /\ status[v] \in {"ready", "cancelled"} => status'[v] \in {"ready", "cancelled"}
             /\ status'[v] = "ready" => status[v] = "ready"
  BY <1>2 DEF RowRetired, PoolInv, VideoInv, WellTyped, TypeOK
<1>3. ASSUME NEW w \in Workers, TurnOfVideos(w) PROVE UNCHANGED <<status, seeded>>
  BY <1>3 DEF TurnOfVideos, rowVars
<1>. QED
  BY <1>1, <1>2, <1>3 DEF VideoHalf

LEMMA JobsAfter ==
  ASSUME PoolInv, JobHalf, NEW v \in Videos, NEW k \in Kinds
  PROVE  \/ job'[<<v, k>>] = "none" <=> job[<<v, k>>] = "none"
         \/ job[<<v, k>>] = "none" /\ JobsSee'[v] = "ready"
<1>1. CASE [JP!Next]_(JP!vars)
  <2>1. <<v, k>> \in JP!Jobs /\ JP!VideoOf(<<v, k>>) = v
    BY DEF JP!Jobs, JP!VideoOf
  <2>2. JP!JobMove(<<v, k>>)
    BY <1>1, <2>1, JP!NextMoves, JobAssumptions DEF PoolInv, JP!Moves
  <2>. QED
    BY <2>1, <2>2 DEF JP!JobMove, JP!Requeued, JP!Stale, JP!Owns
<1>2. CASE job' = job
  BY <1>2
<1>. QED
  BY <1>1, <1>2 DEF JobHalf, TurnOfJobs, CancelledEarly, jobVars, jobRowVars

(* markReadyAndEnqueue is the only statement that makes a video ready. *)
LEMMA OnlyFinishFlips ==
  ASSUME PoolInv, [PoolNext]_poolVars, NEW v \in Videos, status[v] # "ready", status'[v] = "ready"
  PROVE  \E w \in Workers : Finish(w)
<1>. USE DEF PoolInv, VideoInv, WellTyped, TypeOK, RunHolds, rowVars
<1>1. CASE RowStep \/ JobRowStep \/ UNCHANGED poolVars
  BY <1>1
  DEF RowStep, JobRowStep, poolVars, vars, ApiStep, TimeStep, MarkUploaded, Retry, Cancel, HeartbeatExpires,
      LockExpires, Reap, Requeued, Retire
<1>2. ASSUME NEW w \in Workers, LoopOfBoth(w) PROVE Finish(w)
  <2>1. CASE VideoLoopStep(w)
    BY <2>1
    DEF VideoLoopStep, ClaimNext, ClaimNothing, StartRun, PeriodicBeat, Boundary, Heartbeat, UploadDone,
        RunThrows, FailRun, FailOrRequeue, Requeued, FailRunThrows
  <2>2. CASE ClaimThrows(w) \/ AskForJob(w) \/ InJobStep(w) \/ EndJob(w) \/ NextRound(w) \/ IdleOver(w) \/ Terminate(w)
    BY <2>2
    DEF ClaimThrows, AskForJob, InJobStep, EndJob, NextRound, IdleOver, IdleGraceOver, Terminate, SelfTerminate, Again, vars
  <2>. QED
    BY <1>2, <2>1, <2>2 DEF LoopOfBoth
<1>3. ASSUME NEW w \in Workers, PoolInstanceStep(w) PROVE FALSE
  <2>1. CASE InterruptPool(w)
    <3>1. status' = status
      BY <2>1 DEF InterruptPool, Interrupt, vars
    <3>. QED
      BY <3>1
  <2>2. CASE ReleaseAndExitPool(w)
    <3>1. ReleaseClaim(w, releasing[w]) \/ UNCHANGED rowVars
      BY <2>2 DEF ReleaseAndExitPool, ReleaseAndExit
    <3>. QED
      BY <3>1 DEF ReleaseClaim
  <2>3. CASE CrashPool(w) \/ \E running \in 0 .. Running : LaunchPool(w, running)
    BY <2>3 DEF CrashPool, Crash, LaunchPool
  <2>. QED
    BY <1>3, <2>1, <2>2, <2>3 DEF PoolInstanceStep
<1>. QED
  BY <1>1, <1>2, <1>3 DEF PoolNext

LEMMA StepKeepsFlip == PoolInv /\ [PoolNext]_poolVars => FlipBringsJobs'
<1>. SUFFICES ASSUME PoolInv, [PoolNext]_poolVars, NEW v \in Videos
              PROVE  /\ seeded'[v] \in {0, 1}
                     /\ status'[v] \notin {"ready", "cancelled"} => seeded'[v] = 0
                     /\ status'[v] = "ready" => seeded'[v] = 1
                     /\ seeded'[v] = 1 => job'[<<v, "DOWNLOAD">>] # "none"
                     /\ seeded'[v] = 0 => \A k \in Kinds : job'[<<v, k>>] = "none"
  BY DEF FlipBringsJobs
<1>1. VideoHalf /\ JobHalf
  BY StepOfVideoHalf, StepOfJobHalf
<1>2. /\ seeded[v] \in {0, 1}
      /\ status[v] \notin {"ready", "cancelled"} => seeded[v] = 0
      /\ status[v] = "ready" => seeded[v] = 1
      /\ seeded[v] = 1 => job[<<v, "DOWNLOAD">>] # "none"
      /\ seeded[v] = 0 => \A k \in Kinds : job[<<v, k>>] = "none"
  BY DEF PoolInv, FlipBringsJobs
<1>3. JobsSee'[v] = "ready" => status'[v] = "ready"
  BY DEF JobsSee
<1>4. \A k \in Kinds : \/ job'[<<v, k>>] = "none" <=> job[<<v, k>>] = "none"
                       \/ job[<<v, k>>] = "none" /\ status'[v] = "ready"
  BY <1>1, <1>3, JobsAfter
<1>5. CASE status[v] = "processing" /\ status'[v] = "ready" /\ seeded'[v] = seeded[v] + 1
  <2>1. PICK w \in Workers : Finish(w)
    BY <1>5, OnlyFinishFlips
  <2>2. PICK u \in Videos : status' = [status EXCEPT ![u] = "ready"] /\ J!MarkReadyAndEnqueue(u)
    BY <1>5, <2>1, FinishOfBoth DEF PoolInv
  <2>3. u = v
    BY <1>5, <2>2
  <2>4. <<v, "DOWNLOAD">> \in J!Jobs /\ J!VideoOf(<<v, "DOWNLOAD">>) = v /\ <<v, "DOWNLOAD">>[2] = "DOWNLOAD"
    BY JobsAssumption DEF J!Jobs, J!VideoOf
  <2>5. job'[<<v, "DOWNLOAD">>] = "queued"
    <3>1. PICK kinds \in {Kinds, {"DOWNLOAD"}} :
            job' = [j \in J!Jobs |->
                     IF J!VideoOf(j) = v /\ j[2] \in kinds THEN "queued" ELSE job[j]]
      BY <2>2, <2>3 DEF J!MarkReadyAndEnqueue
    <3>. QED
      BY <3>1, <2>4, JobsAssumption
  <2>. QED
    BY <1>2, <1>5, <2>5
<1>6. CASE /\ seeded'[v] = seeded[v]
           /\ status[v] \in {"ready", "cancelled"} => status'[v] \in {"ready", "cancelled"}
           /\ status'[v] = "ready" => status[v] = "ready"
  BY <1>2, <1>4, <1>6, JobsAssumption
<1>. QED
  BY <1>1, <1>5, <1>6, RowsAfter

LEMMA StepKeepsPoolInv == PoolInv /\ [PoolNext]_poolVars => PoolInv'
<1>. SUFFICES ASSUME PoolInv, [PoolNext]_poolVars PROVE PoolInv'
  OBVIOUS
<1>1. VideoInv' /\ JP!IInv'
  BY StepOfVideoHalf, StepOfJobHalf, HalfKeepsVideoInv, HalfKeepsJobInv DEF PoolInv
<1>. QED
  BY <1>1, StepKeepsLoopsAgree, StepKeepsFlip DEF PoolInv

LEMMA PoolInvariant == PoolSpec => []PoolInv
  BY InitEstablishesPoolInv, StepKeepsPoolInv, PTL DEF PoolSpec

(* The guarantees of the video queue hold in the one pool, where a worker     *)
(* turns from the one queue to the other: types, the attempt budget and the   *)
(* locks.                                                                  *)
THEOREM VideosKept == PoolSpec => [](TypeOK /\ AttemptsWithinBudget /\ LocksMatchStatus)
<1>1. PoolInv => TypeOK /\ AttemptsWithinBudget /\ LocksMatchStatus
  BY DEF PoolInv, VideoInv, WellTyped
<1>. QED
  BY <1>1, PoolInvariant, PTL

(* And those of the job queue: a job that is done published its artifact.    *)
THEOREM JobsKept == PoolSpec => [](J!TypeOK /\ J!DoneMeansPublished)
<1>1. PoolInv => J!TypeOK /\ J!DoneMeansPublished
  BY DEF PoolInv, JP!IInv, JP!WellTyped, JP!TypeOK, J!TypeOK, JP!DoneMeansPublished, J!DoneMeansPublished,
         J!Jobs, JP!Jobs, J!VideoStatus, JP!VideoStatus, J!ArtifactStatus, JP!ArtifactStatus,
         J!JobStatus, JP!JobStatus, J!PC, JP!PC
<1>. QED
  BY <1>1, PoolInvariant, PTL

(* "we never flip 'ready' without queueing the follow-up work, nor queue work *)
(* for a row we lost", across the two tables: a ready video has its jobs,    *)
(* which were inserted once, and a video that was never ready has none.      *)
THEOREM JobsComeWithTheFlip == PoolSpec => []FlipBringsJobs
<1>1. PoolInv => FlipBringsJobs
  BY DEF PoolInv
<1>. QED
  BY <1>1, PoolInvariant, PTL

(* What RightClaimReturned says of one step. *)
RightClaim ==
  \A w \in Workers :
    Up(w) /\ pc'[w] = "exited" =>
      /\ InRunVideo(w) => ~(status'[held[w]] = "processing" /\ lockedBy'[held[w]] = w)
      /\ J!InJob(w)    => ~(job'[jobHeld[w]] = "processing" /\ jobLockedBy'[jobHeld[w]] = w)

(* Who exits from a run or a job, does so with the release of its own half.   *)
LEMMA ExitReleases ==
  ASSUME PoolInv, [PoolNext]_poolVars, NEW w \in Workers, Up(w), pc'[w] = "exited", InRunVideo(w) \/ J!InJob(w)
  PROVE  \/ ReleaseAndExit(w) /\ ~J!InJob(w)
         \/ J!ReleaseAndExit(w) /\ ~InRunVideo(w)
<1>. USE DEF PoolInv, VideoInv, WellTyped, TypeOK, LoopsAgree, Up, InRunVideo, J!InJob
<1>1. CASE RowStep \/ JobRowStep \/ UNCHANGED poolVars
  BY <1>1
  DEF RowStep, JobRowStep, poolVars, vars, workerVars, ApiStep, TimeStep, MarkUploaded, Retry, Cancel, HeartbeatExpires,
      LockExpires, Reap, Retire
<1>2. ASSUME NEW x \in Workers, LoopOfBoth(x) PROVE FALSE
  BY <1>2
  DEF LoopOfBoth, VideoLoopStep, ClaimNext, ClaimNothing, StartRun, PeriodicBeat, Boundary, UploadDone,
      RunThrows, FailRun, FailRunThrows, EndRunVideo, Finish, FinishRun, FinishThrows,
      ClaimThrows, AskForJob, InJobStep, EndJob, NextRound, IdleOver, IdleGraceOver, Terminate, SelfTerminate, Again,
      vars, workerVars
<1>3. ASSUME NEW x \in Workers, InterruptPool(x) PROVE FALSE
  <2>1. CASE InRunVideo(x)
    <3>1. Interrupt(x)
      BY <1>3, <2>1 DEF InterruptPool
    <3>2. held[x] \in Videos
      BY <2>1 DEF RunHolds
    <3>. QED
      BY <2>1, <3>1, <3>2, NullsAssumption DEF Interrupt, CurrentClaim
  <2>2. CASE J!InJob(x)
    <3>1. UNCHANGED vars
      BY <1>3, <2>2 DEF InterruptPool
    <3>. QED
      BY <3>1 DEF vars, workerVars
  <2>3. CASE ~InRunVideo(x) /\ ~J!InJob(x)
    <3>1. Interrupt(x)
      BY <1>3, <2>3 DEF InterruptPool
    <3>2. pc' = [pc EXCEPT ![x] = "exited"] /\ x # w
      BY <2>3, <3>1 DEF Interrupt, CurrentClaim
    <3>. QED
      BY <3>2
  <2>. QED
    BY <2>1, <2>2, <2>3
<1>4. ASSUME NEW x \in Workers, CrashPool(x) \/ \E running \in 0 .. Running : LaunchPool(x, running) PROVE FALSE
  BY <1>4 DEF CrashPool, Crash, Gone, LaunchPool
<1>5. ASSUME NEW x \in Workers, ReleaseAndExitPool(x)
      PROVE  \/ ReleaseAndExit(w) /\ ~J!InJob(w)
             \/ J!ReleaseAndExit(w) /\ ~InRunVideo(w)
  <2>1. x = w
    BY <1>5 DEF ReleaseAndExitPool, ReleaseAndExit, Gone
  <2>. QED
    BY <1>5, <2>1 DEF ReleaseAndExitPool, ReleaseAndExit, J!ReleaseAndExit
<1>. QED
  BY <1>1, <1>2, <1>3, <1>4, <1>5 DEF PoolNext, PoolInstanceStep

LEMMA StepReturnsRightClaim == PoolInv /\ [PoolNext]_poolVars => RightClaim
<1>. SUFFICES ASSUME PoolInv, [PoolNext]_poolVars, NEW w \in Workers, Up(w), pc'[w] = "exited",
                     InRunVideo(w) \/ J!InJob(w)
              PROVE  /\ InRunVideo(w) => ~(status'[held[w]] = "processing" /\ lockedBy'[held[w]] = w)
                     /\ J!InJob(w)    => ~(job'[jobHeld[w]] = "processing" /\ jobLockedBy'[jobHeld[w]] = w)
  BY DEF RightClaim
<1>1. CASE ReleaseAndExit(w) /\ ~J!InJob(w)
  <2>1. held[w] \in Videos /\ held[w] = releasing[w]
    BY <1>1, NullsAssumption DEF ReleaseAndExit, InRunVideo, PoolInv, LoopsAgree, VideoInv, WellTyped, RunHolds
  <2>. QED
    BY <1>1, <2>1 DEF ReleaseAndExit, ReleaseClaim, Owns, rowVars, PoolInv, VideoInv, WellTyped, TypeOK
<1>2. CASE J!ReleaseAndExit(w) /\ ~InRunVideo(w)
  <2>1. jobHeld[w] \in J!Jobs /\ jobHeld[w] = jobReleasing[w]
    BY <1>2, JobsAssumption
    DEF J!ReleaseAndExit, J!InJob, JP!InJob, PoolInv, LoopsAgree, JP!IInv, JP!WellTyped, JP!RunHolds, J!Jobs, JP!Jobs
  <2>2. job \in [J!Jobs -> J!JobStatus]
    BY DEF PoolInv, JP!IInv, JP!WellTyped, JP!TypeOK, J!Jobs, JP!Jobs, J!JobStatus, JP!JobStatus
  <2>. QED
    BY <1>2, <2>1, <2>2 DEF J!ReleaseAndExit, J!ReleaseJobClaim, J!Owns, J!jobVars
<1>. QED
  BY <1>1, <1>2, ExitReleases

(* Whichever half of the loop the notice meets, a worker that exits after it  *)
(* leaves neither the video nor the job that it ran "processing" in its name. *)
THEOREM RightClaimIsReturned == PoolSpec => RightClaimReturned
<1>1. PoolInv /\ [PoolNext]_poolVars => [RightClaim]_poolVars
  BY StepReturnsRightClaim
<1>2. PoolSpec => [][RightClaim]_poolVars
  BY <1>1, PoolInvariant, PTL DEF PoolSpec
<1>. QED
  BY <1>2 DEF RightClaim, RightClaimReturned
-----------------------------------------------------------------------------
(* What the two queues promise of each step, the pool keeps as well.          *)

(* A video that turns to "cancelled" when it was ready, or a worker that goes *)
(* from one queue to the other, ends no claim.                             *)
LEMMA HalfEndsClaims == VideoInv /\ LeaverHoldsOnlyItsRelease /\ VideoHalf => ClaimEnds
<1>. SUFFICES ASSUME VideoInv, LeaverHoldsOnlyItsRelease, VideoHalf PROVE ClaimEnds
  OBVIOUS
<1>1. CASE [Next]_vars
  BY <1>1, StepEndsClaims DEF VideoInv
<1>2. ASSUME NEW v \in Videos, RowRetired(v) PROVE ClaimEnds
  BY <1>2 DEF RowRetired, ClaimEnds, VideoInv, WellTyped, TypeOK
<1>3. ASSUME NEW w \in Workers, TurnOfVideos(w) PROVE ClaimEnds
  BY <1>3 DEF TurnOfVideos, ClaimEnds, rowVars
<1>. QED
  BY <1>1, <1>2, <1>3 DEF VideoHalf

(* Also when workers turn from queue to queue, a worker that lost its video   *)
(* never clobbers the row of the next owner.                               *)
THEOREM PoolEndsClaimsRightly == PoolSpec => ClaimEndsByOwnerReaperOrCancel
<1>0. PoolInv => LeaverHoldsOnlyItsRelease
  BY DEF PoolInv, LoopsAgree, LeaverHoldsOnlyItsRelease
<1>1. PoolInv /\ [PoolNext]_poolVars => [ClaimEnds]_vars
  BY <1>0, StepOfVideoHalf, HalfEndsClaims DEF PoolInv
<1>2. PoolSpec => [][ClaimEnds]_vars
  BY <1>1, PoolInvariant, PTL DEF PoolSpec
<1>. QED
  BY <1>2 DEF ClaimEnds, ClaimEndsByOwnerReaperOrCancel

LEMMA HalfEndsJobs == PoolInv /\ JobHalf => JP!Ends
<1>. SUFFICES ASSUME PoolInv, JobHalf PROVE JP!Ends
  OBVIOUS
<1>1. CASE [JP!Next]_(JP!vars)
  BY <1>1, JP!StepEndsJobs, JobAssumptions DEF PoolInv
<1>2. CASE UNCHANGED <<job, jobLockedBy>>
  BY <1>2 DEF JP!Ends
<1>. QED
  BY <1>1, <1>2 DEF JobHalf, TurnOfJobs, CancelledEarly, jobVars, jobRowVars

(* And one that lost its job never clobbers the job of the next owner.        *)
THEOREM PoolEndsJobsRightly == PoolSpec => J!JobEndsByOwnerOrReaper
<1>1. PoolInv /\ [PoolNext]_poolVars => [JP!Ends]_(JP!vars)
  BY StepOfJobHalf, HalfEndsJobs
<1>2. PoolSpec => [][JP!Ends]_(JP!vars)
  BY <1>1, PoolInvariant, PTL DEF PoolSpec
<1>3. JP!vars = J!vars
  BY DEF JP!vars, JP!videoVars, JP!jobVars, JP!workerVars, J!vars, J!videoVars, J!jobVars, J!workerVars
<1>. QED
  BY <1>2
  DEF JP!Ends, J!JobEndsByOwnerOrReaper, J!Jobs, JP!Jobs, J!Stale, JP!Stale,
      JP!vars, JP!videoVars, JP!jobVars, JP!workerVars, J!vars, J!videoVars, J!jobVars, J!workerVars
-----------------------------------------------------------------------------
(* The pool implements VideoLifecycle.                                      *)

LEMMA HalfImplementsLifecycle ==
  LifecycleInv /\ VideoHalf => [Lifecycle!Next]_(Lifecycle!lvars)
<1>. SUFFICES ASSUME LifecycleInv, VideoHalf PROVE [Lifecycle!Next]_(Lifecycle!lvars)
  OBVIOUS
<1>1. CASE [Next]_vars
  BY <1>1, StepImplementsLifecycle
<1>2. ASSUME NEW v \in Videos, RowRetired(v) PROVE Lifecycle!Withdraw(v)
  BY <1>2 DEF RowRetired, Lifecycle!Withdraw, Lifecycle!Move
<1>3. ASSUME NEW w \in Workers, TurnOfVideos(w) PROVE UNCHANGED Lifecycle!lvars
  BY <1>3, NothingForTheLifecycle DEF TurnOfVideos, rowVars
<1>. QED
  BY <1>1, <1>2, <1>3 DEF VideoHalf, Lifecycle!Next

(* Two queues, one pool of workers, interruptions, crashes, lost answers and  *)
(* the tenant admin together do no more to a video than VideoLifecycle allows: *)
(* a run that comes back from a job spends, refunds and publishes as before,  *)
(* and only a published video is withdrawn.                                *)
THEOREM PoolImplementsLifecycle == PoolSpec => ImplementsLifecycle
<1>1. PoolInit => Lifecycle!Init
  BY InitMapped DEF PoolInit
<1>2. PoolInv => LifecycleInv
  <2>1. PoolInv => \A v \in Videos : status[v] = "processing" => seeded[v] = 0
    BY DEF PoolInv, FlipBringsJobs
  <2>. QED
    BY <2>1 DEF PoolInv, VideoInv, LifecycleInv
<1>3. PoolInv /\ [PoolNext]_poolVars => [Lifecycle!Next]_(Lifecycle!lvars)
  BY <1>2, StepOfVideoHalf, HalfImplementsLifecycle
<1>. QED
  BY <1>1, <1>3, PoolInvariant, PTL DEF PoolSpec, ImplementsLifecycle, Lifecycle!Spec
=============================================================================
