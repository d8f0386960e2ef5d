--------------------------- MODULE JobQueueProofs ---------------------------
(***************************************************************************)
(* Proofs about JobQueue for any set of videos, kinds of jobs and workers    *)
(* and any attempt budget.                                                  *)
(***************************************************************************)
EXTENDS JobQueue, TLAPS

(* A worker between its claim and the end of runBackgroundJob has a job in   *)
(* hand, and one whose release is in flight has not exited yet.             *)
RunHolds ==
  \A w \in Workers :
    /\ pc[w] = "claimed" \/ InJob(w) => held[w] \in Jobs
    /\ Leaving(w) => Up(w)

WellTyped == TypeOK /\ RunHolds

(* A claimed job has been charged for its claim, so that a refund leaves a    *)
(* natural number; a job that waits has an attempt left.                    *)
JobsCharged ==
  \A j \in Jobs :
    /\ job[j] = "none"   => attempts[j] = 0
    /\ job[j] = "queued" => attempts[j] < MaxAttempts
    /\ job[j] \in {"processing", "done"} => attempts[j] \in 1 .. MaxAttempts
    /\ job[j] = "failed" => attempts[j] = MaxAttempts

(* Jobs are inserted with the ready flip of their video, and by nothing else. *)
NoJobBeforeReady ==
  \A j \in Jobs : video[VideoOf(j)] = "processing" => job[j] = "none"

(* A run that has come to mark its artifact has put its objects; one that has *)
(* come to close the job it still owns finds the artifact ready, although     *)
(* others may have written to it since.                                    *)
RunPublished ==
  \A w \in Workers :
    /\ pc[w] \in {"mark", "done"} => inR2[held[w]]
    /\ pc[w] = "done" /\ Owns(w, held[w]) => artifact[held[w]] = "ready"

IInv == WellTyped /\ JobsCharged /\ NoJobBeforeReady /\ RunPublished /\ DoneMeansPublished

USE LimitAssumption, NullsAssumption

LEMMA VideoOfTyped == \A j \in Jobs : VideoOf(j) \in Videos
  BY DEF Jobs, VideoOf

LEMMA InitEstablishesIInv == Init => IInv
  BY VideoOfTyped
  DEF Init, IInv, WellTyped, TypeOK, RunHolds, InJob, Leaving, Up, Owns, PC, VideoStatus,
      ArtifactStatus, JobStatus, JobsCharged, NoJobBeforeReady, RunPublished, DoneMeansPublished

LEMMA StepKeepsTypes == WellTyped /\ JobsCharged /\ [Next]_vars => WellTyped'
<1>. SUFFICES ASSUME WellTyped, JobsCharged, [Next]_vars PROVE WellTyped'
  OBVIOUS
<1>. USE DEF WellTyped, TypeOK, RunHolds, InJob, Leaving, Up, Owns, PC, VideoStatus, ArtifactStatus,
             JobStatus, videoVars, jobVars, workerVars, Unlock, Goto, EndOfJob, EndBackgroundJob, Gone
<1>. QED
  <2>1. ASSUME NEW v \in Videos, MarkReadyAndEnqueue(v) PROVE WellTyped'
    BY <2>1 DEF MarkReadyAndEnqueue
  <2>2. ASSUME NEW v \in Videos, RetireVideo(v) PROVE WellTyped'
    BY <2>2 DEF RetireVideo
  <2>3. ASSUME NEW j \in Jobs, HeartbeatExpires(j) PROVE WellTyped'
    BY <2>3 DEF HeartbeatExpires
  <2>4. ASSUME NEW j \in Jobs, LockExpires(j) PROVE WellTyped'
    BY <2>4 DEF LockExpires
  <2>5. ASSUME NEW w \in Workers, SetArtifactProcessing(w) PROVE WellTyped'
    BY <2>5 DEF SetArtifactProcessing
  <2>6. ASSUME NEW w \in Workers, WorkDone(w) PROVE WellTyped'
    BY <2>6 DEF WorkDone
  <2>7. ASSUME NEW w \in Workers, PutLands(w) PROVE WellTyped'
    BY <2>7 DEF PutLands
  <2>8. ASSUME NEW w \in Workers, PutDone(w) PROVE WellTyped'
    BY <2>8 DEF PutDone
  <2>9. ASSUME NEW w \in Workers, MarkArtifactReady(w) PROVE WellTyped'
    BY <2>9 DEF MarkArtifactReady
  <2>10. ASSUME NEW w \in Workers, FinishJob(w) PROVE WellTyped'
    BY <2>10 DEF FinishJob, MarkJobDone
  <2>11. ASSUME NEW w \in Workers, FinishThrows(w) PROVE WellTyped'
    BY <2>11 DEF FinishThrows, MarkJobDone
  <2>12. ASSUME NEW w \in Workers, JobThrows(w) PROVE WellTyped'
    BY <2>12 DEF JobThrows
  <2>13. ASSUME NEW w \in Workers, FailJob(w) PROVE WellTyped'
    BY <2>13 DEF FailJob, FailOrRequeueJob, Requeued
  <2>14. ASSUME NEW w \in Workers, FailJobThrows(w) PROVE WellTyped'
    BY <2>14 DEF FailJobThrows
  <2>15. ASSUME NEW w \in Workers, PeriodicBeat(w) PROVE WellTyped'
    BY <2>15 DEF PeriodicBeat, HeartbeatLands, Beating
  <2>16. ASSUME NEW w \in Workers, ClaimNextJob(w) PROVE WellTyped'
    BY <2>16 DEF ClaimNextJob, Claimable, InStatus
  <2>17. ASSUME NEW w \in Workers, StartJob(w) PROVE WellTyped'
    BY <2>17 DEF StartJob
  <2>18. ASSUME NEW w \in Workers, ClaimAnswerLost(w) PROVE WellTyped'
    BY <2>18 DEF ClaimAnswerLost
  <2>19. ASSUME NEW w \in Workers, ClaimNothing(w) PROVE WellTyped'
    BY <2>19 DEF ClaimNothing
  <2>20. ASSUME NEW w \in Workers, SelfTerminate(w) PROVE WellTyped'
    BY <2>20 DEF SelfTerminate
  <2>21. ASSUME NEW w \in Workers, Interrupt(w) PROVE WellTyped'
    <3>1. CASE CurrentClaim(w) = NoJob
      <4>1. Gone(w) /\ UNCHANGED <<videoVars, jobVars>>
        BY <2>21, <3>1 DEF Interrupt
      <4>. QED
        BY <4>1
    <3>2. CASE CurrentClaim(w) # NoJob
      <4>1. CurrentClaim(w) \in Jobs
        BY <3>2 DEF CurrentClaim
      <4>2. /\ UNCHANGED <<videoVars, jobVars, pc, held, aborted>>
            /\ releasing' = [releasing EXCEPT ![w] = CurrentClaim(w)]
        BY <2>21, <3>2 DEF Interrupt
      <4>3. Up(w)
        BY <2>21 DEF Interrupt
      <4>. QED
        BY <4>1, <4>2, <4>3
    <3>. QED
      BY <3>1, <3>2
  <2>22. ASSUME NEW w \in Workers, ReleaseAndExit(w) PROVE WellTyped'
    <3>1. releasing[w] \in Jobs
      BY <2>22 DEF ReleaseAndExit
    <3>2. CASE Owns(w, releasing[w])
      <4>1. attempts[releasing[w]] - 1 \in Nat
        BY <3>1, <3>2 DEF JobsCharged
      <4>2. UNCHANGED <<video, artifact, inR2>>
        BY <2>22 DEF ReleaseAndExit
      <4>3. /\ job' = [job EXCEPT ![releasing[w]] = "queued"]
            /\ attempts' = [attempts EXCEPT ![releasing[w]] = @ - 1]
            /\ Unlock({releasing[w]})
        BY <2>22, <3>2 DEF ReleaseAndExit, ReleaseJobClaim
      <4>4. Gone(w)
        BY <2>22 DEF ReleaseAndExit
      <4>5. /\ job' \in [Jobs -> JobStatus]
            /\ attempts' \in [Jobs -> Nat]
        BY <4>1, <4>3
      <4>. QED
        BY <4>2, <4>3, <4>4, <4>5
    <3>3. CASE ~Owns(w, releasing[w])
      BY <2>22, <3>3 DEF ReleaseAndExit, ReleaseJobClaim
    <3>. QED
      BY <3>2, <3>3
  <2>23. ASSUME NEW w \in Workers, Crash(w) PROVE WellTyped'
    BY <2>23 DEF Crash
  <2>24. ASSUME NEW w \in Workers, LaunchWorker(w) PROVE WellTyped'
    BY <2>24 DEF LaunchWorker, Launch
  <2>25. CASE JobReap
    BY <2>25 DEF JobReap, Stale, Requeued
  <2>26. CASE JobReconcile
    BY <2>26 DEF JobReconcile
  <2>27. CASE JobCancel
    BY <2>27 DEF JobCancel
  <2>28. CASE UNCHANGED vars
    BY <2>28 DEF vars
  <2>. QED
    BY <2>1, <2>2, <2>3, <2>4, <2>5, <2>6, <2>7, <2>8, <2>9, <2>10, <2>11, <2>12, <2>13, <2>14, <2>15, <2>16, <2>17, <2>18, <2>19, <2>20, <2>21, <2>22, <2>23, <2>24, <2>25, <2>26, <2>27, <2>28
    DEF Next, JobStep, LoopStep, InstanceStep, TickStep

(* What one step can do to a job row: nothing; the INSERT with the ready flip; *)
(* the claim; the cancellation; the reaper's requeue of a stale claim; or the *)
(* owner's own close, requeue or refund, after which it has moved on.        *)
JobMove(j) ==
  \/ job'[j] = job[j] /\ lockedBy'[j] = lockedBy[j] /\ attempts'[j] = attempts[j]
  \/ /\ job[j] = "none" /\ job'[j] = "queued" /\ attempts'[j] = attempts[j]
     /\ video'[VideoOf(j)] = "ready"
  \/ /\ job[j] = "queued" /\ job'[j] = "processing" /\ attempts'[j] = attempts[j] + 1
     /\ pc[lockedBy'[j]] \in {"poll", "idle"} /\ pc'[lockedBy'[j]] = "claimed"
  \/ job[j] = "queued" /\ job'[j] = "cancelled"
  \/ Stale(j) /\ job'[j] = Requeued(j) /\ attempts'[j] = attempts[j] /\ UNCHANGED workerVars
  \/ \E w \in Workers :
       /\ Owns(w, j) /\ pc'[w] # pc[w]
       /\ \/ /\ j = held[w] /\ attempts'[j] = attempts[j]
             /\ job'[j] = Requeued(j) \/ (job'[j] = "done" /\ pc[w] = "done")
          \/ j = releasing[w] /\ job'[j] = "queued" /\ attempts'[j] = attempts[j] - 1

(* What one step can do to an artifact, its objects and its video.          *)
ArtifactMove(j) ==
  /\ video'[VideoOf(j)] = "processing" => video[VideoOf(j)] = "processing"
  /\ inR2[j] => inR2'[j]
  /\ \/ artifact'[j] = artifact[j]
     \/ job[j] = "none" /\ artifact'[j] # "ready"
     \/ artifact[j] = "pending" /\ artifact'[j] = "processing"
     \/ inR2[j] /\ artifact'[j] = "ready"
     \/ job'[j] = "failed" /\ artifact'[j] = "failed"

(* How a run gets to "mark" and from there to "done". *)
RunMove(w) ==
  pc'[w] \in {"mark", "done"} =>
    /\ held'[w] = held[w]
    /\ \/ pc'[w] = pc[w]
       \/ pc[w] = "put" /\ pc'[w] = "mark" /\ inR2'[held[w]]
       \/ pc[w] = "mark" /\ pc'[w] = "done" /\ artifact'[held[w]] = "ready"

Moves == (\A j \in Jobs : JobMove(j) /\ ArtifactMove(j)) /\ (\A w \in Workers : RunMove(w))

(* Every action is a combination of these moves; a job is inserted only once *)
(* because its video was not ready before.                                  *)
LEMMA NextMoves == IInv /\ [Next]_vars => Moves
<1>. SUFFICES ASSUME IInv, [Next]_vars PROVE Moves
  OBVIOUS
<1>. USE VideoOfTyped DEF IInv, WellTyped, TypeOK, RunHolds, InJob, Leaving, Up, Owns, PC, videoVars, jobVars, workerVars,
             Unlock, Goto, EndOfJob, EndBackgroundJob, Gone, Moves, JobMove, ArtifactMove, RunMove
<1>. QED
  <2>1. ASSUME NEW v \in Videos, MarkReadyAndEnqueue(v) PROVE Moves
    <3>1. /\ video[v] = "processing" /\ video' = [video EXCEPT ![v] = "ready"]
          /\ UNCHANGED <<inR2, lockedBy, attempts, workerVars>>
      BY <2>1 DEF MarkReadyAndEnqueue
    <3>2. PICK kinds \in {Kinds, {"DOWNLOAD"}} :
            /\ job' = [j \in Jobs |->
                 IF VideoOf(j) = v /\ j[2] \in kinds THEN "queued" ELSE job[j]]
            /\ artifact' = [j \in Jobs |->
                 IF VideoOf(j) # v THEN artifact[j]
                 ELSE IF j[2] \in kinds THEN "pending" ELSE "skipped"]
      BY <2>1 DEF MarkReadyAndEnqueue
    <3>3. ASSUME NEW j \in Jobs PROVE JobMove(j) /\ ArtifactMove(j)
      <4>1. VideoOf(j) = v => job[j] = "none"
        BY <3>1 DEF NoJobBeforeReady
      <4>. QED
        BY <3>1, <3>2, <4>1
    <3>4. ASSUME NEW w \in Workers PROVE RunMove(w)
      BY <3>1
    <3>. QED
      BY <3>3, <3>4
  <2>2. ASSUME NEW v \in Videos, RetireVideo(v) PROVE Moves
    BY <2>2 DEF RetireVideo
  <2>3. ASSUME NEW i \in Jobs, HeartbeatExpires(i) PROVE Moves
    BY <2>3 DEF HeartbeatExpires
  <2>4. ASSUME NEW i \in Jobs, LockExpires(i) PROVE Moves
    BY <2>4 DEF LockExpires
  <2>5. ASSUME NEW w \in Workers, SetArtifactProcessing(w) PROVE Moves
    BY <2>5 DEF SetArtifactProcessing
  <2>6. ASSUME NEW w \in Workers, WorkDone(w) PROVE Moves
    BY <2>6 DEF WorkDone
  <2>7. ASSUME NEW w \in Workers, PutLands(w) PROVE Moves
    BY <2>7 DEF PutLands
  <2>8. ASSUME NEW w \in Workers, PutDone(w) PROVE Moves
    BY <2>8 DEF PutDone
  <2>9. ASSUME NEW w \in Workers, MarkArtifactReady(w) PROVE Moves
    <3>1. held[w] \in Jobs /\ inR2[held[w]]
      BY <2>9 DEF MarkArtifactReady, RunPublished
    <3>. QED
      BY <2>9, <3>1 DEF MarkArtifactReady
  <2>10. ASSUME NEW w \in Workers, FinishJob(w) PROVE Moves
    BY <2>10 DEF FinishJob, MarkJobDone
  <2>11. ASSUME NEW w \in Workers, FinishThrows(w) PROVE Moves
    BY <2>11 DEF FinishThrows, MarkJobDone
  <2>12. ASSUME NEW w \in Workers, JobThrows(w) PROVE Moves
    BY <2>12 DEF JobThrows
  <2>13. ASSUME NEW w \in Workers, FailJob(w) PROVE Moves
    <3>1. held[w] \in Jobs /\ UNCHANGED <<video, inR2>>
      BY <2>13 DEF FailJob
    <3>2. pc' = [pc EXCEPT ![w] = "poll"] /\ pc[w] = "fail"
      BY <2>13 DEF FailJob
    <3>3. CASE Owns(w, held[w])
      <4>1. /\ job' = [job EXCEPT ![held[w]] = Requeued(held[w])]
            /\ artifact' = [artifact EXCEPT ![held[w]] =
                                IF Requeued(held[w]) = "failed" THEN "failed" ELSE @]
            /\ Unlock({held[w]}) /\ UNCHANGED attempts
        BY <2>13, <3>3 DEF FailJob, FailOrRequeueJob
      <4>2. held' = [held EXCEPT ![w] = NoJob]
        BY <2>13 DEF FailJob
      <4>3. ASSUME NEW j \in Jobs PROVE JobMove(j)
        <5>1. CASE j = held[w]
          <6>1. job'[j] = Requeued(j) /\ attempts'[j] = attempts[j]
            BY <4>1, <5>1
          <6>2. pc'[w] # pc[w]
            BY <3>2
          <6>. QED
            BY <3>3, <5>1, <6>1, <6>2
        <5>2. CASE j # held[w]
          BY <4>1, <5>2
        <5>. QED
          BY <5>1, <5>2
      <4>4. ASSUME NEW j \in Jobs PROVE ArtifactMove(j)
        BY <3>1, <4>1 DEF Requeued
      <4>5. ASSUME NEW x \in Workers PROVE RunMove(x)
        BY <3>1, <3>2, <4>2
      <4>. QED
        BY <4>3, <4>4, <4>5
    <3>4. CASE ~Owns(w, held[w])
      BY <2>13, <3>4 DEF FailJob, FailOrRequeueJob
    <3>. QED
      BY <3>3, <3>4
  <2>14. ASSUME NEW w \in Workers, FailJobThrows(w) PROVE Moves
    BY <2>14 DEF FailJobThrows
  <2>15. ASSUME NEW w \in Workers, PeriodicBeat(w) PROVE Moves
    BY <2>15 DEF PeriodicBeat, Beating
  <2>16. ASSUME NEW w \in Workers, ClaimNextJob(w) PROVE Moves
    BY <2>16 DEF ClaimNextJob, Claimable, InStatus
  <2>17. ASSUME NEW w \in Workers, StartJob(w) PROVE Moves
    BY <2>17 DEF StartJob
  <2>18. ASSUME NEW w \in Workers, ClaimAnswerLost(w) PROVE Moves
    BY <2>18 DEF ClaimAnswerLost
  <2>19. ASSUME NEW w \in Workers, ClaimNothing(w) PROVE Moves
    BY <2>19 DEF ClaimNothing
  <2>20. ASSUME NEW w \in Workers, SelfTerminate(w) PROVE Moves
    BY <2>20 DEF SelfTerminate
  <2>21. ASSUME NEW w \in Workers, Interrupt(w) PROVE Moves
    BY <2>21 DEF Interrupt
  <2>22. ASSUME NEW w \in Workers, ReleaseAndExit(w) PROVE Moves
    BY <2>22 DEF ReleaseAndExit, ReleaseJobClaim
  <2>23. ASSUME NEW w \in Workers, Crash(w) PROVE Moves
    BY <2>23 DEF Crash
  <2>24. ASSUME NEW w \in Workers, LaunchWorker(w) PROVE Moves
    BY <2>24 DEF LaunchWorker, Launch
  <2>25. CASE JobReap
    BY <2>25 DEF JobReap
  <2>26. CASE JobReconcile
    BY <2>26 DEF JobReconcile
  <2>27. CASE JobCancel
    BY <2>27 DEF JobCancel
  <2>28. CASE UNCHANGED vars
    BY <2>28 DEF vars
  <2>. QED
    BY <2>1, <2>2, <2>3, <2>4, <2>5, <2>6, <2>7, <2>8, <2>9, <2>10, <2>11, <2>12, <2>13, <2>14, <2>15, <2>16, <2>17, <2>18, <2>19, <2>20, <2>21, <2>22, <2>23, <2>24, <2>25, <2>26, <2>27, <2>28
    DEF Next, JobStep, LoopStep, InstanceStep, TickStep

LEMMA MovesKeepCharges ==
  ASSUME WellTyped, JobsCharged, \A j \in Jobs : JobMove(j)
  PROVE  JobsCharged'
<1>. SUFFICES ASSUME NEW j \in Jobs
              PROVE  /\ job'[j] = "none"   => attempts'[j] = 0
                     /\ job'[j] = "queued" => attempts'[j] < MaxAttempts
                     /\ job'[j] \in {"processing", "done"} => attempts'[j] \in 1 .. MaxAttempts
                     /\ job'[j] = "failed" => attempts'[j] = MaxAttempts
  BY DEF JobsCharged
<1>1. attempts[j] \in Nat /\ JobMove(j)
  BY DEF WellTyped, TypeOK
<1>. QED
  BY <1>1 DEF JobsCharged, JobMove, Stale, Owns, Requeued

(* A video never becomes "processing" again, and a job that is inserted is   *)
(* inserted with the flip of its own video.                                *)
LEMMA MovesKeepNoJobBeforeReady ==
  ASSUME IInv, Moves
  PROVE  NoJobBeforeReady'
  BY DEF IInv, NoJobBeforeReady, Moves, ArtifactMove, JobMove, Stale, Owns

LEMMA MovesKeepPublished ==
  ASSUME IInv, Moves
  PROVE  RunPublished' /\ DoneMeansPublished'
<1>. USE DEF IInv, WellTyped, TypeOK, RunHolds
<1>1. ASSUME NEW w \in Workers, pc'[w] \in {"mark", "done"}
      PROVE  /\ inR2'[held'[w]]
             /\ pc'[w] = "done" /\ Owns(w, held[w])' => artifact'[held'[w]] = "ready"
  <2>1. RunMove(w) /\ held'[w] = held[w]
    BY <1>1 DEF Moves, RunMove
  <2>2. held[w] \in Jobs
    BY <1>1, <2>1 DEF RunMove, InJob
  <2>3. JobMove(held[w]) /\ ArtifactMove(held[w])
    BY <2>2 DEF Moves
  <2>4. inR2'[held[w]]
    BY <1>1, <2>1, <2>3 DEF RunMove, ArtifactMove, RunPublished
  <2>5. ASSUME pc'[w] = "done", Owns(w, held[w])' PROVE artifact'[held[w]] = "ready"
    <3>1. CASE pc[w] = "mark"
      BY <2>1, <2>5, <3>1 DEF RunMove
    <3>2. CASE pc[w] = "done"
      <4>1. job'[held[w]] = "processing" /\ lockedBy'[held[w]] = w
        BY <2>1, <2>5 DEF Owns
      <4>2. Owns(w, held[w])
        BY <2>3, <2>5, <3>2, <4>1 DEF JobMove, Owns, Stale, Requeued
      <4>3. artifact[held[w]] = "ready"
        BY <3>2, <4>2 DEF RunPublished
      <4>. QED
        BY <2>3, <4>1, <4>2, <4>3 DEF ArtifactMove, Owns
    <3>. QED
      BY <2>1, <2>5, <3>1, <3>2 DEF RunMove
  <2>. QED
    BY <2>1, <2>4, <2>5
<1>2. ASSUME NEW j \in Jobs
      PROVE  /\ job'[j] = "done" => artifact'[j] = "ready"
             /\ artifact'[j] = "ready" => inR2'[j]
  <2>1. JobMove(j) /\ ArtifactMove(j)
    BY DEF Moves
  <2>2. (job[j] = "done" => artifact[j] = "ready") /\ (artifact[j] = "ready" => inR2[j])
    BY DEF DoneMeansPublished
  <2>3. ASSUME job'[j] = "done" PROVE job[j] # "none" /\ artifact[j] = "ready"
    BY <2>1, <2>2, <2>3 DEF JobMove, Requeued, Owns, RunPublished
  <2>. QED
    BY <2>1, <2>2, <2>3 DEF ArtifactMove
<1>. QED
  BY <1>1, <1>2 DEF RunPublished, DoneMeansPublished

LEMMA IInvInductive == IInv /\ [Next]_vars => IInv'
<1>. SUFFICES ASSUME IInv, [Next]_vars PROVE IInv'
  OBVIOUS
<1>1. WellTyped'
  BY StepKeepsTypes DEF IInv
<1>2. Moves
  BY NextMoves
<1>3. JobsCharged'
  BY <1>2, MovesKeepCharges DEF IInv, Moves
<1>4. NoJobBeforeReady'
  BY <1>2, MovesKeepNoJobBeforeReady
<1>5. RunPublished' /\ DoneMeansPublished'
  BY <1>2, MovesKeepPublished
<1>. QED
  BY <1>1, <1>3, <1>4, <1>5 DEF IInv

LEMMA SpecKeepsIInv == Spec => []IInv
  BY InitEstablishesIInv, IInvInductive, PTL DEF Spec

(* The rows, the artifact columns and the workers keep their types: no        *)
(* refund of an attempt drives `attempts` below zero, and no worker runs a   *)
(* job it does not have.                                                   *)
THEOREM JobsTyped == Spec => []TypeOK
<1>1. IInv => TypeOK
  BY DEF IInv, WellTyped
<1>. QED
  BY <1>1, SpecKeepsIInv, PTL

(* However claims, refunds, reaps and interruptions interleave, a job is      *)
(* charged between one and max_attempts claims while it runs, a waiting job   *)
(* always has an attempt left, and a job only fails with its budget spent.   *)
THEOREM JobBudgetKept == Spec => []JobsCharged
<1>1. IInv => JobsCharged
  BY DEF IInv
<1>. QED
  BY <1>1, SpecKeepsIInv, PTL

(* The two tables agree on success: a job that is done left its artifact ready *)
(* and a ready artifact has its objects in R2, although markCaptionsReady and *)
(* markMp4Ready are not guarded by the claim.                              *)
THEOREM DonePublished == Spec => []DoneMeansPublished
<1>1. IInv => DoneMeansPublished
  BY DEF IInv
<1>. QED
  BY <1>1, SpecKeepsIInv, PTL

(* What JobEndsByOwnerOrReaper says of one step. *)
Ends ==
  \A j \in Jobs :
    /\ job[j] \in {"done", "failed", "cancelled"} => job'[j] = job[j]
    /\ job[j] = "processing" /\ (job'[j] # "processing" \/ lockedBy'[j] # lockedBy[j]) =>
         \/ Stale(j) /\ UNCHANGED workerVars
         \/ /\ j \in {held[lockedBy[j]], releasing[lockedBy[j]]}
            /\ pc'[lockedBy[j]] # pc[lockedBy[j]]

LEMMA StepEndsJobs == IInv /\ [Next]_vars => Ends
<1>. SUFFICES ASSUME IInv, [Next]_vars, NEW j \in Jobs
              PROVE  /\ job[j] \in {"done", "failed", "cancelled"} => job'[j] = job[j]
                     /\ job[j] = "processing" /\ (job'[j] # "processing" \/ lockedBy'[j] # lockedBy[j]) =>
                          \/ Stale(j) /\ UNCHANGED workerVars
                          \/ /\ j \in {held[lockedBy[j]], releasing[lockedBy[j]]}
                             /\ pc'[lockedBy[j]] # pc[lockedBy[j]]
  BY DEF Ends
<1>1. JobMove(j)
  BY NextMoves DEF Moves
<1>2. job[j] \in {"done", "failed", "cancelled"} => job'[j] = job[j]
  BY <1>1 DEF JobMove, Stale, Owns
<1>3. ASSUME job[j] = "processing", job'[j] # "processing" \/ lockedBy'[j] # lockedBy[j]
      PROVE  \/ Stale(j) /\ UNCHANGED workerVars
             \/ /\ j \in {held[lockedBy[j]], releasing[lockedBy[j]]}
                /\ pc'[lockedBy[j]] # pc[lockedBy[j]]
  BY <1>1, <1>3 DEF JobMove, Owns
<1>. QED
  BY <1>2, <1>3

(* A claim of a job ends by a step of its owner or by the reaper, and a closed *)
(* job stays closed: no reaped worker clobbers the job of the next one.      *)
THEOREM JobEnds == Spec => JobEndsByOwnerOrReaper
<1>1. IInv /\ [Next]_vars => [Ends]_vars
  BY StepEndsJobs
<1>2. Spec => [][Ends]_vars
  BY <1>1, SpecKeepsIInv, PTL DEF Spec
<1>. QED
  BY <1>2 DEF Ends, JobEndsByOwnerOrReaper
=============================================================================
