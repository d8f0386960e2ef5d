-------------------------- MODULE VideoQueueProofs --------------------------
(***************************************************************************)
(* Proofs about VideoQueue for any set of rows and workers, any attempt    *)
(* budget and any DIVISOR.                                                 *)
(***************************************************************************)
EXTENDS VideoQueue, TLAPS

(* A worker between its claim and the end of runVideo has a video in hand. *)
RunHolds ==
  \A w \in Workers : pc[w] \in {"claimed", "run", "finish", "fail"} => held[w] \in Videos

WellTyped == TypeOK /\ RunHolds

(* The inductive invariant: a refund keeps attempts a natural number only  *)
(* because a claimed row has been charged, so typing and accounting are    *)
(* proved together.                                                        *)
IInv == WellTyped /\ AttemptsWithinBudget /\ LocksMatchStatus /\ JobsSeededOnceWithReady

(* What one step of the system may do to one row, timestamps aside.        *)
RowMove(v) ==
  \/ UNCHANGED <<status[v], lockedBy[v], attempts[v], seeded[v]>>
  \/ /\ status[v] = "uploading" /\ status'[v] = "uploaded"
     /\ UNCHANGED <<lockedBy[v], attempts[v], seeded[v]>>
  \/ /\ status[v] = "uploaded" /\ status'[v] = "processing"
     /\ lockedBy'[v] \in Workers /\ attempts'[v] = attempts[v] + 1
     /\ seeded'[v] = seeded[v]
  \/ /\ status[v] = "processing" /\ status'[v] = Requeued(v)
     /\ lockedBy'[v] = NoWorker
     /\ UNCHANGED <<attempts[v], seeded[v]>>
  \/ /\ status[v] = "processing" /\ status'[v] = "uploaded"
     /\ lockedBy'[v] = NoWorker /\ attempts'[v] = attempts[v] - 1
     /\ seeded'[v] = seeded[v]
  \/ /\ status[v] = "processing" /\ status'[v] = "ready"
     /\ seeded'[v] = seeded[v] + 1
     /\ UNCHANGED <<lockedBy[v], attempts[v]>>
  \/ /\ status[v] = "failed" /\ status'[v] = "uploaded"
     /\ lockedBy'[v] = NoWorker /\ attempts'[v] = 0
     /\ seeded'[v] = seeded[v]
  \/ /\ status[v] \notin {"ready", "cancelled"} /\ status'[v] = "cancelled"
     /\ UNCHANGED <<lockedBy[v], attempts[v], seeded[v]>>

USE VideosAssumption, LimitsAssumption, NullsAssumption

LEMMA InitEstablishesIInv == Init => IInv
  BY DEF Init, IInv, WellTyped, TypeOK, RunHolds, Status, PC, Stage,
         AttemptsWithinBudget, LocksMatchStatus, JobsSeededOnceWithReady

LEMMA UnlockTypes ==
  ASSUME TypeOK, NEW S, Unlock(S)
  PROVE  /\ lockedBy' \in [Videos -> Workers \cup {NoWorker}]
         /\ silent' \in [Videos -> BOOLEAN]
         /\ overrun' \in [Videos -> BOOLEAN]
  BY DEF TypeOK, Unlock

LEMMA StepKeepsTypes == WellTyped /\ AttemptsWithinBudget /\ [Next]_vars => WellTyped'
<1>. SUFFICES ASSUME WellTyped, AttemptsWithinBudget, [Next]_vars PROVE WellTyped'
  OBVIOUS
<1>. USE DEF WellTyped, TypeOK, RunHolds, Status, PC, Stage,
             rowVars, workerVars, Unlock, Requeued, EndOfRun, Gone
<1>. QED
  <2>1. ASSUME NEW v \in Videos, MarkUploaded(v) PROVE WellTyped'
    BY <2>1 DEF MarkUploaded
  <2>2. ASSUME NEW v \in Videos, Retry(v) PROVE WellTyped'
    BY <2>2 DEF Retry
  <2>3. ASSUME NEW v \in Videos, Cancel(v) PROVE WellTyped'
    BY <2>3 DEF Cancel
  <2>4. ASSUME NEW v \in Videos, HeartbeatExpires(v) PROVE WellTyped'
    BY <2>4 DEF HeartbeatExpires
  <2>5. ASSUME NEW v \in Videos, LockExpires(v) PROVE WellTyped'
    BY <2>5 DEF LockExpires
  <2>6. ASSUME Reap PROVE WellTyped'
    BY <2>6 DEF Reap, Stale
  <2>7. ASSUME NEW w \in Workers, PeriodicBeat(w) PROVE WellTyped'
    BY <2>7 DEF PeriodicBeat, Heartbeat, Owns
  <2>8. ASSUME NEW w \in Workers, Boundary(w) PROVE WellTyped'
    <3>1. silent' \in [Videos -> BOOLEAN]
      BY <2>8 DEF Boundary, Heartbeat
    <3>2. stage' \in [Workers -> Stage]
      BY <2>8 DEF Boundary, NextStage
    <3>3. /\ pc' \in [Workers -> PC]
          /\ aborted' \in [Workers -> BOOLEAN]
      BY <2>8, ZenonT(20) DEF Boundary
    <3>. QED
      BY <2>8, <3>1, <3>2, <3>3 DEF Boundary, Heartbeat
  <2>9. ASSUME NEW w \in Workers, UploadDone(w) PROVE WellTyped'
    BY <2>9 DEF UploadDone
  <2>10. ASSUME NEW w \in Workers, RunThrows(w) PROVE WellTyped'
    BY <2>10 DEF RunThrows
  <2>11. ASSUME NEW w \in Workers, FinishRun(w) PROVE WellTyped'
    BY <2>11 DEF FinishRun, MarkReadyAndEnqueue, Owns, EndRunVideo
  <2>12. ASSUME NEW w \in Workers, FinishThrows(w) PROVE WellTyped'
    BY <2>12 DEF FinishThrows, MarkReadyAndEnqueue, Owns
  <2>13. ASSUME NEW w \in Workers, FailRun(w) PROVE WellTyped'
    <3>1. held[w] \in Videos
      BY <2>13 DEF FailRun
    <3>2. CASE Owns(w, held[w])
      <4>1. status' \in [Videos -> Status]
        BY <2>13, <3>1, <3>2 DEF FailRun, FailOrRequeue
      <4>2. UNCHANGED <<attempts, seeded>>
        BY <2>13, <3>2 DEF FailRun, FailOrRequeue
      <4>3. /\ lockedBy' \in [Videos -> Workers \cup {NoWorker}]
            /\ silent' \in [Videos -> BOOLEAN] /\ overrun' \in [Videos -> BOOLEAN]
        <5>1. Unlock({held[w]})
          BY ONLY <2>13, <3>2 DEF FailRun, FailOrRequeue
        <5>. QED
          BY ONLY WellTyped, <5>1, UnlockTypes DEF WellTyped
      <4>. QED
        BY <2>13, <4>1, <4>2, <4>3 DEF FailRun, EndRunVideo
    <3>3. CASE ~Owns(w, held[w])
      BY <2>13, <3>1, <3>3 DEF FailRun, FailOrRequeue, EndRunVideo
    <3>. QED
      BY <3>2, <3>3
  <2>14. ASSUME NEW w \in Workers, FailRunThrows(w) PROVE WellTyped'
    BY <2>14 DEF FailRunThrows, EndRunVideo
  <2>15. ASSUME NEW w \in Workers, ClaimNext(w) PROVE WellTyped'
    BY <2>15 DEF ClaimNext, InStatus
  <2>16. ASSUME NEW w \in Workers, StartRun(w) PROVE WellTyped'
    BY <2>16 DEF StartRun
  <2>17. ASSUME NEW w \in Workers, ClaimAnswerLost(w) PROVE WellTyped'
    BY <2>17 DEF ClaimAnswerLost
  <2>18. ASSUME NEW w \in Workers, ClaimNothing(w) PROVE WellTyped'
    BY <2>18 DEF ClaimNothing
  <2>19. ASSUME NEW w \in Workers, IdleGraceOver(w) PROVE WellTyped'
    BY <2>19 DEF IdleGraceOver
  <2>20. ASSUME NEW w \in Workers, SelfTerminate(w) PROVE WellTyped'
    BY <2>20 DEF SelfTerminate
  <2>21. ASSUME NEW w \in Workers, Interrupt(w) PROVE WellTyped'
    BY <2>21 DEF Interrupt, CurrentClaim, InRunVideo
  <2>22. ASSUME NEW w \in Workers, ReleaseAndExit(w) PROVE WellTyped'
    <3>. DEFINE u == releasing[w]
    <3>1. u \in Videos
      BY <2>22 DEF ReleaseAndExit, Leaving
    <3>2. CASE Owns(w, u)
      <4>1. attempts[u] \in 1 .. MaxAttempts
        BY <3>1, <3>2 DEF Owns, AttemptsWithinBudget
      <4>2. attempts[u] - 1 \in Nat
        BY <4>1
      <4>3. /\ attempts' = [attempts EXCEPT ![u] = @ - 1]
            /\ status' = [status EXCEPT ![u] = "uploaded"]
        BY <2>22, <3>2 DEF ReleaseAndExit, ReleaseClaim
      <4>4. attempts' \in [Videos -> Nat] /\ status' \in [Videos -> Status]
        BY <4>2, <4>3
      <4>5. /\ lockedBy' \in [Videos -> Workers \cup {NoWorker}]
            /\ silent' \in [Videos -> BOOLEAN] /\ overrun' \in [Videos -> BOOLEAN]
        <5>1. Unlock({u})
          BY ONLY <2>22, <3>2 DEF ReleaseAndExit, ReleaseClaim
        <5>. QED
          BY ONLY WellTyped, <5>1, UnlockTypes DEF WellTyped
      <4>6. seeded' = seeded
        BY <2>22, <3>2 DEF ReleaseAndExit, ReleaseClaim
      <4>. QED
        BY <2>22, <4>4, <4>5, <4>6 DEF ReleaseAndExit
    <3>3. CASE ~Owns(w, u)
      BY <2>22, <3>1, <3>3 DEF ReleaseAndExit, ReleaseClaim
    <3>. QED
      BY <3>2, <3>3
  <2>23. ASSUME NEW w \in Workers, Crash(w) PROVE WellTyped'
    BY <2>23 DEF Crash
  <2>24. ASSUME NEW w \in Workers, LaunchWorker(w) PROVE WellTyped'
    BY <2>24 DEF LaunchWorker, Launch
  <2>25. CASE UNCHANGED vars
    BY <2>25 DEF vars
  <2>. QED
    BY <2>1, <2>2, <2>3, <2>4, <2>5, <2>6, <2>7, <2>8, <2>9, <2>10, <2>11,
       <2>12, <2>13, <2>14, <2>15, <2>16, <2>17, <2>18, <2>19, <2>20,
       <2>21, <2>22, <2>23, <2>24, <2>25
    DEF Next, ApiStep, TimeStep, RunStep, LoopStep, InstanceStep

(* Every step, of whatever worker or actor, moves each row along one of    *)
(* the edges of RowMove.                                                   *)
LEMMA StepMovesRows == WellTyped /\ [Next]_vars => \A u \in Videos : RowMove(u)
<1>. SUFFICES ASSUME WellTyped, [Next]_vars PROVE \A u \in Videos : RowMove(u)
  OBVIOUS
<1>. USE DEF WellTyped, TypeOK, RunHolds, RowMove, rowVars, workerVars, Unlock
<1>. QED
  <2>1. ASSUME NEW v \in Videos, MarkUploaded(v) PROVE \A u \in Videos : RowMove(u)
    BY <2>1 DEF MarkUploaded
  <2>2. ASSUME NEW v \in Videos, Retry(v) PROVE \A u \in Videos : RowMove(u)
    BY <2>2 DEF Retry
  <2>3. ASSUME NEW v \in Videos, Cancel(v) PROVE \A u \in Videos : RowMove(u)
    BY <2>3 DEF Cancel
  <2>4. ASSUME NEW v \in Videos, HeartbeatExpires(v) PROVE \A u \in Videos : RowMove(u)
    BY <2>4 DEF HeartbeatExpires
  <2>5. ASSUME NEW v \in Videos, LockExpires(v) PROVE \A u \in Videos : RowMove(u)
    BY <2>5 DEF LockExpires
  <2>6. ASSUME Reap PROVE \A u \in Videos : RowMove(u)
    BY <2>6 DEF Reap, Stale
  <2>7. ASSUME NEW w \in Workers, PeriodicBeat(w) PROVE \A u \in Videos : RowMove(u)
    BY <2>7 DEF PeriodicBeat, Heartbeat, Owns
  <2>8. ASSUME NEW w \in Workers, Boundary(w) PROVE \A u \in Videos : RowMove(u)
    BY <2>8 DEF Boundary, Heartbeat, Owns, NextStage
  <2>9. ASSUME NEW w \in Workers, UploadDone(w) PROVE \A u \in Videos : RowMove(u)
    BY <2>9 DEF UploadDone
  <2>10. ASSUME NEW w \in Workers, RunThrows(w) PROVE \A u \in Videos : RowMove(u)
    BY <2>10 DEF RunThrows
  <2>11. ASSUME NEW w \in Workers, FinishRun(w) PROVE \A u \in Videos : RowMove(u)
    BY <2>11 DEF FinishRun, MarkReadyAndEnqueue, Owns, EndRunVideo
  <2>12. ASSUME NEW w \in Workers, FinishThrows(w) PROVE \A u \in Videos : RowMove(u)
    BY <2>12 DEF FinishThrows, MarkReadyAndEnqueue, Owns
  <2>13. ASSUME NEW w \in Workers, FailRun(w) PROVE \A u \in Videos : RowMove(u)
    <3>1. held[w] \in Videos
      BY <2>13 DEF FailRun
    <3>2. CASE Owns(w, held[w])
      <4>1. /\ status' = [status EXCEPT ![held[w]] = Requeued(held[w])]
            /\ lockedBy' = [v \in Videos |-> IF v = held[w] THEN NoWorker ELSE lockedBy[v]]
            /\ UNCHANGED <<attempts, seeded>>
        BY <2>13, <3>2 DEF FailRun, FailOrRequeue
      <4>. QED
        BY <3>1, <3>2, <4>1 DEF Owns
    <3>3. CASE ~Owns(w, held[w])
      BY <2>13, <3>3 DEF FailRun, FailOrRequeue
    <3>. QED
      BY <3>2, <3>3
  <2>14. ASSUME NEW w \in Workers, FailRunThrows(w) PROVE \A u \in Videos : RowMove(u)
    BY <2>14 DEF FailRunThrows, EndRunVideo
  <2>15. ASSUME NEW w \in Workers, ClaimNext(w) PROVE \A u \in Videos : RowMove(u)
    BY <2>15 DEF ClaimNext, InStatus
  <2>16. ASSUME NEW w \in Workers, StartRun(w) PROVE \A u \in Videos : RowMove(u)
    BY <2>16 DEF StartRun
  <2>17. ASSUME NEW w \in Workers, ClaimAnswerLost(w) PROVE \A u \in Videos : RowMove(u)
    BY <2>17 DEF ClaimAnswerLost
  <2>18. ASSUME NEW w \in Workers, ClaimNothing(w) PROVE \A u \in Videos : RowMove(u)
    BY <2>18 DEF ClaimNothing
  <2>19. ASSUME NEW w \in Workers, IdleGraceOver(w) PROVE \A u \in Videos : RowMove(u)
    BY <2>19 DEF IdleGraceOver
  <2>20. ASSUME NEW w \in Workers, SelfTerminate(w) PROVE \A u \in Videos : RowMove(u)
    BY <2>20 DEF SelfTerminate
  <2>21. ASSUME NEW w \in Workers, Interrupt(w) PROVE \A u \in Videos : RowMove(u)
    BY <2>21 DEF Interrupt, CurrentClaim, InRunVideo
  <2>22. ASSUME NEW w \in Workers, ReleaseAndExit(w) PROVE \A u \in Videos : RowMove(u)
    <3>. DEFINE r == releasing[w]
    <3>1. r \in Videos
      BY <2>22 DEF ReleaseAndExit, Leaving
    <3>2. CASE Owns(w, r)
      <4>1. /\ status' = [status EXCEPT ![r] = "uploaded"]
            /\ attempts' = [attempts EXCEPT ![r] = @ - 1]
            /\ lockedBy' = [v \in Videos |-> IF v = r THEN NoWorker ELSE lockedBy[v]]
            /\ seeded' = seeded
        BY <2>22, <3>2 DEF ReleaseAndExit, ReleaseClaim
      <4>. QED
        BY <3>1, <3>2, <4>1 DEF Owns
    <3>3. CASE ~Owns(w, r)
      BY <2>22, <3>3 DEF ReleaseAndExit, ReleaseClaim
    <3>. QED
      BY <3>2, <3>3
  <2>23. ASSUME NEW w \in Workers, Crash(w) PROVE \A u \in Videos : RowMove(u)
    BY <2>23 DEF Crash
  <2>24. ASSUME NEW w \in Workers, LaunchWorker(w) PROVE \A u \in Videos : RowMove(u)
    BY <2>24 DEF LaunchWorker, Launch
  <2>25. CASE UNCHANGED vars
    BY <2>25 DEF vars
  <2>. QED
    BY <2>1, <2>2, <2>3, <2>4, <2>5, <2>6, <2>7, <2>8, <2>9, <2>10, <2>11,
       <2>12, <2>13, <2>14, <2>15, <2>16, <2>17, <2>18, <2>19, <2>20,
       <2>21, <2>22, <2>23, <2>24, <2>25
    DEF Next, ApiStep, TimeStep, RunStep, LoopStep, InstanceStep

(* The moves of a row keep its accounts and its lock.                      *)
LEMMA MovesKeepBudget ==
  ASSUME WellTyped, AttemptsWithinBudget, \A v \in Videos : RowMove(v)
  PROVE  AttemptsWithinBudget'
<1>1. \A v \in Videos : attempts[v] \in Nat /\ status[v] \in Status
  BY DEF WellTyped, TypeOK
<1>2. ASSUME NEW v \in Videos, RowMove(v),
             attempts[v] \in Nat, status[v] \in Status,
             /\ status[v] = "uploading" => attempts[v] = 0
             /\ status[v] = "uploaded" => attempts[v] < MaxAttempts
             /\ status[v] \in {"processing", "ready"} => attempts[v] \in 1 .. MaxAttempts
             /\ status[v] = "failed" => attempts[v] = MaxAttempts
             /\ status[v] = "cancelled" => attempts[v] <= MaxAttempts
      PROVE  /\ status'[v] = "uploading" => attempts'[v] = 0
             /\ status'[v] = "uploaded" => attempts'[v] < MaxAttempts
             /\ status'[v] \in {"processing", "ready"} => attempts'[v] \in 1 .. MaxAttempts
             /\ status'[v] = "failed" => attempts'[v] = MaxAttempts
             /\ status'[v] = "cancelled" => attempts'[v] <= MaxAttempts
  BY ONLY <1>2, LimitsAssumption DEF RowMove, Requeued, Status
<1>. QED
  BY <1>1, <1>2 DEF AttemptsWithinBudget

LEMMA MovesKeepLocks ==
  ASSUME LocksMatchStatus, \A v \in Videos : RowMove(v)
  PROVE  LocksMatchStatus'
  BY DEF LocksMatchStatus, RowMove, Requeued

LEMMA StepKeepsIInv == IInv /\ [Next]_vars => IInv'
<1>. SUFFICES ASSUME IInv, [Next]_vars PROVE IInv'
  OBVIOUS
<1>1. WellTyped'
  BY StepKeepsTypes DEF IInv
<1>2. \A v \in Videos : RowMove(v)
  BY StepMovesRows DEF IInv
<1>3. AttemptsWithinBudget' /\ LocksMatchStatus'
  BY <1>2, MovesKeepBudget, MovesKeepLocks DEF IInv
<1>4. JobsSeededOnceWithReady'
  <2>1. ASSUME NEW v \in Videos, RowMove(v),
               seeded[v] = IF status[v] = "ready" THEN 1 ELSE 0
        PROVE  seeded'[v] = IF status'[v] = "ready" THEN 1 ELSE 0
    BY ONLY <2>1 DEF RowMove, Requeued
  <2>. QED
    BY <2>1, <1>2 DEF IInv, JobsSeededOnceWithReady
<1>. QED
  BY <1>1, <1>3, <1>4 DEF IInv

(* The inductive invariant holds in every reachable state. *)
THEOREM QueueInvariant == Spec => []IInv
<1>1. QED
  BY InitEstablishesIInv, StepKeepsIInv, PTL DEF Spec

(* The types of the rows and of the workers. *)
THEOREM TypeCorrect == Spec => []TypeOK
<1>1. IInv => TypeOK
  BY DEF IInv, WellTyped
<1>. QED
  BY <1>1, QueueInvariant, PTL

(* The attempt budget of claim, refund, retry, failure and reap. *)
THEOREM BudgetKept == Spec => []AttemptsWithinBudget
<1>1. IInv => AttemptsWithinBudget
  BY DEF IInv
<1>. QED
  BY <1>1, QueueInvariant, PTL

(* A waiting row has no lock, a claimed one has the lock of a worker. *)
THEOREM LocksKept == Spec => []LocksMatchStatus
<1>1. IInv => LocksMatchStatus
  BY DEF IInv
<1>. QED
  BY <1>1, QueueInvariant, PTL

(* The follow-up jobs are seeded exactly once, with the flip to ready. *)
THEOREM SeededOnce == Spec => []JobsSeededOnceWithReady
<1>1. IInv => JobsSeededOnceWithReady
  BY DEF IInv
<1>. QED
  BY <1>1, QueueInvariant, PTL

(* A cancelled row and a ready row are final, whatever zombie workers,     *)
(* the reaper and the API still do.                                        *)
THEOREM TerminalRows == Spec => TerminalRowsStay
<1>1. IInv /\ [Next]_vars =>
        [\A v \in Videos : status[v] \in {"cancelled", "ready"} =>
            status'[v] = status[v] /\ seeded'[v] = seeded[v]]_vars
  <2>. SUFFICES ASSUME IInv, [Next]_vars, NEW v \in Videos,
                       status[v] \in {"cancelled", "ready"}
                PROVE  status'[v] = status[v] /\ seeded'[v] = seeded[v]
    OBVIOUS
  <2>1. RowMove(v)
    BY StepMovesRows DEF IInv
  <2>. QED
    BY <2>1 DEF RowMove
<1>. QED
  BY <1>1, QueueInvariant, PTL DEF Spec, TerminalRowsStay
-----------------------------------------------------------------------------
(* How a claim ends, and what an interruption leaves behind.               *)

(* A worker whose release is in flight has not gone yet, is past its claim, *)
(* and runs nothing but the row it is releasing.                           *)
LeaverHoldsOnlyItsRelease ==
  \A w \in Workers : Leaving(w) =>
    /\ pc[w] \in {"run", "finish", "fail", "poll"}
    /\ held[w] \in {NoVideo, releasing[w]}

LEMMA StepKeepsLeavers ==
  WellTyped /\ LeaverHoldsOnlyItsRelease /\ [Next]_vars => LeaverHoldsOnlyItsRelease'
<1>. SUFFICES ASSUME WellTyped, LeaverHoldsOnlyItsRelease, [Next]_vars
              PROVE  LeaverHoldsOnlyItsRelease'
  OBVIOUS
<1>. USE DEF WellTyped, TypeOK, PC, LeaverHoldsOnlyItsRelease, Leaving, Up, workerVars
<1>1. ASSUME NEW v \in Videos, ApiStep(v) \/ TimeStep(v) PROVE LeaverHoldsOnlyItsRelease'
  BY <1>1 DEF ApiStep, TimeStep, MarkUploaded, Retry, Cancel, HeartbeatExpires, LockExpires
<1>2. CASE Reap
  BY <1>2 DEF Reap
<1>3. ASSUME NEW w \in Workers, PeriodicBeat(w) PROVE LeaverHoldsOnlyItsRelease'
  BY <1>3 DEF PeriodicBeat
<1>4. ASSUME NEW w \in Workers, Boundary(w) PROVE LeaverHoldsOnlyItsRelease'
  BY <1>4 DEF Boundary
<1>5. ASSUME NEW w \in Workers, UploadDone(w) PROVE LeaverHoldsOnlyItsRelease'
  BY <1>5 DEF UploadDone
<1>6. ASSUME NEW w \in Workers, RunThrows(w) PROVE LeaverHoldsOnlyItsRelease'
  BY <1>6 DEF RunThrows
<1>7. ASSUME NEW w \in Workers, FinishRun(w) PROVE LeaverHoldsOnlyItsRelease'
  BY <1>7 DEF FinishRun, EndRunVideo, EndOfRun
<1>8. ASSUME NEW w \in Workers, FinishThrows(w) PROVE LeaverHoldsOnlyItsRelease'
  BY <1>8 DEF FinishThrows
<1>9. ASSUME NEW w \in Workers, FailRun(w) PROVE LeaverHoldsOnlyItsRelease'
  BY <1>9 DEF FailRun, EndRunVideo, EndOfRun
<1>10. ASSUME NEW w \in Workers, FailRunThrows(w) PROVE LeaverHoldsOnlyItsRelease'
  BY <1>10 DEF FailRunThrows, EndRunVideo, EndOfRun
<1>11. ASSUME NEW w \in Workers, ClaimNext(w) PROVE LeaverHoldsOnlyItsRelease'
  BY <1>11 DEF ClaimNext
<1>12. ASSUME NEW w \in Workers, StartRun(w) PROVE LeaverHoldsOnlyItsRelease'
  BY <1>12 DEF StartRun
<1>13. ASSUME NEW w \in Workers, ClaimAnswerLost(w) PROVE LeaverHoldsOnlyItsRelease'
  BY <1>13 DEF ClaimAnswerLost
<1>14. ASSUME NEW w \in Workers, ClaimNothing(w) PROVE LeaverHoldsOnlyItsRelease'
  BY <1>14 DEF ClaimNothing
<1>15. ASSUME NEW w \in Workers, IdleGraceOver(w) PROVE LeaverHoldsOnlyItsRelease'
  BY <1>15 DEF IdleGraceOver
<1>16. ASSUME NEW w \in Workers, SelfTerminate(w) PROVE LeaverHoldsOnlyItsRelease'
  BY <1>16 DEF SelfTerminate
<1>17. ASSUME NEW w \in Workers, Interrupt(w) PROVE LeaverHoldsOnlyItsRelease'
  BY <1>17 DEF Interrupt, CurrentClaim, InRunVideo
<1>18. ASSUME NEW w \in Workers, ReleaseAndExit(w) PROVE LeaverHoldsOnlyItsRelease'
  BY <1>18 DEF ReleaseAndExit, Gone, EndOfRun
<1>19. ASSUME NEW w \in Workers, Crash(w) PROVE LeaverHoldsOnlyItsRelease'
  BY <1>19 DEF Crash, Gone, EndOfRun
<1>20. ASSUME NEW w \in Workers, LaunchWorker(w) PROVE LeaverHoldsOnlyItsRelease'
  BY <1>20 DEF LaunchWorker, Launch
<1>21. CASE UNCHANGED vars
  BY <1>21 DEF vars
<1>. QED
  BY <1>1, <1>2, <1>3, <1>4, <1>5, <1>6, <1>7, <1>8, <1>9, <1>10, <1>11,
     <1>12, <1>13, <1>14, <1>15, <1>16, <1>17, <1>18, <1>19, <1>20, <1>21
  DEF Next, RunStep, LoopStep, InstanceStep

(* A leaver never holds more than the row whose release it has sent. *)
LEMMA LeaversInvariant == Spec => []LeaverHoldsOnlyItsRelease
<1>1. Init => LeaverHoldsOnlyItsRelease
  BY DEF Init, LeaverHoldsOnlyItsRelease, Leaving
<1>2. IInv => WellTyped
  BY DEF IInv
<1>. QED
  BY <1>1, <1>2, StepKeepsLeavers, QueueInvariant, PTL DEF Spec

(* The statements with which a worker ends a claim move its program counter. *)
LEMMA OwnerMoves ==
  ASSUME WellTyped, LeaverHoldsOnlyItsRelease, NEW w \in Workers,
         FinishRun(w) \/ FinishThrows(w) \/ FailRun(w) \/ ReleaseAndExit(w)
  PROVE  pc'[w] # pc[w]
<1>1. pc \in [Workers -> PC]
  BY DEF WellTyped, TypeOK
<1>2. CASE FinishRun(w) \/ FinishThrows(w) \/ FailRun(w)
  <2>1. \/ pc[w] = "finish" /\ pc' = [pc EXCEPT ![w] = "poll"]
        \/ pc[w] = "finish" /\ pc' = [pc EXCEPT ![w] = "fail"]
        \/ pc[w] = "fail" /\ pc' = [pc EXCEPT ![w] = "poll"]
    BY <1>2 DEF FinishRun, FinishThrows, FailRun, EndRunVideo
  <2>. QED
    BY <1>1, <2>1
<1>3. CASE ReleaseAndExit(w)
  <2>1. pc[w] \in {"run", "finish", "fail", "poll"} /\ pc' = [pc EXCEPT ![w] = "exited"]
    BY <1>3 DEF ReleaseAndExit, Gone, LeaverHoldsOnlyItsRelease
  <2>. QED
    BY <1>1, <2>1
<1>. QED
  BY <1>2, <1>3

(* The release and the two ends of a run are the only statements of a worker *)
(* that take a row out of "processing".                                    *)
LEMMA OwnerEnds ==
  ASSUME WellTyped, LeaverHoldsOnlyItsRelease,
         NEW w \in Workers, RunStep(w) \/ LoopStep(w) \/ InstanceStep(w),
         NEW v \in Videos, status[v] = "processing",
         status'[v] # "processing" \/ lockedBy'[v] # lockedBy[v]
  PROVE  /\ lockedBy[v] = w /\ v \in {held[w], releasing[w]}
         /\ status'[v] = "ready" => pc[w] = "finish"
         /\ pc'[w] # pc[w]
<1>. USE DEF WellTyped, TypeOK, RunHolds, rowVars
<1>1. CASE FinishRun(w) \/ FinishThrows(w)
  <2>1. lockedBy[v] = w /\ v = held[w] /\ pc[w] = "finish"
    BY <1>1 DEF FinishRun, FinishThrows, MarkReadyAndEnqueue, Owns
  <2>. QED
    BY <1>1, <2>1, OwnerMoves
<1>2. CASE FailRun(w)
  <2>1. held[w] \in Videos /\ FailOrRequeue(w, held[w])
    BY <1>2 DEF FailRun
  <2>2. lockedBy[v] = w /\ v = held[w] /\ status'[v] # "ready"
    BY <2>1 DEF FailOrRequeue, Owns, Unlock, Requeued
  <2>. QED
    BY <1>2, <2>2, OwnerMoves
<1>3. CASE ReleaseAndExit(w)
  <2>1. releasing[w] \in Videos /\ ReleaseClaim(w, releasing[w])
    BY <1>3 DEF ReleaseAndExit, Leaving
  <2>2. lockedBy[v] = w /\ v = releasing[w] /\ status'[v] # "ready"
    BY <2>1 DEF ReleaseClaim, Owns, Unlock
  <2>. QED
    BY <1>3, <2>2, OwnerMoves
<1>4. CASE ClaimNext(w)
  BY <1>4 DEF ClaimNext, InStatus
<1>5. CASE \/ RunStep(w) /\ ~(FinishRun(w) \/ FinishThrows(w) \/ FailRun(w))
           \/ LoopStep(w) /\ ~ClaimNext(w)
           \/ InstanceStep(w) /\ ~ReleaseAndExit(w)
  BY <1>5
  DEF RunStep, LoopStep, InstanceStep, PeriodicBeat, Boundary, Heartbeat, UploadDone, RunThrows, FailRunThrows,
      StartRun, ClaimAnswerLost, ClaimNothing, IdleGraceOver, SelfTerminate, Interrupt, Crash, LaunchWorker, Launch
<1>. QED
  BY <1>1, <1>2, <1>3, <1>4, <1>5

(* A step of one worker is not a step of another. *)
LEMMA OthersStandStill ==
  ASSUME WellTyped, NEW w \in Workers, RunStep(w) \/ LoopStep(w) \/ InstanceStep(w),
         NEW x \in Workers, x # w
  PROVE  UNCHANGED <<pc[x], held[x], releasing[x]>>
<1>. USE DEF WellTyped, TypeOK
<1>1. CASE RunStep(w)
  BY <1>1 DEF RunStep, PeriodicBeat, Boundary, UploadDone, RunThrows, FinishRun, FinishThrows, FailRun,
              FailRunThrows, EndRunVideo, EndOfRun
<1>2. CASE LoopStep(w)
  BY <1>2 DEF LoopStep, ClaimNext, StartRun, ClaimAnswerLost, ClaimNothing, IdleGraceOver, SelfTerminate
<1>3. CASE InstanceStep(w)
  BY <1>3 DEF InstanceStep, Interrupt, ReleaseAndExit, Crash, Gone, EndOfRun, LaunchWorker, Launch
<1>. QED
  BY <1>1, <1>2, <1>3

(* What ClaimEndsByOwnerReaperOrCancel says of one step. *)
ClaimEnds ==
  \A v \in Videos :
    status[v] = "processing" /\ (status'[v] # "processing" \/ lockedBy'[v] # lockedBy[v]) =>
      \/ status'[v] = "cancelled"
      \/ Stale(v) /\ status'[v] = Requeued(v) /\ UNCHANGED workerVars
      \/ /\ v \in {held[lockedBy[v]], releasing[lockedBy[v]]}
         /\ pc'[lockedBy[v]] # pc[lockedBy[v]]
         /\ status'[v] = "ready" => pc[lockedBy[v]] = "finish"
         /\ \A w \in Workers \ {lockedBy[v]} :
              UNCHANGED <<pc[w], held[w], releasing[w]>>

LEMMA StepEndsClaims == WellTyped /\ LeaverHoldsOnlyItsRelease /\ [Next]_vars => ClaimEnds
<1>. SUFFICES ASSUME WellTyped, LeaverHoldsOnlyItsRelease, [Next]_vars PROVE ClaimEnds
  OBVIOUS
<1>1. ASSUME NEW v \in Videos, ApiStep(v) \/ TimeStep(v) PROVE ClaimEnds
  BY <1>1 DEF WellTyped, TypeOK, ClaimEnds, ApiStep, TimeStep, MarkUploaded, Retry, Cancel, Unlock,
              HeartbeatExpires, LockExpires
<1>2. CASE Reap
  BY <1>2 DEF WellTyped, TypeOK, ClaimEnds, Reap, Unlock
<1>3. ASSUME NEW w \in Workers, RunStep(w) \/ LoopStep(w) \/ InstanceStep(w) PROVE ClaimEnds
  <2>1. \A x \in Workers \ {w} : UNCHANGED <<pc[x], held[x], releasing[x]>>
    BY <1>3, OthersStandStill
  <2>2. ASSUME NEW v \in Videos, status[v] = "processing",
               status'[v] # "processing" \/ lockedBy'[v] # lockedBy[v]
        PROVE  /\ lockedBy[v] = w /\ v \in {held[w], releasing[w]}
               /\ status'[v] = "ready" => pc[w] = "finish"
               /\ pc'[w] # pc[w]
    BY <1>3, <2>2, OwnerEnds
  <2>. QED
    BY <2>1, <2>2 DEF ClaimEnds
<1>4. CASE UNCHANGED vars
  BY <1>4 DEF ClaimEnds, vars, rowVars
<1>. QED
  BY <1>1, <1>2, <1>3, <1>4 DEF Next

(* A worker that lost its claim never clobbers the row of the next owner, and *)
(* only a complete run of the owner makes the row ready.                   *)
THEOREM ClaimEndsRightly == Spec => ClaimEndsByOwnerReaperOrCancel
<1>1. IInv /\ LeaverHoldsOnlyItsRelease /\ [Next]_vars => [ClaimEnds]_vars
  BY StepEndsClaims DEF IInv
<1>2. Spec => [][ClaimEnds]_vars
  BY <1>1, QueueInvariant, LeaversInvariant, PTL DEF Spec
<1>. QED
  BY <1>2 DEF ClaimEnds, ClaimEndsByOwnerReaperOrCancel

(* What InterruptionReturnsTheRun says of one step: of the exit of w, and of *)
(* what comes before it.                                                   *)
ExitReturns(w) ==
  Leaving(w) /\ pc'[w] = "exited" =>
    /\ \A v \in Videos :
         IF v = releasing[w] /\ Owns(w, v)
         THEN status'[v] = "uploaded" /\ attempts'[v] = attempts[v] - 1
         ELSE attempts'[v] >= attempts[v]
    /\ \A v \in Videos \cap {held[w], releasing[w]} :
         ~(status'[v] = "processing" /\ lockedBy'[v] = w)

OnlyTheRunIsCharged(w) ==
  \A v \in Videos :
    v = releasing[w] /\ Owns(w, v) /\ Charged(v) =>
      \/ Stale(v) /\ UNCHANGED workerVars
      \/ held[w] = v /\ pc[w] = "fail" /\ pc'[w] = "poll"

Returns ==
  \A w \in Workers :
    /\ ExitReturns(w)
    /\ OnlyTheRunIsCharged(w)

(* Only the release itself takes a leaver to its exit. *)
LEMMA LeaverExits ==
  ASSUME WellTyped, LeaverHoldsOnlyItsRelease, [Next]_vars,
         NEW w \in Workers, Leaving(w), pc'[w] = "exited"
  PROVE  ReleaseAndExit(w)
<1>. USE DEF WellTyped, TypeOK, workerVars, rowVars
<1>1. pc[w] # "exited" /\ pc[w] \in {"run", "finish", "fail", "poll"}
  BY DEF LeaverHoldsOnlyItsRelease
<1>2. ASSUME NEW v \in Videos, ApiStep(v) \/ TimeStep(v) PROVE FALSE
  BY <1>1, <1>2 DEF ApiStep, TimeStep, MarkUploaded, Retry, Cancel, HeartbeatExpires, LockExpires
<1>3. CASE Reap \/ UNCHANGED vars
  BY <1>1, <1>3 DEF Reap, vars
<1>4. ASSUME NEW x \in Workers, RunStep(x) \/ LoopStep(x) \/ InstanceStep(x), x # w PROVE FALSE
  BY <1>1, <1>4, OthersStandStill
<1>5. CASE RunStep(w) \/ LoopStep(w) \/ InstanceStep(w)
  <2>1. CASE RunStep(w)
    BY <1>1, <2>1 DEF RunStep, PeriodicBeat, Boundary, UploadDone, RunThrows, FinishRun, FinishThrows, FailRun,
                      FailRunThrows, EndRunVideo
  <2>2. CASE LoopStep(w)
    BY <1>1, <2>2 DEF LoopStep, ClaimNext, StartRun, ClaimAnswerLost, ClaimNothing, IdleGraceOver, SelfTerminate
  <2>3. CASE InstanceStep(w)
    BY <1>1, <2>3 DEF InstanceStep, Interrupt, Crash, Gone, LaunchWorker, Launch
  <2>. QED
    BY <1>5, <2>1, <2>2, <2>3
<1>. QED
  BY <1>2, <1>3, <1>4, <1>5 DEF Next

LEMMA StepReturnsAtExit ==
  ASSUME IInv, LeaverHoldsOnlyItsRelease, [Next]_vars, NEW w \in Workers
  PROVE  ExitReturns(w)
<1>. SUFFICES ASSUME Leaving(w), pc'[w] = "exited"
              PROVE  /\ \A v \in Videos :
                          IF v = releasing[w] /\ Owns(w, v)
                          THEN status'[v] = "uploaded" /\ attempts'[v] = attempts[v] - 1
                          ELSE attempts'[v] >= attempts[v]
                     /\ \A v \in Videos \cap {held[w], releasing[w]} :
                          ~(status'[v] = "processing" /\ lockedBy'[v] = w)
  BY DEF ExitReturns
<1>. USE DEF IInv, WellTyped, TypeOK
<1>1. ReleaseClaim(w, releasing[w]) /\ releasing[w] \in Videos
  BY LeaverExits DEF ReleaseAndExit, Leaving
<1>2. \A v \in Videos \cap {held[w], releasing[w]} : v = releasing[w]
  BY NullsAssumption DEF LeaverHoldsOnlyItsRelease
<1>3. CASE Owns(w, releasing[w])
  <2>1. /\ status' = [status EXCEPT ![releasing[w]] = "uploaded"]
        /\ attempts' = [attempts EXCEPT ![releasing[w]] = @ - 1]
    BY <1>1, <1>3 DEF ReleaseClaim
  <2>2. ASSUME NEW v \in Videos, ~(v = releasing[w] /\ Owns(w, v)) PROVE attempts'[v] >= attempts[v]
    <3>1. v # releasing[w]
      BY <1>3, <2>2
    <3>2. attempts'[v] = attempts[v] /\ attempts[v] \in Nat
      BY <2>1, <3>1
    <3>. QED
      BY <3>2
  <2>3. status'[releasing[w]] = "uploaded" /\ attempts'[releasing[w]] = attempts[releasing[w]] - 1
    BY <1>1, <2>1
  <2>. QED
    BY <1>2, <2>2, <2>3
<1>4. CASE ~Owns(w, releasing[w])
  BY <1>1, <1>2, <1>4 DEF ReleaseClaim, Owns, rowVars
<1>. QED
  BY <1>3, <1>4

(* Of the owner's own statements only failOrRequeue charges.               *)
LEMMA OwnerCharges ==
  ASSUME IInv, NEW w \in Workers, RunStep(w) \/ LoopStep(w) \/ InstanceStep(w),
         NEW v \in Videos, Owns(w, v), Charged(v)
  PROVE  held[w] = v /\ pc[w] = "fail" /\ pc'[w] = "poll"
<1>. USE DEF IInv, WellTyped, TypeOK, rowVars, Charged
<1>1. CASE FinishRun(w) \/ FinishThrows(w)
  BY <1>1 DEF FinishRun, FinishThrows, MarkReadyAndEnqueue, Owns
<1>2. CASE FailRun(w)
  <2>1. pc[w] = "fail" /\ pc'[w] = "poll" /\ FailOrRequeue(w, held[w])
    BY <1>2 DEF FailRun, EndRunVideo
  <2>2. held[w] = v
    BY <2>1 DEF FailOrRequeue, Owns
  <2>. QED
    BY <2>1, <2>2
<1>3. CASE ReleaseAndExit(w)
  <2>1. releasing[w] \in Videos /\ ReleaseClaim(w, releasing[w])
    BY <1>3 DEF ReleaseAndExit, Leaving
  <2>2. v = releasing[w] /\ attempts' = [attempts EXCEPT ![v] = @ - 1]
    BY <2>1 DEF ReleaseClaim, Owns
  <2>3. attempts[v] \in Nat /\ attempts'[v] = attempts[v] - 1
    BY <2>2
  <2>. QED
    BY <2>3
<1>4. CASE ClaimNext(w)
  BY <1>4 DEF ClaimNext, InStatus
<1>5. CASE \/ RunStep(w) /\ ~(FinishRun(w) \/ FinishThrows(w) \/ FailRun(w))
           \/ LoopStep(w) /\ ~ClaimNext(w)
           \/ InstanceStep(w) /\ ~ReleaseAndExit(w)
  BY <1>5
  DEF RunStep, LoopStep, InstanceStep, PeriodicBeat, Boundary, Heartbeat, UploadDone, RunThrows, FailRunThrows,
      StartRun, ClaimAnswerLost, ClaimNothing, IdleGraceOver, SelfTerminate, Interrupt, Crash, LaunchWorker, Launch
<1>. QED
  BY <1>1, <1>2, <1>3, <1>4, <1>5

LEMMA StepChargesTheRun ==
  ASSUME IInv, LeaverHoldsOnlyItsRelease, [Next]_vars, NEW w \in Workers
  PROVE  OnlyTheRunIsCharged(w)
<1>. SUFFICES ASSUME NEW v \in Videos, Owns(w, v), Charged(v)
              PROVE  \/ Stale(v) /\ UNCHANGED workerVars
                     \/ held[w] = v /\ pc[w] = "fail" /\ pc'[w] = "poll"
  BY DEF OnlyTheRunIsCharged
<1>. USE DEF IInv, WellTyped, TypeOK
<1>1. lockedBy[v] = w /\ status[v] = "processing" /\ status'[v] # "processing"
  BY DEF Owns, Charged
<1>2. ASSUME NEW u \in Videos, ApiStep(u) \/ TimeStep(u) PROVE FALSE
  BY <1>1, <1>2 DEF Charged, ApiStep, TimeStep, MarkUploaded, Retry, Cancel, HeartbeatExpires, LockExpires
<1>3. CASE Reap
  BY <1>1, <1>3 DEF Reap
<1>4. ASSUME NEW x \in Workers, RunStep(x) \/ LoopStep(x) \/ InstanceStep(x) PROVE x = w
  BY <1>1, <1>4, OwnerEnds
<1>5. CASE RunStep(w) \/ LoopStep(w) \/ InstanceStep(w)
  BY <1>5, OwnerCharges
<1>6. CASE UNCHANGED vars
  BY <1>1, <1>6 DEF vars, rowVars
<1>. QED
  BY <1>2, <1>3, <1>4, <1>5, <1>6 DEF Next

(* An interrupted worker that gets to its exit has refunded the run that it   *)
(* still owned and no other, and leaves no row "processing" in its name;    *)
(* before that only the run's own failure, or the reaper, charges it.       *)
THEOREM InterruptionReturns == Spec => InterruptionReturnsTheRun
<1>1. IInv /\ LeaverHoldsOnlyItsRelease /\ [Next]_vars => [Returns]_vars
  BY StepReturnsAtExit, StepChargesTheRun DEF Returns
<1>2. Spec => [][Returns]_vars
  BY <1>1, QueueInvariant, LeaversInvariant, PTL DEF Spec
<1>. QED
  BY <1>2 DEF Returns, ExitReturns, OnlyTheRunIsCharged, InterruptionReturnsTheRun
-----------------------------------------------------------------------------
(* The queue implements VideoLifecycle.                                    *)

(* What the mapping of a step needs: a claimed row has been charged, and has  *)
(* no jobs yet.                                                            *)
LifecycleInv ==
  /\ WellTyped /\ AttemptsWithinBudget
  /\ \A v \in Videos : status[v] = "processing" => seeded[v] = 0

LEMMA NothingForTheLifecycle ==
  UNCHANGED <<status, attempts, seeded>> => UNCHANGED Lifecycle!lvars
  BY DEF Lifecycle!lvars

LEMMA InitMapped == Init => Lifecycle!Init
  BY DEF Init, Lifecycle!Init

(* The attempts left, after a change to one row. *)
LEMMA LeftAfter ==
  ASSUME attempts \in [Videos -> Nat], NEW v \in Videos, NEW n \in Nat,
         attempts' = [attempts EXCEPT ![v] = n]
  PROVE  [u \in Videos |-> MaxAttempts - attempts[u]]'
           = [[u \in Videos |-> MaxAttempts - attempts[u]] EXCEPT ![v] = MaxAttempts - n]
  OBVIOUS

(* One row loses its attempt when its run fails, several when the reaper   *)
(* comes: the abstract step is the same.                                   *)
LEMMA LosingAttempts ==
  ASSUME LifecycleInv, NEW S \in SUBSET Videos, \A v \in S : status[v] = "processing",
         status' = [v \in Videos |-> IF v \in S THEN Requeued(v) ELSE status[v]],
         UNCHANGED <<attempts, seeded>>
  PROVE  Lifecycle!LoseAttempt(S)
<1>1. \A v \in S : attempts[v] \in 1 .. MaxAttempts
  BY DEF LifecycleInv, AttemptsWithinBudget
<1>2. \A v \in S : attempts[v] >= MaxAttempts <=> MaxAttempts - attempts[v] = 0
  BY <1>1
<1>. QED
  BY <1>2 DEF Lifecycle!LoseAttempt, Requeued

LEMMA Failing ==
  ASSUME LifecycleInv, NEW w \in Workers, NEW v \in Videos, FailOrRequeue(w, v)
  PROVE  [Lifecycle!Next]_(Lifecycle!lvars)
<1>1. CASE Owns(w, v)
  <2>1. status' = [u \in Videos |-> IF u \in {v} THEN Requeued(u) ELSE status[u]]
    BY <1>1 DEF FailOrRequeue, LifecycleInv, WellTyped, TypeOK
  <2>2. Lifecycle!LoseAttempt({v})
    BY <1>1, <2>1, LosingAttempts DEF FailOrRequeue, Owns
  <2>. QED
    BY <2>2 DEF Lifecycle!Next
<1>2. CASE ~Owns(w, v)
  BY <1>2, NothingForTheLifecycle DEF FailOrRequeue, rowVars
<1>. QED
  BY <1>1, <1>2

LEMMA Publishing ==
  ASSUME LifecycleInv, NEW w \in Workers, NEW v \in Videos, MarkReadyAndEnqueue(w, v)
  PROVE  [Lifecycle!Next]_(Lifecycle!lvars)
<1>1. CASE Owns(w, v)
  <2>1. seeded[v] = 0 /\ seeded \in [Videos -> Nat] /\ status \in [Videos -> Status]
    BY <1>1 DEF LifecycleInv, Owns, WellTyped, TypeOK
  <2>2. /\ status' = [status EXCEPT ![v] = "ready"]
        /\ seeded' = [seeded EXCEPT ![v] = @ + 1]
        /\ attempts' = attempts
    BY <1>1 DEF MarkReadyAndEnqueue
  <2>3. {u \in Videos : seeded'[u] > 0} = {u \in Videos : seeded[u] > 0} \cup {v}
    BY <2>1, <2>2
  <2>4. Lifecycle!Publish(v)
    BY <1>1, <2>1, <2>2, <2>3 DEF Lifecycle!Publish, Lifecycle!Move, Owns
  <2>. QED
    BY <2>4 DEF Lifecycle!Next
<1>2. CASE ~Owns(w, v)
  BY <1>2, NothingForTheLifecycle DEF MarkReadyAndEnqueue, rowVars
<1>. QED
  BY <1>1, <1>2

LEMMA Refunding ==
  ASSUME LifecycleInv, NEW w \in Workers, NEW v \in Videos, ReleaseClaim(w, v)
  PROVE  [Lifecycle!Next]_(Lifecycle!lvars)
<1>1. CASE Owns(w, v)
  <2>1. attempts \in [Videos -> Nat] /\ status \in [Videos -> Status]
    BY DEF LifecycleInv, WellTyped, TypeOK
  <2>2. /\ status' = [status EXCEPT ![v] = "uploaded"]
        /\ attempts' = [attempts EXCEPT ![v] = @ - 1]
        /\ seeded' = seeded
    BY <1>1 DEF ReleaseClaim
  <2>3. MaxAttempts - (attempts[v] - 1) = (MaxAttempts - attempts[v]) + 1
    BY <2>1
  <2>4. [u \in Videos |-> MaxAttempts - attempts[u]]'
          = [[u \in Videos |-> MaxAttempts - attempts[u]] EXCEPT ![v] = @ + 1]
    BY <2>1, <2>2, <2>3, LeftAfter
  <2>5. Lifecycle!Refund(v)
    BY <1>1, <2>1, <2>2, <2>4 DEF Lifecycle!Refund, Lifecycle!Move, Owns
  <2>. QED
    BY <2>5 DEF Lifecycle!Next
<1>2. CASE ~Owns(w, v)
  BY <1>2, NothingForTheLifecycle DEF ReleaseClaim, rowVars
<1>. QED
  BY <1>1, <1>2

LEMMA Claiming ==
  ASSUME LifecycleInv, NEW w \in Workers, ClaimNext(w)
  PROVE  Lifecycle!Next
<1>1. PICK v \in Videos : /\ status[v] = "uploaded"
                          /\ status' = [status EXCEPT ![v] = "processing"]
                          /\ attempts' = [attempts EXCEPT ![v] = @ + 1]
  BY DEF ClaimNext, InStatus
<1>2. /\ attempts \in [Videos -> Nat] /\ status \in [Videos -> Status]
      /\ attempts[v] < MaxAttempts
  BY <1>1 DEF LifecycleInv, WellTyped, TypeOK, AttemptsWithinBudget
<1>3. seeded' = seeded
  BY DEF ClaimNext
<1>4. /\ MaxAttempts - (attempts[v] + 1) = (MaxAttempts - attempts[v]) - 1
      /\ MaxAttempts - attempts[v] > 0
  BY <1>2
<1>5. [u \in Videos |-> MaxAttempts - attempts[u]]'
        = [[u \in Videos |-> MaxAttempts - attempts[u]] EXCEPT ![v] = @ - 1]
  BY <1>1, <1>2, <1>4, LeftAfter
<1>6. Lifecycle!Start(v)
  BY <1>1, <1>2, <1>3, <1>4, <1>5 DEF Lifecycle!Start, Lifecycle!Move
<1>. QED
  BY <1>6 DEF Lifecycle!Next

LEMMA ApiMoves ==
  ASSUME LifecycleInv, NEW v \in Videos, ApiStep(v)
  PROVE  Lifecycle!Next
<1>0. attempts \in [Videos -> Nat] /\ status \in [Videos -> Status]
  BY DEF LifecycleInv, WellTyped, TypeOK
<1>1. CASE MarkUploaded(v)
  <2>1. Lifecycle!Enqueue(v)
    BY <1>1 DEF MarkUploaded, Lifecycle!Enqueue, Lifecycle!Move
  <2>. QED
    BY <2>1 DEF Lifecycle!Next
<1>2. CASE Retry(v)
  <2>1. [u \in Videos |-> MaxAttempts - attempts[u]]'
          = [[u \in Videos |-> MaxAttempts - attempts[u]] EXCEPT ![v] = MaxAttempts]
    BY <1>0, <1>2, LeftAfter, MaxAttempts - 0 = MaxAttempts DEF Retry
  <2>2. Lifecycle!Restart(v)
    BY <1>0, <1>2, <2>1 DEF Retry, Lifecycle!Restart, Lifecycle!Move
  <2>. QED
    BY <2>2 DEF Lifecycle!Next
<1>3. CASE Cancel(v)
  <2>1. Lifecycle!Retire(v)
    BY <1>3 DEF Cancel, Lifecycle!Retire
  <2>. QED
    BY <2>1 DEF Lifecycle!Next
<1>. QED
  BY <1>1, <1>2, <1>3 DEF ApiStep

LEMMA Reaping == LifecycleInv /\ Reap => Lifecycle!Next
<1>. SUFFICES ASSUME LifecycleInv, Reap PROVE Lifecycle!Next
  OBVIOUS
<1>. DEFINE S == {v \in Videos : Stale(v)}
<1>1. Lifecycle!LoseAttempt(S)
  BY LosingAttempts DEF Reap, Stale
<1>. QED
  BY <1>1 DEF Lifecycle!Next

LEMMA StepImplementsLifecycle ==
  LifecycleInv /\ [Next]_vars => [Lifecycle!Next]_(Lifecycle!lvars)
<1>. SUFFICES ASSUME LifecycleInv, [Next]_vars PROVE [Lifecycle!Next]_(Lifecycle!lvars)
  OBVIOUS
<1>1. CASE UNCHANGED vars
  BY <1>1, NothingForTheLifecycle DEF vars, rowVars
<1>2. ASSUME NEW v \in Videos, ApiStep(v) PROVE [Lifecycle!Next]_(Lifecycle!lvars)
  BY <1>2, ApiMoves
<1>3. ASSUME NEW v \in Videos, TimeStep(v) PROVE [Lifecycle!Next]_(Lifecycle!lvars)
  BY <1>3, NothingForTheLifecycle DEF TimeStep, HeartbeatExpires, LockExpires
<1>4. CASE Reap
  BY <1>4, Reaping
<1>5. ASSUME NEW w \in Workers, RunStep(w) PROVE [Lifecycle!Next]_(Lifecycle!lvars)
  <2>1. CASE PeriodicBeat(w) \/ Boundary(w) \/ UploadDone(w) \/ RunThrows(w) \/ FailRunThrows(w)
    BY <2>1, NothingForTheLifecycle
    DEF PeriodicBeat, Boundary, Heartbeat, UploadDone, RunThrows, FailRunThrows, rowVars
  <2>2. CASE FinishRun(w) \/ FinishThrows(w)
    <3>1. held[w] \in Videos
      BY <2>2 DEF FinishRun, FinishThrows, LifecycleInv, WellTyped, RunHolds
    <3>. QED
      BY <2>2, <3>1, Publishing, NothingForTheLifecycle DEF FinishRun, FinishThrows, rowVars
  <2>3. CASE FailRun(w)
    <3>1. held[w] \in Videos
      BY <2>3 DEF FailRun, LifecycleInv, WellTyped, RunHolds
    <3>. QED
      BY <2>3, <3>1, Failing DEF FailRun
  <2>. QED
    BY <1>5, <2>1, <2>2, <2>3 DEF RunStep
<1>6. ASSUME NEW w \in Workers, LoopStep(w) PROVE [Lifecycle!Next]_(Lifecycle!lvars)
  BY <1>6, Claiming, NothingForTheLifecycle
  DEF LoopStep, StartRun, ClaimAnswerLost, ClaimNothing, IdleGraceOver, SelfTerminate, rowVars
<1>7. ASSUME NEW w \in Workers, InstanceStep(w) PROVE [Lifecycle!Next]_(Lifecycle!lvars)
  <2>1. CASE Interrupt(w) \/ Crash(w) \/ LaunchWorker(w)
    BY <2>1, NothingForTheLifecycle DEF Interrupt, Crash, LaunchWorker, Launch, rowVars
  <2>2. CASE ReleaseAndExit(w)
    <3>1. releasing[w] \in Videos
      BY <2>2 DEF ReleaseAndExit, Leaving, LifecycleInv, WellTyped, TypeOK
    <3>. QED
      BY <2>2, <3>1, Refunding DEF ReleaseAndExit
  <2>. QED
    BY <1>7, <2>1, <2>2 DEF InstanceStep
<1>. QED
  BY <1>1, <1>2, <1>3, <1>4, <1>5, <1>6, <1>7 DEF Next

(* Workers, locks, heartbeats, reaper and interruptions together do no     *)
(* more than VideoLifecycle allows.                                        *)
THEOREM QueueImplementsLifecycle == Spec => ImplementsLifecycle
<1>1. Init => Lifecycle!Init
  BY InitMapped
<1>2. IInv => LifecycleInv
  BY DEF IInv, JobsSeededOnceWithReady, LifecycleInv
<1>. QED
  BY <1>1, <1>2, StepImplementsLifecycle, QueueInvariant, PTL
  DEF Spec, ImplementsLifecycle, Lifecycle!Spec
=============================================================================
