------------------------ MODULE PublishedTreeProofs ------------------------
(***************************************************************************)
(* Proofs about PublishedTree for any set of rows, workers, segments and    *)
(* keys.  The invariant of the queue itself comes from VideoQueueProofs.    *)
(***************************************************************************)
EXTENDS PublishedTree, VideoQueueProofs

(* What a step of the queue does to the run of one worker.                 *)
RunMove(w) ==
  \/ /\ ~InRunVideo(w)' /\ stage'[w] = "encode"
  \/ /\ ~InRunVideo(w) /\ pc'[w] \notin {"finish", "fail"} /\ stage'[w] = stage[w]
  \/ /\ InRunVideo(w) /\ pc'[w] \in {pc[w], "fail"}
     /\ UNCHANGED <<held[w], stage[w]>>
  \/ /\ pc[w] = "run" /\ pc'[w] = "run" /\ held'[w] = held[w]
     /\ stage[w] # "upload" /\ stage'[w] = NextStage[stage[w]]
  \/ /\ pc[w] = "run" /\ pc'[w] = "finish" /\ held'[w] = held[w]

(* A run that is over has left nothing in the worker's stage.              *)
StagesStartOver == \A w \in Workers : ~InRunVideo(w) => stage[w] = "encode"

(* Only a run in its upload has sent anything, and it has a key to do so.    *)
UploadsHaveKeys ==
  \A w \in Workers :
    /\ pc[w] # "run" => sent[w] = {}
    /\ Uploading(w) => runKey[w] \in Keys

Written(v, s) == tree[v][s] # NoKey

(* What a run has sent is in R2, under whichever key by now; a run at the    *)
(* finish line has sent everything.                                        *)
SentIsWritten ==
  \A w \in Workers :
    /\ pc[w] = "run"    => \A s \in sent[w]  : Written(held[w], s)
    /\ pc[w] = "finish" => \A s \in Segments : Written(held[w], s)

StoreInv == StagesStartOver /\ UploadsHaveKeys /\ SentIsWritten /\ ReadyTreeIsComplete

TreeInv == IInv /\ TreeTypeOK /\ StoreInv

USE NoKeyAssumption, NullsAssumption

LEMMA InitEstablishesTreeInv == TreeInit => TreeInv
<1>. SUFFICES ASSUME TreeInit PROVE TreeInv
  OBVIOUS
<1>1. IInv
  BY InitEstablishesIInv DEF TreeInit
<1>2. TreeTypeOK
  BY <1>1 DEF TreeInit, TreeTypeOK, IInv, WellTyped
<1>3. StoreInv
  BY DEF TreeInit, Init, StoreInv, StagesStartOver, UploadsHaveKeys, SentIsWritten,
         ReadyTreeIsComplete, Uploading, InRunVideo
<1>. QED
  BY <1>1, <1>2, <1>3 DEF TreeInv

LEMMA StepMovesRuns ==
  ASSUME WellTyped, [Next]_vars, NEW w \in Workers
  PROVE  RunMove(w)
<1>. USE DEF WellTyped, TypeOK, RunMove, InRunVideo, PC, Stage, workerVars, EndOfRun
<1>1. CASE \E v \in Videos : ApiStep(v) \/ TimeStep(v)
  BY <1>1 DEF ApiStep, TimeStep, MarkUploaded, Retry, Cancel, HeartbeatExpires, LockExpires
<1>2. CASE Reap \/ UNCHANGED vars
  BY <1>2 DEF Reap, vars
<1>3. ASSUME NEW u \in Workers, RunStep(u) PROVE RunMove(w)
  <2>1. CASE PeriodicBeat(u) \/ UploadDone(u) \/ RunThrows(u)
    BY <2>1 DEF PeriodicBeat, UploadDone, RunThrows
  <2>2. CASE Boundary(u)
    BY <2>2 DEF Boundary
  <2>3. CASE FinishRun(u) \/ FailRun(u) \/ FailRunThrows(u)
    BY <2>3 DEF FinishRun, FailRun, FailRunThrows, EndRunVideo
  <2>4. CASE FinishThrows(u)
    BY <2>4 DEF FinishThrows
  <2>. QED
    BY <1>3, <2>1, <2>2, <2>3, <2>4 DEF RunStep
<1>4. ASSUME NEW u \in Workers, LoopStep(u) PROVE RunMove(w)
  <2>1. CASE ClaimNext(u) \/ StartRun(u) \/ ClaimAnswerLost(u)
    BY <2>1 DEF ClaimNext, StartRun, ClaimAnswerLost
  <2>2. CASE ClaimNothing(u) \/ IdleGraceOver(u) \/ SelfTerminate(u)
    BY <2>2 DEF ClaimNothing, IdleGraceOver, SelfTerminate
  <2>. QED
    BY <1>4, <2>1, <2>2 DEF LoopStep
<1>5. ASSUME NEW u \in Workers, InstanceStep(u) PROVE RunMove(w)
  <2>1. CASE Interrupt(u)
    <3>1. InRunVideo(u) => CurrentClaim(u) # NoVideo
      BY DEF CurrentClaim, RunHolds
    <3>2. CASE CurrentClaim(u) = NoVideo
      BY <2>1, <3>1, <3>2 DEF Interrupt
    <3>3. CASE CurrentClaim(u) # NoVideo
      <4>1. UNCHANGED <<pc, held, stage>>
        BY <2>1, <3>3 DEF Interrupt
      <4>. QED
        BY <4>1
    <3>. QED
      BY <3>2, <3>3
  <2>2. CASE ReleaseAndExit(u) \/ Crash(u)
    BY <2>2 DEF ReleaseAndExit, Crash, Gone
  <2>3. CASE LaunchWorker(u)
    BY <2>3 DEF LaunchWorker, Launch, Up
  <2>. QED
    BY <1>5, <2>1, <2>2, <2>3 DEF InstanceStep
<1>. QED
  BY <1>1, <1>2, <1>3, <1>4, <1>5 DEF Next

(* A row becomes ready only when its owner was at the finish line with it.   *)
LEMMA ReadyFromFinish ==
  ASSUME WellTyped, [Next]_vars,
         NEW v \in Videos, status[v] # "ready", status'[v] = "ready"
  PROVE  \E w \in Workers : pc[w] = "finish" /\ held[w] = v /\ Owns(w, v)
<1>. USE DEF WellTyped, TypeOK, RunHolds, rowVars
<1>1. ~\E u \in Videos : ApiStep(u) \/ TimeStep(u)
  BY DEF ApiStep, TimeStep, MarkUploaded, Retry, Cancel, HeartbeatExpires, LockExpires
<1>2. ~Reap /\ ~UNCHANGED vars
  BY DEF Reap, vars, Requeued, Stale
<1>3. ASSUME NEW w \in Workers, RunStep(w)
      PROVE  pc[w] = "finish" /\ held[w] = v /\ Owns(w, v)
  <2>1. ~PeriodicBeat(w) /\ ~Boundary(w) /\ ~UploadDone(w) /\ ~RunThrows(w)
    BY DEF PeriodicBeat, Boundary, UploadDone, RunThrows, Heartbeat
  <2>2. ~FailRun(w) /\ ~FailRunThrows(w)
    BY DEF FailRun, FailRunThrows, FailOrRequeue, Requeued
  <2>3. CASE FinishRun(w) \/ FinishThrows(w)
    BY <2>3 DEF FinishRun, FinishThrows, MarkReadyAndEnqueue, Owns
  <2>. QED
    BY <1>3, <2>1, <2>2, <2>3 DEF RunStep
<1>4. ASSUME NEW w \in Workers PROVE ~LoopStep(w)
  BY DEF LoopStep, ClaimNext, InStatus, StartRun, ClaimAnswerLost, ClaimNothing,
         IdleGraceOver, SelfTerminate
<1>5. ASSUME NEW w \in Workers PROVE ~InstanceStep(w)
  BY DEF InstanceStep, Interrupt, ReleaseAndExit, ReleaseClaim, Crash, LaunchWorker, Launch
<1>. QED
  BY <1>1, <1>2, <1>3, <1>4, <1>5 DEF Next

LEMMA QueueStepKeepsTreeInv ==
  ASSUME TreeInv, QueueStep
  PROVE  TreeInv'
<1>. USE DEF TreeInv, StoreInv
<1>1. WellTyped /\ [Next]_vars
  BY DEF QueueStep, IInv
<1>2. IInv'
  BY <1>1, StepKeepsIInv
<1>3. \A w \in Workers : RunMove(w)
  BY <1>1, StepMovesRuns
<1>4. \A w \in Workers : stage[w] \in Stage /\ pc[w] \in PC
  BY <1>1 DEF WellTyped, TypeOK
<1>5. TreeTypeOK'
  <2>1. TypeOK'
    BY <1>2 DEF IInv, WellTyped
  <2>2. /\ runKey' \in [Workers -> Keys \cup {NoKey}]
        /\ sent' \in [Workers -> SUBSET Segments]
        /\ \A w \in Workers : sent'[w] # {} => runKey'[w] \in Keys
    BY DEF QueueStep, TreeTypeOK
  <2>3. /\ late' \subseteq Videos \X Segments \X Keys
        /\ overlapped' \subseteq Videos
    BY DEF QueueStep, TreeTypeOK, LeftBehind
  <2>4. UNCHANGED <<keyOf, tree>>
    BY DEF QueueStep
  <2>. QED
    BY <2>1, <2>2, <2>3, <2>4 DEF TreeTypeOK
<1>6. StagesStartOver'
  BY <1>3 DEF StagesStartOver, RunMove, InRunVideo
<1>7. UploadsHaveKeys'
  <2>. SUFFICES ASSUME NEW w \in Workers
                PROVE  /\ pc'[w] # "run" => sent'[w] = {}
                       /\ pc'[w] = "run" /\ stage'[w] = "upload" => runKey'[w] \in Keys
    BY DEF UploadsHaveKeys, Uploading
  <2>1. pc'[w] # "run" => sent'[w] = {}
    BY DEF QueueStep
  <2>2. ASSUME pc'[w] = "run", stage'[w] = "upload" PROVE runKey'[w] \in Keys
    <3>1. runKey'[w] = runKey[w] /\ runKey[w] \in Keys \cup {NoKey}
      BY <2>2 DEF QueueStep, TreeTypeOK
    <3>2. PackagedFirst(w)
      BY DEF QueueStep
    <3>3. pc[w] = "run" /\ stage[w] \in {"package", "upload"}
      BY <1>3, <1>4, <2>2 DEF RunMove, InRunVideo, StagesStartOver, Stage, NextStage
    <3>. QED
      BY <2>2, <3>1, <3>2, <3>3 DEF PackagedFirst, UploadsHaveKeys, Uploading
  <2>. QED
    BY <2>1, <2>2
<1>8. SentIsWritten'
  <2>. SUFFICES ASSUME NEW w \in Workers
                PROVE  /\ pc'[w] = "run" => \A s \in sent'[w] : tree[held'[w]][s] # NoKey
                       /\ pc'[w] = "finish" => \A s \in Segments : tree[held'[w]][s] # NoKey
    BY DEF SentIsWritten, Written, QueueStep
  <2>1. CASE pc'[w] = "run"
    <3>1. sent'[w] = sent[w]
      BY <2>1 DEF QueueStep
    <3>2. \/ pc[w] = "run" /\ held'[w] = held[w]
          \/ sent[w] = {}
      BY <1>3, <2>1 DEF RunMove, InRunVideo, UploadsHaveKeys
    <3>. QED
      BY <2>1, <3>1, <3>2 DEF SentIsWritten, Written
  <2>2. CASE pc'[w] = "finish"
    <3>1. pc[w] \in {"run", "finish"} /\ held'[w] = held[w]
      BY <1>3, <2>2 DEF RunMove, InRunVideo
    <3>2. pc[w] = "run" => sent[w] = Segments
      BY <2>2 DEF QueueStep, UploadedAll
    <3>. QED
      BY <2>2, <3>1, <3>2 DEF SentIsWritten, Written
  <2>. QED
    BY <2>1, <2>2
<1>9. ReadyTreeIsComplete'
  <2>. SUFFICES ASSUME NEW v \in Videos, status'[v] = "ready"
                PROVE  \A s \in Segments : tree[v][s] # NoKey
    BY DEF ReadyTreeIsComplete, QueueStep
  <2>1. CASE status[v] = "ready"
    BY <2>1 DEF ReadyTreeIsComplete
  <2>2. CASE status[v] # "ready"
    BY <1>1, <2>2, ReadyFromFinish DEF SentIsWritten, Written
  <2>. QED
    BY <2>1, <2>2
<1>. QED
  BY <1>2, <1>5, <1>6, <1>7, <1>8, <1>9

(* One PUT: what it names is written, and what was written stays written.    *)
LEMMA PutWrites ==
  ASSUME TreeTypeOK, NEW u, NEW t, NEW k \in Keys,
         tree' = [tree EXCEPT ![u][t] = k],
         NEW v \in Videos, NEW s \in Segments,
         tree[v][s] # NoKey \/ (u = v /\ t = s)
  PROVE  tree'[v][s] # NoKey
<1>1. tree \in [Videos -> [Segments -> Keys \cup {NoKey}]]
  BY DEF TreeTypeOK
<1>2. tree[v] \in [Segments -> Keys \cup {NoKey}]
  BY <1>1
<1>3. CASE u = v
  <2>1. tree'[v] = [tree[v] EXCEPT ![t] = k]
    BY <1>1, <1>3
  <2>2. CASE t = s
    BY <1>2, <2>1, <2>2
  <2>3. CASE t # s
    BY <1>2, <1>3, <2>1, <2>3
  <2>. QED
    BY <2>2, <2>3
<1>4. CASE u # v
  <2>1. tree'[v] = tree[v]
    BY <1>1, <1>4
  <2>. QED
    BY <1>4, <2>1
<1>. QED
  BY <1>3, <1>4

(* The steps of the two stores never take a segment away.                  *)
LEMMA StoreStepKeepsTreeInv ==
  ASSUME TreeInv, StoreStep
  PROVE  TreeInv'
<1>. USE DEF TreeInv, StoreInv
<1>1. UNCHANGED vars
  BY DEF StoreStep, GenerateAndStore, PutSegment, LateLands, LateVanishes
<1>2. IInv'
  BY <1>1, StepKeepsIInv
<1>3. TypeOK' /\ UNCHANGED <<status, pc, held, stage>>
  BY <1>1, <1>2 DEF IInv, WellTyped, vars, rowVars, workerVars
<1>4. TreeTypeOK'
  <2>1. ASSUME NEW w \in Workers, GenerateAndStore(w) PROVE TreeTypeOK'
    <3>1. PICK k \in Keys : /\ runKey' = [runKey EXCEPT ![w] = k]
                            /\ keyOf' = [keyOf EXCEPT ![held[w]] = k]
      BY <2>1 DEF GenerateAndStore
    <3>2. UNCHANGED <<tree, sent, late, overlapped>>
      BY <2>1 DEF GenerateAndStore
    <3>. QED
      BY <1>3, <3>1, <3>2 DEF TreeTypeOK
  <2>2. ASSUME NEW w \in Workers, NEW s \in Segments, PutSegment(w, s) PROVE TreeTypeOK'
    <3>1. runKey[w] \in Keys
      BY <2>2 DEF PutSegment, UploadsHaveKeys
    <3>. QED
      BY <1>3, <2>2, <3>1 DEF TreeTypeOK, PutSegment
  <2>3. CASE LateLands
    BY <1>3, <2>3 DEF TreeTypeOK, LateLands
  <2>4. CASE LateVanishes
    BY <1>3, <2>4 DEF TreeTypeOK, LateVanishes
  <2>. QED
    BY <2>1, <2>2, <2>3, <2>4 DEF StoreStep
<1>5. StagesStartOver'
  BY <1>3 DEF StagesStartOver, InRunVideo
<1>6. UploadsHaveKeys'
  BY <1>3 DEF UploadsHaveKeys, Uploading, TreeTypeOK, StoreStep, GenerateAndStore,
              PutSegment, LateLands, LateVanishes
<1>7. \A v \in Videos, s \in Segments : tree[v][s] # NoKey => tree'[v][s] # NoKey
  <2>1. ASSUME NEW w \in Workers, NEW s \in Segments, PutSegment(w, s)
        PROVE  /\ runKey[w] \in Keys
               /\ tree' = [tree EXCEPT ![held[w]][s] = runKey[w]]
    BY <2>1 DEF PutSegment, UploadsHaveKeys
  <2>2. ASSUME LateLands
        PROVE  \E put \in Videos \X Segments \X Keys :
                 tree' = [tree EXCEPT ![put[1]][put[2]] = put[3]]
    BY <2>2 DEF LateLands, TreeTypeOK
  <2>3. ASSUME \/ \E w \in Workers : GenerateAndStore(w)
               \/ LateVanishes
        PROVE  tree' = tree
    BY <2>3 DEF GenerateAndStore, LateVanishes
  <2>. SUFFICES ASSUME NEW v \in Videos, NEW s \in Segments, tree[v][s] # NoKey
                PROVE  tree'[v][s] # NoKey
    OBVIOUS
  <2>4. ASSUME NEW w \in Workers, NEW t \in Segments, PutSegment(w, t)
        PROVE  tree'[v][s] # NoKey
    <3>1. TreeTypeOK /\ runKey[w] \in Keys
      BY <2>1, <2>4
    <3>2. tree' = [tree EXCEPT ![held[w]][t] = runKey[w]]
      BY <2>1, <2>4
    <3>. QED
      BY <3>1, <3>2, PutWrites, Zenon
  <2>5. ASSUME LateLands PROVE tree'[v][s] # NoKey
    <3>1. PICK put \in Videos \X Segments \X Keys :
            tree' = [tree EXCEPT ![put[1]][put[2]] = put[3]]
      BY <2>2, <2>5
    <3>2. put[3] \in Keys
      OBVIOUS
    <3>. QED
      BY <3>1, <3>2, PutWrites
  <2>. QED
    BY <2>3, <2>4, <2>5 DEF StoreStep
<1>8. SentIsWritten'
  <2>. SUFFICES ASSUME NEW w \in Workers
                PROVE  /\ pc[w] = "run" => \A s \in sent'[w] : tree'[held[w]][s] # NoKey
                       /\ pc[w] = "finish" => \A s \in Segments : tree'[held[w]][s] # NoKey
    BY <1>3 DEF SentIsWritten, Written
  <2>1. pc[w] \in {"run", "finish"} => held[w] \in Videos
    BY DEF IInv, WellTyped, RunHolds
  <2>2. pc[w] = "finish" => \A s \in Segments : tree'[held[w]][s] # NoKey
    BY <1>7, <2>1 DEF SentIsWritten, Written
  <2>3. ASSUME pc[w] = "run", NEW s \in sent'[w] PROVE tree'[held[w]][s] # NoKey
    <3>1. sent[w] \subseteq Segments
      BY DEF TreeTypeOK
    <3>2. CASE s \in sent[w]
      BY <1>7, <2>1, <2>3, <3>1, <3>2 DEF SentIsWritten, Written
    <3>3. CASE s \notin sent[w]
      <4>1. s \in Segments /\ PutSegment(w, s)
        <5>1. sent' # sent
          BY <2>3, <3>3
        <5>2. PICK u \in Workers, t \in Segments : PutSegment(u, t)
          BY <5>1 DEF StoreStep, GenerateAndStore, LateLands, LateVanishes
        <5>3. sent' = [sent EXCEPT ![u] = @ \cup {t}] /\ sent \in [Workers -> SUBSET Segments]
          BY <5>2 DEF PutSegment, TreeTypeOK
        <5>4. u = w /\ t = s
          BY <2>3, <3>3, <5>3
        <5>. QED
          BY <5>2, <5>4
      <4>2. runKey[w] \in Keys /\ tree' = [tree EXCEPT ![held[w]][s] = runKey[w]]
        BY <4>1 DEF PutSegment, UploadsHaveKeys
      <4>. QED
        BY <2>1, <2>3, <4>1, <4>2, PutWrites
    <3>. QED
      BY <3>2, <3>3
  <2>. QED
    BY <2>2, <2>3
<1>9. ReadyTreeIsComplete'
  BY <1>3, <1>7 DEF ReadyTreeIsComplete
<1>. QED
  BY <1>2, <1>4, <1>5, <1>6, <1>8, <1>9

THEOREM TreeInvariant == TreeSpec => []TreeInv
<1>1. TreeInv /\ [TreeNext]_treeVars => TreeInv'
  <2>. SUFFICES ASSUME TreeInv, [TreeNext]_treeVars PROVE TreeInv'
    OBVIOUS
  <2>1. CASE UNCHANGED treeVars
    <3>1. IInv'
      BY <2>1, StepKeepsIInv DEF treeVars, TreeInv
    <3>. QED
      BY <2>1, <3>1 DEF treeVars, storeVars, vars, rowVars, workerVars, TreeInv, StoreInv,
           TreeTypeOK, TypeOK, StagesStartOver, InRunVideo, UploadsHaveKeys, Uploading,
           SentIsWritten, Written, ReadyTreeIsComplete
  <2>. QED
    BY <2>1, QueueStepKeepsTreeInv, StoreStepKeepsTreeInv DEF TreeNext
<1>. QED
  BY <1>1, InitEstablishesTreeInv, PTL DEF TreeSpec

(* The types of the two stores; a run that has uploaded anything has a key.  *)
THEOREM TreeTyped == TreeSpec => []TreeTypeOK
<1>1. TreeInv => TreeTypeOK
  BY DEF TreeInv
<1>. QED
  BY <1>1, TreeInvariant, PTL

(* A ready video is complete: every segment its playlists name is in R2,    *)
(* whatever zombie runs and straggling PUTs do to the same prefix.         *)
THEOREM TreeComplete == TreeSpec => []ReadyTreeIsComplete
<1>1. TreeInv => ReadyTreeIsComplete
  BY DEF TreeInv, StoreInv
<1>. QED
  BY <1>1, TreeInvariant, PTL
-----------------------------------------------------------------------------
(* Which key a ready video is encrypted with.                              *)

Writes(w, v) == held[w] = v /\ pc[w] \in {"claimed", "run"}

NothingLate(v) == \A put \in late : put[1] # v

(* A key is chosen by the run that packages with it.                       *)
KeysEndWithRuns == \A w \in Workers : pc[w] # "run" => runKey[w] = NoKey

(* While the owner of a row works on it and no run of the video was started *)
(* early, nobody else writes to its prefix, and all the owner has sent is    *)
(* encrypted with the key it stored.                                       *)
SoleWriter ==
  \A v \in Videos \ overlapped, w \in Workers :
    held[w] = v /\ pc[w] \in {"claimed", "run", "finish"} /\ Owns(w, v) =>
      /\ \A x \in Workers \ {w} : ~Writes(x, v)
      /\ NothingLate(v)
      /\ pc[w] = "run" =>
           /\ runKey[w] # NoKey => keyOf[v] = runKey[w]
           /\ \A s \in sent[w] : tree[v][s] = runKey[w]
      /\ pc[w] = "finish" => Decrypts(v)

ReadyIsQuiet ==
  \A v \in Videos \ overlapped :
    status[v] = "ready" => ~Writing(v) /\ Decrypts(v)

DecryptInv == KeysEndWithRuns /\ SoleWriter /\ ReadyIsQuiet

LEMMA InitEstablishesDecryptInv == TreeInit => DecryptInv
  BY DEF TreeInit, Init, DecryptInv, KeysEndWithRuns, SoleWriter, ReadyIsQuiet

(* A row is claimed by the worker whose name it then carries.              *)
LEMMA ClaimedByItsWorker ==
  ASSUME WellTyped, [Next]_vars,
         NEW v \in Videos, status[v] # "processing", status'[v] = "processing"
  PROVE  \E w \in Workers :
           /\ lockedBy'[v] = w /\ held'[w] = v
           /\ pc[w] \in {"poll", "idle"} /\ pc'[w] = "claimed"
           /\ status[v] = "uploaded"
<1>. USE DEF WellTyped, TypeOK, RunHolds, rowVars
<1>1. ~\E u \in Videos : ApiStep(u) \/ TimeStep(u)
  BY DEF ApiStep, TimeStep, MarkUploaded, Retry, Cancel, HeartbeatExpires, LockExpires
<1>2. ~Reap /\ ~UNCHANGED vars
  BY DEF Reap, vars, Requeued, Stale
<1>3. ASSUME NEW w \in Workers PROVE ~RunStep(w)
  <2>1. ~PeriodicBeat(w) /\ ~Boundary(w) /\ ~UploadDone(w) /\ ~RunThrows(w)
    BY DEF PeriodicBeat, Boundary, UploadDone, RunThrows, Heartbeat
  <2>2. ~FailRun(w) /\ ~FailRunThrows(w)
    BY DEF FailRun, FailRunThrows, FailOrRequeue, Requeued
  <2>3. ~FinishRun(w) /\ ~FinishThrows(w)
    BY DEF FinishRun, FinishThrows, MarkReadyAndEnqueue
  <2>. QED
    BY <2>1, <2>2, <2>3 DEF RunStep
<1>4. ASSUME NEW w \in Workers PROVE ~InstanceStep(w)
  BY DEF InstanceStep, Interrupt, ReleaseAndExit, ReleaseClaim, Crash, LaunchWorker, Launch
<1>5. ASSUME NEW w \in Workers, LoopStep(w) PROVE ClaimNext(w)
  BY <1>5 DEF LoopStep, StartRun, ClaimAnswerLost, ClaimNothing, IdleGraceOver, SelfTerminate
<1>6. PICK w \in Workers : ClaimNext(w)
  BY <1>1, <1>2, <1>3, <1>4, <1>5 DEF Next
<1>. QED
  BY <1>6 DEF ClaimNext, InStatus

(* A worker gets to the last stretch of a run by its claim and step by step. *)
LEMMA WritersWereWriting ==
  ASSUME WellTyped, [Next]_vars,
         NEW w \in Workers, pc'[w] \in {"claimed", "run", "finish"}
  PROVE  \/ /\ held'[w] = held[w] /\ pc[w] \in {"claimed", "run", "finish"}
            /\ pc'[w] = "claimed" => pc[w] = "claimed"
            /\ pc'[w] = "run" => pc[w] \in {"claimed", "run"}
            /\ pc'[w] = "finish" => pc[w] \in {"run", "finish"}
         \/ /\ pc'[w] = "claimed" /\ held'[w] \in Videos
            /\ status[held'[w]] = "uploaded" /\ status'[held'[w]] = "processing"
            /\ lockedBy'[held'[w]] = w
<1>. USE DEF WellTyped, TypeOK, RunHolds, workerVars
<1>1. ASSUME NEW v \in Videos, ApiStep(v) \/ TimeStep(v) PROVE UNCHANGED <<pc, held>>
  BY <1>1 DEF ApiStep, TimeStep, MarkUploaded, Retry, Cancel, HeartbeatExpires, LockExpires
<1>2. Reap \/ UNCHANGED vars => UNCHANGED <<pc, held>>
  BY DEF Reap, vars
<1>3. ASSUME NEW x \in Workers, RunStep(x) \/ LoopStep(x) \/ InstanceStep(x), x # w
      PROVE  UNCHANGED <<pc[w], held[w]>>
  BY <1>3, OthersStandStill
<1>4. CASE RunStep(w)
  <2>1. CASE PeriodicBeat(w) \/ UploadDone(w) \/ RunThrows(w)
    BY <2>1 DEF PeriodicBeat, UploadDone, RunThrows
  <2>2. CASE Boundary(w)
    BY <2>2 DEF Boundary
  <2>3. CASE FinishRun(w) \/ FailRun(w) \/ FailRunThrows(w) \/ FinishThrows(w)
    BY <2>3 DEF FinishRun, FailRun, FailRunThrows, FinishThrows, EndRunVideo
  <2>. QED
    BY <1>4, <2>1, <2>2, <2>3 DEF RunStep
<1>5. CASE LoopStep(w)
  <2>1. CASE ClaimNext(w)
    BY <2>1 DEF ClaimNext, InStatus
  <2>2. CASE ~ClaimNext(w)
    BY <1>5, <2>2 DEF LoopStep, StartRun, ClaimAnswerLost, ClaimNothing, IdleGraceOver, SelfTerminate
  <2>. QED
    BY <2>1, <2>2
<1>6. CASE InstanceStep(w)
  BY <1>6 DEF InstanceStep, Interrupt, ReleaseAndExit, Crash, Gone, LaunchWorker, Launch
<1>. QED
  BY <1>1, <1>2, <1>3, <1>4, <1>5, <1>6 DEF Next

LEMMA QueueStepKeepsDecryptInv ==
  ASSUME TreeInv, DecryptInv, QueueStep
  PROVE  DecryptInv'
<1>1. WellTyped /\ [Next]_vars /\ TypeOK
  BY DEF QueueStep, TreeInv, IInv, WellTyped
<1>2. KeysEndWithRuns'
  BY DEF QueueStep, KeysEndWithRuns
<1>3. UNCHANGED <<keyOf, tree>> /\ overlapped \subseteq overlapped'
  BY DEF QueueStep
<1>4. ASSUME NEW v \in Videos \ overlapped', NothingLate(v), ~NothingLate(v)'
      PROVE  \E x \in Workers : Writes(x, v) /\ pc[x] = "run" /\ pc'[x] \notin {"run", "finish"}
  BY <1>4 DEF QueueStep, LeftBehind, NothingLate, Uploading, Writes
<1>5. SoleWriter'
  <2>. SUFFICES ASSUME NEW v \in Videos \ overlapped', NEW w \in Workers,
                       held'[w] = v, pc'[w] \in {"claimed", "run", "finish"}, Owns(w, v)'
                PROVE  /\ \A x \in Workers \ {w} : ~Writes(x, v)'
                       /\ NothingLate(v)'
                       /\ pc'[w] = "run" =>
                            /\ runKey'[w] # NoKey => keyOf[v] = runKey'[w]
                            /\ \A s \in sent'[w] : tree[v][s] = runKey'[w]
                       /\ pc'[w] = "finish" => Decrypts(v)'
    BY <1>3 DEF SoleWriter
  <2>1. v \in Videos \ overlapped
    BY <1>3
  <2>2. CASE held[w] = v /\ pc[w] \in {"claimed", "run", "finish"} /\ Owns(w, v)
    <3>1. /\ \A x \in Workers \ {w} : ~Writes(x, v)
          /\ NothingLate(v)
      BY <2>1, <2>2 DEF DecryptInv, SoleWriter
    <3>2. \A x \in Workers \ {w} : ~Writes(x, v)'
      BY <1>1, <2>2, <3>1, WritersWereWriting DEF Writes, Owns
    <3>3. /\ pc'[w] = "claimed" => pc[w] = "claimed"
          /\ pc'[w] = "run" => pc[w] \in {"claimed", "run"}
          /\ pc'[w] = "finish" => pc[w] \in {"run", "finish"}
      BY <1>1, <2>2, WritersWereWriting DEF Owns
    <3>4. NothingLate(v)'
      BY <1>4, <3>1, <3>3
    <3>5. ASSUME pc'[w] = "run"
          PROVE  /\ runKey'[w] # NoKey => keyOf[v] = runKey'[w]
                 /\ \A s \in sent'[w] : tree[v][s] = runKey'[w]
      <4>1. runKey'[w] = runKey[w] /\ sent'[w] = sent[w]
        BY <3>5 DEF QueueStep
      <4>2. CASE pc[w] = "run"
        BY <2>1, <2>2, <4>1, <4>2 DEF DecryptInv, SoleWriter
      <4>3. CASE pc[w] = "claimed"
        BY <4>1, <4>3 DEF KeysEndWithRuns, DecryptInv, TreeInv, StoreInv, UploadsHaveKeys
      <4>. QED
        BY <3>3, <3>5, <4>2, <4>3
    <3>6. ASSUME pc'[w] = "finish" PROVE Decrypts(v)'
      <4>1. CASE pc[w] = "finish"
        BY <1>3, <2>1, <2>2, <4>1 DEF DecryptInv, SoleWriter, Decrypts
      <4>2. CASE pc[w] = "run"
        <5>1. sent[w] = Segments
          BY <3>6, <4>2 DEF QueueStep, UploadedAll
        <5>2. Segments # {} => runKey[w] \in Keys
          BY <5>1 DEF TreeInv, TreeTypeOK
        <5>3. \A s \in Segments : tree[v][s] = runKey[w] /\ keyOf[v] = runKey[w]
          BY <2>1, <2>2, <4>2, <5>1, <5>2 DEF DecryptInv, SoleWriter
        <5>. QED
          BY <1>3, <5>3 DEF Decrypts
      <4>. QED
        BY <3>3, <3>6, <4>1, <4>2
    <3>. QED
      BY <3>2, <3>4, <3>5, <3>6
  <2>3. CASE ~(held[w] = v /\ pc[w] \in {"claimed", "run", "finish"} /\ Owns(w, v))
    <3>1. status[v] = "uploaded" /\ status'[v] = "processing" /\ pc'[w] = "claimed"
      <4>1. CASE status[v] = "processing"
        <5>1. lockedBy[v] = lockedBy'[v]
          BY <1>1, <4>1, StepMovesRows DEF RowMove, Owns, Requeued
        <5>. QED
          BY <1>1, <2>3, <4>1, <5>1, WritersWereWriting DEF Owns
      <4>2. CASE status[v] # "processing"
        BY <1>1, <4>2, ClaimedByItsWorker DEF Owns
      <4>. QED
        BY <4>1, <4>2
    <3>2. ~Writing(v)
      BY <3>1 DEF QueueStep
    <3>3. \A x \in Workers : ~Writes(x, v)
      BY <3>2 DEF Writing, Writes
    <3>4. NothingLate(v)
      BY <3>2 DEF Writing, NothingLate
    <3>5. NothingLate(v)'
      BY <1>4, <3>3, <3>4
    <3>6. \A x \in Workers \ {w} : ~Writes(x, v)'
      BY <1>1, <3>3, WritersWereWriting DEF Writes, Owns
    <3>. QED
      BY <3>1, <3>5, <3>6
  <2>. QED
    BY <2>2, <2>3
<1>6. ReadyIsQuiet'
  <2>. SUFFICES ASSUME NEW v \in Videos \ overlapped', status'[v] = "ready"
                PROVE  ~Writing(v)' /\ Decrypts(v)'
    BY DEF ReadyIsQuiet
  <2>1. v \in Videos \ overlapped
    BY <1>3
  <2>2. Decrypts(v) /\ NothingLate(v) /\ \A x \in Workers : ~Writes(x, v)
    <3>1. CASE status[v] = "ready"
      BY <2>1, <3>1 DEF ReadyIsQuiet, DecryptInv, Writing, Writes, NothingLate
    <3>2. CASE status[v] # "ready"
      <4>1. PICK w \in Workers : pc[w] = "finish" /\ held[w] = v /\ Owns(w, v)
        BY <1>1, <3>2, ReadyFromFinish
      <4>2. ~Writes(w, v)
        BY <4>1 DEF Writes
      <4>. QED
        BY <2>1, <4>1, <4>2 DEF SoleWriter, DecryptInv
    <3>. QED
      BY <3>1, <3>2
  <2>3. \A x \in Workers : ~Writes(x, v)'
    BY <1>1, <2>2, WritersWereWriting DEF Writes
  <2>4. NothingLate(v)'
    BY <1>4, <2>2
  <2>. QED
    BY <1>3, <2>2, <2>3, <2>4 DEF Writing, Writes, NothingLate, Decrypts
<1>. QED
  BY <1>2, <1>5, <1>6 DEF DecryptInv

LEMMA StoreStepKeepsDecryptInv ==
  ASSUME TreeInv, DecryptInv, StoreStep
  PROVE  DecryptInv'
<1>1. UNCHANGED <<vars, overlapped>>
  BY DEF StoreStep, GenerateAndStore, PutSegment, LateLands, LateVanishes
<1>2. UNCHANGED <<status, lockedBy, pc, held, stage>>
  BY <1>1 DEF vars, rowVars, workerVars
<1>3. late' \subseteq late
  BY DEF StoreStep, GenerateAndStore, PutSegment, LateLands, LateVanishes
<1>4. /\ runKey \in [Workers -> Keys \cup {NoKey}] /\ keyOf \in [Videos -> Keys \cup {NoKey}]
      /\ sent \in [Workers -> SUBSET Segments]
      /\ tree \in [Videos -> [Segments -> Keys \cup {NoKey}]]
      /\ \A w \in Workers : sent[w] # {} => runKey[w] \in Keys
      /\ \A w \in Workers : pc[w] = "run" => held[w] \in Videos
  BY DEF TreeInv, TreeTypeOK, IInv, WellTyped, RunHolds
<1>5. KeysEndWithRuns'
  BY <1>2, <1>4
  DEF DecryptInv, KeysEndWithRuns, StoreStep, GenerateAndStore, PutSegment, Uploading, LateLands, LateVanishes
(* A prefix nobody writes to keeps its key and its segments.               *)
<1>6. ASSUME NEW v \in Videos, NothingLate(v), \A x \in Workers : ~(held[x] = v /\ pc[x] = "run")
      PROVE  keyOf'[v] = keyOf[v] /\ tree'[v] = tree[v]
  BY <1>4, <1>6 DEF StoreStep, GenerateAndStore, PutSegment, Uploading, LateLands, LateVanishes, NothingLate
<1>7. ReadyIsQuiet'
  <2>. SUFFICES ASSUME NEW v \in Videos \ overlapped, status[v] = "ready"
                PROVE  ~Writing(v)' /\ Decrypts(v)'
    BY <1>1, <1>2 DEF ReadyIsQuiet
  <2>1. ~Writing(v) /\ Decrypts(v)
    BY DEF DecryptInv, ReadyIsQuiet
  <2>2. keyOf'[v] = keyOf[v] /\ tree'[v] = tree[v]
    BY <1>6, <2>1 DEF Writing, NothingLate
  <2>. QED
    BY <1>2, <1>3, <2>1, <2>2 DEF Writing, Decrypts
<1>8. SoleWriter'
  <2>. SUFFICES ASSUME NEW v \in Videos \ overlapped, NEW w \in Workers,
                       held[w] = v, pc[w] \in {"claimed", "run", "finish"}, Owns(w, v)
                PROVE  /\ \A x \in Workers \ {w} : ~Writes(x, v)
                       /\ NothingLate(v)'
                       /\ pc[w] = "run" =>
                            /\ runKey'[w] # NoKey => keyOf'[v] = runKey'[w]
                            /\ \A s \in sent'[w] : tree'[v][s] = runKey'[w]
                       /\ pc[w] = "finish" => Decrypts(v)'
    BY <1>1, <1>2 DEF SoleWriter, Writes, Owns
  <2>1. /\ \A x \in Workers \ {w} : ~Writes(x, v)
        /\ NothingLate(v)
        /\ pc[w] = "run" =>
             /\ runKey[w] # NoKey => keyOf[v] = runKey[w]
             /\ \A s \in sent[w] : tree[v][s] = runKey[w]
        /\ pc[w] = "finish" => Decrypts(v)
    BY DEF DecryptInv, SoleWriter
  <2>2. NothingLate(v)'
    BY <1>3, <2>1 DEF NothingLate
  <2>3. ASSUME pc[w] # "run" PROVE pc[w] = "finish" => Decrypts(v)'
    <3>1. keyOf'[v] = keyOf[v] /\ tree'[v] = tree[v]
      BY <1>6, <2>1, <2>3 DEF Writes
    <3>. QED
      BY <2>1, <3>1 DEF Decrypts
  <2>4. ASSUME pc[w] = "run"
        PROVE  /\ runKey'[w] # NoKey => keyOf'[v] = runKey'[w]
               /\ \A s \in sent'[w] : tree'[v][s] = runKey'[w]
    <3>1. CASE GenerateAndStore(w)
      <4>1. sent'[w] = {}
        BY <1>4, <3>1 DEF GenerateAndStore
      <4>. QED
        BY <1>4, <3>1, <4>1 DEF GenerateAndStore
    <3>2. ASSUME NEW s \in Segments, PutSegment(w, s)
          PROVE  /\ runKey'[w] # NoKey => keyOf'[v] = runKey'[w]
                 /\ \A t \in sent'[w] : tree'[v][t] = runKey'[w]
      <4>1. UNCHANGED <<runKey, keyOf>> /\ sent'[w] = sent[w] \cup {s}
        BY <1>4, <3>2 DEF PutSegment
      <4>2. tree'[v] = [tree[v] EXCEPT ![s] = runKey[w]]
        BY <1>4, <3>2 DEF PutSegment
      <4>. QED
        BY <1>4, <2>1, <2>4, <4>1, <4>2
    <3>3. CASE ~GenerateAndStore(w) /\ \A s \in Segments : ~PutSegment(w, s)
      <4>1. keyOf'[v] = keyOf[v] /\ tree'[v] = tree[v]
        BY <1>4, <2>1, <2>4, <3>3
        DEF StoreStep, GenerateAndStore, PutSegment, Uploading, LateLands, LateVanishes, NothingLate, Writes
      <4>2. runKey'[w] = runKey[w] /\ sent'[w] = sent[w]
        BY <1>4, <3>3 DEF StoreStep, GenerateAndStore, PutSegment, LateLands, LateVanishes
      <4>. QED
        BY <2>1, <2>4, <4>1, <4>2
    <3>. QED
      BY <3>1, <3>2, <3>3
  <2>. QED
    BY <2>1, <2>2, <2>3, <2>4
<1>. QED
  BY <1>5, <1>7, <1>8 DEF DecryptInv

LEMMA TreeStepKeepsDecryptInv == TreeInv /\ DecryptInv /\ [TreeNext]_treeVars => DecryptInv'
<1>. SUFFICES ASSUME TreeInv, DecryptInv, [TreeNext]_treeVars PROVE DecryptInv'
  OBVIOUS
<1>1. CASE UNCHANGED treeVars
  BY <1>1 DEF treeVars, storeVars, vars, rowVars, workerVars, DecryptInv, KeysEndWithRuns, SoleWriter,
       Writes, NothingLate, ReadyIsQuiet, Writing, Decrypts, Owns
<1>. QED
  BY <1>1, QueueStepKeepsDecryptInv, StoreStepKeepsDecryptInv DEF TreeNext

(* A ready video plays: unless a run of it was started while an earlier one   *)
(* could still write, the key in video_keys decrypts every segment in R2.    *)
THEOREM TreeDecrypts == TreeSpec => []UnsharedTreeDecrypts
<1>1. DecryptInv => UnsharedTreeDecrypts
  BY DEF DecryptInv, ReadyIsQuiet, UnsharedTreeDecrypts
<1>. QED
  BY <1>1, InitEstablishesDecryptInv, TreeStepKeepsDecryptInv, TreeInvariant, PTL DEF TreeSpec
=============================================================================
