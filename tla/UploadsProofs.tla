--------------------------- MODULE UploadsProofs ---------------------------
(***************************************************************************)
(* Proofs about Uploads for any set of files, window and cap.               *)
(***************************************************************************)
EXTENDS Uploads, FiniteSetTheorems, TLAPS

Creates == {"create", "counted", "inserted"}

(* Where the browser, the API and the row of one file can be together.  An   *)
(* upload that got its presigned POST has a row and no create under way, and *)
(* a create that has yet to insert has no row, so nothing puts a row back to *)
(* 'uploading'.                                                            *)
InStep(f) ==
  /\ item[f] \in {"unseen", "queued"} => request[f] = "none" /\ row[f] = "none"
  /\ request[f] \in {"create", "counted"} => row[f] = "none"
  /\ item[f] \in {"uploading", "completing", "done"} => request[f] \notin Creates /\ row[f] # "none"
  /\ request[f] \in {"inserted", "found"} => row[f] # "none"
  /\ item[f] = "done" => row[f] # "uploading"
  /\ row[f] \in {"uploaded", "settled"} => f \in inS3
  /\ f \in file <=> item[f] \in {"queued"} \cup Active

UInv == TypeOK /\ \A f \in Files : InStep(f)

LEMMA InitEstablishesUInv == Init => UInv
<1>1. 1 \in 1 .. MaxVisits
  BY LimitsAssumption DEF LimitsAssumption
<1>. QED
  BY <1>1 DEF Init, UInv, TypeOK, InStep, ItemStatus, Request, Row, Active, Settled, Creates

(* pump() only starts items that wait.                                     *)
LEMMA PumpStarts ==
  ASSUME NEW items \in [Files -> ItemStatus], NEW requests \in [Files -> Request],
         NEW mine \in SUBSET Files, Pump(items, requests, mine)
  PROVE  /\ item' \in [Files -> ItemStatus] /\ request' \in [Files -> Request]
         /\ \A g \in Files :
              \/ item'[g] = items[g] /\ request'[g] = requests[g]
              \/ items[g] = "queued" /\ item'[g] = "creating" /\ request'[g] = "create"
  BY DEF Pump, ItemsIn, ItemStatus, Active, Settled, Request

(* One settles, some of those that wait start, the others stay.             *)
LEMMA SettleMoves ==
  ASSUME TypeOK, NEW f \in Files, NEW s \in Settled, NEW requests \in [Files -> Request],
         Settle(f, s, requests)
  PROVE  /\ item' \in [Files -> ItemStatus] /\ request' \in [Files -> Request]
         /\ file' = file \ {f} /\ UNCHANGED pageVars
         /\ item'[f] = s /\ request'[f] = requests[f]
         /\ \A g \in Files \ {f} :
              \/ item'[g] = item[g] /\ request'[g] = requests[g]
              \/ item[g] = "queued" /\ item'[g] = "creating" /\ request'[g] = "create"
<1>. DEFINE items == [item EXCEPT ![f] = s]
<1>1. items \in [Files -> ItemStatus]
  BY DEF TypeOK, ItemStatus
<1>2. /\ Pump(items, requests, Of(owner[f])) /\ Of(owner[f]) \in SUBSET Files
      /\ file' = file \ {f} /\ UNCHANGED pageVars
  BY DEF Settle, Of
<1>3. /\ item' \in [Files -> ItemStatus] /\ request' \in [Files -> Request]
      /\ \A g \in Files :
           \/ item'[g] = items[g] /\ request'[g] = requests[g]
           \/ items[g] = "queued" /\ item'[g] = "creating" /\ request'[g] = "create"
  <2>. HIDE DEF items
  <2>. QED
    BY <1>1, <1>2, PumpStarts
<1>4. items[f] = s /\ s # "queued" /\ \A g \in Files \ {f} : items[g] = item[g]
  BY DEF TypeOK, Settled
<1>. QED
  BY <1>2, <1>3, <1>4

(* An item that settles while the row stays keeps the file in step, if it    *)
(* is not shown as done.                                                   *)
LEMMA SettleInStep ==
  ASSUME UInv, NEW f \in Files, NEW s \in {"error", "cancelled"},
         NEW requests \in [Files -> Request],
         \A g \in Files : requests[g] \in {request[g], "none"},
         Settle(f, s, requests), UNCHANGED <<inS3, row>>
  PROVE  UInv'
<1>1. /\ item' \in [Files -> ItemStatus] /\ request' \in [Files -> Request]
      /\ file' = file \ {f} /\ UNCHANGED pageVars
      /\ item'[f] = s /\ request'[f] = requests[f]
      /\ \A g \in Files \ {f} :
           \/ item'[g] = item[g] /\ request'[g] = requests[g]
           \/ item[g] = "queued" /\ item'[g] = "creating" /\ request'[g] = "create"
  BY SettleMoves DEF UInv, Settled
<1>2. TypeOK'
  BY <1>1 DEF UInv, TypeOK, pageVars
<1>3. ASSUME NEW g \in Files PROVE InStep(g)'
  <2>1. CASE g = f
    BY <1>1, <2>1 DEF UInv, InStep, Creates, Active
  <2>2. CASE g # f
    BY <1>1, <2>2 DEF UInv, InStep, Creates, Active
  <2>. QED
    BY <2>1, <2>2
<1>. QED
  BY <1>2, <1>3 DEF UInv

(* The answer to a request that failed.                                    *)
LEMMA AnswerInStep ==
  ASSUME UInv, NEW f \in Files, NEW awaiting, Answer(f, awaiting, "error"),
         UNCHANGED <<inS3, row>>
  PROVE  UInv'
<1>. DEFINE requests == [request EXCEPT ![f] = "none"]
<1>1. requests \in [Files -> Request] /\ \A g \in Files : requests[g] \in {request[g], "none"}
  BY DEF UInv, TypeOK, Request
<1>2. CASE item[f] = awaiting
  <2>1. Settle(f, "error", requests)
    BY <1>2 DEF Answer
  <2>. HIDE DEF requests
  <2>. QED
    BY <1>1, <2>1, SettleInStep
<1>3. CASE item[f] # awaiting
  <2>1. request' = requests /\ UNCHANGED browserVars
    BY <1>3 DEF Answer
  <2>. QED
    BY <1>1, <2>1 DEF UInv, TypeOK, InStep, Creates, browserVars, pageVars
<1>. QED
  BY <1>2, <1>3

LEMMA BrowserStepInStep ==
  ASSUME UInv, BrowserStep
  PROVE  UInv'
<1>1. CASE AddFiles
  <2>1. PICK S \in SUBSET ItemsIn(item, {"unseen"}) :
          /\ file' = file \cup S
          /\ owner' = [f \in Files |-> IF f \in S THEN visit ELSE owner[f]]
          /\ Pump([f \in Files |-> IF f \in S THEN "queued" ELSE item[f]], request, Of(visit) \cup S)
    BY <1>1 DEF AddFiles, Picks
  <2>. DEFINE items == [f \in Files |-> IF f \in S THEN "queued" ELSE item[f]]
  <2>2. items \in [Files -> ItemStatus] /\ request \in [Files -> Request]
    BY DEF UInv, TypeOK, ItemStatus
  <2>3. /\ item' \in [Files -> ItemStatus] /\ request' \in [Files -> Request]
        /\ \A g \in Files :
             \/ item'[g] = items[g] /\ request'[g] = request[g]
             \/ items[g] = "queued" /\ item'[g] = "creating" /\ request'[g] = "create"
    <3>1. Pump(items, request, Of(visit) \cup S) /\ Of(visit) \cup S \in SUBSET Files
      BY <2>1 DEF ItemsIn, Of
    <3>. HIDE DEF items
    <3>. QED
      BY <2>2, <3>1, PumpStarts
  <2>4. S \subseteq Files /\ \A g \in S : item[g] = "unseen"
    BY DEF ItemsIn
  <2>5. TypeOK'
    <3>1. owner' \in [Files -> 1 .. MaxVisits] /\ visit' = visit
      BY <1>1, <2>1 DEF AddFiles, Picks, UInv, TypeOK
    <3>. QED
      BY <1>1, <2>1, <2>3, <2>4, <3>1 DEF AddFiles, Picks, UInv, TypeOK
  <2>6. \A g \in Files : InStep(g)'
    BY <1>1, <2>1, <2>3, <2>4 DEF AddFiles, Picks, UInv, InStep, Creates, Active
  <2>. QED
    BY <2>5, <2>6 DEF UInv
<1>2. CASE ClearFinished
  BY <1>2 DEF ClearFinished, Finished, ItemsIn, Of, UInv, TypeOK, InStep, ItemStatus, Active, Settled, Creates,
       serverVars, pageVars
<1>3. CASE Reload
  BY <1>3, LimitsAssumption DEF LimitsAssumption, Reload, UInv, TypeOK, InStep, ItemStatus, Active, serverVars
<1>7. CASE LeaveAndReturn
  BY <1>7, LimitsAssumption DEF LimitsAssumption, LeaveAndReturn, UInv, TypeOK, InStep, ItemStatus, Active, Settled, Creates,
       serverVars
<1>4. ASSUME NEW f \in Files, CancelQueued(f) PROVE UInv'
  BY <1>4 DEF CancelQueued, UInv, TypeOK, InStep, ItemStatus, Active, Settled, Creates, serverVars, pageVars
<1>5. ASSUME NEW f \in Files, AbortUpload(f) PROVE UInv'
  BY <1>5, SettleInStep DEF AbortUpload, UInv, TypeOK
<1>6. ASSUME NEW f \in Files, AnswerLost(f) PROVE UInv'
  BY <1>6, SettleInStep DEF AnswerLost, UInv, TypeOK
<1>. QED
  BY <1>1, <1>2, <1>3, <1>4, <1>5, <1>6, <1>7 DEF BrowserStep

LEMMA CreateStepInStep ==
  ASSUME UInv, NEW f \in Files, CreateStep(f)
  PROVE  UInv'
<1>. USE DEF UInv, TypeOK, InStep, ItemStatus, Request, Row, Active, Settled, Creates, browserVars, pageVars
<1>1. CASE Refuse(f)
  BY ONLY UInv, f \in Files, <1>1, AnswerInStep DEF Refuse
<1>2. CASE CountInFlight(f)
  BY <1>2 DEF CountInFlight
<1>3. CASE InsertRow(f)
  BY <1>3 DEF InsertRow
<1>4. CASE Presigned(f)
  BY <1>4 DEF Presigned
<1>. QED
  BY <1>1, <1>2, <1>3, <1>4 DEF CreateStep

LEMMA TransferStepInStep ==
  ASSUME UInv, NEW f \in Files, TransferStep(f)
  PROVE  UInv'
<1>. USE DEF UInv, TypeOK, InStep, ItemStatus, Request, Row, Active, Settled, Creates, browserVars, pageVars
<1>1. CASE PutLands(f)
  BY <1>1 DEF PutLands
<1>2. CASE PutAcked(f)
  BY <1>2 DEF PutAcked
<1>3. CASE PutFails(f)
  BY <1>3, SettleInStep DEF PutFails
<1>. QED
  BY <1>1, <1>2, <1>3 DEF TransferStep

(* The only step that shows an upload as done.                             *)
LEMMA CompleteInStep ==
  ASSUME UInv, NEW f \in Files, Complete(f)
  PROVE  UInv'
<1>1. CASE ~SourceVerified(f)
  BY <1>1, AnswerInStep DEF Complete
<1>2. CASE SourceVerified(f)
  <2>. DEFINE requests == [request EXCEPT ![f] = "none"]
  <2>1. /\ request[f] = "found" /\ f \in inS3
        /\ MarkUploaded(f) /\ Answer(f, "completing", "done")
        /\ UNCHANGED inS3
    BY <1>2 DEF Complete, SourceVerified
  <2>2. /\ row' \in [Files -> Row] /\ row'[f] \notin {"none", "uploading"}
        /\ \A g \in Files \ {f} : row'[g] = row[g]
    BY <2>1 DEF MarkUploaded, UInv, TypeOK, InStep, Row
  <2>3. requests \in [Files -> Request]
    BY DEF UInv, TypeOK, Request
  <2>4. CASE item[f] = "completing"
    <3>1. Settle(f, "done", requests)
      BY <2>1, <2>4 DEF Answer
    <3>2. /\ item' \in [Files -> ItemStatus] /\ request' \in [Files -> Request]
          /\ file' = file \ {f} /\ UNCHANGED pageVars
          /\ item'[f] = "done" /\ request'[f] = requests[f]
          /\ \A g \in Files \ {f} :
               \/ item'[g] = item[g] /\ request'[g] = requests[g]
               \/ item[g] = "queued" /\ item'[g] = "creating" /\ request'[g] = "create"
      <4>. HIDE DEF requests
      <4>. QED
        BY <2>3, <3>1, SettleMoves DEF UInv, Settled
    <3>3. TypeOK'
      BY <2>1, <2>2, <3>2 DEF UInv, TypeOK, pageVars
    <3>4. InStep(f)'
      BY <2>1, <2>2, <3>2 DEF UInv, TypeOK, InStep, Creates, Active
    <3>5. \A g \in Files \ {f} : InStep(g)'
      BY <2>1, <2>2, <3>2 DEF UInv, TypeOK, InStep, Creates, Active
    <3>. QED
      BY <3>3, <3>4, <3>5 DEF UInv
  <2>5. CASE item[f] # "completing"
    <3>1. request' = requests /\ UNCHANGED <<item, file, visit, owner>>
      BY <2>1, <2>5 DEF Answer, browserVars, pageVars
    <3>. QED
      BY <2>1, <2>2, <2>3, <3>1 DEF UInv, TypeOK, InStep, Creates
  <2>. QED
    BY <2>4, <2>5
<1>. QED
  BY <1>1, <1>2

LEMMA RowStepInStep ==
  ASSUME UInv, NEW f \in Files, RowStep(f)
  PROVE  UInv'
<1>. USE DEF UInv, TypeOK, InStep, ItemStatus, Row, Active, Creates, browserVars, pageVars
<1>1. CASE CompleteByOther(f)
  BY <1>1 DEF CompleteByOther, SourceVerified, MarkUploaded
<1>2. CASE RunSettles(f)
  BY <1>2 DEF RunSettles, MoveRow
<1>3. CASE Retry(f)
  BY <1>3 DEF Retry, MoveRow
<1>4. CASE Cancel(f)
  BY <1>4 DEF Cancel, MoveRow
<1>. QED
  BY <1>1, <1>2, <1>3, <1>4 DEF RowStep

LEMMA StepInStep == UInv /\ [Next]_vars => UInv'
<1>. SUFFICES ASSUME UInv, [Next]_vars PROVE UInv'
  OBVIOUS
<1>1. ASSUME NEW f \in Files, RequestThrows(f) PROVE UInv'
  BY <1>1, AnswerInStep DEF RequestThrows
<1>2. ASSUME NEW f \in Files, FindRow(f) PROVE UInv'
  <2>1. CASE row[f] = "uploading"
    BY <1>2, <2>1 DEF FindRow, UInv, TypeOK, InStep, Request, Creates, browserVars, pageVars
  <2>2. CASE row[f] # "uploading"
    BY <1>2, <2>2, AnswerInStep DEF FindRow
  <2>. QED
    BY <2>1, <2>2
<1>3. CASE UNCHANGED vars
  BY <1>3 DEF vars, browserVars, pageVars, serverVars, UInv, TypeOK, InStep
<1>. QED
  BY <1>1, <1>2, <1>3, BrowserStepInStep, CreateStepInStep, TransferStepInStep,
     CompleteInStep, RowStepInStep DEF Next, CompleteStep

THEOREM UploadInvariant == Spec => []UInv
  BY InitEstablishesUInv, StepInStep, PTL DEF Spec

(* Every variable keeps its type.                                          *)
THEOREM UploadsTyped == Spec => []TypeOK
<1>1. UInv => TypeOK
  BY DEF UInv
<1>. QED
  BY <1>1, UploadInvariant, PTL

(* Exactly the items that wait or are active hold their file, on every way   *)
(* out: no blob outlives its transfer, none is let go too early.            *)
THEOREM FilesHeld == Spec => []FilesHeldWhileNeeded
<1>1. UInv => FilesHeldWhileNeeded
  BY DEF UInv, TypeOK, InStep, FilesHeldWhileNeeded, ItemsIn
<1>. QED
  BY <1>1, UploadInvariant, PTL

(* Only a video whose source is in S3 gets into the queue, and an upload     *)
(* shown as done got its row out of 'uploading'.                            *)
THEOREM SourceFirst == Spec => []EnqueuedWithSource
<1>1. UInv => EnqueuedWithSource
  BY DEF UInv, InStep, EnqueuedWithSource
<1>. QED
  BY <1>1, UploadInvariant, PTL

(* A cancelled row stays cancelled: no insert is under way for a row that    *)
(* is there, and nothing else writes a cancelled one.                       *)
THEOREM CancelStands == Spec => CancelledRowStays
<1>1. ASSUME UInv, [Next]_vars, NEW f \in Files, row[f] = "cancelled"
      PROVE  row'[f] = "cancelled"
  <2>. row \in [Files -> Row]
    BY <1>1 DEF UInv, TypeOK
  <2>1. CASE BrowserStep \/ UNCHANGED vars
    BY <1>1, <2>1 DEF BrowserStep, AddFiles, Picks, ClearFinished, LeaveAndReturn, Reload, CancelQueued, AbortUpload,
         AnswerLost, vars, serverVars
  <2>2. ASSUME NEW g \in Files, CreateStep(g) PROVE row'[f] = "cancelled"
    BY <1>1, <2>2 DEF CreateStep, Refuse, CountInFlight, InsertRow, Presigned, UInv, InStep
  <2>3. ASSUME NEW g \in Files, TransferStep(g) \/ RequestThrows(g) PROVE row'[f] = "cancelled"
    BY <1>1, <2>3 DEF TransferStep, PutLands, PutAcked, PutFails, RequestThrows
  <2>4. ASSUME NEW g \in Files, CompleteStep(g) PROVE row'[f] = "cancelled"
    BY <1>1, <2>4 DEF CompleteStep, FindRow, Complete, MarkUploaded
  <2>5. ASSUME NEW g \in Files, RowStep(g) PROVE row'[f] = "cancelled"
    BY <1>1, <2>5 DEF RowStep, CompleteByOther, MarkUploaded, RunSettles, Retry, Cancel, MoveRow
  <2>. QED
    BY <1>1, <2>1, <2>2, <2>3, <2>4, <2>5 DEF Next
<1>2. UInv /\ [Next]_vars =>
        [\A f \in Files : row[f] = "cancelled" => row'[f] = "cancelled"]_vars
  BY <1>1
<1>. QED
  BY <1>2, UploadInvariant, PTL DEF Spec, CancelledRowStays
-----------------------------------------------------------------------------
(* The window of every page.                                               *)

Busy(items, mine)    == ItemsIn(items, Active) \cap mine
Waiting(items, mine) == ItemsIn(items, {"queued"}) \cap mine

Full(items, mine) ==
  /\ Cardinality(Busy(items, mine)) <= Concurrency
  /\ Waiting(items, mine) # {} => Cardinality(Busy(items, mine)) = Concurrency

LEMMA FullPages == WindowIsFull <=> \A page \in 1 .. MaxVisits : Full(item, Of(page))
  BY DEF WindowIsFull, Full, Busy, Waiting

(* What is busy can be counted. *)
LEMMA BusyIsFinite ==
  ASSUME NEW items, NEW mine
  PROVE  IsFiniteSet(Busy(items, mine)) /\ Cardinality(Busy(items, mine)) \in Nat
<1>1. IsFiniteSet(Files) /\ Busy(items, mine) \in SUBSET Files
  BY LimitsAssumption DEF LimitsAssumption, Busy, ItemsIn
<1>. QED
  BY <1>1, FS_Subset, FS_CardinalityType

(* pump() fills a window that is not exceeded. *)
LEMMA PumpFills ==
  ASSUME NEW items \in [Files -> ItemStatus], NEW requests, NEW mine \in SUBSET Files,
         Cardinality(Busy(items, mine)) <= Concurrency, Pump(items, requests, mine)
  PROVE  Full(item', mine)
<1>. DEFINE A == Busy(items, mine)
            Q == Waiting(items, mine)
<1>1. PICK S \in SUBSET Q :
        /\ Cardinality(S) = Least(Slots(items, mine), Cardinality(Q))
        /\ item' = [f \in Files |-> IF f \in S THEN "creating" ELSE items[f]]
  BY DEF Pump, Waiting
<1>2. IsFiniteSet(Q) /\ IsFiniteSet(S) /\ Cardinality(Q) \in Nat /\ Cardinality(S) \in Nat
  <2>1. IsFiniteSet(Files) /\ Q \in SUBSET Files
    BY LimitsAssumption DEF LimitsAssumption, Waiting, ItemsIn
  <2>2. IsFiniteSet(Q)
    BY <2>1, FS_Subset
  <2>3. IsFiniteSet(S)
    BY <2>2, FS_Subset
  <2>. QED
    BY <2>2, <2>3, FS_CardinalityType
<1>3. IsFiniteSet(A) /\ Cardinality(A) \in Nat /\ Cardinality(A) <= Concurrency /\ Concurrency \in Nat
  BY BusyIsFinite, LimitsAssumption DEF LimitsAssumption
<1>4. Cardinality(S) = Least(Concurrency - Cardinality(A), Cardinality(Q))
  BY <1>1, <1>2, <1>3 DEF Slots, Busy, Least
<1>5. S \subseteq mine /\ A \cap S = {}
  BY DEF Busy, Waiting, ItemsIn, Active
<1>6. Busy(item', mine) = A \cup S /\ Waiting(item', mine) = Q \ S
  BY <1>1, <1>5 DEF Busy, Waiting, ItemsIn, Active
<1>7. Cardinality(A \cup S) = Cardinality(A) + Cardinality(S)
  <2>1. Cardinality(A \cup S) = Cardinality(A) + Cardinality(S) - Cardinality(A \cap S)
    <3>. HIDE DEF A
    <3>. QED
      BY <1>2, <1>3, FS_Union
  <2>2. Cardinality(A \cap S) = 0
    BY <1>5, FS_EmptySet
  <2>. HIDE DEF A
  <2>. QED
    BY <2>1, <2>2, <1>2, <1>3
<1>8. Q \ S # {} => Cardinality(S) # Cardinality(Q)
  BY <1>2, FS_Subset
<1>. HIDE DEF A, Q
<1>. QED
  BY <1>2, <1>3, <1>4, <1>6, <1>7, <1>8 DEF Full, Least

(* A step that moves no item into or out of the busy ones, and none among     *)
(* those that wait.                                                        *)
LEMMA SameBusy ==
  ASSUME WindowIsFull, UNCHANGED owner,
         ItemsIn(item', Active) = ItemsIn(item, Active),
         ItemsIn(item', {"queued"}) \subseteq ItemsIn(item, {"queued"})
  PROVE  WindowIsFull'
<1>1. ASSUME NEW page \in 1 .. MaxVisits PROVE Full(item, Of(page))'
  <2>1. Full(item, Of(page))
    BY FullPages
  <2>2. /\ Of(page)' = Of(page)
        /\ Busy(item', Of(page)) = Busy(item, Of(page))
        /\ Waiting(item', Of(page)) \subseteq Waiting(item, Of(page))
    BY DEF Of, Busy, Waiting
  <2>. QED
    BY <2>1, <2>2 DEF Full, Busy, Waiting, ItemsIn
<1>. QED
  BY <1>1 DEF WindowIsFull, Full, Busy, Waiting, ItemsIn, Of

(* A page on which nothing moves stays as it is.                            *)
LEMMA OtherPage ==
  ASSUME NEW mine \in SUBSET Files, Full(item, mine), \A g \in mine : item'[g] = item[g]
  PROVE  Full(item', mine)
<1>1. Busy(item', mine) = Busy(item, mine) /\ Waiting(item', mine) = Waiting(item, mine)
  BY DEF Busy, Waiting, ItemsIn
<1>. QED
  BY <1>1 DEF Full

LEMMA SettleFills ==
  ASSUME TypeOK, WindowIsFull, NEW f \in Files, NEW s \in Settled, NEW requests,
         Settle(f, s, requests)
  PROVE  WindowIsFull'
<1>. DEFINE items == [item EXCEPT ![f] = s]
<1>1. /\ items \in [Files -> ItemStatus] /\ Of(owner[f]) \in SUBSET Files
      /\ Pump(items, requests, Of(owner[f])) /\ UNCHANGED <<visit, owner>>
      /\ owner[f] \in 1 .. MaxVisits
  BY DEF Settle, TypeOK, ItemStatus, Of, pageVars
<1>2. Full(item', Of(owner[f]))
  <2>1. Busy(items, Of(owner[f])) \in SUBSET Busy(item, Of(owner[f]))
    BY DEF Busy, ItemsIn, TypeOK, Active, Settled
  <2>2. Cardinality(Busy(items, Of(owner[f]))) <= Cardinality(Busy(item, Of(owner[f])))
    BY <2>1, BusyIsFinite, FS_Subset
  <2>3. Cardinality(Busy(item, Of(owner[f]))) <= Concurrency
    BY <1>1, FullPages DEF Full
  <2>4. Cardinality(Busy(items, Of(owner[f]))) <= Concurrency
    BY <2>2, <2>3, BusyIsFinite, LimitsAssumption DEF LimitsAssumption
  <2>. HIDE DEF items
  <2>. QED
    BY <1>1, <2>4, PumpFills
<1>3. ASSUME NEW page \in 1 .. MaxVisits, page # owner[f] PROVE Full(item', Of(page))
  <2>1. Of(page) \in SUBSET Files /\ \A g \in Of(page) : item'[g] = item[g]
    BY <1>1, <1>3 DEF Of, Pump, ItemsIn
  <2>2. Full(item, Of(page))
    BY FullPages
  <2>. QED
    BY <2>1, <2>2, OtherPage
<1>4. \A page \in 1 .. MaxVisits : Of(page)' = Of(page) /\ Full(item', Of(page))
  BY <1>1, <1>2, <1>3 DEF Of
<1>. QED
  BY <1>4 DEF WindowIsFull, Full, Busy, Waiting, ItemsIn, Of

LEMMA AddFilesFills ==
  ASSUME TypeOK, WindowIsFull, AddFiles
  PROVE  WindowIsFull'
<1>1. PICK S \in SUBSET ItemsIn(item, {"unseen"}) :
        /\ owner' = [f \in Files |-> IF f \in S THEN visit ELSE owner[f]]
        /\ Pump([f \in Files |-> IF f \in S THEN "queued" ELSE item[f]], request, Of(visit) \cup S)
  BY DEF AddFiles, Picks
<1>. DEFINE items == [f \in Files |-> IF f \in S THEN "queued" ELSE item[f]]
            mine  == Of(visit) \cup S
<1>2. /\ items \in [Files -> ItemStatus] /\ mine \in SUBSET Files /\ Of(visit)' = mine
      /\ visit \in 1 .. MaxVisits /\ visit' = visit
      /\ \A g \in S : item[g] = "unseen"
  BY <1>1 DEF AddFiles, Picks, TypeOK, ItemStatus, ItemsIn, Of
<1>3. Full(item', mine)
  <2>1. Busy(items, mine) = Busy(item, Of(visit))
    BY <1>2 DEF Busy, ItemsIn, Active, Of
  <2>2. Cardinality(Busy(items, mine)) <= Concurrency
    BY <1>2, <2>1, FullPages DEF Full
  <2>3. Pump(items, request, mine)
    BY <1>1
  <2>. HIDE DEF items, mine
  <2>. QED
    BY <1>2, <2>2, <2>3, PumpFills
<1>4. ASSUME NEW page \in 1 .. MaxVisits, page # visit PROVE Full(item', Of(page)')
  <2>1. Of(page)' = Of(page) \ S /\ Of(page)' \in SUBSET Files
    BY <1>1, <1>4 DEF Of, TypeOK
  <2>2. \A g \in Of(page)' : item'[g] = item[g]
    BY <1>1, <1>4, <2>1 DEF Of, Pump, ItemsIn
  <2>3. /\ Busy(item, Of(page)') = Busy(item, Of(page))
        /\ Waiting(item, Of(page)') = Waiting(item, Of(page))
    BY <1>2, <2>1 DEF Busy, Waiting, ItemsIn, Active
  <2>4. Full(item, Of(page)')
    BY <2>3, FullPages DEF Full
  <2>. QED
    BY <2>1, <2>2, <2>4, OtherPage
<1>5. \A page \in 1 .. MaxVisits : Full(item', Of(page)')
  BY <1>2, <1>3, <1>4
<1>. QED
  BY <1>5 DEF WindowIsFull, Full, Busy, Waiting, ItemsIn, Of

(* The answer to a request settles its item, or finds it gone.               *)
LEMMA AnswerFills ==
  ASSUME TypeOK, WindowIsFull, NEW f \in Files, NEW awaiting, NEW s \in Settled,
         Answer(f, awaiting, s)
  PROVE  WindowIsFull'
<1>1. CASE item[f] = awaiting
  BY <1>1, SettleFills DEF Answer
<1>2. CASE item[f] # awaiting
  BY <1>2, SameBusy DEF Answer, browserVars, pageVars
<1>. QED
  BY <1>1, <1>2

LEMMA StepFills == TypeOK /\ WindowIsFull /\ [Next]_vars => WindowIsFull'
<1>. SUFFICES ASSUME TypeOK, WindowIsFull, [Next]_vars PROVE WindowIsFull'
  OBVIOUS
<1>0. {"done", "error", "cancelled"} \subseteq Settled
  BY DEF Settled
<1>1. CASE BrowserStep
  <2>1. CASE ClearFinished \/ LeaveAndReturn
    BY <2>1, SameBusy DEF ClearFinished, LeaveAndReturn, Finished, TypeOK, ItemsIn, Active, Settled, pageVars
  <2>2. CASE Reload
    <3>1. owner' = owner /\ ItemsIn(item', Active) = {} /\ ItemsIn(item', {"queued"}) = {}
      BY <2>2 DEF Reload, ItemsIn, Active, TypeOK
    <3>2. Cardinality({}) = 0 /\ Concurrency \in Nat
      BY FS_EmptySet, LimitsAssumption DEF LimitsAssumption
    <3>. QED
      BY <3>1, <3>2 DEF WindowIsFull, ItemsIn, Of
  <2>3. ASSUME NEW f \in Files, CancelQueued(f) PROVE WindowIsFull'
    BY <2>3, SameBusy DEF CancelQueued, TypeOK, ItemsIn, Active, pageVars
  <2>4. ASSUME NEW f \in Files, AbortUpload(f) \/ AnswerLost(f) PROVE WindowIsFull'
    BY <1>0, <2>4, SettleFills DEF AbortUpload, AnswerLost
  <2>. QED
    BY <1>1, <2>1, <2>2, <2>3, <2>4, AddFilesFills DEF BrowserStep
<1>2. ASSUME NEW f \in Files, CreateStep(f) PROVE WindowIsFull'
  <2>1. CASE Refuse(f)
    BY <1>0, <2>1, AnswerFills DEF Refuse
  <2>2. CASE CountInFlight(f) \/ InsertRow(f)
    BY <2>2, SameBusy DEF CountInFlight, InsertRow, browserVars, pageVars
  <2>3. CASE Presigned(f)
    BY <2>3, SameBusy DEF Presigned, TypeOK, ItemsIn, Active, pageVars
  <2>. QED
    BY <1>2, <2>1, <2>2, <2>3 DEF CreateStep
<1>3. ASSUME NEW f \in Files, TransferStep(f) PROVE WindowIsFull'
  <2>1. CASE PutLands(f)
    BY <2>1, SameBusy DEF PutLands, browserVars, pageVars
  <2>2. CASE PutAcked(f)
    BY <2>2, SameBusy DEF PutAcked, TypeOK, ItemsIn, Active, pageVars
  <2>3. CASE PutFails(f)
    BY <1>0, <2>3, SettleFills DEF PutFails
  <2>. QED
    BY <1>3, <2>1, <2>2, <2>3 DEF TransferStep
<1>4. ASSUME NEW f \in Files, CompleteStep(f) PROVE WindowIsFull'
  <2>1. CASE FindRow(f)
    BY <1>0, <2>1, AnswerFills, SameBusy DEF FindRow, browserVars, pageVars
  <2>2. CASE Complete(f)
    BY <1>0, <2>2, AnswerFills DEF Complete
  <2>. QED
    BY <1>4, <2>1, <2>2 DEF CompleteStep
<1>5. ASSUME NEW f \in Files, RequestThrows(f) PROVE WindowIsFull'
  BY <1>0, <1>5, AnswerFills DEF RequestThrows
<1>6. ASSUME NEW f \in Files, RowStep(f) PROVE WindowIsFull'
  BY <1>6, SameBusy DEF RowStep, CompleteByOther, RunSettles, Retry, Cancel, MoveRow, browserVars, pageVars
<1>7. CASE UNCHANGED vars
  BY <1>7, SameBusy DEF vars, browserVars, pageVars
<1>. QED
  BY <1>1, <1>2, <1>3, <1>4, <1>5, <1>6, <1>7 DEF Next

(* The window of a page is never exceeded, and never has a free slot while    *)
(* an item of the page waits, whether or not the page is still open.         *)
THEOREM WindowKept == Spec => []WindowIsFull
<1>1. Init => WindowIsFull
  <2>1. SUFFICES ASSUME Init PROVE WindowIsFull
    OBVIOUS
  <2>2. ItemsIn(item, Active) = {} /\ ItemsIn(item, {"queued"}) = {}
    BY <2>1 DEF Init, ItemsIn, Active
  <2>3. Cardinality({}) = 0 /\ Concurrency \in Nat
    BY FS_EmptySet, LimitsAssumption DEF LimitsAssumption
  <2>. QED
    BY <2>2, <2>3 DEF WindowIsFull
<1>. QED
  BY <1>1, StepFills, UploadsTyped, PTL DEF Spec
=============================================================================
