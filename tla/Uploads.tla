------------------------------- MODULE Uploads -------------------------------
(***************************************************************************)
(* The way of a source file into the queue: the upload queue of the         *)
(* browser (useUploadManager), the requests it has open at the API          *)
(* (createUpload, completeUpload), the object in S3 and the row of the      *)
(* video.  The awaits of the two API calls are separate steps, and a        *)
(* request goes on when its browser is gone.  The queue belongs to the page: *)
(* one that is left goes on behind the next, which has a queue of its own.   *)
(***************************************************************************)
EXTENDS Naturals, FiniteSets

CONSTANTS
  Files,        \* files the user picks, one item (clientId) each
  Concurrency,  \* UPLOAD_CONCURRENCY
  MaxInFlight,  \* config.MAX_IN_FLIGHT
  MaxVisits     \* bound on how often the page is opened

ASSUME LimitsAssumption ==
  /\ IsFiniteSet(Files) /\ MaxVisits \in Nat \ {0}
  /\ Concurrency \in Nat \ {0} /\ MaxInFlight \in Nat \ {0}

VARIABLES
  (* the browser *)
  item,      \* status of an item, "unseen" before addFiles, "gone" when dropped
  file,      \* filesRef: the blobs held
  visit,     \* the page that is open, by the number of its mount
  owner,     \* the page whose queue an item is in
  (* the API and its stores *)
  request,   \* where the request an item opened is
  inS3,      \* the source object is in the upload bucket
  row        \* the videos row

pageVars    == <<visit, owner>>
browserVars == <<item, file, pageVars>>
serverVars  == <<request, inS3, row>>
vars        == <<browserVars, serverVars>>

Active     == {"creating", "uploading", "completing"}
Settled    == {"done", "error", "cancelled"}
ItemStatus == {"unseen", "queued", "gone"} \cup Active \cup Settled

(* createUpload is between its statements after "create", "counted" and      *)
(* "inserted", completeUpload after "complete" and "found".                  *)
Request == {"none", "create", "counted", "inserted", "complete", "found"}

(* "uploaded" stands for uploaded and processing, "settled" for ready and    *)
(* failed.                                                                  *)
Row == {"none", "uploading", "uploaded", "settled", "cancelled"}

TypeOK ==
  /\ item \in [Files -> ItemStatus]
  /\ file \subseteq Files
  /\ visit \in 1 .. MaxVisits /\ owner \in [Files -> 1 .. MaxVisits]
  /\ request \in [Files -> Request]
  /\ inS3 \subseteq Files
  /\ row  \in [Files -> Row]

Init ==
  /\ item = [f \in Files |-> "unseen"]
  /\ file = {}
  /\ visit = 1 /\ owner = [f \in Files |-> 1]
  /\ request = [f \in Files |-> "none"]
  /\ inS3 = {}
  /\ row  = [f \in Files |-> "none"]
-----------------------------------------------------------------------------
(* The browser's window.  Definitions named Faulty... are the code with one *)
(* plausible mistake in it; no action uses them.                            *)

ItemsIn(items, statuses) == {f \in Files : items[f] \in statuses}

Least(a, b) == IF a < b THEN a ELSE b

(* The items of one page. *)
Of(page) == {f \in Files : owner[f] = page}

FaultySlots(items, mine) == Concurrency

Slots(items, mine) ==
  LET active == Cardinality(ItemsIn(items, Active) \cap mine)
  IN  IF active < Concurrency THEN Concurrency - active ELSE 0

FaultyPump(items, requests, mine) == item' = items /\ request' = requests

(* pump(), run on the items of a page as the caller left them: as many queued *)
(* ones as there are slots start with createUpload.                         *)
Pump(items, requests, mine) ==
  LET queue == ItemsIn(items, {"queued"}) \cap mine
  IN  \E S \in SUBSET queue :
        /\ Cardinality(S) = Least(Slots(items, mine), Cardinality(queue))
        /\ item'    = [f \in Files |-> IF f \in S THEN "creating" ELSE items[f]]
        /\ request' = [f \in Files |-> IF f \in S THEN "create" ELSE requests[f]]

(* The dropzone gives the files of a drop or of a dialog, if there are any. *)
Picks == {S \in SUBSET ItemsIn(item, {"unseen"}) : S # {}}

AddFiles ==
  \E S \in Picks :
    /\ file' = file \cup S
    /\ owner' = [f \in Files |-> IF f \in S THEN visit ELSE owner[f]]
    /\ Pump([f \in Files |-> IF f \in S THEN "queued" ELSE item[f]], request, Of(visit) \cup S)
    /\ UNCHANGED <<visit, inS3, row>>

(* Another page and back: the items are gone from sight, but the uploads, and *)
(* those that wait behind them, go on.                                      *)
LeaveAndReturn ==
  /\ visit < MaxVisits /\ visit' = visit + 1
  /\ item' = [f \in Files |-> IF item[f] \in Settled THEN "gone" ELSE item[f]]
  /\ UNCHANGED <<file, owner, serverVars>>

(* process() ends: the status, releaseFile, and pump again. *)
Settle(f, status, requests) ==
  /\ file' = file \ {f}
  /\ Pump([item EXCEPT ![f] = status], requests, Of(owner[f]))
  /\ UNCHANGED pageVars

(* The answer to the request of f: it settles the item that still awaits it. *)
Answer(f, awaiting, status) ==
  LET requests == [request EXCEPT ![f] = "none"]
  IN  IF item[f] = awaiting
      THEN Settle(f, status, requests)
      ELSE request' = requests /\ UNCHANGED browserVars

(* UploadQueueItem is on the page, with a button while there is one to press. *)
Shown(f) == owner[f] = visit /\ item[f] \in {"queued"} \cup Active

FaultyCancelQueued(f) ==
  /\ Shown(f) /\ item[f] = "queued"
  /\ item' = [item EXCEPT ![f] = "cancelled"]
  /\ UNCHANGED <<file, pageVars, serverVars>>

(* cancelItem on an item without an XHR: only a waiting one is dropped. *)
CancelQueued(f) ==
  /\ Shown(f) /\ item[f] = "queued"
  /\ item' = [item EXCEPT ![f] = "cancelled"]
  /\ file' = file \ {f}
  /\ UNCHANGED <<pageVars, serverVars>>

(* cancelItem aborts the XHR.  After its end abort() does nothing, so an     *)
(* item that is "completing" cannot be cancelled, nor can one "creating".    *)
AbortUpload(f) ==
  /\ Shown(f) /\ item[f] = "uploading"
  /\ Settle(f, "cancelled", request)
  /\ UNCHANGED <<inS3, row>>

(* The button is there while the page shows something finished. *)
Finished == ItemsIn(item, Settled) \cap Of(visit)

ClearFinished ==
  /\ Finished # {}
  /\ item' = [f \in Files |-> IF f \in Finished THEN "gone" ELSE item[f]]
  /\ UNCHANGED <<file, pageVars, serverVars>>

(* The tab is closed or reloaded: nothing of any queue survives. *)
Reload ==
  /\ visit < MaxVisits /\ visit' = visit + 1
  /\ item' = [f \in Files |-> IF item[f] = "unseen" THEN "unseen" ELSE "gone"]
  /\ file' = {}
  /\ UNCHANGED <<owner, serverVars>>

(* The connection is lost while the API works on the request. *)
AnswerLost(f) ==
  /\ item[f] \in {"creating", "completing"}
  /\ Settle(f, "error", request)
  /\ UNCHANGED <<inS3, row>>
-----------------------------------------------------------------------------
(* createUpload.                                                           *)

InFlight == {f \in Files : row[f] \in {"uploading", "uploaded"}}

CapReached == Cardinality(InFlight) >= MaxInFlight

Refuse(f) ==
  /\ request[f] = "create" /\ CapReached
  /\ Answer(f, "creating", "error")
  /\ UNCHANGED <<inS3, row>>

CountInFlight(f) ==
  /\ request[f] = "create" /\ ~CapReached
  /\ request' = [request EXCEPT ![f] = "counted"]
  /\ UNCHANGED <<browserVars, inS3, row>>

InsertRow(f) ==
  /\ request[f] = "counted"
  /\ row'     = [row EXCEPT ![f] = "uploading"]
  /\ request' = [request EXCEPT ![f] = "inserted"]
  /\ UNCHANGED <<browserVars, inS3>>

(* The presigned POST reaches the browser, which starts its XHR. *)
Presigned(f) ==
  /\ request[f] = "inserted"
  /\ request' = [request EXCEPT ![f] = "none"]
  /\ item'    = [item EXCEPT ![f] = IF @ = "creating" THEN "uploading" ELSE @]
  /\ UNCHANGED <<file, pageVars, inS3, row>>

(* Any statement of either call throws. *)
RequestThrows(f) ==
  /\ \/ request[f] \in {"create", "counted", "inserted"} /\ Answer(f, "creating", "error")
     \/ request[f] \in {"complete", "found"} /\ Answer(f, "completing", "error")
  /\ UNCHANGED <<inS3, row>>
-----------------------------------------------------------------------------
(* The transfer and completeUpload.                                        *)

PutLands(f) ==
  /\ item[f] = "uploading" /\ f \notin inS3
  /\ inS3' = inS3 \cup {f}
  /\ UNCHANGED <<browserVars, request, row>>

PutAcked(f) ==
  /\ item[f] = "uploading" /\ f \in inS3
  /\ item'    = [item EXCEPT ![f] = "completing"]
  /\ request' = [request EXCEPT ![f] = "complete"]
  /\ UNCHANGED <<file, pageVars, inS3, row>>

PutFails(f) ==
  /\ item[f] = "uploading"
  /\ Settle(f, "error", request)
  /\ UNCHANGED <<inS3, row>>

FindRow(f) ==
  /\ request[f] = "complete"
  /\ IF row[f] = "uploading"
     THEN request' = [request EXCEPT ![f] = "found"] /\ UNCHANGED browserVars
     ELSE Answer(f, "completing", "error")
  /\ UNCHANGED <<inS3, row>>

(* HeadObject finds the object. *)
SourceVerified(f) == f \in inS3

FaultyMarkUploaded(f) == row' = [row EXCEPT ![f] = "uploaded"]

MarkUploaded(f) == row' = [row EXCEPT ![f] = IF @ = "uploading" THEN "uploaded" ELSE @]

(* HeadObject, markUploaded and the answer, which is 'uploaded' whether or   *)
(* not the row was still 'uploading'.                                       *)
Complete(f) ==
  /\ request[f] = "found"
  /\ IF SourceVerified(f)
     THEN MarkUploaded(f) /\ Answer(f, "completing", "done")
     ELSE UNCHANGED row /\ Answer(f, "completing", "error")
  /\ UNCHANGED inS3

(* The same call by another client of the API, at any time. *)
CompleteByOther(f) ==
  /\ row[f] = "uploading" /\ SourceVerified(f)
  /\ MarkUploaded(f)
  /\ UNCHANGED <<browserVars, request, inS3>>
-----------------------------------------------------------------------------
(* The rest of the row's life.                                             *)

MoveRow(f, from, to) ==
  /\ row[f] = from
  /\ row' = [row EXCEPT ![f] = to]
  /\ UNCHANGED <<browserVars, request, inS3>>

RunSettles(f) == MoveRow(f, "uploaded", "settled")

(* retry() does not look at the cap. *)
Retry(f) == MoveRow(f, "settled", "uploaded")

Cancel(f) ==
  \E s \in {"uploading", "uploaded", "settled"} : MoveRow(f, s, "cancelled")
-----------------------------------------------------------------------------
BrowserStep ==
  \/ AddFiles \/ ClearFinished \/ LeaveAndReturn \/ Reload
  \/ \E f \in Files : CancelQueued(f) \/ AbortUpload(f) \/ AnswerLost(f)

CreateStep(f) == Refuse(f) \/ CountInFlight(f) \/ InsertRow(f) \/ Presigned(f)
TransferStep(f) == PutLands(f) \/ PutAcked(f) \/ PutFails(f)
CompleteStep(f) == FindRow(f) \/ Complete(f)
RowStep(f) == CompleteByOther(f) \/ RunSettles(f) \/ Retry(f) \/ Cancel(f)

Next ==
  \/ BrowserStep
  \/ \E f \in Files :
       \/ CreateStep(f) \/ TransferStep(f) \/ CompleteStep(f) \/ RequestThrows(f)
       \/ RowStep(f)

(* The API answers or throws, and a transfer ends, if only by an error. *)
Fairness ==
  \A f \in Files :
    /\ WF_vars(CreateStep(f)) /\ WF_vars(CompleteStep(f))
    /\ WF_vars(PutAcked(f) \/ PutFails(f))

Spec == Init /\ [][Next]_vars /\ Fairness
-----------------------------------------------------------------------------
(* Properties.                                                             *)

(* "re-runs as slots free": the window of a page is never exceeded, and never *)
(* has a free slot while an item of the page waits, however uploads end, are *)
(* cancelled or are added, and whether or not the page is still open.        *)
WindowIsFull ==
  \A page \in 1 .. MaxVisits :
    LET active == Cardinality(ItemsIn(item, Active) \cap Of(page))
    IN  /\ active <= Concurrency
        /\ ItemsIn(item, {"queued"}) \cap Of(page) # {} => active = Concurrency

(* "Max concurrent active uploads (the rest queue)", "Runs up to              *)
(* UPLOAD_CONCURRENCY in parallel; the rest wait".  It is the maximum of a    *)
(* page: uploads that go on behind the next one are not counted.            *)
UploadsWithinWindow == Cardinality(ItemsIn(item, Active)) <= Concurrency

(* "never hold large File blobs longer than the transfer": exactly the items *)
(* that wait or are active hold their file, on every way out.               *)
FilesHeldWhileNeeded == file = ItemsIn(item, {"queued"} \cup Active)

(* Only a video whose source is in S3 gets into the queue, and an upload     *)
(* shown as done got its row out of 'uploading'.                            *)
EnqueuedWithSource ==
  \A f \in Files :
    /\ row[f] \in {"uploaded", "settled"} => f \in inS3
    /\ item[f] = "done" => row[f] \notin {"none", "uploading"}

(* A cancelled row stays cancelled, although completeUpload checks the       *)
(* status two awaits before it writes it.                                   *)
CancelledRowStays ==
  [][\A f \in Files : row[f] = "cancelled" => row'[f] = "cancelled"]_vars

(* Every queued item gets its turn and is settled or dropped. *)
UploadsSettle ==
  \A f \in Files : item[f] = "queued" ~> item[f] \in Settled \cup {"gone"}
=============================================================================
