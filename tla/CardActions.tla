----------------------------- MODULE CardActions -----------------------------
(***************************************************************************)
(* What a click on the buttons of a video is answered with: Retry, Cancel,    *)
(* Rename and Download on its card, and Download on its own page.  A button   *)
(* has one observer of its mutations.  The callbacks that are given to       *)
(* mutate() run for the observer's latest mutation and while it is mounted,  *)
(* those of the hook for every one.  (The caches are Dashboard's.)           *)
(***************************************************************************)
EXTENDS Naturals

CONSTANTS
  Clicks,     \* the clicks there may be, numbered
  MaxMoves,   \* bound on what moves the row without these buttons
  MaxEditors  \* bound on how often the title is edited

ClicksAssumption == Clicks \subseteq Nat /\ {MaxMoves, MaxEditors} \subseteq Nat

VARIABLES
  row,      \* status in the database
  moves,    \* how often it has been moved without these buttons
  page,     \* the "list" with the card, the "video"'s own page, or "elsewhere"
  shown,    \* the status that the page shows
  opened,   \* how often the title has been edited
  editing,  \* which of these editors is open, 0 if none is
  click,    \* of each click, its mutation (see Unclicked)
  cutOff    \* history: an answer closed an editor that had not asked for it

vars == <<row, moves, page, shown, opened, editing, click, cutOff>>

Statuses == {"queued", "processing", "ready", "failed", "cancelled"}
Buttons  == {"retry", "cancel", "download", "pageDownload"}
Controls == Buttons \cup {"rename"}
Download(control) == control \in {"download", "pageDownload"}

(* A click that has not been made: its button, the request ("sent", "found"   *)
(* between two statements of its handler, "done" or "refused"; "over" when    *)
(* it has settled), the editor it was made in, the status that its guess      *)
(* replaced; whether its observer still listens, whether the button was gone  *)
(* or used again before it settled; and what came of it.                    *)
Unclicked ==
  [control |-> "none", request |-> "none", editor |-> 0, was |-> "none",
   heard |-> FALSE, left |-> FALSE, ok |-> FALSE, told |-> FALSE, saved |-> FALSE]

TypeOK ==
  /\ row \in Statuses /\ shown \in Statuses /\ moves \in 0 .. MaxMoves
  /\ page \in {"list", "video", "elsewhere"}
  /\ opened \in 0 .. MaxEditors /\ editing \in 0 .. opened
  /\ cutOff \in BOOLEAN
  /\ click \in [Clicks ->
       [control : Controls \cup {"none"},
        request : {"none", "sent", "found", "done", "refused", "over"},
        editor : 0 .. MaxEditors, was : Statuses \cup {"none"},
        heard : BOOLEAN, left : BOOLEAN, ok : BOOLEAN,
        told : BOOLEAN, saved : BOOLEAN]]

Init ==
  /\ row \in Statuses /\ shown = row /\ moves = 0
  /\ page = "list" /\ opened = 0 /\ editing = 0
  /\ click = [i \in Clicks |-> Unclicked] /\ cutOff = FALSE
-----------------------------------------------------------------------------
(* The card and the page.  Definitions named Faulty... are the code with one  *)
(* plausible mistake in it; no action uses them.                            *)

(* The buttons that a card, or the page, offers for a status. *)
Offered(control) ==
  \/ page = "list" /\ \/ control = "retry" /\ shown = "failed"
                      \/ control = "cancel" /\ shown \in {"queued", "failed"}
                      \/ control = "download" /\ shown = "ready"
  \/ page = "video" /\ control = "pageDownload" /\ shown = "ready"

Pending(control) ==
  \E i \in Clicks : click[i].control = control /\ click[i].heard

FaultyDisabled(control) == FALSE
Disabled(control) == Pending(control)

(* The observers of these controls listen to their mutations no longer. *)
Unheard(controls) ==
  [i \in Clicks |-> IF click[i].control \in controls /\ click[i].heard
                    THEN [click[i] EXCEPT !.heard = FALSE, !.left = TRUE] ELSE click[i]]

Latest(control, given) ==
  [given EXCEPT !.control = control, !.request = "sent", !.editor = editing,
                !.was = shown, !.heard = TRUE]

(* The page's own Download is there while it shows a ready video. *)
Removed(status) == IF status = "ready" THEN {} ELSE {"pageDownload"}

(* mutate(): the observer gives up the mutation it had. *)
Mutate(control, guess) ==
  \E i \in Clicks :
    /\ click[i] = Unclicked /\ \A j \in Clicks : j < i => click[j] # Unclicked
    /\ click' = [j \in Clicks |->
                   IF j = i THEN Latest(control, Unclicked)
                   ELSE [click[j] EXCEPT !.heard = @ /\ click[j].control # control,
                           !.left = @ \/ (control = "rename" /\ click[j].control = control /\ click[j].heard)]]
    /\ shown' = guess
    /\ UNCHANGED <<row, moves, page, opened, editing, cutOff>>

Press(control) ==
  /\ Offered(control) /\ ~Disabled(control)
  /\ Mutate(control, CASE control = "retry"  -> "queued"
                       [] control = "cancel" -> "cancelled"
                       [] OTHER              -> shown)

(* The pencil. *)
OpenEditor ==
  /\ page = "list" /\ editing = 0 /\ opened < MaxEditors
  /\ opened' = opened + 1 /\ editing' = opened + 1
  /\ UNCHANGED <<row, moves, page, shown, click, cutOff>>

(* Enter, or the tick, with a new title: nothing stops the next one, which   *)
(* takes the place of this one.                                             *)
Submit == editing # 0 /\ Mutate("rename", shown)

(* Escape, the cross, or Enter with the title the video has, by its guess. *)
CloseEditor ==
  /\ editing # 0 /\ editing' = 0
  /\ click' = Unheard({"rename"})
  /\ UNCHANGED <<row, moves, page, shown, opened, cutOff>>

(* Another page; the card is not on every page of the list either. *)
Visit ==
  /\ page' \in {"list", "video", "elsewhere"} \ {page}
  /\ editing' = 0 /\ click' = Unheard(Controls)
  /\ UNCHANGED <<row, moves, shown, opened, cutOff>>

(* A fetch of the page. *)
Refetch ==
  /\ shown # row /\ shown' = row
  /\ click' = Unheard(Removed(row))
  /\ UNCHANGED <<row, moves, page, opened, editing, cutOff>>

(* The pipeline, another client, or the tenant-admin service. *)
RowMoves ==
  /\ moves < MaxMoves /\ moves' = moves + 1
  /\ \E move \in {<<"queued", "processing">>, <<"processing", "ready">>,
                  <<"processing", "failed">>, <<"failed", "queued">>,
                  <<"queued", "cancelled">>, <<"failed", "cancelled">>,
                  <<"ready", "cancelled">>} : row = move[1] /\ row' = move[2]
  /\ UNCHANGED <<page, shown, opened, editing, click, cutOff>>
-----------------------------------------------------------------------------
(* The API.                                                                *)

At(i, control, request) == click[i].control = control /\ click[i].request = request

Becomes(i, request) ==
  /\ click' = [click EXCEPT ![i].request = request]
  /\ UNCHANGED <<moves, page, shown, opened, editing, cutOff>>

FindFailed(i) ==
  /\ At(i, "retry", "sent") /\ UNCHANGED row
  /\ Becomes(i, IF row = "failed" THEN "found" ELSE "refused")

(* It answers with the video, whatever the guarded UPDATE found. *)
RetryRow(i) ==
  /\ At(i, "retry", "found") /\ Becomes(i, "done")
  /\ row' = IF row = "failed" THEN "queued" ELSE row

CancelRow(i) ==
  /\ At(i, "cancel", "sent")
  /\ IF row \in {"queued", "processing", "failed"}
     THEN row' = "cancelled" /\ Becomes(i, "done")
     ELSE UNCHANGED row /\ Becomes(i, "refused")

SetTitle(i) == At(i, "rename", "sent") /\ Becomes(i, "done") /\ UNCHANGED row

(* A HEAD that fails, in any way, is an object that is not there. *)
HeadAnswers == {"done", "refused"}

(* It asks for the row whatever its status, and then for the object. *)
MintUrl(i) ==
  /\ Download(click[i].control) /\ click[i].request = "sent" /\ UNCHANGED row
  /\ \E head \in HeadAnswers : Becomes(i, head)

(* The request does not arrive, or its answer does not. *)
Lost(i) ==
  /\ click[i].request \in {"sent", "done"} /\ UNCHANGED row
  /\ Becomes(i, "refused")

HandlerStep(i) ==
  FindFailed(i) \/ RetryRow(i) \/ CancelRow(i) \/ SetTitle(i) \/ MintUrl(i) \/ Lost(i)
-----------------------------------------------------------------------------
(* toast.error, which the button gives to mutate(). *)
Told(c) == c.request = "refused" /\ c.heard

(* triggerBrowserDownload, which the hook has of its own. *)
Saved(c) == c.request = "done" /\ Download(c.control)

(* The callbacks of the hook, then those of mutate(): a refused guess is      *)
(* taken back and a URL is saved by every one, a refusal is told, and the     *)
(* editor closed, by one that is heard.                                     *)
Settle(i) ==
  LET c  == click[i]
      ok == c.request = "done"
  IN  /\ c.request \in {"done", "refused"}
      /\ shown'   = IF ~ok /\ c.control \in {"retry", "cancel"} THEN c.was ELSE shown
      /\ click'   = [Unheard(Removed(shown'))
                       EXCEPT ![i].request = "over", ![i].ok = ok, ![i].heard = FALSE,
                              ![i].editor = 0, ![i].was = "none",
                              ![i].saved = Saved(c), ![i].told = Told(c)]
      /\ editing' = IF c.control = "rename" /\ c.heard THEN 0 ELSE editing
      /\ cutOff'  = (cutOff \/ (editing' # editing /\ editing # c.editor))
      /\ UNCHANGED <<row, moves, page, opened>>
-----------------------------------------------------------------------------
Next ==
  \/ \E control \in Buttons : Press(control)
  \/ OpenEditor \/ Submit \/ CloseEditor
  \/ Visit \/ Refetch \/ RowMoves
  \/ \E i \in Clicks : HandlerStep(i) \/ Settle(i)

Spec == Init /\ [][Next]_vars
-----------------------------------------------------------------------------
(* Properties.                                                             *)

(* "The server is the source of truth (we catch 409)": who stays with the     *)
(* button he clicked, whatever else he clicks meanwhile, is told of a         *)
(* refusal, and of nothing else; a download that is granted is saved once,   *)
(* even when its page was left; and no late answer closes an editor that was  *)
(* opened after it was asked for.                                           *)
ClicksAnswered ==
  /\ ~cutOff
  /\ \A i \in Clicks :
       LET c == click[i] IN
       c.request = "over" =>
         /\ c.told => ~c.ok
         /\ ~c.ok /\ ~c.left => c.told
         /\ c.saved <=> (c.ok /\ Download(c.control))
=============================================================================
