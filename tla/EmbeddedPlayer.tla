--------------------------- MODULE EmbeddedPlayer ---------------------------
(***************************************************************************)
(* EuronVideoPlayer in a page that replaces it: each click on "Load & Play"   *)
(* destroys the current player and loads another, and is not kept from doing  *)
(* so while an earlier click still awaits.  load() and destroy() of the same  *)
(* player may overlap between any two of their awaits.                       *)
(***************************************************************************)
EXTENDS Naturals

CONSTANT Clicks  \* the clicks there may be; each makes the player of its number

ClicksAssumption == Clicks \subseteq Nat \ {0}

VARIABLES
  browser,   \* what the choice of the path depends on
  current,   \* the player of the page, 0 before there is one
  handler,   \* of each click what it awaits
  target,    \* of each click the player it destroys, or 0
  load,      \* of each player what load() awaits
  field,     \* of each player its fields that are not null
  live,      \* what there is of each player, and goes on by itself
  overlap    \* history, of each player: what load() awaited when the first
             \* click destroyed it, or that another click awaited the end of
             \* the player before it, and replaced it

vars == <<browser, current, handler, target, load, field, live, overlap>>

Browsers == [appleWebKit : BOOLEAN, canPlayHls : BOOLEAN, mse : BOOLEAN]
Fields   == {"watermark", "ui", "player", "video"}
Awaited  == {"attach", "keys", "media", "thumbnails"}

TypeOK ==
  /\ browser \in Browsers
  /\ current \in Clicks \cup {0} /\ target \in [Clicks -> Clicks \cup {0}]
  /\ handler \in [Clicks -> {"idle", "ui", "player", "rest", "over"}]
  /\ load \in [Clicks -> Awaited \cup {"none", "done", "failed"}]
  /\ {field, live} \subseteq [Clicks -> SUBSET Fields]
  /\ overlap \in [Clicks -> Awaited \cup {"none", "replaced"}]

Init ==
  /\ browser \in Browsers
  /\ current = 0
  /\ handler = [h \in Clicks |-> "idle"] /\ target = [h \in Clicks |-> 0]
  /\ load = [p \in Clicks |-> "none"]
  /\ field = [p \in Clicks |-> {}] /\ live = [p \in Clicks |-> {}]
  /\ overlap = [p \in Clicks |-> "none"]

Awaits(p) == load[p] \in Awaited
-----------------------------------------------------------------------------
(* load().  Definitions named Faulty... are the code with one plausible      *)
(* mistake in it; no action uses them.                                      *)

(* playbackMode "auto", with both sources configured. *)
Native == browser.appleWebKit /\ browser.canPlayHls

(* What a player has at the first await of load(), or at its end. *)
AtOnce == IF Native THEN {"video", "watermark"}
          ELSE IF browser.mse THEN {"video", "player"} ELSE {}

(* With t destroyed, if any, the page empties its container, makes a player,  *)
(* and loads it; a player is in no field before it is attached, which of a    *)
(* new player and a new element does not fail.                              *)
Load(p, t) ==
  /\ current' = p
  /\ load' = [load EXCEPT ![p] =
       IF Native THEN "done" ELSE IF browser.mse THEN "attach" ELSE "failed"]
  /\ field' = [q \in Clicks |->
       IF q = p THEN AtOnce \ {"player"} ELSE IF q = t THEN {} ELSE field[q]]
  /\ live' = [q \in Clicks |-> IF q = p THEN AtOnce ELSE live[q] \ {"video"}]

Attached(p) ==
  /\ load[p] = "attach"
  /\ load'  = [load EXCEPT ![p] = "keys"]
  /\ field' = [field EXCEPT ![p] = @ \cup {"player"}]
  /\ UNCHANGED <<browser, current, handler, target, live, overlap>>

(* configure(), the overlay, and player.load(); on a player that has been     *)
(* destroyed, the first two may throw or not.                               *)
HasKeys(p) ==
  /\ load[p] = "keys"
  /\ \/ /\ load'  = [load EXCEPT ![p] = "media"]
        /\ field' = [field EXCEPT ![p] = @ \cup {"ui"}]
        /\ live'  = [live EXCEPT ![p] = @ \cup {"ui"}]
     \/ /\ "player" \notin live[p]
        /\ load' = [load EXCEPT ![p] = "failed"]
        /\ UNCHANGED <<field, live>>
  /\ UNCHANGED <<browser, current, handler, target, overlap>>

(* A player that has been destroyed loads nothing. *)
MediaLoaded(p) ==
  /\ load[p] = "media" /\ "player" \in live[p]
  /\ load' = [load EXCEPT ![p] = "thumbnails"]
  /\ UNCHANGED <<browser, current, handler, target, field, live, overlap>>

(* With the thumbnails or without: their failure is caught. *)
StartWatermark(p) ==
  /\ load[p] = "thumbnails"
  /\ load'  = [load EXCEPT ![p] = "done"]
  /\ field' = [field EXCEPT ![p] = @ \cup {"watermark"}]
  /\ live'  = [live EXCEPT ![p] = @ \cup {"watermark"}]
  /\ UNCHANGED <<browser, current, handler, target, overlap>>

(* The keys were refused, the manifest cannot be loaded, or not any more.     *)
LoadFails(p) ==
  /\ load[p] \in {"keys", "media"}
  /\ load' = [load EXCEPT ![p] = "failed"]
  /\ UNCHANGED <<browser, current, handler, target, field, live, overlap>>

LoadStep(p) == Attached(p) \/ HasKeys(p) \/ MediaLoaded(p) \/ StartWatermark(p) \/ LoadFails(p)
-----------------------------------------------------------------------------
(* destroy(), and the click around it.                                      *)

FaultyAfterWatermark(t) == IF "ui" \in field[t] THEN "ui" ELSE "rest"

(* What destroy() awaits after what it has seen to. *)
AfterWatermark(t) == IF "ui" \in field[t] THEN "ui" ELSE IF "player" \in field[t] THEN "player" ELSE "rest"

(* watermark?.stop() *)
Stop(t) == [live EXCEPT ![t] = @ \ (field[t] \cap {"watermark"})]

Click(h) ==
  /\ handler[h] = "idle" /\ \A g \in Clicks : g < h => handler[g] # "idle"
  /\ target' = [target EXCEPT ![h] = current]
  /\ IF current = 0
     THEN /\ handler' = [handler EXCEPT ![h] = "over"]
          /\ Load(h, 0) /\ UNCHANGED overlap
     ELSE /\ handler' = [handler EXCEPT ![h] = AfterWatermark(current)]
          /\ live'    = Stop(current)
          /\ overlap' = [overlap EXCEPT ![current] = IF @ = "none" /\ Awaits(current) THEN load[current] ELSE @]
          /\ UNCHANGED <<current, load, field>>
  /\ UNCHANGED browser

(* ui.destroy() destroys its player too. *)
UiDestroyed(h) ==
  LET t == target[h]
  IN  /\ handler[h] = "ui"
      /\ live'    = [live EXCEPT ![t] = @ \ {"ui", "player"}]
      /\ handler' = [handler EXCEPT ![h] = IF "player" \in field[t] THEN "player" ELSE "rest"]
      /\ UNCHANGED <<browser, current, target, load, field, overlap>>

PlayerDestroyed(h) ==
  /\ handler[h] = "player"
  /\ live'    = [live EXCEPT ![target[h]] = @ \ {"player"}]
  /\ handler' = [handler EXCEPT ![h] = "rest"]
  /\ UNCHANGED <<browser, current, target, load, field, overlap>>

(* The rest of destroy(), which forgets what load() may have put there in the *)
(* meantime; and of the click, whatever has become current in the meantime.   *)
Replace(h) ==
  /\ handler[h] = "rest" /\ handler' = [handler EXCEPT ![h] = "over"]
  /\ Load(h, target[h])
  /\ overlap' = IF current = target[h] THEN overlap ELSE [overlap EXCEPT ![current] = "replaced"]
  /\ UNCHANGED <<browser, target>>

ClickStep(h) == Click(h) \/ UiDestroyed(h) \/ PlayerDestroyed(h) \/ Replace(h)

Next == \E p \in Clicks : LoadStep(p) \/ ClickStep(p)

Spec == Init /\ [][Next]_vars
-----------------------------------------------------------------------------
(* Properties.                                                             *)

(* Of a player that has been replaced, wherever its load() had failed and     *)
(* however many clicks came meanwhile: its element is gone; it goes on        *)
(* streaming only if destroy() came before it was attached; there is an       *)
(* overlay only if it came before the keys; and the interval of a watermark,  *)
(* only if it came while load() awaited anything at all.  All that may stay   *)
(* of a player that was replaced by a click which awaited the end of the one  *)
(* before it: nobody destroys that.                                         *)
NothingElseLeft ==
  \A p \in Clicks : p # current =>
    /\ "video" \notin live[p]
    /\ "player" \in live[p] => overlap[p] \in {"attach", "replaced"}
    /\ "ui" \in live[p] => overlap[p] \in {"attach", "keys", "replaced"}
    /\ "watermark" \in live[p] => overlap[p] # "none"
=============================================================================
