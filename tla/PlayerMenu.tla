----------------------------- MODULE PlayerMenu -----------------------------
(***************************************************************************)
(* What the settings menu and the CC button say of the quality and of the    *)
(* subtitles.  Both keep nothing: they read hls.js when they render, and are  *)
(* rendered again when it fires one of five events.  VideoPlayer and the     *)
(* menu subscribe on their own, after a render, to the instance they were     *)
(* rendered with; every retry makes another instance, and an error unmounts   *)
(* the menu.  On an iPhone the button mirrors the text track of the element.  *)
(***************************************************************************)
EXTENDS Naturals

CONSTANTS
  Levels,    \* of the master, each with a height of its own; 0 is none
  MaxStarts  \* bound on the instances of hls.js, or the loads of the element

PlayerMenuAssumption == Levels \subseteq Nat \ {0} /\ MaxStarts \in Nat

VARIABLES
  native,    \* canPlayNativeHls
  captions,  \* the master names a rendition of subtitles
  error,     \* ErrorOverlay, and no bar
  made,      \* how often the player has been started
  hls,       \* the instance that was rendered, 0 before there is one
  heard,     \* of each reader the instance its listeners are on
  due,       \* the readers that are to be rendered again
  engine,    \* the tracks of the instance, or of the element
  shown,     \* of each reader the tracks it has rendered
  view,      \* of the menu, or "closed"
  queued     \* an event of the element's text tracks

vars == <<native, captions, error, made, hls, heard, due, engine, shown, view, queued>>

Readers == {"player", "menu"}

(* What usePlayerTracks reads: currentLevel, autoLevelEnabled (locked = 0),   *)
(* and the subtitles.  The element has them only.                           *)
Tracks  == [levels : BOOLEAN, locked : Levels \cup {0}, playing : Levels \cup {0},
            listed : BOOLEAN, on : BOOLEAN]
NoTrack == [levels |-> FALSE, locked |-> 0, playing |-> 0, listed |-> FALSE, on |-> FALSE]

Mounted == IF error THEN {"player"} ELSE Readers

TypeOK ==
  /\ {native, captions, error, queued} \subseteq BOOLEAN
  /\ made \in 1 .. MaxStarts /\ hls \in 0 .. made
  /\ heard \in [Readers -> 0 .. made] /\ due \in SUBSET Readers
  /\ engine \in Tracks /\ shown \in [Readers -> Tracks]
  /\ view \in {"closed", "root", "quality", "speed", "captions"}

Init ==
  /\ native \in BOOLEAN /\ captions \in BOOLEAN /\ error = FALSE
  /\ made = 1 /\ hls = 0 /\ heard = [r \in Readers |-> 0]
  /\ due = IF native THEN {} ELSE {"player"}
  /\ engine = NoTrack /\ shown = [r \in Readers |-> NoTrack]
  /\ view = "closed" /\ queued = FALSE
-----------------------------------------------------------------------------
(* React.  Definitions named Faulty... are the code with one plausible       *)
(* mistake in it; no action uses them.                                      *)

(* An instance that has been destroyed has no tracks. *)
Read(instance) == IF instance = made THEN engine ELSE NoTrack

(* setHls, or setNonce; VideoPlayer renders its bar, and the menu in it.     *)
Render(r) ==
  /\ r \in due
  /\ hls' = IF r = "player" THEN made ELSE hls
  /\ shown' = [q \in Readers |->
       IF q \in Mounted /\ (q = r \/ r = "player") THEN Read(hls') ELSE shown[q]]
  /\ due' = IF r = "player" THEN {} ELSE due \ {r}
  /\ UNCHANGED <<native, captions, error, made, heard, engine, view, queued>>

FaultyEffectDue(r) == r \in Mounted /\ heard[r] = 0 /\ hls # 0

(* The effect of usePlayerTracks depends on [hls]. *)
EffectDue(r) == r \in Mounted /\ heard[r] # hls

(* off and on, and a render for what it has missed: events come between the   *)
(* render and its effects.                                                 *)
Subscribe(r) ==
  /\ EffectDue(r)
  /\ heard' = [heard EXCEPT ![r] = hls] /\ due' = due \cup {r}
  /\ UNCHANGED <<native, captions, error, made, hls, engine, shown, view, queued>>

ReactStep == \E r \in Readers : Render(r) \/ Subscribe(r)
-----------------------------------------------------------------------------
(* hls.js.                                                                 *)

(* An event that usePlayerTracks listens to. *)
Fires == due' = due \cup {r \in Readers : heard[r] = made}

EngineMoves ==
  /\ ~native /\ Fires
  /\ UNCHANGED <<native, captions, error, made, hls, heard, shown, view, queued>>

ManifestParsed ==
  /\ ~engine.levels
  /\ engine' = [engine EXCEPT !.levels = TRUE]
  /\ EngineMoves

(* SUBTITLE_TRACKS_UPDATED, and the switch to the rendition, which is its     *)
(* master's DEFAULT.                                                       *)
SubtitlesFound ==
  /\ engine.levels /\ captions /\ ~engine.listed
  /\ engine' = [engine EXCEPT !.listed = TRUE, !.on = TRUE]
  /\ EngineMoves

(* A fragment of another level plays: the one that is locked, or any. *)
LevelSwitched ==
  /\ engine.levels
  /\ \E l \in IF engine.locked = 0 THEN Levels ELSE {engine.locked} :
       l # engine.playing /\ engine' = [engine EXCEPT !.playing = l]
  /\ EngineMoves
-----------------------------------------------------------------------------
(* The element, where Safari plays it.                                     *)

TrackMoves ==
  /\ native /\ ~error /\ queued' = TRUE
  /\ UNCHANGED <<native, captions, error, made, hls, heard, due, shown, view>>

(* addtrack: Safari decides whether a DEFAULT rendition shows. *)
TrackAdded ==
  /\ captions /\ ~engine.listed
  /\ engine' \in {[engine EXCEPT !.listed = TRUE, !.on = b] : b \in BOOLEAN}
  /\ TrackMoves

(* change: in Safari's own full screen. *)
TrackSwitched ==
  /\ engine.listed
  /\ engine' = [engine EXCEPT !.on = ~@]
  /\ TrackMoves

(* sync of useNativeTextTracks. *)
SyncTracks ==
  /\ queued /\ queued' = FALSE
  /\ shown' = [shown EXCEPT !["player"] = engine]
  /\ UNCHANGED <<native, captions, error, made, hls, heard, due, engine, view>>
-----------------------------------------------------------------------------
(* Errors.                                                                 *)

(* The bar goes, and the menu with its listeners. *)
Fails ==
  /\ ~error /\ error' = TRUE
  /\ heard' = [heard EXCEPT !["menu"] = 0] /\ due' = due \ {"menu"}
  /\ shown' = [shown EXCEPT !["menu"] = NoTrack]
  /\ view' = "closed"
  /\ UNCHANGED <<native, captions, made, hls, engine, queued>>

(* Retry, or another token: hls.js is destroyed with its listeners and made   *)
(* again; the element forgets its track without an event.  The captions may  *)
(* have been published meanwhile.                                          *)
Restart ==
  /\ error /\ error' = FALSE
  /\ made < MaxStarts /\ made' = made + 1
  /\ captions' \in {captions, TRUE}
  /\ engine' = NoTrack
  /\ due' = IF native THEN {} ELSE {"player"}
  /\ UNCHANGED <<native, hls, heard, shown, view, queued>>
-----------------------------------------------------------------------------
(* The viewer.                                                             *)

Click(from, to) ==
  /\ view = from /\ view' = to
  /\ UNCHANGED <<native, captions, error, made, hls, heard, queued>>

(* What a click of the menu sets on the instance it was rendered with; the    *)
(* menu is rendered again with the view.                                   *)
Choose(tracks) ==
  /\ engine' = IF hls = made THEN tracks ELSE engine
  /\ shown'  = [shown EXCEPT !["menu"] = IF hls = made THEN tracks ELSE NoTrack]

Settings ==
  /\ ~error /\ view' = IF view = "closed" THEN "root" ELSE "closed"
  /\ UNCHANGED <<native, captions, error, made, hls, heard, due, engine, shown, queued>>

(* pointerdown elsewhere in the document, while the menu is open. *)
ClickElsewhere ==
  \E from \in {"root", "quality", "speed", "captions"} :
    Click(from, "closed") /\ UNCHANGED <<due, engine, shown>>

(* A row of the menu, Back, or a speed (of which PlayerControls has the rest). *)
Walk ==
  /\ \/ \E to \in {"quality", "speed"} : Click("root", to)
     \/ shown["menu"].listed /\ Click("root", "captions")
     \/ \E from \in {"quality", "speed", "captions"} : Click(from, "root")
  /\ UNCHANGED <<due, engine, shown>>

(* selectAuto, which fires nothing, and selectHeight, whose LEVEL_SWITCHED    *)
(* comes when a fragment of that level plays.                               *)
SelectQuality ==
  /\ Click("quality", "root") /\ UNCHANGED due
  /\ \E l \in IF shown["menu"].levels THEN Levels \cup {0} ELSE {0} :
       Choose([engine EXCEPT !.locked = l])

(* captionsOff and selectText: SUBTITLE_TRACK_SWITCH, if there is one. *)
SelectText ==
  /\ Click("captions", "root")
  /\ \E b \in BOOLEAN :
       LET tracks == [engine EXCEPT !.on = b /\ engine.listed]
       IN  /\ Choose(tracks)
           /\ IF engine' = engine THEN UNCHANGED due ELSE Fires

(* toggle of the native path asks the element, and shows at once what it did. *)
ToggleNative ==
  /\ shown' = [shown EXCEPT !["player"].on = ~engine.on]
  /\ queued' = TRUE /\ UNCHANGED due

(* The button, which is there while it has rendered a track, or the key:      *)
(* toggleCaptions asks the instance.                                       *)
ToggleCaptions ==
  /\ native \/ hls = made
  /\ engine.listed /\ engine' = [engine EXCEPT !.on = ~@]
  /\ IF native THEN ToggleNative ELSE Fires /\ UNCHANGED <<shown, queued>>
  /\ UNCHANGED <<native, captions, error, made, hls, heard, view>>

Next ==
  \/ ReactStep
  \/ ManifestParsed \/ SubtitlesFound \/ LevelSwitched
  \/ TrackAdded \/ TrackSwitched \/ SyncTracks
  \/ Fails \/ Restart
  \/ Settings \/ ClickElsewhere \/ Walk \/ SelectQuality \/ SelectText \/ ToggleCaptions

Spec == Init /\ [][Next]_vars
-----------------------------------------------------------------------------
(* Properties.                                                             *)

(* "Reads quality/caption tracks from hls.js and refreshes on its level/       *)
(* subtitle events": once nothing is left to render, no effect to run and no  *)
(* event to handle, the CC button and the menu say what the player does, of   *)
(* this instance and through every retry, although nothing tells them that    *)
(* the one they listened to is gone.  A lock is shown where it has come to:   *)
(* the level that plays.  (On an iPhone the menu has nothing to read, and    *)
(* says "Off" whatever the button shows; and between Retry and the track,    *)
(* the button still shows the track of before.)                            *)
MenuTrue ==
  due = {} /\ ~queued /\ ~(\E r \in Readers : EffectDue(r)) =>
    /\ ~native \/ engine.listed =>
         shown["player"].listed = engine.listed /\ shown["player"].on = engine.on
    /\ ~native /\ ~error => shown["menu"] = engine
=============================================================================
