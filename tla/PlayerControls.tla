--------------------------- MODULE PlayerControls ---------------------------
(***************************************************************************)
(* The controls around the player of Playback.  They act on the <video>      *)
(* element, and show a mirror of it that its events refresh.  The element    *)
(* is emptied whenever the player starts over (load() pauses it and sets its *)
(* speed back, without an event), and the bar that holds the seek bar is     *)
(* unmounted when an error shows.                                           *)
(***************************************************************************)
EXTENDS Playback

CONSTANT Speeds

ASSUME SpeedsAssumption == 1 \in Speeds

VARIABLES
  paused,     \* video.paused
  rate,       \* video.playbackRate
  event,      \* an event that syncMeta listens to is queued
  seesPaused, \* state.paused of usePlaybackState
  chosen,     \* playbackRate of VideoPlayer, which the settings menu shows
  tapTimer,   \* singleTimer is armed: the last tap is less than 260 ms old
  hovering,   \* menuHover: the pointer is over the bar
  dragging,   \* of SeekBar: the pointer is down and captured
  scrubbing,  \* of VideoPlayer: what SeekBar has told it of this
  visible,    \* of useControlsAutoHide
  hideTimer,  \* its timer is armed
  lost        \* history: the last drag ended without a pointerup

elementVars == <<paused, rate, event>>
barVars     == <<hovering, dragging, scrubbing, lost>>
hideVars    == <<visible, hideTimer>>
controlVars == <<elementVars, seesPaused, chosen, tapTimer, barVars, hideVars>>
allVars     == <<vars, controlVars>>

Mounted   == engine # "none"
BarShown  == Mounted /\ error = "none"

FreshControls ==
  /\ paused = TRUE /\ rate = 1 /\ event = FALSE /\ seesPaused = TRUE /\ chosen = 1
  /\ tapTimer = FALSE /\ hovering = FALSE /\ dragging = FALSE /\ scrubbing = FALSE
  /\ visible = TRUE /\ hideTimer = FALSE /\ lost = FALSE

ControlsInit == Init /\ FreshControls
-----------------------------------------------------------------------------
(* useControlsAutoHide.  Definitions named Faulty... are the code with one   *)
(* plausible mistake in it; no action uses them.                            *)

(* playing && !keepVisible *)
Idle == ~seesPaused /\ ~scrubbing /\ ~hovering

(* Its effect, when that has changed: show, and arm the timer or clear it.   *)
AutoHide ==
  IF Idle' # Idle THEN visible' = TRUE /\ hideTimer' = Idle' ELSE UNCHANGED hideVars

(* nudge: the pointer moves over the player, or leaves it. *)
Nudge ==
  /\ Mounted
  /\ visible' = TRUE /\ hideTimer' = Idle
  /\ UNCHANGED <<vars, elementVars, seesPaused, chosen, tapTimer, barVars>>

HideTimer ==
  /\ hideTimer /\ hideTimer' = FALSE /\ visible' = FALSE
  /\ UNCHANGED <<vars, elementVars, seesPaused, chosen, tapTimer, barVars>>
-----------------------------------------------------------------------------
(* The element.                                                            *)

(* play() or pause(), and its event. *)
TogglePlay == paused' = ~paused /\ event' = TRUE /\ UNCHANGED rate

(* syncMeta *)
Sync ==
  /\ event /\ event' = FALSE
  /\ seesPaused' = paused
  /\ UNCHANGED <<vars, paused, rate, chosen, tapTimer, barVars>>
  /\ AutoHide

(* The last frame pauses it, and ReplayOverlay comes up. *)
Ends ==
  /\ engine = "playing" /\ ~paused
  /\ paused' = TRUE /\ event' = TRUE
  /\ UNCHANGED <<vars, rate, seesPaused, chosen, tapTimer, barVars, hideVars>>
-----------------------------------------------------------------------------
(* The player moves, and the controls with it.                             *)

(* The effect of useHlsPlayer or useNativeHls runs again: another url, or     *)
(* retryNonce.                                                             *)
NewSource == (MintAnswer /\ token # mint) \/ (ClickRetry /\ error = "other" /\ ~native)

(* hls.js detaches the element and attaches it again; no instance is new.    *)
Recovers == MediaFails /\ recovered' /\ ~recovered

(* load() on the element, by Retry in Safari's own player. *)
LoadAgain == ClickRetry /\ error = "other" /\ native

Reloads == NewSource \/ Recovers \/ LoadAgain

FaultyReloadedRate == 1

(* The effect on [playbackRate, hls] runs for a new instance of hls.js.      *)
ReloadedRate == IF NewSource /\ ~native THEN chosen ELSE 1

(* durationchange, for the media that has been loaded. *)
NewDuration == Recovers \/ (engine # "playing" /\ engine' = "playing")

Unmounts ==
  /\ paused' = TRUE /\ rate' = 1 /\ event' = FALSE /\ seesPaused' = TRUE /\ chosen' = 1
  /\ tapTimer' = FALSE /\ hovering' = FALSE /\ dragging' = FALSE /\ scrubbing' = FALSE
  /\ visible' = TRUE /\ hideTimer' = FALSE /\ lost' = FALSE

(* An error takes the bar away, and with it a seek bar that is dragged.      *)
Stays ==
  /\ paused' = (paused \/ Reloads)
  /\ rate'   = IF Reloads THEN ReloadedRate ELSE rate
  /\ event'  = (event \/ NewDuration)
  /\ dragging' = (dragging /\ error' = "none")
  /\ lost'     = (lost \/ (dragging /\ ~dragging'))
  /\ UNCHANGED <<seesPaused, chosen, tapTimer, hovering, scrubbing, hideVars>>

PlayerStep == Next /\ IF engine' = "none" THEN Unmounts ELSE Stays
-----------------------------------------------------------------------------
(* The viewer.                                                             *)

(* The play button of the bar, the big one while paused, Replay, and the     *)
(* keys, which an overlay does not stop.                                    *)
ClickPlay ==
  /\ Mounted /\ TogglePlay
  /\ UNCHANGED <<vars, seesPaused, chosen, tapTimer, barVars, hideVars>>

(* onSurfaceClick: a second tap cancels the toggle that the first one set.   *)
Tap ==
  /\ BarShown
  /\ tapTimer' = ~tapTimer
  /\ UNCHANGED <<vars, elementVars, seesPaused, chosen, barVars, hideVars>>

TapTimer ==
  /\ tapTimer /\ tapTimer' = FALSE
  /\ TogglePlay
  /\ UNCHANGED <<vars, seesPaused, chosen, barVars, hideVars>>

ChooseSpeed ==
  /\ BarShown
  /\ chosen' \in Speeds \ {chosen} /\ rate' = chosen'
  /\ UNCHANGED <<vars, paused, event, seesPaused, tapTimer, barVars, hideVars>>

(* The pointer comes over the bar or leaves it: a touch when it is lifted.   *)
Hover ==
  /\ hovering' = ~hovering /\ (hovering' => BarShown)
  /\ UNCHANGED <<vars, elementVars, seesPaused, chosen, tapTimer, dragging, scrubbing, lost>>
  /\ AutoHide

(* A seek bar without a duration does nothing. *)
PointerDown ==
  /\ BarShown /\ engine = "playing" /\ ~dragging
  /\ dragging' = TRUE /\ scrubbing' = TRUE /\ event' = TRUE
  /\ UNCHANGED <<vars, paused, rate, seesPaused, chosen, tapTimer, hovering, lost>>
  /\ AutoHide

FaultyPointerUp ==
  /\ dragging /\ dragging' = FALSE /\ lost' = FALSE
  /\ UNCHANGED <<vars, elementVars, seesPaused, chosen, tapTimer, hovering, scrubbing, hideVars>>

PointerUp ==
  /\ dragging /\ dragging' = FALSE
  /\ scrubbing' = FALSE /\ lost' = FALSE
  /\ UNCHANGED <<vars, elementVars, seesPaused, chosen, tapTimer, hovering>>
  /\ AutoHide

(* pointercancel, when the browser scrolls instead: nobody listens, and a     *)
(* seek bar that still calls itself dragging gets no pointerup.             *)
PointerCancel ==
  /\ dragging /\ dragging' = FALSE /\ lost' = TRUE
  /\ UNCHANGED <<vars, elementVars, seesPaused, chosen, tapTimer, hovering, scrubbing, hideVars>>

ControlStep ==
  \/ Nudge \/ HideTimer \/ Sync \/ Ends
  \/ ClickPlay \/ Tap \/ TapTimer \/ ChooseSpeed \/ Hover
  \/ PointerDown \/ PointerUp \/ PointerCancel

ControlsNext == PlayerStep \/ ControlStep

(* Timers fire and queued events are dispatched. *)
ControlsFairness == WF_allVars(HideTimer) /\ WF_allVars(Sync)

ControlsSpec ==
  ControlsInit /\ [][ControlsNext]_allVars
    /\ RequestFairness /\ ViewerFairness /\ ControlsFairness
-----------------------------------------------------------------------------
(* Properties.                                                             *)

(* "Mirrors the raw <video> element state into React", "Apply playback rate  *)
(* to the element": once the events are handled, what the buttons and the    *)
(* auto-hide take for paused is, and the video runs at the speed that the    *)
(* menu shows, through expired tokens and retries, although starting over    *)
(* pauses the element and sets its speed back without a word.  (Safari's own *)
(* player and a recovery of hls.js have no new instance, and lose the speed.) *)
ControlsTrue ==
  engine = "playing" =>
    /\ ~event => seesPaused = paused
    /\ ~native /\ ~recovered => rate = chosen

(* "hidden after idleMs while playing": a pointer that rests elsewhere lets  *)
(* the controls go, unless the last drag of the seek bar was lost.          *)
ControlsHide ==
  (<>[](Mounted /\ ~paused /\ ~hovering /\ ~dragging) /\ <>[][~Nudge]_allVars)
     => <>[](~visible \/ lost)
=============================================================================
