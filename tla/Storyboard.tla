----------------------------- MODULE Storyboard -----------------------------
(***************************************************************************)
(* The pictures over the seek bar.  PRIMARY lets ffmpeg tile a frame of every *)
(* five seconds into sheets of ten by ten, and writes a thumbnails.vtt that   *)
(* says where each is, from its own arithmetic.  The player reads the cues    *)
(* back, finds the one of the time under the pointer, and cuts its region out *)
(* of the sheet as soon as that has been loaded.                            *)
(*                                                                         *)
(* The source and the pointer are timed in tenths of a second, the cues in    *)
(* seconds: all that PRIMARY knows is the rounded duration of probe.         *)
(***************************************************************************)
EXTENDS Ladder

CONSTANTS
  Inputs,      \* pairs of a source and its duration, 0 when ffprobe has none
  HoverTimes   \* where the pointer may be

ASSUME InputsAssumption == Inputs \subseteq Source \X Nat /\ HoverTimes \subseteq Nat

VARIABLES
  duration,  \* of the source
  frames,    \* how many ffmpeg tiled, 0 before
  tiles,     \* the player has fetched and parsed thumbnails.vtt
  hover,     \* the time under the pointer, or Absent: ThumbnailPreview's mount
  thumb,     \* the cue in its state, or Absent
  sheet,     \* the sheet whose size is in its state, or Absent
  images,    \* the sheets that have been asked for
  measured   \* sheetSizeCache

previewVars == <<hover, thumb, sheet, images, measured>>
storyVars   == <<duration, frames, tiles, previewVars>>
bothVars    == <<ladderVars, storyVars>>

Absent   == -1
Second   == 10
Width    == 160
Interval == 5
Step     == Interval * Second
Cols     == 10
Sheet    == 100   \* tiles of one

CeilDiv(x, d) == (x + d - 1) \div d
AtLeastOne(n) == IF n = 0 THEN 1 ELSE n
-----------------------------------------------------------------------------
(* generateThumbnails.  Definitions named Faulty... are the code with one    *)
(* plausible mistake in it; no action uses them.                            *)

(* probe's durationSec. *)
DurationSec == Rounded(duration, Second)

(* scale=160:-1 *)
ScaledHeight == Rounded(Width * Display(source).height, Display(source).width)

(* thumbH: even, and at least 2. *)
ThumbHeight ==
  LET h == IF ScaledHeight < 2 THEN 2 ELSE ScaledHeight
  IN  h + (h % 2)

CueCount == AtLeastOne(CeilDiv(DurationSec, Interval))

(* vttTime writes hours, minutes and seconds, and parseVttTime sums them up. *)
Stamp(s) == Second * (3600 * (s \div 3600) + 60 * ((s % 3600) \div 60) + (s % 60))

CueEnd(i) ==
  IF DurationSec # 0 /\ DurationSec < (i + 1) * Interval THEN DurationSec ELSE (i + 1) * Interval

FaultyCue(i) ==
  [start |-> Stamp(i * Interval), end |-> Stamp(CueEnd(i)), sheet |-> i \div Sheet + 1,
   x |-> (i % Cols) * Width, y |-> (i \div Cols) * ThumbHeight]

Cue(i) ==
  [start |-> Stamp(i * Interval), end |-> Stamp(CueEnd(i)), sheet |-> i \div Sheet + 1,
   x |-> (i % Cols) * Width, y |-> ((i % Sheet) \div Cols) * ThumbHeight]

(* fps=1/5 rounds the number of frames, one way or the other; ffmpeg knows    *)
(* the exact duration.                                                      *)
Generate ==
  /\ frames = 0
  /\ frames' \in {AtLeastOne(duration \div Step), AtLeastOne(CeilDiv(duration, Step))}
  /\ UNCHANGED <<ladderVars, duration, tiles, previewVars>>
-----------------------------------------------------------------------------
(* The player.                                                             *)

Covers(i, t) == Cue(i).start <= t /\ t < Cue(i).end

(* thumbAtTime: the first that covers it, or the last. *)
ThumbAtTime(t) ==
  LET covering == {i \in 0 .. CueCount - 1 : Covers(i, t)}
  IN  IF covering = {} THEN CueCount - 1 ELSE CHOOSE i \in covering : \A j \in covering : i <= j

(* The effects of ThumbnailPreview: the tile, unless it still covers the time, *)
(* and then the size of its sheet.                                          *)
Preview(t) ==
  /\ thumb' = IF ~tiles' \/ (thumb # Absent /\ Covers(thumb, t)) THEN thumb ELSE ThumbAtTime(t)
  /\ LET s == IF thumb' = Absent THEN Absent ELSE Cue(thumb').sheet
     IN  /\ sheet'  = IF s \in measured THEN s ELSE sheet
         /\ images' = IF s = Absent THEN images ELSE images \cup {s}
  /\ UNCHANGED measured

(* useVttThumbnails; if the fetch fails the previews just do not show.       *)
TilesArrive ==
  /\ frames > 0 /\ ~tiles /\ tiles' = TRUE
  /\ IF hover = Absent THEN UNCHANGED <<thumb, sheet, images, measured>> ELSE Preview(hover)
  /\ UNCHANGED <<ladderVars, duration, frames, hover>>

(* The pointer moves over the seek bar, which ends at the duration.          *)
Move(t) ==
  /\ frames > 0 /\ duration > 0 /\ t <= duration
  /\ hover' = t
  /\ UNCHANGED <<ladderVars, duration, frames, tiles>>
  /\ Preview(t)

Leave ==
  /\ hover # Absent
  /\ hover' = Absent /\ thumb' = Absent /\ sheet' = Absent
  /\ UNCHANGED <<ladderVars, duration, frames, tiles, images, measured>>

(* onload, of a sheet that ffmpeg has written.                              *)
SheetLoads(s) ==
  /\ s \notin measured /\ s <= CeilDiv(frames, Sheet)
  /\ measured' = measured \cup {s}
  /\ sheet' = IF thumb # Absent /\ Cue(thumb).sheet = s THEN s ELSE sheet
  /\ UNCHANGED <<ladderVars, duration, frames, tiles, hover, thumb, images>>

Ready == thumb # Absent /\ sheet = Cue(thumb).sheet

PreviewStep ==
  \/ TilesArrive \/ Leave
  \/ \E t \in HoverTimes : Move(t)
  \/ \E s \in images : SheetLoads(s)

StoryInit ==
  /\ \E input \in Inputs : source = input[1] /\ duration = input[2]
  /\ NothingMade
  /\ frames = 0 /\ tiles = FALSE
  /\ hover = Absent /\ thumb = Absent /\ sheet = Absent /\ images = {} /\ measured = {}

StoryNext == (LadderNext /\ UNCHANGED storyVars) \/ Generate \/ PreviewStep

StorySpec == StoryInit /\ [][StoryNext]_bothVars
-----------------------------------------------------------------------------
(* Properties.                                                             *)

(* What ffmpeg's tile=10x10 does with the frame of a time; the last tile has *)
(* what is left, and the half second that the rounding may cut off.          *)
FrameAt(t) == IF t \div Step < CueCount THEN t \div Step ELSE CueCount - 1
RowOf(n)   == (n % Sheet) \div Cols

(* "each cue points at a tile region inside its sprite sheet": the picture   *)
(* over the seek bar is that of the time under the pointer, from the tile    *)
(* where ffmpeg put it; its region may be too low by the rounding of the      *)
(* height, a pixel a row: less than a tile, unless the picture is more than  *)
(* sixteen times as wide as it is high.  Only the last cue may point to a    *)
(* sheet that is not there: it shows no picture.                            *)
PreviewMatches ==
  hover # Absent /\ thumb # Absent =>
    LET n == FrameAt(hover)
        c == Cue(thumb)
        d == Display(source)
    IN  /\ c.sheet > CeilDiv(frames, Sheet) => n = CueCount - 1 /\ ~Ready
        /\ Ready =>
             /\ c.sheet = n \div Sheet + 1 /\ c.x = (n % Cols) * Width
             /\ d.width <= 16 * d.height =>
                  /\ c.y \in RowOf(n) * ScaledHeight .. RowOf(n) * ScaledHeight + RowOf(n)
                  /\ c.y < (RowOf(n) + 1) * ScaledHeight
=============================================================================
