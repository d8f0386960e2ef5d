------------------------------- MODULE Ladder -------------------------------
(***************************************************************************)
(* The renditions of a video.  The ladder of rungs is not stored: PRIMARY    *)
(* encodes one, CAPTIONS rebuilds the master playlist from one, DOWNLOAD     *)
(* scales to the top of one, each computed from its own probe of the same    *)
(* source.                                                                  *)
(***************************************************************************)
EXTENDS Integers, Sequences, Functions

CONSTANTS
  Sizes,         \* coded widths and heights of sources
  Bitrates,      \* source bitrates in kbps, 0 when ffprobe reports none
  MatrixDegrees, \* rotations a display matrix may hold
  FrameRates,    \* rationals <<num, den>> of avg_frame_rate and r_frame_rate
  CapTenths      \* config.CAP_TO_SOURCE_FACTOR * 10, CAP_TO_SOURCE being on

ASSUME SourcesAssumption ==
  /\ Sizes \subseteq Nat \ {0} /\ Bitrates \subseteq Nat
  /\ MatrixDegrees \subseteq Int
  /\ FrameRates \subseteq Nat \X Nat
  /\ CapTenths \in Nat \ {0}

VARIABLES
  source,   \* the source file, as ffprobe reports it
  encoded,  \* the rungs whose segments PRIMARY uploaded
  master,   \* the rungs master.m3u8 announces
  mp4       \* the rung whose scale filter made the download, or none

ladderVars == <<source, encoded, master, mp4>>

Source == [width : Sizes, height : Sizes, degrees : MatrixDegrees,
           kbps : Bitrates, avgRate : FrameRates, baseRate : FrameRates]
-----------------------------------------------------------------------------
(* probe().  Definitions named Faulty... are the code with one plausible     *)
(* mistake in it; no action uses them.                                      *)

(* displayRotation: clockwise, 0 for what is not a quarter turn. *)
Rotation(s) == LET theta == (-s.degrees) % 360
               IN  IF theta \in {90, 180, 270} THEN theta ELSE 0

Display(s) ==
  IF Rotation(s) \in {90, 270}
  THEN [width |-> s.height, height |-> s.width]
  ELSE [width |-> s.width,  height |-> s.height]

IsPortrait(s) == Display(s).width < Display(s).height

(* parseFrameRate gives 0 for a rate that is not usable. *)
Usable(rate) == rate[1] > 0 /\ rate[2] # 0

(* isNearStatic of the average rate, or of the base rate when there is none. *)
NearStatic(s) ==
  LET rate == IF Usable(s.avgRate) THEN s.avgRate ELSE s.baseRate
  IN  ~Usable(rate) \/ rate[1] < 10 * rate[2]
-----------------------------------------------------------------------------
(* selectLadder().  A rung's size is the side its scale filter fixes.        *)

MkRung(size, video, maxrate, buf) ==
  [size |-> size, video |-> video, maxrate |-> maxrate, buf |-> buf]

LANDSCAPE == << MkRung(1080, 5000, 5350, 7500), MkRung(720, 3000, 3210, 4500),
                MkRung(480, 1400, 1500, 2100) >>
VERTICAL  == << MkRung(1080, 5000, 5350, 7500), MkRung(720, 3000, 3210, 4500),
                MkRung(540, 1600, 1700, 2400) >>

Table(s) == IF IsPortrait(s) THEN VERTICAL ELSE LANDSCAPE

FaultySourceLimit(s) == Display(s).height

SourceLimit(s) == IF IsPortrait(s) THEN Display(s).width ELSE Display(s).height

Last(seq) == seq[Len(seq)]

(* The tables descend, so that what the filter leaves of one is its end, from *)
(* the first rung that fits on; and the floor stays.                        *)
Kept(s, i) == Table(s)[i].size <= SourceLimit(s) \/ i = Len(Table(s))

FirstKept(s) ==
  CHOOSE i \in DOMAIN Table(s) : Kept(s, i) /\ \A j \in 1 .. i - 1 : ~Kept(s, j)

FittingRungs(s) ==
  LET first == FirstKept(s)
  IN  [i \in 1 .. Len(Table(s)) - first + 1 |-> Table(s)[first + i - 1]]

(* Math.round(x / d), half up. *)
Rounded(x, d) == (2 * x + d) \div (2 * d)

CapRung(r, cap) ==
  IF r.video <= cap THEN r
  ELSE [r EXCEPT !.video   = cap,
                 !.maxrate = Rounded(107 * cap, 100),
                 !.buf     = Rounded(3 * cap, 2)]

(* capToSource *)
Capped(rungs, kbps) ==
  IF kbps = 0 THEN rungs
  ELSE [i \in DOMAIN rungs |-> CapRung(rungs[i], Rounded(kbps * CapTenths, 10))]

SelectLadder(s, kbps) == Capped(FittingRungs(s), kbps)

(* What buildMasterPlaylist writes of a ladder: the playlists and the peak   *)
(* rates, BANDWIDTH less the audio.                                         *)
Announced(rungs) == [i \in DOMAIN rungs |-> [size |-> rungs[i].size, maxrate |-> rungs[i].maxrate]]
-----------------------------------------------------------------------------
NothingMade == encoded = <<>> /\ master = <<>> /\ mp4 = <<>>

LadderInit == source \in Source /\ NothingMade

(* "near-static (slides): skip the cap" *)
PrimaryLadder == SelectLadder(source, IF NearStatic(source) THEN 0 ELSE source.kbps)

(* runPrimary: transcode, package, upload. *)
Primary ==
  /\ encoded = <<>>
  /\ encoded' = PrimaryLadder
  /\ master'  = Announced(encoded')
  /\ UNCHANGED <<source, mp4>>

FaultyCaptions ==
  /\ encoded # <<>>
  /\ master' = Announced(Capped(Table(source), source.kbps))
  /\ UNCHANGED <<source, encoded, mp4>>

(* runCaptionsJob: a new master.m3u8 over the segments that are there. *)
Captions ==
  /\ encoded # <<>>
  /\ master' = Announced(SelectLadder(source, source.kbps))
  /\ UNCHANGED <<source, encoded, mp4>>

(* ladder.reduce: the first of the largest. *)
Top(rungs) ==
  rungs[CHOOSE i \in DOMAIN rungs :
          /\ \A j \in DOMAIN rungs : rungs[j].size <= rungs[i].size
          /\ \A j \in 1 .. i - 1 : rungs[j].size < rungs[i].size]

(* runDownloadJob *)
Download ==
  /\ encoded # <<>> /\ mp4 = <<>>
  /\ mp4' = <<Top(SelectLadder(source, source.kbps))>>
  /\ UNCHANGED <<source, encoded, master>>

LadderNext == Primary \/ Captions \/ Download

LadderSpec == LadderInit /\ [][LadderNext]_ladderVars
-----------------------------------------------------------------------------
(* Properties.                                                             *)

SizesOf(rungs) == [i \in DOMAIN rungs |-> rungs[i].size]

(* "drop rungs that would UPSCALE the source"; "always keeps at least the    *)
(* floor rung", however the source is turned: the side a rung scales to is   *)
(* no longer than the shorter displayed side, and no fitting one is missing. *)
(* "Never RAISES a rung": none is encoded or announced above its line of the  *)
(* table, save that a cap of 1590 to 1599 raises the maxrate of the 540 rung, *)
(* which the table has at less than 1.07 times its rate, by under 1%.        *)
RungsFitSource ==
  LET d       == Display(source)
      short   == IF d.width < d.height THEN d.width ELSE d.height
      Rungs   == Range(Table(source))
      fitting == {t.size : t \in {r \in Rungs : r.size <= short}}
  IN  encoded # <<>> =>
        /\ Range(SizesOf(encoded)) = IF fitting = {} THEN {Last(Table(source)).size} ELSE fitting
        /\ \A r \in Range(encoded), t \in Rungs :
             r.size = t.size => r.video <= t.video /\ r.buf <= t.buf
        /\ \A r \in Range(encoded) \cup Range(master), t \in Rungs :
             r.size = t.size => 100 * r.maxrate <= 101 * t.maxrate

(* Every playlist that the rebuilt master names has its segments in R2, the   *)
(* download has the picture size of the best rendition, and "the CAPTIONS job *)
(* rebuilds a master byte-identical to the PRIMARY's plus the subtitle        *)
(* lines": for a source that is not near-static it does.                     *)
ArtifactsAgree ==
  /\ SizesOf(master) = SizesOf(encoded)
  /\ mp4 # <<>> => mp4[1].size = encoded[1].size
  /\ ~NearStatic(source) => master = Announced(encoded)

(* Byte-identical for every source, as the comments have it. *)
MasterMatches == master = Announced(encoded)
=============================================================================
