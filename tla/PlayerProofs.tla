---------------------------- MODULE PlayerProofs ----------------------------
(***************************************************************************)
(* Proofs about what a viewer has: Playback and the controls around its     *)
(* player, for every lifetime of a token and every set of speeds; and the    *)
(* renditions and the previews of the seek bar, for every set of sources.    *)
(***************************************************************************)
EXTENDS PlayerControls, Storyboard, TLAPS

USE TtlAssumption, SpeedsAssumption

LEMMA InitTyped == Init => TypeOK
  BY DEF Init, TypeOK, Statuses, Ages, None, Sent, Loading

(* The page: what it renders decides whether there is a player.            *)
LEMMA PageStepTyped ==
  ASSUME TypeOK, PageStep
  PROVE  TypeOK'
<1>. USE DEF TypeOK, Statuses, Ages, None, Sent, Loading, playerVars
<1>1. CASE Open
  BY <1>1 DEF Open, Render, FreshPlayer, NoPlayer
<1>2. CASE Close
  BY <1>2 DEF Close, NoPlayer
<1>3. CASE PollSend
  BY <1>3 DEF PollSend
<1>4. CASE PollRead
  BY <1>4 DEF PollRead
<1>5. CASE PollAnswer
  BY <1>5 DEF PollAnswer, Render, FreshPlayer, NoPlayer
<1>6. CASE PollFails
  BY <1>6 DEF PollFails
<1>. QED
  BY <1>1, <1>2, <1>3, <1>4, <1>5, <1>6 DEF PageStep

LEMMA TokenStepTyped ==
  ASSUME TypeOK, TokenStep
  PROVE  TypeOK'
<1>. USE DEF TypeOK, Statuses, Ages, None, Sent, Loading
<1>1. CASE MintServes
  BY <1>1 DEF MintServes, Minted
<1>2. CASE MintAnswer
  <2>. mint \in Ages /\ token' = mint /\ mint' = None /\ mint # None
    BY <1>2 DEF MintAnswer
  <2>1. CASE token = mint
    BY <1>2, <2>1 DEF MintAnswer
  <2>2. CASE token # mint
    BY <1>2, <2>2 DEF MintAnswer, StartEngine
  <2>. QED
    BY <2>1, <2>2
<1>3. CASE MintFails
  BY <1>3 DEF MintFails
<1>4. CASE ClickMint
  BY <1>4 DEF ClickMint, RequestToken
<1>5. CASE Tick
  BY <1>5 DEF Tick, Older, Live
<1>. QED
  BY <1>1, <1>2, <1>3, <1>4, <1>5 DEF TokenStep

LEMMA EngineStepTyped ==
  ASSUME TypeOK, EngineStep
  PROVE  TypeOK'
<1>. USE DEF TypeOK, Statuses, Ages, None, Sent, Loading, Fatal, KindOf
<1>1. CASE EngineLoads
  BY <1>1 DEF EngineLoads
<1>2. CASE EngineRefused
  BY <1>2 DEF EngineRefused
<1>3. CASE SwitchRefused
  BY <1>3 DEF SwitchRefused
<1>4. CASE NetworkFails
  BY <1>4 DEF NetworkFails
<1>5. CASE MediaFails
  BY <1>5 DEF MediaFails
<1>6. CASE ClickRetry
  BY <1>6 DEF ClickRetry, RequestToken, StartEngine
<1>. QED
  BY <1>1, <1>2, <1>3, <1>4, <1>5, <1>6 DEF EngineStep

LEMMA StepTyped == TypeOK /\ [Next]_vars => TypeOK'
<1>. SUFFICES ASSUME TypeOK, [Next]_vars PROVE TypeOK'
  OBVIOUS
<1>1. CASE RowMoves
  BY <1>1 DEF RowMoves, TypeOK, Statuses, playerVars
<1>2. CASE UNCHANGED vars
  BY <1>2 DEF vars, playerVars, TypeOK
<1>. QED
  BY <1>1, <1>2, PageStepTyped, TokenStepTyped, EngineStepTyped DEF Next

(* Every variable keeps its type; there is no player, and no callback of a   *)
(* mint, without the page, no engine without a token, and the overlay of     *)
(* hls.js covers only a player that has stopped.                           *)
THEOREM PlayerTyped == Spec => []TypeOK
  BY InitTyped, StepTyped, PTL DEF Spec

(* The part of AuthRetryRenews that one step has to keep: of all that the    *)
(* viewer clicks and the page fetches, only a new token starts the player.  *)
LEMMA OnlyMintRestarts ==
  ASSUME TypeOK, [Next]_vars,
         engine = "stopped", error = "auth", engine' \notin {"stopped", "none"}
  PROVE  mint \in Ages /\ token' = mint /\ token' # token
<1>. USE DEF TypeOK, Loading, playerVars
<1>1. ~RowMoves /\ ~UNCHANGED vars
  BY DEF RowMoves, vars
<1>2. ~PageStep
  BY DEF PageStep, Open, Close, PollSend, PollRead, PollAnswer, PollFails,
         Render, FreshPlayer, NoPlayer
<1>3. ~EngineStep
  <2>1. ~EngineLoads /\ ~EngineRefused /\ ~SwitchRefused
    BY DEF EngineLoads, EngineRefused, SwitchRefused
  <2>2. ~NetworkFails /\ ~MediaFails
    BY DEF NetworkFails, MediaFails
  <2>3. ~ClickRetry
    BY DEF ClickRetry
  <2>. QED
    BY <2>1, <2>2, <2>3 DEF EngineStep
<1>4. TokenStep
  BY <1>1, <1>2, <1>3 DEF Next
<1>. QED
  BY <1>4 DEF TokenStep, MintServes, Minted, MintAnswer, MintFails, ClickMint, Tick, StartEngine

(* A player that stopped because its token was refused starts again only     *)
(* with a token minted since.                                              *)
THEOREM RetryRenews == Spec => AuthRetryRenews
<1>1. TypeOK /\ [Next]_vars =>
        [engine = "stopped" /\ error = "auth" /\ engine' \notin {"stopped", "none"} =>
           mint \in Ages /\ token' = mint /\ token' # token]_vars
  BY OnlyMintRestarts
<1>. QED
  BY <1>1, PlayerTyped, PTL DEF Spec, AuthRetryRenews
-----------------------------------------------------------------------------
(* The controls.                                                           *)

ControlsTypeOK ==
  /\ paused \in BOOLEAN /\ event \in BOOLEAN /\ seesPaused \in BOOLEAN
  /\ rate \in Speeds /\ chosen \in Speeds
  /\ tapTimer \in BOOLEAN /\ hovering \in BOOLEAN /\ dragging \in BOOLEAN /\ scrubbing \in BOOLEAN
  /\ visible \in BOOLEAN /\ hideTimer \in BOOLEAN /\ lost \in BOOLEAN

(* Nothing but an instance of hls.js that has recovered, and Safari's own     *)
(* player, plays at another speed than the chosen one; also while it loads.   *)
SpeedKept == ~native /\ ~recovered => rate = chosen

(* A player that plays has an event to come, or the mirror is right; while it *)
(* loads, the element may have been emptied without one.                    *)
MirrorTrue == engine = "playing" /\ ~event => seesPaused = paused

ControlsInv == TypeOK /\ ControlsTypeOK /\ SpeedKept /\ MirrorTrue

LEMMA InitEstablishesControlsInv == ControlsInit => ControlsInv
  BY InitTyped
  DEF ControlsInit, FreshControls, Init, ControlsInv, ControlsTypeOK, SpeedKept, MirrorTrue

LEMMA ControlStepKeepsPlayer == ControlStep => UNCHANGED vars
  BY DEF ControlStep, Nudge, HideTimer, Sync, Ends, ClickPlay, Tap, TapTimer, ChooseSpeed, Hover,
         PointerDown, PointerUp, PointerCancel

LEMMA ControlStepKeepsInv ==
  ASSUME ControlsInv, ControlStep
  PROVE  ControlsTypeOK' /\ SpeedKept' /\ MirrorTrue'
<1>1. UNCHANGED <<native, engine, error, recovered>>
  BY ControlStepKeepsPlayer DEF vars, playerVars
<1>. USE DEF ControlsInv, ControlsTypeOK, SpeedKept, MirrorTrue, elementVars, barVars, hideVars, TogglePlay, Mounted,
             BarShown
<1>2. CASE Nudge \/ HideTimer
  BY <1>1, <1>2 DEF Nudge, HideTimer, Idle
<1>3. CASE Sync
  BY <1>1, <1>3 DEF Sync, AutoHide, Idle
<1>4. CASE Ends \/ ClickPlay \/ Tap \/ TapTimer
  <2>1. CASE Ends
    BY <1>1, <2>1 DEF Ends
  <2>2. CASE ClickPlay
    BY <1>1, <2>2 DEF ClickPlay
  <2>3. CASE Tap
    BY <1>1, <2>3 DEF Tap
  <2>4. CASE TapTimer
    BY <1>1, <2>4 DEF TapTimer
  <2>. QED
    BY <1>4, <2>1, <2>2, <2>3, <2>4
<1>5. CASE ChooseSpeed
  BY <1>1, <1>5 DEF ChooseSpeed
<1>6. CASE Hover
  BY <1>1, <1>6 DEF Hover, AutoHide, Idle
<1>7. CASE PointerDown
  BY <1>1, <1>7 DEF PointerDown, AutoHide, Idle
<1>8. CASE PointerUp \/ PointerCancel
  BY <1>1, <1>8 DEF PointerUp, PointerCancel, AutoHide, Idle
<1>. QED
  BY <1>2, <1>3, <1>4, <1>5, <1>6, <1>7, <1>8 DEF ControlStep

(* The engine plays on, unless a step loads the media afresh, and then there *)
(* is an event; `recovered` is cleared with a new instance only.            *)
LEMMA PlayerStepReloads ==
  ASSUME TypeOK, Next, engine' # "none"
  PROVE  /\ native' = native
         /\ engine' = "playing" /\ Reloads => NewDuration
         /\ engine' = "playing" /\ engine # "playing" => NewDuration
         /\ ~native /\ ~recovered' => ~recovered \/ NewSource
         /\ ~native /\ ~recovered' /\ Reloads => NewSource
<1>. USE DEF TypeOK, Ages, None, Sent, Loading, playerVars, StartEngine, RequestToken, Reloads, NewDuration, NewSource,
             Recovers, LoadAgain
<1>1. CASE RowMoves
  BY <1>1 DEF RowMoves, MintAnswer, ClickRetry, MediaFails, Fatal
<1>2. CASE PageStep
  <2>1. UNCHANGED playerVars /\ native' = native
    BY <1>2 DEF PageStep, Open, Close, PollSend, PollRead, PollAnswer, PollFails, Render, FreshPlayer, NoPlayer
  <2>. QED
    BY <2>1 DEF MintAnswer, ClickRetry, MediaFails, Fatal
<1>3. CASE TokenStep
  <2>1. CASE MintAnswer
    BY <2>1 DEF MintAnswer, ClickRetry, MediaFails, Fatal
  <2>2. CASE MintServes \/ MintFails \/ ClickMint \/ Tick
    <3>1. UNCHANGED <<native, engine, error, recovered>>
      BY <2>2 DEF MintServes, MintFails, ClickMint, Tick
    <3>. QED
      BY <3>1 DEF MintAnswer, ClickRetry, MediaFails, Fatal
  <2>. QED
    BY <1>3, <2>1, <2>2 DEF TokenStep
<1>4. CASE EngineStep
  <2>1. CASE EngineLoads
    BY <2>1 DEF EngineLoads, MintAnswer, ClickRetry, MediaFails, Fatal
  <2>2. CASE EngineRefused \/ SwitchRefused \/ NetworkFails
    <3>1. native' = native /\ engine' = "stopped" /\ recovered' = recovered
      BY <2>2 DEF EngineRefused, SwitchRefused, NetworkFails, Fatal
    <3>. QED
      BY <3>1 DEF MintAnswer, ClickRetry, MediaFails, Fatal
  <2>3. CASE MediaFails
    BY <2>3 DEF MediaFails, Fatal, MintAnswer, ClickRetry
  <2>4. CASE ClickRetry
    BY <2>4 DEF ClickRetry, MintAnswer, MediaFails, Fatal
  <2>. QED
    BY <1>4, <2>1, <2>2, <2>3, <2>4 DEF EngineStep
<1>. QED
  BY <1>1, <1>2, <1>3, <1>4 DEF Next

LEMMA PlayerStepKeepsInv ==
  ASSUME ControlsInv, PlayerStep
  PROVE  ControlsTypeOK' /\ SpeedKept' /\ MirrorTrue'
<1>. USE DEF ControlsInv, ControlsTypeOK, SpeedKept, MirrorTrue, hideVars
<1>1. CASE engine' = "none"
  BY <1>1 DEF PlayerStep, Unmounts
<1>2. CASE engine' # "none"
  <2>1. Stays /\ Next
    BY <1>2 DEF PlayerStep
  <2>2. /\ native' = native
        /\ engine' = "playing" /\ Reloads => NewDuration
        /\ engine' = "playing" /\ engine # "playing" => NewDuration
        /\ ~native /\ ~recovered' => ~recovered \/ NewSource
        /\ ~native /\ ~recovered' /\ Reloads => NewSource
    BY <1>2, <2>1, PlayerStepReloads
  <2>3. /\ paused' = (paused \/ Reloads)
        /\ rate' = IF Reloads THEN ReloadedRate ELSE rate
        /\ event' = (event \/ NewDuration)
        /\ dragging' = (dragging /\ error' = "none")
        /\ lost' = (lost \/ (dragging /\ ~dragging'))
        /\ UNCHANGED <<seesPaused, chosen, tapTimer, hovering, scrubbing, visible, hideTimer>>
    BY <2>1 DEF Stays
  <2>4. ControlsTypeOK'
    BY <2>3 DEF ReloadedRate
  <2>5. SpeedKept'
    BY <2>2, <2>3 DEF ReloadedRate, Reloads
  <2>6. MirrorTrue'
    BY <2>2, <2>3
  <2>. QED
    BY <2>4, <2>5, <2>6
<1>. QED
  BY <1>1, <1>2

LEMMA StepKeepsControlsInv == ControlsInv /\ [ControlsNext]_allVars => ControlsInv'
<1>. SUFFICES ASSUME ControlsInv, [ControlsNext]_allVars PROVE ControlsInv'
  OBVIOUS
<1>1. TypeOK'
  <2>1. [Next]_vars
    BY ControlStepKeepsPlayer DEF ControlsNext, PlayerStep, allVars
  <2>. QED
    BY <2>1, StepTyped DEF ControlsInv
<1>2. CASE UNCHANGED allVars
  BY <1>1, <1>2 DEF allVars, vars, playerVars, controlVars, elementVars, barVars, hideVars, ControlsInv,
       ControlsTypeOK, SpeedKept, MirrorTrue
<1>. QED
  BY <1>1, <1>2, ControlStepKeepsInv, PlayerStepKeepsInv DEF ControlsNext, ControlsInv

(* Once the queued events are handled, what the controls take for paused is,  *)
(* and the video runs at the speed that the menu shows, however often the     *)
(* player has started over.                                                *)
THEOREM ControlsMirror == ControlsSpec => []ControlsTrue
<1>1. ControlsInv => ControlsTrue
  BY DEF ControlsInv, SpeedKept, MirrorTrue, ControlsTrue
<1>. QED
  BY <1>1, InitEstablishesControlsInv, StepKeepsControlsInv, PTL DEF ControlsSpec
-----------------------------------------------------------------------------
(* The renditions.  Every ladder is the end of a table, with its rates capped: *)
(* what the three jobs agree on is where that end begins.                   *)

LEMMA TableOfThree ==
  ASSUME NEW s
  PROVE  /\ DOMAIN Table(s) = 1 .. 3 /\ Len(Table(s)) = 3
         /\ Table(s)[1] = MkRung(1080, 5000, 5350, 7500)
         /\ Table(s)[2] = MkRung(720, 3000, 3210, 4500)
         /\ Table(s)[3] \in {MkRung(480, 1400, 1500, 2100), MkRung(540, 1600, 1700, 2400)}
  BY DEF Table, LANDSCAPE, VERTICAL

(* The tables descend: the rungs that are kept are those from the first on.   *)
LEMMA EndOfTable ==
  ASSUME NEW s, SourceLimit(s) \in Nat
  PROVE  /\ FirstKept(s) \in 1 .. 3
         /\ \A j \in 1 .. 3 : Kept(s, j) <=> j >= FirstKept(s)
         /\ FittingRungs(s) = [i \in 1 .. 4 - FirstKept(s) |-> Table(s)[FirstKept(s) + i - 1]]
<1>. DEFINE IsFirst(i) == Kept(s, i) /\ \A j \in 1 .. i - 1 : ~Kept(s, j)
<1>1. /\ DOMAIN Table(s) = 1 .. 3 /\ Len(Table(s)) = 3
      /\ Table(s)[1].size = 1080 /\ Table(s)[2].size = 720 /\ Table(s)[3].size \in {480, 540}
  BY TableOfThree DEF MkRung
<1>2. Kept(s, 3) /\ (Kept(s, 1) => Kept(s, 2))
  BY <1>1 DEF Kept
<1>3. \E i \in 1 .. 3 : IsFirst(i)
  <2>1. 1 .. 1 - 1 = {} /\ 1 .. 2 - 1 = {1} /\ 1 .. 3 - 1 = {1, 2}
    OBVIOUS
  <2>. QED
    BY <1>2, <2>1
<1>4. FirstKept(s) \in 1 .. 3 /\ IsFirst(FirstKept(s))
  BY <1>1, <1>3 DEF FirstKept
<1>5. \A j \in 1 .. 3 : Kept(s, j) <=> j >= FirstKept(s)
  <2>1. CASE FirstKept(s) = 1
    BY <1>2, <1>4, <2>1
  <2>2. CASE FirstKept(s) = 2
    BY <1>2, <1>4, <2>2, 1 \in 1 .. 2 - 1
  <2>3. CASE FirstKept(s) = 3
    BY <1>2, <1>4, <2>3, 1 \in 1 .. 3 - 1, 2 \in 1 .. 3 - 1
  <2>. QED
    BY <1>4, <2>1, <2>2, <2>3
<1>6. 3 - FirstKept(s) + 1 = 4 - FirstKept(s)
  BY <1>4
<1>. QED
  BY <1>1, <1>4, <1>5, <1>6 DEF FittingRungs

(* "Never RAISES a rung", but for the maxrate of one by under 1%.            *)
LEMMA CapLowers ==
  ASSUME NEW s, NEW j \in 1 .. 3, NEW cap \in Int
  PROVE  LET r == Table(s)[j]
             c == CapRung(r, cap)
         IN  /\ c.size = r.size /\ c.video <= r.video /\ c.buf <= r.buf
             /\ 100 * c.maxrate <= 101 * r.maxrate
<1>. DEFINE r == Table(s)[j]
<1>1. ASSUME NEW size, NEW video \in {1400, 1600, 3000, 5000}, NEW maxrate, NEW buf,
             <<video, maxrate, buf>> \in
               {<<5000, 5350, 7500>>, <<3000, 3210, 4500>>, <<1400, 1500, 2100>>, <<1600, 1700, 2400>>},
             r = MkRung(size, video, maxrate, buf)
      PROVE  LET c == CapRung(r, cap)
             IN  /\ c.size = r.size /\ c.video <= r.video /\ c.buf <= r.buf
                 /\ 100 * c.maxrate <= 101 * r.maxrate
  <2>1. CASE video <= cap
    BY <1>1, <2>1 DEF CapRung, MkRung
  <2>2. CASE ~(video <= cap)
    <3>. DEFINE full == [size |-> size, video |-> video, maxrate |-> maxrate, buf |-> buf]
                capped == [full EXCEPT !.video   = cap,
                                       !.maxrate = Rounded(107 * cap, 100),
                                       !.buf     = Rounded(3 * cap, 2)]
    <3>1. CapRung(r, cap) = capped
      <4>1. r = full /\ ~(full.video <= cap)
        BY <1>1, <2>2 DEF MkRung
      <4>. QED
        BY ONLY <4>1 DEF CapRung
    <3>4. /\ capped.size = size /\ capped.video = cap
          /\ capped.maxrate = Rounded(107 * cap, 100) /\ capped.buf = Rounded(3 * cap, 2)
      OBVIOUS
    <3>2. cap <= video
      BY <1>1, <2>2
    <3>3. Rounded(3 * cap, 2) <= buf /\ 100 * Rounded(107 * cap, 100) <= 101 * maxrate
      <4>1. CASE video = 5000 /\ maxrate = 5350 /\ buf = 7500
        BY <2>2, <4>1 DEF Rounded
      <4>2. CASE video = 3000 /\ maxrate = 3210 /\ buf = 4500
        BY <2>2, <4>2 DEF Rounded
      <4>3. CASE video = 1400 /\ maxrate = 1500 /\ buf = 2100
        BY <2>2, <4>3 DEF Rounded
      <4>4. CASE video = 1600 /\ maxrate = 1700 /\ buf = 2400
        BY <2>2, <4>4 DEF Rounded
      <4>. QED
        BY <1>1, <4>1, <4>2, <4>3, <4>4
    <3>. HIDE DEF capped
    <3>. QED
      BY <1>1, <3>1, <3>2, <3>3, <3>4 DEF MkRung
  <2>. QED
    BY <2>1, <2>2
<1>. QED
  BY <1>1, TableOfThree

(* Every ladder has the sizes of the rungs that fit, whatever the bitrate.    *)
LEMMA LadderOf ==
  ASSUME NEW s, SourceLimit(s) \in Nat, NEW kbps \in Nat, CapTenths \in Nat
  PROVE  /\ DOMAIN SelectLadder(s, kbps) = 1 .. 4 - FirstKept(s)
         /\ \A i \in 1 .. 4 - FirstKept(s) :
              LET r == Table(s)[FirstKept(s) + i - 1]
                  c == SelectLadder(s, kbps)[i]
              IN  /\ c.size = r.size /\ c.video <= r.video /\ c.buf <= r.buf
                  /\ 100 * c.maxrate <= 101 * r.maxrate
<1>1. DOMAIN SelectLadder(s, kbps) = 1 .. 4 - FirstKept(s)
  BY EndOfTable DEF SelectLadder, Capped
<1>2. ASSUME NEW i \in 1 .. 4 - FirstKept(s)
      PROVE  LET r == Table(s)[FirstKept(s) + i - 1]
                 c == SelectLadder(s, kbps)[i]
             IN  /\ c.size = r.size /\ c.video <= r.video /\ c.buf <= r.buf
                 /\ 100 * c.maxrate <= 101 * r.maxrate
  <2>. DEFINE j == FirstKept(s) + i - 1
              r == Table(s)[j]
              cap == Rounded(kbps * CapTenths, 10)
  <2>1. j \in 1 .. 3 /\ FittingRungs(s)[i] = r
    BY EndOfTable
  <2>2. CASE kbps = 0
    <3>1. SelectLadder(s, kbps)[i] = r
      BY <2>1, <2>2 DEF SelectLadder, Capped
    <3>2. /\ r.video <= r.video /\ r.buf <= r.buf
          /\ 100 * r.maxrate <= 101 * r.maxrate
      BY <2>1, TableOfThree DEF MkRung
    <3>. QED
      BY <3>1, <3>2
  <2>3. CASE kbps # 0
    <3>1. SelectLadder(s, kbps)[i] = CapRung(r, cap)
      BY <2>1, <2>3, EndOfTable DEF SelectLadder, Capped
    <3>2. cap \in Int
      BY DEF Rounded
    <3>. QED
      BY <2>1, <3>1, <3>2, CapLowers
  <2>. QED
    BY <2>2, <2>3
<1>. QED
  BY <1>1, <1>2

(* The shorter displayed side. *)
LEMMA LimitOfSource ==
  ASSUME NEW s \in Source
  PROVE  /\ Display(s).width \in Nat \ {0} /\ Display(s).height \in Nat \ {0}
         /\ s.kbps \in Nat /\ SourceLimit(s) \in Nat
         /\ SourceLimit(s) = IF Display(s).width < Display(s).height
                             THEN Display(s).width ELSE Display(s).height
<1>1. s.width \in Nat \ {0} /\ s.height \in Nat \ {0} /\ s.kbps \in Nat
  BY SourcesAssumption DEF Source
<1>2. Display(s).width \in Nat \ {0} /\ Display(s).height \in Nat \ {0}
  BY <1>1 DEF Display
<1>. QED
  BY <1>1, <1>2 DEF SourceLimit, IsPortrait

LEMMA SameSizes ==
  ASSUME NEW s \in Source, NEW k \in Nat, NEW l \in Nat
  PROVE  /\ SizesOf(SelectLadder(s, k)) = SizesOf(SelectLadder(s, l))
         /\ SizesOf(Announced(SelectLadder(s, k))) = SizesOf(SelectLadder(s, k))
<1>1. SourceLimit(s) \in Nat /\ CapTenths \in Nat
  BY LimitOfSource, SourcesAssumption
<1>2. /\ DOMAIN SelectLadder(s, k) = DOMAIN SelectLadder(s, l)
      /\ \A i \in DOMAIN SelectLadder(s, k) : SelectLadder(s, k)[i].size = SelectLadder(s, l)[i].size
  <2>1. ASSUME NEW kbps \in Nat
        PROVE  /\ DOMAIN SelectLadder(s, kbps) = 1 .. 4 - FirstKept(s)
               /\ \A i \in 1 .. 4 - FirstKept(s) :
                    SelectLadder(s, kbps)[i].size = Table(s)[FirstKept(s) + i - 1].size
    BY <1>1, LadderOf
  <2>. QED
    BY <2>1
<1>. QED
  BY <1>2 DEF SizesOf, Announced

(* The best rendition is the first. *)
LEMMA TopIsFirst ==
  ASSUME NEW s \in Source, NEW k \in Nat
  PROVE  Top(SelectLadder(s, k)) = SelectLadder(s, k)[1]
<1>. DEFINE rungs == SelectLadder(s, k)
            IsTop(i) == /\ \A j \in DOMAIN rungs : rungs[j].size <= rungs[i].size
                        /\ \A j \in 1 .. i - 1 : rungs[j].size < rungs[i].size
<1>1. SourceLimit(s) \in Nat /\ CapTenths \in Nat
  BY LimitOfSource, SourcesAssumption
<1>2. FirstKept(s) \in 1 .. 3 /\ DOMAIN rungs = 1 .. 4 - FirstKept(s)
  BY <1>1, EndOfTable, LadderOf
<1>3. \A i \in DOMAIN rungs : rungs[i].size = Table(s)[FirstKept(s) + i - 1].size
  BY <1>1, <1>2, LadderOf
<1>4. \A i \in DOMAIN rungs : rungs[i].size \in Nat /\ rungs[i].size <= rungs[1].size
  BY <1>2, <1>3, TableOfThree DEF MkRung
<1>. HIDE DEF rungs
<1>5. 1 \in DOMAIN rungs /\ 1 .. 1 - 1 = {}
  BY <1>2
<1>6. IsTop(1)
  BY <1>4, <1>5
<1>7. \A i \in DOMAIN rungs : IsTop(i) => i = 1
  <2>. SUFFICES ASSUME NEW i \in DOMAIN rungs, IsTop(i), i # 1 PROVE FALSE
    OBVIOUS
  <2>1. 1 \in 1 .. i - 1
    BY <1>2
  <2>2. rungs[1].size < rungs[i].size
    BY <2>1
  <2>. QED
    BY <1>4, <1>5, <2>2
<1>. HIDE DEF IsTop
<1>8. (CHOOSE i \in DOMAIN rungs : IsTop(i)) = 1
  BY <1>5, <1>6, <1>7
<1>. QED
  BY <1>8 DEF Top, IsTop, rungs

(* What the three jobs have made, if they have.  The source never changes. *)
LadderInv ==
  /\ source \in Source
  /\ encoded \in {<<>>, PrimaryLadder}
  /\ encoded = <<>> => master = <<>> /\ mp4 = <<>>
  /\ encoded # <<>> => master \in {Announced(encoded), Announced(SelectLadder(source, source.kbps))}
  /\ mp4 \in {<<>>, <<Top(SelectLadder(source, source.kbps))>>}

LEMMA InitEstablishesLadder == LadderInit => LadderInv
  BY DEF LadderInit, NothingMade, LadderInv

LEMMA StepKeepsLadder == LadderInv /\ [LadderNext]_ladderVars => LadderInv'
<1>. SUFFICES ASSUME LadderInv, [LadderNext]_ladderVars PROVE LadderInv'
  OBVIOUS
<1>1. CASE Primary
  <2>1. source' = source /\ encoded' = PrimaryLadder /\ PrimaryLadder' = PrimaryLadder
    BY <1>1 DEF Primary, PrimaryLadder
  <2>2. master' = Announced(encoded') /\ mp4' = <<>>
    BY <1>1 DEF Primary, LadderInv
  <2>3. source' \in Source
    BY <2>1 DEF LadderInv
  <2>4. CASE encoded' = <<>>
    <3>1. master' = <<>>
      BY <2>2, <2>4 DEF Announced
    <3>. QED
      BY <2>1, <2>2, <2>3, <2>4, <3>1 DEF LadderInv
  <2>5. CASE encoded' # <<>>
    BY <2>1, <2>2, <2>3, <2>5 DEF LadderInv
  <2>. QED
    BY <2>4, <2>5
<1>. USE DEF LadderInv, PrimaryLadder
<1>2. CASE Captions
  BY <1>2 DEF Captions
<1>3. CASE Download
  BY <1>3 DEF Download
<1>4. CASE UNCHANGED ladderVars
  BY <1>4 DEF ladderVars
<1>. QED
  BY <1>1, <1>2, <1>3, <1>4 DEF LadderNext

LEMMA LadderInvariant == LadderSpec => []LadderInv
  BY InitEstablishesLadder, StepKeepsLadder, PTL DEF LadderSpec

LEMMA EncodedIsALadder ==
  ASSUME LadderInv, encoded # <<>>
  PROVE  \E k \in {0, source.kbps} :
           /\ encoded = SelectLadder(source, k)
           /\ ~NearStatic(source) => k = source.kbps
  BY DEF LadderInv, PrimaryLadder

LEMMA AgreeFromInv == LadderInv => ArtifactsAgree
<1>. SUFFICES ASSUME LadderInv PROVE ArtifactsAgree
  OBVIOUS
<1>1. CASE encoded = <<>>
  <2>1. master = encoded /\ mp4 = <<>> /\ Announced(encoded) = <<>>
    BY <1>1 DEF LadderInv, Announced
  <2>. QED
    BY <1>1, <2>1 DEF ArtifactsAgree
<1>2. CASE encoded # <<>>
  <2>. DEFINE again == SelectLadder(source, source.kbps)
  <2>1. PICK k \in {0, source.kbps} : /\ encoded = SelectLadder(source, k)
                                      /\ ~NearStatic(source) => k = source.kbps
    BY <1>2, EncodedIsALadder
  <2>2. source \in Source /\ k \in Nat /\ source.kbps \in Nat
    BY LimitOfSource DEF LadderInv
  <2>3. SizesOf(master) = SizesOf(encoded)
    BY <1>2, <2>1, <2>2, SameSizes DEF LadderInv
  <2>4. mp4 # <<>> => mp4[1].size = encoded[1].size
    <3>1. mp4 # <<>> => mp4[1] = again[1]
      BY <2>2, TopIsFirst DEF LadderInv
    <3>2. 1 \in DOMAIN again /\ 1 \in DOMAIN encoded
      <4>1. SourceLimit(source) \in Nat /\ CapTenths \in Nat
        BY <2>2, LimitOfSource, SourcesAssumption
      <4>2. FirstKept(source) \in 1 .. 3
        BY <4>1, EndOfTable
      <4>. QED
        BY <2>1, <2>2, <4>1, <4>2, LadderOf
    <3>3. SizesOf(encoded) = SizesOf(again)
      BY <2>1, <2>2, SameSizes
    <3>4. SizesOf(encoded)[1] = encoded[1].size /\ SizesOf(again)[1] = again[1].size
      BY <3>2 DEF SizesOf
    <3>. QED
      BY <3>1, <3>3, <3>4
  <2>5. ~NearStatic(source) => master = Announced(encoded)
    BY <1>2, <2>1 DEF LadderInv
  <2>. QED
    BY <2>3, <2>4, <2>5 DEF ArtifactsAgree
<1>. QED
  BY <1>1, <1>2

(* A rung of a ladder is a row of the table, capped.                         *)
LEMMA RungOfTable ==
  ASSUME NEW s \in Source, NEW k \in Nat, NEW r \in Range(SelectLadder(s, k)),
         NEW t \in Range(Table(s)), r.size = t.size
  PROVE  r.video <= t.video /\ r.buf <= t.buf /\ 100 * r.maxrate <= 101 * t.maxrate
<1>1. SourceLimit(s) \in Nat /\ CapTenths \in Nat
  BY LimitOfSource, SourcesAssumption
<1>2. PICK i \in 1 .. 4 - FirstKept(s) : r = SelectLadder(s, k)[i]
  BY <1>1, LadderOf DEF Range
<1>3. PICK j \in 1 .. 3 : t = Table(s)[j]
  BY TableOfThree DEF Range
<1>. DEFINE n == FirstKept(s) + i - 1
<1>4. n \in 1 .. 3
  BY <1>1, EndOfTable
<1>5. /\ r.size = Table(s)[n].size /\ r.video <= Table(s)[n].video /\ r.buf <= Table(s)[n].buf
      /\ 100 * r.maxrate <= 101 * Table(s)[n].maxrate
  BY <1>1, <1>2, LadderOf
<1>6. n = j
  <2>1. Table(s)[j].size = Table(s)[n].size
    BY <1>3, <1>5
  <2>2. Table(s)[1].size = 1080 /\ Table(s)[2].size = 720 /\ Table(s)[3].size \in {480, 540}
    BY TableOfThree DEF MkRung
  <2>. QED
    BY <1>4, <2>1, <2>2
<1>. QED
  BY <1>3, <1>5, <1>6

LEMMA SizesFit ==
  ASSUME NEW s \in Source, NEW k \in Nat
  PROVE  LET fitting == {t.size : t \in {r \in Range(Table(s)) : r.size <= SourceLimit(s)}}
         IN  Range(SizesOf(SelectLadder(s, k))) = IF fitting = {} THEN {Last(Table(s)).size} ELSE fitting
<1>. DEFINE T == Table(s)
            first == FirstKept(s)
            fitting == {t.size : t \in {r \in Range(T) : r.size <= SourceLimit(s)}}
            sizes == Range(SizesOf(SelectLadder(s, k)))
<1>1. SourceLimit(s) \in Nat /\ CapTenths \in Nat
  BY LimitOfSource, SourcesAssumption
<1>2. DOMAIN T = 1 .. 3 /\ Len(T) = 3 /\ T[1].size = 1080 /\ T[2].size = 720 /\ T[3].size \in {480, 540}
  BY TableOfThree DEF MkRung
<1>3. first \in 1 .. 3 /\ \A j \in 1 .. 3 : T[j].size <= SourceLimit(s) \/ j = 3 <=> j >= first
  BY <1>1, <1>2, EndOfTable DEF Kept
<1>4. sizes = {T[j].size : j \in {j \in 1 .. 3 : j >= first}}
  <2>1. sizes = {T[first + i - 1].size : i \in 1 .. 4 - first}
    <3>. DEFINE rungs == SelectLadder(s, k)
    <3>1. /\ DOMAIN rungs = 1 .. 4 - first
          /\ \A i \in 1 .. 4 - first : rungs[i].size = T[first + i - 1].size
      BY <1>1, LadderOf
    <3>2. sizes = {rungs[i].size : i \in DOMAIN rungs}
      BY DEF SizesOf, Range
    <3>. HIDE DEF rungs, T, first, sizes
    <3>. QED
      BY <3>1, <3>2
  <2>2. ASSUME NEW i \in 1 .. 4 - first PROVE first + i - 1 \in {j \in 1 .. 3 : j >= first}
    BY <1>3
  <2>3. ASSUME NEW j \in 1 .. 3, j >= first
        PROVE  j - first + 1 \in 1 .. 4 - first /\ first + (j - first + 1) - 1 = j
    BY <1>3, <2>3
  <2>. HIDE DEF T, first, sizes
  <2>. QED
    BY <2>1, <2>2, <2>3
<1>5. fitting = {T[j].size : j \in {j \in 1 .. 3 : T[j].size <= SourceLimit(s)}}
  <2>1. Range(T) = {T[j] : j \in 1 .. 3}
    BY <1>2 DEF Range
  <2>. HIDE DEF T
  <2>. QED
    BY <2>1
<1>6. CASE T[3].size <= SourceLimit(s)
  <2>1. \A j \in 1 .. 3 : T[j].size <= SourceLimit(s) <=> j >= first
    BY <1>3, <1>6
  <2>2. T[3].size \in fitting
    BY <1>5, <1>6
  <2>. HIDE DEF T, first, sizes, fitting
  <2>3. sizes = fitting
    BY <1>4, <1>5, <2>1
  <2>. QED
    BY <2>2, <2>3 DEF T, first, sizes, fitting
<1>7. CASE ~(T[3].size <= SourceLimit(s))
  <2>1. \A j \in 1 .. 3 : ~(T[j].size <= SourceLimit(s))
    BY <1>1, <1>2, <1>7
  <2>2. first = 3 /\ fitting = {}
    BY <1>3, <1>5, <2>1
  <2>3. Last(T) = T[3]
    BY <1>2 DEF Last
  <2>4. {j \in 1 .. 3 : j >= first} = {3}
    BY <2>2
  <2>5. sizes = {T[3].size}
    BY <1>4, <2>4
  <2>. QED
    BY <2>2, <2>3, <2>5
<1>. QED
  BY <1>6, <1>7

LEMMA FitFromInv == LadderInv => RungsFitSource
<1>. SUFFICES ASSUME LadderInv, encoded # <<>> PROVE RungsFitSource
  BY DEF RungsFitSource
<1>. DEFINE T == Table(source)
            again == SelectLadder(source, source.kbps)
<1>1. PICK k \in {0, source.kbps} : encoded = SelectLadder(source, k)
  BY EncodedIsALadder
<1>2. source \in Source /\ k \in Nat /\ source.kbps \in Nat
  BY LimitOfSource DEF LadderInv
<1>3. \A r \in Range(encoded), t \in Range(T) :
        r.size = t.size => r.video <= t.video /\ r.buf <= t.buf
  BY <1>1, <1>2, RungOfTable
<1>4. ASSUME NEW l \in Nat, NEW r \in Range(SelectLadder(source, l)) \cup Range(Announced(SelectLadder(source, l))),
             NEW t \in Range(T), r.size = t.size
      PROVE  100 * r.maxrate <= 101 * t.maxrate
  <2>1. PICK q \in Range(SelectLadder(source, l)) : r.size = q.size /\ r.maxrate = q.maxrate
    BY <1>4 DEF Announced, Range
  <2>. QED
    BY <1>2, <1>4, <2>1, RungOfTable
<1>5. \A r \in Range(encoded) \cup Range(master), t \in Range(T) :
        r.size = t.size => 100 * r.maxrate <= 101 * t.maxrate
  <2>1. master \in {Announced(SelectLadder(source, k)), Announced(SelectLadder(source, source.kbps))}
    BY <1>1 DEF LadderInv
  <2>. QED
    BY <1>1, <1>2, <1>4, <2>1
<1>6. SourceLimit(source) = IF Display(source).width < Display(source).height
                            THEN Display(source).width ELSE Display(source).height
  BY <1>2, LimitOfSource
<1>. DEFINE fitting == {t.size : t \in {r \in Range(T) : r.size <= SourceLimit(source)}}
<1>7. Range(SizesOf(encoded)) = IF fitting = {} THEN {Last(T).size} ELSE fitting
  BY <1>1, <1>2, SizesFit
<1>8. /\ Range(SizesOf(encoded)) = IF fitting = {} THEN {Last(T).size} ELSE fitting
      /\ \A r \in Range(encoded), t \in Range(T) :
           r.size = t.size => r.video <= t.video /\ r.buf <= t.buf
      /\ \A r \in Range(encoded) \cup Range(master), t \in Range(T) :
           r.size = t.size => 100 * r.maxrate <= 101 * t.maxrate
  BY <1>3, <1>5, <1>7
<1>. QED
  BY ONLY <1>6, <1>8 DEF RungsFitSource

(* The player does not touch what the jobs make.                             *)
LEMMA StoryStepsOfLadder ==
  /\ StoryInit => LadderInit
  /\ [StoryNext]_bothVars => [LadderNext]_ladderVars
<1>1. StoryInit => LadderInit
  BY InputsAssumption DEF StoryInit, LadderInit, NothingMade
<1>2. ASSUME StoryNext PROVE [LadderNext]_ladderVars
  <2>1. CASE LadderNext
    BY <2>1
  <2>2. CASE Generate
    BY <2>2 DEF Generate
  <2>3. CASE PreviewStep
    BY <2>3 DEF PreviewStep, TilesArrive, Leave, Move, SheetLoads
  <2>. QED
    BY <1>2, <2>1, <2>2, <2>3 DEF StoryNext
<1>3. UNCHANGED bothVars => UNCHANGED ladderVars
  BY DEF bothVars
<1>. QED
  BY <1>1, <1>2, <1>3

LEMMA StoryKeepsLadder == StorySpec => []LadderInv
<1>. StorySpec => LadderSpec
  BY StoryStepsOfLadder, PTL DEF StorySpec, LadderSpec
<1>. QED
  BY LadderInvariant, PTL

(* selectLadder() and capToSource(): whatever the size, the rotation, the    *)
(* bitrate and the frame rate of the source, PRIMARY's renditions are the    *)
(* rungs that fit its shorter displayed side, or the floor, and none is      *)
(* raised.                                                                  *)
THEOREM RungsFit == StorySpec => []RungsFitSource
  BY StoryKeepsLadder, FitFromInv, PTL

(* runCaptionsJob() and runDownloadJob(): the ladders that they compute anew  *)
(* agree with what PRIMARY uploaded, however often and in which order they    *)
(* run.                                                                     *)
THEOREM JobsAgree == StorySpec => []ArtifactsAgree
  BY StoryKeepsLadder, AgreeFromInv, PTL
-----------------------------------------------------------------------------
(* The previews.                                                           *)

LEMMA StampOfSecond ==
  ASSUME NEW s \in Nat
  PROVE  Stamp(s) = 10 * s
<1>1. s = 3600 * (s \div 3600) + (s % 3600) /\ s % 3600 \in 0 .. 3599 /\ s \div 3600 \in Nat
  OBVIOUS
<1>2. ASSUME NEW r \in 0 .. 3599, NEW h \in Nat
      PROVE  60 * (r \div 60) + ((3600 * h + r) % 60) = r
  OBVIOUS
<1>3. 60 * ((s % 3600) \div 60) + (s % 60) = s % 3600
  BY <1>1, <1>2
<1>. QED
  BY <1>1, <1>3 DEF Stamp, Second

(* The numbers that thumbnails.ts and ffmpeg compute from the duration: one   *)
(* of them from the seconds, the other from all of it.                       *)
LEMMA CountsOfDuration ==
  ASSUME duration \in Nat
  PROVE  /\ DurationSec \in Nat
         /\ CueCount \in Nat \ {0}
         /\ DurationSec <= 5 * CueCount /\ (CueCount # 1 => 5 * (CueCount - 1) < DurationSec)
         /\ AtLeastOne(duration \div Step) \in Nat \ {0}
         /\ AtLeastOne(CeilDiv(duration, Step)) \in Nat \ {0}
         /\ CueCount - 1 <= AtLeastOne(duration \div Step)
         /\ AtLeastOne(duration \div Step) <= AtLeastOne(CeilDiv(duration, Step))
<1>. DEFINE seconds == (2 * duration + 10) \div 20
            cues    == (seconds + 4) \div 5
            whole   == duration \div 50
            begun   == (duration + 49) \div 50
<1>1. DurationSec = seconds /\ seconds \in Nat
  BY DEF DurationSec, Rounded, Second
<1>2. cues \in Nat /\ seconds <= 5 * cues /\ 5 * (cues - 1) < seconds
  BY <1>1
<1>3. CueCount = IF cues = 0 THEN 1 ELSE cues
  BY <1>1 DEF CueCount, AtLeastOne, CeilDiv, Interval
<1>4. /\ AtLeastOne(duration \div Step) = IF whole = 0 THEN 1 ELSE whole
      /\ AtLeastOne(CeilDiv(duration, Step)) = IF begun = 0 THEN 1 ELSE begun
  BY DEF AtLeastOne, CeilDiv, Step, Interval, Second
<1>5. whole \in Nat /\ begun \in Nat /\ whole <= begun
  OBVIOUS
<1>6. cues - 1 <= whole
  OBVIOUS
<1>. HIDE DEF seconds, cues, whole, begun
<1>. QED
  BY <1>1, <1>2, <1>3, <1>4, <1>5, <1>6

(* All cues but the last are five seconds long. *)
LEMMA CueBounds ==
  ASSUME duration \in Nat, NEW i \in 0 .. CueCount - 1
  PROVE  /\ Cue(i).start = i * Step
         /\ i < CueCount - 1 => Cue(i).end = (i + 1) * Step
<1>1. CueCount \in Nat \ {0} /\ DurationSec \in Nat /\ i \in Nat
  BY CountsOfDuration
<1>2. Cue(i).start = i * Step
  <2>1. Stamp(i * 5) = 10 * (i * 5)
    BY <1>1, StampOfSecond
  <2>. QED
    BY <1>1, <2>1 DEF Cue, Interval, Step, Second
<1>3. ASSUME i < CueCount - 1 PROVE Cue(i).end = (i + 1) * Step
  <2>1. ~(DurationSec < (i + 1) * 5)
    BY <1>1, <1>3, CountsOfDuration
  <2>2. CueEnd(i) = (i + 1) * 5
    BY <2>1 DEF CueEnd, Interval
  <2>3. Stamp((i + 1) * 5) = 10 * ((i + 1) * 5)
    BY <1>1, StampOfSecond
  <2>. QED
    BY <1>1, <2>2, <2>3 DEF Cue, Interval, Step, Second
<1>. QED
  BY <1>2, <1>3

(* thumbAtTime finds the frame that ffmpeg took for the time, and a cue that  *)
(* still covers the time is the one it would find.                          *)
LEMMA TileOfTime ==
  ASSUME duration \in Nat, NEW t \in Nat
  PROVE  /\ FrameAt(t) \in 0 .. CueCount - 1
         /\ \A i \in 0 .. CueCount - 1 : Covers(i, t) => i = FrameAt(t)
         /\ ThumbAtTime(t) = FrameAt(t)
<1>. DEFINE n == FrameAt(t)
<1>1. CueCount \in Nat \ {0}
  BY CountsOfDuration
<1>2. n \in 0 .. CueCount - 1 /\ n = IF t \div 50 < CueCount THEN t \div 50 ELSE CueCount - 1
  BY <1>1 DEF FrameAt, Step, Interval, Second
<1>3. ASSUME NEW i \in 0 .. CueCount - 1
      PROVE  /\ i < CueCount - 1 => (Covers(i, t) <=> t \div 50 = i)
             /\ i = CueCount - 1 /\ Covers(i, t) => t \div 50 >= i
  <2>1. Cue(i).start = i * 50 /\ (i < CueCount - 1 => Cue(i).end = (i + 1) * 50)
    BY <1>3, CueBounds DEF Step, Interval, Second
  <2>2. i \in Nat
    BY <1>1
  <2>. QED
    BY <2>1, <2>2 DEF Covers
<1>. HIDE DEF n
<1>4. ASSUME NEW i \in 0 .. CueCount - 1, Covers(i, t) PROVE i = n
  BY <1>1, <1>2, <1>3, <1>4
<1>5. ~Covers(n, t) => n = CueCount - 1
  BY <1>1, <1>2, <1>3
<1>6. ThumbAtTime(t) = n
  <2>. DEFINE covering == {i \in 0 .. CueCount - 1 : Covers(i, t)}
  <2>1. CASE covering = {}
    BY <1>2, <1>5, <2>1 DEF ThumbAtTime
  <2>2. CASE covering # {}
    <3>1. covering = {n}
      BY <1>4, <2>2
    <3>2. n <= n
      BY <1>1, <1>2
    <3>. HIDE DEF covering
    <3>3. (CHOOSE i \in covering : \A j \in covering : i <= j) = n
      BY <3>1, <3>2
    <3>. QED
      BY <2>2, <3>3 DEF ThumbAtTime, covering
  <2>. QED
    BY <2>1, <2>2
<1>. QED
  BY <1>2, <1>4, <1>6 DEF n

(* A tile is shown only for the time under the pointer, and only sheets that  *)
(* ffmpeg has written are ever measured.                                    *)
PreviewInv ==
  /\ source \in Source /\ duration \in Nat /\ frames \in Nat
  /\ frames # 0 => frames \in {AtLeastOne(duration \div Step), AtLeastOne(CeilDiv(duration, Step))}
  /\ hover # Absent => hover \in Nat /\ hover <= duration /\ duration # 0 /\ frames # 0
  /\ thumb # Absent => tiles /\ hover # Absent /\ thumb = FrameAt(hover)
  /\ images \subseteq Nat \ {0} /\ measured \subseteq Nat
  /\ \A s \in measured : 1 <= s /\ s <= CeilDiv(frames, Sheet)
  /\ sheet # Absent => sheet \in measured

LEMMA InitEstablishesPreview == StoryInit => PreviewInv
<1>. SUFFICES ASSUME StoryInit PROVE PreviewInv
  OBVIOUS
<1>1. source \in Source /\ duration \in Nat
  BY InputsAssumption DEF StoryInit
<1>. QED
  BY <1>1 DEF StoryInit, PreviewInv

(* The effects of ThumbnailPreview, for a time that the pointer may be at.    *)
LEMMA PreviewKeeps ==
  ASSUME PreviewInv, NEW t \in Nat, t <= duration, duration # 0, frames # 0,
         UNCHANGED <<ladderVars, duration, frames>>, tiles => tiles',
         hover' = t, Preview(t)
  PROVE  PreviewInv'
<1>1. UNCHANGED <<source, duration, frames, measured>>
  BY DEF ladderVars, Preview
<1>2. /\ CueCount' = CueCount
      /\ CeilDiv(frames, Sheet)' = CeilDiv(frames, Sheet)
      /\ FrameAt(hover)' = FrameAt(t)
  BY <1>1 DEF CueCount, DurationSec, AtLeastOne, CeilDiv, FrameAt
<1>3. FrameAt(t) \in Nat /\ FrameAt(t) \in 0 .. CueCount - 1
  BY TileOfTime, CountsOfDuration DEF PreviewInv
<1>4. thumb' # Absent => tiles' /\ thumb' = FrameAt(t)
  <2>1. CASE ~tiles'
    BY <2>1 DEF Preview, PreviewInv
  <2>2. CASE tiles' /\ thumb # Absent /\ Covers(thumb, t)
    <3>1. thumb \in 0 .. CueCount - 1
      BY <2>2, TileOfTime DEF PreviewInv
    <3>2. thumb' = thumb
      BY <2>2 DEF Preview
    <3>3. thumb = FrameAt(t)
      BY <2>2, <3>1, TileOfTime DEF PreviewInv
    <3>. QED
      BY <2>2, <3>2, <3>3
  <2>3. CASE tiles' /\ ~(thumb # Absent /\ Covers(thumb, t))
    <3>1. thumb' = ThumbAtTime(t)
      BY <2>3 DEF Preview
    <3>. QED
      BY <2>3, <3>1, TileOfTime DEF PreviewInv
  <2>. QED
    BY <2>1, <2>2, <2>3
<1>5. thumb' # Absent => Cue(thumb').sheet \in Nat \ {0}
  BY <1>3, <1>4 DEF Cue, Sheet
<1>6. images' \subseteq Nat \ {0}
  <2>1. CASE thumb' = Absent
    BY <2>1 DEF Preview, PreviewInv
  <2>2. CASE thumb' # Absent
    <3>1. Cue(thumb').sheet # Absent
      BY <1>5, <2>2 DEF Absent
    <3>2. images' = images \cup {Cue(thumb').sheet}
      BY <2>2, <3>1 DEF Preview
    <3>. QED
      BY <1>5, <2>2, <3>2 DEF PreviewInv
  <2>. QED
    BY <2>1, <2>2
<1>7. sheet' # Absent => sheet' \in measured
  BY DEF Preview, PreviewInv
<1>8. /\ source' \in Source' /\ duration' \in Nat /\ frames' \in Nat
      /\ frames' # 0 => frames' \in {AtLeastOne(duration \div Step)', AtLeastOne(CeilDiv(duration, Step))'}
      /\ hover' \in Nat /\ hover' <= duration' /\ duration' # 0 /\ frames' # 0
  BY <1>1, <1>2 DEF PreviewInv, Source, AtLeastOne, CeilDiv, Step
<1>9. thumb' # Absent' => tiles' /\ hover' # Absent' /\ thumb' = FrameAt(hover)'
  BY <1>2, <1>4 DEF Absent
<1>10. /\ images' \subseteq Nat \ {0} /\ measured' \subseteq Nat
       /\ \A s \in measured' : 1 <= s /\ s <= CeilDiv(frames, Sheet)'
       /\ sheet' # Absent' => sheet' \in measured'
  BY <1>1, <1>2, <1>6, <1>7 DEF PreviewInv, Absent
<1>. QED
  BY <1>8, <1>9, <1>10 DEF PreviewInv

LEMMA StepKeepsPreview == PreviewInv /\ [StoryNext]_bothVars => PreviewInv'
<1>. SUFFICES ASSUME PreviewInv, [StoryNext]_bothVars PROVE PreviewInv'
  OBVIOUS
<1>1. ASSUME UNCHANGED <<source, duration>>
      PROVE  /\ CueCount' = CueCount
             /\ hover' = hover => FrameAt(hover)' = FrameAt(hover)
             /\ frames' = frames => CeilDiv(frames, Sheet)' = CeilDiv(frames, Sheet)
  BY <1>1 DEF CueCount, DurationSec, AtLeastOne, CeilDiv, FrameAt
<1>2. CASE LadderNext /\ UNCHANGED storyVars
  <2>1. UNCHANGED <<source, duration, frames, tiles, hover, thumb, sheet, images, measured>>
    BY <1>2 DEF LadderNext, Primary, Captions, Download, storyVars, previewVars
  <2>. QED
    BY <1>1, <2>1 DEF PreviewInv
<1>3. CASE Generate
  <2>1. UNCHANGED <<source, duration, tiles, hover, thumb, sheet, images, measured>>
        /\ frames = 0 /\ frames' \in {AtLeastOne(duration \div Step), AtLeastOne(CeilDiv(duration, Step))}
    BY <1>3 DEF Generate, ladderVars, previewVars
  <2>2. frames' \in Nat
    BY <2>1, CountsOfDuration DEF PreviewInv
  <2>3. measured = {}
    BY <2>1 DEF PreviewInv, CeilDiv, Sheet
  <2>4. hover = Absent
    BY <2>1 DEF PreviewInv
  <2>5. Absent' = Absent
    BY DEF Absent
  <2>. QED
    BY <1>1, <2>1, <2>2, <2>3, <2>4, <2>5 DEF PreviewInv
<1>4. CASE TilesArrive
  <2>1. UNCHANGED <<source, duration, frames, hover>> /\ tiles'
    BY <1>4 DEF TilesArrive, ladderVars
  <2>2. CASE hover = Absent
    <3>1. UNCHANGED <<thumb, sheet, images, measured>>
      BY <1>4, <2>2 DEF TilesArrive
    <3>. QED
      BY <1>1, <2>1, <3>1 DEF PreviewInv
  <2>3. CASE hover # Absent
    <3>1. Preview(hover) /\ UNCHANGED <<ladderVars, duration, frames>>
      BY <1>4, <2>3 DEF TilesArrive
    <3>2. hover \in Nat /\ hover <= duration /\ duration # 0 /\ frames # 0
      BY <2>3 DEF PreviewInv
    <3>. QED
      BY <2>1, <3>1, <3>2, PreviewKeeps
  <2>. QED
    BY <2>2, <2>3
<1>5. CASE Leave
  <2>1. UNCHANGED <<source, duration, frames, tiles, images, measured>>
        /\ hover' = Absent /\ thumb' = Absent /\ sheet' = Absent
    BY <1>5 DEF Leave, ladderVars
  <2>. QED
    BY <1>1, <2>1 DEF PreviewInv, Absent
<1>6. ASSUME NEW t \in HoverTimes, Move(t) PROVE PreviewInv'
  <2>1. Preview(t) /\ UNCHANGED <<ladderVars, duration, frames, tiles>> /\ hover' = t
    BY <1>6 DEF Move
  <2>2. t \in Nat /\ t <= duration /\ duration # 0 /\ frames # 0
    BY <1>6, InputsAssumption DEF Move, PreviewInv
  <2>. QED
    BY <2>1, <2>2, PreviewKeeps
<1>7. ASSUME NEW s \in images, SheetLoads(s) PROVE PreviewInv'
  <2>1. UNCHANGED <<source, duration, frames, tiles, hover, thumb, images>>
        /\ measured' = measured \cup {s} /\ s <= CeilDiv(frames, Sheet)
    BY <1>7 DEF SheetLoads, ladderVars
  <2>2. s \in Nat \ {0} /\ (sheet' # Absent => sheet' \in measured')
    BY <1>7, <2>1 DEF SheetLoads, PreviewInv
  <2>. QED
    BY <1>1, <2>1, <2>2 DEF PreviewInv
<1>8. CASE UNCHANGED bothVars
  <2>1. UNCHANGED <<source, duration, frames, tiles, hover, thumb, sheet, images, measured>>
    BY <1>8 DEF bothVars, ladderVars, storyVars, previewVars
  <2>. QED
    BY <1>1, <2>1 DEF PreviewInv
<1>. QED
  BY <1>2, <1>3, <1>4, <1>5, <1>6, <1>7, <1>8 DEF StoryNext, PreviewStep

(* Rounding to a multiple of the height does not go below ten pixels. *)
LEMMA QuotientAtLeast ==
  ASSUME NEW a \in Nat, NEW d \in Nat \ {0}, NEW k \in Nat, a >= k * d
  PROVE  a \div d >= k
<1>1. a = d * (a \div d) + (a % d) /\ a % d \in 0 .. d - 1 /\ a \div d \in Nat
  OBVIOUS
<1>2. ASSUME a \div d < k PROVE FALSE
  <2>. DEFINE q == a \div d
  <2>1. PICK e \in Nat : k = q + 1 + e
    <3>1. q \in Nat /\ k - q - 1 \in Nat /\ k = q + 1 + (k - q - 1)
      BY <1>1, <1>2
    <3>. QED
      BY <3>1
  <2>2. a < d * q + d /\ q \in Nat
    BY <1>1
  <2>. HIDE DEF q
  <2>3. k * d = d * q + d + e * d /\ e * d >= 0
    BY <2>1, <2>2
  <2>. QED
    BY <2>2, <2>3
<1>. QED
  BY <1>1, <1>2

LEMMA TilesOfSource ==
  ASSUME source \in Source, Display(source).width <= 16 * Display(source).height
  PROVE  /\ ScaledHeight \in Nat /\ ScaledHeight >= 10
         /\ ThumbHeight \in {ScaledHeight, ScaledHeight + 1}
<1>. DEFINE w == Display(source).width
            h == Display(source).height
            a == 2 * (160 * h) + w
            d == 2 * w
<1>1. w \in Nat \ {0} /\ h \in Nat \ {0}
  BY LimitOfSource
<1>2. ScaledHeight = a \div d
  BY DEF ScaledHeight, Rounded, Width
<1>3. a \in Nat /\ d \in Nat \ {0} /\ a >= 10 * d
  <2>. HIDE DEF w, h
  <2>1. w <= 16 * h
    BY DEF w, h
  <2>. QED
    BY <1>1, <2>1
<1>4. a \div d \in Nat /\ a \div d >= 10
  <2>. HIDE DEF a, d
  <2>. QED
    BY <1>3, QuotientAtLeast
<1>5. ScaledHeight \in Nat /\ ScaledHeight >= 10
  BY <1>2, <1>4
<1>6. ThumbHeight = ScaledHeight + (ScaledHeight % 2)
  BY <1>5 DEF ThumbHeight
<1>. HIDE DEF w, h, a, d
<1>. QED
  BY ONLY <1>5, <1>6

(* Of all frames but the last the sheet has been written. *)
LEMMA SheetOfFrame ==
  ASSUME PreviewInv, frames # 0, duration # 0,
         NEW n \in 0 .. CueCount - 1, n \div Sheet + 1 > CeilDiv(frames, Sheet)
  PROVE  n = CueCount - 1
<1>1. CueCount \in Nat \ {0} /\ frames \in Nat /\ frames >= CueCount - 1
  BY CountsOfDuration DEF PreviewInv
<1>2. n \in Nat /\ n <= CueCount - 1
  BY <1>1
<1>3. n \div 100 + 1 > (frames + 99) \div 100
  BY DEF CeilDiv, Sheet
<1>. QED
  BY ONLY <1>1, <1>2, <1>3

LEMMA MatchesFromInv == PreviewInv => PreviewMatches
<1>. SUFFICES ASSUME PreviewInv, hover # Absent, thumb # Absent PROVE PreviewMatches
  BY DEF PreviewMatches
<1>. DEFINE n == FrameAt(hover)
            c == Cue(thumb)
            d == Display(source)
<1>1. /\ duration \in Nat \ {0} /\ frames # 0 /\ hover \in Nat
      /\ thumb = n /\ source \in Source
  BY DEF PreviewInv
<1>2. n \in 0 .. CueCount - 1
  BY <1>1, TileOfTime
<1>3. n \in Nat
  BY <1>1, <1>2, CountsOfDuration
<1>4. /\ c.sheet = n \div Sheet + 1
      /\ c.x = (n % Cols) * Width
      /\ c.y = RowOf(n) * ThumbHeight
  BY <1>1 DEF Cue, RowOf
<1>5. c.sheet > CeilDiv(frames, Sheet) => n = CueCount - 1
  BY <1>1, <1>2, <1>4, SheetOfFrame
<1>6. c.sheet > CeilDiv(frames, Sheet) => ~Ready
  <2>. SUFFICES ASSUME Ready PROVE c.sheet <= CeilDiv(frames, Sheet) /\ c.sheet \in Nat /\ CeilDiv(frames, Sheet) \in Int
    OBVIOUS
  <2>1. sheet = c.sheet
    BY DEF Ready
  <2>2. c.sheet \in Nat /\ c.sheet # Absent
    BY <1>3, <1>4 DEF Sheet, Absent
  <2>3. CeilDiv(frames, Sheet) \in Int
    BY DEF PreviewInv, CeilDiv, Sheet
  <2>. QED
    BY <2>1, <2>2, <2>3 DEF PreviewInv
<1>7. ASSUME d.width <= 16 * d.height
      PROVE  /\ c.y \in RowOf(n) * ScaledHeight .. RowOf(n) * ScaledHeight + RowOf(n)
             /\ c.y < (RowOf(n) + 1) * ScaledHeight
  <2>. DEFINE line == RowOf(n)
  <2>1. line \in 0 .. 9
    BY <1>3 DEF RowOf, Sheet, Cols
  <2>2. /\ ScaledHeight \in Nat /\ ScaledHeight >= 10
        /\ ThumbHeight \in {ScaledHeight, ScaledHeight + 1}
    BY <1>1, <1>7, TilesOfSource
  <2>3. c.y = line * ThumbHeight
    BY <1>4
  <2>. HIDE DEF line, c, n
  <2>4. line * (ScaledHeight + 1) = line * ScaledHeight + line
        /\ (line + 1) * ScaledHeight = line * ScaledHeight + ScaledHeight
        /\ line * ScaledHeight \in Nat
    BY <2>1, <2>2
  <2>5. c.y \in {line * ScaledHeight, line * ScaledHeight + line}
    BY <2>2, <2>3, <2>4
  <2>6. /\ c.y \in line * ScaledHeight .. line * ScaledHeight + line
        /\ c.y < (line + 1) * ScaledHeight
    BY <2>1, <2>2, <2>4, <2>5
  <2>. QED
    BY <2>6 DEF line
<1>. HIDE DEF n, c, d
<1>8. /\ c.sheet > CeilDiv(frames, Sheet) => n = CueCount - 1 /\ ~Ready
      /\ Ready =>
           /\ c.sheet = n \div Sheet + 1 /\ c.x = (n % Cols) * Width
           /\ d.width <= 16 * d.height =>
                /\ c.y \in RowOf(n) * ScaledHeight .. RowOf(n) * ScaledHeight + RowOf(n)
                /\ c.y < (RowOf(n) + 1) * ScaledHeight
  BY <1>4, <1>5, <1>6, <1>7
<1>. QED
  BY <1>8 DEF PreviewMatches, n, c, d

(* generateThumbnails() and ThumbnailPreview, over one another's arithmetic:  *)
(* for a source of any duration, size and rotation, and whatever the pointer  *)
(* and the loading of the sheets do, the picture over the seek bar is the    *)
(* frame of the time under the pointer.                                     *)
THEOREM PreviewsMatch == StorySpec => []PreviewMatches
  BY InitEstablishesPreview, StepKeepsPreview, MatchesFromInv, PTL DEF StorySpec
=============================================================================
