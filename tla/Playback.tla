------------------------------ MODULE Playback ------------------------------
(***************************************************************************)
(* The page that plays a video: it polls the row until it is ready, mints a *)
(* playback token, and gives its player (hls.js, or Safari's own on an       *)
(* iPhone) the master playlist with the token in its URL.  The API rewrites  *)
(* each playlist so that the token also rides in the URLs of the variants    *)
(* and of the key; it checks the token, and nothing else of the viewer, at   *)
(* every request.  A token expires in the middle of it all.                 *)
(***************************************************************************)
EXTENDS Integers

CONSTANT TTL   \* the age, in seconds, at which a token is refused

ASSUME TtlAssumption == TTL \in Nat \ {0}

VARIABLES
  row,        \* status in the database; "moving" is any that is not terminal
  open,       \* VideoDetailPage is mounted
  shown,      \* the status in React Query's cache, or "none"
  poll,       \* the GET of the video: "idle", "sent", or the status it read
  native,     \* canPlayNativeHls(): a constant of the browser
  token,      \* age of ReadyPlayer's token, or None
  mint,       \* the last mint: None, Sent, or the age of what it made
  tokenError, \* ReadyPlayer's state of that name is set
  engine,     \* "none", what the player is loading, "playing", "stopped"
  error,      \* the PlayerError the overlay shows: "none", "auth" or "other"
  recovered   \* recoveredRef of useHlsPlayer

playerVars == <<token, mint, tokenError, engine, error, recovered>>
vars == <<row, open, shown, poll, native, playerVars>>

Statuses == {"moving", "ready", "failed", "cancelled"}
Ages     == 0 .. TTL
None     == -1
Sent     == -2
Loading  == {"master", "variant", "key"}
-----------------------------------------------------------------------------
(* The API.  Definitions named Faulty... are the code with one plausible     *)
(* mistake in it; no action uses them.                                      *)

(* requirePlaybackToken, verify: jsonwebtoken refuses at exp. *)
Live(age) == age < TTL

(* getOutputPrefixForPlayback *)
Playable == row = "ready"

(* Only the manifests look at the status. *)
ManifestAnswer == IF ~Live(token) THEN 401 ELSE IF Playable THEN 200 ELSE 404

(* getVideoKey: the key row outlives the status. *)
KeyAnswer == IF Live(token) THEN 200 ELSE 401

Answer(request) == IF request = "key" THEN KeyAnswer ELSE ManifestAnswer

(* The row as the pipeline, the dashboard's retry and the tenant-admin       *)
(* service move it.                                                        *)
RowMoves ==
  /\ \/ row = "moving" /\ row' \in {"ready", "failed"}
     \/ row = "failed" /\ row' = "moving"
     \/ row = "ready"  /\ row' = "cancelled"
  /\ UNCHANGED <<open, shown, poll, native, playerVars>>
-----------------------------------------------------------------------------
(* Mounting and unmounting.                                                *)

NoPlayer ==
  /\ token' = None /\ tokenError' = FALSE /\ mint' = None
  /\ engine' = "none" /\ error' = "none" /\ recovered' = FALSE

(* ReadyPlayer mounts: its effect requests a token. *)
FreshPlayer ==
  /\ token' = None /\ tokenError' = FALSE /\ mint' = Sent
  /\ engine' = "none" /\ error' = "none" /\ recovered' = FALSE

(* VideoDetail renders for the status it has got. *)
Render(before, now) ==
  IF now = "ready"
  THEN IF before = "ready" THEN UNCHANGED playerVars ELSE FreshPlayer
  ELSE NoPlayer

(* The cache may have been collected since; what is stale is fetched again,  *)
(* unless a request of an earlier visit is still on its way.                *)
Open ==
  /\ ~open /\ open' = TRUE
  /\ shown' \in IF poll = "idle" THEN {shown, "none"} ELSE {shown}
  /\ poll' \in IF poll # "idle" THEN {poll}
               ELSE IF shown' = "none" THEN {"sent"} ELSE {"sent", "idle"}
  /\ Render("none", shown')
  /\ UNCHANGED <<row, native>>

(* The request goes on and fills the cache; callbacks of a mint are dropped. *)
Close ==
  /\ open /\ open' = FALSE
  /\ NoPlayer
  /\ UNCHANGED <<row, shown, poll, native>>

FaultyNonTerminal(status) == status = "failed"

(* isNonTerminal *)
NonTerminal(status) == status = "moving"

(* refetchInterval of useVideo. *)
PollSend ==
  /\ open /\ poll = "idle" /\ NonTerminal(shown)
  /\ poll' = "sent"
  /\ UNCHANGED <<row, open, shown, native, playerVars>>

PollRead ==
  /\ poll = "sent" /\ poll' = row
  /\ UNCHANGED <<row, open, shown, native, playerVars>>

PollAnswer ==
  /\ poll \in Statuses /\ poll' = "idle"
  /\ shown' = poll
  /\ IF open THEN Render(shown, poll) ELSE UNCHANGED playerVars
  /\ UNCHANGED <<row, open, native>>

(* Its one retry failed as well; what is cached stays. *)
PollFails ==
  /\ poll # "idle" /\ poll' = "idle"
  /\ UNCHANGED <<row, open, shown, native, playerVars>>
-----------------------------------------------------------------------------
(* The token.  Only the callbacks of the last mutate() are called.          *)

RequestToken == mint' = Sent /\ tokenError' = FALSE

(* The age of the token that a mint returns: iat is the present second. *)
Minted == 0

MintServes ==
  /\ mint = Sent /\ mint' = Minted
  /\ UNCHANGED <<row, open, shown, poll, native, token, tokenError, engine, error, recovered>>

(* A new url: the effect of the hook cleans up and runs again. *)
StartEngine == engine' = "master" /\ error' = "none" /\ recovered' = FALSE

FaultyMintAnswer ==
  /\ mint \in Ages /\ mint' = None
  /\ token' = IF token = None THEN mint ELSE token
  /\ IF token = None THEN StartEngine ELSE UNCHANGED <<engine, error, recovered>>
  /\ UNCHANGED <<row, open, shown, poll, native, tokenError>>

(* setToken(res.token).  A token minted in the second of the present one is  *)
(* the same string (iat counts seconds), so the url does not change.        *)
MintAnswer ==
  /\ mint \in Ages /\ mint' = None
  /\ token' = mint
  /\ IF token = mint THEN UNCHANGED <<engine, error, recovered>> ELSE StartEngine
  /\ UNCHANGED <<row, open, shown, poll, native, tokenError>>

MintFails ==
  /\ mint # None /\ mint' = None
  /\ tokenError' = TRUE
  /\ UNCHANGED <<row, open, shown, poll, native, token, engine, error, recovered>>

(* The button below tokenError, which a token hides. *)
ClickMint ==
  /\ tokenError /\ token = None
  /\ RequestToken
  /\ UNCHANGED <<row, open, shown, poll, native, token, engine, error, recovered>>

Older(age) == IF age \in 0 .. TTL - 1 THEN age + 1 ELSE age

(* A second passes; an answer comes before what it brings expires. *)
Tick ==
  /\ token \in 0 .. TTL - 1 \/ mint \in Ages
  /\ mint \in Ages => Live(mint + 1)
  /\ token' = Older(token) /\ mint' = Older(mint)
  /\ UNCHANGED <<row, open, shown, poll, native, tokenError, engine, error, recovered>>
-----------------------------------------------------------------------------
(* The player.                                                             *)

Fatal(kind) ==
  /\ engine' = "stopped" /\ error' = kind
  /\ UNCHANGED <<row, open, shown, poll, native, token, mint, tokenError, recovered>>

(* hls.js reports the status of the answer; Safari only that the network or  *)
(* the source failed (codes 2 and 4).                                      *)
KindOf(answer) == IF native \/ answer = 401 THEN "auth" ELSE "other"

EngineLoads ==
  /\ engine \in Loading /\ Answer(engine) = 200
  /\ engine' = CASE engine = "master"  -> "variant"
                 [] engine = "variant" -> "key"
                 [] engine = "key"     -> "playing"
  /\ UNCHANGED <<row, open, shown, poll, native, token, mint, tokenError, error, recovered>>

EngineRefused ==
  /\ engine \in Loading /\ Answer(engine) # 200
  /\ Fatal(KindOf(Answer(engine)))

(* Another rung's playlist is refused, and no other one will do instead. *)
SwitchRefused ==
  /\ engine = "playing" /\ Answer("variant") # 200
  /\ Fatal(KindOf(Answer("variant")))

(* API, CDN or network, after the player's own retries. *)
NetworkFails ==
  /\ engine \in Loading \cup {"playing"}
  /\ Fatal(KindOf(503))

(* hls.js is given one recoverMediaError per instance; Safari's code 3. *)
MediaFails ==
  /\ engine = "playing"
  /\ IF native \/ recovered THEN Fatal("other")
     ELSE /\ recovered' = TRUE
          /\ UNCHANGED <<row, open, shown, poll, native, token, mint, tokenError, engine, error>>

FaultyRetryReloads ==
  /\ error # "none"
  /\ IF native THEN engine' = "master" /\ UNCHANGED <<error, recovered>> ELSE StartEngine
  /\ UNCHANGED <<row, open, shown, poll, native, token, mint, tokenError>>

(* The overlay's button: onKeyAuthRetry; else hlsRetry, whose nonce runs the *)
(* effect again, or load() on the element, which runs no effect.            *)
ClickRetry ==
  /\ error # "none"
  /\ CASE error = "auth"            -> RequestToken /\ UNCHANGED <<engine, error, recovered>>
       [] error = "other" /\ ~native -> StartEngine /\ UNCHANGED <<mint, tokenError>>
       [] error = "other" /\ native  -> engine' = "master" /\ UNCHANGED <<error, recovered, mint, tokenError>>
  /\ UNCHANGED <<row, open, shown, poll, native, token>>
-----------------------------------------------------------------------------
Init ==
  /\ row \in {"moving", "ready", "failed"} /\ native \in BOOLEAN
  /\ open = FALSE /\ shown = "none" /\ poll = "idle"
  /\ token = None /\ mint = None /\ tokenError = FALSE
  /\ engine = "none" /\ error = "none" /\ recovered = FALSE

PageStep   == Open \/ Close \/ PollSend \/ PollRead \/ PollAnswer \/ PollFails
TokenStep  == MintServes \/ MintAnswer \/ MintFails \/ ClickMint \/ Tick
EngineStep ==
  \/ EngineLoads \/ EngineRefused \/ SwitchRefused \/ NetworkFails \/ MediaFails
  \/ ClickRetry

Next == RowMoves \/ PageStep \/ TokenStep \/ EngineStep

Spec == Init /\ [][Next]_vars

(* A request is answered, or fails; the page's timers fire, time passes.    *)
RequestFairness ==
  /\ WF_vars(PollSend) /\ WF_vars(PollRead \/ PollFails) /\ WF_vars(PollAnswer \/ PollFails)
  /\ WF_vars(MintServes \/ MintFails) /\ WF_vars(MintAnswer \/ MintFails)
  /\ WF_vars(engine \in Loading /\ (EngineLoads \/ EngineRefused \/ NetworkFails))
  /\ WF_vars(Tick)

(* A viewer who is shown a button and nothing else clicks it in the end.    *)
ViewerFairness ==
  /\ WF_vars(ClickMint)
  /\ WF_vars(mint = None /\ engine = "stopped" /\ ClickRetry)

FairSpec == Spec /\ RequestFairness /\ ViewerFairness
-----------------------------------------------------------------------------
(* Properties.                                                             *)

(* With the types: no player, and no callback of a mint, without the page;   *)
(* no engine without a token; and the overlay of hls.js covers only a player *)
(* that has stopped.                                                       *)
TypeOK ==
  /\ row \in Statuses /\ shown \in Statuses \cup {"none"}
  /\ poll \in Statuses \cup {"idle", "sent"}
  /\ token \in Ages \cup {None} /\ mint \in Ages \cup {None, Sent}
  /\ engine \in Loading \cup {"none", "playing", "stopped"}
  /\ error \in {"none", "auth", "other"}
  /\ {open, native, tokenError, recovered} \subseteq BOOLEAN
  /\ engine # "none" \/ mint # None \/ tokenError => open /\ shown = "ready"
  /\ engine = "none" <=> token = None
  /\ error # "none" => IF native THEN engine # "none" ELSE engine = "stopped"

(* "so the parent can re-mint": a player that stopped because its token was  *)
(* refused starts again only with a token minted since, never with the one  *)
(* in its url, whatever else the viewer clicks or the page fetches.         *)
AuthRetryRenews ==
  [][engine = "stopped" /\ error = "auth" /\ engine' \notin {"stopped", "none"} =>
       mint \in Ages /\ token' = mint /\ token' # token]_vars

(* "Polls every 3s while non-terminal so the detail page tracks transcode    *)
(* progress and flips to the player once status is ready": a page that shows *)
(* progress learns how it ended, however many polls fail before one does not.*)
PageFollowsRow ==
  <>[][~PollFails]_vars =>
    ((open /\ shown = "moving" /\ row # "moving") ~> (shown # "moving" \/ ~open))

(* What a viewer, with patience, can do nothing about: failures, leaving, a  *)
(* change of the row, and a token that expires before it has got anywhere.  *)
ExpiresEarly == Tick /\ token' = TTL /\ (mint # None \/ engine \in Loading)
Trouble ==
  \/ PollFails \/ MintFails \/ NetworkFails \/ MediaFails \/ SwitchRefused
  \/ RowMoves \/ Close \/ ExpiresEarly

(* Once the trouble is over, a ready video plays: through expired tokens,    *)
(* refused playlists and keys, failed mints and media errors before, in both *)
(* kinds of player, by clicking the buttons that the page shows.  (In       *)
(* Safari's own, ClickRetry leaves the error, so the overlay stays on top.)  *)
ReadyGetsPlayed ==
  <>[][~Trouble]_vars =>
    ((open /\ row = "ready" /\ shown \in {"moving", "ready"}) ~>
        (engine = "playing" \/ ~open \/ row # "ready" \/ shown \in {"failed", "cancelled"}))
=============================================================================
