# Verification of the video transcoding pipeline

TLA+ models of the Euron video transcoding pipeline, checked with TLC and, for
the safety of most of it, proved with TLAPS. Paths are relative to the repository.

## The system

A tenant's browser uploads a source video to S3 and tells the API that it is
there. The row of the video in Postgres is at the same time its status and its
place in a queue: EC2 Spot workers claim rows with `FOR UPDATE SKIP LOCKED`,
encode, package and upload an encrypted HLS tree to R2, and flip the row to
`ready`. In the same transaction they insert the background jobs (captions, MP4
download), which workers of a second pool claim from a second table. A Lambda
fired every minute reaps rows whose worker went silent, repairs what the reaper
left inconsistent, and launches workers. Workers terminate themselves.

There is no message broker and no lock service. Every guarantee rests on the
`WHERE` clauses of single SQL statements, on heartbeats, and on the order in
which a worker does things between two statements.

### Components, their state, and how they meet

| Component | State it keeps | Operations | Meets the others through |
|---|---|---|---|
| video queue (`src/db/queue.ts`, `queue-sql.ts`, `videos.repository.ts`) | `videos` rows: status, locked_by, locked_at, heartbeat_at, attempts | claim, heartbeat, release, fail-or-requeue, ready-and-enqueue, reap, mark-uploaded, retry, cancel | one guarded `UPDATE` each |
| worker main loop (`src/worker/index.ts`, `heartbeat.ts`, `pipeline.ts`) | `currentClaim`, `shuttingDown`, the abort signal of a run | poll, run a video or job, heartbeat timer, Spot watcher and SIGTERM, idle self-termination, artifact sweep | the two queues, R2, EC2 |
| background jobs (`queue.ts`, `worker/jobs/*.ts`) | `video_jobs` rows; `captions_status`, `mp4_status` on the video | claim, heartbeat, release, done, fail-or-requeue, artifact statements, reap, reconcile, cancel | seeded by the ready flip; cancelled with the video |
| content keys and published tree (`content-key.service.ts`, `video-keys.repository.ts`, `worker/r2.ts`) | `video_keys` rows, objects in R2 | upsert of a key, pooled PUTs of the tree | written by any run of the video, read by the player |
| orchestrator (`src/orchestrator/`) | none between ticks; EC2 tags are its memory | reap, reconcile, count, describe, plan, CreateFleet ladder, tag | both queues, EC2 |
| upload API (`videos.service.ts`, `s3-upload.service.ts`) | `videos` rows in `uploading`, objects in S3 | createUpload, completeUpload, cap | browser, video queue |
| browser upload queue (`useUploadManager.ts`) | items, file blobs, XHRs | add, pump, cancel, clear | upload API, S3 |
| ladder and probe (`src/encoding/ladder.ts`, `probe.ts`) | none; recomputed by PRIMARY, CAPTIONS and DOWNLOAD | selectLadder, capToSource, probe | the three must agree |
| cancelled-artifact sweep (`worker/index.ts`, `r2.ts`) | a keyset cursor | page, list and delete a prefix | `videos` rows, R2 |
| encoding and packaging (`src/encoding/`) | files on the worker's disk | ffmpeg command lines | I/O only |
| seek-bar previews (`encoding/thumbnails.ts`, `useVttThumbnails.ts`, `ThumbnailPreview.tsx`) | the cues, the sheet whose size is known, the tile shown | tile, write and parse the cues, look one up, load a sheet | the worker writes what the player cuts up |
| playback API (`hls.controller.ts`, `key.controller.ts`, `playback-token.service.ts`) | none: a token is signed, not stored | mint, check token and status, serve playlist or key | reads the `videos` row; the token rides in every URL |
| detail page and players (`VideoDetailPage.tsx`, `useHlsPlayer.ts`, `useNativeHls.ts`) | the cached video, the token, the engine and its error | poll, mint, load, recover, retry | playback API |
| player controls (`VideoPlayer.tsx`, `usePlaybackState.ts`, `SeekBar.tsx`, `useControlsAutoHide.ts`, `useKeyboardShortcuts.ts`) | a mirror of the element's state, the chosen speed, timers, a drag | play, tap, seek, choose a speed, hide | the element, which a restart of the player empties |
| settings menu and captions (`SettingsMenu.tsx`, `ControlBar.tsx`, `usePlayerTracks.ts`, `useNativeHls.ts`) | which view is open, the tracks last rendered | open, walk, choose a quality or subtitles, toggle | reads hls.js or the element when it is rendered; a retry makes another instance |
| dashboard (`VideosPage.tsx`, `useMutations.ts`, `useVideos.ts`, `VideoActions.tsx`, `VideoCard.tsx`) | the cached list and pages, a snapshot per mutation, filter and page number, an editor | optimistic retry, cancel and rename: guess, restore on error, invalidate when settled; download; filter and turn pages | the API; its cache is shared with the detail page |
| figures of the output bucket (`videos.service.ts`, `r2-read.service.ts`, `useVideosStorage.ts`) | a cached answer per set of ids | list the prefixes of the ready videos, a few at a time | R2, which the captions job still publishes into |
| connection settings (`settingsStore.ts`, `SettingsPage.tsx`, `ConnectionStatus.tsx`, `useHealth.ts`) | localStorage, the tab's copy of it, the health query | save, test, poll | every request takes its base and tenant from here |
| API server shell (`src/index.ts`, `app.ts`, `db/connection.ts`) | the processes of the cluster, their pools | fork, connect, listen, drain, exit | carries every API call |
| configuration and deployment (`src/config/index.ts`, `push-ssm.sh`, `ami-bootstrap-prod.sh`) | the operator's file, the parameter store, the `.env` of a worker | edit, push, boot | decides which key wraps a content key |
| player package (`src/player/`) | the player of a page, its overlay and engine | load, destroy, replace | the playback API, from another site |
| legacy players, CMAF/DASH packager, generated database types | | | not modelled |

### What is hard here

* **Ownership without locks.** A claim can end under its worker: cancelled by
  the API, reaped after ten minutes of silence or six hours, handed back by a
  Spot notice. The worker learns of it from its next heartbeat, at best.
* **Accounting across paths.** `attempts` is charged by the claim, refunded by
  a release, reset by a retry, compared by failure and reap. A claim whose
  answer is lost is charged as well.
* **Statements that commit and throw.** Every `await` of a statement can fail
  after its commit, and the catch block then acts on a row it no longer owns.
* **Stores outside the transaction.** Keys, R2 objects and artifact columns are
  not guarded by the claim.
* **Counting a moving fleet.** The Lambda counts rows, then instances, then
  launches; instances are booting, idle and about to terminate, or not yet
  tagged, and invocations overlap.
* **A cache in the middle.** The dashboard guesses results into a cache that polls,
  page visits and other mutations write to as well, in any order of answers.
* **An element with a life of its own.** A restart of the player resets the video
  element, and the controls learn of it only by the events it happens to send.
* **Settings of different days.** A worker lives by what was in the parameter store
  when it booted, an API by the operator's file when it was started, a tab by what
  `localStorage` held when it was opened.
* **Liveness through failure.** A queued video must settle although encoders
  hang, databases partition and instances vanish, and nothing but a cron and
  the workers' timers drives it.

### What makes each component correct

* Video queue: a row has at most one rightful owner; a cancelled or ready row
  never moves; the attempt budget is never overdrawn or lost; background jobs
  are inserted exactly once, with `ready`; every claim ends and every queued
  video settles.
* Background jobs: the job table and the artifact columns tell the same story;
  the dashboard does not show "preparing" for ever; work on a retired video
  stops.
* Published tree: a ready video has all its segments, and its key decrypts them.
* Orchestrator: the fleet stays within `MAX_WORKERS`; the queue is served.
* Uploads: the browser's window is full and never over, blobs are let go, only
  a source that is in S3 is enqueued, what was cancelled stays cancelled.
* Playback: the page learns how the transcode ended; a token that expires in the
  middle of a playback is renewed, never tried again; a ready video gets played.
* Ladder: nothing is upscaled or raised, and the three users of the ladder arrive
  at the same one. Previews: the picture is that of the time under the pointer.
* Player controls: they tell the truth about the element and hide when unused.
* API server shell: what was accepted is answered before a drained worker leaves,
  a shutdown ends, a crashed worker is replaced.
* Artifact sweep: a sweep comes to an end, and what a cancelled video has in R2,
  the last PUTs of its aborted run included, does not survive its window.
* Dashboard: whatever the order in which mutations, failures, polls and visits are
  answered, no wrong guess stays on a page that has come to rest; a page shows its
  own filter and tenant; who clicked is told of a refusal, and of nothing else.
* Figures: a card counts every object of its video.
* Settings menu: it says what the player does, through every retry.
* Connection: the dot speaks of the API that the settings name.
* Deployment: whoever starts an API can unwrap every key.
* Player package: a player that has been replaced leaves nothing playing.

## The modules

| Module | Models | State and actions |
|---|---|---|
| `VideoLifecycle` | what the queue promises: phases, attempts left, follow-up work queued once | abstract specification, no workers, no time |
| `VideoQueue` | `videos` rows, primary workers, reaper, launch plan, API calls | one SQL statement or transaction per step; `pc` is the position in the worker's main loop, `held` the argument of `runVideo`, `releasing` the claim `releaseAndExit` is handing back; `silent` and `overrun` are the two ages `REAP_SQL` asks for |
| `PublishedTree` | `video_keys` and the segments in R2 | extends `VideoQueue`: a queue step together with its meaning for the run's upload, and the store steps |
| `JobQueue` | `video_jobs`, the artifact columns, the jobs pool, the tick's three job statements | as `VideoQueue`; the statements on artifact columns are unguarded, as in the code |
| `Orchestrator` | one tick as its sequence of calls, several ticks at once, EC2 instances | rows and instances are only counted |
| `Uploads` | browser queue, createUpload, completeUpload, S3, the row, the visits of the page | the awaits of both API calls are separate steps; a page that is left goes on with its own window (`visit`) |
| `Playback` | the page of a video, its token, its player with either engine, the API's checks of manifest and key requests | each request is sent, served and answered in separate steps; a token is its age, in seconds up to `TTL` |
| `PlayerControls` | the controls around the player of `Playback` | extends `Playback`: a step of the player together with what it does to the element, and the steps of the viewer; `event` is a queued event that the mirror has not heard |
| `Dashboard` | the list and the pages, their polling, and retry, cancel and rename | a cell is the status of a video in the answer of a query; `request` is how far a mutation has got, `snapshot` the cache it would restore, `invalid` React Query's flag; a retry reads the row and updates it in two steps |
| `Listing` | the list by filter, page and tenant | the statements of an answer are separate steps; `cache` has no tenant in its key, as in the code |
| `CardActions` | what a click on a card, the editor of a title or a page is answered with | `click` is a mutation with what its observer still hears |
| `PlayerMenu` | the settings menu and the CC button | `due` are the components to be rendered again, `heard` the instance their listeners are on, `shown` what they rendered |
| `Footprint` | the storage figures of the cards | one request of the listing per step; `POOL` of them at a time |
| `Connection` | the settings store, the settings page, the health query and its dot | one tab in full, the others as writers of `localStorage` |
| `Deployment` | the settings that reach a content key, from the operator's file to a worker | a setting is absent, empty, the default or a value of its own; `push-ssm.sh` is one step per key |
| `EmbeddedPlayer` | the player package and a page that replaces one player by another | every await of `load` and `destroy` is a step boundary |
| `ApiServer` | the cluster, its shutdown, the pool, and the requests in them | one process per slot, one step per exit, signal, timer or statement |
| `SinglePool` | one pool of workers that drains both queues | extends `VideoQueue`, with an instance of `JobQueue`: a step of the one with the other unchanged, or a step of both where the code does both (the ready flip, an interruption, a crash, the plan) |
| `ArtifactSweep` | the cancelled rows with their `updated_at`, what runs put into R2, sweeps | a page of rows, a page of a listing, a deletion are a step each; a clock in microseconds, and `JsDate` for what has been through a JavaScript date |
| `Ladder` | probe, selectLadder, capToSource and their three users | pure functions and three actions |
| `Storyboard` | the sprite sheets, the cues and the preview over the seek bar | extends `Ladder`: ffmpeg's grid and the cues' grid are computed apart, as in the code; times in tenths of a second, the cues of the duration that probe rounds to seconds |
| `Parts` | `Listing`, `Dashboard`, `Footprint`, `EmbeddedPlayer`, `PlayerMenu`, `Deployment`, `CardActions`, `Connection` and `ApiServer` side by side | they share no state: `part` names from the initial state on the one a behaviour is of, and the variables of the others are `"off"`; each has parameters of its own |
| `VideoQueueProofs`, `JobQueueProofs`, `SinglePoolProofs`, `PublishedTreeProofs`, `OrchestratorProofs`, `UploadsProofs`, `PlayerProofs`, `PartsProofs` | | the theorems about the module each is named for; `PlayerProofs` has those about `Playback`, `PlayerControls`, `Ladder` and `Storyboard`, and `PartsProofs` the one about `ArtifactSweep` |
| `MC*` | | symmetry and constant values for TLC; `MCProcesses` composes `ArtifactSweep` and `ApiServer` as `Parts` does, with their fairness |

Definitions named `Faulty...` are the code with one plausible mistake in it. No
action uses them. Each shows that a property fails when the code does.

How the code appears in the queue modules:

* `FOR UPDATE SKIP LOCKED` claims and guarded updates are atomic, as Postgres
  makes them under READ COMMITTED for a single statement; the transactions of
  `markReadyAndEnqueue` and `failOrRequeueJob` are one step each.
* The answer of a claim is a separate step (`StartRun`), because
  `currentClaim` is assigned only then. The answer may be lost
  (`ClaimAnswerLost`); the statement at the end of a run may throw after its
  commit (`FinishThrows`).
* A heartbeat is one step: it updates the row if it is owned, and sets the
  abort signal if it is not. A heartbeat that throws is no step at all, which
  is how the code treats it. `HeartbeatExpires` needs no dead worker, since ten
  minutes of failing heartbeats look the same.
* The pipeline is reduced to its three stages, with the boundary check between
  two of them (`Boundary`), the abort that kills the child (`AbortKills`), and a
  throw at any time (`RunThrows`).
* `Interrupt` and `ReleaseAndExit` are the two halves of `releaseAndExit`, with
  the run going on between them.

## The runs

The longest runs take three minutes and more with two TLC workers.

| Run | Instance | States | Checks |
|---|---|---|---|
| `VQ_safety` | 2 videos, 2 workers, 2 attempts | 3,491,245 | `ImplementsLifecycle`, `TerminalRowsStay`, `ClaimEndsByOwnerReaperOrCancel`, `InterruptionReturnsTheRun` |
| `JQ_safety` | the two jobs of a video, 2 workers, 2 attempts | 3,469,204 | `DoneMeansPublished`, `JobEndsByOwnerOrReaper` |
| `ALL_live` | 1 video and its download, 1 worker, 2 attempts each, divisor 2 | 14,385 | `RightClaimReturned`, `LostWorkStops`, `ClaimsEnd`, `PoolSettles` |
| `PT_safety` | 1 video, 2 workers, 2 segments, 3 keys, 1 attempt | 1,317,397 | `ReadyTreeIsComplete`, `UnsharedTreeDecrypts` |
| `OR_fleet` | 2 rows, 3 instances, 2 overlapping ticks, cap 2, 2 instance types | 530,988 | `FleetWithinMax`, `QueueIsServed` |
| `UP_flow` | 2 files, window 1, cap 1, three visits of the page | 48,893 | `WindowIsFull`, `FilesHeldWhileNeeded`, `CancelledRowStays`, `UploadsSettle` |
| `UP_window` | 3 files, window 2, cap 2, two visits | | `UploadsWithinWindow`: **violated** |
| `PC_page` | one page, both engines, `TTL` 2, 2 speeds | 86,396 | `ControlsTrue`, `ControlsHide`, `AuthRetryRenews`, `PageFollowsRow`, `ReadyGetsPlayed` |
| `FE_parts` | nine parts, see below | 2,598,152 | `LabelMatches` and `OwnTenant` of `Listing`, `QuietPageIsTrue` of `Dashboard`, `ClicksAnswered` of `CardActions`, `MenuTrue` of `PlayerMenu`, `FigureIsWhole` of `Footprint`, `DotIsTrue` of `Connection`, `KeysDeliverable` of `Deployment`, `NothingElseLeft` of `EmbeddedPlayer`, `DrainAnswers` of `ApiServer` |
| `PR_ends` | the sweep: 3 rows, of which one had a run, pages of 2 rows and of 1 key, the instants 1, 3, 4 and 5; the cluster: 2 workers, 2 requests, 2 attempts to connect, a pool of 1 | 332,484 | `SweepEnds`, `NothingLeaks` of `ArtifactSweep`; `ShutdownEnds`, `StrengthRestored` of `ApiServer` |
| `LD_grid` | 212500 sources around every threshold, 6 durations | 2,205,420 | `RungsFitSource`, `ArtifactsAgree`, `PreviewMatches` |
| `LD_static` | the same | | `MasterMatches`: **violated** |

Why the bounds are enough for the interesting cases:

* Two workers are the fewest with a zombie and a rightful owner of one row. Two
  videos are the fewest with an order in the queue and with a worker that runs
  one video while its claim of another is unresolved. Two attempts are the
  fewest with a claimable row that has been charged.
* `PT_safety` has one attempt, but retry, release and the lost answer of a claim
  give a video any number of runs; three keys are one more than the runs and
  late PUTs that matter at a time, and a run takes a key that is in use nowhere.
* `OR_fleet` needs two ticks (overlap), a cap below the number of slots (so that
  the cap can be exceeded), and two instance types (a ladder with a shortfall).
* `UP_flow` needs one file more than the window and than the cap, and three visits,
  so that two pages that were left go on beside the one that is open. That the
  window of a page is full and never over is proved for windows of every size
  (`WindowKept`); `UP_window` has a window of two, as an example with room to spare.
* `ALL_live` has one worker, so that nobody else comes to help it, and `Divisor` 2, so
  that a need rounded the wrong way is none. A video and a job of it are the fewest
  with two queues that wait for each other.
* `PC_page` needs a token just made, one that is older and still good, and one
  that has expired, hence `TTL` 2. Only "the same second" and "expired" are ever
  asked of an age. Two speeds are the fewest with one that is not the element's own.
* `FE_parts` has two videos in `Dashboard`, of which one has a page of its own, and two
  mutations: of either video, or both of the one with the page; a
  row moves once more without them. (Other pairs of kinds, and any number of
  everything, are in `QuietPagesTrue`.) `Listing` has three videos and pages of two, so that the second page of a filter may turn out empty, and a tenant without videos
  beside the one that has them all. `Footprint` has listings of two pages and more, and a
  caption whose key lies before the place the listing has come to. `EmbeddedPlayer`
  needs three clicks: the third may come while the second still destroys the
  first's player. `PlayerMenu` has two levels, to lock one and play the other, and
  two retries. `Deployment` has one worker that boots again and again, and
  two edits of the operator's file. `CardActions` has two clicks, so that the second
  may take the observer of the first, and two editors. `Connection` has two APIs and
  three saves: there, back, and by another tab. `ApiServer` is as in `PR_ends`.
* `PR_ends`: the cluster needs a worker that is stopped beside one that goes on, a
  request that waits for the connection of another, and an attempt after the first. The
  sweep needs more rows than a page, more keys than a page of a listing, and
  more than one microsecond in a millisecond. A row settles for one microsecond and
  leaves the window after four. With a millisecond of two, rows of 1, 3 and 4 fill a
  page that ends at 3, within a millisecond that is not theirs alone: the cursor that
  comes back is of 2, before the row it was taken from, which the next page reads
  again. One row has something to lose; the others are there to move the cursor.
  That nothing happens at 2 only drops instants that behave like their neighbours.
* `LD_grid` takes the sizes below, on and between the rungs' and every bitrate
  whose cap is within about ten kbps of a rate of the tables. Between two such
  windows the ladder is one rounded linear function of the bitrate. The durations lie on
  and around a tile and a sheet, and where the rounding to seconds goes down (500.4 s,
  whose cues end before the video does) and up (500.6 s).

The runs set `CHECK_DEADLOCK FALSE`: a queue whose videos are all cancelled, a
page whose files are all uploaded, and a fleet that has shut down may stop.

The type invariants of `VideoQueue`, `JobQueue`, `PublishedTree`, `Orchestrator`, `Uploads`
and `Playback` are proved, so that no run spends its time on them. Those of the other
modules are stated for the reader; they hold in the instances of their runs.

### History variables

Several promises hold only with an exception that the code has. A history variable
records exactly when the exception applies, so that the rest can be checked:

* `overlapped` (`PublishedTree`): a run of the video was started while an earlier
  one could still write to R2.
* `past` (`Orchestrator`): `"unseen"` once a plan was made without counting an
  instance that exists; before that `"misled"` once a plan was made during another
  tick's ladder, or a fleet was granted and the answer lost. `FleetWithinMax` has a
  weaker bound for `"misled"`, and none for `"unseen"`.
* `excused` (`Dashboard`): the last fetch failed, another client moved a row that
  the page takes for settled, an answer older than a mutation came in that nothing
  gave up for a newer one, or the failed mutation of another video restored an older
  status.
* `visit` (`Listing`): what the open page has of its own: an answer of the last two
  seconds or a request under way that it makes do with (`"reuses"`), a request that
  it owes (`"due"`), which was `"answered"` or `"failed"`. `OwnTenant` holds from the
  first answer on, and says nothing of what is shown before it.
* `overlap` (`EmbeddedPlayer`): what `load()` awaited when the player was first destroyed,
  or that the player was replaced by a click that awaited the end of an older one. It
  excuses no player as a whole: `NothingElseLeft` says of each field in which of
  these cases it may survive.
* `rotated` (`Deployment`): the secret or the KMS key was replaced by another. (Keys that
  a worker wrapped under an empty secret, because that was absent from the store or
  could not be read, are excluded by `KeysDeliverable` itself: nothing unwraps them.)
* `lost` (`PlayerControls`): the browser took a drag of the seek bar away, and
  nobody told the controls.

`said` and `late` (`Connection`) and `cutOff` (`CardActions`) excuse nothing: they
remember what the properties compare.

## Fairness

Safety runs assume none. The liveness properties name their assumptions as
hypotheses, so that each is seen with exactly what it needs:

* `TimerFairness`: a worker's heartbeat timer fires and reaches the database again
  after a partition, and SIGKILL ends a child. It is all that `LostWorkStops` assumes.
  No encoder, upload or whisper run is ever assumed to end.
* `CronFairness`: six hours pass, and the EventBridge cron fires every minute. It is
  all that `ClaimsEnd` assumes.
* `LoopFairnessOfBoth`: a worker that is up goes round its loop, its statements
  answer or throw, an idle one terminates, and EC2 has capacity in some later tick
  whose count of instances is right.
* `PoolSettles` also needs that setbacks do not go on for ever: refunds by
  interruption, resets by retry, and workers that die before they claim. Each of
  them costs no attempt, so the code gives no bound. Crashes and hangs in mid-run may
  go on for ever.
* `Orchestrator`: ticks keep firing and their calls answer; an instance type that
  is asked for again and again is granted at some time (strong fairness, since a
  ladder asks it once per tick); no run need end. `QueueIsServed` excludes
  reclaims of instances that never got to poll and ticks that die, from some
  point on, and a fleet whose every slot is busy for ever.
* `Uploads`: the API answers or throws, a transfer ends, if only by an error.
* `ArtifactSweep`: time passes, workers start sweeps and get on with them, and the
  run of a cancelled video stops, if only because its heartbeat aborts it.
  `NothingLeaks` excludes sweeps that fail or are stopped for ever; both
  properties exclude a window that is `Crowded` (see below).
* `Playback`: a request is answered or fails, time passes, and a viewer who is
  shown a button and nothing else clicks it in the end. `PageFollowsRow` excludes
  polls that fail for ever. `ReadyGetsPlayed`
  excludes, from some point on, what its `Trouble` names: failures, leaving the
  page, a change of the row, and a token that expires while the player has not
  got past the playlists and the key with it. Nothing else may keep the video
  from playing, whatever happened before that point.
* `PlayerControls` (`ControlsFairness`): a timer fires and a queued event is
  dispatched. `ControlsHide` supposes that the video plays on and that the pointer
  rests elsewhere.
* `ApiServer`: timers fire, processes go on, a statement answers or throws.
  `StrengthRestored` supposes that, from some point on, the database is reachable and
  nobody kills or stops anything.
* The parts of `FE_parts`: none; their properties speak of a page, a figure or a
  menu that has come to rest.

## What the checks found

Two runs end in a counterexample against a line of the repository:

* `LD_static`: the CAPTIONS job computes the ladder of a near-static source with
  its bitrate, PRIMARY with 0. The rebuilt master announces a few kbps over
  segments encoded at the full ladder.
* `UP_window`: "Max concurrent active uploads" (`src/frontend/src/lib/constants.ts:19`)
  holds for one visit of the page. What was started goes on when the page is left, and
  the next visit has a window of its own.

Smaller differences between code and comments, met while modelling, that no run
of their own shows:

* A worker that was reaped while its heartbeats failed overwrites the content key or
  segments of the run that owns the video, which gets ready with segments that its
  key does not decrypt. `UnsharedTreeDecrypts` says when that cannot happen.
* "hand the current claim back WITHOUT a penalty, then exit fast"
  (`src/src/worker/index.ts:87`) holds unless the run throws before the release has
  committed: its catch block then fails the claim, with the penalty.
  `InterruptionReturnsTheRun` counts the attempts and names that case. A Spot notice
  between the commit of a claim and the assignment of `currentClaim` exits without
  releasing it: the row waits ten minutes for the reaper and has lost an attempt (`ClaimsEnd`).
* The job of a retired video that is aborted is requeued and cancelled,
  as `src/src/db/queue-sql.ts:84` says, except on its
  last attempt: it then ends `failed`, with its artifact.
* `markCaptionsReady` and `markMp4Ready` are not scoped by the claim, against
  "every write is scoped" (`src/src/db/queue.ts:150`). `DoneMeansPublished` shows
  that what they write is true.
* `capToSource` "never RAISES a rung" (`src/src/encoding/ladder.ts:55`), but a cap
  of 1590 to 1599 kbps raises the maxrate of the 540 rung above the table's 1700
  (to 1711 at most), and a cap of 1400 or 1401 announces the 720 rung at 1498 or
  1499 below the 480 rung's 1500. `RungsFitSource` bounds the first.
* An uncounted busy worker can inflate a launch beside a counted idle one, against
  the comment at `src/src/orchestrator/index.ts:61`; `past` is then `"unseen"`.
* "capped by MAX_WORKERS" (`src/src/orchestrator/index.ts:63`) does not hold when two
  ticks plan on the same count, nor when `createFleet` swallows an exception of a call
  that EC2 had granted (`src/src/orchestrator/ec2.ts:129`): the next rung asks for the
  whole shortfall again. `FleetWithinMax` bounds both.
* `completeUpload` answers `uploaded` even if a cancel came first; the row itself
  is right (`CancelledRowStays`).
* `createUpload` says that it aligns the row's id with the key's
  (`src/src/services/videos.service.ts:157`), but `create` makes another. The two
  never meet.
* On an iPhone, Retry after a decoding error reloads the element
  (`src/frontend/src/features/player/VideoPlayer.tsx:71`), but `useNativeHls` clears
  its error only for another URL. The overlay stays over the video that plays
  again.
* The final sweep is said to catch the artifacts of the video the worker has just
  aborted (`src/src/worker/index.ts:53`), but the idle grace is two minutes and a row
  is swept from fifteen minutes on: another worker sweeps it.
* The cursor "lets the caller DRAIN the whole window" (`src/src/db/queue.ts:319`).
  It keeps milliseconds of a time in microseconds. If a page's worth of rows share
  a millisecond and do not all begin it, as a statement over many rows can bring
  about, the sweep falls back behind the page it has read and reads it again until
  its time is over (`Crowded`).
* An answer that is older than the row, and that no mutation gives up because the
  page was left or had no data yet, can leave a terminal status on the page, which
  then no longer polls (`excused`).
* A mutation that fails restores its snapshot of every cached video, but
  invalidates its own only
  (`src/frontend/src/hooks/useMutations.ts:24`): of another video it may
  restore a guess that was rolled back (`excused`).
* The retry of the API ignores whether its guarded `UPDATE` still found the row
  failed (`src/src/services/videos.service.ts:271`), and answers with success.
* Other ways in which the player restarts have no new instance of hls.js: a recovery
  of its media error, a new token or a reload in the phone's own player. The chosen
  speed is lost, and the menu goes on showing it (`ControlsTrue` excludes them).
* A pointercancel, or an error during a drag, leaves `scrubbing` set, and the controls
  stay until the next drag ends (`lost`).
* The big play button lies in the surface that toggles on a tap: a double click on a
  paused video plays, and the surface's timer pauses it again
  (`src/frontend/src/features/player/VideoPlayer.tsx:161`).
* The cues are counted from a duration rounded to seconds (`src/src/encoding/probe.ts:142`),
  the frames from the exact one. A video of 500.4 s may have a frame that no cue names,
  where the lookup falls back on the last cue; one of 500.6 s, a cue whose sheet is not there.
* No key of the cache names the tenant: after the settings are saved, the list shows
  the rows of the tenant before until a request of its own is answered, and for as
  long as that fails (`OwnTenant`).
* `destroy()` during `load()` may leave a stream, an overlay or an interval on a player
  that nobody destroys again, and two clicks that await the end of the same player
  leave one of their own (`NothingElseLeft` says which of them, and when).
* "survives RDS failover" (`src/src/db/connection.ts:72`) holds for a few attempts. A worker whose
  attempts run out neither listens nor exits, and nobody replaces it (`StrengthRestored`).
* During a shutdown the master replaces each worker it kills by one that listens
  (`ShutdownEnds` shows that its timer ends the series).
* Rows of uploads that never complete stay `uploading` and hold the tenant's cap. The cap
  itself is a count followed by an insert, which a retry does not look at: two creates
  may both pass it.
* "unset values fall back to safe dev defaults" (`src/src/config/index.ts:22`): a worker's
  bootstrap writes an absent parameter as an empty value, on which `??` does not
  fall back. Line 168 of the same file knows of it. A worker whose secret
  is empty wraps keys that the API never unwraps; `KeysDeliverable` shows that no
  other parameter that is missed costs a key.
* `push-ssm.sh` ends at a key that is absent from the file, where it says that it skips
  it, and a value that was emptied in the file stays in the store.
* `WORKER_INSTANCE_TYPES` falls back on a single string that is not split
  (`src/src/config/index.ts:101`), which lists five types by default. That "a deployment
  without a jobs pool keeps working unchanged" (line 133 of the same file) needs a bootstrap
  without the line that sets `WORKER_MODE=primary` (`src/infra/ami-bootstrap-prod.sh:68`).
* The figures of a ready video are cached as "immutable once ready", but the captions
  job publishes later. A card counts at least what PRIMARY published
  (`FigureIsWhole`).
* The player package says "No UA sniffing" (`src/player/src/euron-player.ts:70`) of its choice of an
  engine, and tests the user agent in
  `canPlayNativeHls`.
* On an iPhone the settings menu says that subtitles are off whatever the element shows
  (`MenuTrue` leaves it out).
* The settings are said to be read "at call time", so that one "always sees the latest
  values without a reload" (`src/frontend/src/lib/settingsStore.ts:1`). They are read
  once, when the module is loaded: what another tab saves is not seen, and the next
  save of this one overwrites it.
* The dot may say "Not configured" of configured settings while the browser is offline
  (`DotIsTrue` excludes it).
* A refused rename is not told after Escape or a second Enter, and two renames of one
  editor may land in either order. The text of a refused cancel names the status that
  was read before the `UPDATE`.

## What is proved

Each theorem holds for every value of the constants, from the assumptions that
the component's module states on them and from nothing else: limits are naturals,
the nulls and the words for "none" are not ids, a list, a bucket and
the instances are finite, a page of a listing is not empty.

| Module | Theorem | States |
|---|---|---|
| `VideoQueueProofs` | `TypeCorrect` | `Spec => []TypeOK` |
| | `BudgetKept` | `Spec => []AttemptsWithinBudget` |
| | `LocksKept` | `Spec => []LocksMatchStatus` |
| | `SeededOnce` | `Spec => []JobsSeededOnceWithReady` |
| | `TerminalRows` | `Spec => TerminalRowsStay` |
| | `QueueImplementsLifecycle` | `Spec => ImplementsLifecycle` |
| | `ClaimEndsRightly` | `Spec => ClaimEndsByOwnerReaperOrCancel` |
| | `InterruptionReturns` | `Spec => InterruptionReturnsTheRun` |
| `JobQueueProofs` | `JobsTyped` | `Spec => []TypeOK` |
| | `JobBudgetKept` | `Spec => []JobsCharged` |
| | `DonePublished` | `Spec => []DoneMeansPublished` |
| | `JobEnds` | `Spec => JobEndsByOwnerOrReaper` |
| `SinglePoolProofs` | `VideosKept` | types, budget and locks of `VideoQueue`, under `PoolSpec` |
| | `JobsKept` | types and `DoneMeansPublished` of `JobQueue`, under `PoolSpec` |
| | `JobsComeWithTheFlip` | `PoolSpec => []FlipBringsJobs` |
| | `RightClaimIsReturned` | `PoolSpec => RightClaimReturned` |
| | `PoolEndsClaimsRightly` | `PoolSpec => ClaimEndsByOwnerReaperOrCancel` |
| | `PoolEndsJobsRightly` | `PoolSpec => JobEndsByOwnerOrReaper` of `JobQueue` |
| | `PoolImplementsLifecycle` | `PoolSpec => ImplementsLifecycle` |
| `PublishedTreeProofs` | `TreeTyped` | `TreeSpec => []TreeTypeOK` |
| | `TreeComplete` | `TreeSpec => []ReadyTreeIsComplete` |
| | `TreeDecrypts` | `TreeSpec => []UnsharedTreeDecrypts` |
| `OrchestratorProofs` | `FleetTyped` | `Spec => []TypeOK` |
| | `CapKept` | `Spec => []FleetWithinMax` |
| `UploadsProofs` | `UploadsTyped` | `Spec => []TypeOK` |
| | `WindowKept` | `Spec => []WindowIsFull` |
| | `FilesHeld` | `Spec => []FilesHeldWhileNeeded` |
| | `SourceFirst` | `Spec => []EnqueuedWithSource` |
| | `CancelStands` | `Spec => CancelledRowStays` |
| `PlayerProofs` | `PlayerTyped` | `Spec => []TypeOK` |
| | `RetryRenews` | `Spec => AuthRetryRenews` |
| | `ControlsMirror` | `ControlsSpec => []ControlsTrue` |
| | `RungsFit` | `StorySpec => []RungsFitSource` |
| | `JobsAgree` | `StorySpec => []ArtifactsAgree` |
| | `PreviewsMatch` | `StorySpec => []PreviewMatches` |
| `PartsProofs` | `RowsOfTenant` | `Spec => []OwnTenant` |
| | `LabelTrue` | `Spec => []LabelMatches` |
| | `QuietPagesTrue` | `Spec => []QuietPageIsTrue` |
| | `FigureWhole` | `Spec => []FigureIsWhole` |
| | `NoPlayerLeft` | `Spec => []NothingElseLeft` |
| | `MenuSaysTrue` | `Spec => []MenuTrue` |
| | `KeysUnwrap` | `Spec => []KeysDeliverable` |
| | `ClicksGetAnswers` | `Spec => []ClicksAnswered` |
| | `DotTrue` | `Spec => []DotIsTrue` |
| | `AcceptedGetAnswers` | `Spec => []DrainAnswers` |
| | `SweepSparesTheRest` | `Spec => SweepsOnlySettled` of `ArtifactSweep` |

**The queue.** The invariant is

    IInv == TypeOK /\ RunHolds /\ AttemptsWithinBudget
            /\ LocksMatchStatus /\ JobsSeededOnceWithReady

where `RunHolds` says that a worker in a run has a video in hand. No part is
inductive alone: `attempts` stays a natural number through a refund only because
a `processing` row was charged (`AttemptsWithinBudget`), and that a guarded
statement of a worker moves a row only out of `processing` needs `RunHolds`.
The argument has two halves. `StepMovesRows` shows that a step of the system,
whichever of the actions it is, does to each row one of the eight things of
`RowMove`. `StepKeepsIInv` and `TerminalRows` then speak about `RowMove` only.
The refinement maps `phase` to `status`, `left` to `MaxAttempts - attempts` and
`followUp` to the rows that were seeded. Each action maps to one lifecycle action
or a stutter; `Reap` maps to `LoseAttempt` of all stale rows at once.
How a claim ends needs one more fact, `LeaverHoldsOnlyItsRelease`: a worker whose
release is in flight runs nothing but the row it is giving back. Without it the
release of one video could end the claim of another, which the same worker took since.

**The jobs.** `DoneMeansPublished` is not inductive: it relates two tables, and the
statements on the artifact columns have no guard. `IInv` of `JobQueueProofs` adds
that a run which has come to mark its artifact has put its objects, that one
which has come to close a job it still owns finds the artifact ready (`RunPublished`), that
a job under way has been charged (`JobsCharged`), and that there is no job before
the ready flip (`NoJobBeforeReady`). A zombie may write to the artifact at any
time, but only towards what the owner wrote.

**One pool.** `SinglePoolProofs` proves nothing about either queue again. It shows
that a step of the pool is for each half a step of that queue, a stutter, or a
turn of the worker to the other half (`StepOfVideoHalf`, `StepOfJobHalf`), and
cites the lemmas of `VideoQueueProofs` and, through an instance,
`JobQueueProofs`. `PoolInv` adds what neither half can say: how the two program
counters of a worker go together (`LoopsAgree`), and that the jobs of a video and
its ready flip, which are a transaction over two tables, come together
(`FlipBringsJobs`). The two theorems on how claims end, and the refinement of
`VideoLifecycle`, carry over in the same way: for the lemmas on a step of the queue
it is enough that the half of the pool is in its own invariant.

**The published tree.** `TreeInv` adds to `IInv` what ties a run to R2: a worker
outside a run has sent nothing, an upload has a key, and what a run has sent is
written (`SentIsWritten`). Completeness of a ready tree is not
inductive without the last, because the flip to `ready` looks at the run's own
bookkeeping and never at R2. `DecryptInv`, which is about trees that one
worker at most wrote to, says that a row carries the key of the run that
is writing, if any is (`SoleWriter`), and that nobody writes to a tree that is
ready (`ReadyIsQuiet`); `KeysEndWithRuns` keeps the key of one run from the next. The steps of the queue are used only through
`IInv` and `StepMovesRuns`, which says what they do to a worker.

**The fleet.** The first bound of `FleetWithinMax` says nothing of launches that are
still to come. `OInv` therefore keeps room for them: while `past` is `"clean"`, the
instances that exist and those a running ladder may still add fit under the cap
together, and no second ladder is running (`FleetFits`). The second bound does count
them: `Owed` has a pair for each instance that a ladder may still launch if every
answer is lost. A plan that counted every instance adds no more pairs than its
invocation has room for (`PlanOwes`), and a rung takes away at least as many as it
grants, answered or not (`RungPays`). `RowsFit` bounds the rows that are
waiting, busy and orphaned together, so that no count leaves its type.

**Uploads.** `UInv` has one conjunct per file (`InStep`): which states of the
browser's item, of its API call and of the row go together. The one that matters
is that an upload past its presigned POST has a row and no create under way, so
that a late answer never finds the item in another role. `WindowIsFull` is
inductive beside `TypeOK`. Its argument is one of counting: `PumpFills` says
that a pump fills a window that is not exceeded, `SettleFills` that an item that
settles makes room for exactly the next, `SameBusy` and `OtherPage` that
nothing else moves the count of a page, open or left.

**Playback.** `TypeOK` is inductive. Its last three conjuncts relate engine, token
and error, and `RetryRenews` follows from them: a player that stopped holds a
token, so that a remount can only come from a mint. `ControlsInv` adds two facts
for the controls: a player that plays has an event queued, or the mirror is
right (`MirrorTrue`), and an element that was not recovered has the chosen speed (`SpeedKept`).

**The renditions.** Nothing in them needs induction over data. The two tables have
three rows each and descend, so that what `filter` keeps is the end of the table from the
first row that fits, or the floor (`EndOfTable`); `Ladder` says it that way.
`LadderOf` then gives every rung of every ladder, and `CapLowers` the arithmetic of
the cap, for every source and every factor. `LadderInv` says which of the two
ladders of a source (capped, and not capped because it is near-static) each job has
used. That both have the same sizes (`SameSizes`) is why the artifacts agree
although the rates may not.

**The previews.** `TileOfTime` is the lemma the rest is about: the cue that
`thumbAtTime` finds is the frame that ffmpeg took for that time, whatever the
duration, and a cue that still covers the time is the same one. `CountsOfDuration` says
that the cues, counted from the rounded duration, are at most one more than the frames
of the exact one, and `StampOfSecond` that a cue's stamp is read as it was written. `PreviewInv`
adds that a tile is only shown with the cues loaded and the pointer on the bar, and that only
sheets which ffmpeg has written are measured. That a region ends within its tile was
false of a picture more than sixteen times as wide as high: its tiles are
less than ten pixels high, and the rounding of the height to an even number adds up to
one pixel for each of up to nine rows. `PreviewMatches` says so.

**The parts.** A step of `Parts` is a step of the part that runs, or of none
(`PartMoves`); each part then has an inductive invariant of its own.

* `ListInv`, `LabelInv`: what is cached under a filter and a page was read for the tenant
  it is labelled with; a page that owes itself an answer has a request on its way for
  the tenant of now, and one that had its answer keeps an answer for that tenant,
  whatever comes or fails later (`PageOfTenant`). The label is arithmetic on the total, the cards are what LIMIT and OFFSET cut
  out. That the two agree rests on every rank of the rows that match being taken
  exactly once (`RankIs`, `WindowIs`), so that a window of ranks is an interval.
* `DashboardInv`: a query that is at rest shows of each video the row's status or one that
  is polled. Being at rest includes that no mutation of its videos is pending and that
  it is not invalid; so it holds of pages that are not open as well, and a
  visit finds it.
* `FiguresInv`: a listing under way has counted exactly what lies before its token; whole
  answers are of videos that are ready, of which no object disappears.
* `EmbeddedInv`: of a player that is being replaced, how far the handler of the click
  has got, and what `load()` had still ahead of it when `destroy()` began (`Ahead`, `May`),
  bound what may be alive. Every other player is the current one, is being
  destroyed by some click, or was replaced by one that awaited an older player's end.
* `MenuInv`: what a component rendered is the state of the player, or the component is due, or
  the event that makes it so is still to come; it has a half for each engine.
* `SettingsInv`: until one of the two settings is changed on purpose, the store, the environment of
  each worker and each row follow the file, or have nothing of it yet.
* `CardInv`: a refusal was told, or who clicked has left; one rename at most is listened
  to, and it is of the editor that is open.
* `ConnectionInv`: what the query keeps is the last answer of the present base, and
  an answer of the base before comes late once at most.
* `ApiInv`: `DrainAnswers` is inductive itself. A slot is taken over only when the process
  before has gone, and with it its requests.

**The sweep.** Deletion cannot be undone, so what a sweep may delete is proved for every number of
rows, keys and sweeps: nothing but what belongs to a video that was cancelled, at least the
settling time before (`SweepsOnlySettled`; TLC is left with the liveness
of the sweep). `SweepInv` says that what a sweep remembers of a row
is true of it even where the row has been stamped since, because stamps only grow
(`StampsGrow`). That the row at the head of a page is one of the page is
`FirstOfPage`: a lexicographic minimum, which the well-foundedness of the naturals gives.

## What is only model-checked

* Every liveness property: fairness is out of the prover's reach.
* That the two violated properties, `UploadsWithinWindow` and `MasterMatches`, fail:
  a counterexample is TLC's to give.

No proof needed induction over data, and no module with a
theorem reaches a recursive operator.

`AttemptsWithinBudget`, `JobsSeededOnceWithReady`, `LocksMatchStatus`,
`EnqueuedWithSource`, `JobsCharged`, `FlipBringsJobs`, `SweepsOnlySettled` and the type invariants are proved only; no run repeats them.

## What is not modelled, and why

* The sweep in `VideoQueue`: there it is only the time an idle worker spends before
  it terminates. What it does is in `ArtifactSweep`.
* ffmpeg, shaka and whisper: their command lines and files are I/O.
* Of playback: the claims of a token (one video, one tenant), the text of the
  playlists, and segments (public CDN objects). Of the controls: volume, fullscreen,
  picture in picture and the position itself, which are single assignments.
* Of the dashboard: React Query's dropping of what nobody has looked at for five
  minutes, the text of a title, the wording of errors, copying a link, and a card that is mounted again
  while its mutation is under way, which would allow a second one of the same kind.
* Of the configuration: settings that reach neither a content key nor the
  database, the launch templates, the AMI and the Terraform files.
* Code that nothing runs any more since the move to HLS: `useShakaPlayer`,
  `shakaConfig`, the Shaka packager (`encoding/shaka.ts`) and what the DOWNLOAD job had for it. The
  database types are generated from the shared schema.
* What a `Crowded` window of the sweep does: it reads the same page until its time is over.
* `markCaptionsSkipped` (a source without audio): PRIMARY does not enqueue
  captions for one. `markReady`: unused.
* The tenant-admin service that retires a ready video is not in the repository; it
  is the external action `RetireVideo` of `JobQueue`.
* `stage` and `progress` of a row: display only. `updated_at` is read by the sweep
  only, and is modelled there.

## Plan

Done, in this order:

1. `VideoQueue`, `VideoLifecycle`, `VideoQueueProofs`: the core.
2. `JobQueue`: the second queue and its agreement with the artifact columns.
3. `PublishedTree`: composes the queue with the stores outside it.
4. `Orchestrator`: the tick, call by call.
5. `Uploads`: how rows come to be, and the page that is left meanwhile.
6. `Ladder`, `Storyboard`: what the jobs compute, and what the seek bar makes of it.
7. `Playback`, `PlayerControls`: from a ready row to a playing page under its controls.
8. `Dashboard`, with the list's cache and mutations that overlap.
9. `ArtifactSweep`: the keyset cursor over cancelled rows, straggling PUTs, partial
   deletes.
10. `SinglePool`: both queues under one pool, with their liveness.
11. `ApiServer`: the processes, their start and their end.
12. `Listing`, `CardActions`, `Footprint`, `Connection`, `PlayerMenu`: the rest of the
    dashboard and of the player that keeps state.
13. `Deployment` and `EmbeddedPlayer`: settings of different days, and the
    player of other sites.

Left: nothing of this plan. Two hazards have no property: the cap on videos in flight
(`src/src/services/videos.service.ts:144`), of which the code promises no more than a count
at one instant; and the tree that two runs of a video write at the same time
(`src/src/repositories/video-keys.repository.ts:32`), which the code publishes mixed. The
notes of the other hazards in `PROJECT.json` say which half of them a property leaves out.
