# Verification of subarr

subarr finds media files that lack a subtitle, decides which of them to
transcribe, feeds them to a separate transcription service (subgen), and tells
Bazarr, Sonarr/Radarr and Plex when a subtitle appears. It is one asyncio
process over one SQLite file. Everything below is about that process: what its
background loops, HTTP handlers and webhooks do to shared rows while they await
each other's requests, and what survives a restart of either side.

Paths are relative to `src/subarr/` of the repository. Every definition that
models code is mapped to its lines in `PROJECT.json` ("map").

To check a run: `tlc -workers 2 -config <cfg> <module>` (the table of runs below
names both). To check the proofs of a module: `tlapm <module>_proofs.tla`.

## 1. Inventory

A step of the process is the code between two awaits. A store method is atomic
(one lock, one connection, no await), so every hazard lives between the steps.

| component | state | operations | talks to | hard behaviour | what makes it correct | modelled |
|---|---|---|---|---|---|---|
| pending queue store (`pending_queue.py`, `routers/queue.py`) | table `pending_queue`: path, priority, position, status, submitted_at | enqueue, promote, demote, move, step, remove, mark_submitted, set_status, resolve_skipped, resolve_orphaned_submitted, clear | scheduler, backfill, users enqueue; feeder drains | midpoints of doubles; deduplication against rows in every status | one active row per path; a total order per bucket; a drag lands next to its target | PendingQueue, OrderedQueue |
| queue feeder (`pending_feeder.py`, `subgen_capacity.py`) | `_inflight` reservations, pause and target depth | tick (two awaits), release_inflight | subgen's queue, the submit hook of `app.py` | stale depth, stale row across the submit, reservations lost in a restart | no file twice at subgen; depth within the target; waiting rows drain | QueueFeeder |
| provenance ledger (`provenance.py`) | table `subs_generated`: path, ids, queued_at, completed_at, outcome, bazarr_triggered | record, mark_completed, set_outcome, mark_bazarr_triggered, set_arr_ids | scheduler and feeder hook write; watcher and webhook close | reuse of open rows; two closers | one open row per path; the first verdict stands | Completion |
| completion watcher and webhook (`completion_watcher.py`) | list of rows being worked on | tick: open rows, heal pass, retry pass; poll_once on demand; webhook | subgen's queue, Bazarr | three kinds of drivers on the same rows; crash between stamp and announcement | every row closes, every completion is announced, no premature verdict | Completion |
| circuit breaker (`circuit_breaker.py`, `integrations/base.py`) | state, failure count, opened_at | allow, record_success, record_failure | every integration client | late verdicts, cancelled requests | never wedged, notices recovery | CircuitBreaker |
| scan runner (`scan_runner.py`) | one task and one in-memory copy per scan; subscribers | start, run, subscribe, shutdown | subgen POST, scan store, browsers | saves a copy over other writers; event queue limits | a scan that is done has an answer for each file | ScanHistory (not the event stream) |
| scan store (`scan_store.py`) | table `scans` with results as JSON | create, save, delete, prune, mark_orphaned_before | runner, reconciliation, history view | read-modify-write of JSON from two sides | marks are kept | ScanHistory |
| subgen watchdog (`subgen_watchdog.py`, `app.py` on-restart hook) | capability snapshot, count of failed probes | probe (loop and on demand), restart hook | subgen, scan store, ledger | telling a restart from a blip; a hook with awaits | what a restart lost is marked, nothing else is | ScanHistory |
| scheduler (`scheduler.py`, `schedule_store.py`) | walk lock, last run, mode | due check, coverage walk, approve, reject | coverage report, Bazarr, pending store, pending queue | walks and approvals overlap | a decision stands; an approval has its job | Approvals |
| pending approval store (`pending_store.py`) | `pending_walks`, `pending_decisions` | create_walk, expire, mark_decision, finalise_walk | scheduler, users | status recomputed by whoever is last | the status says what the decisions say | Approvals |
| auto-queue rules (`auto_queue.py`, `backfill.py`) | none | evaluate | scheduler | reads other components' state once; order and cap | cap; in flight and held back are excluded | Approvals (what it reads of other state), Gaps (filters, order, cap) |
| history view and reconcile sweep (`routers/queue.py`, `pending_reconcile.py`) | 5 s cache, refreshing flag | refresh, invalidate, sweep | scan store, ledger, subgen | a rebuild that outlives an invalidation, or fails | shows the stores in the end; folds attempts and loses none | HistoryCache, History |
| coverage engine (`coverage_engine.py`, `sidecar_scanner.py`, `arr_mediainfo.py`) | none | build the report | Bazarr, arrs, probes, verdicts, disk | one long join of sources that disagree | no file twice; covered only by what is wanted; gate and dispatch agree | CoverageRows, Sidecars, AudioTracks |
| coverage cache (`coverage_cache.py`, `dashboard_cache.py`) | snapshot, holds, pending flag, timer | refresh, request_refresh, read | engine, walker, ids of the queue | coalescing, holds, a build that raises | every request is served by a build that read after it; outages show | CoverageRefresh (not the dashboard's) |
| probe walker and store (`probe_walker.py`, `probe_store.py`, `media_probe.py`, `orphan_prune.py`, `relink.py`) | ffprobe results by path, mtime, size; failures | walk, reprobe, prune, relink | disk, coverage cache | files replaced, unmounted or moved during a walk | a trusted probe is of this file; rows leave "analyzing" | CoverageRefresh, AudioTracks, Verdicts, Review |
| language verdicts (`audio_lang_store.py`, `audio_audit.py`, `routers/audio_lang.py`, `routers/admin.py`) | verdicts, rules per series, findings | verify, declare, suggest, audit, carry over, prune, relink | disk, subgen, coverage builds | passes in threads that look at the disk without a lock | a verdict stays with its title, a user's word stands | Verdicts, Review, AudioTracks |
| write-back of verdicts (`routers/audio_lang.py`) | last sync, trailing task | put to Sonarr, sync Bazarr | Sonarr, Bazarr | coalescing by time | what Sonarr took is synced | BazarrSync |
| default tracks (`track_swap.py`, `routers/audio_lang.py`) | dismissals | swap, dismiss | the file, probes, coverage builds | an older build that publishes afterwards | a cured row clears | TrackSwap, AudioTracks |
| language of a job (`submission_language.py`, `per_file_task.py`, `langs.py`, `multilang.py`) | none | choose task and override | verdicts, probes, capabilities | computed again by the coverage gate | gate and dispatch agree | AudioTracks |
| tuning lab (`arena*.py`, `tournament*.py`, `transcript_signals.py`, `routers/arena.py`) | runs, tasks, semaphore, deleted ids | submit, run, delete, rename, reconcile | subgen, GPU capacity | deletion and shutdown while running | rows and tasks agree; rankings are fair to languages | Arena, ArenaScores |
| aftercare and existing-subtitle audit (`aftercare*.py`, `existing_audit*.py`, `routers/aftercare.py`) | results, backlog | judge, audit, review, prune | watcher, disk | age against review; audit beside jobs | the backlog survives | Aftercare |
| subtitle timing and signals (`subtitle_*.py`, `transcript_signals.py`, `vad.py`) | none | retime, score | watcher, arena | rounding, neighbours | no cue harmed to help another | Subtitles (not sanitising) |
| forced-segment scans (`forced_segment*.py`) | verdict cache, tasks | scan, walk, cancel | watcher, subgen, voice detection | a file replaced, an outage or a stop during a scan | a verdict is of this version | ForcedSegments |
| boot (`migrate.py`, `db_integrity.py`, `data_persistence.py`, `single_process.py`) | schema versions, lock file | migrate, check, lock | the volume | two processes, a crash between two statements | what is recorded is applied | Boot |
| lookups (`arr_id_lookup.py`, `arr_resolve.py`, `provider_leaderboard.py`, `routers/coverage*.py`, `routers/provenance.py`) | short caches | resolve, page, rank | Sonarr, Radarr, Bazarr | ids and paths that do not match one to one | an id names its own file | Gaps |
| login and request security (`auth*.py`, `api_keys.py`, `login_throttle.py`, ...) | credentials, failures per address | login, throttle | browsers | sliding window, eviction | a block lasts its window | no: request filters, apart from everything above |
| onboarding, configuration, instances, libraries | config files | read, write | environment, docker | none shared with the loops | - | no: configuration I/O |
| path translation (`paths.py`) | mount table | three rewritings | all | prefixes, separators, a library that is gone | round trips | Completion (whether a path has a library); else no: files have one name in every module |
| supervision and telemetry | counters | record | - | - | - | no: nothing reads them back |
| integration clients | breaker per client | request helpers | Bazarr, arrs, media servers, LLMs | - | - | CircuitBreaker has the shared helpers; the rest is I/O |
| browser interface (`static/`) | - | - | HTTP API | - | - | no: views |

How they interact, along the life of a file:

```
coverage walk --(rules, in flight, held back)--> approval list --user--> pending queue
     users, backfill, requeue --------------------------------------------^   |
                                                                       feeder tick
                                                                              v
scan store <---- scan runner ---- POST /batch ----> subgen <---- Plex, Bazarr (foreign work)
    ^                  |                               |
    |                  +--> ledger row (record)        +--- webhook ---+
    |                            ^                                     v
 reconciliation           completion watcher ---------------------> closes the row,
 <- watchdog probes       (polls subgen's queue)                    tells Bazarr, aftercare
```

## 2. Modules

| module | models | extends / composes |
|---|---|---|
| `PendingQueue` | the store and the endpoint guards | - |
| `OrderedQueue` | abstract specification: per priority bucket, one list | - |
| `MCPendingQueue` | instance; `ImplementsOrderedQueue` is `OrderedQueue` under a refinement mapping | PendingQueue, OrderedQueue |
| `QueueFeeder` | the feeder, its hooks, subgen, users, restarts | PendingQueue (its actions are the store's) |
| `MCQueueFeeder` | two settings (a deep queue; a user who deletes), symmetry | QueueFeeder |
| `Completion` | ledger, watcher, webhook, write-back | - |
| `CircuitBreaker` | breaker and request helpers | - |
| `ScanHistory` | runner, scan store, watchdog, reconciliation | - |
| `Approvals`, `MCApprovals` | coverage walk, approval lists; symmetry | - |
| `CoverageRefresh` | requests for a coverage build, the build, holds, publication; probe walks and their store | - |
| `AudioTracks` | operators: tracks, tags and titles; task, override and dispatch of a job; exchange of default tracks | - |
| `Sidecars` | operators: names of subtitles, their languages, stems and renames | - |
| `CoverageRows` | operators: the join of Bazarr, arrs, probes, verdicts and disk into rows, labels, scores and gates | AudioTracks, Sidecars |
| `Places` | operators: a sequence sorted, filtered or grouped, by the places of its elements | - |
| `Review` | operators: the language review list and its pages, relink rules | Places |
| `History` | operators: what the history of the queue page shows, which edits are refused, what the sweep resolves | Places |
| `Gaps` | operators: filters and pages of the gaps list, the rules' decision, lookups by id and by path, provider leaderboard | - |
| `Subtitles` | operators: readability, retiming, text signals, speech windows, choice of the sidecar to upload | - |
| `ArenaScores` | operators: scores of clips, agreement, winners, rankings over languages | - |
| `MCCases` | puts one bounded case after another to the operators of the modules it extends | CoverageRows, Review, Subtitles, ArenaScores, History, Gaps |
| `Verdicts`, `MCVerdicts` | language verdicts, the audit, carry-over, prune, relink; two episodes and a film | - |
| `BazarrSync` | write-back of verdicts, coalesced syncs | - |
| `HistoryCache` | the cache of the queue page and its rebuild | - |
| `TrackSwap` | exchange and dismissal of default tracks beside coverage builds | - |
| `Aftercare` | judgements of subtitles, backlog, audit, prune | - |
| `Arena` | sweeps: tasks, semaphore, GPU gate, deletion, shutdown, restart | - |
| `ForcedSegments` | detection of foreign scenes (operators) and the scans (actions) | - |
| `Boot` | migrations, process lock; checks of file and volume (operators) | - |
| `MCLoops` | the self-driven services side by side | CircuitBreaker, BazarrSync, HistoryCache, TrackSwap, CoverageRefresh |
| `MCServices` | the on-demand services and the cases side by side; symmetry of the walks | MCCases, MCVerdicts, Aftercare, ForcedSegments, Boot, Arena |
| `PendingQueue_proofs`, `QueueFeeder_proofs`, `Completion_proofs`, `ScanHistory_proofs`, `Approvals_proofs` | theorems and proofs about the module of the name, for the queue also about its refinement of `OrderedQueue` | TLAPS |
| `Loops_proofs` | theorems about CircuitBreaker and CoverageRefresh, alone and side by side | MCLoops, TLAPS |
| `Cases_proofs` | theorems about the operators the cases are put to, for any input, and about the cases | MCCases, TLAPS |
| `Services_proofs` | theorems about Boot, Arena, ForcedSegments, Aftercare and Verdicts, alone and side by side with the cases | MCServices, Cases_proofs, TLAPS |

Common conventions. `pc` fields say at which await a coroutine stands, and the
variables beside them are its locals: a value read before an await and used
after it is kept in the state, as it is in the code. Clocks advance in ticks and
ages saturate just above the largest constant they are compared with.
Disturbances (a crash, a restart, a delete by the user, foreign work) are listed
in `Faults` and counted against `MaxFaults`, so that a configuration says
exactly what its world contains.

### PendingQueue and OrderedQueue

`rows` is the table, from id to row; ids are drawn in creation order and stand
for `created_at`, the last ORDER BY term. There is an action per store method,
guarded as the endpoint guards it (`_require_pending` on moves, none on
removal). `MovePositions` is `move`: the midpoint between the target and its
neighbour, or one beyond the end. A position is a REAL column: the model keeps
it on an integer grid with `Unit` points per 1.0, the grid step being the last
bit of the mantissa. With `Rounding = TRUE` a midpoint below the grid goes to
one of its two neighbours, as binary64 does; with `FALSE` such a move is not
taken, which is the exact arithmetic of every queue that was not reordered
dozens of times in one place. `Clear` is modelled although no endpoint calls it.

`OrderedQueue` has one list per bucket and no numbers; `MCPendingQueue` maps the
table to it by sorting the pending rows of a bucket by position and id.

### QueueFeeder

`TickStarts`, `QueueAnswered` or `QueueUnreadable`, `FillStarts`, then `Pick`,
`SubmitReturns` or `SubmitRaises` for each job: the code between the awaits of
`tick`. `seen` is the queue answer the tick holds, `inflight` is `_inflight`
with ages, `held` the row that is being submitted, read before the await.
A paused tick ends before anything is resolved, as in the code. The
submit hook posts to subgen; `Surface` is when subgen lists the post, at most
`SurfaceLag` ticks later, and `Finish` when it is done. `TickSpan` bounds how
long a tick works on one answer. No library is taken out of the settings while rows
of it are in the queue: for such a row `canonical_to_subgen_batch` raises outside any
handler, in `Pick` (`pending_feeder.py:232`) and in the sweep (`pending_queue.py:377`),
and ends the tick there every time, although `pending_feeder.py:244` means
that "one bad job mustn't stall the queue". Completion models the same
exception for the watcher.

### Completion

A row of the ledger has its path, ids (`kind`), age, stamp, outcome, and whether
Bazarr heard of it. A tick of a poller asks for subgen's queue, judges the open
rows one by one with that answer (`Judge`), and hands those it completes to the
write-back (upload, then scan task), which awaits; the heal pass looks at rows
without output again and the retry pass at rows Bazarr did not hear of. A webhook
handler runs the same write-back on the rows it reads. `posted` is what was sent
and not yet listed, `working` subgen's queue, `sidecars` what is on disk.
`strays` are the paths whose library the settings do not have at present. An open row of one
ends every tick that comes to it (`JudgeRaises`: the translation of its path raises
before any stamp, outside any handler), a webhook does not find it, and the heal pass
sees no subtitle of it. The query returns the rows of one second in any
order, so which rows a tick comes to before such a one is left open.
One Bazarr instance is configured. The 24 hour and 7 day windows of the queries
are left out (nothing in a run is that old); so are retiming, forced-segment
scans and the Plex refresh, which write nothing the passes read. Ids that are
missing are resolved to any kind or to none. A folder is never judged, only
completed when its path is not in the queue.

### CircuitBreaker

`Send` is `allow()` and the start of the request, `Reached`, `Failed` and
`Abandoned` what comes back; a cancelled request reports nothing, as the helpers
only catch `httpx` errors. `openFor` is the time since `_opened_at`.

### ScanHistory

`saved` is the stored JSON, `copy` the runner's object, so that a save is what it
is in the code: all results at once. A probe keeps the capabilities it read at
its start. `RestartDetected` is the decision of `_probe_once`, and the hook then
reads what completed, fetches subgen's queue and marks, with an await in
between. Every file belongs to one scan and has its own basename, and no earlier
subtitle of it exists. A restart that keeps subgen's identity lasts at least
`BounceMin` probes of the loop; a shorter one is invisible to the watchdog, which
its own comment accepts. The telemetry's refresh of the capabilities
(`Refreshers`, `app.py:1067`; a reload of the configuration does the same,
`routers/onboarding.py:1091`) is a probe without a comparison: `Refreshed` stores what it
found, be it "unreachable", and a restart that it steps over is not recognised. A POST cut by an outage fails; a slow one may span
several probes. The event stream is left to a module of its own.

### Approvals

A walk (`WalkStarts`, `Built`, `Evaluated`) awaits the report and the poke of
Bazarr, then reads what is in flight and stores a list or queues jobs. Which
rows pass the filters of the rules is left open, and Bazarr may report a file
that has its subtitle already. `ApproveStarts` reads the list, each decision is
then enqueued across an await, and `finalise_walk` closes. Rejection and expiry
are single steps. Of the queue only "in flight" is kept.

### CoverageRefresh

A build goes through the stages of `refresh`: `BuildStarts` (the lock, then the
requests), `ReadsEntries` (the probe table, one read for the whole report), then
`BuildHeld`, or `BuildGoesOut` and, when it is stored, `Published`; `BuildRaises` may
end it anywhere. `Request` is `request_refresh`: a note for
a build under way (`again`), a timer, or a task at the lock (`waiting`). Callers
that do not coalesce, the loop and the run-now button, queue at the same lock. `Kick`
is what a published report starts: an eager walk over its unprobed rows, `EagerCap`
of them. A walk handles each file in three steps, stat, ffprobe, record, so that a
file can be replaced in between. `unserved` is a history variable: a request was made
that no build has read the tables after. A row's verdict is `unprobed` (shown as
analyzing), `verified` or `probe_failed`. `MCLoops` has two instances: one row and two
disturbances, and (`Report`) two rows, which compete for the places of an eager walk, and
one disturbance.

### AudioTracks, Sidecars, CoverageRows

The pure part of the coverage report and of the submission, as operators with the
data of one file, folder or row as parameters. A language is a code or `None`, a
name the sequence of its dot-separated parts, a path a model value. `CoverageRows`
keeps the order in which the sources are asked and overrule each other
(`Labelled`, `Refined`, `MachineBase`), what is scored and what is disqualified,
and the rows added for what Bazarr does not see (`BlindEpisodes`, `BlindMovies`).
`AudioTracks` has both sides of the question whether subgen will write what a row
waits for: `Dispatch`, as the submit hook computes it, and what `Gated` of
`CoverageRows` takes from it. Human-readable reasons and titles are left out.

### Verdicts

One row per path with the source, the language and the id it was recorded
against; `about` is history, the title it was given for. A version of a file is a
number, 0 is no file. The four passes (`refresh`: carry-over by name token and by
id, then the back-fill; `prune`; `relink`; `audit`) run in threads, so each look at the disk
is a step, and each statement on the table. `Change` are the things others do:
verify, withdraw, declare or drop a series, apply a suggestion, write, replace or
delete a file, lose and regain a mount.

### BazarrSync, HistoryCache, TrackSwap

`BazarrSync` has a handler per verification, from the resolution of the file to the answer of
Bazarr, the window in which syncs coalesce and the trailing task. `unsynced` are the
changes no sync has read. Sonarr may take a PUT whose answer is lost (`AnswerLost`): the
handler then reports a failure and asks for no sync. In `HistoryCache` a version number stands for what a store
holds, and a view is the pair it was built from; requests of the page and the rebuild
read one store after the other. `TrackSwap` has the steps of a swap
(probe, write, probe again, clear the row), dismissals, and a coverage build
that reads the probes at its start and publishes at its end.

### Aftercare, Arena, ForcedSegments, Boot

`Aftercare`: results with source, flag, review and age; the backlog is the query of
the store. `Arena`: per sweep the stored row and where its task is, from submission
over the semaphore and the probes of subgen's capacity to its end; deletion and
shutdown cancel, and a cancellation is heard at the next await, or never by a task that
has not begun. `ForcedSegments`: a scan takes the version of its file at the start; walks
(asked for, then started when their files are listed, so that two asked for at once both
run and only the later can be stopped), scans after a completion, a replaced file, a user's own forced subtitle and services that
come and go interleave. `Boot`: each process migrates statement by
statement in a transaction, may fail or die anywhere, and then tries the lock.

### Review, History, Gaps, Subtitles, ArenaScores and MCCases

Operators again, each translated from one function of the code. In `ArenaScores` the
scores are whole hundredths of a point, since the program rounds to two decimals; a mean that lies
half-way goes to the even neighbour (`Rounded`), where binary floats may take either. `MCCases` is the
state machine that asks: a behaviour puts a case (`AskTask`, `AskBlind`, ...), whose
inputs range over small sets chosen so that every branch is taken, answers it and
puts the next. The properties speak of the case under consideration; most
compare two computations the code makes in different places.

## 3. Runs

Passing runs, each checked exhaustively (`PROJECT.json`, "runs"):

| run (configuration) | bounds | what it shows |
|---|---|---|
| `queue_order` (`PendingQueue.cfg`) | 3 paths, 2 priorities, 3 rows, grid of halves, positions within 4 | Deduplication; the numeric keys never meet; every operation of the store is an operation on one ordered list per bucket. Three rows are what a drop between two others needs. |
| `feeder` (`Feeder.cfg`) | 2 paths, 2 rows, one restart of either side, foreign job or change of the controls | No file is twice at subgen; waiting rows drain (`PendingDrains`); submitted rows are resolved (`SubmittedResolves`). A file asked for twice takes both rows; otherwise two files compete. |
| `feeder_depth` (`FeederDepth.cfg`) | two settings: 3 paths, depth 2, a restart of subgen or change of the controls; 2 paths, 3 rows, a user who deletes any row. Grace 4 > lag 1 + 2 x span 1 | However late subgen lists a post within the grace, the feeder's own unfinished work never exceeds the deepest target (`DepthIsKept`). The inequality is sharp: with grace 3 it fails. With deletions at any moment no late verdict takes a waiting row away, and the composition uses the store as `QueueSpec` allows. |
| `completion` (`Completion.cfg`) | a file and a folder, the loop and a tick on demand, a crash, restart or removed library | First verdicts stand; with `MinAge > SurfaceLag + PassSpan` no file is judged empty while its job is under way. |
| `completion_liveness` (`CompletionLiveness.cfg`) | 2 episodes, 2 rows, one library that may be removed; a webhook that may be late or lost, asked for by subgen while only one of the episodes is in the ledger (`Called`); a crash, restart, removal or resubmission; failing uploads | One open row; every row closes (`RowsClose`); every completed episode reaches Bazarr (`EpisodesHeard`); a wrong hold-back ends (`HoldBackEnds`); all three unless an open row is of a library that is gone (`Blocked`), which stops the watcher. |
| `scan_restarts` (`ScanRestarts.cfg`) | a scan of 2 files, the loop beside the telemetry's refresh, 2 of restart, upgrade, delete | A scan that is done has an answer for every file; what an outage took is marked, for good if the runner was through with the scan, unless the refresh hid the restart (`LostAreMarked`). |
| `scan_probes` (`ScanProbes.cfg`) | no scan; a probe on demand and the refresh beside the loop, 4 of restart, upgrade, blip, crash | The capability snapshot follows subgen (`CapsFollow`). |
| `approvals` (`Approvals.cfg`) | 2 files, 2 lists, an approval beside rejections, a crash | A list at rest shows what its decisions amount to, as long as no crash cut an approval short; no approved decision without its job, crash or not. Two approvals at once were checked on one list (the same configuration with `Approvers = {a1, a2}` and `MaxWalks = 1`). |
| `loops` (`Loops.cfg`) | breaker: 3 callers, threshold 2, 4 changes of health; sync: 3 verifications, window 2; page: 2 requests beside the rebuild, 2 edits; tracks: 1 file, 2 swaps; refresh: 1 row, 1 hold, 2 of replacement, lost mount, outage, failing build, restart, root walk and requests of users; report: 2 rows for the one place of a walk, 1 of these | A healthy upstream is noticed again; coalescing loses no change (`PutsAreSynced`); the page shows the stores in the end (`PageSettles`); a cured row clears (`SwappedRowsClear`); no request for a build is forgotten; a trusted probe is of this file; rows leave "analyzing" (`ReportIsAnalyzed`, which is `RowsLeaveAnalyzing` of the report of 2 rows); an outage is shown (`OutageShows`). |
| `services` (`Services.cfg`) | verdicts: 2 episodes and a film with equal numbers, 3 changes; aftercare: a job, a sidecar, 3 judgements; forced: 1 file in 2 versions, two walks and a scan; boot: 2 processes, 2 migrations of 2 columns; arena: 2 sweeps; cases: the small sets in `MCCases` | Verdicts keep their titles and findings their files (`VerdictKeepsItsTitle`, `FindingsAreCurrent`); a forced verdict is of this version; what is recorded is applied; rows and tasks of sweeps agree; the backlog survives; and, over all cases, `RemediesFit`, `RowsFit`, `PagesShowAll`, `FilesAreMatched`, `RetimeKeepsCues`, `RanksFollowLanguages`. |

Runs that end in a counterexample, and are findings in `PROJECT.json`:

| run | what happens |
|---|---|
| `approvals_stand` (`ApprovalsStand.cfg`) | A rejection made during an approval's await is overwritten, and the rejected file is queued (`DecisionsStand`). |
| `user_word` (`UserWord.cfg`) | The library audit stores a mislabel it heard over the verdict of a user; the branch for multilingual files next to it takes care not to (`UserWordStands`). |

`loops` and `services` check services that share no state side by side: `focus` says
which of them a behaviour runs, and the others stay where they start. The state
space is the sum of theirs, not the product, and each property speaks of one of
them. Deadlock is not checked there (`CHECK_DEADLOCK FALSE`, likewise in
`user_word`), because a service that has been asked everything within its bounds
rests; in every other run it is.

For every property of a passing run `PROJECT.json` names a faulty variant of one
definition (written next to it in the module) that violates it. The conjunctions have
a variant for each part in their modules: `SwappedWithoutClearing`,
`DispatchByFirstFile` and `GatedUnforced` for `RemediesFit`; `StaleAnyLanguage`,
`LanguageInClusterCaptions`, `LabelledPlexFirst`, `RoutedUnchecked` and
`BlindEpisodesById` for `RowsFit`; `GroupPageOfRows` and `NewestFirstAsListed` for
`PagesShowAll`; `MutualUnchecked` and `EpisodeOfSeries` for `FilesAreMatched`;
`PersistAlways` and `ReconciledWithoutWaiting` for `RunsMatchTasks`.

### Known counterexamples

Each property below states one promise of the repository's comments, docstrings
or checks that the code does not keep. They are defined in the modules; adding one
to a configuration with the constants named lets TLC find the
counterexample in seconds.

| property (module; constants) | what the code does | what the repository says |
|---|---|---|
| `MovePlacesAdjacent` (MCPendingQueue; `Rounding = TRUE`, 4 paths and rows, one priority, `OrphanGrace = 1`, `Unit = 2`, `PosBound = 8`) | The 54th drop into one gap puts the job on the wrong side of its target (midpoint of doubles, no renumbering). | `pending_queue.py:422`: "Place `job_id` immediately before/after a target job" |
| `NoDoubleQueue` (QueueFeeder; `Feeder.cfg` with `Faults = {"remove_held"}`, 3 rows, grace of rows 3) | A row deleted while the tick awaits its submission is submitted all the same; asked for again, the file goes out twice. | `pending_queue.py:187`: "never double-queue a file that's already pending or in subgen" |
| `SubmittedRowsKept` (QueueFeeder; the same with `"remove_submitted"`) | DELETE accepts a row at subgen. | `routers/queue.py:818`: "mutation is rejected (409)" |
| `CompletedAfterRun` (Completion) | A file with an older subtitle, or a folder, is stamped complete before subgen lists its job. | `provenance.py:12`: completed "when the path leaves both queued+processing" |
| `AftercareOnce` (Completion; two drivers) | A tick and a webhook with the same open row in hand run aftercare twice. | `provenance.py:116`: open rows are deduplicated so as not to "fire _run_aftercare twice for one transcription" |
| `MoviesHeard` (Completion; a movie, failing uploads) | A movie whose single upload fails is never announced to Bazarr: the fallback and the retry ask for a series id. | `completion_watcher.py:590`: "movie rows without a known radarr_id need the disk-scan fallback" |
| `NotHeldWhileUnderWay` (Completion; with the fault `"resubmit"`) | A file submitted again on its old open row defeats the minimum age of a verdict. | `completion_watcher.py:45`: "only judged NO OUTPUT once it is at least this old" |
| `RowsCloseAnyway` (Completion; `CompletionLiveness.cfg`) | An open row of a library that was taken out of the settings ends every tick (`completion_watcher.py:414`), and the rows behind it are never judged. | `paths.py:74`, of the resolver for clients: callers "must degrade to instance 0, never crash a row" |
| `SingleProbe` (CircuitBreaker; 2 callers) | A half-open breaker lets every call through. (One probe only would wedge it: a cancelled probe reports nothing. That variant is the mutant of `Recovers`.) | `circuit_breaker.py:55`: "further calls stay blocked until that probe resolves" |
| `HeldNotMarked` (ScanHistory; unreadable queue) | With subgen's queue unreadable, files that subgen holds are marked lost. | `scan_store.py:221`: "we must NOT mark them lost" |
| `FinishedNotMarked` (ScanHistory) | A file finished since the watcher's last poll is marked lost. | `provenance.py:224`: "to NOT orphan paths that subgen actually finished before the restart" |
| `LostAreMarked` (ScanHistory; `ScanRestarts.cfg` with the fault `"crash"`) | A restart of subgen while subarr is down or boots is never reconciled. | `scan_store.py:38`: "The restart_watchdog marks these" |
| `LostAreMarkedDespiteRefresh` (ScanHistory; `ScanRestarts.cfg`) | A refresh by the telemetry between an upgrade and the next probe replaces the capabilities the watchdog would compare with (`app.py:1073`), and nothing is marked. | `subgen_watchdog.py:79`: "OLD caps on a failed probe is right for restart detection" |
| `MarksKept` (ScanHistory; one scan of 2 files, one upgrade) | The runner's next save (`scan_runner.py:325`) erases the marks of a restart. | `scan_store.py:38`: a lost file is marked "so the UI surfaces them in a 'Lost on restart' bucket" |
| `OfferedOnce` (Approvals) | A second walk offers files that still wait for an answer. | `scheduler.py:403`: "doesn't recreate identical pending walks every tick" |
| `AskingHasQuestions` (Approvals) | A walk that found nothing stores a list that waits for decisions. | `pending_store.py:8`: "one row per scheduler walk that emitted a pending list" |
| `NoteHasReader` (CoverageRefresh) | The note of a request made during a build of the loop or of run-now is read by neither; it waits for the next coalesced task. | `coverage_cache.py:286`: "exactly ONE follow-up build runs after it completes" |
| `BacklogDrains` (CoverageRefresh; 2 rows, `EagerCap = 1`, a lost mount) | Files that cannot be stat'ed are recorded nowhere and take the places of an eager walk from the rows behind them for ever. | `coverage_cache.py:44`: "the rest drain over subsequent builds" |
| `SnapshotKnowsSubgen` (CoverageRefresh) | Coalesced builds are given no provider of capabilities, so their snapshot knows none. | `coverage_cache.py:489`: "reflected on the next refresh" |
| `EveryPutIsSynced` (BazarrSync) | The window is measured from the end of a sync (`routers/audio_lang.py:450`), so two syncs may overlap, and a change that lands behind the read of the later one waits for no other. | `routers/audio_lang.py:380`: "the trailing one runs after every PUT in the burst has landed" |
| `UnheardIsSynced` (BazarrSync) | Sonarr takes the PUT, its answer is lost, and the handler returns without asking for a sync (`routers/audio_lang.py:340`). | `routers/audio_lang.py:355`: "so it picks up the new audio language NOW" |
| `InvalidationHolds` (HistoryCache) | A rebuild, or a request of the page, that began before a requeue installs its view, as fresh, after the requeue dropped the cache. | `routers/queue.py:433`: "so a requeue or delete is reflected on the refetch that follows it" |
| `SettledStaysSettled` (Aftercare; a year passes) | The prune takes an old good or reviewed row and leaves the older flagged one of the same file, which thereby is the latest and returns to the backlog. | `aftercare_store.py:18`: "Latest-per-path" |
| `NamedStaysNamed` (Arena) | A sweep that runs saves its own copy over the language a user set meanwhile. | `routers/arena.py:215`: "Sets the run's language (user-sourced)" |
| `OutagesAreRetried` (ForcedSegments) | Voice detection or language identification that fails looks like a file without speech or scenes, and that verdict is final. | `forced_segment_store.py:55`: an outage "auto-retries on the next walk without the file having to change" |
| `NoClobber` (ForcedSegments) | The check for a forced subtitle is at the start of a scan, the write at its end; one that a user puts there in between is replaced. | `forced_segment_service.py:204`: "a forced sidecar already on disk is never overwritten" |
| `TwoAreShown` (Boot) | Of two processes the one that got the lock may set the health verdict last, or the other dies with it, and the page is green. | `single_process.py:11`: "a red task on the Health page" |
| `PruneSparesFiles` (Verdicts; a mount lost during the prune) | The disk is looked at file by file; if a mount drops during the pass and less than half is missing, rows of files that exist are deleted. | `orphan_prune.py:67`: "pruning here would delete verifications that are expensive to rebuild by hand" |
| `PromiseKept` (MCCases) | The explanation of a skip offers a requeue whose job carries no language. | `submission_language.py:400`: "requeue it and subarr sends that language" |
| `RetimeSettles` (MCCases) | A cue that lends time to the one before begins later, and a second pass pads it to the minimum duration from its new start: two cues of 0-300 ms and 300-600 ms with 8 characters each become 0-320 and 320-1300, then 0-320 and 320-1320. | `subtitle_retime.py:83`: "Idempotency: the module guarantees it" |
| `RenameKeepsLanguage` (MCCases) | A suggested name may drop the language of the old one, or take another part of it for one. | `sidecar_scanner.py:210`: "preserving the .en.srt language tag" |
| `ForcedIsNotCoverage` (MCCases) | For movies, and for the rows added for what Bazarr does not see, a forced sidecar does keep a row back. | `coverage_engine.py:706`: "A FORCED sidecar is not full coverage" |
| `PerFileRowsWin` (MCCases) | A declaration for the series overrules what the machine heard in one file. | `coverage_engine.py:1414`: "Per-file rows always win" |

Smaller differences that were met while modelling, and are in the operators as the
code has them: in a ranking a tie of two recipes is a win of the first
(`arena_store.py:248`); the gaps page keeps rows its own filter for
English audio hides when the tag is "en" (`routers/coverage.py:360`), and counts
before it filters (`routers/coverage.py:275`); the pattern for S01E10 also finds S01E100
(`auto_queue.py:183`); a row that Whisper verified foreign loses the Bazarr-blind
mark it was listed for (`coverage_engine.py:2758`); one failure in the folder of a film marks
every probe of it failed (`coverage_engine.py:1190`); a forced reprobe that meets a running eager
walk joins it and probes nothing (`probe_walker.py:324`); withdrawing a verdict asks for
no coverage build (`routers/audio_lang.py:494`); clearing the history does not drop
its cache (`routers/queue.py:799`); two files with one basename share an entry of the
history; the audit yields the GPU to sweeps that run, not to those that wait for
capacity (`app.py:717`).

### Bounds

Bounds count things (rows, scans, lists, disturbances, changes of health) that
the program does not; every other guard is the code's. They appear in the
CONSTANTS of each module marked "bound" and only disable further creations.
One disturbance at a time is enough for the properties here because each
restart resets the memory it touches; where two matter (two outages of subgen, a restart
of it and then one of subarr, a loss and a resubmission, a replaced file and a
restart during its probe) the configuration has two. Three changes in `services`
let a verdict be given, its file be replaced and the new file change again while a pass is
under way. One row is enough in `loops` for what a build and a walk do to each other, and
two rows with `EagerCap = 1` for what rows do to each other (`ReportIsAnalyzed`; the safety
properties of CoverageRefresh were checked with them as well). `ReportIsAnalyzed` excepts the
time in which as many rows as a walk has places cannot be stat'ed (`Crowded`): these
take the places for ever, which is `BacklogDrains` above. A second file of a scan matters
to `LostAreMarked`, since the runner's save after it erases a mark of the first; the
property therefore claims only that the mark is made, and that it stays where the
runner was through. No run uses a finite subgen capacity: the gate only ever
reduces what a tick submits. The sets of the cases are small because the operators
compare for equality and order only: two languages that differ, a language without a
three-letter form, two files and a third, equal and unequal sizes.

### Fairness

- QueueFeeder: the loop ticks and its awaits return (WF `TickStep`, posts
  resolve, subgen finishes, time passes); subgen answers infinitely often if asked
  infinitely often (SF `QueueAnswered`), which the client's timeouts and the loop's
  interval justify. Users and producers owe nothing; a feed kept paused, or closed by
  a target of zero, is an exception in the property itself.
- Completion: only the watcher's own loop is fair, not on-demand ticks, nor
  webhooks, which may be lost. Requests to Bazarr may fail, but not for ever (SF). A
  library that was removed need not come back; while it is gone and has an open row, nothing
  is claimed.
- CircuitBreaker: callers poll for ever (they are periodic loops), a healthy
  upstream is reached infinitely often by a caller that tries infinitely often.
- ScanHistory: the watchdog's loop starts its probes, every probe's requests have a
  timeout and return, an outage ends, the runner's tasks go on. subgen need not
  finish anything, and the telemetry need not refresh. `LostAreMarked` is checked for
  the loop and the refresh: a probe asked for on demand that was answered just before an
  outage and is judged during it resets the count of misses, and an outage of exactly
  `BounceMin` probes then goes unnoticed.
- Approvals, and every module of `services`: none; safety properties only.
- CoverageRefresh: a timer fires, a build and the steps of a walk go on, and the
  periodic loop asks for builds. BazarrSync: its handlers and its trailing task go on, Bazarr
  answers or fails. HistoryCache: awaits return and the page that is open
  asks again; rebuilds may fail, but the property assumes that they stop failing. TrackSwap: a
  build that was asked for runs. In `loops` the fairness of what would move at rest
  (the page, the loop, the callers of a breaker) is asked only of the service in focus.

## 4. Proofs

TLAPS checks these for every value of the constants, from the ASSUME of each
module (finite sets of paths or callers, natural numbers, positive thresholds).
Each invariant that was strengthened was checked by TLC on a small instance
before it was proved.

| theorem | states | argument |
|---|---|---|
| `QueueTypeCorrect` (PendingQueue_proofs) | `QueueSpec => []QueueTypeOK` | `Writes` sorts the next-state relation into five ways of writing the table; `MovePositionsInt` bounds what a drag computes. |
| `Deduplication` | `[]OneActiveRowPerPath` | Inductive with the types. Only `Enqueue` makes a row active, and it looks for one first. |
| `SortKeysDistinct` | `[]DistinctPositions`, if `Rounding = FALSE` | `MidpointBetween` and `MoveSeparates`: a drop goes strictly between the target and its nearest neighbour on that side, so its place is free; promotions and appends go beyond the extremes. The assumption is needed: with rounding it is false. |
| `SortKeysImplementLists` | `QueueSpec => ImplementsOrderedQueue`, if `Rounding = FALSE` | A step of the numeric keys is a step of the lists. `OneList`: rows with distinct keys have one list in their order only (two would differ at a least place), so the mapping of a state is known as soon as a list in its order is. `OrderInv` says that every bucket has one, and `StepOrders` gives the list each method leaves: appended, removed, moved to an end, or put beside the target. |
| `FeederTypeCorrect` (QueueFeeder_proofs) | `[]TypeOK` | Strengthened by `HeldRow`: a row a tick holds across its await is still pending or gone, never submitted by someone else. Without it the submission could not be shown to be a step of the store. |
| `FeederImplementsQueue` | `Spec => QueueSpec` | `StepRefines`, one case per action: each calls one operation of the store or none. |
| `FeederDeduplicates` | `[]OneActiveRowPerPath` of the composition | From the two theorems before. |
| `FeederNeverDoubleQueues` | `[]NoDoubleQueue`, under `UserKeepsHanded` and `GraceSpansAnswer` | `QueuedOnceInv`: whatever is on its way to subgen (`PostsBacked`), listed there (`ListedBacked`) or about to be sent (`HeldPending`) has a row that deduplicates, and that row is young where the orphan sweep might look: no older than the submission, or than the lag plus the age of the answer in use. |
| `WaitingIsNotLost` | `PendingNotLost` | `StepLosesNoPending`: the sweep and the late verdict delete submitted rows, the marks delete none. No assumption about the user. |
| `DepthKept` | `SettingsSpec => []DepthIsKept`, under both inequalities on the graces, without restart of subarr and foreign work | `DepthInv` adds to `QueuedOnceInv` that a submission on its way is reserved (`SentReserved`), that what the answer in use misses is reserved (`MissedReserved`), that an answer counts what it names (`AnswerCounts`), and that the tick's depth is at least the number of files subarr has at subgen (`DepthCounts`). `OwnWorkCounts` turns submissions into files, which needs `NoDoubleQueue`; `FillStartsCounts` is the union of what is seen and what is reserved. |
| `OneOpenRowAlways` (Completion_proofs) | `[]OneOpenRow` | Inductive with the ledger's and the passes' types. |
| `FirstVerdictStands` | `Spec => VerdictKept` | Needs `HealList`: what the heal pass has on its list was closed when it was read and stays so, hence the outcome it sets is a correction and not a first verdict. `Steady` says what a step may do to the ledger, and each action is shown steady. |
| `NoVerdictUnderWay` | `NotHeldWhileUnderWay`, under `MinAgeSpansAnswer` and without resubmission | `FreshInv`: an open row is no older than its submission (`SentFresh`), and what the answer of a pass misses was listed since, so its row is no older than the lag plus the pass (`MissedFresh`). Most steps are `Calmly` taken: the driver goes on with its answer on no more rows, or drops it. |
| `ScanTypeCorrect`, `ScansEndAnswered` (ScanHistory_proofs) | types; `[]DoneIsAnswered` | `TasksInOrder`: a task has answers in its copy for every file before the one it posts, so the save that says "done" holds all; marks replace answers by answers. |
| `ApprovalsTypeCorrect`, `ListsSettle` (Approvals_proofs) | types; `[]StatusSettles` | Inductive with the types, the finiteness of the lists, and the fact that a request that works on no list has nothing to do. |
| `ApprovalsQueueTheirJobs` | `ApprovedIsQueued` | One action writes "approved", and it writes it with the job. |
| `BreakerTypeCorrect`, `BreakerNeverWedged` (Loops_proofs) | types; a breaker that blocks has a deadline, a closed one is below its threshold | Types and `BlocksOnlyForATime` are inductive together. |
| `RefreshTypeCorrect`, `RequestsArePromised` | types of CoverageRefresh; `[]NoRequestForgotten` | Inductive with the types; each way a build may end hands the note on or leaves the timer. |
| `TrustedProbesTrue` | `[]TrustedProbesAreTrue` | `ProbesDescribe` says the same of what walks hold between stat, ffprobe and record: a stamp is never newer than the file, and equal stamps mean equal tracks. |
| `RecordedApplied` (Services_proofs) | `[]RecordedIsApplied` | `BootInv` ties the open transaction to the process that holds it, and the work list of every migrating process to what is recorded. Needs `NoProcess \notin Processes`. |
| `SweepsMatchTasks` | `[]RunsMatchTasks` | `ArenaInv`: a deleted sweep that still runs is to be dropped, and only such a one is cancelled before shutdown. |
| `SparedWasHeard` | `[]VerdictsAreOfThisFile` | `ForcedInv` says of each scan under way, as of each row, that what it heard is the version whose mtime it took. |
| `BacklogKept` | `BacklogSurvives` | From `AftercareInv`: ids are handed out in order, so a new judgement of a path is the later one. |
| `LoopsAreSafe` (Loops_proofs) | `LoopsSpec` => what the three theorems before say of the breaker and, unless the focus is the report of two rows (`NoReport`), of the snapshot | `EachLoopAsAlone`: a step of the composition is a step of each service or leaves it alone. The report is another instance of CoverageRefresh, of which the theorems before hold by themselves. |
| `VerdictsKeepTitles` (Services_proofs) | `[]VerdictKeepsItsTitle` | `TitlesInv`: the paths a pass is about to move a row between are of one title, through every look at the disk; rests on the assumption that a name token and the id of the arr agree on what a file is. |
| `FindingsStayCurrent` | `[]FindingsAreCurrent` | `FindingsInv`: no mtime is from the future, and what is heard while the audit listens is the content its list names or that is gone. |
| `ServicesAreSafe` | `ServicesSpec` => the six safety properties above and the six below | `EachAsAlone`, as for the loops. |

The cases (`Cases_proofs`) are proved in two layers. A general theorem says of any input
what the property says of a case:

| theorem | states, for any input | serves |
|---|---|---|
| `SwapCuresAnyFile` | a swap that is offered leaves a file whose default track is the original one, whatever its tracks | `RemediesFit` |
| `GateMatchesDispatchAnyFile` | the gate keeps a row back if and only if subgen would write nothing the row waits for, for rows that wait for some language (`Awaited`) | `RemediesFit` |
| `FolderTasksFitAnyFolder` | a task for a folder is right for each file in it | `RemediesFit` |
| `CoveredByWantedAnyEpisode` | an episode is called covered only by a full subtitle in a language it waits for | `RowsFit` |
| `UserVerdictWinsAnyFile` | a user's verdict on a file stands in its row and clears the doubts | `RowsFit` |
| `BlindRowsAreNewAnySeries` | the rows added for what Bazarr does not see double no file | `RowsFit` |
| `WantedOnceAnyLibraries` | a wanted title is looked after by exactly one instance | `RowsFit` |
| `RelinkOneToOneAnyFiles` | the rules offered, for rows of either store, give a file to one row at most and move none to a file of another size; a row with a verdict keeps off files with verdicts, one with a probe only off probed files | `FilesAreMatched` |
| `IdsNameTheirFileAnyLibrary` | the id a file is reported with is resolved back to the file and its series | `FilesAreMatched` |
| `ReviewPagesAnyRows` | the pages of the review list show each row of any list once, keep a series on one page and end where they say, whatever the size of a page | `PagesShowAll` |
| `HistoryIsWholeAnyAttempts` | the history shows no failure of a file that has a newer attempt, and shows or counts every attempt on a file at rest | `PagesShowAll` |
| `RetimeKeepsCuesAnySubtitle` | in a subtitle whose cues follow one another retiming brings no text forward, ends none sooner, makes no cue too fast and lets no two overlap | `RetimeKeepsCues` |
| `BetterEverywhereRanksBefore` | a recipe that scores better in every language has no lower overall mean; it ranks before, unless rounding makes the means equal and the other has as many wins; a lead of two hundredths is enough | `RanksFollowLanguages` |

Their hypotheses say what the inputs are (types, subtitles whose cues begin one after
another, rankings of which each recipe was tried somewhere) and nothing of what is to be shown.
Two of them compute by recursion, and the library's induction theorems cannot be
applied to that here; the induction is done on sets instead. Retiming is a left-to-right pass in
which each loan depends on the one before: of the numbers of cues without loans there
would be a least one (`LoansExist`). The sums of a ranking are folds: a set that contains the
empty part, and each part whose smaller one it contains, contains all parts of a finite
set (`EveryPart`), and with it `PartsAreSums` and `SumMore` follow.

The lists need no recursion at all: what the code sorts, filters or groups is
described by the places of its elements and an order on them (`Places`). That a total
order finds each place once (`EachPlaceOnce`) is shown by counting: the number of
places before a place is an injection into as many numbers. So sorted rows are the same
rows, the groups of rows come one after another (`GroupsInOrder`), each falls on one
page (`PagesOf`), and what is laid out page by page is laid out whole (`LaidOut`).

`CasesAreMade` says that every case that is put satisfies the hypotheses
(`CaseOK`), and `CasesRemediesFit`, `CasesRowsFit`, `CasesFilesAreMatched`,
`CasesPagesShowAll`, `CasesRetimeKeepsCues` and `CasesRanksFollowLanguages` conclude
`CasesSpec => []property`.

Hypotheses that are not ASSUMEs of a module stand in the theorem:

- `UserKeepsHanded`: the user deletes no row that is being submitted or was handed over.
  DELETE does not refuse such a row (a known counterexample above), and with one of these
  deletions the property is false, so the theorem says exactly what the deletion costs.
- `GraceSpansAnswer` (`OrphanGrace > SurfaceLag + TickSpan`), `ReservationSpansAnswers`
  (`InflightGrace > SurfaceLag + 2 * TickSpan`) and `MinAgeSpansAnswer`
  (`MinAge > SurfaceLag + PassSpan`): the constants of the code (60 s, 30 s and 120 s)
  against how long subgen takes to list a submission and the process to work with an
  answer. The code states the constants and cannot enforce the other side; these are
  the delays under which it keeps its promises. The factor 2 is that of a reservation
  stamped with the time of a tick's start, used by the end of a later one. Every
  configuration whose run checks the property satisfies its inequality.
- no `subarr_restart` and no `foreign` work in `DepthKept`: a restart loses the
  reservations, and when subgen lists a file for another client, a tick drops the
  reservation of subarr's own submission of it, which is forgotten if the other one is
  finished first. TLC finds both (`FeederDepth.cfg` with one of these faults), and a
  depth that is exceeded with `OrphanGrace = 2` as well.
- no `resubmit` in `NoVerdictUnderWay`: it defeats the minimum age (a known counterexample above).

Some definitions were rewritten for the provers and mean what they meant: set
differences of `SUBSET` in CoverageRefresh and TrackSwap have parentheses,
`Replaced` of CoverageRefresh is one function, what the cues of Subtitles lend each other
(`Lent`) is a function of its own, the sums of ArenaScores are folds of functions, and the
lists of Review and History are picked by their places where `SelectSeq`, `SortSeq` and
`FlattenSeq`, which recurse or take an operator, would say the same. Boot has the additional assumption
that "no process" is not a process.

Only model-checked:

- liveness and the fairness it needs, which this prover does not reach: `PendingDrains`,
  `SubmittedResolves`, `RowsClose`, `EpisodesHeard`, `HoldBackEnds`, `CapsFollow`,
  `LostAreMarked`, and all temporal properties of `loops`;
- what ends in a counterexample: `DecisionsStand`, `UserWordStands`, and the list above.

## 5. Plan

The order so far: the queue and its feeder first, because every file passes
through them; then what closes a job (Completion), what protects the requests
(CircuitBreaker), what a restart of subgen does (ScanHistory), and how work
enters (Approvals); then the report that decides what is missing
(CoverageRefresh, CoverageRows), what it rests on (Verdicts, AudioTracks,
Sidecars), and the services around it.

Next proofs: types of `Completion`, `Arena` and `Aftercare` as theorems of their own;
`RowsMoveWhole` of Verdicts; the pages of the gaps list, as those of the review list.

Next modules, where there is something left: the runner's event stream
(bounded queues, replay for late subscribers, the final event), the sweep of
`pending_reconcile.py` as an action beside the feeder's reservations, and due times and run-now
of the scheduler.

## 6. Not modelled, and why

The audio and language models, the quality estimators and the sampling of audio are
computations on data a model checker does not reach; the modules take their
answers as inputs. Sanitising of subtitle text works character by character.
Configuration, discovery, path translation and the integration clients are I/O or
string rewriting without shared state (the helpers of the clients are in CircuitBreaker, a
library taken out of the settings is a fault of Completion). Request
filters, credentials and the login throttle stand apart from everything the
service does with media. Telemetry, logging and error reports are written and never read
back. The browser interface polls. Study and tuning scripts are not part of the
service. In the modules themselves: hours-long windows of the history and
ledger queries, several Bazarr instances in Completion, and whatever section 2
names as left open.
