# TLA+ models of the BitTorrent download service

This directory holds TLA+ specifications of the Node.js download service in `src/`. TLC checks them.

The service handles these requests over HTTP:
- it adds torrents from magnet links;
- it downloads them with WebTorrent;
- it keeps a record of each one in SQLite, through Prisma;
- it pauses, resumes, selects files and removes torrents on request.

At start-up it restores unfinished downloads. Three timers run alongside:
- a progress sampler, every 5 s;
- a file-progress tracker, every 10 s;
- a disk-quota enforcer, every 6 h.

Everything runs on one Node.js thread. Concurrency therefore comes from the interleaving of `await`s, un-awaited promise chains, timers and engine callbacks. The models make each such segment one atomic step.

Note on file layout: the repository stores `torrent-service.js` as `src/prisma/migrations/20250516074546_add_is_paused_field/migration.sql`, and `disk-manager.js` inside `src/services/db-service.js` (lines 393-719). Line numbers below refer to those files.

## Parts of the system and how they interact

| Part | Code | State it owns | Talks to |
|---|---|---|---|
| Store (dbService) | `db-service.js` 1-390, schema `src/unnamed/part_002` | TorrentRecord and TorrentFile rows | everyone |
| Lifecycle manager | `migration.sql` 78-688 (addTorrent, processMetadata, restoreDownloadsFromDatabase, toggleTorrentState), `api-routes.js` POST /add, DELETE /torrent, POST /toggle, POST /select | the in-flight requests and their un-awaited store chains | store, engine, disk manager |
| Progress sampler | `server.js` 132-211 | none; it writes the store | engine, store |
| File-progress tracker | `server.js` 213-256, `db-service.js` 343-390 | none; it writes the TorrentFile rows | engine, store |
| Disk manager | `db-service.js` 398-716 | `activeTorrents`, the files on disk | engine (through the `torrent` event), store (deleteTorrentFiles) |
| WebTorrent engine | external package; wrapper in `src/unnamed/part_003` | sessions (`client.torrents`), files on disk | calls `ontorrent` and emits `torrent` on 'ready' |
| Streaming routes | `stream-routes.js` | the open responses | engine (its file streams), store (the record's file rows), disk |

The parts interact as follows:

- **Add.** A POST /add runs `addTorrent`.
  - If a session for the infoHash exists, it is removed and re-added after 1 s. Otherwise the torrent is added at once.
  - At 'ready', `ontorrent` resolves the request. It then calls `processMetadata`, which selects the video files and starts an un-awaited chain: `createOrUpdateTorrent`, then `addTorrentFiles` (deleteMany followed by the creates).
  - The client's `torrent` event registers the infoHash with the disk manager.
- **Sampler.** The sampler walks `client.torrents`. For each torrent it updates the record, or creates the record and its file rows when there is none.
- **Restore.** At start-up, restore reads the unpaused, unfinished records and re-adds them. It re-applies the stored file selection when the file counts agree.
- **Streaming.** GET /stream, /download and /api/stream serve a file from the live torrent. The last two otherwise read the record and serve the file from disk, after `access`, `stat` and an asynchronous open; a delete can come between any two.
- **Quota.** `performCleanup` deletes the oldest directory whose name is not in `activeTorrents`. It stops when enough space has been freed, or after 10 attempts.

## Modules

The modules build on each other in this order:

```
TorrentParams ─┬─ TorrentStore ───────────┬─ ProgressSampler ─┐
               └─ SwarmEngine ─ QuotaEnforcer ─ TorrentLifecycle ┴─ TorrentSystem ─ MC_TorrentSystem
FileProgressTracker ─┬─ FileServing ─ MC_FileServing
StreamRoutes ────────┘
```

### TorrentParams

Shared constants:
- `Ids`: infoHashes, as model values.
- `FileIdx`: the files of a torrent.
- `MaxRows`: the bound on copies of the file rows.

`Progress` counts completed files (0..|FileIdx|). Progress 1 of the code is therefore `Complete`.

### TorrentStore

The variable is `db`, which maps each infoHash to `NoRec` or to a record holding:
- `paused`;
- `progress`;
- `completed`, which counts dateCompleted writes;
- `rows`, the number of copies of the file-row set;
- `sel`, the persisted selection.

Each dbService function is an operator with the same name. Each is one query plus its continuation:

| Operator | Code | Behaviour |
|---|---|---|
| `createOrUpdateWrite` | createOrUpdateTorrent | Its findUnique is a separate step. The write fails when the record appeared or vanished meanwhile: a unique violation, or P2025. |
| `updateTorrentProgress` | updateTorrentProgress | A no-op on a missing record: P2025 is caught. |
| `deleteFileRows` / `createFileRows` | addTorrentFiles | deleteMany / the creates. |
| `deleteTorrent` | deleteTorrent | The file rows go by cascade. |
| `setPaused` | pauseTorrent / resumeTorrent | |
| `updateTorrentFileSelection` | updateTorrentFileSelection | |
| `getActiveTorrents` | getActiveTorrents | |

### SwarmEngine

This is the environment: WebTorrent is not code of this repository. Its variables:
- `sess`: per infoHash, the session, or `NoSess` when the infoHash is not in `client.torrents`;
- `disk`: the files present on disk.

A session records:
- `meta`: 'ready' has been reached;
- `got`: the completed files;
- `sel`: the selected files;
- `done`;
- `paused`;
- `cb`: which `ontorrent` closure will run.

Engine behaviour:
- `clientAdd` ignores a duplicate, as WebTorrent does.
- `Verified` is the piece verification at 'ready'.
- `DownloadFile` completes a selected file. It sets `done` once every selected file is complete, which is what WebTorrent does.
- `SessionError` destroys a session.

### QuotaEnforcer

The disk manager. Its variables:
- `active`: `activeTorrents`;
- `cleanup`: the running `performCleanup`.

Its actions:
- `CleanupStart`: the threshold check and `sizeToFree`.
- `CleanupPick`: the loop head and `getOldestInactiveTorrent`.
- `CleanupSize`: `getDirSize`.
- `CleanupRemove`: `removeDirectory`, which may fail.
- `CleanupEnd`.

`CleanupSize` may count any size up to the directory's: `getDirSize` catches a failing `readdir` or `stat` (an entry deleted meanwhile) and returns the sum so far. Sizes are counted in files, and `sizeToFree` is kept in tenths so that `0.9 * maxDiskSpace` stays exact. A directory is named after the torrent, as WebTorrent names it: the `storeName` the code passes is not a WebTorrent option, and the code's comments (migration.sql 182-186, 501) say so. `Exempt` compares that name with the infoHashes in `activeTorrents`. Which of the remaining candidates counts as "oldest" is left free.

### ProgressSampler

The variable is `smp`, the sampler's program counter and snapshot. It has one action per `await` of the 5 s loop:

| Action | What it does |
|---|---|
| `SamplerTick` | Fixes the set of torrents to walk (the array at the tick). |
| `SampleRead` | Snapshots progress. Applies `progress === 1 && !torrent.done`, which stamps dateCompleted and sets `done`. |
| `SampleLookup` | The lookup query. |
| `SampleUpdate` | Updates an existing record. |
| `SampleCreateFind` / `SampleCreateWrite` | The create branch: createOrUpdateTorrent. |
| `SampleFilesFind` / `SampleFilesDelete` / `SampleFilesCreate` | getTorrentByInfoHash, then addTorrentFiles. |

A torrent that is gone before its turn is skipped.

### TorrentLifecycle

Its variables:
- `phase`: booting, restoring or running;
- `restoreSnap`;
- `addReq` and `addChain`: POST /add and the remove-then-re-add path;
- `togglePc` and `removePc`: the pending continuations of toggle and remove;
- `jobs`: the un-awaited processMetadata and /select chains;
- `crashes` and `reqs`: bounds;
- `removedAck` and `toggleResult`: ghosts recording what the client was told.

Actions:
- **Add.**
  - `PostAdd`: the route. A body without a magnet link, or one not starting with `magnet:?`, is answered 400 and changes nothing; otherwise it runs `AddRequest`. The awaited `searchMagnetInfo` is a stub that resolves at once.
  - `AddRequest`, `AddAfterRemove`, `AddTimeout`: the 60 s timer rejects the request and cancels nothing.
  - `addReq` and `addChain` hold one request per infoHash, so the model takes no second POST /add of an infoHash while one is pending or in its 1 s re-add delay. The code does not prevent that double add (spec.md section 8); it is left out to keep the state space within a run.
  - `Ready`: `ontorrent` (`onTorrentAdd` → `processMetadata`, or `onTorrentRestored`), then `registerTorrent`.
  - `MetaFind`, `MetaWrite`, `MetaFilesDelete`, `MetaFilesCreate`: the processMetadata chain.
- **Remove.** `RemoveRequest` removes the session synchronously and, with deleteFiles, its store. With deleteFiles, `deleteTorrentFiles` follows. Its synchronous `existsSync` of the infoHash directory always fails, because that directory is never created. It then looks up the record within the request and deletes the record-name directory. Then come `RemoveDbFind` and `RemoveDbDelete`. The response is success either way. `removePc` holds one DELETE per infoHash, so a second DELETE of an infoHash whose first is still awaiting is not modelled.
- **Toggle.** `ToggleRead` finds the record and pauses or resumes a live session. `ToggleWrite` writes isPaused. The null dereference at migration.sql:649 is the `throws` flag.
- **Select.** `SelectRequest` selects in the session at once. `SelectFind` and `SelectUpdate` persist the selection.
- **Restore.**
  - `RestoreRead` is the awaited `getActiveTorrents`.
  - `RestoreAdd` is the synchronous loop of `client.add` calls.
  - The periodic tasks start only when `phase` is "running".
- **Crash.** `LifecycleCrash` loses every session, timer, chain and `activeTorrents`. The store and the disk survive. A SIGINT or SIGTERM under `app.js`'s `gracefulShutdown` ends the same way: `process.exit` runs once `server.close` calls back, or after 10 s, and waits for no store chain or timer. `start.js` runs `server.js` directly, which has no signal handler, so a signal kills the process outright.

### TorrentSystem

Composes the modules above:
- `Next` interleaves the lifecycle, the engine, the sampler, the quota enforcer and crashes.
- `TypeOK` is the conjunction of the component type invariants.
- The properties are defined at the end of the module.

### FileProgressTracker

A stand-alone model of one torrent's TorrentFile rows. Its variables:
- `rows`: a sequence in result order;
- `gen`: which `addTorrentFiles` call created the current row ids;
- `adding`: for each of the two callers of `addTorrentFiles` (processMetadata's chain and the sampler's create branch), whether its deleteMany has run and its creates are pending;
- `prog`: the engine's per-file progress;
- `tr`: the tracker's loop.

`UpdateFind` and `UpdateWrite` are the two awaits of `updateFileProgress`:
- find the row with `index === i`;
- if there is none, use `files[i]` and also set its index;
- a row replaced meanwhile makes the update fail with P2025, which is caught.

`addTorrentFilesDelete` is the awaited deleteMany and `addTorrentFilesCreate` the creates, in one of the orders in `CommitOrders`. The two callers interleave, so the rows can hold two copies. Rows from `processMetadata` carry index 0 and progress 0. The sampler's rows carry the ordinal and the file's progress.

### StreamRoutes

The three GET handlers of `stream-routes.js` for one torrent. Its variables:
- `rows`: the record's TorrentFile rows, shared with FileProgressTracker;
- `live`: `client.get` finds the torrent with its files;
- `ondisk`: the files present in the torrent's directory;
- `req`: the request's route, what it asked for, the file it resolved and its stage;
- `answers`: the status lines sent on the current response.

| Action | Code |
|---|---|
| `StreamByIndex`, `Download`, `StreamByName` | the synchronous head of each handler: 400 for a NaN index, the engine's file when live, else 404 (`/stream`) or the record lookup |
| `RecordLookup` with `DownloadRecord` / `NamedRecord` | `getTorrentByInfoHash().then`: `files[index]` by position, or `files.find` by name |
| `AccessName`, `AccessHash` | the two `fs.promises.access` checks, torrent-name directory first; the infoHash directory is never created, so `AccessHash` always fails |
| `StatFile` | `stat`; a file gone since `access` answers 500 or 404; `/api/stream` calls `writeHead`, which sends the status line |
| `OpenStream` | the read stream's open, after which the file on disk is piped (`piping`, as opposed to the engine's `streaming`); on failure the `'error'` handler answers 500 only when no header was sent, else leaves the response open (`stalled`) |
| `StreamEnd` | the piped stream, from the engine or from disk, ends |
| `TorrentLive`, `FileWritten`, `FileDeleted` | the rest of the program: a session added or removed, the engine writing a file, the enforcer or DELETE deleting one |

Range headers change only the status line and Content-Length, which no property reads, so a ranged request is not told apart from an unranged one. Note for readers: the Range parsing (lines 41-58, 333-350, 473-488) has no 416 answer. A suffix range `bytes=-N` gives start NaN, and an end at or past the file size declares a Content-Length the stream does not send. These are pure computations that a unit test with those headers shows.

### FileServing

Composes FileProgressTracker and StreamRoutes over the shared `rows`. A step is a step of one of them. The tracker's timer and awaits are fair, and so are the continuations of a request the routes have taken (see Fairness).

### MC_TorrentSystem and MC_FileServing

These give TLC its constants:
- infoHashes `h1` and `h2`, as model values;
- `FileIdx = {1, 2}`, `VideoFiles = {1}`, so one video file and one other file;
- for the rows: the identity commit order; `NaN` is a model value.

## Runs

All runs use `MC_TorrentSystem`, one infoHash, two files, `MaxRows = 2`, `MaxSelects = 1`, and `MaxCleanupAttempts = 10` (the code's constant). The exception is `file_serving`.

| Run | cfg | Result | Bounds | What it shows |
|---|---|---|---|---|
| core_safety | TorrentSystem_safety.cfg | pass (408 K states, ~20 s) | 2 requests, 1 crash, quota never reached | `TypeOK`: every interleaving of the handlers, the tasks, the engine and a crash keeps records, sessions, jobs and requests in their types |
| progress_quota | TorrentSystem_progress_quota.cfg | pass (137 K states, ~1.2 min) | 1 request, no crash, quota 1 file, a one-file video torrent (so an added session can finish), partial directory sizes | `FinishedDownloadRecorded`: a download that finishes while its session lives is eventually stored as complete. `SessionsRecorded`: every torrent the engine runs eventually has a record while its session lives, even when processMetadata's chain fails. `StoredProgressConverges`: the stored progress of a running torrent ends up equal to the session's, although processMetadata's chain writes the progress it captured at 'ready', possibly over a newer one the sampler stored. `CleanupTerminates`: performCleanup always returns, even when removals keep failing and `getDirSize` under-counts |
| file_serving | FileServing.cfg | pass (329 K states, ~45 s) | 2 files, progress 0..1, 2 row replacements | `TypeOK`: the two interleaved addTorrentFiles callers leave at most two copies of the rows. `AnsweredOnce`: no response gets a second status line. `DownloadEnds`: a /download served from the record always ends with one status line, even when its file is deleted between access, stat and the open; `/api/stream` does not (see the Plan) |
| stamp | TorrentSystem_stamp.cfg | violation | 2 requests | `CompletedRecordsStamped`: no record ever gets dateCompleted, because the engine has already set `done` |
| resurrect | TorrentSystem_resurrect.cfg | violation | 3 requests | `RemovedStaysRemoved`: a pending processMetadata chain recreates the record after DELETE answered success |
| toggle | TorrentSystem_toggle.cfg | violation | 3 requests | `FailedToggleLeavesStoreUnchanged`: resume without a session writes isPaused=false, then fails with 500 |
| selection | TorrentSystem_selection.cfg | violation | 2 requests | `StoredSelectionMatchesSession`: processMetadata stores all files as selected while the session has only the video file selected |
| rows | TorrentSystem_rows.cfg | violation | 2 requests | `FileRowsSingleCopy`: the processMetadata chain and the sampler's create branch duplicate the file rows |
| durable | TorrentSystem_durable.cfg | violation | 2 requests, 1 crash | `AcknowledgedAddIsDurable`: a crash between the success response and the record write loses the add |
| evict_named | TorrentSystem_evict_named.cfg | violation | 2 requests, quota 1, name-named directories | `EvictionSparesLiveSessions`: the enforcer deletes a live torrent's directory |
| paused | TorrentSystem_paused.cfg | violation | 2 requests, no crash | `PausedRecordNotRunning`: a torrent paused while restore works from its snapshot, whose session the engine then drops, is re-added unpaused by restore while its record says paused |
| remove_add | TorrentSystem_remove_add.cfg | violation | 3 requests | `LiveFilesOnDisk`: DELETE's pending `deleteTorrentFiles` wipes the files of a session that a concurrent add created |

Each violation is recorded in `PROJECT.json` under "findings", with the source line and what it means for the program.

Every property of a passing run has a mutant in PROJECT.json: a plausible bug in the mapped code that TLC then catches. The mutants are:
- the file rows created for a missing record;
- the sampler never updating an existing record;
- the sampler skipping a torrent that has no record;
- the sampler skipping a torrent already marked done;
- the cleanup loop without its attempt bound;
- addTorrentFiles' deleteMany skipped;
- the stream's error handler answering without checking `headersSent`;
- the stream's error handler only logging.

### Why the bounds are enough

- **Races.** Every race above needs at most three requests against one infoHash. The counterexamples are 6 to 12 steps long.
- **Quota.** It is reachable only when `MaxDiskSpace` is at most the number of files. The lifecycle runs set it to 8 so that it stays out of the way. The quota runs set it to 1, so that one downloaded file triggers a cleanup.
- **Number of torrents.** A second infoHash adds nothing to the per-infoHash races checked here. It matters for the sampler's loop and for eviction choosing between torrents, which is in the plan.
- **Crashes.** The crash and restore run in core_safety. The liveness run has none: with a crash and partial sizes it exceeds five minutes, and a restart only re-runs the restore steps core_safety already covers.
- **File serving.** Two files are enough for the positional fallback to reach a row that was never given its index. Two row replacements let both callers of addTorrentFiles run their deleteMany before either creates, which is the interleaving that doubles the rows. A third replacement takes the run past two minutes.
- **Progress.** The liveness run uses a one-file video torrent: with `VideoFiles` a strict subset of the files, processMetadata leaves a file deselected and an added session never finishes, so `FinishedDownloadRecorded` would hold vacuously.

## Fairness

These steps are weakly fair, because the code itself drives them once they are enabled:
- restore (`RestoreRead`, `RestoreAdd`);
- the un-awaited processMetadata chain (`MetaStep`), since promise continuations run;
- the sampler and cleanup timers (`SamplerNext`, `QuotaNext`);
- the 60 s timeout and the 1 s re-add timer (`AddTimeout`, `AddAfterRemove`);
- in FileServing, the file-progress task's timer and its awaits (`TrackerTick`, `UpdateFind`, `UpdateWrite`, `TrackerEnd`);
- in FileServing, the continuations of a request already taken (`RecordLookup`, `AccessName`, `AccessHash`, `StatFile`, `OpenStream`), since settled promises and the open callback run, and the end of a stream read from a local file (`StreamEnd` in stage `piping`). A stream from the engine (`streaming`) waits on the network and is not fair.

These have no fairness:
- user requests, HTTP requests included;
- the engine: metadata, pieces and errors depend on the network;
- crashes.

## What is not modelled

- **Read-only GET routes of api-routes.js** (/list, /torrents/:id, /files/:id, /status, /health, POST /check). They change no state. Each reads the store and `client.torrents` at two different moments, around one `await`, so an answer can mix a record read before a DELETE or an add with sessions read after it; the next poll corrects it, and no comment or spec line promises a consistent cut.
- **Inside the streaming routes.** Range arithmetic, MIME types, byte counting for the system monitor, and errors of the engine's own file streams are not modelled. The Range arithmetic (`stream-routes.js` 41-44 and its copies in the other two routes) is sequential and a unit test reaches it directly: a suffix range `bytes=-500` gives `parseInt('')`, so the status line says `bytes NaN-500`; an `end` at or past the file size is not clamped, so `Content-Length` promises more bytes than the stream sends; `start > end` gives a Content-Length of zero or less. None of it depends on an interleaving. `/api/stream`'s disk half uses the same access actions as `/download`.
- **The DHT enhancer and bencode** (migration.sql 703-1413). They change no state that another part reads. `bdecode` is a placeholder that returns random node ids and no peers for every message, so there is no decoding algorithm to check against `bencode`.
- **Tracker utilities and the magnet-URI strings.** `normalizeInfoHash` is only `toLowerCase`, and the rest builds strings that no other part reads back. The infoHash is a model value.
- **The daily `cleanupDeletedRecords`.** Nothing sets `isDeleted`, so it deletes nothing.
- **The logger, config, system monitor and start script.**
  - `start.js` spawns `server.js` once, detached, with environment variables. It sets `MAX_DISK_SPACE`, which the config never reads (it reads `DISK_SPACE_LIMIT`), so the quota is the config default whatever the host.
  - The SystemMonitor (`start.js` 75-271, a concatenation of `system-monitor.js`) is synchronous bookkeeping: counters, a peak, and an error list kept to 20 entries by `unshift` then `pop`. It has no await and no interleaving: every call completes before another starts. Its one notable behaviour is sequential and a unit test reaches it directly: errors never expire, so after eleven errors (for instance eleven malformed JSON bodies, which reach the error middleware) `/health` answers 503 for the rest of the process's life. A run of its own would add nothing a test does not show.
- **Inside the engine.** Peers, pieces and upload are abstracted to "a file completes".
- **Overlapping sampler ticks.** `setInterval(async …)` does not wait for the previous tick; the model runs one tick at a time.
- **Double adds and concurrent DELETEs of one infoHash.** See TorrentLifecycle: one POST /add and one DELETE per infoHash are in flight at a time.
- **File-progress tracker inside the system model.** It is checked with the streaming routes, for one torrent whose record exists, not with the sampler's and processMetadata's chains.

## Plan

Later work, in this order:
1. Two-infoHash configurations, to check the sampler's walk of a mutating `client.torrents` and eviction choosing between torrents.
2. A run for a stored pause handled during a re-add's 1 s delay. TLC reaches the `PausedRecordNotRunning` violation that way too, in nine steps with three requests; the paused run shows the restore path.
3. An abstract specification of the torrent lifecycle (absent, added, paused, removed), with the detailed model shown to refine it through `INSTANCE … WITH`.
4. Overlapping sampler ticks, and the file-progress tracker composed with the sampler and processMetadata chains.
5. A run for the `/api/stream` response left open when the open fails after `writeHead`, once a run slot is free.
