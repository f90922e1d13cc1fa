# Verification of xpiks

Xpiks is a desktop application (C++, Qt 5) for stock photographers: it imports
images, vectors and videos, lets the user edit titles, descriptions and
keywords, saves them with exiftool and uploads the files to microstock agencies.
This directory holds TLA+ models of its core, TLC configurations that check
them on small instances, and proofs checked by TLAPS. Paths below are relative
to `src/xpiks-qt/` of the repository unless they say otherwise.

## 1. Inventory

| Component | State | Operations | Talks to | What is hard | What makes it correct |
|---|---|---|---|---|---|
| Background worker queue (`Common/itemprocessingworker.h`, `ManualResetEvent`) | a deque, the next batch id, a cancel flag, an idle event, unreported results | submitItem, submitFirst, submitItems, submitSeparator, cancelBatch, cancelPendingJobs, stopWorking, waitIdle; the worker loop | every service below | one thread pops while many push, cancel, stop and wait | a job runs at most once, never after its batch was cancelled; a drained queue is announced; a stopped worker ends |
| Asynchronous coordinator (`Helpers/asynccoordinator`) | operations pending, reported flag, a timer | reset, aboutToBegin, justEnded, allBegun, cancel, onTimeout | storage shutdown, start-up, import, export | operations end on other threads; one object serves many rounds | one report a round; "all done" only when all is done |
| Import (`MetadataIO/metadatareadinghub`, `readingorchestrator`, `metadataioworker`, `metadataioservice`; `Artworks/artworkmetadata`) | snapshot, import queue, coordinator; job queue, storage queue, cancelled imports; flags of an artwork | initializeImport, push, proceed / cancel / skipImport, onCanInitialize; Read, Write and Add jobs, separators, importArtworksFromStorage | exiftool reading threads, the storage thread, the user, the main thread | two sources race to initialise an artwork; the user decides while they run | an artwork is initialised once the import is over; backups never overwrite what the user asked to ignore; an edit survives |
| Export (`MetadataIO/metadatawritingworker`, `writingorchestrator`, `metadataiocoordinator`; video caching) | locks of the artworks, coordinator, exiftool run; the thumbnail queue | writeMetadataExifTool, startWriting, process, unlockAllForIO; processOneItem | the thumbnail worker reads the files exiftool rewrites | a lock flag and an idle event stand in for a mutex; edits go on during a run | exiftool never runs while a thumbnail is taken of a file it rewrites |
| Artworks collection (`Models/Artworks/artworksrepository`, `artworkslistmodel`, `UndoRedo`, `Commands/Files`) | list, directories, file set, selection, removed flags, one undo slot | addArtworks, removeFiles, removeDirectory, restoreRemoved, deleteRemovedItems, selection | everything that holds a snapshot | removal is in two stages and undoable | counts equal the files; an undo restores |
| Metadata storage and delayed saving (`MetadataIO/metadatacache`, `metadataioservice`, `Common/delayedactionentity.h`, `Storage`) | a timer per artwork and one of the service, jobs of the storage thread, a log of additions and one of changes, a table | edit, editingPaused, read, write, add, sync, finalize | the editing hub, import, export, the video thumbnail worker | a job reads its artwork when it comes, not when it was queued; timers restart each other; flushes fail in part | every change has a sync ahead of it and reaches the table; nothing without edits replaces a saved edit |
| Image cache (`QMLExtensions/imagecaching*`, `cachingimageprovider`, `dbcacheindex.h`, `Storage/writeaheadlog.h`) | thumbnails on the disk, an index of log, memory cache and table, the request queue | requestImage, cacheImage, tryGet, put, sync, compact | QML's loading threads, the database | one thread reads log, memory and table one after the other while another moves entries between them; thumbnails outlive the entries about them | an outdated thumbnail is noticed; a request is served; a failed flush loses nothing |
| Selection of warnings, spell check, auto-complete, translation (`Services/*`) | worker queue, dictionaries, per-artwork flags | submit keywords or artworks, cancel, add word | editing models | results are applied by events after the item changed or went away | a result is applied to what it was computed from |
| Upload (`Connectivity`, `Models/Connectivity`, `libxpks_stub/Connectivity`) | hosts, batches, progress, failed files | upload, cancel, finish | ftp pool threads, zip archiver | several uploads share a semaphore; they are cancelled half way | every host finishes once; a failed file is reported |
| Session, maintenance, settings (`Models/Session`, `Services/Maintenance`, `Models/settingsmodel`, `Helpers/localconfig`, JSON merge) | saved sessions, settings map | save, restore, rotate | file system | saves overlap; files are missing | the latest session is saved |
| Keywords and presets (`Artworks/basickeywordsmodel*`, `KeywordsPresets`) | keyword list, spelling flags, presets and groups | append, edit, remove, replace, expand; preset edits | editing commands | list and set must agree under every edit | no duplicate keyword |
| Editing tools (`Models/Editing`, `Suggestion`) | combined edits, quick buffer, find and replace, suggestions | merge, copy, replace, search | artworks, undo | they act on a snapshot | undo gives back what was there |
| Microstock clients (`Microstocks`, `libxpks_stub/Microstocks`), updates, telemetry (`Connectivity`) | queries in flight | search, download, report | network | answers come late | - |
| Plugins (`Plugins`) | loaded plugins | load, notify | shared libraries | foreign code | - |
| QML user interface, installers, recovery tool, vendored libraries | - | - | - | - | not modelled: no logic of their own, or not of this project |

The application has one main (GUI) thread; background services own one thread
each, fed through the worker queue; reading and writing with exiftool happens on
a fresh thread per run; signals that cross threads are queued to the main
thread's event loop. Almost every hazard of the code sits at these crossings.
`PROJECT.json` lists the hazards at their lines.

## 2. Plan

Written, in this order:

1. `ItemProcessingWorker`, the queue under every service, with `JobQueue`, what
   its owners rely on (checked and proved).
2. `AsyncCoordinator`, the counting barrier, with `CoordinatorRounds`, the
   protocol of its users (checked and proved), and `Startup`, a user of its own.
3. `VideoExport`: the export lock and the thumbnail worker; implements `CoordinatorRounds`.
4. `ImportPipeline`: reading hub, storage worker and the initialisation of
   artworks; implements `CoordinatorRounds`.
5. `ArtworksCollection`: repository, list and undo history.
6. `ArtworksUpload`: dialog, coordinator, workers and semaphore.
7. `EditSaving`: delayed saving and the logs of the local storage (checked and proved).
8. `ImageCache` with `WriteBehindStore`, what a log in front of a table promises
   (checked and proved).
9. Proofs of `Startup`, `VideoExport` (with its refinement), `ArtworksUpload`,
   `ImportPipeline` (with its refinement) and `ArtworksCollection`.

To come, in this order:

10. Keywords and presets: the list and set of keywords under every edit.
11. The spell checker's results, applied by events after their artwork changed.

## 3. Models

A step of a model is what the code does without another thread noticing: one
critical section, one atomic operation, one slot of the main thread's event
loop, one virtual call. Names of variables that start with `m_` are those of the
code. History variables, which only properties read, are said to be such where
they are declared. A module holds, next to some definitions, an erroneous
variant of it (a dropped guard, a forgotten step) that no specification uses:
`PROJECT.json` pairs each property with a variant under which TLC finds it
violated, so that no property holds by the shape of its model.

### ItemProcessingWorker, JobQueue

`Common/itemprocessingworker.h`. The deque is a set of items with positions and
the end of it (so that theorems about it need no induction); a submission is two
steps, since `m_Cancel` is read before the mutex is taken. `worker.pc` is the
place in `runWorkerLoop`; `call[c]` is the call thread `c` is inside. Payloads
are abstracted to the batch and the rank in it; milestones, which only make a
handler sleep, are left out. That a service does not cancel pending jobs once it
stops is an assumption read off the callers; without it `StopEnds` fails. The
condition variables are their mutex and their predicate: that a notified thread
wakes up is taken as given.

- `worker_threads`: two threads, two batches, one separator, every interleaving
  with the worker. `WithdrawnStaysOut` (nothing of a cancelled batch is queued
  later), `AtMostOnce`, `DrainIsAnnounced`, `ResultsAreReported`, `WaitIdleWaits`.
  Two threads suffice: between two accesses a client has no state but its call.
- `worker_liveness`: a batch of two, `initWorker` may fail. The worker implements
  `JobQueue` (a job is accepted, starts alone and in its batch's order, finishes
  or is withdrawn); `StopEnds`; `JobsSettle`. A withdrawal of `JobQueue` may drop
  any job, so a cancellation that loses another batch's job is not caught. Weak fairness of the worker and of
  threads inside a call: the threads of a process run.

### AsyncCoordinator, CoordinatorRounds, Startup

`Helpers/asynccoordinator.cpp`. `AsyncCoordinator` has the object's operations
only; `justEnded` is a decrement and, for the thread that reached zero, a report
in a later step. `CoordinatorRounds` is the protocol its users keep: open,
announce, close, end. A coordinator either has a timer and may be cancelled and
serves one round, or has none and serves many; no user of the code does both
(a reset does not stop the timer, so one that did would report too early).

- `rounds`: three operations that hang or not; both kinds of coordinator, three
  rounds. `OneReport`, `AllDoneMeansDone`, `NoStaleReport`, `RoundIsReported`.
  Fairness: the event loop delivers, and without a timer operations end.
- `startup` (`Startup`, `XpiksApp::start` in `xpiksapp.cpp`): five services of
  which two end an operation they never announced, two synchronous calls, a five
  second timer; services may hang. `InitializedOnce`, `AppStarts`.

### VideoExport

`MetadataIO/metadataiocoordinator.cpp`, the writing orchestrator and worker of
`libxpks_stub`, `QMLExtensions/videocaching*`. The main thread marks the videos,
waits for the idle event, starts exiftool on a thread and takes the marks back
when the coordinator reports. The worker clears the event before it looks at a
mark. exiftool may rewrite any of the files, fail, or outlast its time.

- `export`: two videos, two exports, two requests. `NoRace` (no thumbnail of a
  file while the export waits for the exiftool that rewrites it),
  `ThumbnailsSettle`, `ExportEnds`, and `FollowsRounds`: the export is a
  `CoordinatorRounds` of one operation. Strong fairness for `WaitWorkerIdle`:
  the idle event goes up and down while a locked request is submitted over and
  over, and the waiter, on a condition variable, must be scheduled while it is up.

### ImportPipeline

`MetadataIO/metadatareadinghub.cpp`, `metadataioworker.cpp`,
`metadataioservice.cpp`, `Artworks/artworkmetadata.cpp`, the reading orchestrator
and `Dialogs/ImportMetadata.qml`. The user adds files or reimports, a reading
thread pushes what exiftool delivers, the storage worker reads backups, the user
answers (proceed with or without backups, cancel, skip) or leaves with Escape,
and `onCanInitialize` initialises the artworks when both are over. The dialog
stays open after Start Import; Close answers the hub and closes it at once, which
`closed` records. The window takes commands when no dialog is open
(`openedDialogsCount`, here `NoDialog`), so that after Close the user may add files
or reimport while exiftool still runs: `InitializeImport` then overwrites what the
hub held and resets its coordinator, and the answers of the import that was
overtaken are marked `Overtaken`. Metadata are a title and keywords; jobs that
write an edited artwork are in `EditSaving`, searches are left out. Every how many
jobs the worker syncs or signals is abstracted to "at any".

- `import`: one artwork, two imports, all pairs of two files and two backups,
  Escape and Close allowed. `TypeOK`, `IgnoredStaysOut`, `EditsSurvive`,
  `ReadsAreImported`, `ImportEnds` (of an answered import that the user does not
  overtake: nothing forces the user to answer), `SourcesCommute`, and
  `FollowsRounds` until a dialog is escaped or an import overtaken. Two imports are
  the least for one to overtake the other; with one artwork, a cancellation that
  drops the backups of another batch is not caught.
- `import_reimport`: see findings.

### ArtworksCollection

`Models/Artworks/artworksrepository.cpp`, `artworkslistmodel.cpp`, `UndoRedo`,
`Commands/Files`. One thread; what is hard is the sequences of commands. An
action is a whole command: add, remove, remove a directory, edit, undo, dismiss,
select, lose a file, purge. Assertions of the code that fail are recorded in
`lib.broken`, and the model goes on as a release build does. The loops of the
code (`removeFiles`, `cleanupEmptyDirectories`, `addArtworks`, `restoreRemoved`,
the deletion of rows, `consolidateSelectionForEmpty`) are functions of the number
of rounds, each from the one before, so that one can reason about a round.

- `artworks`: two folders, three files, three artworks created, one file lost.
  `DirectoriesCountFiles`, `SelectionIsNeverEmpty`, `HistoryIsInSync`,
  `UndoTouchesItsOwn`, `UndoRestoresRemoved`.
- `artworks_remove`: see findings; it needs four artworks.

### ArtworksUpload

`ftpcoordinator.cpp`, `ftpuploaderworker.cpp`, `curlftpuploader.cpp` of
`libxpks_stub/Connectivity`, `Models/Connectivity/artworksuploader.cpp`,
`Connectivity/uploadwatcher.cpp`, `Dialogs/UploadArtworks.qml`. The main thread
sets up, starts, cancels and closes; a thread per host waits for the semaphore,
transfers its files, reports and releases. Signals to the main thread are a
queue; `cancelAll` is queued to a thread that looks only after its transfers.

- `upload`: two hosts and one permit, two files, two uploads, one after the other
  or, after a dialog that was closed under an upload, at once. `FinishTellsAll`
  (an upload reported as finished is; errors are announced exactly if a transfer
  failed, and all of them are shown by then), `UploadEnds`. Weak fairness of the
  workers and the event loop. That each of the three attempts of a transfer ends is
  assumed of the network: `Connectivity/curlhelpers.cpp` sets a time-out for the
  server's responses only, none for a transfer that stalls.
  `PermitsAreKept` is proved.

### EditSaving

`Common/delayedactionentity.h`, `Services/artworkseditinghub.cpp`,
`MetadataIO/metadataioservice.cpp`, `metadataioworker.cpp`, `metadatacache.cpp`,
`cachedartwork.cpp` and `Storage/database.cpp`. An edit starts the timer of its
artwork or, up to a limit, restarts it; when it fires, a write is queued and the
service's timer started, which in turn queues a separator. A job holds its
artwork and saves what this holds when the worker comes to it. New artworks wait
in `m_AddWal` (INSERT OR IGNORE), edited ones in `m_SetWAL` (INSERT OR REPLACE),
and a flush that fails in part puts back the changes only. Time is a `Tick` of
every running timer.

The content of an artwork is the number of its last edit, 0 where it has nothing
of an edit or of a backup, and `Merged` where an import has made it of the file and
the backup together. The end of an import (`EndImport`) and the arrival of the
backup (`ImportBackup`) are steps of their own, in either order: a backup that
comes first is taken as it is and the file may replace all, a part or nothing of
it; one that comes later fills gaps through the setters of an edit, up to three of
which restart the artwork's timer (`Setters`), so that a write follows although
nobody has typed. `Reimport` is one step from its command to its end and may come
at any time after the adding: the artwork has what its file says while its timer
runs and its writes wait. Readings of a batch that was cancelled stay in the queue
and are passed over. The end of the program has two stages: `XpiksApp::stop`
destroys the artworks first and ends the worker later. What differs between the
three ways an artwork is destroyed, and the batches of an export, is left out.

- `edit_saving`: a video the user may edit without end, which the thread of its
  thumbnail has written as well (an image is a video whose thumbnail never comes);
  two restarts; one failed flush, removal or end of the program, so that it is
  imported in up to two sessions. `NothingIsStranded` (a change that is queued or
  logged has a sync ahead of it), `SavedEditsAreKept`, `EditsReachTable`. Two versions
  tell "with" from "without edits" and an earlier edit from a later one. The timer of
  an edit takes a tick, that of the service may fire as soon as the event loop comes
  to it, which is every order a longer interval allows. Weak fairness of time, of
  each timer and signal that is due (the event loop runs) and of the worker; not of
  the user.

There is one artwork, since two exceed eighteen million states. Several artworks
meet only in the queue, in the sync timer and in the logs, of which each entry is
its own artwork's; the theorems are about any number.

`SavedEditsAreKept` says that what is saved of an edit is replaced only by a later
edit or by what an import made of it and the file. It leaves out artworks that an
export was told to overwrite although they have no edits, videos whose thumbnail was
written without an edit or before the import had ended, and artworks reimported or
destroyed while their timer ran or a write of them was queued (`exposed`): see
section 4. A merge may lose a part of the edit; which part, `SourcesCommute` of
`ImportPipeline` says. `EditsReachTable` ends with the edit in the table or
discarded by a reimport.

### ImageCache, WriteBehindStore

`QMLExtensions/cachingimageprovider.cpp`, `imagecachingservice.cpp`,
`imagecachingworker.cpp`, `dbcacheindex.h`, `Storage/writeaheadlog.h`. The
provider asks for a thumbnail on a thread of QML: the log, the memory cache and
the table are three steps, and filling the memory cache is a fourth. The worker
loads the image, saves the thumbnail, asks for the modification time, logs the
entry, and every `BackupStep` thumbnails empties the log, writes the table, puts
back what failed and compacts the memory cache, each in a step of its own. Files
change and thumbnails are removed at any time; a restart loses the log and the
memory, not the disk. `WriteBehindStore` is what the users of the log rely on:
one newest value a key, moved to the table by saving, lost only by a restart.

- `image_cache`: two images, a cache for one, two versions, two requests, one
  failed write, one restart. `ImplementsStore` (log, batch in flight and table are
  together a `WriteBehindStore`), `OutdatedIsNoticed` (any entry that can be found
  for an outdated thumbnail is older than the image), `RequestsAreServed`,
  `CompactionShrinks`. Weak fairness of the provider and the worker.

### Bounds

`MaxBatches`, `MaxSeparators`, `MaxRounds`, `MaxExports`, `MaxRequests`,
`MaxImports`, `MaxArtworks`, `MaxDirs`, `MaxLost`, `MaxUploads`, `MaxVersion`,
`MaxRequests`, `MaxServed` and `MaxQueue` stop what a user may repeat for ever;
`MaxFaults`, `MaxRestarts` and `MaxTroubles` what may go wrong. Each is at least two where the hazard is that one
operation meets what the previous one left behind, and faults are one where the
hazard is what a single fault leaves behind; three artworks are the least
for which one command's stale artworks and another's live ones share a folder
beside an unrelated one. `CHECK_DEADLOCK FALSE` where a behaviour ends when its
bounds are used up or a worker has stopped.

## 4. Findings

Two statements of the code are refuted by what it does (run by run):

- `import_reimport`: "we should not even get here when reimporting"
  (`artworkmetadata.cpp:92`). A backup read for the first import is still in the
  worker when the artwork is reimported; batch 0, which nobody has, is cancelled.
- `artworks_remove`: `Q_ASSERT(false)` (`artworksrepository.cpp:195`).
  `removeFiles` un-accounts every flagged artwork of the list, not those it was
  given; a file removed and added again loses its directory entry.

Further behaviours seen while modelling, for which no run is kept:

- "add 1 for the user to click a button" (`metadatareadinghub.cpp:54`): a dialog
  left with Escape leaves its round open; the next import resets the coordinator
  under the first one's reading thread, whose end then stands for the click.
  the question for exiftool, when it is rejected, closes the dialog in the same way.
  `ImportEnds` and `FollowsRounds` speak of the imports before that;
- Close (`ImportMetadata.qml:244`) closes the dialog although exiftool still runs, and
  the user may start the next import. `initializeImport` then takes the hub over:
  the artworks of the first import are never initialised, unless they are of the
  next one too, and the end of its reading counts for the next one, which may
  end before its own reading does. Both properties name this exception (`Overtaken`);
- two services end a start-up operation that they did not announce
  (`imagecachingworker.cpp:65`, `autocompleteworker.cpp:51`), so "all done" may be
  reported while others initialise; `Startup` models it;
- an exiftool that outlasts `waitForFinished` (`metadatawritingworker.cpp:168`)
  goes on writing after the videos were unlocked, which `NoRace` leaves out;
- `videocachingservice.cpp:96` passes the quality as the parameter `withDelay`;
  the requests of `VideoExport` are built the way the code does;
- `skipImport` of a reimport (`metadatareadinghub.cpp:92`) leaves the artworks empty;
- `restoreRemoved` asserts flags that an accounted file does not have
  (`artworkslistmodel.cpp:392`), and a restored file is not watched again;
- the only selected directory may be left selected when it is emptied
  (`artworksrepository.cpp:441`);
- the upload dialog closes by itself when all its files are gone; reopened during
  the upload it resets what is in progress (`selectedartworkscommands.cpp:121`),
  and a second upload takes over the counters of the first (`ftpcoordinator.cpp:121`).
  `FinishTellsAll` leaves such uploads out, `UploadEnds` does not;
- Stop does not stop a transfer (`ftpcoordinator.cpp:83`): the worker receives the
  signal after its last file. When the upload ends while the user is asked whether
  to abort it, a Yes disables the button for good (`UploadArtworks.qml:119`);
- a backup that arrives after exiftool fills gaps through `setTitle`,
  `setDescription` and `appendKeywords` (`artworkmetadata.cpp:194`), which start the
  artwork's timer: without an edit of the user, the title of the file and the
  keywords of both are written over the backup. `SavedEditsAreKept` counts that as
  an import's merge and not as a loss;
- a reimport (`artworkmetadata.cpp:72`) changes an artwork whose timer runs or whose
  write is queued, and that write saves what the file says, or nothing, over the
  saved edit;
- destroying an artwork empties it (`artworkslistmodel.cpp:1093`), and a job that
  still holds it saves the empty content over the edits that were saved before.
  It happens to a removed artwork, and when the program stops, since all artworks
  are destroyed before the worker is stopped (`xpiksapp.cpp:379`);
- an export told to overwrite all has artworks without edits written to the
  storage too, over edits the user chose to ignore at their import;
- the thread that makes the thumbnail of a video has it written
  (`videocachingworker.cpp:240`) whether or not its import has ended, over a backup
  that nobody has taken yet. `SavedEditsAreKept` leaves these cases out, the first of them excepted;
- a change that a failed flush put back waits for the next change, and additions
  that fail are dropped (`metadatacache.cpp:236`); the end of the program loses
  what is logged;
- a file removed and added again within the interval of a sync is read from the
  table while its edits are in the log (`metadatacache.cpp:146`);
- the modification time of an image is asked after its thumbnail was saved
  (`imagecachingworker.cpp:130`), so that an image that changes in between keeps an
  outdated thumbnail; `OutdatedIsNoticed` leaves it out;
- an outdated entry that stays in memory hides the newer one of the table
  (`dbcacheindex.h:88`): the thumbnail is made again at each request until a restart;
- between one and two times the limit, `eachToRemove` is 1 and the last resort of
  `compactCache` removes nothing (`dbcacheindex.h:226`);
- `m_RequestsServed` is counted up in a copy (`dbcacheindex.h`), the migration of old
  indices (`upgradeCacheStorage`, the one caller of `importCache`) is not among the
  jobs of `executeMaintenanceJobs`, and `MemoryTable` adds over what is there where the database ignores.

## 5. Proofs

`ItemProcessingWorkerProofs`, for any threads and bounds (from
`BoundsAssumption`): `TypeCorrect`, `ImplementsQueue`, `JobsRunAtMostOnce`,
`CancellationHolds`, `WaitIdleIsSafe`. The inductive invariant is `TypeOK` with
`QueueInv`: every id in the queue is below the next id, items of one batch lie in
the order of their ranks, and every job that is queued, in the worker's hands or
finished was accepted. It is needed because "a batch id is new" and "the front is
the least of its batch" are facts about all the past. With it every step is a step
of `JobQueue` or a stutter, and `AtMostOnce` is then proved of `JobQueue` steps
alone. `IdleInv` (a handler runs only while the idle event is down, and whoever
waits waits for jobs that are done or in that handler) gives `WaitIdleWaits`.
`DrainAnnounced` rests on `DrainInv`, which names who still owes the announcement
of an empty queue: the worker that popped the last item, or the thread whose
cancellation emptied the queue. `ResultsReported` rests on `ResultsInv`: unless
something was withdrawn, a worker that did not see the queue empty finds an item.

`AsyncCoordinatorProofs`, for any finite set of operations and any number of
rounds (from `RoundsAssumption`): `RoundsTypeCorrect`, `ReportsOnce`,
`AllDoneIsTrue`, `RoundsAreSeparate`. The inductive invariant joins `CountInv` (the
counter is the number of running operations and one for the owner until it
closes the round), `LastInv` (at most one thread found the counter at one, and
then nothing runs), `EmittedInv` (the flag is the number of reports) and
`OwnerInv` (an open round has no report, an idle owner has had one).

In the same module, of `Startup` (its names carry a prefix), whether a service hangs or not:
`StartsOnce`, `StartupTypeCorrect`. `ReportInv`: reports are counted by the
exchanged flag, and the application starts at most once for each.

`VideoExportProofs`, for any artworks, videos, exports and requests:
`ExportDoesNotRace`, `ExportsAreRounds` (the refinement of `CoordinatorRounds`, step
by step), `TypeCorrect`. The invariant joins `CoordinatorInv` (the counter is what
the main thread and the export's thread still owe), `ExportInv` (an export that
went past its loop has locked all its videos) and `WorkerInv` (past `CheckLockedIO`
the worker has cleared the idle event, and what it found unlocked is not of an
export that has seen it idle). `NoRace` alone is not inductive: it says nothing of
a worker that has looked at the mark and not yet begun.

`ImageCacheProofs`, for any images, limits and faults: `IndexImplementsStore`,
`OutdatedThumbnailsAreNoticed`, `TypeCorrect`. `BatchInv` (the batch is empty but
between the emptying of the log and the end of the flush, and then the log is
empty) makes every step of log, batch and table one of the store. `StampsInv`: no
entry, nor one the provider or the worker is about to store, is ahead of the image
or of the thumbnail on the disk. `CacheIsBounded` is arithmetic about integer
division: of `n` entries one in `n \div m` is kept, fewer than `2 * m`.

`EditSavingProofs`, for any artworks, intervals and limits: `TimersAreKept` (the
assertion of `justChanged`), `ChangesAreFollowed`, `EditsStaySaved`, `TypeCorrect`.
`TimersRun` (a timer runs exactly if a restart is counted) is needed because
`justChanged` leaves the timer alone once its restarts are used up, and relies on
its running; `SettersTypes` says so of several setters in a row. `EditsAreWritten`:
whatever write of a guarded artwork is queued or logged, and whatever timer of it
runs, carries an edit or a backup, so only additions carry none, and those are
ignored by a table that has the artwork. A late backup keeps that since it leaves
the artwork with something when it starts the timer; a reimport does not, unless
the timer is still and no write waits, which is what `exposed` records. The jobs
of a cancelled batch leave writes and separators where they are (`WithdrawnTypes`).

`ArtworksUploadProofs`, for any hosts, files and uploads: `PermitsAddUp`,
`TypeCorrect`, `FinishIsTold`. The permits need that the workers of later uploads do
not exist yet: a start that overwrote a worker would lose its permit. `FinishIsTold`
needs `ActiveInv`, of an upload whose dialog is open: the ends that are queued and
those that were counted are together the workers that ended; what failed is shown
or queued; and a failure in the queue has the end of its worker behind it, or its
worker still transfers.

`ImportPipelineProofs`, for any artworks, files, backups and imports:
- `TypeCorrect`, and with it that the queue holds well-formed jobs: what `Without`
  leaves of a queue and what `JobsOf` makes of a snapshot are lemmas of their own;
- `LateBackupsKeepEdits`, from `StorageInv`: an artwork that is imported for the
  first time is not initialised, one that is not initialised was not edited, and
  what is being read was added;
- `ImportsAreRounds`, the refinement of `CoordinatorRounds` step by step, from
  `RoundInv`: the counter is what the main thread, the click and the reading thread
  still owe, only the last import reads, and an end is posted once;
- `IgnoredBackupsStayOut`, from `IgnoreInv`: the readings of an import are those of
  its batch, the hub keeps the user's answer until it initialises, and what is
  still being read of an artwork whose backups are ignored is cancelled, unless the
  artwork awaits a reimport, which refuses backups. The property alone says
  nothing of readings on their way;
- `SourcesMerge`, from `CommuteInv`: an artwork without its file shows its backup
  or the backup is on its way; one with its file shows the file's title, merged with
  the backup's once this has come; and what the program itself stores of it
  meanwhile has that title or the user's.

`RoundInv`, `IgnoreInv` and `CommuteInv` hold until a dialog is left with Escape or
an import is overtaken, after which a round stays open or is reset under a reading
thread; from then on the model asserts nothing of answers (`AllLeft`).
`NotOvertaking`: where nothing was left, the next import begins only when the hub
has finished the one before. `TypeCorrect` and `LateBackupsKeepEdits` hold in any case.

`ArtworksCollectionProofs`, for any files, folders and bounds:
- `ArtworksTypeCorrect`, and `CountersAreTrue` (a directory counts the accounted
  files of its path), from `RepositoryInv`: every directory has an id and a path of
  its own, every accounted file lies in one of them, every artwork has an id of its
  own and belongs, while its directory exists, to the directory of its file;
- `SelectionStays` (some directory is selected while there are any), from
  `SelectionInv`; it also needs that an undo which unselects everything finds one
  of the directories it selects again (`Reselects`), a fact about the commands
  since the one that is undone;
- `HistoryStaysInSync` (the indices a command recorded still mean the artworks it
  changed) and `UndoesOnlyItsOwn` (an undo changes no other artwork), from
  `HistoryInv`;
- `RemovedComeBack` (the undo of a removal brings back each artwork whose file is
  still there), from `StaleInv`: a removed artwork whose file is accounted although
  its directory exists shares the file with another. The code refuses a file that
  is accounted, so without `StaleInv` the undo could be refused its own file. The
  property has a premise: no file is listed twice, and every artwork has its
  directory. The finding of `artworks_remove` is that the code does not keep the
  latter; the premise is not assumed by the other theorems.

The module proves of each loop that its function exists and that what each round
keeps is kept by all (`LoopExists`, `RunStays`), then what a round does, as a
relation between the library before and after (`TakenOut`, `Cleaned`, `Added`,
`Restored`, `Brought`, `Kept`), and that each relation keeps the invariants.

The assumptions are the named ones of the modules: finite sets, positive limits,
and marks that are no values.

Induction with an operator for its hypothesis is beyond the provers, but that a
set of numbers has a least member is a fact about sets: the lemma `LeastExists`
of `ImportPipelineProofs`, by which what a function computes can be proved from a
least counterexample (`Numbered`). `ArtworksCollectionProofs` gets its inductions
the same way, with a family of sets for the hypothesis (`StaysWithin`). `SUBSET` binds differently for the model checker
and the prover where another operator follows, so it is always parenthesised.

Only model-checked: liveness (`StopEnds`, `JobsSettle`, `RoundIsReported`,
`AppStarts`, `ThumbnailsSettle`, `ExportEnds`, `ReadsAreImported`, `ImportEnds`,
`UploadEnds`, `RequestsAreServed`, `EditsReachTable`), which needs fairness and
`ENABLED`, beyond TLAPS. Every invariant and action property of a passing run is
a theorem.

## 6. Not modelled

`PROJECT.json` names each part with its reason. In short: keywords and presets
are planned; of the storage and the caches, searching, migrations, the encoding of
records and the index of videos are left out; spell check, warnings,
auto-completion, translation, telemetry, requests and maintenance share the
queue modelled by `ItemProcessingWorker` and compute data of their own with
libraries; settings, CSV, encryption, file listing and helpers are sequential
and well within reach of tests; plugins, the database engine, curl, exiftool and
Qt are external.
