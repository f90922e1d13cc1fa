------------------------------ MODULE EditSaving ------------------------------
(***************************************************************************)
(* How an edit reaches the local storage.  Every edit starts or restarts   *)
(* the timer of its artwork (DelayedActionEntity); when the typing pauses  *)
(* the hub of edits has MetadataIOService queue a write, and a timer of    *)
(* the service has the logs of MetadataCache written to the table.  The    *)
(* worker takes what an artwork holds when its job comes, not when it was  *)
(* queued; INSERT OR IGNORE of a newly added artwork and INSERT OR REPLACE *)
(* of an edited one wait in a log each.                                    *)
(*                                                                         *)
(* The content of an artwork is the number of its last edit.  0 is one     *)
(* with nothing of an edit or of a backup: what the file says, or what is  *)
(* left when the artwork is destroyed.  Merged is what an import makes of  *)
(* file and backup together.  Of an import there is its end and the        *)
(* arrival of the backup, in either order; ImportPipeline has the rest.    *)
(***************************************************************************)
EXTENDS Integers, Sequences, FiniteSets

CONSTANTS
    Artworks,
    Videos,              \* the artworks that have a thumbnail made of a video
    None, Merged,
    EditInterval,        \* ARTWORK_EDITING_PAUSE, in ticks
    MaxEditRestarts,     \* MAX_EDITING_PAUSE_RESTARTS
    SyncInterval,        \* SAVER_TIMER_TIMEOUT, in ticks
    MaxSyncRestarts,     \* SAVER_TIMER_MAX_RESTARTS
    SyncStep,            \* METADATA_CACHE_SYNC_INTERVAL
    Edited,              \* bound: the artworks the user works on
    MaxVersion,          \* bound: edits that are told apart
    MaxQueue,            \* bound: the user waits when the worker has more to do
    MaxTroubles          \* bound: failed flushes, removed artworks and ends of the program

ASSUME EditSavingAssumption ==
    /\ IsFiniteSet(Artworks) /\ Videos \subseteq Artworks /\ Edited \subseteq Artworks
    /\ EditInterval \in Nat /\ SyncInterval \in Nat
    /\ MaxEditRestarts \in Nat \ {0} /\ MaxSyncRestarts \in Nat \ {0}
    /\ SyncStep \in Nat \ {0} /\ MaxVersion \in Nat \ {0}
    /\ MaxQueue \in Nat /\ MaxTroubles \in Nat
    /\ None \notin Artworks /\ None \notin 0..MaxVersion
    /\ Merged \notin 0..MaxVersion /\ Merged # None

VARIABLES
    state,               \* away, reading (being imported) or ready, for each artwork
    content,             \* what the artwork in the list holds
    editTimer, syncTimer,
    posted,              \* cacheSyncRequest signals on their way to the main thread
    thumbnailed,         \* videos whose thumbnail was made in this session
    reimportPending,     \* artworks that were reimported; the flag is never reset
    m_Queue,             \* jobs of MetadataIOWorker
    m_ProcessedItemsCount,
    found,               \* what a read job found: m_StorageReadQueue
    m_AddWal, m_SetWAL, table,
    stopping,            \* XpiksApp::stop has destroyed the artworks
    faults, losses,      \* failed flushes; removed artworks and ends of the program
    exposed              \* history: artworks that were written without an edit, or
                         \* reimported or destroyed while a write of them was due

artworkVars == <<state, content, thumbnailed, reimportPending>>
cacheVars == <<found, m_AddWal, m_SetWAL, table, m_ProcessedItemsCount>>
bounds == <<faults, losses, exposed>>
vars == <<artworkVars, editTimer, syncTimer, posted, m_Queue, cacheVars, stopping,
          bounds>>

Troubles == faults + losses

Versions == 0..MaxVersion
Contents == Versions \cup {Merged}
Saved == [Artworks -> Contents \cup {None}]

Separator == [job |-> "separator", artwork |-> None, value |-> None]
Job(job, a) == [job |-> job, artwork |-> a, value |-> None]
Jobs == [job : {"read", "write", "add", "withdrawn"}, artwork : Artworks,
         value : Contents \cup {None}]
            \cup {Separator}

Off == -1
NoTimer == [left |-> Off, restarts |-> 0]
Timer(interval, limit) == [left : Off..interval, restarts : 0..limit]
Runs(timer) == timer.left # Off

Empty == [a \in Artworks |-> None]

TypeOK ==
    /\ state \in [Artworks -> {"away", "reading", "ready"}]
    /\ content \in [Artworks -> Contents]
    /\ editTimer \in [Artworks -> Timer(EditInterval, MaxEditRestarts)]
    /\ syncTimer \in Timer(SyncInterval, MaxSyncRestarts)
    /\ posted \in Nat
    /\ thumbnailed \subseteq Videos /\ reimportPending \subseteq Artworks
    /\ m_Queue \in Seq(Jobs)
    /\ m_ProcessedItemsCount \in 0..(SyncStep - 1)
    /\ found \in Saved /\ m_AddWal \in Saved /\ m_SetWAL \in Saved /\ table \in Saved
    /\ faults \in Nat /\ losses \in Nat
    /\ stopping \in BOOLEAN
    /\ exposed \subseteq Artworks

Init ==
    /\ state = [a \in Artworks |-> "away"]
    /\ content = [a \in Artworks |-> 0]
    /\ editTimer = [a \in Artworks |-> NoTimer]
    /\ syncTimer = NoTimer
    /\ posted = 0
    /\ thumbnailed = {} /\ reimportPending = {}
    /\ m_Queue = <<>> /\ m_ProcessedItemsCount = 0
    /\ found = Empty /\ m_AddWal = Empty /\ m_SetWAL = Empty /\ table = Empty
    /\ faults = 0 /\ losses = 0
    /\ stopping = FALSE
    /\ exposed = {}

-----------------------------------------------------------------------------
(* DelayedActionEntity. *)

\* Erroneous variant: the timer is restarted however often it was already.
JustRestarted(timer, interval, limit) ==
    [left |-> interval, restarts |-> IF timer.restarts < limit THEN timer.restarts + 1 ELSE limit]

\* justChanged: the timer is killed and started anew until the limit is reached,
\* then the one that runs is left alone.
JustChanged(timer, interval, limit) ==
    IF timer.restarts < limit
    THEN [left |-> interval, restarts |-> timer.restarts + 1]
    ELSE timer

\* One to three setters that change something, one after the other.
Setters(timer) ==
    LET Next1(t) == JustChanged(t, EditInterval, MaxEditRestarts)
    IN  {Next1(timer), Next1(Next1(timer)), Next1(Next1(Next1(timer)))}

\* Erroneous variant: the restarts are not counted from zero again.
FiredOnce(timer) == [timer EXCEPT !.left = Off]

\* onQtTimer: the timer is forgotten and its restarts are counted anew.
Fired(timer) == NoTimer

\* Time passes for every timer that runs.
Elapse(timer) == [timer EXCEPT !.left = IF @ > 0 THEN @ - 1 ELSE @]

Tick ==
    /\ syncTimer.left > 0 \/ \E a \in Artworks : editTimer[a].left > 0
    /\ syncTimer' = Elapse(syncTimer)
    /\ editTimer' = [a \in Artworks |-> Elapse(editTimer[a])]
    /\ UNCHANGED <<artworkVars, posted, m_Queue, cacheVars, stopping, bounds>>

-----------------------------------------------------------------------------
(* The main thread. *)

\* AddFilesCommand: the backup is read while the dialog of the import is open.
AddFile(a) ==
    /\ state[a] = "away" /\ ~stopping
    /\ state' = [state EXCEPT ![a] = "reading"]
    /\ m_Queue' = m_Queue \o <<Job("read", a), Separator>>
    /\ UNCHANGED <<content, thumbnailed, reimportPending, editTimer, syncTimer, posted, cacheVars,
                   stopping, bounds>>

\* A job reads the artwork it holds, unless that was destroyed already.
Waits(a) ==
    \E i \in DOMAIN m_Queue :
        m_Queue[i].job = "write" /\ m_Queue[i].artwork = a /\ m_Queue[i].value = None

\* cancelBatch: what was to be read is taken out of the queue.  Here it stays in
\* its place and the worker passes over it.
Withdrawn(a) ==
    [i \in DOMAIN m_Queue |->
        IF m_Queue[i].job = "read" /\ m_Queue[i].artwork = a
        THEN [m_Queue[i] EXCEPT !.job = "withdrawn"] ELSE m_Queue[i]]

\* onCanInitialize, for one artwork, whether its backup has come or not.  Of what
\* came the file may leave all, a part or nothing; the ignored backup goes and so
\* do its readings.  A cancelled import keeps the backup unless exiftool gave
\* nothing for the file, and adds nothing to the storage.
EndImport(a, cancelled, ignored) ==
    /\ state[a] = "reading"
    /\ state' = [state EXCEPT ![a] = "ready"]
    /\ \E rest \in IF content[a] = 0 \/ ignored THEN {0}
                   ELSE {0, content[a]} \cup (IF cancelled THEN {} ELSE {Merged}) :
          content' = [content EXCEPT ![a] = rest]
    /\ found' = IF ignored THEN [found EXCEPT ![a] = None] ELSE found
    /\ LET kept == IF ignored THEN Withdrawn(a) ELSE m_Queue
       IN  m_Queue' = IF cancelled THEN kept ELSE kept \o <<Job("add", a), Separator>>
    /\ UNCHANGED <<thumbnailed, reimportPending, editTimer, syncTimer, posted, m_AddWal, m_SetWAL,
                   table, m_ProcessedItemsCount, stopping, bounds>>

Later(version) ==
    IF version = Merged THEN 1 ELSE IF version < MaxVersion THEN version + 1 ELSE version

\* An edit of any kind: the metadata change and justChanged is called.
Edit(a) ==
    /\ state[a] = "ready" /\ a \in Edited /\ Len(m_Queue) <= MaxQueue
    /\ content' = [content EXCEPT ![a] = Later(@)]
    /\ editTimer' = [editTimer EXCEPT ![a] = JustChanged(@, EditInterval, MaxEditRestarts)]
    /\ UNCHANGED <<state, thumbnailed, reimportPending, syncTimer, posted, m_Queue, cacheVars,
                   stopping, bounds>>

\* importArtworksFromStorage, for one artwork.  Before the import has ended the
\* backup is taken as it is; afterwards it fills what is empty and its keywords
\* are added, through the setters of an edit, of which one to three call
\* justChanged.  Nobody has typed, but a write follows.  An artwork that awaits
\* its reimport, or had it, refuses the backup.
ImportBackup(a) ==
    /\ state[a] # "away" /\ found[a] # None
    /\ found' = [found EXCEPT ![a] = None]
    /\ \/ a \in reimportPending /\ UNCHANGED <<content, editTimer>>
       \/ /\ state[a] = "reading"
          /\ content' = [content EXCEPT ![a] = IF found[a] = 0 THEN Merged ELSE found[a]]
          /\ UNCHANGED editTimer
       \/ /\ state[a] = "ready" /\ a \notin reimportPending
          /\ \/ UNCHANGED <<content, editTimer>>
             \/ /\ content' = [content EXCEPT ![a] = IF @ = 0 THEN Merged ELSE @]
                /\ \E timer \in Setters(editTimer[a]) :
                      editTimer' = [editTimer EXCEPT ![a] = timer]
    /\ UNCHANGED <<state, thumbnailed, reimportPending, syncTimer, posted, m_Queue, m_AddWal,
                   m_SetWAL, table, m_ProcessedItemsCount, stopping, bounds>>

\* A reimport, from its command to its end: the artwork has what its file says, or
\* nothing, and is added to the storage again.  The timer and the writes that are
\* due go on, and will save that.
Reimport(a) ==
    /\ state[a] # "away" /\ a \in Edited /\ Len(m_Queue) <= MaxQueue
    /\ state' = [state EXCEPT ![a] = "ready"]
    /\ content' = [content EXCEPT ![a] = 0]
    /\ reimportPending' = reimportPending \cup {a}
    /\ exposed' = IF Runs(editTimer[a]) \/ Waits(a) THEN exposed \cup {a} ELSE exposed
    /\ m_Queue' = m_Queue \o <<Job("add", a), Separator>>
    /\ UNCHANGED <<thumbnailed, editTimer, syncTimer, posted, cacheVars, stopping,
                   faults, losses>>

\* editingPaused, onArtworkEditingPaused and ArtworksEditingHub: writeArtwork,
\* whose cacheSyncRequest is a direct call in this thread.
EditingPaused(a) ==
    /\ editTimer[a].left = 0
    /\ editTimer' = [editTimer EXCEPT ![a] = Fired(@)]
    /\ m_Queue' = Append(m_Queue, Job("write", a))
    /\ syncTimer' = JustChanged(syncTimer, SyncInterval, MaxSyncRestarts)
    /\ UNCHANGED <<artworkVars, posted, cacheVars, stopping, bounds>>

\* SetupExportMetadataCommand, one of its artworks: unless it is told to overwrite
\* all, it takes those that were edited.  ItemProcessingWorker has the batches.
Export(a, overwrite) ==
    /\ state[a] = "ready" /\ a \in Edited /\ Len(m_Queue) <= MaxQueue
    /\ overwrite \/ content[a] # 0
    /\ exposed' = IF content[a] = 0 THEN exposed \cup {a} ELSE exposed
    /\ m_Queue' = m_Queue \o <<Job("write", a), Separator>>
    /\ UNCHANGED <<artworkVars, editTimer, syncTimer, posted, cacheVars, stopping,
                   faults, losses>>

\* onCacheSyncRequest, for a signal of another thread.
CacheSyncRequest ==
    /\ posted > 0 /\ ~stopping
    /\ posted' = posted - 1
    /\ syncTimer' = JustChanged(syncTimer, SyncInterval, MaxSyncRestarts)
    /\ UNCHANGED <<artworkVars, editTimer, m_Queue, cacheVars, stopping, bounds>>

\* MetadataIOService::doOnTimer.
SyncTimerFires ==
    /\ syncTimer.left = 0 /\ ~stopping
    /\ syncTimer' = Fired(syncTimer)
    /\ m_Queue' = Append(m_Queue, Separator)
    /\ UNCHANGED <<artworkVars, editTimer, posted, cacheVars, stopping, bounds>>

\* destroyArtwork: the timers end with the artworks, and clearModel empties what
\* the jobs that still hold them will read; a backup that was read for one of them
\* reaches no artwork of the list.
Destroy(artworks) ==
    /\ content' = [a \in Artworks |-> IF a \in artworks THEN 0 ELSE content[a]]
    /\ state' = [a \in Artworks |-> IF a \in artworks THEN "away" ELSE state[a]]
    /\ thumbnailed' = thumbnailed \ artworks
    /\ reimportPending' = reimportPending \ artworks
    /\ found' = [a \in Artworks |-> IF a \in artworks THEN None ELSE found[a]]
    /\ editTimer' = [a \in Artworks |-> IF a \in artworks THEN NoTimer ELSE editTimer[a]]
    /\ m_Queue' = [i \in DOMAIN m_Queue |->
                     IF m_Queue[i].artwork \in artworks /\ m_Queue[i].value = None
                     THEN [m_Queue[i] EXCEPT !.value = 0]
                     ELSE m_Queue[i]]
    /\ exposed' = exposed \cup {a \in artworks : Waits(a)}
    /\ UNCHANGED <<syncTimer, posted, m_AddWal, m_SetWAL, table, m_ProcessedItemsCount, faults>>

\* The artwork is removed and cannot be restored any more.
Remove(a) ==
    /\ state[a] = "ready" /\ Troubles < MaxTroubles
    /\ losses' = losses + 1
    /\ Destroy({a})
    /\ UNCHANGED stopping

\* XpiksApp::stop begins; events are not handled any more.
DeleteAllItems ==
    /\ ~stopping /\ Troubles < MaxTroubles
    /\ stopping' = TRUE
    /\ losses' = losses + 1
    /\ Destroy(Artworks)

\* The program ends, at once or in the course of stop: stopWorking empties the
\* queue and finalize closes the database without a flush.
Quit ==
    /\ stopping \/ Troubles < MaxTroubles
    /\ stopping' = FALSE
    /\ losses' = IF stopping THEN losses ELSE losses + 1
    /\ state' = [a \in Artworks |-> "away"]
    /\ content' = [a \in Artworks |-> 0]
    /\ thumbnailed' = {} /\ reimportPending' = {}
    /\ editTimer' = [a \in Artworks |-> NoTimer]
    /\ syncTimer' = NoTimer
    /\ posted' = 0
    /\ m_Queue' = <<>> /\ m_ProcessedItemsCount' = 0
    /\ found' = Empty /\ m_AddWal' = Empty /\ m_SetWAL' = Empty
    /\ UNCHANGED <<table, faults, exposed>>

-----------------------------------------------------------------------------
(* Other threads. *)

\* VideoCachingWorker::applyThumbnail writes the artwork, whether or not its
\* import has ended; cacheSyncRequest is queued to the main thread.
ThumbnailIsWritten(a) ==
    /\ a \in Videos \ thumbnailed /\ state[a] # "away"
    /\ thumbnailed' = thumbnailed \cup {a}
    /\ m_Queue' = Append(m_Queue, Job("write", a))
    /\ posted' = posted + 1
    /\ exposed' = IF state[a] = "reading" \/ content[a] = 0 THEN exposed \cup {a} ELSE exposed
    /\ UNCHANGED <<state, content, reimportPending, editTimer, syncTimer, cacheVars, stopping,
                   faults, losses>>

-----------------------------------------------------------------------------
(* The worker. *)

\* Erroneous variant: what an artwork holds when it is added replaces its backup.
AddOrReplace(saved, added) == IF added # None THEN added ELSE saved

\* tryAddMany: INSERT OR IGNORE.
AddOrIgnore(saved, added) == IF saved = None THEN added ELSE saved

\* trySetMany.
SetOrKeep(saved, set) == IF set # None THEN set ELSE saved

Logged(wal) == {a \in Artworks : wal[a] # None}

\* MetadataCache::flushWAL for the given logs: the additions, then the changes.
\* An addition that fails is not tried again, a change returns to its log.
Sync(adds, sets) ==
    \E failedAdds \in SUBSET Logged(adds), failedSets \in SUBSET Logged(sets) :
        /\ failedAdds \cup failedSets # {} => Troubles < MaxTroubles
        /\ faults' = IF failedAdds \cup failedSets # {} THEN faults + 1 ELSE faults
        /\ table' = [a \in Artworks |->
                       LET added == IF a \in failedAdds THEN table[a]
                                    ELSE AddOrIgnore(table[a], adds[a])
                       IN  IF a \in failedSets THEN added ELSE SetOrKeep(added, sets[a])]
        /\ m_AddWal' = Empty
        /\ m_SetWAL' = [a \in Artworks |-> IF a \in failedSets THEN sets[a] ELSE None]

\* processReadWriteItem after the job itself: every SyncStep jobs there is a sync.
AfterJob(adds, sets) ==
    /\ m_ProcessedItemsCount' = (m_ProcessedItemsCount + 1) % SyncStep
    /\ IF m_ProcessedItemsCount' = 0
       THEN Sync(adds, sets)
       ELSE m_AddWal' = adds /\ m_SetWAL' = sets /\ UNCHANGED <<table, faults>>

Take(job) ==
    /\ m_Queue # <<>> /\ Head(m_Queue).job = job
    /\ m_Queue' = Tail(m_Queue)
    /\ UNCHANGED <<artworkVars, editTimer, syncTimer, posted, stopping, losses, exposed>>

\* CachedArtwork: what the artwork of a job holds now, nothing if it was destroyed.
Held(item) == IF item.value = None THEN content[item.artwork] ELSE item.value

\* MetadataCache::read asks the table only.
ProcessRead ==
    LET a == Head(m_Queue).artwork
    IN  /\ Take("read")
        /\ found' = IF Head(m_Queue).value = None THEN [found EXCEPT ![a] = table[a]] ELSE found
        /\ AfterJob(m_AddWal, m_SetWAL)

ProcessWrite ==
    LET a == Head(m_Queue).artwork
    IN  /\ Take("write")
        /\ AfterJob(m_AddWal, [m_SetWAL EXCEPT ![a] = Held(Head(m_Queue))])
        /\ UNCHANGED found

ProcessAdd ==
    LET a == Head(m_Queue).artwork
    IN  /\ Take("add")
        /\ AfterJob([m_AddWal EXCEPT ![a] = Held(Head(m_Queue))], m_SetWAL)
        /\ UNCHANGED found

ProcessSeparator ==
    /\ Take("separator")
    /\ Sync(m_AddWal, m_SetWAL)
    /\ UNCHANGED <<found, m_ProcessedItemsCount>>

PassOver ==
    /\ Take("withdrawn")
    /\ UNCHANGED <<cacheVars, faults>>

-----------------------------------------------------------------------------
Work == ProcessRead \/ ProcessWrite \/ ProcessAdd \/ ProcessSeparator \/ PassOver

Events ==
    \/ \E a \in Artworks : EditingPaused(a)
    \/ CacheSyncRequest
    \/ SyncTimerFires

Next ==
    \/ Tick
    \/ \E a \in Artworks :
         \/ AddFile(a) \/ ImportBackup(a) \/ Reimport(a)
         \/ Edit(a) \/ Remove(a) \/ ThumbnailIsWritten(a)
         \/ \E cancelled, ignored \in BOOLEAN : EndImport(a, cancelled, ignored)
         \/ \E overwrite \in BOOLEAN : Export(a, overwrite)
    \/ Events
    \/ Work
    \/ DeleteAllItems
    \/ Quit

Spec == Init /\ [][Next]_vars

\* Time passes, the main thread sees to every timer and signal that is due, and
\* the worker works; the user need not pause, import or stay.
FairSpec ==
    /\ Spec
    /\ WF_vars(Tick) /\ WF_vars(Work)
    /\ WF_vars(CacheSyncRequest) /\ WF_vars(SyncTimerFires)
    /\ \A a \in Artworks : WF_vars(EditingPaused(a))

-----------------------------------------------------------------------------
(* Properties. *)

SeparatorAfter(i) == \E j \in DOMAIN m_Queue : j > i /\ m_Queue[j] = Separator

\* No change waits for a sync that nobody has asked for: while a write is queued
\* or in its log, the service's timer runs, a signal that starts it is on its
\* way, or a separator comes behind it.  A flush that failed is the exception:
\* what it put back waits for the next change.
NothingIsStranded ==
    (~Runs(syncTimer) /\ posted = 0) =>
        /\ \A i \in DOMAIN m_Queue : m_Queue[i].job = "write" => SeparatorAfter(i)
        /\ \A a \in Artworks : m_SetWAL[a] # None => SeparatorAfter(0) \/ faults > 0

\* "Q_ASSERT(m_LastTimerId != -1)" (justChanged): when no restart is left, there
\* is a timer that runs.
TimersRun ==
    /\ syncTimer.restarts > 0 <=> Runs(syncTimer)
    /\ \A a \in Artworks : editTimer[a].restarts > 0 <=> Runs(editTimer[a])

\* The artworks whose saved edits are safe.  The exceptions are those of which a
\* write finds less than was edited: an export was told to overwrite all, the
\* thread of a video's thumbnail wrote it without an edit or before its import had
\* ended, and with that a backup nobody has taken yet, or the artwork was destroyed
\* or reimported while a write of it was due.
Guarded == Artworks \ exposed

\* What is saved of an edit is replaced by a later edit or by what an import made
\* of the file and this backup, never by a content with nothing of either: not
\* by the import of a later session that ignores the backup, and not by a
\* reimport that no write of the artwork is due at.  The merge does lose parts of
\* the edit, and nobody has to ask for it: a backup that arrives after exiftool
\* starts a write of the file's title with the keywords of both.
SavedEditsAreKept ==
    [][ \A a \in Guarded :
          table[a] \in Contents \ {0} => table'[a] \in Contents \ {0} ]_table

\* An edit reaches the table although the user types on without a pause, unless
\* the artwork is removed, the program ends or writing fails first, or a reimport
\* discards the edit.
EditsReachTable ==
    \A a \in Edited : \A version \in Versions \ {0} :
        (/\ content[a] = version /\ Runs(editTimer[a])
         /\ Troubles = MaxTroubles)
            ~> (table[a] \in version..MaxVersion \/ content[a] \notin version..MaxVersion)

=============================================================================
