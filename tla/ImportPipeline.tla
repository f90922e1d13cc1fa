--------------------------- MODULE ImportPipeline ---------------------------
(***************************************************************************)
(* Import of metadata.  An artwork gets its metadata from two sources:     *)
(* exiftool, read on a thread per import into the queue of the reading     *)
(* hub, and the backups in the local storage, read by the metadata IO      *)
(* worker into a queue of its own.  The hub initialises the artworks when  *)
(* exiftool has ended and the user has answered the import dialog; the     *)
(* backups are imported whenever the worker says so, before or after.      *)
(* A dialog closed without an import frees the window at once, so that the *)
(* next import may take the hub over while it still waits for exiftool.    *)
(*                                                                         *)
(* Metadata are a title and a set of keywords; a description behaves as    *)
(* the title does.  The user interface is modal while a dialog is open.    *)
(* The worker queue is that of ItemProcessingWorker; jobs that write an    *)
(* edited artwork to the storage are left out.                             *)
(***************************************************************************)
EXTENDS AsyncCoordinator, FiniteSets

CONSTANTS
    Artworks,
    Main, User,       \* the main thread; the user's click, as an operation
    FileValues,       \* the metadata a file may hold
    BackupValues,     \* the backups the storage may hold
    MaxImports,       \* bound: imports and reimports
    MayEscape         \* the user may close the dialog with the Escape key

NoBackup == <<>>
INVALID_BATCH_ID == 0
Imports == 1..MaxImports

VARIABLES
    main,             \* where the main thread is in an import
    closed,           \* the dialog was closed while the hub waits for its report
    imports,          \* imports begun; the last one is the hub's
    m_ArtworksToRead, reimport, m_StorageReadBatchID,
    m_ImportQueue,    \* the artworks exiftool has delivered
    m_IgnoreBackupsAtImport, m_IsCancelled,
    user,             \* none, running, ended: the click awaited by the hub
    reader,           \* the reading thread of each import: [pc, left]
    posted,           \* onCanInitialize posted to the main thread
    file,             \* what each file holds
    content, flags,   \* the metadata and the flags of each artwork
    queue, busy,      \* the worker's queue, the job it processes
    m_StorageReadQueue,
    ready,            \* readyToImportFromStorage posted to the main thread
    m_CancelledImports,
    m_AddWal, db,     \* the write-ahead log and the table of backups
    added,            \* the artworks of the list
    asked             \* history: the user's answer for each artwork, or how the
                      \* hub was left waiting (Left)

hubVars == <<main, closed, imports, m_ArtworksToRead, reimport, m_StorageReadBatchID,
             m_IgnoreBackupsAtImport, m_IsCancelled, user>>
readerVars == <<reader, m_ImportQueue>>
artworkVars == <<file, content, flags, added, asked>>
storageVars == <<queue, busy, m_StorageReadQueue, ready, m_CancelledImports, m_AddWal, db>>
vars == <<m_OpCount, m_StatusReported, m_Timer, lastEnded, emitted,
          main, closed, imports, m_ArtworksToRead, reimport, m_StorageReadBatchID,
          m_IgnoreBackupsAtImport, m_IsCancelled, user,
          reader, m_ImportQueue, posted, file, content, flags, added, asked,
          queue, busy, m_StorageReadQueue, ready, m_CancelledImports, m_AddWal, db>>

Empty == [title |-> "", keywords |-> {}]
Values == FileValues \cup BackupValues \cup {Empty}
Keywords == UNION {v.keywords : v \in Values}
Metadata == [title : {v.title : v \in Values} \cup {"user"}, keywords : SUBSET Keywords]

\* "user" is the title the user types: that of no backup, so that edits are told
\* from what is read.
ASSUME ImportAssumption ==
    /\ IsFiniteSet(Artworks) /\ MaxImports \in Nat \ {0}
    /\ Main # User /\ Main \notin Imports /\ User \notin Imports
    /\ FileValues \subseteq Metadata /\ BackupValues \subseteq Metadata
    /\ \A v \in BackupValues : v.title # "user"

\* The flags of an artwork; it has a file size once exiftool's data reached it.
Flags == {"Initialized", "AlmostInitialized", "Modified", "ReimportPending", "FileSize"}
\* An answer to the dialog: what was chosen in it.
Answers == SUBSET {"ignore", "cancel", "skip"}
NoAnswer == {"none"}
\* A dialog was escaped, or an import took the hub over from a closed one: the hub
\* is then out of step with its coordinator, and what becomes of the answers given
\* is not asserted.
Escaped == {"escaped"}
Overtaken == {"overtaken"}
Left == {Escaped, Overtaken}

Job(kind, a, batch) == [kind |-> kind, artwork |-> a, batch |-> batch]
NoJob == <<>>
JobType == [kind : {"Read", "Add"}, artwork : Artworks, batch : 0..MaxImports]
           \cup [kind : {"separator"}, artwork : {Main}, batch : {INVALID_BATCH_ID}]
Separator == <<Job("separator", Main, INVALID_BATCH_ID)>>

\* The jobs of a snapshot, in its order.
JobsOf(artworks, kind, batch) ==
    LET order == CHOOSE s \in [1..Cardinality(artworks) -> artworks] :
                     \A i, j \in DOMAIN s : s[i] = s[j] => i = j
    IN  [i \in DOMAIN order |-> Job(kind, order[i], batch)]

\* The jobs that stay when batches are erased, in their order.
Without(jobs, batches) ==
    LET stays == {i \in DOMAIN jobs : jobs[i].batch \notin batches}
        Nth(n) == CHOOSE i \in stays : Cardinality({j \in stays : j <= i}) = n
    IN  [n \in 1..Cardinality(stays) |-> jobs[Nth(n)]]

Init ==
    /\ CoordinatorInit
    /\ main = "free" /\ closed = FALSE /\ imports = 0
    /\ m_ArtworksToRead = {} /\ reimport = FALSE /\ m_StorageReadBatchID = 0
    /\ m_ImportQueue = {}
    /\ m_IgnoreBackupsAtImport = FALSE /\ m_IsCancelled = FALSE
    /\ user = "none"
    /\ reader = [i \in Imports |-> [pc |-> "none", left |-> {}]]
    /\ posted = 0
    /\ file \in [Artworks -> FileValues]
    /\ content = [a \in Artworks |-> Empty]
    /\ flags = [a \in Artworks |-> {}]
    /\ added = {} /\ asked = [a \in Artworks |-> NoAnswer]
    /\ queue = <<>> /\ busy = NoJob /\ m_StorageReadQueue = {} /\ ready = FALSE
    /\ m_CancelledImports = {}
    /\ m_AddWal = [a \in Artworks |-> NoBackup]
    /\ db \in [Artworks -> BackupValues \cup {NoBackup}]

-----------------------------------------------------------------------------
(* Artworks: what each initialisation makes of an artwork's metadata. *)

Has(a, flag) == flag \in flags[a]

\* initFromOrigin
FromOriginBeforeStorage(a, origin) ==
    [content |-> origin,
     flags |-> IF Has(a, "ReimportPending") THEN flags[a] \ {"Modified"} ELSE flags[a]]

OriginAlwaysWins(a, origin) == [content |-> origin, flags |-> flags[a] \ {"Modified"}]

\* Non-empty fields of the file win; its keywords replace those of the backup
\* unless these contain them.
FromOriginAfterStorage(a, origin) ==
    LET old == content[a]
        keepsTitle == origin.title = ""
        keepsKeywords == origin.keywords \subseteq old.keywords
        preserveModified == \/ keepsTitle /\ old.title # ""
                            \/ keepsKeywords /\ old.keywords # origin.keywords
    IN  [content |-> [title |-> IF keepsTitle THEN old.title ELSE origin.title,
                      keywords |-> IF keepsKeywords THEN old.keywords ELSE origin.keywords],
         flags |-> IF preserveModified THEN flags[a] \cup {"Modified"}
                   ELSE flags[a] \ {"Modified"}]

InitFromOrigin(a, origin, overwrite) ==
    LET new == IF Has(a, "ReimportPending") \/ ~Has(a, "AlmostInitialized") \/ overwrite
                 THEN FromOriginBeforeStorage(a, origin)
                 ELSE FromOriginAfterStorage(a, origin)
    IN  [new EXCEPT !.flags = @ \cup {"Initialized", "FileSize"}]

InitAsEmpty(a) ==
    [content |-> Empty, flags |-> (flags[a] \ {"Modified"}) \cup {"Initialized"}]

BackupAlwaysWins(a, backup) == [content |-> backup, flags |-> flags[a] \cup {"Modified"}]

\* initFromStorageAfterOriginUnsafe: fills what is empty, through the setters.
FromStorageAfterOrigin(a, backup) ==
    LET old == content[a]
        new == [title |-> IF old.title = "" THEN backup.title ELSE old.title,
                keywords |-> old.keywords \cup backup.keywords]
    IN  [content |-> new,
         flags |-> IF new # old THEN flags[a] \cup {"Modified"} ELSE flags[a]]

\* initFromStorage, in a build without assertions.
InitFromStorage(a, backup) ==
    IF Has(a, "ReimportPending")
      THEN [content |-> content[a], flags |-> flags[a]]
      ELSE LET new == IF Has(a, "Initialized")
                        THEN FromStorageAfterOrigin(a, backup)
                        ELSE [content |-> backup, flags |-> flags[a]]
           IN  [new EXCEPT !.flags = @ \cup {"AlmostInitialized"}]

Update(artworks, New(_)) ==
    /\ content' = [a \in Artworks |-> IF a \in artworks THEN New(a).content ELSE content[a]]
    /\ flags' = [a \in Artworks |-> IF a \in artworks THEN New(a).flags ELSE flags[a]]

-----------------------------------------------------------------------------
(* The main thread: from adding files or a reimport to the dialog. *)

InsideCall == Main \in lastEnded \/ User \in lastEnded

\* openedDialogsCount = 0: the window takes commands, those of a user who has
\* closed the dialog of an import that did not end yet included.
NoDialog == main = "free" \/ (main = "waiting" /\ closed /\ ~InsideCall)

\* History: the next import begins while the hub still waits for the last one.
Overtakes == asked' = IF main = "waiting" THEN [a \in Artworks |-> Overtaken] ELSE asked

\* MetadataReadingHub::initializeImport, up to the reset.  What the hub held of an
\* import that did not end is overwritten.
InitializeImport(artworks, again, batch) ==
    /\ Reset
    /\ imports' = imports + 1
    /\ main' = "opened" /\ closed' = FALSE
    /\ m_ArtworksToRead' = artworks
    /\ reimport' = again
    /\ m_StorageReadBatchID' = batch
    /\ m_IgnoreBackupsAtImport' = FALSE /\ m_IsCancelled' = FALSE
    /\ user' = "none"

\* ReadMetadataTemplate::execute: asks the storage, then exiftool.
AddFiles(artworks) ==
    /\ NoDialog
    /\ imports < MaxImports
    /\ Overtakes
    /\ LET batch == imports + 1 IN
         /\ queue' = queue \o JobsOf(artworks, "Read", batch) \o Separator
         /\ InitializeImport(artworks, FALSE, batch)
    /\ added' = added \cup artworks
    /\ UNCHANGED <<readerVars, posted, file, content, flags, busy, m_StorageReadQueue, ready,
                   m_CancelledImports, m_AddWal, db>>

\* SetupReimportMetadataCommand::execute
Reimport(artworks) ==
    /\ NoDialog
    /\ imports < MaxImports
    /\ Overtakes
    /\ flags' = [a \in Artworks |-> IF a \in artworks THEN flags[a] \cup {"ReimportPending"}
                                    ELSE flags[a]]
    /\ InitializeImport(artworks, TRUE, INVALID_BATCH_ID)
    /\ UNCHANGED <<readerVars, posted, file, content, added, storageVars>>

\* aboutToBegin, for the user to click a button.
AwaitClick ==
    /\ main = "opened"
    /\ AboutToBegin
    /\ main' = "announced"
    /\ user' = "running"
    /\ UNCHANGED <<closed, imports, m_ArtworksToRead, reimport, m_StorageReadBatchID,
                   m_IgnoreBackupsAtImport, m_IsCancelled, readerVars, posted, artworkVars,
                   storageVars>>

StartReaderUnaccounted ==
    /\ main = "announced"
    /\ main' = "reading"
    /\ reader' = [reader EXCEPT ![imports] = [pc |-> "running", left |-> m_ArtworksToRead]]
    /\ UNCHANGED <<coordinatorVars, closed, imports, m_ArtworksToRead, reimport, m_StorageReadBatchID,
                   user, m_IgnoreBackupsAtImport, m_IsCancelled, m_ImportQueue, posted,
                   artworkVars, storageVars>>

\* ReadingOrchestrator::startReading: accountReadIO, thread->start.
StartReader ==
    /\ main = "announced"
    /\ AboutToBegin
    /\ main' = "reading"
    /\ reader' = [reader EXCEPT ![imports] = [pc |-> "running", left |-> m_ArtworksToRead]]
    /\ UNCHANGED <<closed, imports, m_ArtworksToRead, reimport, m_StorageReadBatchID, user,
                   m_IgnoreBackupsAtImport, m_IsCancelled, m_ImportQueue, posted, artworkVars,
                   storageVars>>

\* startAcceptingIOResults; importStarted opens the dialog.
StartAccepting ==
    /\ main = "reading"
    /\ AllBegun(Main, FALSE)
    /\ main' = "asking"
    /\ UNCHANGED <<closed, imports, m_ArtworksToRead, reimport, m_StorageReadBatchID, user,
                   m_IgnoreBackupsAtImport, m_IsCancelled, readerVars, posted, artworkVars,
                   storageVars>>

\* The dialog.  Start Import is proceedImport; the dialog stays until the import
\* has ended.  Close is cancelImport or, for a reimport, skipImport, and the dialog
\* closes at once.  The autosaves are always ignored for a reimport.
Answer(choice) ==
    /\ main = "asking" /\ ~InsideCall
    /\ reimport => "ignore" \in choice
    /\ IF reimport THEN "cancel" \notin choice ELSE "skip" \notin choice
    /\ m_ImportQueue' = IF "skip" \in choice THEN {} ELSE m_ImportQueue
    /\ m_IgnoreBackupsAtImport' = ("ignore" \in choice)
    /\ m_IsCancelled' = ("cancel" \in choice)
    /\ asked' = [b \in Artworks |-> IF b \in m_ArtworksToRead /\ asked[b] \notin Left
                                   THEN choice ELSE asked[b]]
    /\ JustEnded(User)
    /\ user' = "ended"
    /\ main' = "waiting"
    /\ closed' = (choice \cap {"cancel", "skip"} # {})
    /\ UNCHANGED <<imports, m_ArtworksToRead, reimport, m_StorageReadBatchID, reader, posted,
                   file, content, flags, added, storageVars>>

\* Keys.onEscapePressed, and the rejected question for exiftool, close the dialog
\* and tell the hub nothing.
Escape ==
    /\ MayEscape
    /\ main = "asking" /\ ~InsideCall
    /\ main' = "free"
    /\ asked' = [a \in Artworks |-> Escaped]
    /\ UNCHANGED <<coordinatorVars, closed, imports, m_ArtworksToRead, reimport, m_StorageReadBatchID,
                   m_IgnoreBackupsAtImport, m_IsCancelled, user, readerVars, posted,
                   file, content, flags, added, storageVars>>

-----------------------------------------------------------------------------
(* The end of an import. *)

\* The main thread was last, with the click or, when an end of an overtaken import
\* was counted too, with allBegun: the slot is called at once.
MainReports(p) ==
    /\ main' = IF m_StatusReported = 0 THEN "initializing" ELSE main
    /\ ReportAllDone(p)
    /\ UNCHANGED <<closed, imports, m_ArtworksToRead, reimport, m_StorageReadBatchID, user,
                   m_IgnoreBackupsAtImport, m_IsCancelled, readerVars, posted, artworkVars,
                   storageVars>>

\* A reading thread was last: the slot is posted to the main thread.
FinishCall(p) ==
    /\ posted' = IF m_StatusReported = 0 THEN posted + 1 ELSE posted
    /\ ReportAllDone(p)
    /\ UNCHANGED <<hubVars, readerVars, artworkVars, storageVars>>

\* initializeArtworks
Initialized(a) ==
    IF a \notin m_ImportQueue THEN InitAsEmpty(a)
    ELSE IF m_IsCancelled
           THEN [InitFromOrigin(a, Empty, m_IgnoreBackupsAtImport) EXCEPT !.flags = @ \ {"FileSize"}]
           ELSE InitFromOrigin(a, file[a], m_IgnoreBackupsAtImport)

QueuedOnly(batches) == m_CancelledImports

BatchAfter(batches) == m_CancelledImports \cup {b + 1 : b \in batches}

\* MetadataIOWorker::cancelBatch: what was read already is dropped at its import.
CancelledWith(batches) == m_CancelledImports \cup batches

AddWithoutSeparator(artworks) == JobsOf(artworks, "Add", INVALID_BATCH_ID)

\* MetadataIOService::addArtworks
AddJobs(artworks) == JobsOf(artworks, "Add", INVALID_BATCH_ID) \o Separator

OnCanInitialize ==
    /\ \/ main = "initializing" /\ UNCHANGED posted
       \/ /\ posted > 0 /\ main \in {"free", "asking", "waiting"} /\ ~InsideCall
          /\ posted' = posted - 1
    /\ LET batches == IF m_IgnoreBackupsAtImport THEN {m_StorageReadBatchID} ELSE {}
           kept == Without(queue, batches \ {INVALID_BATCH_ID})
       IN  /\ m_CancelledImports' = CancelledWith(batches)
           /\ queue' = IF m_IsCancelled THEN kept ELSE kept \o AddJobs(m_ArtworksToRead)
    /\ Update(m_ArtworksToRead, Initialized)
    /\ m_ArtworksToRead' = {} /\ m_ImportQueue' = {}
    /\ main' = "free" /\ closed' = FALSE
    /\ UNCHANGED <<coordinatorVars, imports, reimport, m_StorageReadBatchID, user,
                   m_IgnoreBackupsAtImport, m_IsCancelled, reader, file, asked, added,
                   busy, m_StorageReadQueue, ready, m_AddWal, db>>

\* The user edits an artwork; edits of what is not initialised are refused.
Edit(a) ==
    /\ NoDialog
    /\ Has(a, "Initialized")
    /\ content[a].title # "user"
    /\ content' = [content EXCEPT ![a].title = "user"]
    /\ flags' = [flags EXCEPT ![a] = @ \cup {"Modified"}]
    /\ UNCHANGED <<coordinatorVars, hubVars, readerVars, posted, file, asked, added,
                   storageVars>>

\* onReadyToImportFromStorage, importArtworksFromStorage
ImportFromStorage ==
    /\ ready
    /\ main \in {"free", "asking", "waiting"} /\ ~InsideCall
    /\ ready' = FALSE
    /\ m_StorageReadQueue' = {}
    /\ LET requests == {r \in m_StorageReadQueue : r.batch \notin m_CancelledImports}
           Backup(a) == (CHOOSE r \in requests : r.artwork = a).backup
           New(a) == InitFromStorage(a, Backup(a))
       IN  Update({r.artwork : r \in requests}, New)
    /\ UNCHANGED <<coordinatorVars, hubVars, readerVars, posted, file, asked, added, queue,
                   busy, m_CancelledImports, m_AddWal, db>>

-----------------------------------------------------------------------------
(* The reading threads. *)

\* parseExiftoolOutput pushes what exiftool has read.
Push(i, a) ==
    /\ reader[i].pc = "running"
    /\ a \in reader[i].left
    /\ reader' = [reader EXCEPT ![i].left = @ \ {a}]
    /\ m_ImportQueue' = m_ImportQueue \cup {a}
    /\ UNCHANGED <<coordinatorVars, hubVars, posted, artworkVars, storageVars>>

\* The IO finalizer at the end of process(); exiftool may have failed before.
EndReading(i) ==
    /\ reader[i].pc = "running"
    /\ reader' = [reader EXCEPT ![i] = [pc |-> "ended", left |-> {}]]
    /\ JustEnded(i)
    /\ UNCHANGED <<hubVars, m_ImportQueue, posted, artworkVars, storageVars>>

-----------------------------------------------------------------------------
(* The metadata IO worker. *)

TakeJob ==
    /\ busy = NoJob
    /\ queue # <<>>
    /\ busy' = Head(queue)
    /\ queue' = Tail(queue)
    /\ UNCHANGED <<coordinatorVars, hubVars, readerVars, posted, artworkVars,
                   m_StorageReadQueue, ready, m_CancelledImports, m_AddWal, db>>

\* sync: tryAddMany leaves existing records alone.
Flush(wal) ==
    /\ db' = [a \in Artworks |-> IF db[a] = NoBackup THEN wal[a] ELSE db[a]]
    /\ m_AddWal' = [a \in Artworks |-> NoBackup]

\* The end of processReadWriteItem: every METADATA_CACHE_SYNC_INTERVAL jobs it
\* syncs, and it signals when the read queue is long; both may be due at any job.
AfterReadWrite(wal, sync, signal) ==
    /\ IF sync THEN Flush(wal) ELSE m_AddWal' = wal /\ UNCHANGED db
    /\ ready' = (ready \/ signal)

ProcessRead(sync, signal) ==
    /\ busy # NoJob /\ busy.kind = "Read"
    /\ busy' = NoJob
    /\ m_StorageReadQueue' =
           IF db[busy.artwork] = NoBackup THEN m_StorageReadQueue
           ELSE m_StorageReadQueue \cup {[artwork |-> busy.artwork, batch |-> busy.batch,
                                          backup |-> db[busy.artwork]]}
    /\ AfterReadWrite(m_AddWal, sync, signal)
    /\ UNCHANGED <<coordinatorVars, hubVars, readerVars, posted, artworkVars, queue,
                   m_CancelledImports>>

\* save(artwork, false) takes the metadata the artwork has now.
ProcessAdd(sync, signal) ==
    /\ busy # NoJob /\ busy.kind = "Add"
    /\ busy' = NoJob
    /\ AfterReadWrite([m_AddWal EXCEPT ![busy.artwork] = content[busy.artwork]], sync, signal)
    /\ UNCHANGED <<coordinatorVars, hubVars, readerVars, posted, artworkVars, queue,
                   m_StorageReadQueue, m_CancelledImports>>

SeparatorSyncsOnly ==
    /\ busy # NoJob /\ busy.kind = "separator"
    /\ busy' = NoJob
    /\ Flush(m_AddWal)
    /\ UNCHANGED <<coordinatorVars, hubVars, readerVars, posted, artworkVars, queue, ready,
                   m_StorageReadQueue, m_CancelledImports>>

ProcessSeparator ==
    /\ busy # NoJob /\ busy.kind = "separator"
    /\ busy' = NoJob
    /\ Flush(m_AddWal)
    /\ ready' = TRUE
    /\ UNCHANGED <<coordinatorVars, hubVars, readerVars, posted, artworkVars, queue,
                   m_StorageReadQueue, m_CancelledImports>>

WorkerStep ==
    \/ TakeJob \/ ProcessSeparator
    \/ \E sync, signal \in BOOLEAN : ProcessRead(sync, signal) \/ ProcessAdd(sync, signal)

-----------------------------------------------------------------------------
MainStep == AwaitClick \/ StartReader \/ StartAccepting

Next ==
    \/ \E artworks \in (SUBSET (Artworks \ added)) \ {{}} : AddFiles(artworks)
    \/ \E artworks \in (SUBSET added) \ {{}} : Reimport(artworks)
    \/ \E choice \in Answers : Answer(choice)
    \/ \E a \in Artworks : Edit(a)
    \/ MainStep \/ Escape \/ OnCanInitialize \/ ImportFromStorage
    \/ \E i \in Imports : EndReading(i) \/ \E a \in Artworks : Push(i, a)
    \/ \E p \in {Main, User} : MainReports(p)
    \/ \E p \in Imports : FinishCall(p)
    \/ WorkerStep

Spec == Init /\ [][Next]_vars

\* Every thread and the event loop run on, and exiftool ends.  The user need not
\* answer.
Fairness ==
    /\ WF_vars(MainStep) /\ WF_vars(WorkerStep)
    /\ WF_vars(OnCanInitialize) /\ WF_vars(ImportFromStorage)
    /\ \A p \in {Main, User} : WF_vars(MainReports(p))
    /\ \A i \in Imports : WF_vars(EndReading(i)) /\ WF_vars(FinishCall(i))

FairSpec == Spec /\ Fairness

-----------------------------------------------------------------------------
\* The types of the state.
TypeOK ==
    /\ m_OpCount \in Int /\ m_StatusReported \in {0, 1} /\ m_Timer \in BOOLEAN
    /\ lastEnded \subseteq {Main, User} \cup Imports /\ emitted \in Seq(Statuses)
    /\ main \in {"free", "opened", "announced", "reading", "asking", "waiting",
                 "initializing"}
    /\ closed \in BOOLEAN /\ imports \in 0..MaxImports
    /\ added \subseteq Artworks
    /\ m_ArtworksToRead \subseteq added /\ m_ImportQueue \subseteq added
    /\ reimport \in BOOLEAN /\ m_IgnoreBackupsAtImport \in BOOLEAN
    /\ m_IsCancelled \in BOOLEAN
    /\ m_StorageReadBatchID \in 0..imports
    /\ user \in {"none", "running", "ended"}
    /\ reader \in [Imports -> [pc : {"none", "running", "ended"}, left : SUBSET added]]
    /\ posted \in Nat
    /\ file \in [Artworks -> FileValues]
    /\ content \in [Artworks -> Metadata]
    /\ flags \in [Artworks -> SUBSET Flags]
    /\ asked \in [Artworks -> Answers \cup Left \cup {NoAnswer}]
    /\ queue \in Seq(JobType) /\ busy \in JobType \cup {NoJob}
    /\ m_StorageReadQueue \subseteq [artwork : Artworks, batch : 0..MaxImports,
                                    backup : Metadata]
    /\ ready \in BOOLEAN
    /\ m_CancelledImports \subseteq 0..imports
    /\ m_AddWal \in [Artworks -> Metadata \cup {NoBackup}]
    /\ db \in [Artworks -> Metadata \cup {NoBackup}]

\* cancelBatch: backups the user asked to ignore never reach an artwork, wherever
\* their reading was when the import ended: queued, being read, or read.
BackupKeywords == (UNION {v.keywords : v \in BackupValues}) \
                  (UNION {v.keywords : v \in FileValues})
IgnoredStaysOut ==
    \A a \in Artworks :
        (asked[a] \in Answers /\ "ignore" \in asked[a] /\ Has(a, "Initialized")
             /\ a \notin m_ArtworksToRead)
        => content[a].keywords \cap BackupKeywords = {}

\* initFromStorageAfterOriginUnsafe: a backup that arrives late leaves the user's
\* edits alone; only a new import of the artwork ends them.
EditsSurvive ==
    [][\A a \in Artworks :
          content[a].title = "user" /\ content'[a].title # "user"
              => a \in m_ArtworksToRead /\ reimport]_vars

\* readyToImportFromStorage: no backup that was asked for is stranded in the
\* worker or in the read queue.
IsBeingRead(a) ==
    \/ \E i \in DOMAIN queue : queue[i].kind = "Read" /\ queue[i].artwork = a
    \/ busy # NoJob /\ busy.kind = "Read" /\ busy.artwork = a
    \/ \E r \in m_StorageReadQueue : r.artwork = a
ReadsAreImported == \A a \in Artworks : IsBeingRead(a) ~> ~IsBeingRead(a)

\* onCanInitialize: an import the user has answered ends, with every artwork
\* initialised and, unless cancelled, in the storage.  The one exception: the user
\* has closed the dialog and begun the next import before exiftool ended, which
\* takes the hub over, and the artworks of the first are never initialised.
ImportEnds ==
    \A a \in Artworks :
        (main = "waiting" /\ a \in m_ArtworksToRead /\ asked[a] \in Answers)
            ~> (\/ /\ Has(a, "Initialized")
                   /\ "cancel" \in asked[a] \/ db[a] # NoBackup
                \/ asked[a] = Overtaken)

\* initFromOrigin and initFromStorage may come in either order and the title is
\* the same: that of the file or, where it has none, that of the backup.
Quiet ==
    /\ m_ArtworksToRead = {} /\ main = "free" /\ ~ready
    /\ \A a \in Artworks : ~IsBeingRead(a)
Merged(a) ==
    /\ Has(a, "FileSize") /\ ~Has(a, "ReimportPending")
    /\ asked[a] \in Answers /\ "ignore" \notin asked[a]
    /\ content[a].title # "user"
SourcesCommute ==
    Quiet => \A a \in Artworks :
        Merged(a) /\ db[a] # NoBackup
            => content[a].title = IF file[a].title # "" THEN file[a].title ELSE db[a].title

\* The hub uses its coordinator by its protocol: two operations a round, the click
\* and the reading thread, and one end of the import.  It does so until a dialog is
\* escaped or an import begins while the hub waits for a closed one; from then on
\* a round may be reset under a thread that still counts down.
Rounds == INSTANCE CoordinatorRounds WITH
    Operations <- {User} \cup Imports,
    Owner <- Main,
    MaxRounds <- MaxImports,
    interruptible <- FALSE,
    owner <- IF imports = 0 \/ main \in {"opened", "announced", "reading"} THEN "open"
             ELSE IF main = "free" THEN "idle" ELSE "closed",
    operation <- [o \in {User} \cup Imports |->
                    IF o = User THEN user ELSE IF o = imports THEN reader[o].pc ELSE "none"],
    rounds <- IF imports = 0 THEN 1 ELSE imports

NoneLeft == \A a \in Artworks : asked[a] \notin Left
FollowsRounds ==
    Rounds!Init /\ [][NoneLeft' => Rounds!Next \/ UNCHANGED Rounds!vars]_vars

\* artworkmetadata.cpp, "we should not even get here when reimporting": a backup is
\* never imported into an artwork that awaits its reimport.  It is violated by a
\* reading of the first import that is still in the worker.
ReimportSeesNoBackup ==
    [][ImportFromStorage =>
          \A r \in m_StorageReadQueue :
              r.batch \notin m_CancelledImports => ~Has(r.artwork, "ReimportPending")]_vars

=============================================================================
